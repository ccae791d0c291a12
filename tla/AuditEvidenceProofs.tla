------------------------- MODULE AuditEvidenceProofs -------------------------
(* Proofs about the audit log and its copies, for any number of archives,   *)
(* operators, keys, records and foreign changes.                            *)
EXTENDS AuditEvidence, TLAPS

RemotePcs == {"put", "putting", "stored", "acking", "preparing", "delete", "deleting",
              "observing", "finish"}
Pcs == {"idle", "signing", "vaulted"} \cup RemotePcs
LocalCommands == {"none", "store", "create-kms-signed"}
Contents == {"none", "copy", "other"}
Verdicts == {"UNKNOWN"} \cup FinalStates

Rows == [state : {"none", "stored", "pruned"}, after : 0..MaxRecords,
         through : 0..MaxRecords, key : Keys \cup {NoOne}]
Objects == [content : Contents, etag : Nat]
Commands == [cmd : LocalCommands \cup RemoteCommands, pc : Pcs, x : Archives \cup {NoOne},
             after : 0..MaxRecords, through : 0..MaxRecords, key : Keys \cup {NoOne},
             etag : Nat, verdict : Contents \cup Verdicts]
Messages == [method : {"PUT", "DELETE"}, x : Archives, etag : Nat, to : Operators \cup {NoOne}]

LogTyped ==
  /\ log \in Seq({"open", "done"}) /\ Len(log) <= MaxRecords
  /\ calls \subseteq {n \in DOMAIN log : log[n] = "open"}
  /\ revoked \subseteq Keys

CopiesTyped ==
  /\ archive \in [Archives -> Rows]
  /\ vault \in [Archives -> Contents]
  /\ remote \in [Archives -> Objects]
  /\ prune \in [Archives -> {"none"} \cup Unresolved \cup FinalStates]
  /\ deletes \in [Archives -> Nat]
  /\ vaultAck \subseteq Archives /\ remoteAck \subseteq Archives
  /\ purged \subseteq Archives /\ foreign \subseteq Archives
  /\ provider \in {"plain", "versioned"}

(* A command at work has an archive, a remote one holds its lock, and the   *)
(* archive that waits for its signature is complete.                        *)
Assigned(it) ==
  /\ it.pc \in RemotePcs <=> it.cmd \in RemoteCommands
  /\ it.pc # "idle" => it.x \in Archives
  /\ it.pc = "signing" => it.key \in Keys
  /\ it.pc = "finish" => it.verdict \in Verdicts

OpTyped ==
  /\ op \in [Operators -> Commands]
  /\ \A o \in Operators : Assigned(op[o])

(* A gapless run of calls that are over. *)
Closed(after, through) ==
  /\ after < through
  /\ \A n \in after + 1..through : n \in DOMAIN log /\ log[n] = "done"

(* Who waits for an answer is the one that sent the request, and it waits   *)
(* for one.                                                                 *)
WireTyped ==
  /\ wire \subseteq Messages
  /\ \A m \in wire : m.to # NoOne =>
       op[m.to].pc = (IF m.method = "PUT" THEN "putting" ELSE "deleting")
  /\ \A m, n \in wire : m.to # NoOne /\ m.to = n.to => m = n

Typed == LogTyped /\ CopiesTyped /\ OpTyped /\ WireTyped

(* The steps, by what they write. *)
LogStep == BeginCall \/ (\E n \in calls : EndCall(n)) \/ (\E k \in Keys : RevokeKey(k))
Archiving(x) ==
  \E after \in 0..Len(log) : \E through \in Prefix(after) :
    \E k \in Keys \cup {NoOne} : ArchiveAudit(x, after, through, k)
Signing(o, x) ==
  \E after \in 0..Len(log) : \E through \in Prefix(after) :
    \E k \in Keys : PrepareKms(o, x, after, through, k)
CopyStep(x) == PruneLocal(x) \/ PurgeVersion(x) \/ ForeignWrite(x) \/ ForeignVault(x)
BeginStep(o, x) ==
  Signing(o, x) \/ PublishVault(o, x) \/ BeginStore(o, x) \/ BeginPrune(o, x) \/ BeginReconcile(o, x)
LocalStep(o) == PublishKms(o) \/ AckVault(o)
RemoteStep(o) ==
  \/ PutObject(o) \/ ReadBack(o) \/ AckRemote(o) \/ PreparePrune(o) \/ DeleteObject(o)
  \/ NoReply(o) \/ Observe(o) \/ FinishPrune(o) \/ OperatorDies(o)

USE EvidenceAssumption DEF RemoteCommands

----------------------------------------------------------------------------
LEMMA Steps ==
  EvidenceNext =>
    \/ LogStep \/ HandlePut \/ HandleDelete
    \/ \E x \in Archives : Archiving(x) \/ CopyStep(x) \/ \E o \in Operators : BeginStep(o, x)
    \/ \E o \in Operators : LocalStep(o) \/ RemoteStep(o)
<1>1. ASSUME NEW x \in Archives, NEW after \in 0..Len(log), NEW through \in Prefix(after),
             \/ \E k \in Keys \cup {NoOne} : ArchiveAudit(x, after, through, k)
             \/ \E k \in Keys, o \in Operators : PrepareKms(o, x, after, through, k)
      PROVE  Archiving(x) \/ \E o \in Operators : BeginStep(o, x)
  <2>1. CASE \E k \in Keys \cup {NoOne} : ArchiveAudit(x, after, through, k)
    BY <2>1 DEF Archiving
  <2>2. CASE \E k \in Keys, o \in Operators : PrepareKms(o, x, after, through, k)
    BY <2>2 DEF BeginStep, Signing
  <2> QED BY <1>1, <2>1, <2>2
<1>2. ASSUME NEW x \in Archives,
             \/ CopyStep(x)
             \/ \E o \in Operators : \/ PublishVault(o, x) \/ BeginStore(o, x)
                                     \/ BeginPrune(o, x) \/ BeginReconcile(o, x)
      PROVE  CopyStep(x) \/ \E o \in Operators : BeginStep(o, x)
  BY <1>2 DEF BeginStep
<1> QED BY <1>1, <1>2, Zenon DEF EvidenceNext, LogStep, CopyStep, LocalStep, RemoteStep

----------------------------------------------------------------------------
LEMMA TypedInit == EvidenceInit => Typed
<1> SUFFICES ASSUME EvidenceInit PROVE Typed
  OBVIOUS
<1> USE DEF EvidenceInit
<1>1. LogTyped
  BY DEF LogTyped
<1>2. CopiesTyped
  BY DEF CopiesTyped, NoArchive, Rows, Contents, Objects
<1>3. OpTyped
  BY DEF OpTyped, Done, Commands, LocalCommands, Pcs, RemotePcs, Contents, Assigned
<1>4. WireTyped
  BY DEF WireTyped
<1> QED BY <1>1, <1>2, <1>3, <1>4 DEF Typed

(* The three ways in which a command changes: it begins, ends or goes on. *)
LEMMA OpChanges ==
  ASSUME OpTyped, NEW o \in Operators, NEW it \in Commands, Assigned(it),
         op' = [op EXCEPT ![o] = it]
  PROVE  /\ OpTyped'
         /\ op'[o] = it /\ \A p \in Operators : p # o => op'[p] = op[p]
BY DEF OpTyped

LEMMA DoneIsCommand == Done \in Commands /\ Assigned(Done) /\ Done.pc = "idle" /\ Done.x = NoOne
                       /\ Done.cmd = "none"
BY DEF Done, Commands, LocalCommands, Pcs, RemotePcs, Contents, Assigned

LEMMA PcOf ==
  ASSUME OpTyped, NEW o \in Operators, NEW pc \in Pcs, op' = [op EXCEPT ![o].pc = pc],
         op[o].pc # "idle", pc \in RemotePcs, op[o].pc \in RemotePcs, pc # "finish"
  PROVE  /\ OpTyped'
         /\ op'[o].pc = pc /\ op'[o].x = op[o].x /\ op'[o].cmd = op[o].cmd
         /\ op'[o].verdict = op[o].verdict /\ op'[o].etag = op[o].etag
         /\ \A p \in Operators : p # o => op'[p] = op[p]
<1> DEFINE it == [op[o] EXCEPT !.pc = pc]
<1>1. op[o] \in Commands /\ Assigned(op[o])
  BY DEF OpTyped
<1>2. it \in Commands
  BY <1>1 DEF Commands
<1>3. /\ it.pc = pc /\ it.x = op[o].x /\ it.cmd = op[o].cmd /\ it.key = op[o].key
      /\ it.verdict = op[o].verdict /\ it.etag = op[o].etag
  BY <1>1 DEF Commands
<1>4. Assigned(it)
  BY <1>1, <1>3 DEF Assigned, RemotePcs
<1>5. op' = [op EXCEPT ![o] = it]
  OBVIOUS
<1> HIDE DEF it
<1> QED BY <1>2, <1>3, <1>4, <1>5, OpChanges

LEMMA PcAndVerdictOf ==
  ASSUME OpTyped, NEW o \in Operators, NEW pc \in RemotePcs, NEW verdict \in {"none"} \cup Verdicts,
         op' = [op EXCEPT ![o].pc = pc, ![o].verdict = verdict],
         op[o].pc \in RemotePcs, pc = "finish" => verdict \in Verdicts
  PROVE  /\ OpTyped'
         /\ op'[o].pc = pc /\ op'[o].x = op[o].x /\ op'[o].cmd = op[o].cmd
         /\ op'[o].verdict = verdict
         /\ \A p \in Operators : p # o => op'[p] = op[p]
<1> DEFINE it == [op[o] EXCEPT !.pc = pc, !.verdict = verdict]
<1>1. op[o] \in Commands /\ Assigned(op[o])
  BY DEF OpTyped
<1>2. it \in Commands
  BY <1>1 DEF Commands, Pcs, Contents
<1>3. /\ it.pc = pc /\ it.x = op[o].x /\ it.cmd = op[o].cmd /\ it.key = op[o].key
      /\ it.verdict = verdict
  BY <1>1 DEF Commands
<1>4. Assigned(it)
  BY <1>1, <1>3 DEF Assigned, RemotePcs
<1>5. op' = [op EXCEPT ![o] = it]
  BY DEF OpTyped, Commands
<1> HIDE DEF it
<1> QED BY <1>2, <1>3, <1>4, <1>5, OpChanges

----------------------------------------------------------------------------
(* What a step does to the commands and to what they write down: nothing,   *)
(* or one command begins, goes on, ends, or makes one of its records.       *)
Stops(o) == op'[o] = Done /\ UNCHANGED <<prune, deletes>>
Starts(o) ==
  /\ op[o].pc = "idle" /\ UNCHANGED <<prune, deletes>>
  /\ \/ op'[o].pc = "signing" /\ Closed(op'[o].after, op'[o].through)
     \/ op'[o].pc = "vaulted"
     \/ /\ op'[o].pc \in {"put", "preparing", "observing"}
        /\ \A p \in Operators : op[p].cmd \in RemoteCommands => op[p].x # op'[o].x
        /\ op'[o].pc = "preparing" => prune[op'[o].x] = "none"
        /\ op'[o].pc = "observing" => prune[op'[o].x] # "none"
Stays(o) == op'[o].x = op[o].x /\ op'[o].cmd = op[o].cmd
GoesOn(o) ==
  /\ Stays(o) /\ UNCHANGED <<prune, deletes>>
  /\ \/ op[o].pc \in {"put", "putting", "stored"} /\ op'[o].pc \in {"putting", "stored", "acking"}
     \/ op[o].pc \in {"deleting", "observing"} /\ op'[o].pc \in {"observing", "finish"}
Prepares(o) ==
  /\ Stays(o) /\ UNCHANGED deletes
  /\ op[o].pc = "preparing" /\ op'[o].pc = "delete"
  /\ archive[op[o].x].state = "stored" /\ UNCHANGED archive
  /\ prune' = [prune EXCEPT ![op[o].x] = "PREPARED"]
Deletes(o) ==
  /\ Stays(o) /\ UNCHANGED prune
  /\ op[o].pc = "delete" /\ op'[o].pc = "deleting"
  /\ deletes' = [deletes EXCEPT ![op[o].x] = @ + 1]
Finishes(o) ==
  /\ op'[o] = Done /\ UNCHANGED deletes /\ op[o].pc = "finish"
  /\ prune' = IF prune[op[o].x] \in FinalStates THEN prune
              ELSE [prune EXCEPT ![op[o].x] = op[o].verdict]

Moves(o) ==
  /\ \A p \in Operators : p # o => op'[p] = op[p]
  /\ Stops(o) \/ Starts(o) \/ GoesOn(o) \/ Prepares(o) \/ Deletes(o) \/ Finishes(o)

OpStep ==
  /\ OpTyped' /\ WireTyped'
  /\ UNCHANGED <<op, prune, deletes>> \/ \E o \in Operators : Moves(o)

(* While an operator does not wait, no request on the wire is to be answered to it. *)
LEMMA NobodyWaits ==
  ASSUME Typed, NEW o \in Operators, op[o].pc \notin {"putting", "deleting"},
         NEW m \in wire
  PROVE  m.to # o
BY DEF Typed, WireTyped

LEMMA WireStays ==
  ASSUME Typed, NEW o \in Operators, OpTyped', UNCHANGED wire,
         op[o].pc \notin {"putting", "deleting"},
         \A p \in Operators : p # o => op'[p] = op[p]
  PROVE  WireTyped'
<1>1. \A m \in wire : m \in Messages /\ m.to # o
  BY NobodyWaits DEF Typed, WireTyped
<1> QED BY <1>1 DEF Typed, WireTyped, Messages

(* A command that is given up or finds an answer late: its requests go on.  *)
LEMMA WireForgets ==
  ASSUME Typed, NEW o \in Operators, OpTyped',
         wire' = {IF m.to = o THEN [m EXCEPT !.to = NoOne] ELSE m : m \in wire},
         \A p \in Operators : p # o => op'[p] = op[p]
  PROVE  WireTyped'
<1>1. \A m \in wire : m \in Messages
  BY DEF Typed, WireTyped
<1>2. \A m \in wire' : m \in Messages /\ m.to # o /\ (m.to # NoOne => m \in wire)
  BY <1>1 DEF Messages
<1> QED BY <1>2 DEF Typed, WireTyped, Messages

LEMMA WireSends ==
  ASSUME Typed, NEW o \in Operators, OpTyped',
         NEW method \in {"PUT", "DELETE"}, NEW etag \in Nat, Sends(o, method, etag),
         op[o].pc \in {"put", "delete"},
         op'[o].pc = (IF method = "PUT" THEN "putting" ELSE "deleting"),
         \A p \in Operators : p # o => op'[p] = op[p]
  PROVE  WireTyped'
<1> DEFINE sent == [method |-> method, x |-> op[o].x, etag |-> etag, to |-> o]
<1>1. op[o].x \in Archives
  BY DEF Typed, OpTyped, Assigned
<1>2. sent \in Messages /\ sent.to = o /\ sent.method = method
  BY <1>1 DEF Messages
<1>3. \A m \in wire : m \in Messages /\ m.to # o
  BY NobodyWaits DEF Typed, WireTyped
<1>4. wire' = wire \cup {sent}
  BY DEF Sends
<1> HIDE DEF sent
<1> QED BY <1>2, <1>3, <1>4 DEF Typed, WireTyped, Messages

(* prepare_snapshot stops before the first open record. *)
LEMMA PrefixIsClosed ==
  ASSUME Typed, NEW after \in 0..Len(log), NEW through \in Prefix(after)
  PROVE  Closed(after, through) /\ through \in 0..MaxRecords /\ after \in 0..MaxRecords
<1>1. Len(log) \in Nat /\ DOMAIN log = 1..Len(log) /\ Len(log) <= MaxRecords
  BY DEF Typed, LogTyped
<1> QED BY <1>1 DEF Prefix, Closed

(* Each command's step. *)
LEMMA CommandBegins ==
  ASSUME Typed, NEW o \in Operators, NEW it \in Commands, Assigned(it),
         op' = [op EXCEPT ![o] = it], op[o].pc = "idle", UNCHANGED <<wire, prune, deletes>>,
         \/ it.pc = "signing" /\ Closed(it.after, it.through)
         \/ it.pc = "vaulted"
         \/ /\ it.pc \in {"put", "preparing", "observing"} /\ LockIsFree(it.x)
            /\ it.pc = "preparing" => prune[it.x] = "none"
            /\ it.pc = "observing" => prune[it.x] # "none"
  PROVE  OpStep
<1>1. OpTyped' /\ op'[o] = it /\ \A p \in Operators : p # o => op'[p] = op[p]
  BY OpChanges DEF Typed
<1>2. WireTyped'
  BY <1>1, WireStays
<1>3. Starts(o)
  <2>1. CASE it.pc \in {"put", "preparing", "observing"} /\ LockIsFree(it.x)
    BY <1>1, <2>1 DEF Starts, LockIsFree
  <2>2. CASE it.pc \notin {"put", "preparing", "observing"}
    BY <1>1, <2>2 DEF Starts
  <2> QED BY <2>1, <2>2
<1> QED BY <1>1, <1>2, <1>3 DEF OpStep, Moves

LEMMA CommandEnds ==
  ASSUME Typed, NEW o \in Operators, OpEnds(o),
         \/ UNCHANGED wire /\ op[o].pc \notin {"putting", "deleting"}
         \/ wire' = {IF m.to = o THEN [m EXCEPT !.to = NoOne] ELSE m : m \in wire}
  PROVE  /\ OpTyped' /\ WireTyped' /\ op'[o] = Done
         /\ \A p \in Operators : p # o => op'[p] = op[p]
<1>1. OpTyped' /\ op'[o] = Done /\ \A p \in Operators : p # o => op'[p] = op[p]
  BY OpChanges, DoneIsCommand DEF Typed, OpEnds
<1>2. WireTyped'
  BY <1>1, WireStays, WireForgets
<1> QED BY <1>1, <1>2

LEMMA LocalSteps ==
  ASSUME Typed, NEW o \in Operators, NEW x \in Archives,
         Signing(o, x) \/ PublishVault(o, x) \/ LocalStep(o)
  PROVE  OpStep
<1>1. ASSUME NEW after \in 0..Len(log), NEW through \in Prefix(after), NEW k \in Keys,
             PrepareKms(o, x, after, through, k)
      PROVE  OpStep
  <2> DEFINE it == [Done EXCEPT !.cmd = "create-kms-signed", !.pc = "signing", !.x = x,
                                !.after = after, !.through = through, !.key = k]
  <2>1. after \in 0..MaxRecords /\ through \in 0..MaxRecords
    BY DEF Prefix, Typed, LogTyped
  <2>2. it \in Commands /\ Assigned(it) /\ it.pc = "signing"
    BY <2>1, DoneIsCommand DEF Done, Commands, LocalCommands, Pcs, RemotePcs, Contents, Assigned
  <2>3. op' = [op EXCEPT ![o] = it] /\ op[o].pc = "idle" /\ UNCHANGED <<wire, prune, deletes>>
    BY <1>1 DEF PrepareKms, OpAt, pruneVars
  <2>4. Closed(it.after, it.through)
    BY PrefixIsClosed DEF Done
  <2> HIDE DEF it
  <2> QED BY <2>2, <2>3, <2>4, CommandBegins
<1>2. ASSUME PublishVault(o, x)
      PROVE  OpStep
  <2> DEFINE it == [Done EXCEPT !.cmd = "store", !.pc = "vaulted", !.x = x]
  <2>1. it \in Commands /\ Assigned(it) /\ it.pc = "vaulted"
    BY DoneIsCommand DEF Done, Commands, LocalCommands, Pcs, RemotePcs, Contents, Assigned
  <2>2. op' = [op EXCEPT ![o] = it] /\ op[o].pc = "idle" /\ UNCHANGED <<wire, prune, deletes>>
    BY <1>2 DEF PublishVault, OpAt, pruneVars
  <2> HIDE DEF it
  <2> QED BY <2>1, <2>2, CommandBegins
<1>3. ASSUME LocalStep(o)
      PROVE  OpStep
  <2>1. /\ OpEnds(o) /\ UNCHANGED <<wire, prune, deletes>>
        /\ op[o].pc \notin {"putting", "deleting"}
    BY <1>3 DEF LocalStep, PublishKms, AckVault, OpAt, pruneVars
  <2>2. /\ OpTyped' /\ WireTyped' /\ op'[o] = Done
        /\ \A p \in Operators : p # o => op'[p] = op[p]
    BY <2>1, CommandEnds
  <2> QED BY <2>1, <2>2 DEF OpStep, Moves, Stops
<1> QED BY <1>1, <1>2, <1>3 DEF Signing

LEMMA RemoteBegins ==
  ASSUME Typed, NEW o \in Operators, NEW x \in Archives,
         BeginStore(o, x) \/ BeginPrune(o, x) \/ BeginReconcile(o, x)
  PROVE  OpStep
<1>1. ASSUME NEW cmd \in RemoteCommands, NEW pc \in {"put", "observing"}, BeginCommand(o, x, cmd, pc),
             UNCHANGED <<wire, prune, deletes>>, pc = "observing" => prune[x] # "none"
      PROVE  OpStep
  <2> DEFINE it == [Done EXCEPT !.cmd = cmd, !.pc = pc, !.x = x]
  <2>1. it \in Commands /\ Assigned(it) /\ it.pc = pc /\ it.x = x
    BY DoneIsCommand DEF Done, Commands, LocalCommands, Pcs, RemotePcs, Contents, Assigned
  <2>2. op' = [op EXCEPT ![o] = it] /\ op[o].pc = "idle" /\ LockIsFree(x)
    BY <1>1 DEF BeginCommand, OpAt
  <2> HIDE DEF it
  <2> QED BY <1>1, <2>1, <2>2, CommandBegins
<1>2. CASE BeginStore(o, x)
  BY <1>1, <1>2 DEF BeginStore, pruneVars
<1>3. CASE BeginReconcile(o, x)
  BY <1>1, <1>3 DEF BeginReconcile, pruneVars, Unresolved
<1>4. CASE BeginPrune(o, x)
  <2> DEFINE it == [Done EXCEPT !.cmd = "remote-prune", !.x = x, !.etag = remote[x].etag,
                                !.pc = "preparing", !.verdict = remote[x].content]
  <2>1. remote[x].etag \in Nat /\ remote[x].content \in Contents
    BY DEF Typed, CopiesTyped, Objects
  <2>2. it \in Commands /\ Assigned(it) /\ it.pc = "preparing" /\ it.x = x
    BY <2>1, DoneIsCommand DEF Done, Commands, LocalCommands, Pcs, RemotePcs, Contents, Assigned
  <2>3. /\ op' = [op EXCEPT ![o] = it] /\ op[o].pc = "idle" /\ LockIsFree(x)
        /\ prune[x] = "none" /\ UNCHANGED <<wire, prune, deletes>>
    BY <1>4 DEF BeginPrune, OpAt, pruneVars
  <2> HIDE DEF it
  <2> QED BY <2>2, <2>3, CommandBegins
<1> QED BY <1>2, <1>3, <1>4

LEMMA RemoteGoesOn ==
  ASSUME Typed, NEW o \in Operators,
         RemoteStep(o)
  PROVE  OpStep
<1> USE DEF Typed
<1>1. CASE PutObject(o)
  <2>1. op[o].pc = "put" /\ OpGoes(o, "putting") /\ Sends(o, "PUT", 0) /\ UNCHANGED <<prune, deletes>>
    BY <1>1 DEF PutObject, OpAt, pruneVars
  <2>2. /\ OpTyped' /\ op'[o].pc = "putting" /\ op'[o].x = op[o].x /\ op'[o].cmd = op[o].cmd
        /\ \A p \in Operators : p # o => op'[p] = op[p]
    BY <2>1, PcOf DEF OpGoes, Pcs, RemotePcs
  <2>3. WireTyped'
    BY <2>1, <2>2, WireSends
  <2> QED BY <2>1, <2>2, <2>3 DEF OpStep, Moves, GoesOn, Stays
<1>2. CASE ReadBack(o)
  <2>1. op[o].pc = "stored" /\ UNCHANGED <<wire, prune, deletes>> /\ (OpGoes(o, "acking") \/ OpEnds(o))
    BY <1>2 DEF ReadBack, OpAt, pruneVars
  <2>2. CASE OpEnds(o)
    BY <2>1, <2>2, CommandEnds DEF OpStep, Moves, Stops
  <2>3. CASE OpGoes(o, "acking")
    <3>1. /\ OpTyped' /\ op'[o].pc = "acking" /\ op'[o].x = op[o].x /\ op'[o].cmd = op[o].cmd
          /\ \A p \in Operators : p # o => op'[p] = op[p]
      BY <2>1, <2>3, PcOf DEF OpGoes, Pcs, RemotePcs
    <3>2. WireTyped'
      BY <2>1, <3>1, WireStays
    <3> QED BY <2>1, <3>1, <3>2 DEF OpStep, Moves, GoesOn, Stays
  <2> QED BY <2>1, <2>2, <2>3
<1>3. CASE AckRemote(o)
  <2>1. op[o].pc = "acking" /\ UNCHANGED <<wire, prune, deletes>> /\ OpEnds(o)
    BY <1>3 DEF AckRemote, OpAt
  <2> QED BY <2>1, CommandEnds DEF OpStep, Moves, Stops
<1>4. CASE PreparePrune(o)
  <2>1. op[o].pc = "preparing" /\ UNCHANGED <<wire, deletes, archive>>
    BY <1>4 DEF PreparePrune, OpAt, OnlyOp
  <2>2. CASE OpEnds(o) /\ UNCHANGED prune
    BY <2>1, <2>2, CommandEnds DEF OpStep, Moves, Stops
  <2>3. CASE /\ archive[op[o].x].state = "stored" /\ OpGoes(o, "delete")
             /\ prune' = [prune EXCEPT ![op[o].x] = "PREPARED"]
    <3>1. /\ OpTyped' /\ op'[o].pc = "delete" /\ op'[o].x = op[o].x /\ op'[o].cmd = op[o].cmd
          /\ \A p \in Operators : p # o => op'[p] = op[p]
      BY <2>1, <2>3, PcOf DEF OpGoes, Pcs, RemotePcs
    <3>2. WireTyped'
      BY <2>1, <3>1, WireStays
    <3> QED BY <2>1, <2>3, <3>1, <3>2 DEF OpStep, Moves, Prepares, Stays
  <2> QED BY <1>4, <2>2, <2>3 DEF PreparePrune
<1>5. CASE DeleteObject(o)
  <2>1. /\ op[o].pc = "delete" /\ OpGoes(o, "deleting") /\ Sends(o, "DELETE", op[o].etag)
        /\ UNCHANGED prune /\ deletes' = [deletes EXCEPT ![op[o].x] = @ + 1]
    BY <1>5 DEF DeleteObject, OpAt
  <2>2. /\ OpTyped' /\ op'[o].pc = "deleting" /\ op'[o].x = op[o].x /\ op'[o].cmd = op[o].cmd
        /\ \A p \in Operators : p # o => op'[p] = op[p]
    BY <2>1, PcOf DEF OpGoes, Pcs, RemotePcs
  <2>3. op[o].etag \in Nat
    BY DEF OpTyped, Commands
  <2>4. WireTyped'
    BY <2>1, <2>2, <2>3, WireSends
  <2> QED BY <2>1, <2>2, <2>4 DEF OpStep, Moves, Deletes, Stays
<1>6. CASE NoReply(o)
  <2>1. /\ wire' = {IF m.to = o THEN [m EXCEPT !.to = NoOne] ELSE m : m \in wire}
        /\ UNCHANGED <<prune, deletes>>
    BY <1>6 DEF NoReply, pruneVars
  <2>2. CASE OpEnds(o)
    BY <2>1, <2>2, CommandEnds DEF OpStep, Moves, Stops
  <2>3. CASE op[o].pc = "deleting" /\ op' = [op EXCEPT ![o].pc = "finish", ![o].verdict = "UNKNOWN"]
    <3>1. /\ OpTyped' /\ op'[o].pc = "finish" /\ op'[o].x = op[o].x /\ op'[o].cmd = op[o].cmd
          /\ \A p \in Operators : p # o => op'[p] = op[p]
      BY <2>3, PcAndVerdictOf DEF RemotePcs, Verdicts
    <3>2. WireTyped'
      BY <2>1, <3>1, WireForgets
    <3> QED BY <2>1, <2>3, <3>1, <3>2 DEF OpStep, Moves, GoesOn, Stays
  <2> QED BY <1>6, <2>2, <2>3 DEF NoReply, OpAt
<1>7. CASE Observe(o)
  <2>1. PICK verdict \in {Observed(op[o].x), "UNKNOWN"} :
          op' = [op EXCEPT ![o].pc = "finish", ![o].verdict = verdict]
    BY <1>7 DEF Observe
  <2>2. op[o].pc = "observing" /\ UNCHANGED <<wire, prune, deletes>> /\ verdict \in Verdicts
    BY <1>7 DEF Observe, OpAt, pruneVars, Observed, Verdicts, FinalStates
  <2>3. /\ OpTyped' /\ op'[o].pc = "finish" /\ op'[o].x = op[o].x /\ op'[o].cmd = op[o].cmd
        /\ \A p \in Operators : p # o => op'[p] = op[p]
    BY <2>1, <2>2, PcAndVerdictOf DEF RemotePcs
  <2>4. WireTyped'
    BY <2>2, <2>3, WireStays
  <2> QED BY <2>2, <2>3, <2>4 DEF OpStep, Moves, GoesOn, Stays
<1>8. CASE FinishPrune(o)
  <2>1. /\ op[o].pc = "finish" /\ UNCHANGED <<wire, deletes>> /\ OpEnds(o)
        /\ prune' = IF prune[op[o].x] \in FinalStates THEN prune
                    ELSE [prune EXCEPT ![op[o].x] = op[o].verdict]
    BY <1>8 DEF FinishPrune, OpAt
  <2> QED BY <2>1, CommandEnds DEF OpStep, Moves, Finishes
<1>9. CASE OperatorDies(o)
  <2>1. /\ wire' = {IF m.to = o THEN [m EXCEPT !.to = NoOne] ELSE m : m \in wire}
        /\ UNCHANGED <<prune, deletes>> /\ OpEnds(o)
    BY <1>9 DEF OperatorDies, pruneVars
  <2> QED BY <2>1, CommandEnds DEF OpStep, Moves, Stops
<1> QED BY <1>1, <1>2, <1>3, <1>4, <1>5, <1>6, <1>7, <1>8, <1>9 DEF RemoteStep

(* The vault's answers go to who waits for them. *)
LEMMA AnswerArrives ==
  ASSUME Typed, NEW m \in wire, wire' = wire \ {m}, UNCHANGED <<prune, deletes>>,
         NEW pc \in {"stored", "observing", "finish"}, NEW verdict \in {"none"} \cup Verdicts,
         Answers(m, pc, verdict), pc = "finish" => verdict \in Verdicts,
         pc = "stored" <=> m.method = "PUT"
  PROVE  OpStep
<1> USE DEF Typed
<1>1. m \in Messages
  BY DEF WireTyped
<1>2. CASE m.to = NoOne
  <2>1. UNCHANGED op
    BY <1>2 DEF Answers
  <2> QED BY <2>1 DEF OpStep, OpTyped, WireTyped
<1>3. CASE m.to # NoOne
  <2> DEFINE o == m.to
  <2>1. o \in Operators /\ op[o].pc = (IF m.method = "PUT" THEN "putting" ELSE "deleting")
    BY <1>1, <1>3 DEF Messages, WireTyped
  <2>2. op' = [op EXCEPT ![o].pc = pc, ![o].verdict = verdict]
    BY <1>3 DEF Answers
  <2>0. \A n \in wire' : n.to # o
    BY <1>3 DEF WireTyped
  <2> HIDE DEF o
  <2>3. /\ OpTyped' /\ op'[o].pc = pc /\ op'[o].x = op[o].x /\ op'[o].cmd = op[o].cmd
        /\ \A p \in Operators : p # o => op'[p] = op[p]
    BY <2>1, <2>2, PcAndVerdictOf DEF RemotePcs
  <2>4. WireTyped'
    BY <2>0, <2>3 DEF WireTyped, Messages
  <2> QED BY <1>1, <2>1, <2>3, <2>4 DEF OpStep, Moves, GoesOn, Stays, Messages
<1> QED BY <1>2, <1>3

LEMMA EveryOpStep ==
  ASSUME Typed, EvidenceNext \/ UNCHANGED evidenceVars
  PROVE  OpStep
<1>1. ASSUME UNCHANGED <<op, wire, prune, deletes>>
      PROVE  OpStep
  BY <1>1 DEF Typed, OpStep, OpTyped, WireTyped
<1>2. CASE LogStep
  BY <1>1, <1>2 DEF LogStep, BeginCall, EndCall, RevokeKey, LogOnly, pruneVars
<1>3. ASSUME NEW x \in Archives, Archiving(x) \/ CopyStep(x)
      PROVE  OpStep
  BY <1>1, <1>3 DEF Archiving, CopyStep, ArchiveAudit, PruneLocal, PurgeVersion, ForeignWrite,
                    ForeignVault, RemoteOnly, pruneVars
<1>4. CASE HandlePut
  <2>1. PICK m \in wire : m.method = "PUT" /\ Answers(m, "stored", "none") /\ wire' = wire \ {m}
    BY <1>4 DEF HandlePut
  <2> QED BY <1>4, <2>1, AnswerArrives DEF HandlePut, RemoteOnly, pruneVars
<1>5. CASE HandleDelete
  <2>1. PICK m \in wire :
          /\ m.method = "DELETE" /\ wire' = wire \ {m}
          /\ \/ Answers(m, "observing", "none") \/ Answers(m, "finish", "UNKNOWN")
             \/ Answers(m, "finish", "REJECTED")
    BY <1>5 DEF HandleDelete
  <2>2. UNCHANGED <<prune, deletes>>
    BY <1>5 DEF HandleDelete, RemoteOnly, pruneVars
  <2> QED BY <2>1, <2>2, AnswerArrives DEF Verdicts, FinalStates
<1>6. ASSUME NEW o \in Operators, NEW x \in Archives, BeginStep(o, x)
      PROVE  OpStep
  BY <1>6, LocalSteps, RemoteBegins DEF BeginStep
<1>7. ASSUME NEW o \in Operators, LocalStep(o) \/ RemoteStep(o)
      PROVE  OpStep
  <2>1. CASE LocalStep(o)
    <3>1. op[o].pc \in {"signing", "vaulted"}
      BY <2>1 DEF LocalStep, PublishKms, AckVault, OpAt
    <3>2. op[o].x \in Archives
      BY <3>1 DEF Typed, OpTyped, Assigned
    <3> QED BY <2>1, <3>2, LocalSteps
  <2> QED BY <1>7, <2>1, RemoteGoesOn
<1>8. CASE UNCHANGED evidenceVars
  BY <1>1, <1>8 DEF evidenceVars
<1> QED BY <1>2, <1>3, <1>4, <1>5, <1>6, <1>7, <1>8, Steps

----------------------------------------------------------------------------
(* The log: what is over stays over. *)
LogGrows == \A n \in DOMAIN log : n \in DOMAIN log' /\ (log[n] = "done" => log'[n] = "done")

LEMMA LogLasts ==
  ASSUME Typed, EvidenceNext \/ UNCHANGED evidenceVars
  PROVE  LogTyped' /\ LogGrows
<1> USE DEF Typed, LogTyped, LogGrows
<1>1. CASE BeginCall
  BY <1>1 DEF BeginCall, LogOnly
<1>2. CASE \E n \in calls : EndCall(n)
  <2>1. PICK n \in calls : EndCall(n)
    BY <1>2
  <2>2. CASE UNCHANGED log
    BY <2>1, <2>2 DEF EndCall, LogOnly
  <2>3. CASE log' = [log EXCEPT ![n] = "done"]
    BY <2>1, <2>3 DEF EndCall, LogOnly
  <2> QED BY <2>1, <2>2, <2>3 DEF EndCall
<1>3. CASE \E k \in Keys : RevokeKey(k)
  BY <1>3 DEF RevokeKey, logVars
<1>4. CASE UNCHANGED <<log, calls, revoked>>
  BY <1>4
<1>5. ASSUME NEW x \in Archives, Archiving(x) \/ CopyStep(x)
      PROVE  UNCHANGED <<log, calls, revoked>>
  BY <1>5 DEF Archiving, CopyStep, ArchiveAudit, PruneLocal, PurgeVersion, ForeignWrite,
              ForeignVault, RemoteOnly, logVars
<1>6. ASSUME NEW o \in Operators, NEW x \in Archives, BeginStep(o, x)
      PROVE  UNCHANGED <<log, calls, revoked>>
  BY <1>6 DEF BeginStep, Signing, PrepareKms, PublishVault, BeginStore, BeginPrune, BeginReconcile,
              OnlyOp, logVars
<1>7. ASSUME NEW o \in Operators, LocalStep(o) \/ RemoteStep(o)
      PROVE  UNCHANGED <<log, calls, revoked>>
  BY <1>7 DEF LocalStep, RemoteStep, PublishKms, AckVault, PutObject, ReadBack, AckRemote,
              PreparePrune, DeleteObject, NoReply, Observe, FinishPrune, OperatorDies, OnlyOp, logVars
<1>8. CASE HandlePut \/ HandleDelete
  BY <1>8 DEF HandlePut, HandleDelete, RemoteOnly, logVars
<1> QED BY <1>1, <1>2, <1>3, <1>4, <1>5, <1>6, <1>7, <1>8, Steps DEF LogStep, evidenceVars

----------------------------------------------------------------------------
(* The archives: a new one is a closed run under a key that is trusted, and *)
(* one is removed only on evidence.                                         *)
Signed == \A o \in Operators : op[o].pc = "signing" => Closed(op[o].after, op[o].through)

Stored(x) ==
  /\ archive'[x].state = "stored" /\ archive'[x].key \notin revoked
  /\ Closed(archive'[x].after, archive'[x].through)
Removed(x) ==
  /\ archive'[x].state = "pruned" /\ archive[x].state = "stored"
  /\ archive'[x].after = archive[x].after /\ archive'[x].through = archive[x].through
  /\ vault[x] = "copy" /\ prune[x] \notin Unresolved
ArchiveStep ==
  /\ archive' \in [Archives -> Rows]
  /\ \A x \in Archives : archive'[x] = archive[x] \/ Stored(x) \/ Removed(x)

LEMMA OneRow ==
  ASSUME Typed, NEW x \in Archives, NEW row \in Rows, archive' = [archive EXCEPT ![x] = row],
         Stored(x) \/ Removed(x)
  PROVE  ArchiveStep
BY DEF ArchiveStep, Typed, CopiesTyped

LEMMA EveryArchiveStep ==
  ASSUME Typed, Signed, EvidenceNext \/ UNCHANGED evidenceVars
  PROVE  ArchiveStep
<1>1. ASSUME UNCHANGED archive
      PROVE  ArchiveStep
  BY <1>1 DEF ArchiveStep, Typed, CopiesTyped
<1>2. ASSUME NEW x \in Archives, Archiving(x)
      PROVE  ArchiveStep
  <2>0. PICK after \in 0..Len(log) :
          \E through \in Prefix(after), k \in Keys \cup {NoOne} : ArchiveAudit(x, after, through, k)
    BY <1>2 DEF Archiving
  <2>1. PICK through \in Prefix(after), k \in Keys \cup {NoOne} : ArchiveAudit(x, after, through, k)
    BY <2>0
  <2> DEFINE row == [state |-> "stored", after |-> after, through |-> through, key |-> k]
  <2>2. Closed(after, through) /\ row \in Rows
    BY PrefixIsClosed DEF Rows
  <2>3. archive' = [archive EXCEPT ![x] = row] /\ k \notin revoked
    BY <2>1 DEF ArchiveAudit
  <2>4. archive'[x] = row
    BY <2>3 DEF Typed, CopiesTyped
  <2>5. Stored(x)
    BY <2>2, <2>3, <2>4 DEF Stored
  <2> HIDE DEF row
  <2> QED BY <2>2, <2>3, <2>5, OneRow
<1>3. ASSUME NEW o \in Operators, PublishKms(o)
      PROVE  ArchiveStep
  <2> DEFINE it == op[o]
             row == [state |-> "stored", after |-> it.after, through |-> it.through, key |-> it.key]
  <2>1. it \in Commands /\ it.x \in Archives /\ Closed(it.after, it.through) /\ it.pc = "signing"
    BY <1>3 DEF PublishKms, OpAt, Typed, OpTyped, Assigned, Signed
  <2>2. row \in Rows
    BY <2>1 DEF Commands, Rows
  <2>3. CASE it.key \in revoked
    BY <1>1, <1>3, <2>3 DEF PublishKms, StillTrusted
  <2>4. CASE it.key \notin revoked
    <3>1. archive' = [archive EXCEPT ![it.x] = row]
      BY <1>3, <2>4 DEF PublishKms, StillTrusted
    <3>2. archive'[it.x] = row
      BY <2>1, <3>1 DEF Typed, CopiesTyped
    <3>3. Stored(it.x)
      BY <2>1, <2>4, <3>2 DEF Stored
    <3> HIDE DEF row, it
    <3> QED BY <2>1, <2>2, <3>1, <3>3, OneRow
  <2> QED BY <2>3, <2>4
<1>4. ASSUME NEW x \in Archives, PruneLocal(x)
      PROVE  ArchiveStep
  <2> DEFINE row == [archive[x] EXCEPT !.state = "pruned"]
  <2>1. archive[x] \in Rows /\ archive[x].state = "stored" /\ vault[x] = "copy" /\ prune[x] \notin Unresolved
    BY <1>4 DEF PruneLocal, VaultCandidate, Typed, CopiesTyped
  <2>2. row \in Rows /\ row.state = "pruned" /\ row.after = archive[x].after /\ row.through = archive[x].through
    BY <2>1 DEF Rows
  <2>3. archive' = [archive EXCEPT ![x] = row]
    BY <1>4 DEF PruneLocal
  <2> HIDE DEF row
  <2>4. archive'[x] = row
    BY <2>3 DEF Typed, CopiesTyped
  <2>5. Removed(x)
    BY <2>1, <2>2, <2>4 DEF Removed
  <2> QED BY <2>2, <2>3, <2>5, OneRow
<1>5. CASE LogStep \/ HandlePut \/ HandleDelete \/ UNCHANGED evidenceVars
  BY <1>1, <1>5 DEF LogStep, BeginCall, EndCall, RevokeKey, LogOnly, HandlePut, HandleDelete,
                    RemoteOnly, evidenceVars
<1>6. ASSUME NEW x \in Archives, PurgeVersion(x) \/ ForeignWrite(x) \/ ForeignVault(x)
      PROVE  UNCHANGED archive
  BY <1>6 DEF PurgeVersion, ForeignWrite, ForeignVault, RemoteOnly
<1>7. ASSUME NEW o \in Operators, NEW x \in Archives, BeginStep(o, x)
      PROVE  UNCHANGED archive
  BY <1>7 DEF BeginStep, Signing, PrepareKms, PublishVault, BeginStore, BeginPrune, BeginReconcile,
              OnlyOp
<1>8. ASSUME NEW o \in Operators, AckVault(o) \/ RemoteStep(o)
      PROVE  UNCHANGED archive
  BY <1>8 DEF RemoteStep, AckVault, PutObject, ReadBack, AckRemote, PreparePrune, DeleteObject,
              NoReply, Observe, FinishPrune, OperatorDies, OnlyOp
<1> QED BY <1>1, <1>2, <1>3, <1>4, <1>5, <1>6, <1>7, <1>8, Steps DEF CopyStep, LocalStep

----------------------------------------------------------------------------
(* The other copies. *)
OthersTyped ==
  /\ vault \in [Archives -> Contents] /\ remote \in [Archives -> Objects]
  /\ vaultAck \subseteq Archives /\ remoteAck \subseteq Archives
  /\ purged \subseteq Archives /\ foreign \subseteq Archives
  /\ provider \in {"plain", "versioned"}

(* The vault directory loses a copy only to others. *)
VaultStep ==
  /\ foreign \subseteq foreign'
  /\ \A x \in Archives : vault'[x] = vault[x] \/ vault'[x] = "copy" \/ x \in foreign'

LEMMA EveryVaultStep ==
  ASSUME Typed, EvidenceNext \/ UNCHANGED evidenceVars
  PROVE  OthersTyped' /\ VaultStep
<1> USE DEF Typed, CopiesTyped, OthersTyped, VaultStep
<1>1. ASSUME UNCHANGED <<vault, remote, vaultAck, remoteAck, purged, foreign, provider>>
      PROVE  OthersTyped' /\ VaultStep
  BY <1>1
<1>2. CASE LogStep \/ UNCHANGED evidenceVars
  BY <1>1, <1>2 DEF LogStep, BeginCall, EndCall, RevokeKey, LogOnly, evidenceVars, vaultVars,
                    remoteVars, pruneVars
<1>3. ASSUME NEW x \in Archives, Archiving(x) \/ PruneLocal(x)
      PROVE  OthersTyped' /\ VaultStep
  BY <1>1, <1>3 DEF Archiving, ArchiveAudit, PruneLocal, vaultVars, remoteVars, pruneVars
<1>4. ASSUME NEW x \in Archives, PurgeVersion(x)
      PROVE  OthersTyped' /\ VaultStep
  BY <1>4 DEF PurgeVersion, RemoteOnly, vaultVars, pruneVars
<1>5. ASSUME NEW x \in Archives, ForeignWrite(x)
      PROVE  OthersTyped' /\ VaultStep
  <2> DEFINE object == [content |-> "other", etag |-> remote[x].etag + 1]
  <2>1. object \in Objects
    BY DEF Objects, Contents
  <2>2. remote' = [remote EXCEPT ![x] = object]
    BY <1>5 DEF ForeignWrite
  <2> HIDE DEF object
  <2> QED BY <1>5, <2>1, <2>2 DEF ForeignWrite, RemoteOnly, vaultVars, pruneVars
<1>6. ASSUME NEW x \in Archives, ForeignVault(x)
      PROVE  OthersTyped' /\ VaultStep
  BY <1>6 DEF ForeignVault, Contents, remoteVars, pruneVars
<1>7. ASSUME NEW o \in Operators, NEW x \in Archives, BeginStep(o, x)
      PROVE  OthersTyped' /\ VaultStep
  <2>1. CASE PublishVault(o, x)
    BY <2>1 DEF PublishVault, Contents, remoteVars, pruneVars
  <2>2. CASE ~PublishVault(o, x)
    BY <1>1, <1>7, <2>2 DEF BeginStep, Signing, PrepareKms, BeginStore, BeginPrune, BeginReconcile,
                            OnlyOp, vaultVars, remoteVars, pruneVars
  <2> QED BY <2>1, <2>2
<1>8. ASSUME NEW o \in Operators, LocalStep(o) \/ RemoteStep(o)
      PROVE  OthersTyped' /\ VaultStep
  <2>1. CASE AckVault(o) \/ AckRemote(o)
    <3>1. op[o].x \in Archives
      BY <2>1 DEF AckVault, AckRemote, OpAt, OpTyped, Assigned
    <3> QED BY <2>1, <3>1 DEF AckVault, AckRemote, OnlyOp, vaultVars, remoteVars, pruneVars
  <2>2. CASE ~(AckVault(o) \/ AckRemote(o))
    BY <1>1, <1>8, <2>2 DEF LocalStep, RemoteStep, PublishKms, PutObject, ReadBack, PreparePrune,
                   DeleteObject, NoReply, Observe, FinishPrune, OperatorDies, OnlyOp, vaultVars,
                   remoteVars, pruneVars
  <2> QED BY <2>1, <2>2
<1>9. CASE HandlePut
  <2>1. PICK m \in wire :
          remote' = IF remote[m.x].content = "none"
                    THEN [remote EXCEPT ![m.x] = [content |-> "copy", etag |-> @.etag + 1]]
                    ELSE remote
    BY <1>9 DEF HandlePut
  <2> DEFINE object == [content |-> "copy", etag |-> remote[m.x].etag + 1]
  <2>2. object \in Objects
    BY DEF Objects, Contents, WireTyped, Messages
  <2>3. remote' = remote \/ remote' = [remote EXCEPT ![m.x] = object]
    BY <2>1
  <2> HIDE DEF object
  <2>4. UNCHANGED <<vault, vaultAck, remoteAck, purged, foreign, provider>>
    BY <1>9 DEF HandlePut, RemoteOnly, vaultVars, pruneVars
  <2> QED BY <2>2, <2>3, <2>4
<1>10. CASE HandleDelete
  <2>1. PICK m \in wire : remote' = remote \/ remote' = [remote EXCEPT ![m.x].content = "none"]
    BY <1>10 DEF HandleDelete
  <2> DEFINE object == [remote[m.x] EXCEPT !.content = "none"]
  <2>2. object \in Objects
    BY DEF Objects, Contents, WireTyped, Messages
  <2>3. remote' = remote \/ remote' = [remote EXCEPT ![m.x] = object]
    BY <2>1
  <2> HIDE DEF object
  <2> QED BY <1>10, <2>2, <2>3 DEF HandleDelete, RemoteOnly, vaultVars, pruneVars
<1> QED BY <1>2, <1>3, <1>4, <1>5, <1>6, <1>7, <1>8, <1>9, <1>10, Steps DEF CopyStep

(* The records of the remote removals. *)
LEMMA PrunesTyped ==
  ASSUME Typed, OpStep
  PROVE  /\ (prune \in [Archives -> {"none"} \cup Unresolved \cup FinalStates])'
         /\ (deletes \in [Archives -> Nat])'
<1> USE DEF Typed, CopiesTyped
<1>1. CASE UNCHANGED <<op, prune, deletes>>
  BY <1>1
<1>2. ASSUME NEW o \in Operators, Moves(o)
      PROVE  /\ (prune \in [Archives -> {"none"} \cup Unresolved \cup FinalStates])'
             /\ (deletes \in [Archives -> Nat])'
  <2>1. op[o].pc = "finish" => op[o].verdict \in Unresolved \cup FinalStates
    BY DEF OpTyped, Assigned, Verdicts, Unresolved
  <2>2. op[o].pc \in {"preparing", "delete", "finish"} => op[o].x \in Archives
    BY DEF OpTyped, Assigned
  <2> QED BY <1>2, <2>1, <2>2 DEF Moves, Stops, Starts, GoesOn, Prepares, Deletes, Finishes, Unresolved
<1> QED BY <1>1, <1>2 DEF OpStep

LEMMA EveryStepTyped ==
  ASSUME Typed, Signed, EvidenceNext \/ UNCHANGED evidenceVars
  PROVE  Typed'
BY EveryOpStep, LogLasts, EveryArchiveStep, EveryVaultStep, PrunesTyped
   DEF Typed, OpStep, ArchiveStep, OthersTyped, CopiesTyped

----------------------------------------------------------------------------
(* What is archived, and what waits for its signature, stays closed. *)
ArchivesClosed == \A x \in Archives :
  archive[x].state # "none" => Closed(archive[x].after, archive[x].through)

ClosedThen(after, through) ==
  /\ after < through
  /\ \A n \in after + 1..through : n \in DOMAIN log' /\ log'[n] = "done"

LEMMA ClosedLasts ==
  ASSUME Typed, EvidenceNext \/ UNCHANGED evidenceVars,
         NEW after \in Nat, NEW through \in Nat, Closed(after, through)
  PROVE  ClosedThen(after, through)
BY LogLasts DEF Closed, ClosedThen, LogGrows

LEMMA ClosedStep ==
  ASSUME Typed, Signed, ArchivesClosed, EvidenceNext \/ UNCHANGED evidenceVars
  PROVE  Signed' /\ ArchivesClosed'
<1>1. ArchiveStep /\ OpStep
  BY EveryArchiveStep, EveryOpStep
<1>2. ArchivesClosed'
  <2> SUFFICES ASSUME NEW x \in Archives, archive'[x].state # "none"
               PROVE  ClosedThen(archive'[x].after, archive'[x].through)
    BY DEF ArchivesClosed, Closed, ClosedThen
  <2>1. archive'[x].after \in Nat /\ archive'[x].through \in Nat
    BY <1>1 DEF ArchiveStep, Rows
  <2>2. Closed(archive'[x].after, archive'[x].through)
    BY <1>1 DEF ArchiveStep, Stored, Removed, ArchivesClosed
  <2> QED BY <2>1, <2>2, ClosedLasts
<1>3. Signed'
  <2> SUFFICES ASSUME NEW o \in Operators, op'[o].pc = "signing"
               PROVE  ClosedThen(op'[o].after, op'[o].through)
    BY DEF Signed, Closed, ClosedThen
  <2>1. op'[o].after \in Nat /\ op'[o].through \in Nat
    BY <1>1 DEF OpStep, OpTyped, Commands
  <2>2. Closed(op'[o].after, op'[o].through)
    BY <1>1, DoneIsCommand DEF OpStep, Moves, Stops, Starts, GoesOn, Prepares, Deletes, Finishes, Signed
  <2> QED BY <2>1, <2>2, ClosedLasts
<1> QED BY <1>2, <1>3

----------------------------------------------------------------------------
(* Locks: of two remote commands no two are about the same archive.         *)
Locks == \A o, p \in Operators :
  op[o].cmd \in RemoteCommands /\ op[p].cmd \in RemoteCommands /\ op[o].x = op[p].x => o = p

(* What the holder of the lock may rely on.                                 *)
Holders == \A o \in Operators :
  /\ op[o].pc = "preparing" => prune[op[o].x] = "none"
  /\ op[o].pc = "delete" => prune[op[o].x] = "PREPARED" /\ deletes[op[o].x] = 0
  /\ op[o].pc \in {"deleting", "observing", "finish"} => prune[op[o].x] # "none"

(* No DELETE before its record. *)
Recorded == \A x \in Archives :
  deletes[x] <= 1 /\ (prune[x] = "none" => deletes[x] = 0)

(* The local snapshot stays while the remote one is in doubt, and goes only *)
(* while the vault directory has a copy.                                    *)
Kept == \A x \in Archives :
  /\ prune[x] \in Unresolved => archive[x].state = "stored"
  /\ archive[x].state = "pruned" /\ x \notin foreign => vault[x] = "copy"

LEMMA LocksStep ==
  ASSUME Typed, Locks, OpStep
  PROVE  Locks'
<1>1. CASE UNCHANGED <<op, prune, deletes>>
  BY <1>1 DEF Locks
<1>2. ASSUME NEW o \in Operators, Moves(o)
      PROVE  Locks'
  <2>1. \A p \in Operators : p # o => op'[p] = op[p]
    BY <1>2 DEF Moves
  <2>2. \/ op'[o].cmd \notin RemoteCommands
        \/ op'[o].x = op[o].x /\ op'[o].cmd = op[o].cmd
        \/ \A p \in Operators : op[p].cmd \in RemoteCommands => op[p].x # op'[o].x
    <3>1. CASE Stops(o) \/ Finishes(o)
      BY <3>1, DoneIsCommand DEF Stops, Finishes
    <3>2. CASE Starts(o)
      <4>1. op'[o].pc \in {"signing", "vaulted"} => op'[o].cmd \notin RemoteCommands
        BY DEF OpStep, OpTyped, Assigned, RemotePcs
      <4> QED BY <3>2, <4>1 DEF Starts
    <3>3. CASE GoesOn(o) \/ Prepares(o) \/ Deletes(o)
      BY <3>3 DEF GoesOn, Prepares, Deletes, Stays
    <3> QED BY <1>2, <3>1, <3>2, <3>3 DEF Moves
  <2> QED BY <2>1, <2>2 DEF Locks
<1> QED BY <1>1, <1>2 DEF OpStep

LEMMA HoldersStep ==
  ASSUME Typed, Locks, Holders, Recorded, OpStep
  PROVE  Holders' /\ Recorded'
<1>1. CASE UNCHANGED <<op, prune, deletes>>
  BY <1>1 DEF Holders, Recorded
<1>2. ASSUME NEW o \in Operators, Moves(o)
      PROVE  Holders' /\ Recorded'
  <2> DEFINE x == op[o].x
  <2>1. \A p \in Operators : p # o => op'[p] = op[p]
    BY <1>2 DEF Moves
  <2>2. prune \in [Archives -> {"none"} \cup Unresolved \cup FinalStates] /\ deletes \in [Archives -> Nat]
    BY DEF Typed, CopiesTyped
  <2>3. ASSUME op[o].pc \in RemotePcs
        PROVE  /\ x \in Archives
               /\ \A p \in Operators : p # o /\ op[p].pc \in RemotePcs => op[p].x # x
    BY <2>3 DEF Typed, OpTyped, Assigned, Locks, RemotePcs
  <2>4. CASE UNCHANGED <<prune, deletes>> /\ (Stops(o) \/ Starts(o) \/ GoesOn(o))
    <3>1. Recorded'
      BY <2>4 DEF Recorded
    <3>2. /\ op'[o].pc = "preparing" => prune[op'[o].x] = "none"
          /\ op'[o].pc # "delete"
          /\ op'[o].pc \in {"deleting", "observing", "finish"} => prune[op'[o].x] # "none"
      BY <2>4, DoneIsCommand DEF Stops, Starts, GoesOn, Stays, Holders
    <3> QED BY <2>1, <2>4, <3>1, <3>2 DEF Holders
  <2>5. CASE Prepares(o)
    <3>1. op[o].pc = "preparing" /\ x \in Archives /\ prune[x] = "none" /\ deletes[x] = 0
      BY <2>3, <2>5 DEF Prepares, RemotePcs, Holders, Recorded
    <3>2. /\ prune'[x] = "PREPARED" /\ UNCHANGED deletes
          /\ \A y \in Archives : y # x => prune'[y] = prune[y]
      BY <2>2, <2>5, <3>1 DEF Prepares
    <3>3. Recorded'
      BY <3>1, <3>2 DEF Recorded
    <3>4. op'[o].pc = "delete" /\ op'[o].x = x
      BY <2>5 DEF Prepares, Stays
    <3> HIDE DEF x
    <3>5. \A p \in Operators : p # o /\ op[p].pc \in RemotePcs => op[p].x \in Archives /\ op[p].x # x
      BY <2>3, <3>1 DEF RemotePcs, Typed, OpTyped, Assigned
    <3> QED BY <2>1, <3>1, <3>2, <3>3, <3>4, <3>5 DEF Holders, RemotePcs
  <2>6. CASE Deletes(o)
    <3>1. op[o].pc = "delete" /\ x \in Archives /\ prune[x] = "PREPARED" /\ deletes[x] = 0
      BY <2>3, <2>6 DEF Deletes, RemotePcs, Holders
    <3>2. /\ deletes'[x] = 1 /\ UNCHANGED prune
          /\ \A y \in Archives : y # x => deletes'[y] = deletes[y]
      BY <2>2, <2>6, <3>1 DEF Deletes
    <3>3. Recorded'
      BY <3>1, <3>2 DEF Recorded
    <3>4. op'[o].pc = "deleting" /\ op'[o].x = x
      BY <2>6 DEF Deletes, Stays
    <3> HIDE DEF x
    <3>5. \A p \in Operators : p # o /\ op[p].pc \in RemotePcs => op[p].x \in Archives /\ op[p].x # x
      BY <2>3, <3>1 DEF RemotePcs, Typed, OpTyped, Assigned
    <3> QED BY <2>1, <3>1, <3>2, <3>3, <3>4, <3>5 DEF Holders, RemotePcs
  <2>7. CASE Finishes(o)
    <3>1. op[o].pc = "finish" /\ x \in Archives /\ prune[x] # "none" /\ op[o].verdict \in Verdicts
      BY <2>3, <2>7 DEF Finishes, RemotePcs, Holders, Typed, OpTyped, Assigned
    <3>2. /\ prune'[x] # "none" /\ UNCHANGED deletes
          /\ \A y \in Archives : y # x => prune'[y] = prune[y]
      BY <2>2, <2>7, <3>1 DEF Finishes, Verdicts, FinalStates
    <3>3. Recorded'
      BY <3>1, <3>2 DEF Recorded
    <3>4. op'[o].pc = "idle"
      BY <2>7, DoneIsCommand DEF Finishes
    <3> HIDE DEF x
    <3>5. \A p \in Operators : p # o /\ op[p].pc \in RemotePcs => op[p].x \in Archives /\ op[p].x # x
      BY <2>3, <3>1 DEF RemotePcs, Typed, OpTyped, Assigned
    <3> QED BY <2>1, <3>2, <3>3, <3>4, <3>5 DEF Holders, RemotePcs
  <2> QED BY <1>2, <2>4, <2>5, <2>6, <2>7 DEF Moves, Stops, Starts, GoesOn
<1> QED BY <1>1, <1>2 DEF OpStep

LEMMA KeptStep ==
  ASSUME Typed, Holders, Kept, OpStep, ArchiveStep, VaultStep
  PROVE  Kept'
<1> SUFFICES ASSUME NEW x \in Archives
             PROVE  /\ prune'[x] \in Unresolved => archive'[x].state = "stored"
                    /\ archive'[x].state = "pruned" /\ x \notin foreign' => vault'[x] = "copy"
  BY DEF Kept
<1>1. archive'[x].state = "pruned" /\ x \notin foreign' => vault'[x] = "copy"
  BY DEF ArchiveStep, VaultStep, Stored, Removed, Kept
<1>2. prune[x] \in Unresolved => archive'[x].state = "stored"
  BY DEF ArchiveStep, Stored, Removed, Kept
<1>3. ASSUME prune'[x] \in Unresolved, prune[x] \notin Unresolved
      PROVE  archive'[x].state = "stored"
  <2>1. prune \in [Archives -> {"none"} \cup Unresolved \cup FinalStates]
    BY DEF Typed, CopiesTyped
  <2>2. PICK o \in Operators : Moves(o)
    BY <1>3 DEF OpStep
  <2>3. CASE Prepares(o)
    BY <1>3, <2>1, <2>3 DEF Prepares
  <2>4. CASE Finishes(o)
    <3>1. op[o].x \in Archives /\ prune[op[o].x] # "none"
      BY <2>4 DEF Finishes, Holders, Typed, OpTyped, Assigned
    <3> QED BY <1>3, <2>1, <2>4, <3>1 DEF Finishes
  <2> QED BY <1>3, <2>2, <2>3, <2>4 DEF Moves, Stops, Starts, GoesOn, Deletes
<1> QED BY <1>1, <1>2, <1>3

----------------------------------------------------------------------------
(* The inductive invariant. *)
EvidenceInv == Typed /\ Signed /\ ArchivesClosed /\ Locks /\ Holders /\ Recorded /\ Kept

(* The audit log and its copies keep the inductive invariant, whatever      *)
(* commands run, die and are repeated and whatever the vaults' other users  *)
(* do.                                                                      *)
THEOREM EvidenceInvariant == EvidenceSpec => []EvidenceInv
<1>1. EvidenceInit => EvidenceInv
  <2> SUFFICES ASSUME EvidenceInit PROVE EvidenceInv
    OBVIOUS
  <2>1. \A o \in Operators : op[o] = Done
    BY DEF EvidenceInit
  <2>2. Signed /\ Locks /\ Holders
    BY <2>1, DoneIsCommand DEF Signed, Locks, Holders
  <2>3. ArchivesClosed /\ Recorded /\ Kept
    BY DEF EvidenceInit, ArchivesClosed, Recorded, Kept, NoArchive, Unresolved
  <2> QED BY <2>2, <2>3, TypedInit DEF EvidenceInv
<1>2. EvidenceInv /\ [EvidenceNext]_evidenceVars => EvidenceInv'
  BY EveryStepTyped, ClosedStep, LocksStep, HoldersStep, KeptStep, EveryOpStep, EveryArchiveStep,
     EveryVaultStep DEF EvidenceInv
<1> QED BY <1>1, <1>2, PTL DEF EvidenceSpec

(* The types of the log, of the copies and of the records of removals. *)
THEOREM TypeCorrect == EvidenceSpec => []EvidenceTypeOK
<1>1. EvidenceInv => EvidenceTypeOK
  BY DEF EvidenceInv, Typed, LogTyped, CopiesTyped, EvidenceTypeOK, Rows, Objects, Contents
<1> QED BY <1>1, EvidenceInvariant, PTL

(* prepare_snapshot and publish: an archive is a gapless run of calls that  *)
(* were over, however long the key service took.                            *)
THEOREM ArchivesAreClosed == EvidenceSpec => []ArchiveIsClosed
<1>1. EvidenceInv => ArchiveIsClosed
  BY DEF EvidenceInv, ArchivesClosed, Closed, ArchiveIsClosed
<1> QED BY <1>1, EvidenceInvariant, PTL

(* prune_audit_archive and prune_audit_remote: one DELETE at most, after    *)
(* its record; the local snapshot stays while its outcome is unknown, and   *)
(* goes only while the vault directory has a copy.                          *)
THEOREM PrunesKeepACopy == EvidenceSpec => []PruneKeepsACopy
<1>1. EvidenceInv => PruneKeepsACopy
  <2> SUFFICES ASSUME EvidenceInv, NEW x \in Archives
               PROVE  /\ deletes[x] <= 1 /\ (deletes[x] = 1 => prune[x] # "none")
                      /\ prune[x] \in Unresolved => archive[x].state = "stored"
                      /\ archive[x].state = "pruned" /\ x \notin foreign => vault[x] = "copy"
    BY DEF PruneKeepsACopy
  <2>1. deletes[x] <= 1 /\ (deletes[x] = 1 => prune[x] # "none")
    BY DEF EvidenceInv, Recorded
  <2> QED BY <2>1 DEF EvidenceInv, Kept
<1> QED BY <1>1, EvidenceInvariant, PTL

(* archive_audit_kms: no archive appears under a key that is revoked. *)
THEOREM RevokedKeysNeverSign == EvidenceSpec => RevokedNeverSigns
<1>1. EvidenceInv /\ [EvidenceNext]_evidenceVars =>
        [\A x \in Archives : (archive[x].state = "none" /\ archive'[x].state = "stored") =>
           archive'[x].key \notin revoked]_<<archive, revoked>>
  BY EveryArchiveStep DEF EvidenceInv, ArchiveStep, Stored, Removed, evidenceVars
<1> QED BY <1>1, EvidenceInvariant, PTL DEF EvidenceSpec, RevokedNeverSigns
=============================================================================
