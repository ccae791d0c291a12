--------------------------- MODULE AuditEvidence ---------------------------
(***************************************************************************)
(* The audit log and the copies of it: records written before and after    *)
(* every API call, immutable archives of completed records signed by the   *)
(* configured key or by a key service, a filesystem vault, one conditional *)
(* HTTP or S3 vault, and the removal of the local and of the remote copy.  *)
(* Operators run one jrip-audit command at a time; each may die anywhere.  *)
(* Requests to the remote vault may arrive after their sender gave up.     *)
(***************************************************************************)
EXTENDS Naturals, Sequences

CONSTANTS Archives, Operators, NoOne,
          Keys,          \* public keys of receipt_public_keys
          MaxRecords,    \* bound on the length of the log
          MaxForeign     \* bound on what others change in the vaults

ASSUME EvidenceAssumption ==
  NoOne \notin Archives \cup Operators \cup Keys /\ {MaxRecords, MaxForeign} \subseteq Nat

VARIABLES
  log,        \* audit_records: "open" until finished_at is set
  calls,      \* records whose call is being handled
  revoked,    \* keys of receipt_key_revocations
  archive,    \* Archives -> row of audit_archives, or its prune record
  vault,      \* Archives -> the file in the vault directory
  vaultAck,   \* archives in audit_archive_exports
  provider,   \* of the remote vault: HTTP or S3, or S3 with object versions
  remote,     \* Archives -> current object and its ETag
  purged,     \* archives whose pinned object version is gone
  remoteAck,  \* archives in audit_remote_exports
  prune,      \* Archives -> state in audit_remote_prunes
  op,         \* Operators -> the command it runs
  wire,       \* requests on their way to the remote vault
  deletes,    \* Archives -> how many DELETEs were sent
  foreign     \* vault copies others changed

logVars == <<log, calls>>
vaultVars == <<vault, vaultAck>>
remoteVars == <<remote, purged>>
pruneVars == <<remoteAck, prune, deletes>>
evidenceVars == <<log, calls, revoked, archive, vault, vaultAck, provider, remote, purged,
                  remoteAck, prune, op, wire, deletes, foreign>>

----------------------------------------------------------------------------
NoArchive == [state |-> "none", after |-> 0, through |-> 0, key |-> NoOne]
Done == [cmd |-> "none", pc |-> "idle", x |-> NoOne, after |-> 0, through |-> 0,
         key |-> NoOne, etag |-> 0, verdict |-> "none"]
FinalStates == {"CONFIRMED_ABSENT", "CONFIRMED_RETAINED", "REJECTED"}
Unresolved == {"PREPARED", "UNKNOWN"}

EvidenceTypeOK ==
  /\ log \in Seq({"open", "done"}) /\ Len(log) <= MaxRecords
  /\ calls \subseteq {n \in DOMAIN log : log[n] = "open"}
  /\ revoked \subseteq Keys
  /\ \A x \in Archives :
       /\ archive[x] \in [state : {"none", "stored", "pruned"}, after : 0..MaxRecords,
                          through : 0..MaxRecords, key : Keys \cup {NoOne}]
       /\ vault[x] \in {"none", "copy", "other"}
       /\ remote[x].content \in {"none", "copy", "other"} /\ remote[x].etag \in Nat
       /\ prune[x] \in {"none"} \cup Unresolved \cup FinalStates
  /\ {vaultAck, remoteAck, purged, foreign} \subseteq SUBSET Archives
  /\ provider \in {"plain", "versioned"}

EvidenceInit ==
  /\ log = <<>> /\ calls = {} /\ revoked = {}
  /\ archive = [x \in Archives |-> NoArchive]
  /\ vault = [x \in Archives |-> "none"]
  /\ vaultAck = {} /\ remoteAck = {} /\ purged = {} /\ foreign = {}
  /\ provider \in {"plain", "versioned"}
  /\ remote = [x \in Archives |-> [content |-> "none", etag |-> 0]]
  /\ prune = [x \in Archives |-> "none"]
  /\ op = [o \in Operators |-> Done]
  /\ wire = {}
  /\ deletes = [x \in Archives |-> 0]

----------------------------------------------------------------------------
(* audit.rs record: a call is handled only once its record is written, and *)
(* the record of one whose end could not be written stays open.            *)
LogOnly == UNCHANGED <<revoked, archive, vaultVars, provider, remoteVars, pruneVars, op, wire, foreign>>

BeginCall ==
  /\ Len(log) < MaxRecords
  /\ log' = Append(log, "open")
  /\ calls' = calls \cup {Len(log) + 1}
  /\ LogOnly

EndCall(n) ==
  /\ n \in calls
  /\ log' \in {log, [log EXCEPT ![n] = "done"]}
  /\ calls' = calls \ {n}
  /\ LogOnly

(* revoke_receipt_key: once and for good. *)
RevokeKey(k) ==
  /\ revoked' = revoked \cup {k}
  /\ UNCHANGED <<logVars, archive, vaultVars, provider, remoteVars, pruneVars, op, wire, foreign>>

----------------------------------------------------------------------------
(* The commands.  An operator has one lock file, of the archive it prunes, *)
(* stores or reconciles remotely; the lock ends with the command.          *)
OpAt(o, pc) == op[o].pc = pc
OpGoes(o, pc) == op' = [op EXCEPT ![o].pc = pc]
OpEnds(o) == op' = [op EXCEPT ![o] = Done]
RemoteCommands == {"remote-store", "remote-prune", "remote-prune-reconcile"}
LockIsFree(x) == \A o \in Operators : op[o].cmd \in RemoteCommands => op[o].x # x

(* Variant of Prefix, open records stepped over. *)
CompletedBehind(after) == {n \in after + 1..Len(log) : log[n] = "done"}

(* prepare_snapshot: the completed records behind `after', up to the first open one. *)
Prefix(after) == {n \in after + 1..Len(log) : \A m \in after + 1..n : log[m] = "done"}

(* archive_audit with a local key or none: in one transaction. *)
ArchiveAudit(x, after, through, k) ==
  /\ archive[x].state = "none" /\ \A o \in Operators : op[o].x # x
  /\ through \in Prefix(after)
  /\ k \notin revoked
  /\ archive' = [archive EXCEPT ![x] = [state |-> "stored", after |-> after, through |-> through, key |-> k]]
  /\ UNCHANGED <<logVars, revoked, vaultVars, provider, remoteVars, pruneVars, op, wire, foreign>>

(* archive_audit_kms: a transaction that reads, the key service, and a      *)
(* transaction that looks at the revocations again and publishes.          *)
PrepareKms(o, x, after, through, k) ==
  /\ OpAt(o, "idle")
  /\ archive[x].state = "none" /\ \A p \in Operators : op[p].x # x
  /\ through \in Prefix(after)
  /\ k \notin revoked
  /\ op' = [op EXCEPT ![o] = [Done EXCEPT !.cmd = "create-kms-signed", !.pc = "signing", !.x = x,
                                          !.after = after, !.through = through, !.key = k]]
  /\ UNCHANGED <<logVars, revoked, archive, vaultVars, provider, remoteVars, pruneVars, wire, foreign>>

(* Variant of StillTrusted, revocations not looked at again. *)
TrustedBefore(k) == k \in Keys

StillTrusted(k) == k \notin revoked

PublishKms(o) ==
  LET it == op[o] IN
  /\ OpAt(o, "signing")
  /\ archive' = IF StillTrusted(it.key)
                THEN [archive EXCEPT ![it.x] = [state |-> "stored", after |-> it.after,
                                                through |-> it.through, key |-> it.key]]
                ELSE archive
  /\ OpEnds(o)
  /\ UNCHANGED <<logVars, revoked, vaultVars, provider, remoteVars, pruneVars, wire, foreign>>

----------------------------------------------------------------------------
(* store_audit_archive: the file is linked if there is none and must be    *)
(* the archive; then the acknowledgement.                                  *)
PublishVault(o, x) ==
  /\ OpAt(o, "idle") /\ archive[x].state = "stored"
  /\ vault[x] # "other"
  /\ vault' = [vault EXCEPT ![x] = "copy"]
  /\ op' = [op EXCEPT ![o] = [Done EXCEPT !.cmd = "store", !.pc = "vaulted", !.x = x]]
  /\ UNCHANGED <<logVars, revoked, archive, vaultAck, provider, remoteVars, pruneVars, wire, foreign>>

AckVault(o) ==
  /\ OpAt(o, "vaulted")
  /\ vaultAck' = vaultAck \cup {op[o].x}
  /\ OpEnds(o)
  /\ UNCHANGED <<logVars, revoked, archive, vault, provider, remoteVars, pruneVars, wire, foreign>>

(* Variant of VaultCandidate, any acknowledgement and no look at the file. *)
AnyAcknowledged(x) == archive[x].state = "stored" /\ x \in vaultAck \cup remoteAck

(* audit_vault_status, audit_archives: the evidence a prune asks for. *)
VaultCandidate(x) == archive[x].state = "stored" /\ x \in vaultAck /\ vault[x] = "copy"

(* prune_audit_archive: the row, its evidence and the file are looked at   *)
(* under the writer lock; the record of the prune replaces the row.        *)
PruneLocal(x) ==
  /\ prune[x] \notin Unresolved
  /\ VaultCandidate(x)
  /\ archive' = [archive EXCEPT ![x].state = "pruned"]
  /\ UNCHANGED <<logVars, revoked, vaultVars, provider, remoteVars, pruneVars, op, wire, foreign>>

----------------------------------------------------------------------------
(* store_audit_remote: never where a DELETE was recorded. *)
BeginCommand(o, x, cmd, pc) ==
  /\ OpAt(o, "idle") /\ LockIsFree(x)
  /\ op' = [op EXCEPT ![o] = [Done EXCEPT !.cmd = cmd, !.pc = pc, !.x = x]]

Sends(o, method, etag) ==
  wire' = wire \cup {[method |-> method, x |-> op[o].x, etag |-> etag, to |-> o]}

OnlyOp == UNCHANGED <<logVars, revoked, archive, vaultVars, provider, remoteVars, foreign>>

BeginStore(o, x) ==
  /\ prune[x] = "none" /\ archive[x].state = "stored"
  /\ BeginCommand(o, x, "remote-store", "put")
  /\ UNCHANGED <<pruneVars, wire>> /\ OnlyOp

PutObject(o) ==
  /\ OpAt(o, "put")
  /\ Sends(o, "PUT", 0)
  /\ OpGoes(o, "putting")
  /\ UNCHANGED pruneVars /\ OnlyOp

(* The object that is there after the PUT must be the archive. *)
ReadBack(o) ==
  /\ OpAt(o, "stored")
  /\ IF remote[op[o].x].content = "copy" THEN OpGoes(o, "acking") ELSE OpEnds(o)
  /\ UNCHANGED <<pruneVars, wire>> /\ OnlyOp

AckRemote(o) ==
  /\ OpAt(o, "acking")
  /\ remoteAck' = remoteAck \cup {op[o].x}
  /\ OpEnds(o)
  /\ UNCHANGED <<prune, deletes, wire>> /\ OnlyOp

(* prune_audit_remote: a record that exists is returned, nothing is sent   *)
(* again.  Else the object and its ETag are read.                          *)
BeginPrune(o, x) ==
  /\ prune[x] = "none" /\ remote[x].content # "none"
  /\ OpAt(o, "idle") /\ LockIsFree(x)
  /\ op' = [op EXCEPT ![o] = [Done EXCEPT !.cmd = "remote-prune", !.x = x, !.etag = remote[x].etag,
                 !.pc = "preparing", !.verdict = remote[x].content]]
  /\ UNCHANGED <<pruneVars, wire>> /\ OnlyOp

(* The transaction: the local archive exists, is what was read, and was acknowledged. *)
PreparePrune(o) ==
  LET x == op[o].x IN
  /\ OpAt(o, "preparing")
  /\ IF archive[x].state = "stored" /\ op[o].verdict = "copy" /\ x \in remoteAck
     THEN prune' = [prune EXCEPT ![x] = "PREPARED"] /\ OpGoes(o, "delete")
     ELSE OpEnds(o) /\ UNCHANGED prune
  /\ UNCHANGED <<remoteAck, deletes, wire>> /\ OnlyOp

DeleteObject(o) ==
  LET x == op[o].x IN
  /\ OpAt(o, "delete")
  /\ Sends(o, "DELETE", op[o].etag)
  /\ deletes' = [deletes EXCEPT ![x] = @ + 1]
  /\ OpGoes(o, "deleting")
  /\ UNCHANGED <<remoteAck, prune>> /\ OnlyOp

(* No answer in time: a store is given up, a DELETE is UNKNOWN. *)
NoReply(o) ==
  /\ \/ OpAt(o, "putting") /\ OpEnds(o)
     \/ OpAt(o, "deleting") /\ op' = [op EXCEPT ![o].pc = "finish", ![o].verdict = "UNKNOWN"]
  /\ wire' = {IF m.to = o THEN [m EXCEPT !.to = NoOne] ELSE m : m \in wire}
  /\ UNCHANGED pruneVars /\ OnlyOp

(* reconcile_remote_prune looks, and never sends a DELETE. *)
BeginReconcile(o, x) ==
  /\ prune[x] \in Unresolved
  /\ BeginCommand(o, x, "remote-prune-reconcile", "observing")
  /\ UNCHANGED <<pruneVars, wire>> /\ OnlyOp

(* What a GET shows, or the pinned version of s3_prune_evidence. *)
Observed(x) ==
  IF provider = "versioned"
  THEN IF x \in purged THEN "CONFIRMED_ABSENT" ELSE "CONFIRMED_RETAINED"
  ELSE IF remote[x].content = "none" THEN "CONFIRMED_ABSENT" ELSE "UNKNOWN"

Observe(o) ==
  /\ OpAt(o, "observing")
  /\ \E verdict \in {Observed(op[o].x), "UNKNOWN"} :
       op' = [op EXCEPT ![o].pc = "finish", ![o].verdict = verdict]
  /\ UNCHANGED <<pruneVars, wire>> /\ OnlyOp

(* finish_remote_prune: a final state stands. *)
FinishPrune(o) ==
  LET x == op[o].x IN
  /\ OpAt(o, "finish")
  /\ prune' = IF prune[x] \in FinalStates THEN prune ELSE [prune EXCEPT ![x] = op[o].verdict]
  /\ OpEnds(o)
  /\ UNCHANGED <<remoteAck, deletes, wire>> /\ OnlyOp

(* The process dies; its lock is free, its requests are on their way. *)
OperatorDies(o) ==
  /\ ~OpAt(o, "idle")
  /\ OpEnds(o)
  /\ wire' = {IF m.to = o THEN [m EXCEPT !.to = NoOne] ELSE m : m \in wire}
  /\ UNCHANGED pruneVars /\ OnlyOp

----------------------------------------------------------------------------
(* The remote vault.  It honours If-None-Match and If-Match. *)
Answers(m, pc, verdict) ==
  op' = IF m.to = NoOne THEN op
        ELSE [op EXCEPT ![m.to].pc = pc, ![m.to].verdict = verdict]
RemoteOnly == UNCHANGED <<logVars, revoked, archive, vaultVars, provider, pruneVars, foreign>>

HandlePut ==
  /\ \E m \in wire :
       /\ m.method = "PUT"
       /\ remote' = IF remote[m.x].content = "none"
                    THEN [remote EXCEPT ![m.x] = [content |-> "copy", etag |-> @.etag + 1]]
                    ELSE remote
       /\ Answers(m, "stored", "none")
       /\ wire' = wire \ {m}
  /\ UNCHANGED purged /\ RemoteOnly

HandleDelete ==
  /\ \E m \in wire :
       /\ m.method = "DELETE"
       /\ wire' = wire \ {m}
       /\ \/ /\ remote[m.x].content # "none" /\ remote[m.x].etag = m.etag
             /\ remote' = [remote EXCEPT ![m.x].content = "none"]
             /\ Answers(m, "observing", "none")
          \/ /\ remote[m.x].content = "none"                    \* 204, or 404
             /\ UNCHANGED remote
             /\ Answers(m, "observing", "none") \/ Answers(m, "finish", "UNKNOWN")
          \/ /\ remote[m.x].content # "none" /\ remote[m.x].etag # m.etag
             /\ UNCHANGED remote
             /\ Answers(m, "finish", "REJECTED")
  /\ UNCHANGED purged /\ RemoteOnly

PurgeVersion(x) ==
  /\ provider = "versioned" /\ remote[x].content = "none" /\ remote[x].etag > 0
  /\ purged' = purged \cup {x}
  /\ UNCHANGED <<remote, op, wire>> /\ RemoteOnly

(* Others write to the vaults. *)
ForeignWrite(x) ==
  /\ remote[x].etag < MaxForeign
  /\ remote' = [remote EXCEPT ![x] = [content |-> "other", etag |-> @.etag + 1]]
  /\ UNCHANGED <<purged, op, wire>> /\ RemoteOnly

ForeignVault(x) ==
  /\ x \notin foreign /\ MaxForeign > 0
  /\ foreign' = foreign \cup {x}
  /\ \E content \in {"none", "other"} : vault' = [vault EXCEPT ![x] = content]
  /\ UNCHANGED <<logVars, revoked, archive, vaultAck, provider, remoteVars, pruneVars, op, wire>>

EvidenceNext ==
  \/ BeginCall \/ \E n \in calls : EndCall(n)
  \/ \E k \in Keys : RevokeKey(k)
  \/ \E x \in Archives :
       \/ \E after \in 0..Len(log) : \E through \in Prefix(after) :
            \/ \E k \in Keys \cup {NoOne} : ArchiveAudit(x, after, through, k)
            \/ \E k \in Keys, o \in Operators : PrepareKms(o, x, after, through, k)
       \/ PruneLocal(x) \/ PurgeVersion(x) \/ ForeignWrite(x) \/ ForeignVault(x)
       \/ \E o \in Operators : \/ PublishVault(o, x) \/ BeginStore(o, x)
                               \/ BeginPrune(o, x) \/ BeginReconcile(o, x)
  \/ \E o \in Operators :
       \/ PublishKms(o) \/ AckVault(o) \/ PutObject(o) \/ ReadBack(o) \/ AckRemote(o)
       \/ PreparePrune(o) \/ DeleteObject(o) \/ NoReply(o) \/ Observe(o) \/ FinishPrune(o)
       \/ OperatorDies(o)
  \/ HandlePut \/ HandleDelete

EvidenceSpec == EvidenceInit /\ [][EvidenceNext]_evidenceVars

----------------------------------------------------------------------------
(* audit_archive.rs prepare_snapshot: an archive is a gapless run of calls *)
(* that were over when it was made; no record in it is ever written again, *)
(* also when the key service took its time in between.                     *)
ArchiveIsClosed ==
  \A x \in Archives : archive[x].state # "none" =>
    /\ archive[x].after < archive[x].through
    /\ \A n \in archive[x].after + 1..archive[x].through : n \in DOMAIN log /\ log[n] = "done"

(* audit_vault.rs prune_audit_archive against audit_remote.rs               *)
(* prune_audit_remote: the two removals together never take the last copy. *)
(* A DELETE is sent at most once, whatever was interrupted, and after its  *)
(* record; while its outcome is unknown the local snapshot stays; and what *)
(* was archived is in the repository or in the vault directory, unless     *)
(* others changed the file there.                                          *)
PruneKeepsACopy ==
  \A x \in Archives :
    /\ deletes[x] <= 1 /\ (deletes[x] = 1 => prune[x] # "none")
    /\ prune[x] \in Unresolved => archive[x].state = "stored"
    /\ archive[x].state = "pruned" /\ x \notin foreign => vault[x] = "copy"

(* kms.rs archive_audit_kms: nothing is published under a key that was     *)
(* revoked, not even when the revocation came while the service signed.    *)
RevokedNeverSigns ==
  [][\A x \in Archives : (archive[x].state = "none" /\ archive'[x].state = "stored") =>
       archive'[x].key \notin revoked]_<<archive, revoked>>
=============================================================================
