--------------------------- MODULE FrontEndProofs -----------------------------
(***************************************************************************)
(* Proofs about what clients ask of the server: operations that need an    *)
(* approval, for any number of requests, identities, approvals and         *)
(* reasons; sessions of the MCP service, for any number of tokens,         *)
(* sessions, exchanges and resources; and the admission of jobs, for any   *)
(* number of preflights, requests and uploads.                             *)
(***************************************************************************)
EXTENDS Admission, OperationApprovals, McpSessions, TLAPS, FiniteSetTheorems

-----------------------------------------------------------------------------
(* Operations that need an approval. *)

CallerStates == {"away", "reviewed", "admitted"}
ApprovalStates == {"none", "issued", "revoked", "expired", "consumed"}

OpTyped ==
  /\ subject \in [hold : 0..MaxHolds, job : {Kept, Deleted}, key : {Trusted} \cup Reasons]
  /\ caller \in [Callers -> [pc : CallerStates, binding : Bindings \cup {NoBinding},
                             approval : Approvals \cup {NoApproval}]]
  /\ \A c \in Callers : caller[c].pc # "away" => caller[c].binding \in Bindings
  /\ approval \in [Approvals -> [state : ApprovalStates, issuer : Identities \cup {"none"},
                                 binding : Bindings \cup {NoBinding}]]
  /\ admitted \in [Approvals -> Nat]
  /\ effects \in [Approvals -> Seq(0..MaxHolds \cup Reasons)]
  /\ active \subseteq Identities

(* What was reviewed can only be outdated in a way its handler notices: a   *)
(* job is deleted for good, and a key that was revoked stays so.            *)
Reviewed(b) ==
  /\ b.op = "job-delete" => b.before = Kept
  /\ b.op = "receipt-key-revoke" /\ subject.key = Trusted => b.before = Trusted

ReviewsHold == \A c \in Callers : caller[c].pc # "away" => Reviewed(caller[c].binding)

(* A request that was let through carries an approval of its own, of exactly *)
(* its binding, under which nothing has been done yet.                      *)
AdmittedOnce ==
  /\ \A c \in Callers : caller[c].pc = "admitted" =>
       LET a == caller[c].approval IN
       /\ a \in Approvals /\ approval[a].state = "consumed"
       /\ approval[a].binding = caller[c].binding /\ effects[a] = <<>>
  /\ \A c, d \in Callers :
       caller[c].pc = "admitted" /\ caller[d].pc = "admitted" /\ c # d =>
         caller[c].approval # caller[d].approval

CountsHold == \A a \in Approvals : admitted[a] = (IF approval[a].state = "consumed" THEN 1 ELSE 0)
TwoPeople ==
  \A a \in Approvals : approval[a].state # "none" => approval[a].issuer # approval[a].binding.identity
EffectsHold ==
  \A a \in Approvals :
    effects[a] # <<>> => approval[a].state = "consumed" /\ effects[a] = <<approval[a].binding.before>>

ApprovalInv == OpTyped /\ ReviewsHold /\ AdmittedOnce /\ CountsHold /\ TwoPeople /\ EffectsHold

LEMMA ApprovalInvImplies == ApprovalInv => OpTypeOK /\ EffectIsApproved
BY DEF ApprovalInv, OpTyped, OpTypeOK, CountsHold, TwoPeople, EffectsHold, EffectIsApproved,
       CallerStates, ApprovalStates

LEMMA ApprovalInitHolds == OpInit => ApprovalInv
<1> SUFFICES ASSUME OpInit PROVE ApprovalInv
  OBVIOUS
<1>1. OpTyped
  BY ApprovalAssumption DEF OpInit, OpTyped, Gone, Free, CallerStates, ApprovalStates, Kept, Deleted, Trusted
<1>2. ReviewsHold /\ AdmittedOnce
  BY DEF OpInit, ReviewsHold, AdmittedOnce, Gone
<1>3. CountsHold /\ TwoPeople /\ EffectsHold
  BY DEF OpInit, CountsHold, TwoPeople, EffectsHold, Free
<1> QED BY <1>1, <1>2, <1>3 DEF ApprovalInv

(* The three handlers: what they replace is what was reviewed. *)
LEMMA HandlerIsApproved ==
  ASSUME OpTyped, NEW b \in Bindings, Reviewed(b), Handler(b)
  PROVE  /\ Before(b.op) = b.before
         /\ subject' \in [hold : 0..MaxHolds, job : {Kept, Deleted}, key : {Trusted} \cup Reasons]
         /\ subject'.key = Trusted => subject.key = Trusted
<1>1. CASE ExtendRetention(b)
  <2>1. Before(b.op) = b.before
    BY <1>1 DEF ExtendRetention, Before
  <2>2. subject.hold + 1 \in 0..MaxHolds
    BY <1>1, ApprovalAssumption DEF ExtendRetention, OpTyped
  <2>3. subject' = [subject EXCEPT !.hold = subject.hold + 1]
    BY <1>1 DEF ExtendRetention
  <2> QED BY <2>1, <2>2, <2>3 DEF OpTyped
<1>2. CASE DeleteTheJob(b)
  BY <1>2 DEF DeleteTheJob, OpTyped, Before, Reviewed
<1>3. CASE RevokeReceiptKey(b)
  <2>1. b.arg \in {Trusted} \cup Reasons
    BY DEF Bindings, Trusted
  <2> QED BY <1>3, <2>1 DEF RevokeReceiptKey, OpTyped, Before, Reviewed
<1> QED BY <1>1, <1>2, <1>3 DEF Handler

LEMMA ApprovalStepKeeps == ApprovalInv /\ [OpNext]_opVars => ApprovalInv'
<1> SUFFICES ASSUME ApprovalInv, [OpNext]_opVars PROVE ApprovalInv'
  OBVIOUS
<1> USE DEF ApprovalInv
<1>1. ASSUME NEW c \in Callers, NEW who \in Identities, NEW op \in Operations,
             NEW arg \in Reasons \cup {0}, Review(c, who, op, arg)
      PROVE  ApprovalInv'
  <2> DEFINE b == [identity |-> who, op |-> op, arg |-> arg, before |-> Before(op)]
  <2>1. Before(op) \in 0..MaxHolds \cup Reasons
    BY ApprovalAssumption DEF OpTyped, Before, Operations, Kept, Deleted, Trusted
  <2>2. b \in Bindings
    BY <2>1 DEF Bindings
  <2>3. Reviewed(b)
    BY <1>1 DEF Review, Possible, Reviewed, Before, Operations
  <2>4. caller' = [caller EXCEPT ![c] = [pc |-> "reviewed", approval |-> NoApproval, binding |-> b]]
        /\ UNCHANGED <<subject, approval, active, admitted, effects>>
    BY <1>1 DEF Review
  <2> HIDE DEF b
  <2>5. OpTyped'
    BY <2>2, <2>4 DEF OpTyped, CallerStates
  <2>6. ReviewsHold'
    BY <2>3, <2>4 DEF OpTyped, ReviewsHold, Reviewed
  <2>7. AdmittedOnce'
    BY <2>4 DEF OpTyped, AdmittedOnce
  <2>8. CountsHold' /\ TwoPeople' /\ EffectsHold'
    BY <2>4 DEF CountsHold, TwoPeople, EffectsHold
  <2> QED BY <2>5, <2>6, <2>7, <2>8
<1>2. ASSUME NEW c \in Callers, NEW a \in Approvals, Consume(c, a)
      PROVE  ApprovalInv'
  <2> USE <1>2 DEF Consume, Matches
  <2>1. OpTyped'
    <3>1. caller' \in [Callers -> [pc : CallerStates, binding : Bindings \cup {NoBinding},
                                  approval : Approvals \cup {NoApproval}]]
      <4>1. caller[c] \in [pc : CallerStates, binding : Bindings \cup {NoBinding},
                            approval : Approvals \cup {NoApproval}]
        BY DEF OpTyped
      <4>2. [caller[c] EXCEPT !.pc = "admitted", !.approval = a] \in
              [pc : CallerStates, binding : Bindings \cup {NoBinding}, approval : Approvals \cup {NoApproval}]
        BY <4>1 DEF CallerStates
      <4>3. caller' = [caller EXCEPT ![c] = [caller[c] EXCEPT !.pc = "admitted", !.approval = a]]
        OBVIOUS
      <4> QED BY <4>2, <4>3 DEF OpTyped
    <3>2. \A d \in Callers : caller'[d].pc # "away" => caller'[d].binding \in Bindings
      BY DEF OpTyped
    <3>3. approval' \in [Approvals -> [state : ApprovalStates, issuer : Identities \cup {"none"},
                                      binding : Bindings \cup {NoBinding}]]
      BY DEF OpTyped, ApprovalStates
    <3> QED BY <3>1, <3>2, <3>3 DEF OpTyped
  <2>2. ReviewsHold'
    BY DEF OpTyped, ReviewsHold, Reviewed
  <2>3. effects[a] = <<>>
    BY DEF EffectsHold
  <2>4. AdmittedOnce'
    <3>1. \A d \in Callers : caller'[d].pc = "admitted" =>
            LET e == caller'[d].approval IN
            /\ e \in Approvals /\ approval'[e].state = "consumed"
            /\ approval'[e].binding = caller'[d].binding /\ effects'[e] = <<>>
      BY <2>3 DEF OpTyped, AdmittedOnce
    <3>2. \A d, e \in Callers :
            caller'[d].pc = "admitted" /\ caller'[e].pc = "admitted" /\ d # e =>
              caller'[d].approval # caller'[e].approval
      BY DEF OpTyped, AdmittedOnce
    <3> QED BY <3>1, <3>2 DEF AdmittedOnce
  <2>5. CountsHold'
    BY DEF OpTyped, CountsHold
  <2>6. \A e \in Approvals :
          /\ approval'[e].issuer = approval[e].issuer /\ approval'[e].binding = approval[e].binding
          /\ approval'[e].state = "none" => approval[e].state = "none"
          /\ approval[e].state = "consumed" => approval'[e].state = "consumed"
    BY DEF OpTyped
  <2>7. TwoPeople' /\ EffectsHold'
    BY <2>3, <2>6 DEF TwoPeople, EffectsHold
  <2> QED BY <2>1, <2>2, <2>4, <2>5, <2>7
<1>3. ASSUME NEW c \in Callers, Execute(c)
      PROVE  ApprovalInv'
  <2> DEFINE b == caller[c].binding
             a == caller[c].approval
  <2>1. /\ caller[c].pc = "admitted" /\ b \in Bindings /\ Reviewed(b)
        /\ a \in Approvals /\ approval[a].state = "consumed"
        /\ approval[a].binding = b /\ effects[a] = <<>>
    BY <1>3 DEF Execute, OpTyped, ReviewsHold, AdmittedOnce
  <2>2. caller' = [caller EXCEPT ![c] = Gone] /\ UNCHANGED <<approval, active, admitted>>
    BY <1>3 DEF Execute
  <2>3. \/ Handler(b) /\ effects' = [effects EXCEPT ![a] = Append(@, Before(b.op))]
        \/ UNCHANGED <<subject, effects>>
    BY <1>3 DEF Execute
  <2> HIDE DEF a, b
  <2>4. /\ subject' \in [hold : 0..MaxHolds, job : {Kept, Deleted}, key : {Trusted} \cup Reasons]
        /\ subject'.key = Trusted => subject.key = Trusted
        /\ \/ effects' = [effects EXCEPT ![a] = <<b.before>>]
           \/ effects' = effects
    <3>1. CASE Handler(b) /\ effects' = [effects EXCEPT ![a] = Append(@, Before(b.op))]
      <4>1. Append(effects[a], Before(b.op)) = <<b.before>>
        BY <2>1, <3>1, HandlerIsApproved
      <4> QED BY <2>1, <3>1, <4>1, HandlerIsApproved DEF OpTyped
    <3> QED BY <2>3, <3>1 DEF OpTyped
  <2>5. <<b.before>> \in Seq(0..MaxHolds \cup Reasons) /\ <<b.before>> # <<>>
    <3>1. b.before \in 0..MaxHolds \cup Reasons
      BY <2>1 DEF Bindings
    <3> QED BY <3>1
  <2>6. OpTyped'
    <3>1. /\ caller' \in [Callers -> [pc : CallerStates, binding : Bindings \cup {NoBinding},
                                     approval : Approvals \cup {NoApproval}]]
          /\ \A d \in Callers : caller'[d].pc # "away" => caller'[d].binding \in Bindings
      BY <2>2 DEF OpTyped, Gone, CallerStates
    <3>2. effects' \in [Approvals -> Seq(0..MaxHolds \cup Reasons)]
      BY <2>1, <2>4, <2>5 DEF OpTyped
    <3> QED BY <2>2, <2>4, <3>1, <3>2 DEF OpTyped
  <2>7. ReviewsHold'
    BY <2>2, <2>4 DEF OpTyped, ReviewsHold, Reviewed, Gone
  <2>8. AdmittedOnce'
    <3>1. \A d \in Callers : d # c /\ caller[d].pc = "admitted" => caller[d].approval # a
      BY <1>3, <2>1 DEF AdmittedOnce, a
    <3>2. \A d \in Callers : caller'[d].pc = "admitted" => d # c /\ caller'[d] = caller[d]
      BY <2>2 DEF OpTyped, Gone
    <3>3. \A e \in Approvals : e # a => effects'[e] = effects[e]
      BY <2>4 DEF OpTyped
    <3> QED BY <2>2, <3>1, <3>2, <3>3 DEF AdmittedOnce
  <2>9. CountsHold' /\ TwoPeople'
    BY <2>2 DEF CountsHold, TwoPeople
  <2>10. EffectsHold'
    BY <2>1, <2>2, <2>4 DEF OpTyped, EffectsHold
  <2> QED BY <2>6, <2>7, <2>8, <2>9, <2>10
<1>4. ASSUME NEW a \in Approvals, NEW who \in Identities, NEW c \in Callers, Issue(a, who, c)
      PROVE  ApprovalInv'
  <2>1. approval[a].state = "none" /\ caller[c].pc = "reviewed" /\ caller[c].binding \in Bindings
    BY <1>4 DEF Issue, Free, OpTyped
  <2>2. /\ approval' = [approval EXCEPT ![a] = [state |-> "issued", issuer |-> who,
                                               binding |-> caller[c].binding]]
        /\ caller[c].binding.identity # who
        /\ UNCHANGED <<subject, caller, active, admitted, effects>>
    BY <1>4 DEF Issue
  <2>3. OpTyped' /\ ReviewsHold'
    BY <2>1, <2>2 DEF OpTyped, ReviewsHold, Reviewed, ApprovalStates
  <2>4. AdmittedOnce'
    BY <2>1, <2>2 DEF OpTyped, AdmittedOnce
  <2>5. CountsHold' /\ TwoPeople' /\ EffectsHold'
    BY <2>1, <2>2 DEF OpTyped, CountsHold, TwoPeople, EffectsHold
  <2> QED BY <2>3, <2>4, <2>5
<1>5. ASSUME NEW a \in Approvals, Revoke(a) \/ Lapse(a)
      PROVE  ApprovalInv'
  <2>1. PICK s \in {"revoked", "expired"} : approval' = [approval EXCEPT ![a].state = s]
    BY <1>5 DEF Revoke, Lapse
  <2>2. approval[a].state = "issued" /\ UNCHANGED <<subject, caller, active, admitted, effects>>
    BY <1>5 DEF Revoke, Lapse
  <2>3. OpTyped' /\ ReviewsHold'
    BY <2>1, <2>2 DEF OpTyped, ReviewsHold, Reviewed, ApprovalStates
  <2>4. AdmittedOnce'
    BY <2>1, <2>2 DEF OpTyped, AdmittedOnce
  <2>5. CountsHold' /\ TwoPeople' /\ EffectsHold'
    BY <2>1, <2>2 DEF OpTyped, CountsHold, TwoPeople, EffectsHold
  <2> QED BY <2>3, <2>4, <2>5
<1>6. ASSUME NEW who \in Identities, CredentialEnds(who)
      PROVE  ApprovalInv'
  BY <1>6 DEF CredentialEnds, OpTyped, ReviewsHold, Reviewed, AdmittedOnce, CountsHold, TwoPeople, EffectsHold
<1>7. CASE UNCHANGED opVars
  BY <1>7 DEF opVars, OpTyped, ReviewsHold, Reviewed, AdmittedOnce, CountsHold, TwoPeople, EffectsHold
<1> QED BY <1>1, <1>2, <1>3, <1>4, <1>5, <1>6, <1>7 DEF OpNext

(* The inductive invariant of the approvals, whatever is requested at once. *)
THEOREM ApprovalInvariant == OpSpec => []ApprovalInv
BY ApprovalInitHolds, ApprovalStepKeeps, PTL DEF OpSpec

(* Every variable of the subject, the requests and the approvals keeps its  *)
(* type.                                                                    *)
THEOREM ApprovalTypeCorrect == OpSpec => []OpTypeOK
BY ApprovalInvariant, ApprovalInvImplies, PTL

(* guard and the handlers: an approval lets one request through, and what   *)
(* changes under it is the state that another administrator reviewed.       *)
THEOREM EffectsAreApproved == OpSpec => []EffectIsApproved
BY ApprovalInvariant, ApprovalInvImplies, PTL

-----------------------------------------------------------------------------
(* Sessions of the MCP service. *)

Positions == [stream : 0..MaxRestarts, after : 0..MaxHistory]
CursorMaps == UNION {[subscribed -> Positions] : subscribed \in SUBSET Resources}
SessionRows == [state : {"none", "open", "closed", "expired"}, token : Tokens \cup {"none"},
                ready : BOOLEAN, cursors : CursorMaps]
Listeners == [open : BOOLEAN, pending : SUBSET Resources, saw : [Resources -> Positions]]

SessionTyped ==
  /\ valid \subseteq Tokens
  /\ session \in [Sessions -> SessionRows]
  /\ \A x \in Exchanges : exchange[x].pc = "found" => exchange[x].s \in Sessions
  /\ listener \in [Sessions -> Listeners]
  /\ resource \in [Resources -> Positions]

(* The limits of sessions and of subscriptions, which count finite sets. *)
LimitsHold ==
  /\ IsFiniteSet(Open) /\ Cardinality(Open) <= MaxSessions
  /\ \A s \in Sessions : /\ IsFiniteSet(DOMAIN session[s].cursors)
                         /\ Cardinality(DOMAIN session[s].cursors) <= MaxSubscriptions

(* No cursor is ahead of its resource. *)
NotAhead(a, b) == a.stream < b.stream \/ (a.stream = b.stream /\ a.after <= b.after)

CursorsHold ==
  \A s \in Sessions : \A r \in DOMAIN session[s].cursors :
    NotAhead(session[s].cursors[r], resource[r])

SessionInv == SessionTyped /\ LimitsHold /\ CursorsHold /\ NothingIsSkipped

Seen(cursor, saw) ==
  cursor.after > 0 => \/ saw.stream = cursor.stream /\ saw.after >= cursor.after
                      \/ saw.stream > cursor.stream

LEMMA SkippedPerSession ==
  NothingIsSkipped <=>
    \A s \in Sessions : listener[s].open =>
      \A r \in DOMAIN session[s].cursors \ listener[s].pending :
        Seen(session[s].cursors[r], listener[s].saw[r])
BY DEF NothingIsSkipped, Seen

LEMMA SessionInvImplies == SessionInv => SessionTypeOK /\ NothingIsSkipped
<1> SUFFICES ASSUME SessionInv PROVE SessionTypeOK
  BY DEF SessionInv
<1>1. \A s \in Sessions :
        /\ session[s].state \in {"none", "open", "closed", "expired"}
        /\ DOMAIN session[s].cursors \subseteq Resources
        /\ listener[s].pending \subseteq Resources
  BY DEF SessionInv, SessionTyped, SessionRows, CursorMaps, Listeners
<1> QED BY <1>1 DEF SessionInv, SessionTyped, SessionTypeOK, LimitsHold, Open, Positions

LEMMA OriginTyped == Origin \in Positions
BY SessionAssumption DEF Origin, Positions

LEMMA CursorsTyped ==
  ASSUME SessionInv, NEW s \in Sessions
  PROVE  /\ session[s] \in SessionRows /\ listener[s] \in Listeners
         /\ DOMAIN session[s].cursors \subseteq Resources
         /\ \A r \in DOMAIN session[s].cursors : session[s].cursors[r] \in Positions
         /\ session[s].cursors = [r \in DOMAIN session[s].cursors |-> session[s].cursors[r]]
         /\ listener[s].saw \in [Resources -> Positions]
<1>1. session[s] \in SessionRows /\ listener[s] \in Listeners
  BY DEF SessionInv, SessionTyped
<1>2. PICK subscribed \in SUBSET Resources : session[s].cursors \in [subscribed -> Positions]
  BY <1>1 DEF SessionRows, CursorMaps
<1> QED BY <1>1, <1>2 DEF Listeners

LEMMA SessionInitHolds == SessionInit => SessionInv
<1> SUFFICES ASSUME SessionInit PROVE SessionInv
  OBVIOUS
<1>1. None \in SessionRows /\ None.state = "none" /\ DOMAIN None.cursors = {}
  <2>1. [r \in {} |-> 0] \in [{} -> Positions]
    OBVIOUS
  <2> QED BY <2>1 DEF None, SessionRows, CursorMaps
<1>2. Deaf \in Listeners /\ ~Deaf.open
  BY OriginTyped DEF Deaf, Listeners
<1>3. SessionTyped
  BY <1>1, <1>2, OriginTyped DEF SessionInit, SessionTyped, Elsewhere
<1>4. LimitsHold
  <2>1. Open = {}
    BY <1>1 DEF SessionInit, Open
  <2> QED BY <1>1, <2>1, FS_EmptySet, SessionAssumption DEF SessionInit, LimitsHold
<1>5. CursorsHold /\ NothingIsSkipped
  BY <1>1 DEF SessionInit, CursorsHold, NothingIsSkipped
<1> QED BY <1>3, <1>4, <1>5 DEF SessionInv

(* The entry of one session is replaced, and with it perhaps its stream. *)
LEMMA EntryKeeps ==
  ASSUME SessionInv, NEW s \in Sessions, NEW row \in SessionRows, NEW ear \in Listeners,
         session' = [session EXCEPT ![s] = row],
         listener' = [listener EXCEPT ![s] = ear],
         UNCHANGED <<valid, resource>>,
         \A x \in Exchanges : exchange'[x].pc = "found" => exchange'[x].s \in Sessions,
         IsFiniteSet(Open') /\ Cardinality(Open') <= MaxSessions,
         IsFiniteSet(DOMAIN row.cursors) /\ Cardinality(DOMAIN row.cursors) <= MaxSubscriptions,
         \A r \in DOMAIN row.cursors : NotAhead(row.cursors[r], resource[r]),
         ear.open => \A r \in DOMAIN row.cursors \ ear.pending : Seen(row.cursors[r], ear.saw[r])
  PROVE  SessionInv'
<1>1. /\ session'[s] = row /\ listener'[s] = ear
      /\ \A q \in Sessions : q # s => session'[q] = session[q] /\ listener'[q] = listener[q]
  BY DEF SessionInv, SessionTyped
<1>2. SessionTyped'
  BY DEF SessionInv, SessionTyped
<1>3. LimitsHold'
  BY <1>1 DEF SessionInv, LimitsHold
<1>4. CursorsHold'
  BY <1>1 DEF SessionInv, CursorsHold
<1>5. NothingIsSkipped'
  <2>1. \A q \in Sessions : listener'[q].open =>
          \A r \in DOMAIN session'[q].cursors \ listener'[q].pending :
            Seen(session'[q].cursors[r], listener'[q].saw[r])
    BY <1>1, SkippedPerSession DEF SessionInv
  <2> QED BY <2>1 DEF NothingIsSkipped, Seen
<1> QED BY <1>2, <1>3, <1>4, <1>5 DEF SessionInv

(* No session is opened by a step that leaves them open or ends them. *)
LEMMA NoneOpened ==
  ASSUME SessionInv, Open' \subseteq Open
  PROVE  IsFiniteSet(Open') /\ Cardinality(Open') <= MaxSessions
<1>1. Open' \in SUBSET Open
  OBVIOUS
<1>2. IsFiniteSet(Open') /\ Cardinality(Open') <= Cardinality(Open)
  BY <1>1, FS_Subset DEF SessionInv, LimitsHold
<1>3. Cardinality(Open) \in Nat /\ Cardinality(Open') \in Nat
  BY <1>2, FS_CardinalityType DEF SessionInv, LimitsHold
<1> QED BY <1>2, <1>3, SessionAssumption DEF SessionInv, LimitsHold

(* A step of a session that changes neither its cursors nor its stream. *)
LEMMA StateKeeps ==
  ASSUME SessionInv, NEW s \in Sessions, NEW row \in SessionRows,
         session' = [session EXCEPT ![s] = row], row.cursors = session[s].cursors,
         UNCHANGED <<valid, resource, listener>>,
         \A x \in Exchanges : exchange'[x].pc = "found" => exchange'[x].s \in Sessions,
         IsFiniteSet(Open') /\ Cardinality(Open') <= MaxSessions
  PROVE  SessionInv'
<1> DEFINE ear == listener[s]
<1>1. ear \in Listeners /\ listener' = [listener EXCEPT ![s] = ear]
  BY DEF SessionInv, SessionTyped
<1>2. ear.open => \A r \in DOMAIN row.cursors \ ear.pending : Seen(row.cursors[r], ear.saw[r])
  BY SkippedPerSession DEF SessionInv
<1>3. /\ IsFiniteSet(DOMAIN row.cursors) /\ Cardinality(DOMAIN row.cursors) <= MaxSubscriptions
      /\ \A r \in DOMAIN row.cursors : NotAhead(row.cursors[r], resource[r])
  BY DEF SessionInv, LimitsHold, CursorsHold
<1> HIDE DEF ear
<1> QED BY <1>1, <1>2, <1>3, EntryKeeps

LEMMA FoundSession ==
  ASSUME SessionInv, NEW x \in Exchanges, exchange[x].pc = "found"
  PROVE  exchange[x].s \in Sessions /\ session[exchange[x].s] \in SessionRows
BY DEF SessionInv, SessionTyped

(* An exchange that is over refers to no session, the others to the same as before. *)
LEMMA ExchangeEnds ==
  ASSUME SessionInv, NEW x \in Exchanges, exchange' = [exchange EXCEPT ![x] = Elsewhere]
  PROVE  \A y \in Exchanges : exchange'[y].pc = "found" => exchange'[y].s \in Sessions
BY DEF SessionInv, SessionTyped, Elsewhere

LEMMA InitializeKeeps ==
  ASSUME SessionInv, NEW s \in Sessions, NEW token \in Tokens, Initialize(s, token)
  PROVE  SessionInv'
<1> DEFINE row == [session[s] EXCEPT !.state = "open", !.token = token]
<1>1. session[s] \in SessionRows
  BY CursorsTyped
<1>2. row \in SessionRows /\ row.state = "open" /\ row.cursors = session[s].cursors
  BY <1>1 DEF SessionRows
<1>3. session' = [session EXCEPT ![s] = row]
  BY DEF Initialize
<1>4. UNCHANGED <<valid, resource, listener, exchange>>
  BY DEF Initialize
<1> HIDE DEF row
<1>5. Open' = Open \cup {s}
  BY <1>2, <1>3 DEF Open, SessionInv, SessionTyped
<1>6. IsFiniteSet(Open') /\ Cardinality(Open') <= MaxSessions
  <2>1. IsFiniteSet(Open) /\ Cardinality(Open) \in Nat
    BY FS_CardinalityType DEF SessionInv, LimitsHold
  <2>2. /\ IsFiniteSet(Open \cup {s})
        /\ Cardinality(Open \cup {s}) = IF s \in Open THEN Cardinality(Open) ELSE Cardinality(Open) + 1
    BY <2>1, FS_AddElement
  <2>3. Cardinality(Open) < MaxSessions
    BY DEF Initialize
  <2> QED BY <1>5, <2>1, <2>2, <2>3, SessionAssumption
<1>7. \A x \in Exchanges : exchange'[x].pc = "found" => exchange'[x].s \in Sessions
  BY <1>4 DEF SessionInv, SessionTyped
<1> QED BY <1>2, <1>3, <1>4, <1>6, <1>7, StateKeeps

(* Only the exchanges move, and those that wait for a session have one. *)
LEMMA ExchangesOnly ==
  ASSUME SessionInv, UNCHANGED <<session, resource, listener>>, valid' \subseteq valid,
         \A y \in Exchanges : exchange'[y].pc = "found" => exchange'[y].s \in Sessions
  PROVE  SessionInv'
<1>1. SessionTyped'
  BY DEF SessionInv, SessionTyped
<1>2. LimitsHold' /\ CursorsHold' /\ NothingIsSkipped'
  BY DEF SessionInv, LimitsHold, Open, CursorsHold, NothingIsSkipped
<1> QED BY <1>1, <1>2 DEF SessionInv

LEMMA FindKeeps ==
  ASSUME SessionInv, NEW x \in Exchanges, NEW s \in Sessions, NEW token \in Tokens, FindSession(x, s, token)
  PROVE  SessionInv'
<1>1. \A y \in Exchanges : exchange'[y].pc = "found" => exchange'[y].s \in Sessions
  BY DEF FindSession, SessionInv, SessionTyped
<1> QED BY <1>1, ExchangesOnly DEF FindSession

LEMMA InitializedKeeps ==
  ASSUME SessionInv, NEW x \in Exchanges, Initialized(x)
  PROVE  SessionInv'
<1> DEFINE s == exchange[x].s
           row == [session[s] EXCEPT !.ready = TRUE]
<1>1. s \in Sessions /\ session[s] \in SessionRows
  BY FoundSession DEF Initialized, Handles
<1>2. row \in SessionRows /\ row.cursors = session[s].cursors /\ row.state = session[s].state
  BY <1>1 DEF SessionRows
<1>3. /\ session' = [session EXCEPT ![s] = row] /\ exchange' = [exchange EXCEPT ![x] = Elsewhere]
      /\ UNCHANGED <<valid, resource, listener>>
  BY DEF Initialized, Handles
<1> HIDE DEF s, row
<1>4. Open' \subseteq Open
  BY <1>2, <1>3 DEF Open, SessionInv, SessionTyped
<1>5. IsFiniteSet(Open') /\ Cardinality(Open') <= MaxSessions
  BY <1>4, NoneOpened
<1>6. \A y \in Exchanges : exchange'[y].pc = "found" => exchange'[y].s \in Sessions
  BY <1>3, ExchangeEnds
<1> QED BY <1>1, <1>2, <1>3, <1>5, <1>6, StateKeeps

LEMMA EndedKeeps ==
  ASSUME SessionInv, NEW s \in Sessions, NEW state \in {"closed", "expired"},
         session' = [session EXCEPT ![s].state = state],
         UNCHANGED <<valid, resource, listener>>,
         \A x \in Exchanges : exchange'[x].pc = "found" => exchange'[x].s \in Sessions
  PROVE  SessionInv'
<1> DEFINE row == [session[s] EXCEPT !.state = state]
<1>1. session[s] \in SessionRows
  BY CursorsTyped
<1>2. row \in SessionRows /\ row.cursors = session[s].cursors /\ row.state # "open"
  BY <1>1 DEF SessionRows
<1>3. session' = [session EXCEPT ![s] = row]
  OBVIOUS
<1> HIDE DEF row
<1>4. Open' \subseteq Open
  BY <1>2, <1>3 DEF Open, SessionInv, SessionTyped
<1>5. IsFiniteSet(Open') /\ Cardinality(Open') <= MaxSessions
  BY <1>4, NoneOpened
<1> QED BY <1>2, <1>3, <1>5, StateKeeps

(* A request that changes the cursors of its session and not its stream. *)
LEMMA CursorsKeep ==
  ASSUME SessionInv, NEW s \in Sessions, NEW cursors \in CursorMaps,
         session' = [session EXCEPT ![s].cursors = cursors],
         UNCHANGED <<valid, resource>>,
         NEW ear \in Listeners, listener' = [listener EXCEPT ![s] = ear],
         \A x \in Exchanges : exchange'[x].pc = "found" => exchange'[x].s \in Sessions,
         IsFiniteSet(DOMAIN cursors) /\ Cardinality(DOMAIN cursors) <= MaxSubscriptions,
         \A r \in DOMAIN cursors : NotAhead(cursors[r], resource[r]),
         ear.open => \A r \in DOMAIN cursors \ ear.pending : Seen(cursors[r], ear.saw[r])
  PROVE  SessionInv'
<1> DEFINE row == [session[s] EXCEPT !.cursors = cursors]
<1>1. session[s] \in SessionRows
  BY CursorsTyped
<1>2. row \in SessionRows /\ row.cursors = cursors /\ row.state = session[s].state
  BY <1>1 DEF SessionRows
<1>3. session' = [session EXCEPT ![s] = row]
  OBVIOUS
<1> HIDE DEF row
<1>4. Open' \subseteq Open
  BY <1>2, <1>3 DEF Open, SessionInv, SessionTyped
<1>5. IsFiniteSet(Open') /\ Cardinality(Open') <= MaxSessions
  BY <1>4, NoneOpened
<1> QED BY <1>2, <1>3, <1>5, EntryKeeps

LEMMA SubscribeKeeps ==
  ASSUME SessionInv, NEW x \in Exchanges, NEW r \in Resources, Subscribe(x, r)
  PROVE  SessionInv'
<1> DEFINE s == exchange[x].s
           old == session[s].cursors
           start == [stream |-> resource[r].stream, after |-> 0]
           new == [q \in DOMAIN old \cup {r} |-> IF q \in DOMAIN old THEN old[q] ELSE start]
<1>1. s \in Sessions
  BY FoundSession DEF Subscribe, Handles
<1>2. /\ session' = [session EXCEPT ![s].cursors = new] /\ exchange' = [exchange EXCEPT ![x] = Elsewhere]
      /\ UNCHANGED <<valid, resource, listener>>
  BY DEF Subscribe, Handles
<1>3. resource[r] \in Positions /\ start \in Positions /\ start.after = 0 /\ start.stream = resource[r].stream
  BY SessionAssumption DEF SessionInv, SessionTyped, Positions
<1>4. r \in DOMAIN old \/ Cardinality(DOMAIN old) < MaxSubscriptions
  BY DEF Subscribe, Cursors
<1>5. DOMAIN old \subseteq Resources /\ \A q \in DOMAIN old : old[q] \in Positions
  BY <1>1, CursorsTyped
<1>6. /\ DOMAIN new = DOMAIN old \cup {r} /\ \A q \in DOMAIN old : new[q] = old[q]
      /\ r \notin DOMAIN old => new[r] = start
  OBVIOUS
<1> HIDE DEF s, start
<1>7. new \in CursorMaps
  <2>1. DOMAIN old \cup {r} \in SUBSET Resources /\ new \in [DOMAIN old \cup {r} -> Positions]
    BY <1>3, <1>5
  <2> QED BY <2>1 DEF CursorMaps
<1>8. IsFiniteSet(DOMAIN new) /\ Cardinality(DOMAIN new) <= MaxSubscriptions
  <2>1. IsFiniteSet(DOMAIN old) /\ Cardinality(DOMAIN old) \in Nat /\ Cardinality(DOMAIN old) <= MaxSubscriptions
    BY <1>1, FS_CardinalityType DEF SessionInv, LimitsHold
  <2>2. /\ IsFiniteSet(DOMAIN old \cup {r})
        /\ Cardinality(DOMAIN old \cup {r}) = IF r \in DOMAIN old THEN Cardinality(DOMAIN old)
                                              ELSE Cardinality(DOMAIN old) + 1
    BY <2>1, FS_AddElement
  <2> QED BY <1>4, <1>6, <2>1, <2>2, SessionAssumption
<1>9. \A q \in DOMAIN new : NotAhead(new[q], resource[q])
  <2>1. \A q \in DOMAIN old : NotAhead(old[q], resource[q])
    BY <1>1 DEF SessionInv, CursorsHold
  <2>2. NotAhead(start, resource[r])
    BY <1>3 DEF NotAhead, Positions
  <2> QED BY <1>6, <2>1, <2>2
<1>10. listener[s].open => \A q \in DOMAIN new \ listener[s].pending : Seen(new[q], listener[s].saw[q])
  <2>1. listener[s].open => \A q \in DOMAIN old \ listener[s].pending : Seen(old[q], listener[s].saw[q])
    BY <1>1, SkippedPerSession DEF SessionInv
  <2>2. Seen(start, listener[s].saw[r])
    BY <1>3 DEF Seen
  <2> QED BY <1>6, <2>1, <2>2
<1> HIDE DEF new
<1>11. listener[s] \in Listeners /\ listener' = [listener EXCEPT ![s] = listener[s]]
  BY <1>1, <1>2 DEF SessionInv, SessionTyped
<1>12. \A y \in Exchanges : exchange'[y].pc = "found" => exchange'[y].s \in Sessions
  BY <1>2, ExchangeEnds
<1> QED BY <1>1, <1>2, <1>7, <1>8, <1>9, <1>10, <1>11, <1>12, CursorsKeep

LEMMA UnsubscribeKeeps ==
  ASSUME SessionInv, NEW x \in Exchanges, NEW r \in Resources, Unsubscribe(x, r)
  PROVE  SessionInv'
<1> DEFINE s == exchange[x].s
           old == session[s].cursors
           new == [q \in DOMAIN old \ {r} |-> old[q]]
<1>1. s \in Sessions
  BY FoundSession DEF Unsubscribe, Handles
<1>2. /\ session' = [session EXCEPT ![s].cursors = new] /\ exchange' = [exchange EXCEPT ![x] = Elsewhere]
      /\ UNCHANGED <<valid, resource, listener>>
  BY DEF Unsubscribe, Handles
<1>3. DOMAIN old \subseteq Resources /\ \A q \in DOMAIN old : old[q] \in Positions
  BY <1>1, CursorsTyped
<1>4. DOMAIN new = DOMAIN old \ {r} /\ \A q \in DOMAIN new : q \in DOMAIN old /\ new[q] = old[q]
  OBVIOUS
<1> HIDE DEF s
<1>5. new \in CursorMaps
  <2>1. DOMAIN old \ {r} \in SUBSET Resources /\ new \in [DOMAIN old \ {r} -> Positions]
    BY <1>3
  <2> QED BY <2>1 DEF CursorMaps
<1>6. IsFiniteSet(DOMAIN new) /\ Cardinality(DOMAIN new) <= MaxSubscriptions
  <2>1. IsFiniteSet(DOMAIN old) /\ Cardinality(DOMAIN old) \in Nat /\ Cardinality(DOMAIN old) <= MaxSubscriptions
    BY <1>1, FS_CardinalityType DEF SessionInv, LimitsHold
  <2>2. /\ IsFiniteSet(DOMAIN old \ {r})
        /\ Cardinality(DOMAIN old \ {r}) = IF r \in DOMAIN old THEN Cardinality(DOMAIN old) - 1
                                           ELSE Cardinality(DOMAIN old)
    BY <2>1, FS_RemoveElement
  <2> QED BY <1>4, <2>1, <2>2, SessionAssumption
<1>7. \A q \in DOMAIN new : NotAhead(new[q], resource[q])
  BY <1>1, <1>4 DEF SessionInv, CursorsHold
<1>8. listener[s].open => \A q \in DOMAIN new \ listener[s].pending : Seen(new[q], listener[s].saw[q])
  BY <1>1, <1>4, SkippedPerSession DEF SessionInv
<1> HIDE DEF new
<1>9. listener[s] \in Listeners /\ listener' = [listener EXCEPT ![s] = listener[s]]
  BY <1>1, <1>2 DEF SessionInv, SessionTyped
<1>10. \A y \in Exchanges : exchange'[y].pc = "found" => exchange'[y].s \in Sessions
  BY <1>2, ExchangeEnds
<1> QED BY <1>1, <1>2, <1>5, <1>6, <1>7, <1>8, <1>9, <1>10, CursorsKeep

LEMMA ListenKeeps ==
  ASSUME SessionInv, NEW x \in Exchanges, Listen(x)
  PROVE  SessionInv'
<1> DEFINE s == exchange[x].s
           old == session[s].cursors
           new == [q \in DOMAIN old |-> Origin]
           ear == [Deaf EXCEPT !.open = TRUE]
<1>1. s \in Sessions
  BY FoundSession DEF Listen
<1>2. /\ session' = [session EXCEPT ![s].cursors = new] /\ exchange' = [exchange EXCEPT ![x] = Elsewhere]
      /\ listener' = [listener EXCEPT ![s] = ear] /\ UNCHANGED <<valid, resource>>
  BY DEF Listen, Rewound
<1>3. DOMAIN old \subseteq Resources
  BY <1>1, CursorsTyped
<1>4. ear \in Listeners
  BY OriginTyped DEF Deaf, Listeners
<1>5. DOMAIN new = DOMAIN old /\ \A q \in DOMAIN new : new[q] = Origin
  OBVIOUS
<1>6. new \in CursorMaps
  <2>1. DOMAIN old \in SUBSET Resources /\ new \in [DOMAIN old -> Positions]
    BY <1>3, OriginTyped
  <2> QED BY <2>1 DEF CursorMaps
<1> HIDE DEF s, ear
<1>7. IsFiniteSet(DOMAIN new) /\ Cardinality(DOMAIN new) <= MaxSubscriptions
  BY <1>1, <1>5 DEF SessionInv, LimitsHold
<1>8. \A q \in DOMAIN new : NotAhead(new[q], resource[q])
  <2> SUFFICES ASSUME NEW q \in DOMAIN new PROVE NotAhead(Origin, resource[q])
    BY <1>5
  <2>1. resource[q] \in Positions
    BY <1>3, <1>5 DEF SessionInv, SessionTyped
  <2> QED BY <2>1, SessionAssumption DEF NotAhead, Origin, Positions
<1>9. ear.open => \A q \in DOMAIN new \ ear.pending : Seen(new[q], ear.saw[q])
  BY <1>5 DEF Seen, Origin
<1> HIDE DEF new
<1>10. \A y \in Exchanges : exchange'[y].pc = "found" => exchange'[y].s \in Sessions
  BY <1>2, ExchangeEnds
<1> QED BY <1>1, <1>2, <1>4, <1>6, <1>7, <1>8, <1>9, <1>10, CursorsKeep

(* A page never goes past the last event. *)
LEMMA PageTyped ==
  ASSUME SessionInv, NEW r \in Resources, NEW cursor \in Positions, NEW page \in PagesAfter(r, cursor)
  PROVE  page \in Positions /\ NotAhead(page, resource[r])
<1> DEFINE start == IF resource[r].stream = cursor.stream THEN cursor.after ELSE 0
           end == IF start + PageSize < resource[r].after THEN start + PageSize ELSE resource[r].after
<1>1. resource[r] \in Positions
  BY DEF SessionInv, SessionTyped
<1>2. start \in Nat /\ resource[r].after \in 0..MaxHistory /\ resource[r].stream \in 0..MaxRestarts
  BY <1>1, SessionAssumption DEF Positions
<1>3. end \in Nat
  <2> HIDE DEF start
  <2> QED BY <1>2, SessionAssumption
<1>4. PICK after \in end..resource[r].after : page = [stream |-> resource[r].stream, after |-> after]
  BY DEF PagesAfter
<1> HIDE DEF end
<1>5. after \in 0..MaxHistory /\ after <= resource[r].after
  BY <1>2, <1>3, <1>4, SessionAssumption
<1> QED BY <1>2, <1>4, <1>5 DEF Positions, NotAhead

LEMMA PollKeeps ==
  ASSUME SessionInv, NEW s \in Sessions, PollSession(s)
  PROVE  SessionInv'
<1> DEFINE old == session[s].cursors
<1>1. listener[s].open /\ listener[s].pending = {} /\ UNCHANGED <<valid, exchange, resource>>
  BY DEF PollSession, StreamMayGoOn
<1>0. PICK answered \in SUBSET DOMAIN old :
      \E extra \in SUBSET answered, next \in [answered -> UNION {PagesAfter(r, old[r]) : r \in answered}] :
        /\ \A r \in answered : next[r] \in PagesAfter(r, old[r])
        /\ session' = [session EXCEPT ![s].cursors =
             [r \in DOMAIN old |-> IF r \in answered THEN next[r] ELSE old[r]]]
        /\ listener' = [listener EXCEPT ![s].pending = extra \cup {r \in answered : next[r] # old[r]}]
  BY DEF PollSession
<1>2. PICK extra \in SUBSET answered, next \in [answered -> UNION {PagesAfter(r, old[r]) : r \in answered}] :
        /\ \A r \in answered : next[r] \in PagesAfter(r, old[r])
        /\ session' = [session EXCEPT ![s].cursors =
             [r \in DOMAIN old |-> IF r \in answered THEN next[r] ELSE old[r]]]
        /\ listener' = [listener EXCEPT ![s].pending = extra \cup {r \in answered : next[r] # old[r]}]
  BY <1>0
<1> DEFINE new == [r \in DOMAIN old |-> IF r \in answered THEN next[r] ELSE old[r]]
           hints == extra \cup {r \in answered : next[r] # old[r]}
           ear == [listener[s] EXCEPT !.pending = hints]
<1>3. DOMAIN old \subseteq Resources /\ \A r \in DOMAIN old : old[r] \in Positions
  BY CursorsTyped
<1>4. \A r \in DOMAIN old : NotAhead(old[r], resource[r])
  BY DEF SessionInv, CursorsHold
<1>5. \A r \in DOMAIN old : new[r] \in Positions /\ NotAhead(new[r], resource[r])
  <2> SUFFICES ASSUME NEW r \in DOMAIN old PROVE new[r] \in Positions /\ NotAhead(new[r], resource[r])
    OBVIOUS
  <2>1. new[r] \in PagesAfter(r, old[r]) \/ new[r] = old[r]
    BY <1>2
  <2>2. r \in Resources /\ old[r] \in Positions /\ NotAhead(old[r], resource[r])
    BY <1>3, <1>4
  <2>3. \A page \in PagesAfter(r, old[r]) : page \in Positions /\ NotAhead(page, resource[r])
    BY <2>2, PageTyped
  <2> QED BY <2>1, <2>2, <2>3
<1>6. /\ session' = [session EXCEPT ![s].cursors = new]
      /\ listener' = [listener EXCEPT ![s].pending = hints]
  BY <1>2
<1>7. DOMAIN new = DOMAIN old /\ \A r \in DOMAIN old \ hints : new[r] = old[r]
  OBVIOUS
<1> HIDE DEF new
<1>8. hints \subseteq Resources
  BY <1>3
<1> HIDE DEF hints
<1>9. listener[s] \in Listeners
  BY CursorsTyped
<1>10. ear \in Listeners /\ ear.pending = hints /\ ear.saw = listener[s].saw
  BY <1>8, <1>9 DEF Listeners
<1>11. listener' = [listener EXCEPT ![s] = ear]
  BY <1>6
<1> HIDE DEF ear
<1>12. new \in CursorMaps
  <2>1. DOMAIN old \in SUBSET Resources
    BY <1>3
  <2>2. new = [r \in DOMAIN old |-> new[r]]
    BY DEF new
  <2>3. new \in [DOMAIN old -> Positions]
    BY <1>5, <2>2
  <2> QED BY <2>1, <2>3 DEF CursorMaps
<1>13. IsFiniteSet(DOMAIN new) /\ Cardinality(DOMAIN new) <= MaxSubscriptions
  BY <1>7 DEF SessionInv, LimitsHold
<1>14. \A r \in DOMAIN new : NotAhead(new[r], resource[r])
  BY <1>5, <1>7
<1>15. \A r \in DOMAIN new \ hints : Seen(new[r], listener[s].saw[r])
  <2>1. \A r \in DOMAIN old : Seen(old[r], listener[s].saw[r])
    BY <1>1, SkippedPerSession DEF SessionInv
  <2> QED BY <1>7, <2>1
<1>16. ear.open => \A r \in DOMAIN new \ ear.pending : Seen(new[r], ear.saw[r])
  BY <1>10, <1>15
<1>17. \A y \in Exchanges : exchange'[y].pc = "found" => exchange'[y].s \in Sessions
  BY <1>1 DEF SessionInv, SessionTyped
<1> QED BY <1>1, <1>6, <1>10, <1>11, <1>12, <1>13, <1>14, <1>16, <1>17, CursorsKeep

(* The stream of one session changes and its cursors do not. *)
LEMMA EarKeeps ==
  ASSUME SessionInv, NEW s \in Sessions, NEW ear \in Listeners,
         listener' = [listener EXCEPT ![s] = ear],
         UNCHANGED <<valid, session, exchange, resource>>,
         ear.open => \A r \in DOMAIN session[s].cursors \ ear.pending :
                       Seen(session[s].cursors[r], ear.saw[r])
  PROVE  SessionInv'
<1> DEFINE row == session[s]
<1>1. row \in SessionRows /\ session' = [session EXCEPT ![s] = row]
  BY DEF SessionInv, SessionTyped
<1>2. /\ IsFiniteSet(DOMAIN row.cursors) /\ Cardinality(DOMAIN row.cursors) <= MaxSubscriptions
      /\ \A r \in DOMAIN row.cursors : NotAhead(row.cursors[r], resource[r])
  BY DEF SessionInv, LimitsHold, CursorsHold
<1>3. ear.open => \A r \in DOMAIN row.cursors \ ear.pending : Seen(row.cursors[r], ear.saw[r])
  OBVIOUS
<1> HIDE DEF row
<1>4. IsFiniteSet(Open') /\ Cardinality(Open') <= MaxSessions
  <2>1. Open' \subseteq Open
    BY DEF Open
  <2> QED BY <2>1, NoneOpened
<1>5. \A y \in Exchanges : exchange'[y].pc = "found" => exchange'[y].s \in Sessions
  BY DEF SessionInv, SessionTyped
<1> QED BY <1>1, <1>2, <1>3, <1>4, <1>5, EntryKeeps

LEMMA HintKeeps ==
  ASSUME SessionInv, NEW s \in Sessions, SendHint(s)
  PROVE  SessionInv'
<1>1. PICK r \in listener[s].pending :
        listener' = [listener EXCEPT ![s].pending = @ \ {r}, ![s].saw[r] = resource[r]]
  BY DEF SendHint
<1> DEFINE old == listener[s]
           ear == [old EXCEPT !.pending = @ \ {r}, !.saw[r] = resource[r]]
<1>2. old \in Listeners /\ r \in Resources /\ resource[r] \in Positions /\ old.saw \in [Resources -> Positions]
  BY CursorsTyped DEF Listeners, SessionInv, SessionTyped
<1>3. listener' = [listener EXCEPT ![s] = ear]
  BY <1>1, <1>2 DEF SessionInv, SessionTyped
<1>4. /\ ear \in Listeners /\ ear.pending = old.pending \ {r}
      /\ ear.saw = [old.saw EXCEPT ![r] = resource[r]]
  BY <1>2 DEF Listeners
<1> HIDE DEF ear
<1>5. \A q \in DOMAIN session[s].cursors \ ear.pending : Seen(session[s].cursors[q], ear.saw[q])
  <2>1. \A q \in DOMAIN session[s].cursors \ old.pending : Seen(session[s].cursors[q], old.saw[q])
    BY SkippedPerSession DEF SessionInv, SendHint, StreamMayGoOn
  <2>2. r \in DOMAIN session[s].cursors => Seen(session[s].cursors[r], resource[r])
    <3> SUFFICES ASSUME r \in DOMAIN session[s].cursors PROVE Seen(session[s].cursors[r], resource[r])
      OBVIOUS
    <3>1. NotAhead(session[s].cursors[r], resource[r]) /\ session[s].cursors[r] \in Positions
      BY CursorsTyped DEF SessionInv, CursorsHold
    <3> QED BY <1>2, <3>1, SessionAssumption DEF Seen, NotAhead, Positions
  <2>3. ear.saw[r] = resource[r] /\ \A q \in Resources : q # r => ear.saw[q] = old.saw[q]
    BY <1>2, <1>4
  <2>4. DOMAIN session[s].cursors \subseteq Resources
    BY CursorsTyped
  <2> QED BY <1>4, <2>1, <2>2, <2>3, <2>4
<1> QED BY <1>3, <1>4, <1>5, EarKeeps DEF SendHint

LEMMA EndListeningKeeps ==
  ASSUME SessionInv, NEW s \in Sessions, EndListening(s)
  PROVE  SessionInv'
<1>1. Deaf \in Listeners /\ ~Deaf.open
  BY OriginTyped DEF Deaf, Listeners
<1> QED BY <1>1, EarKeeps DEF EndListening

(* Resources only move on: what was not ahead of them stays so. *)
LEMMA ResourceKeeps ==
  ASSUME SessionInv, NEW r \in Resources, NEW position \in Positions,
         resource' = [resource EXCEPT ![r] = position],
         \A cursor \in Positions : NotAhead(cursor, resource[r]) => NotAhead(cursor, position),
         UNCHANGED <<valid, session, exchange, listener>>
  PROVE  SessionInv'
<1>1. SessionTyped' /\ LimitsHold' /\ NothingIsSkipped'
  BY DEF SessionInv, SessionTyped, LimitsHold, Open, NothingIsSkipped
<1>2. CursorsHold'
  <2> SUFFICES ASSUME NEW s \in Sessions, NEW q \in DOMAIN session[s].cursors
               PROVE  NotAhead(session[s].cursors[q], resource'[q])
    BY DEF CursorsHold
  <2>1. q \in Resources /\ session[s].cursors[q] \in Positions
        /\ NotAhead(session[s].cursors[q], resource[q])
    BY CursorsTyped DEF SessionInv, CursorsHold
  <2> QED BY <2>1 DEF SessionInv, SessionTyped
<1> QED BY <1>1, <1>2 DEF SessionInv

LEMMA HappensKeeps ==
  ASSUME SessionInv, NEW r \in Resources, Happens(r)
  PROVE  SessionInv'
<1> DEFINE position == [resource[r] EXCEPT !.after = @ + 1]
<1>1. resource[r] \in Positions /\ resource[r].after < MaxHistory
  BY DEF SessionInv, SessionTyped, Happens
<1>2. position \in Positions /\ position.stream = resource[r].stream /\ position.after = resource[r].after + 1
  <2>1. resource[r].after + 1 \in 0..MaxHistory
    BY <1>1, SessionAssumption DEF Positions
  <2> QED BY <1>1, <2>1 DEF Positions
<1>3. resource' = [resource EXCEPT ![r] = position] /\ UNCHANGED <<valid, session, exchange, listener>>
  BY DEF Happens
<1> HIDE DEF position
<1>4. \A cursor \in Positions : NotAhead(cursor, resource[r]) => NotAhead(cursor, position)
  BY <1>1, <1>2, SessionAssumption DEF NotAhead, Positions
<1> QED BY <1>2, <1>3, <1>4, ResourceKeeps

LEMMA StartsKeeps ==
  ASSUME SessionInv, NEW r \in Resources, StartsAgain(r)
  PROVE  SessionInv'
<1> DEFINE position == [stream |-> resource[r].stream + 1, after |-> 0]
<1>1. resource[r] \in Positions /\ resource[r].stream < MaxRestarts
  BY DEF SessionInv, SessionTyped, StartsAgain
<1>2. position \in Positions
  <2>1. resource[r].stream + 1 \in 0..MaxRestarts /\ 0 \in 0..MaxHistory
    BY <1>1, SessionAssumption DEF Positions
  <2> QED BY <2>1 DEF Positions
<1>3. resource' = [resource EXCEPT ![r] = position] /\ UNCHANGED <<valid, session, exchange, listener>>
  BY DEF StartsAgain
<1>4. \A cursor \in Positions : NotAhead(cursor, resource[r]) => NotAhead(cursor, position)
  BY <1>1, SessionAssumption DEF NotAhead, Positions
<1> HIDE DEF position
<1> QED BY <1>2, <1>3, <1>4, ResourceKeeps

LEMMA SessionStepKeeps == SessionInv /\ [SessionNext]_sessionVars => SessionInv'
<1> SUFFICES ASSUME SessionInv, [SessionNext]_sessionVars PROVE SessionInv'
  OBVIOUS
<1>0. \A x \in Exchanges : exchange[x].pc = "found" => exchange[x].s \in Sessions
  BY DEF SessionInv, SessionTyped
<1>1. CASE UNCHANGED sessionVars
  BY <1>0, <1>1, ExchangesOnly DEF sessionVars
<1>2. ASSUME NEW s \in Sessions, NEW token \in Tokens, Initialize(s, token) PROVE SessionInv'
  BY <1>2, InitializeKeeps
<1>3. ASSUME NEW x \in Exchanges, NEW s \in Sessions, NEW token \in Tokens, FindSession(x, s, token)
      PROVE  SessionInv'
  BY <1>3, FindKeeps
<1>4. ASSUME NEW x \in Exchanges, Initialized(x) PROVE SessionInv'
  BY <1>4, InitializedKeeps
<1>5. ASSUME NEW x \in Exchanges, Refused(x) PROVE SessionInv'
  <2>1. \A y \in Exchanges : exchange'[y].pc = "found" => exchange'[y].s \in Sessions
    BY <1>5, ExchangeEnds DEF Refused
  <2> QED BY <1>5, <2>1, ExchangesOnly DEF Refused
<1>6. ASSUME NEW x \in Exchanges, Listen(x) PROVE SessionInv'
  BY <1>6, ListenKeeps
<1>7. ASSUME NEW x \in Exchanges, Terminate(x) PROVE SessionInv'
  <2>1. \A y \in Exchanges : exchange'[y].pc = "found" => exchange'[y].s \in Sessions
    BY <1>7, ExchangeEnds DEF Terminate
  <2>2. exchange[x].s \in Sessions
    BY <1>7, FoundSession DEF Terminate
  <2> QED BY <1>7, <2>1, <2>2, EndedKeeps DEF Terminate
<1>8. ASSUME NEW x \in Exchanges, NEW r \in Resources, Subscribe(x, r) \/ Unsubscribe(x, r) PROVE SessionInv'
  BY <1>8, SubscribeKeeps, UnsubscribeKeeps
<1>9. ASSUME NEW s \in Sessions, PollSession(s) PROVE SessionInv'
  BY <1>9, PollKeeps
<1>10. ASSUME NEW s \in Sessions, SendHint(s) \/ EndListening(s) PROVE SessionInv'
  BY <1>10, HintKeeps, EndListeningKeeps
<1>11. ASSUME NEW s \in Sessions, SessionExpires(s) PROVE SessionInv'
  <2>1. \A y \in Exchanges : exchange'[y].pc = "found" => exchange'[y].s \in Sessions
    BY <1>0, <1>11 DEF SessionExpires
  <2> QED BY <1>11, <2>1, EndedKeeps DEF SessionExpires
<1>12. ASSUME NEW token \in Tokens, TokenEnds(token) PROVE SessionInv'
  <2>1. \A y \in Exchanges : exchange'[y].pc = "found" => exchange'[y].s \in Sessions
    BY <1>0, <1>12 DEF TokenEnds
  <2> QED BY <1>12, <2>1, ExchangesOnly DEF TokenEnds
<1>13. ASSUME NEW r \in Resources, Happens(r) \/ StartsAgain(r) PROVE SessionInv'
  BY <1>13, HappensKeeps, StartsKeeps
<1> QED BY <1>1, <1>2, <1>3, <1>4, <1>5, <1>6, <1>7, <1>8, <1>9, <1>10, <1>11, <1>12, <1>13 DEF SessionNext

(* http.rs listen and lib.rs notifications: for any number of sessions,    *)
(* requests, tokens and resources the limits are kept, and a client that   *)
(* listens has seen, or is about to be hinted at, all its cursors passed.  *)
THEOREM HintsAreComplete == SessionSpec => [](SessionTypeOK /\ NothingIsSkipped)
<1>1. SessionSpec => []SessionInv
  BY SessionInitHolds, SessionStepKeeps, PTL DEF SessionSpec
<1> QED BY <1>1, SessionInvImplies, PTL

(* A request that waits for a session was let in with that session's token, *)
(* and a session that was made keeps its token.                            *)
CredentialsHold ==
  \A x \in Exchanges : exchange[x].pc = "found" =>
    session[exchange[x].s].state # "none" /\ session[exchange[x].s].token = exchange[x].token

LEMMA TokensStay ==
  ASSUME SessionInv, [SessionNext]_sessionVars, NEW s \in Sessions, session[s].state # "none"
  PROVE  session'[s].state # "none" /\ session'[s].token = session[s].token
<1>0. session \in [Sessions -> SessionRows] /\ session[s] \in SessionRows
  BY CursorsTyped DEF SessionInv, SessionTyped
<1>1. CASE UNCHANGED session
  BY <1>1
<1>2. ASSUME NEW q \in Sessions, NEW token \in Tokens, Initialize(q, token)
      PROVE  session'[s].state # "none" /\ session'[s].token = session[s].token
  <2>1. q # s
    BY <1>2 DEF Initialize, None
  <2> QED BY <1>0, <1>2, <2>1 DEF Initialize
<1>3. ASSUME NEW q \in Sessions, NEW cursors, session' = [session EXCEPT ![q].cursors = cursors]
      PROVE  session'[s].state # "none" /\ session'[s].token = session[s].token
  BY <1>0, <1>3 DEF SessionRows
<1>4. ASSUME NEW q \in Sessions, session' = [session EXCEPT ![q].ready = TRUE]
      PROVE  session'[s].state # "none" /\ session'[s].token = session[s].token
  BY <1>0, <1>4 DEF SessionRows
<1>5. ASSUME NEW q \in Sessions, NEW state \in {"closed", "expired"}, session' = [session EXCEPT ![q].state = state]
      PROVE  session'[s].state # "none" /\ session'[s].token = session[s].token
  BY <1>0, <1>5 DEF SessionRows
<1>6. ASSUME NEW x \in Exchanges, Initialized(x) \/ Listen(x) \/ Terminate(x)
      PROVE  session'[s].state # "none" /\ session'[s].token = session[s].token
  BY <1>3, <1>4, <1>5, <1>6, FoundSession DEF Initialized, Listen, Terminate, Handles
<1>7. ASSUME NEW x \in Exchanges, NEW r \in Resources, Subscribe(x, r) \/ Unsubscribe(x, r)
      PROVE  session'[s].state # "none" /\ session'[s].token = session[s].token
  BY <1>3, <1>7, FoundSession DEF Subscribe, Unsubscribe, Handles
<1>8. ASSUME NEW q \in Sessions, PollSession(q)
      PROVE  session'[s].state # "none" /\ session'[s].token = session[s].token
  BY <1>3, <1>8 DEF PollSession
<1>9. ASSUME NEW q \in Sessions, SessionExpires(q)
      PROVE  session'[s].state # "none" /\ session'[s].token = session[s].token
  BY <1>5, <1>9 DEF SessionExpires
<1> QED
  BY <1>1, <1>2, <1>6, <1>7, <1>8, <1>9
     DEF SessionNext, sessionVars, FindSession, Refused, SendHint, EndListening, TokenEnds, Happens, StartsAgain

LEMMA CredentialsKeep ==
  ASSUME SessionInv, CredentialsHold, [SessionNext]_sessionVars
  PROVE  CredentialsHold'
<1>1. SUFFICES ASSUME NEW x \in Exchanges, exchange'[x].pc = "found"
               PROVE  /\ session'[exchange'[x].s].state # "none"
                      /\ session'[exchange'[x].s].token = exchange'[x].token
  BY DEF CredentialsHold
<1>2. CASE exchange'[x] = exchange[x]
  <2>1. exchange[x].s \in Sessions
    BY <1>1, <1>2 DEF SessionInv, SessionTyped
  <2> QED BY <1>1, <1>2, <2>1, TokensStay DEF CredentialsHold
<1>3. CASE exchange'[x] # exchange[x]
  <2>1. PICK y \in Exchanges : \/ exchange' = [exchange EXCEPT ![y] = Elsewhere]
                               \/ \E s \in Sessions, token \in Tokens : FindSession(y, s, token)
    BY <1>3 DEF SessionNext, sessionVars, Initialize, Initialized, Subscribe, Unsubscribe, Refused, Listen,
                PollSession, SendHint, EndListening, Terminate, SessionExpires, TokenEnds, Happens,
                StartsAgain, Handles
  <2>2. CASE exchange' = [exchange EXCEPT ![y] = Elsewhere]
    BY <1>1, <1>3, <2>2 DEF Elsewhere
  <2>3. ASSUME NEW s \in Sessions, NEW token \in Tokens, FindSession(y, s, token)
        PROVE  /\ session'[exchange'[x].s].state # "none"
               /\ session'[exchange'[x].s].token = exchange'[x].token
    BY <1>1, <1>3, <2>3 DEF FindSession, Open
  <2> QED BY <2>1, <2>2, <2>3
<1> QED BY <1>2, <1>3

(* http.rs entry and receive: the position of a session moves, and it is    *)
(* made ready, only while the token it belongs to still gives access,      *)
(* however long the request waited for the session's lock.                 *)
ActsForItsToken ==
  \A s \in Sessions :
    \/ session'[s].cursors # session[s].cursors
    \/ session'[s].ready # session[s].ready
    => session[s].token \in valid

(* No request outlives its credential: for any number of tokens, sessions   *)
(* and requests that wait, what is done to a session its token permits.     *)
THEOREM SessionsActForTheirTokens == SessionSpec => [][ActsForItsToken]_sessionVars
<1>1. ASSUME SessionInv, CredentialsHold, SessionNext PROVE ActsForItsToken
  <2> SUFFICES ASSUME NEW s \in Sessions,
                      \/ session'[s].cursors # session[s].cursors
                      \/ session'[s].ready # session[s].ready
               PROVE  session[s].token \in valid
    BY DEF ActsForItsToken
  <2>0. session \in [Sessions -> SessionRows] /\ session[s] \in SessionRows
    BY <1>1, CursorsTyped DEF SessionInv, SessionTyped
  <2>1. ASSUME NEW q \in Sessions, session' = [session EXCEPT ![q] = session'[q]] PROVE q = s
    BY <2>0, <2>1
  <2>2. ASSUME NEW x \in Exchanges, exchange[x].pc = "found", exchange[x].token \in valid,
               session' = [session EXCEPT ![exchange[x].s] = session'[exchange[x].s]]
        PROVE  session[s].token \in valid
    BY <1>1, <2>1, <2>2, FoundSession DEF CredentialsHold
  <2>3. ASSUME NEW x \in Exchanges, Initialized(x) \/ Listen(x) PROVE session[s].token \in valid
    BY <2>0, <2>2, <2>3 DEF Initialized, Listen, Handles, MayHandle
  <2>4. ASSUME NEW x \in Exchanges, NEW r \in Resources, Subscribe(x, r) \/ Unsubscribe(x, r)
        PROVE  session[s].token \in valid
    BY <2>0, <2>2, <2>4 DEF Subscribe, Unsubscribe, Handles, MayHandle
  <2>5. ASSUME NEW q \in Sessions, PollSession(q) PROVE session[s].token \in valid
    <3>1. PICK next : session' = [session EXCEPT ![q].cursors = next]
      BY <2>5 DEF PollSession
    <3>2. q = s
      BY <2>0, <3>1
    <3> QED BY <2>5, <3>2 DEF PollSession, StreamMayGoOn
  <2>6. ASSUME NEW q \in Sessions, NEW token \in Tokens, Initialize(q, token) PROVE FALSE
    <3>1. session[q] \in SessionRows
      BY <1>1, CursorsTyped
    <3> QED BY <2>0, <2>6, <3>1 DEF Initialize, SessionRows
  <2>7. ASSUME NEW q \in Sessions, SessionExpires(q) PROVE FALSE
    <3>1. session[q] \in SessionRows
      BY <1>1, CursorsTyped
    <3> QED BY <2>0, <2>7, <3>1 DEF SessionExpires, SessionRows
  <2>8. ASSUME NEW x \in Exchanges, Terminate(x) PROVE FALSE
    <3>1. exchange[x].s \in Sessions /\ session[exchange[x].s] \in SessionRows
      BY <1>1, <2>8, FoundSession DEF Terminate
    <3> QED BY <2>0, <2>8, <3>1 DEF Terminate, SessionRows
  <2>9. session' # session
    OBVIOUS
  <2> QED
    BY <1>1, <2>3, <2>4, <2>5, <2>6, <2>7, <2>8, <2>9
       DEF SessionNext, FindSession, Refused, SendHint, EndListening, TokenEnds, Happens, StartsAgain
<1>2. SessionInv /\ CredentialsHold /\ [SessionNext]_sessionVars => [ActsForItsToken]_sessionVars
  BY <1>1
<1>3. SessionInit => CredentialsHold
  BY DEF SessionInit, CredentialsHold, Elsewhere
<1>4. SessionSpec => [](SessionInv /\ CredentialsHold)
  BY <1>3, SessionInitHolds, SessionStepKeeps, CredentialsKeep, PTL DEF SessionSpec
<1> QED BY <1>2, <1>4, PTL DEF SessionSpec

-----------------------------------------------------------------------------
(* Admission. *)

UploadRows == [pc : {"idle", "over"} \cup Running, conflict : BOOLEAN, ipp : BOOLEAN,
               p : Preflights \cup {NoPreflight}, request : Requests \cup {NoRequest}]
Dirs == {"none", "part", "sealed", "gone"}

(* The types of what the uploads write, and of the rest. *)
UploadsTyped ==
  /\ upload \in [Uploads -> UploadRows] /\ sourceDir \in [Uploads -> Dirs]
  /\ accepted \subseteq Uploads
  /\ commits \in [Preflights -> Uploads \cup {NoUpload}]
  /\ workflows \in [Requests -> Uploads \cup {NoUpload}]

RestTyped ==
  /\ preflight \in [Preflights -> [state : {"none", "issued", "expired", "pruned"},
                                   capability : 0..MaxCapability]]
  /\ failedJob \subseteq Retries /\ capability \in 0..MaxCapability
  /\ present \subseteq accepted
  /\ numbered \in Seq(accepted)

(* An upload is accepted by its insertion, and sealed from its staging on.  *)
StagedPcs == {"sealed", "validated", "ready"}
BeforePcs == {"idle", "staging", "failed"} \cup StagedPcs
Stages == \A u \in Uploads :
  /\ upload[u].pc \in BeforePcs => u \notin accepted
  /\ upload[u].pc = "inserted" => u \in accepted
  /\ upload[u].pc \in StagedPcs => sourceDir[u] = "sealed"

(* An accepted upload owns its commit and its pipeline, *)
Owners == \A u \in accepted :
  /\ sourceDir[u] = "sealed"
  /\ upload[u].p # NoPreflight => commits[upload[u].p] = u
  /\ upload[u].request # NoRequest => workflows[upload[u].request] = u

(* and there are no others. *)
Ledger ==
  /\ \A p \in Preflights : commits[p] # NoUpload => commits[p] \in accepted /\ upload[commits[p]].p = p
  /\ \A q \in Requests :
       workflows[q] # NoUpload => workflows[q] \in accepted /\ upload[workflows[q]].request = q

(* What was answered. *)
Named(u) == {upload[u].p, upload[u].request} \cup {n \in DOMAIN numbered : numbered[n] = u}
Answered == \A r \in replies : r.job \in accepted /\ r.asked \in Named(r.job)

Books == UploadsTyped /\ Stages /\ Owners /\ Ledger
AdmissionInv == Books /\ RestTyped /\ Answered

USE AdmissionAssumption

----------------------------------------------------------------------------
LEMMA AdmissionInitHolds == AdmissionInit => AdmissionInv
<1> SUFFICES ASSUME AdmissionInit PROVE AdmissionInv
  OBVIOUS
<1> USE DEF AdmissionInit
<1>1. UploadsTyped /\ RestTyped
  BY DEF UploadsTyped, RestTyped, Unused, UploadRows, Running, Dirs
<1>2. Stages
  BY DEF Stages, Unused, BeforePcs, StagedPcs
<1>3. Owners /\ Ledger /\ Answered
  BY DEF Owners, Ledger, Answered
<1> QED BY <1>1, <1>2, <1>3 DEF AdmissionInv, Books

(* One upload and its directory change; nothing is accepted.  What is       *)
(* accepted keeps what it is.                                               *)
LEMMA UploadGoes ==
  ASSUME Books, NEW u \in Uploads, NEW it \in UploadRows, upload' = [upload EXCEPT ![u] = it],
         NEW dir \in Dirs, sourceDir' = [sourceDir EXCEPT ![u] = dir],
         UNCHANGED <<accepted, commits, workflows>>,
         u \in accepted => /\ dir = sourceDir[u] /\ it.pc = "over"
                           /\ it.p = upload[u].p /\ it.request = upload[u].request,
         u \notin accepted => it.pc # "inserted",
         it.pc \in StagedPcs => dir = "sealed"
  PROVE  Books' /\ \A w \in accepted : upload'[w].p = upload[w].p /\ upload'[w].request = upload[w].request
<1> USE DEF Books, UploadsTyped
<1>1. UploadsTyped'
  OBVIOUS
<1>2. \A w \in Uploads : /\ w # u => upload'[w] = upload[w] /\ sourceDir'[w] = sourceDir[w]
                         /\ w = u => upload'[w] = it /\ sourceDir'[w] = dir
  OBVIOUS
<1>3. Stages'
  BY <1>2 DEF Stages, BeforePcs, StagedPcs
<1>4. \A w \in accepted : upload'[w].p = upload[w].p /\ upload'[w].request = upload[w].request
  BY <1>2
<1>5. Owners'
  BY <1>2, <1>4 DEF Owners
<1>6. Ledger'
  BY <1>4 DEF Ledger
<1> QED BY <1>1, <1>3, <1>4, <1>5, <1>6

LEMMA AnswersStay ==
  ASSUME AdmissionInv, accepted \subseteq accepted',
         \A w \in accepted : upload'[w].p = upload[w].p /\ upload'[w].request = upload[w].request,
         \/ UNCHANGED numbered
         \/ \E u \in accepted : numbered' = Append(numbered, u),
         \A r \in replies' : r \in replies \/ (r.job \in accepted' /\ r.asked \in Named(r.job)')
  PROVE  Answered'
<1>1. numbered \in Seq(accepted)
  BY DEF AdmissionInv, RestTyped
<1>2. \A n \in DOMAIN numbered : n \in DOMAIN numbered' /\ numbered'[n] = numbered[n]
  BY <1>1
<1> QED BY <1>2 DEF AdmissionInv, Answered, Named

LEMMA SeqGrows == ASSUME NEW S, NEW T, S \subseteq T, NEW s \in Seq(S) PROVE s \in Seq(T)
OBVIOUS

----------------------------------------------------------------------------
(* The rows of preflights, and what is deleted. *)
RowStep ==
  \/ \E p \in Preflights : IssuePreflight(p) \/ IssuePipelinePreflight(p) \/ Expire(p)
                           \/ PrunePreflight(p) \/ DeleteFailed(p)
  \/ \E u \in Uploads : DeleteAccepted(u)
  \/ CapabilityChanges

LEMMA RowsKeep ==
  ASSUME AdmissionInv, RowStep
  PROVE  AdmissionInv'
<1>1. RestTyped'
  <2> USE DEF AdmissionInv, RestTyped
  <2>1. ASSUME NEW p \in Preflights, NEW state \in {"issued", "expired", "pruned"}, NEW c \in 0..MaxCapability,
               \/ preflight' = [preflight EXCEPT ![p].state = state]
               \/ preflight' = [preflight EXCEPT ![p] = [state |-> state, capability |-> c]],
               UNCHANGED <<failedJob, capability, present, accepted, numbered>>
        PROVE  RestTyped'
    BY <2>1
  <2>2. ASSUME NEW p \in Preflights,
               IssuePreflight(p) \/ IssuePipelinePreflight(p) \/ Expire(p) \/ PrunePreflight(p)
        PROVE  RestTyped'
    BY <2>1, <2>2 DEF IssuePreflight, IssuePipelinePreflight, SettledAgainst, Expire, PrunePreflight
  <2> QED BY <2>2 DEF RowStep, DeleteFailed, DeleteAccepted, CapabilityChanges
<1>2. UNCHANGED <<upload, sourceDir, accepted, commits, workflows, numbered, replies>>
  BY DEF RowStep, IssuePreflight, IssuePipelinePreflight, Expire, PrunePreflight, DeleteFailed,
         DeleteAccepted, CapabilityChanges
<1> QED BY <1>1, <1>2 DEF AdmissionInv, Books, UploadsTyped, Stages, Owners, Ledger, Answered, Named

----------------------------------------------------------------------------
(* How the row of an upload changes. *)
LEMMA PcGoes ==
  ASSUME UploadsTyped, NEW u \in Uploads, NEW pc \in {"idle", "over"} \cup Running, Reaches(u, pc)
  PROVE  \E it \in UploadRows :
           /\ upload' = [upload EXCEPT ![u] = it] /\ it.pc = pc
           /\ it.p = upload[u].p /\ it.request = upload[u].request
<1> DEFINE it == [upload[u] EXCEPT !.pc = pc]
<1>1. upload[u] \in UploadRows
  BY DEF UploadsTyped
<1>2. it \in UploadRows /\ it.pc = pc /\ it.p = upload[u].p /\ it.request = upload[u].request
  BY <1>1 DEF UploadRows
<1>3. upload' = [upload EXCEPT ![u] = it]
  BY DEF Reaches
<1> HIDE DEF it
<1> QED BY <1>2, <1>3

LEMMA FailureGoes ==
  ASSUME UploadsTyped, NEW u \in Uploads, NEW conflict \in BOOLEAN, Fails(u, conflict)
  PROVE  \E it \in UploadRows : upload' = [upload EXCEPT ![u] = it] /\ it.pc = "failed"
<1> DEFINE it == [upload[u] EXCEPT !.pc = "failed", !.conflict = conflict]
<1>1. upload[u] \in UploadRows
  BY DEF UploadsTyped
<1>2. it \in UploadRows /\ it.pc = "failed"
  BY <1>1 DEF UploadRows, Running
<1>3. upload' = [upload EXCEPT ![u] = it]
  BY <1>1 DEF Fails, UploadsTyped, UploadRows
<1> HIDE DEF it
<1> QED BY <1>2, <1>3

LEMMA LeaveGoes ==
  ASSUME UploadsTyped, NEW u \in Uploads, Leaves(u)
  PROVE  \E it \in UploadRows :
           /\ upload' = [upload EXCEPT ![u] = it] /\ it.pc = "over"
           /\ u \in accepted => it.p = upload[u].p /\ it.request = upload[u].request
<1> DEFINE old == IF u \in accepted THEN upload[u] ELSE Unused
           it == [old EXCEPT !.pc = "over"]
<1>1. old \in UploadRows
  BY DEF UploadsTyped, UploadRows, Unused
<1>2. it \in UploadRows /\ it.pc = "over" /\ it.p = old.p /\ it.request = old.request
  BY <1>1 DEF UploadRows
<1>3. upload' = [upload EXCEPT ![u] = it]
  BY DEF Leaves
<1>4. u \in accepted => old = upload[u]
  OBVIOUS
<1> HIDE DEF it, old
<1> QED BY <1>2, <1>3, <1>4

(* Directory and lock under a fresh id. *)
BeginStep(u) ==
  \/ \E p \in Preflights : BeginCommit(u, p) \/ BeginRetry(u, p)
  \/ \E q \in Requests : SubmitPipeline(u, q)
  \/ SubmitPlain(u) \/ PrintJob(u)

LEMMA BeginsKeep ==
  ASSUME AdmissionInv, NEW u \in Uploads, BeginStep(u)
  PROVE  AdmissionInv'
<1> USE DEF AdmissionInv
<1>1. ASSUME NEW it \in UploadRows, upload' = [upload EXCEPT ![u] = it], it.pc = "staging", upload[u] = Unused,
             sourceDir' = [sourceDir EXCEPT ![u] = "part"],
             UNCHANGED <<failedJob, capability, accepted, present, commits, workflows, numbered, replies>>,
             \/ UNCHANGED preflight
             \/ \E p \in Preflights : preflight' = [preflight EXCEPT ![p].state = "issued"]
      PROVE  AdmissionInv'
  <2>1. u \notin accepted
    BY <1>1 DEF Books, Stages, Unused, BeforePcs
  <2>2. Books' /\ \A w \in accepted : upload'[w].p = upload[w].p /\ upload'[w].request = upload[w].request
    BY <1>1, <2>1, UploadGoes DEF StagedPcs, Dirs
  <2>3. RestTyped'
    BY <1>1 DEF RestTyped
  <2>4. Answered'
    BY <1>1, <2>2, AnswersStay
  <2> QED BY <2>2, <2>3, <2>4
<1>2. ASSUME NEW p \in Preflights \cup {NoPreflight}, NEW request \in Requests \cup {NoRequest},
             Begins(u, p, request),
             \/ UNCHANGED preflight
             \/ \E r \in Preflights : preflight' = [preflight EXCEPT ![r].state = "issued"]
      PROVE  AdmissionInv'
  <2> DEFINE it == [Unused EXCEPT !.pc = "staging", !.p = p, !.request = request]
  <2>1. it \in UploadRows /\ it.pc = "staging"
    BY DEF Unused, UploadRows, Running
  <2>2. upload' = [upload EXCEPT ![u] = it]
    BY <1>2 DEF Begins
  <2> HIDE DEF it
  <2> QED BY <1>1, <1>2, <2>1, <2>2 DEF Begins
<1>3. CASE PrintJob(u)
  <2> DEFINE it == [Unused EXCEPT !.pc = "staging", !.ipp = TRUE]
  <2>1. it \in UploadRows /\ it.pc = "staging"
    BY DEF Unused, UploadRows, Running
  <2>2. upload' = [upload EXCEPT ![u] = it]
    BY <1>3 DEF PrintJob
  <2> HIDE DEF it
  <2> QED BY <1>1, <1>3, <2>1, <2>2 DEF PrintJob, storeSame
<1>4. ASSUME NEW p \in Preflights, BeginCommit(u, p)
      PROVE  AdmissionInv'
  <2>1. (IF p \in Pipelined THEN RequestOf(p) ELSE NoRequest) \in Requests \cup {NoRequest}
    OBVIOUS
  <2> QED BY <1>2, <1>4, <2>1 DEF BeginCommit
<1>5. ASSUME NEW p \in Preflights, BeginRetry(u, p)
      PROVE  AdmissionInv'
  BY <1>2, <1>5 DEF BeginRetry
<1> QED BY <1>2, <1>3, <1>4, <1>5 DEF BeginStep, SubmitPipeline, SubmitPlain

(* Staging and the checks. *)
CheckStep(u) == StageDocument(u) \/ ValidateAgain(u) \/ CheckAgain(u)

StaysOutside(u) ==
  \E it \in UploadRows, dir \in Dirs :
    /\ upload' = [upload EXCEPT ![u] = it] /\ sourceDir' = [sourceDir EXCEPT ![u] = dir]
    /\ it.pc \in StagedPcs \cup {"failed"}
    /\ it.pc \in StagedPcs => dir = "sealed"

LEMMA ChecksKeep ==
  ASSUME AdmissionInv, NEW u \in Uploads, CheckStep(u)
  PROVE  AdmissionInv'
<1> USE DEF AdmissionInv
<1>1. u \notin accepted /\ (upload[u].pc # "staging" => sourceDir[u] = "sealed")
  BY DEF CheckStep, StageDocument, ValidateAgain, CheckAgain, Books, Stages, BeforePcs, StagedPcs
<1>2. UNCHANGED replies /\ storeSame
  BY DEF CheckStep, StageDocument, ValidateAgain, CheckAgain
<1>3. StaysOutside(u)
  <2>1. sourceDir = [sourceDir EXCEPT ![u] = sourceDir[u]] /\ sourceDir[u] \in Dirs
    BY DEF Books, UploadsTyped
  <2>2. ASSUME NEW conflict \in BOOLEAN, Fails(u, conflict), UNCHANGED sourceDir
        PROVE  StaysOutside(u)
    <3>1. PICK it \in UploadRows : upload' = [upload EXCEPT ![u] = it] /\ it.pc = "failed"
      BY <2>2, FailureGoes DEF Books
    <3> QED BY <2>1, <2>2, <3>1 DEF StaysOutside, StagedPcs
  <2>3. ASSUME NEW pc \in StagedPcs, Reaches(u, pc), NEW dir \in Dirs, dir = "sealed",
               sourceDir' = [sourceDir EXCEPT ![u] = dir]
        PROVE  StaysOutside(u)
    <3>1. PICK it \in UploadRows : upload' = [upload EXCEPT ![u] = it] /\ it.pc = pc
      BY <2>3, PcGoes DEF Books, StagedPcs, Running
    <3> QED BY <2>3, <3>1 DEF StaysOutside
  <2>4. CASE StageDocument(u)
    BY <2>2, <2>3, <2>4 DEF StageDocument, StagedPcs, Dirs
  <2>5. CASE ValidateAgain(u)
    <3>1. sourceDir' = [sourceDir EXCEPT ![u] = "sealed"]
      BY <1>1, <2>1, <2>5 DEF ValidateAgain
    <3> QED BY <2>2, <2>3, <2>5, <3>1 DEF ValidateAgain, StagedPcs, Dirs
  <2>6. CASE CheckAgain(u)
    <3>1. sourceDir' = [sourceDir EXCEPT ![u] = "sealed"]
      BY <1>1, <2>1, <2>6 DEF CheckAgain
    <3> QED BY <2>2, <2>3, <2>6, <3>1 DEF CheckAgain, StagedPcs, Dirs
  <2> QED BY <2>4, <2>5, <2>6 DEF CheckStep
<1>4. Books' /\ \A w \in accepted : upload'[w].p = upload[w].p /\ upload'[w].request = upload[w].request
  <2>1. PICK it \in UploadRows, dir \in Dirs :
          /\ upload' = [upload EXCEPT ![u] = it] /\ sourceDir' = [sourceDir EXCEPT ![u] = dir]
          /\ it.pc \in StagedPcs \cup {"failed"}
          /\ it.pc \in StagedPcs => dir = "sealed"
    BY <1>3 DEF StaysOutside
  <2>2. it.pc # "inserted"
    BY <2>1 DEF StagedPcs
  <2>3. UNCHANGED <<accepted, commits, workflows>>
    BY <1>2 DEF storeSame
  <2> QED BY <1>1, <2>1, <2>2, <2>3, UploadGoes
<1>5. RestTyped'
  BY <1>2 DEF storeSame, RestTyped
<1>6. Answered'
  BY <1>2, <1>4, AnswersStay DEF storeSame
<1> QED BY <1>4, <1>5, <1>6

----------------------------------------------------------------------------
(* The insertion: what it claims was free. *)
LEMMA InsertKeeps ==
  ASSUME AdmissionInv, NEW u \in Uploads, Insert(u)
  PROVE  AdmissionInv'
<1> USE DEF AdmissionInv
<1>1. upload[u] \in UploadRows /\ u \notin accepted /\ sourceDir[u] = "sealed"
  BY DEF Insert, Books, UploadsTyped, Stages, BeforePcs, StagedPcs
<1>2. CASE /\ MayInsert(u) /\ Reaches(u, "inserted")
           /\ accepted' = accepted \cup {u} /\ present' = present \cup {u}
           /\ commits' = [p \in Preflights |-> IF p = upload[u].p THEN u ELSE commits[p]]
           /\ workflows' = [q \in Requests |-> IF q = upload[u].request THEN u ELSE workflows[q]]
  <2> DEFINE mine == upload[u].p
             asked == upload[u].request
  <2>1. mine \in Preflights \cup {NoPreflight} /\ asked \in Requests \cup {NoRequest}
    BY <1>1 DEF UploadRows
  <2>2. PICK it \in UploadRows : /\ upload' = [upload EXCEPT ![u] = it] /\ it.pc = "inserted"
                                 /\ it.p = mine /\ it.request = asked
    BY <1>2, PcGoes DEF Books, Running
  <2>3. /\ mine # NoPreflight => commits[mine] = NoUpload
        /\ asked # NoRequest => workflows[asked] = NoUpload
    BY <1>2 DEF MayInsert
  <2>4. UNCHANGED <<preflight, failedJob, capability, sourceDir, numbered, replies>>
    BY DEF Insert
  <2>5. /\ \A p \in Preflights : commits'[p] = IF p = mine THEN u ELSE commits[p]
        /\ \A q \in Requests : workflows'[q] = IF q = asked THEN u ELSE workflows[q]
        /\ accepted' = accepted \cup {u}
    BY <1>2
  <2>6. UploadsTyped'
    BY <1>2, <2>2, <2>4 DEF Books, UploadsTyped
  <2>7. \A w \in Uploads : upload'[w] = IF w = u THEN it ELSE upload[w]
    BY <2>2 DEF Books, UploadsTyped
  <2>8. RestTyped'
    BY <1>2, <2>4, SeqGrows DEF RestTyped
  <2>9. accepted \subseteq Uploads /\ \A w \in accepted : upload[w] \in UploadRows
    BY DEF Books, UploadsTyped
  <2>10. \A w \in accepted : upload'[w].p = upload[w].p /\ upload'[w].request = upload[w].request
    BY <1>1, <2>7, <2>9
  <2> HIDE DEF mine, asked
  <2>11. Stages'
    BY <1>1, <2>2, <2>4, <2>5, <2>7 DEF Books, Stages, BeforePcs, StagedPcs
  <2>12. Owners'
    <3>1. \A w \in accepted :
            /\ upload[w].p # NoPreflight => upload[w].p # mine /\ upload[w].p \in Preflights
            /\ upload[w].request # NoRequest => upload[w].request # asked /\ upload[w].request \in Requests
      BY <2>3, <2>9 DEF Books, Owners, UploadRows
    <3> QED BY <1>1, <2>1, <2>2, <2>4, <2>5, <2>7, <2>10, <3>1 DEF Books, Owners
  <2>13. Ledger'
    BY <2>2, <2>5, <2>7, <2>10 DEF Books, Ledger
  <2>14. Answered'
    BY <2>4, <2>5, <2>10, AnswersStay
  <2> QED BY <2>6, <2>8, <2>11, <2>12, <2>13, <2>14 DEF Books
<1>3. CASE Fails(u, TRUE) \/ Fails(u, FALSE)
  <2>1. CASE UNCHANGED <<accepted, present, commits, workflows>>
    <3>1. PICK it \in UploadRows : upload' = [upload EXCEPT ![u] = it] /\ it.pc = "failed"
      BY <1>3, FailureGoes DEF Books
    <3>2. UNCHANGED <<preflight, failedJob, capability, sourceDir, numbered, replies>>
      BY DEF Insert
    <3>3. sourceDir' = [sourceDir EXCEPT ![u] = sourceDir[u]] /\ sourceDir[u] \in Dirs
      BY <3>2 DEF Books, UploadsTyped
    <3>4. Books' /\ \A w \in accepted : upload'[w].p = upload[w].p /\ upload'[w].request = upload[w].request
      BY <1>1, <2>1, <3>1, <3>3, UploadGoes DEF StagedPcs
    <3>5. RestTyped'
      BY <2>1, <3>2 DEF RestTyped
    <3>6. Answered'
      BY <2>1, <3>2, <3>4, AnswersStay
    <3> QED BY <3>4, <3>5, <3>6
  <2>2. CASE ~UNCHANGED <<accepted, present, commits, workflows>>
    BY <1>2, <2>2 DEF Insert
  <2> QED BY <2>1, <2>2
<1> QED BY <1>2, <1>3 DEF Insert

----------------------------------------------------------------------------
(* The answers, and the ends without one. *)
EndStep(u) == Accept(u) \/ RegisterIpp(u) \/ Refuse(u) \/ Abandon(u)

LEMMA EndsKeep ==
  ASSUME AdmissionInv, NEW u \in Uploads, EndStep(u)
  PROVE  AdmissionInv'
<1> USE DEF AdmissionInv
<1>1. PICK it \in UploadRows : /\ upload' = [upload EXCEPT ![u] = it] /\ it.pc = "over"
                               /\ u \in accepted => it.p = upload[u].p /\ it.request = upload[u].request
  BY LeaveGoes DEF EndStep, Accept, RegisterIpp, Refuse, Abandon, Books
<1>2. PICK dir \in Dirs : /\ sourceDir' = [sourceDir EXCEPT ![u] = dir]
                          /\ u \in accepted => dir = sourceDir[u]
  <2>1. sourceDir = [sourceDir EXCEPT ![u] = sourceDir[u]] /\ sourceDir[u] \in Dirs
    BY DEF Books, UploadsTyped
  <2>2. CASE Refuse(u)
    <3>1. u \notin accepted
      BY <2>2 DEF Refuse, Books, Stages, BeforePcs
    <3> QED BY <2>1, <2>2, <3>1 DEF Refuse, Dirs
  <2>3. CASE UNCHANGED sourceDir
    BY <2>1, <2>3
  <2> QED BY <2>2, <2>3 DEF EndStep, Accept, RegisterIpp, Abandon
<1>3. UNCHANGED <<preflight, failedJob, capability, accepted, present, commits, workflows>>
  BY DEF EndStep, Accept, RegisterIpp, Refuse, Abandon, storeSame
<1>4. Books' /\ \A w \in accepted : upload'[w].p = upload[w].p /\ upload'[w].request = upload[w].request
  BY <1>1, <1>2, <1>3, UploadGoes DEF StagedPcs
<1>5. upload[u] \in UploadRows /\ (upload[u].pc = "inserted" => u \in accepted)
  BY DEF Books, UploadsTyped, Stages
<1>6. CASE Accept(u)
  <2>1. u \in accepted /\ UNCHANGED numbered
    BY <1>5, <1>6 DEF Accept, storeSame
  <2>2. \A r \in replies' : r \in replies \/ (r.job = u /\ r.asked = Asked(u))
    BY <1>6 DEF Accept, Replies
  <2>3. Asked(u) \in Named(u)'
    BY <1>4, <2>1 DEF Asked, Named
  <2>4. Answered'
    BY <1>3, <1>4, <2>1, <2>2, <2>3, AnswersStay
  <2> QED BY <1>3, <1>4, <2>1, <2>4 DEF RestTyped
<1>7. CASE RegisterIpp(u)
  <2>1. u \in accepted /\ numbered \in Seq(accepted)
    BY <1>5, <1>7 DEF RegisterIpp, RestTyped
  <2>2. CASE numbered' = Append(numbered, u) /\ Replies(Len(numbered'), u)
    <3>1. \A r \in replies' : r \in replies \/ (r.job = u /\ r.asked = Len(numbered'))
      BY <2>2 DEF Replies
    <3>2. Len(numbered') \in DOMAIN numbered' /\ numbered'[Len(numbered')] = u /\ numbered' \in Seq(accepted)
      BY <2>1, <2>2
    <3>3. Len(numbered') \in Named(u)'
      BY <3>2 DEF Named
    <3>4. Answered'
      BY <1>3, <1>4, <2>1, <2>2, <3>1, <3>3, AnswersStay
    <3> QED BY <1>3, <1>4, <3>2, <3>4 DEF RestTyped
  <2>3. CASE UNCHANGED <<numbered, replies>>
    BY <1>3, <1>4, <2>3, AnswersStay DEF RestTyped
  <2> QED BY <1>7, <2>2, <2>3 DEF RegisterIpp
<1>8. CASE Refuse(u)
  <2>1. UNCHANGED numbered
    BY <1>8 DEF Refuse, storeSame
  <2>2. CASE Winner(u) # NoUpload /\ Replies(Asked(u), Winner(u))
    <3>0. PICK w : w = Winner(u)
      OBVIOUS
    <3>1. \A r \in replies' : r \in replies \/ (r.job = w /\ r.asked = Asked(u))
      BY <2>2, <3>0 DEF Replies
    <3>2. w \in accepted /\ (Asked(u) = upload[w].p \/ Asked(u) = upload[w].request)
      <4>1. CASE upload[u].p = NoPreflight
        <5>1. upload[u].request \in Requests /\ w = workflows[upload[u].request]
          BY <1>5, <2>2, <3>0, <4>1 DEF Winner, UploadRows
        <5> QED BY <2>2, <3>0, <4>1, <5>1 DEF Asked, Books, Ledger
      <4>2. CASE upload[u].p # NoPreflight
        <5>1. upload[u].p \in Preflights /\ w = commits[upload[u].p]
          BY <1>5, <2>2, <3>0, <4>2 DEF Winner, UploadRows
        <5> QED BY <2>2, <3>0, <4>2, <5>1 DEF Asked, Books, Ledger
      <4> QED BY <4>1, <4>2
    <3>3. Asked(u) \in Named(w)'
      BY <1>4, <3>2 DEF Named
    <3>4. Answered'
      BY <1>3, <1>4, <2>1, <3>1, <3>2, <3>3, AnswersStay
    <3> QED BY <1>3, <1>4, <2>1, <3>4 DEF RestTyped
  <2>3. CASE UNCHANGED replies
    BY <1>3, <1>4, <2>1, <2>3, AnswersStay DEF RestTyped
  <2> QED BY <1>8, <2>2, <2>3 DEF Refuse
<1>9. CASE Abandon(u)
  BY <1>3, <1>4, <1>9, AnswersStay DEF Abandon, storeSame, RestTyped
<1> QED BY <1>6, <1>7, <1>8, <1>9 DEF EndStep

LEMMA SweepKeeps ==
  ASSUME AdmissionInv, NEW u \in Uploads, SweepUpload(u)
  PROVE  AdmissionInv'
<1> USE DEF AdmissionInv
<1>1. u \notin accepted /\ upload[u].pc \notin Running
  BY DEF SweepUpload, Orphaned
<1>2. upload[u] \in UploadRows /\ upload' = [upload EXCEPT ![u] = upload[u]]
  BY DEF SweepUpload, Books, UploadsTyped
<1>3. sourceDir' = [sourceDir EXCEPT ![u] = "gone"] /\ storeSame /\ UNCHANGED replies
  BY DEF SweepUpload
<1>4. Books' /\ \A w \in accepted : upload'[w].p = upload[w].p /\ upload'[w].request = upload[w].request
  <2>1. upload[u].pc \notin StagedPcs \cup {"inserted"}
    BY <1>1 DEF Running, StagedPcs
  <2> QED BY <1>1, <1>2, <1>3, <2>1, UploadGoes DEF Dirs, storeSame
<1>5. RestTyped'
  BY <1>3 DEF storeSame, RestTyped
<1>6. Answered'
  BY <1>3, <1>4, AnswersStay DEF storeSame
<1> QED BY <1>4, <1>5, <1>6

LEMMA ReplayKeeps ==
  ASSUME AdmissionInv, NEW p \in Preflights, Replay(p)
  PROVE  AdmissionInv'
<1> USE DEF AdmissionInv
<1>1. UNCHANGED <<preflight, failedJob, capability, upload, sourceDir, accepted, present, commits, workflows, numbered>>
  BY DEF Replay, storeSame
<1>2. Books' /\ RestTyped'
  BY <1>1 DEF Books, UploadsTyped, Stages, Owners, Ledger, RestTyped
<1>3. commits[p] \in accepted /\ upload[commits[p]].p = p
  BY DEF Replay, Committed, Books, Ledger
<1>4. \A r \in replies' : r \in replies \/ (r.job = commits[p] /\ r.asked = p)
  BY DEF Replay, Replies
<1>5. p \in Named(commits[p])'
  BY <1>1, <1>3 DEF Named
<1>6. Answered'
  BY <1>1, <1>3, <1>4, <1>5, AnswersStay
<1> QED BY <1>2, <1>6

----------------------------------------------------------------------------
(* Clients, preflights, uploads and sweeps keep the books: an accepted      *)
(* upload owns its request, and every answer names the owner.               *)
THEOREM AdmissionInvariant == AdmissionSpec => []AdmissionInv
<1>1. AdmissionInv /\ [AdmissionNext]_admissionVars => AdmissionInv'
  <2> SUFFICES ASSUME AdmissionInv, [AdmissionNext]_admissionVars PROVE AdmissionInv'
    OBVIOUS
  <2>1. CASE UNCHANGED admissionVars
    BY <2>1 DEF admissionVars, AdmissionInv, Books, UploadsTyped, Stages, Owners, Ledger, RestTyped,
                Answered, Named
  <2>2. ASSUME NEW p \in Preflights,
               \/ IssuePreflight(p) \/ IssuePipelinePreflight(p) \/ Expire(p) \/ PrunePreflight(p)
               \/ Replay(p) \/ DeleteFailed(p)
        PROVE  AdmissionInv'
    BY <2>2, RowsKeep, ReplayKeeps DEF RowStep
  <2>3. ASSUME NEW u \in Uploads, BeginStep(u) \/ CheckStep(u) \/ Insert(u) \/ EndStep(u) \/ SweepUpload(u)
        PROVE  AdmissionInv'
    BY <2>3, BeginsKeep, ChecksKeep, InsertKeeps, EndsKeep, SweepKeeps
  <2>4. CASE CapabilityChanges \/ \E u \in Uploads : DeleteAccepted(u)
    BY <2>4, RowsKeep DEF RowStep
  <2> QED BY <2>1, <2>2, <2>3, <2>4 DEF AdmissionNext, BeginStep, CheckStep, EndStep
<1> QED BY <1>1, AdmissionInitHolds, PTL DEF AdmissionSpec

(* The types of the rows, of the uploads and of their directories. *)
THEOREM AdmissionTypeCorrect == AdmissionSpec => []AdmissionTypeOK
<1>1. AdmissionInv => AdmissionTypeOK
  BY DEF AdmissionInv, Books, UploadsTyped, RestTyped, AdmissionTypeOK, UploadRows, Dirs
<1> QED BY <1>1, AdmissionInvariant, PTL

(* insert_with_pipeline, commit, retry, submit_pipeline: one job comes of a *)
(* request, however often it is made, and every success names it.           *)
THEOREM OneJobForARequest == AdmissionSpec => []OneJobPerRequest
<1>1. AdmissionInv => OneJobPerRequest
  BY DEF AdmissionInv, Books, Owners, Answered, Named, OneJobPerRequest
<1> QED BY <1>1, AdmissionInvariant, PTL

(* sweep_uploads and the error paths leave an accepted document alone. *)
THEOREM AcceptedStayWhole == AdmissionSpec => []AcceptedIsWhole
<1>1. AdmissionInv => AcceptedIsWhole
  BY DEF AdmissionInv, Books, Owners, AcceptedIsWhole
<1> QED BY <1>1, AdmissionInvariant, PTL
=============================================================================
