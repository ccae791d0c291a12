------------------------- MODULE OperationApprovals -------------------------
(***************************************************************************)
(* Operations that a second administrator must approve.  The guard before  *)
(* the handler reads the state the operation would change, binds it to the *)
(* request and consumes an approval of exactly that binding; the handler   *)
(* runs afterwards, in a transaction of its own, and other requests, a     *)
(* revocation or the end of a credential may come in between.              *)
(***************************************************************************)
EXTENDS Naturals, Sequences

CONSTANTS Callers,       \* requests being served
          Identities,    \* every one of them also an administrator
          Approvals,     \* ids of operation_approvals
          NoApproval,
          Reasons,       \* of a revocation, numbered from 1
          MaxHolds       \* bound on the revisions of the retention policy

ASSUME ApprovalAssumption == NoApproval \notin Approvals /\ Reasons \subseteq Nat \ {0} /\ MaxHolds \in Nat \ {0}

VARIABLES
  subject,    \* what the operations change: hold revision, job, key
  caller,     \* Callers -> control state and the binding it computed
  approval,   \* Approvals -> row of operation_approvals
  active,     \* identities whose credential is still valid
  admitted,   \* approval -> how often it let a request through
  effects     \* approval -> the states replaced under it, a history

opVars == <<subject, caller, approval, active, admitted, effects>>

Operations == {"retention-extend", "job-delete", "receipt-key-revoke"}

(* Revisions of the hold are numbers, and so are the states of the others:  *)
Kept == 0            \* the job exists, or it does not
Deleted == 1
Trusted == 0         \* the key is trusted, or was revoked for a reason

Bindings == [identity : Identities, op : Operations, arg : Reasons \cup {0},
             before : 0..MaxHolds \cup Reasons]

NoBinding == [op |-> "none"]
Free == [state |-> "none", issuer |-> "none", binding |-> NoBinding]
Gone == [pc |-> "away", binding |-> NoBinding, approval |-> NoApproval]

OpInit ==
  /\ subject = [hold |-> 0, job |-> Kept, key |-> Trusted]
  /\ caller = [c \in Callers |-> Gone]
  /\ approval = [a \in Approvals |-> Free]
  /\ admitted = [a \in Approvals |-> 0]
  /\ effects = [a \in Approvals |-> <<>>]
  /\ active = Identities

OpTypeOK ==
  /\ subject.hold \in 0..MaxHolds /\ subject.job \in {Kept, Deleted}
  /\ subject.key \in {Trusted} \cup Reasons
  /\ \A c \in Callers : caller[c].pc \in {"away", "reviewed", "admitted"}
  /\ \A c \in Callers : caller[c].pc # "away" => caller[c].binding \in Bindings
  /\ active \subseteq Identities
  /\ \A a \in Approvals : approval[a].state \in {"none", "issued", "revoked", "expired", "consumed"}

----------------------------------------------------------------------------
(* What effects() finds: the state before, or no effect and no binding. *)
Before(op) == CASE op = "retention-extend" -> subject.hold
                [] op = "job-delete" -> subject.job
                [] op = "receipt-key-revoke" -> subject.key
Possible(op) == op = "job-delete" => subject.job = Kept

(* The guard authorises the caller and computes the effect of its request.  *)
(* Without an approval that shows the caller the binding (403), which it    *)
(* then has approved for the same request, or it comes with another one.    *)
Review(c, who, op, arg) ==
  /\ caller[c].pc \in {"away", "reviewed"} /\ who \in active
  /\ Possible(op)
  /\ arg \in (IF op = "receipt-key-revoke" THEN Reasons ELSE {0})
  /\ caller' = [caller EXCEPT ![c] = [pc |-> "reviewed", approval |-> NoApproval,
       binding |-> [identity |-> who, op |-> op, arg |-> arg, before |-> Before(op)]]]
  /\ UNCHANGED <<subject, approval, active, admitted, effects>>

(* Variant of Matches, a consumed approval still good. *)
NotWithdrawn(a, binding) ==
  approval[a].state \in {"issued", "consumed"} /\ approval[a].binding = binding

Matches(a, binding) ==
  approval[a].state = "issued" /\ approval[a].binding = binding

(* consume_operation_approval: one UPDATE that takes the named row. *)
Consume(c, a) ==
  /\ caller[c].pc = "reviewed" /\ Matches(a, caller[c].binding)
  /\ approval' = [approval EXCEPT ![a].state = "consumed"]
  /\ caller' = [caller EXCEPT ![c] = [@ EXCEPT !.pc = "admitted", !.approval = a]]
  /\ admitted' = [admitted EXCEPT ![a] = @ + 1]
  /\ UNCHANGED <<subject, active, effects>>

(* issue: an administrator approves what was shown to somebody else. *)
Issue(a, issuer, c) ==
  /\ approval[a] = Free /\ issuer \in active
  /\ caller[c].pc = "reviewed" /\ caller[c].binding.identity # issuer
  /\ approval' = [approval EXCEPT ![a] = [state |-> "issued", issuer |-> issuer,
                                         binding |-> caller[c].binding]]
  /\ UNCHANGED <<subject, caller, active, admitted, effects>>

Revoke(a) ==
  /\ approval[a].state = "issued" /\ active # {}
  /\ approval' = [approval EXCEPT ![a].state = "revoked"]
  /\ UNCHANGED <<subject, caller, active, admitted, effects>>

(* Its 300 seconds are over. *)
Lapse(a) ==
  /\ approval[a].state = "issued"
  /\ approval' = [approval EXCEPT ![a].state = "expired"]
  /\ UNCHANGED <<subject, caller, active, admitted, effects>>

CredentialEnds(who) ==
  /\ who \in active /\ active' = active \ {who}
  /\ UNCHANGED <<subject, caller, approval, admitted, effects>>

----------------------------------------------------------------------------
(* The handlers, each with the check its own transaction makes. *)
ExtendRetention(b) ==
  /\ b.op = "retention-extend"
  /\ subject.hold = b.before /\ subject.hold < MaxHolds     \* expectedRevision
  /\ subject' = [subject EXCEPT !.hold = @ + 1]

(* delete: the guard put the reviewed revision into the request. *)
DeleteTheJob(b) ==
  /\ b.op = "job-delete" /\ subject.job = Kept
  /\ subject' = [subject EXCEPT !.job = Deleted]

(* revoke_receipt_key: INSERT OR IGNORE, the first reason stays. *)
RevokeReceiptKey(b) ==
  /\ b.op = "receipt-key-revoke" /\ subject.key = Trusted
  /\ subject' = [subject EXCEPT !.key = b.arg]

Handler(b) == ExtendRetention(b) \/ DeleteTheJob(b) \/ RevokeReceiptKey(b)

Execute(c) ==
  LET b == caller[c].binding IN
  /\ caller[c].pc = "admitted"
  /\ \/ /\ b.identity \in active /\ Handler(b)
        /\ effects' = [effects EXCEPT ![caller[c].approval] = Append(@, Before(b.op))]
     \/ /\ UNCHANGED <<subject, effects>>        \* refused, a replay, or the client went away
  /\ caller' = [caller EXCEPT ![c] = Gone]
  /\ UNCHANGED <<approval, active, admitted>>

OpNext ==
  \/ \E c \in Callers :
       \/ \E who \in Identities, op \in Operations, arg \in Reasons \cup {0} :
            Review(c, who, op, arg)
       \/ \E a \in Approvals : Consume(c, a)
       \/ Execute(c)
  \/ \E a \in Approvals :
       \/ \E who \in Identities, c \in Callers : Issue(a, who, c)
       \/ Revoke(a) \/ Lapse(a)
  \/ \E who \in Identities : CredentialEnds(who)

OpSpec == OpInit /\ [][OpNext]_opVars

----------------------------------------------------------------------------
(* consume_operation_approval and guard: an approval lets one request       *)
(* through, never after its revocation, and what is changed under it is the *)
(* state that another administrator reviewed, although that state is read   *)
(* before the approval is consumed and changed later still.                 *)
EffectIsApproved ==
  \A a \in Approvals :
    /\ admitted[a] = (IF approval[a].state = "consumed" THEN 1 ELSE 0)
    /\ effects[a] # <<>> =>
         /\ effects[a] = <<approval[a].binding.before>>
         /\ approval[a].issuer # approval[a].binding.identity
=============================================================================
