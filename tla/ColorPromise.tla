---------------------------- MODULE ColorPromise ----------------------------
(***************************************************************************)
(* What a color attempt promises those who asked for it and those who read *)
(* its pages, with no worker, lease, container or sweep in sight: it begins *)
(* at most once and ends once; only one that runs publishes, at most once, *)
(* and it is COMPLETED only after that; what was published stays until the *)
(* family of its job is purged, which never happens to one that may still  *)
(* run.                                                                    *)
(***************************************************************************)
CONSTANT Attempts

VARIABLES
  state,      \* state[a]: of the attempt a
  published,  \* the attempts whose pages can be read
  purged      \* the attempts whose family was purged

promiseVars == <<state, published, purged>>

Over == {a \in Attempts : state[a] \in {"COMPLETED", "FAILED", "CANCELLED"}}

Init ==
  /\ state = [a \in Attempts |-> "ABSENT"]
  /\ published = {}
  /\ purged = {}

Move(a, old, new) ==
  /\ state[a] = old
  /\ state' = [state EXCEPT ![a] = new]
  /\ UNCHANGED <<published, purged>>

Ask(a) == a \notin purged /\ Move(a, "ABSENT", "QUEUED")
Withdraw(a) == Move(a, "QUEUED", "CANCELLED")
Begin(a) == Move(a, "QUEUED", "RUNNING")
Fail(a) == Move(a, "RUNNING", "FAILED")
Complete(a) == a \in published /\ Move(a, "RUNNING", "COMPLETED")

Publish(a) ==
  /\ state[a] = "RUNNING" /\ a \notin published
  /\ published' = published \cup {a}
  /\ UNCHANGED <<state, purged>>

Purge(as) ==
  /\ published' = published \ as
  /\ purged' = purged \cup as
  /\ UNCHANGED state

Next ==
  \/ \E as \in SUBSET Over : Purge(as)
  \/ \E a \in Attempts : \/ Ask(a) \/ Withdraw(a) \/ Begin(a)
                         \/ Publish(a) \/ Complete(a) \/ Fail(a)

Spec == Init /\ [][Next]_promiseVars
=============================================================================
