----------------------------- MODULE MCJobQueue -----------------------------
(* Instances of JobQueue for TLC. *)
EXTENDS JobQueue, TLC

CONSTANT OnePage \* the jobs with one selected page; the others select none

PageCounts == [j \in Jobs |-> IF j \in OnePage THEN 1 ELSE 0]

RunSymmetry == Permutations(Runs \ ManualRuns)
=============================================================================
