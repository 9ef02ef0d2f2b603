------------------------------ MODULE JobQueue ------------------------------
(***************************************************************************)
(* What a Worker promises the tick that posts to it: jobs run one at a     *)
(* time, in the order they were posted, each at most once, and a job that  *)
(* was refused or discarded never runs.                                    *)
(***************************************************************************)
EXTENDS Integers

CONSTANT Jobs   \* job numbers, in posting order

VARIABLE fate

With(f) == {j \in Jobs : fate[j] = f}

QInit == fate = [j \in Jobs |-> "new"]

\* Posting takes the next job, and keeps or refuses it.
Offer(j) ==
    /\ j \in With("new") /\ \A i \in With("new") : j <= i
    /\ \E f \in {"waiting", "dropped"} : fate' = [fate EXCEPT ![j] = f]

Start(j) ==
    /\ With("running") = {}
    /\ j \in With("waiting") /\ \A i \in With("waiting") : j <= i
    /\ fate' = [fate EXCEPT ![j] = "running"]

Finish(j) == j \in With("running") /\ fate' = [fate EXCEPT ![j] = "done"]

\* A stop discards all that waits, once nothing runs.
Discard ==
    /\ With("running") = {}
    /\ fate' = [j \in Jobs |-> IF fate[j] = "waiting" THEN "dropped" ELSE fate[j]]

QNext == Discard \/ \E j \in Jobs : Offer(j) \/ Start(j) \/ Finish(j)

QSpec == QInit /\ [][QNext]_fate
=============================================================================
