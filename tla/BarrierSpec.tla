---------------------------- MODULE BarrierSpec ----------------------------
(***************************************************************************)
(* What a barrier promises its callers, independent of how bench/barrier.c *)
(* implements it: every thread counts the episodes it has entered and the  *)
(* episodes it has left, and it may leave an episode only after every      *)
(* thread has entered that episode.                                        *)
(***************************************************************************)
EXTENDS Naturals

CONSTANTS
    Threads,    \* the threads registered with the barrier
    MaxRounds   \* bound: number of barrier calls each thread makes

VARIABLES
    entered,    \* entered[t]: barrier calls that thread t has begun
    left        \* left[t]: barrier calls from which thread t has returned

vars == <<entered, left>>

Init == /\ entered = [t \in Threads |-> 0]
        /\ left = [t \in Threads |-> 0]

Enter(t) == /\ entered[t] = left[t]
            /\ entered[t] < MaxRounds
            /\ entered' = [entered EXCEPT ![t] = @ + 1]
            /\ UNCHANGED left

Leave(t) == /\ entered[t] = left[t] + 1
            /\ \A u \in Threads : entered[u] >= entered[t]
            /\ left' = [left EXCEPT ![t] = @ + 1]
            /\ UNCHANGED entered

Next == \E t \in Threads : Enter(t) \/ Leave(t)

Spec == Init /\ [][Next]_vars

=============================================================================
