------------------------------ MODULE Barrier ------------------------------
(***************************************************************************)
(* The spin barrier of likwid-bench (bench/src/barrier.c).                 *)
(*                                                                         *)
(* Every thread owns two flags of the shared array bval (one per value of  *)
(* offset).  To synchronize, a thread writes its own flag at the current   *)
(* offset and then spins, thread after thread, until every other flag at   *)
(* that offset equals its private val.  offset toggles on every call and   *)
(* val on every second call, so no flag ever has to be reset.              *)
(*                                                                         *)
(* bval comes from posix_memalign and is never written before its first    *)
(* use, so Init takes each flag from the constant Garbage.                 *)
(***************************************************************************)
EXTENDS Integers

CONSTANTS
    NumThreads,  \* groups[0].numberOfThreads
    Garbage,     \* what uninitialised memory may hold
    MaxRounds    \* bound: barrier calls each thread makes

ASSUME NumThreadsAssumption == NumThreads \in Nat \ {0}
ASSUME GarbageAssumption == Garbage \subseteq Int
ASSUME MaxRoundsAssumption == MaxRounds \in Nat

Threads == 0 .. NumThreads - 1

VARIABLES
    bval,       \* shared flags, bval[t][offset]
    offset,     \* barr->offset of each thread, 0 or 1
    val,        \* barr->val of each thread, 0 or 1
    pc,         \* "new" | "out" (not in a call) | "spin" (inside a call)
    i,          \* loop counter of barrier_synchronize
    entered,    \* history: calls begun
    left        \* history: calls finished

barrierVars == <<bval, offset, val, pc, i, entered, left>>

\* barr->index of thread t: t itself first, then the others in order.
Index(t, k) == IF k = 0 THEN t ELSE IF k <= t THEN k - 1 ELSE k

\* State after barrier_registerGroup: the flags hold whatever the memory held;
\* the BarrierData of each thread is on its stack, not yet filled in.
BarrierInit ==
    /\ bval \in [Threads -> [0 .. 1 -> Garbage]]
    /\ offset = [t \in Threads |-> 0]
    /\ val = [t \in Threads |-> 1]
    /\ pc = [t \in Threads |-> "new"]
    /\ i = [t \in Threads |-> 0]
    /\ entered = [t \in Threads |-> 0]
    /\ left = [t \in Threads |-> 0]

barrier_registerThread(t) ==
    /\ pc[t] = "new"
    /\ pc' = [pc EXCEPT ![t] = "out"]
    /\ offset' = [offset EXCEPT ![t] = 0]
    /\ val' = [val EXCEPT ![t] = 1]
    /\ UNCHANGED <<bval, i, entered, left>>

\* barrier_synchronize, first statement: publish our arrival.
Arrive(t) ==
    /\ pc[t] = "out"
    /\ entered[t] < MaxRounds
    /\ bval' = [bval EXCEPT ![t][offset[t]] = val[t]]
    /\ i' = [i EXCEPT ![t] = 1]
    /\ pc' = [pc EXCEPT ![t] = "spin"]
    /\ entered' = [entered EXCEPT ![t] = @ + 1]
    /\ UNCHANGED <<offset, val, left>>

\* variant: the flag is looked at but not awaited
SeeWithoutWaiting(t) ==
    /\ pc[t] = "spin"
    /\ i[t] < NumThreads
    /\ i' = [i EXCEPT ![t] = @ + 1]
    /\ UNCHANGED <<bval, offset, val, pc, entered, left>>

\* One exit of the inner while loop: the awaited flag has our value.
See(t) ==
    /\ pc[t] = "spin"
    /\ i[t] < NumThreads
    /\ bval[Index(t, i[t])][offset[t]] = val[t]
    /\ i' = [i EXCEPT ![t] = @ + 1]
    /\ UNCHANGED <<bval, offset, val, pc, entered, left>>

\* What the variants of Leave have in common with it.
LeaveAt(t, last) ==
    /\ pc[t] = "spin"
    /\ i[t] >= last
    /\ pc' = [pc EXCEPT ![t] = "out"]
    /\ left' = [left EXCEPT ![t] = @ + 1]
    /\ UNCHANGED <<bval, i, entered>>
\* variant: offset is toggled before it is tested
LeaveToggledFirst(t) ==
    /\ LeaveAt(t, NumThreads)
    /\ val' = [val EXCEPT ![t] = IF offset[t] = 0 THEN 1 - @ ELSE @]
    /\ offset' = [offset EXCEPT ![t] = 1 - @]
\* variant: one flag per thread instead of two
LeaveSingleFlag(t) ==
    /\ LeaveAt(t, NumThreads)
    /\ val' = [val EXCEPT ![t] = 1 - @]
    /\ UNCHANGED offset
\* variant: the loop stops one thread too early
LeaveShort(t) ==
    /\ LeaveAt(t, NumThreads - 1)
    /\ val' = [val EXCEPT ![t] = IF offset[t] = 1 THEN 1 - @ ELSE @]
    /\ offset' = [offset EXCEPT ![t] = 1 - @]

\* The end of barrier_synchronize: val toggles after offset 1, offset always.
Leave(t) ==
    /\ pc[t] = "spin"
    /\ i[t] >= NumThreads
    /\ val' = [val EXCEPT ![t] = IF offset[t] = 1 THEN 1 - @ ELSE @]
    /\ offset' = [offset EXCEPT ![t] = 1 - @]
    /\ pc' = [pc EXCEPT ![t] = "out"]
    /\ left' = [left EXCEPT ![t] = @ + 1]
    /\ UNCHANGED <<bval, i, entered>>

BarrierStep(t) == Arrive(t) \/ See(t) \/ Leave(t)

BarrierNext == \E t \in Threads : barrier_registerThread(t) \/ BarrierStep(t)

BarrierSafetySpec == BarrierInit /\ [][BarrierNext]_barrierVars

\* Every thread is pinned to its own processor and runs: weak fairness per
\* thread is what pthreads on distinct processors give.
BarrierFairness ==
    \A t \in Threads : WF_barrierVars(barrier_registerThread(t) \/ BarrierStep(t))

BarrierSpecification == BarrierSafetySpec /\ BarrierFairness

-----------------------------------------------------------------------------
\* Type invariant of the shared flags and the per-thread BarrierData
\* (barrier_types.h).
BarrierTypeOK ==
    /\ bval \in [Threads -> [0 .. 1 -> Int]]
    /\ offset \in [Threads -> 0 .. 1]
    /\ val \in [Threads -> 0 .. 1]
    /\ pc \in [Threads -> {"new", "out", "spin"}]
    /\ i \in [Threads -> 0 .. NumThreads]
    /\ entered \in [Threads -> 0 .. MaxRounds]
    /\ left \in [Threads -> 0 .. MaxRounds]

\* barrier_synchronize returns in no thread before every thread of the group
\* has called it for the same episode, although flags of earlier episodes are
\* never cleared and a fast thread may already be in the next episode.
BarrierSafe == \A t, u \in Threads : left[t] <= entered[u]

\* The value barr->val has in episode k (counted from 0).
Sense(k) == IF k % 4 < 2 THEN 1 ELSE 0

\* private offset and val follow the number of finished calls
PhaseInv == \A t \in Threads :
    /\ offset[t] = left[t] % 2
    /\ val[t] = Sense(left[t])
    /\ entered[t] = IF pc[t] = "spin" THEN left[t] + 1 ELSE left[t]

\* a flag holds the value of the last episode its owner entered at that offset
FlagInv == \A t \in Threads :
    /\ \A k \in 0 .. MaxRounds : k < entered[t] /\ entered[t] <= k + 2
                                  => bval[t][k % 2] = Sense(k)
    /\ \A o \in 0 .. 1 : entered[t] <= o => bval[t][o] # 1

\* the part of the loop already passed stays passed
SeenInv == \A t \in Threads : pc[t] = "spin" =>
    /\ i[t] >= 1
    /\ \A j \in 1 .. i[t] - 1 : entered[Index(t, j)] >= entered[t]

\* nobody counts episodes before registering
NewInv == \A t \in Threads : pc[t] = "new" => left[t] = 0

\* The inductive invariant behind BarrierSafe: what the flags and the private
\* phase of each thread of barrier_synchronize mean in terms of episodes.
BarrierInv ==
    BarrierTypeOK /\ PhaseInv /\ FlagInv /\ SeenInv /\ NewInv /\ BarrierSafe

\* The spin barrier implements the abstract barrier, step for step.
Abstract == INSTANCE BarrierSpec
AbstractBarrier == Abstract!Spec

\* Every call of barrier_synchronize returns: nobody spins forever on a flag
\* that another thread has already overwritten with a later episode's value.
EveryCallReturns == \A t \in Threads : (pc[t] = "spin") ~> (pc[t] = "out")

=============================================================================
