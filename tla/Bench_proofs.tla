---------------------------- MODULE Bench_proofs ----------------------------
(***************************************************************************)
(* Proofs about likwid-bench: its spin barrier (module Barrier), for every *)
(* number of threads and of episodes, and on top of them a run (module     *)
(* Bench), for every number of threads and every command line.  They       *)
(* assume that uninitialised memory never holds 1, the first value         *)
(* barr->val takes; without this assumption BarrierSafe fails and the      *)
(* barrier does not synchronize.                                           *)
(***************************************************************************)
EXTENDS Bench, NatLemmas, FiniteSetTheorems, FunctionTheorems

-----------------------------------------------------------------------------
(* The barrier. *)

\* Parity and sense of an episode when one more call of barrier_synchronize
\* has finished.
LEMMA PhaseStep == \A k \in Nat :
        /\ (k + 1) % 2 = 1 - (k % 2)
        /\ Sense(k + 1) = IF k % 2 = 1 THEN 1 - Sense(k) ELSE Sense(k)
        /\ Sense(k + 2) = 1 - Sense(k)
        /\ (k + 2) % 2 = k % 2
        /\ k % 2 \in 0 .. 1
        /\ Sense(k) \in 0 .. 1
  BY DEF Sense

\* The other entries of barr->index are threads, and not the thread itself.
LEMMA IndexIn == \A t \in Threads : \A k \in 1 .. NumThreads - 1 :
                    Index(t, k) \in Threads
  BY NumThreadsAssumption DEF Index, Threads

\* Every other thread occurs in barr->index, so the loop waits for it.
LEMMA IndexOnto == \A t, u \in Threads : u # t =>
                      \E k \in 1 .. NumThreads - 1 : Index(t, k) = u
<1> TAKE t, u \in Threads
<1> HAVE u # t
<1>1. CASE u < t
  <2>1. u + 1 \in 1 .. NumThreads - 1 /\ Index(t, u + 1) = u
    BY <1>1, NumThreadsAssumption DEF Index, Threads
  <2> QED BY <2>1
<1>2. CASE u > t
  <2>1. u \in 1 .. NumThreads - 1 /\ Index(t, u) = u
    BY <1>2, NumThreadsAssumption DEF Index, Threads
  <2> QED BY <2>1
<1> QED BY <1>1, <1>2, NumThreadsAssumption DEF Threads

-----------------------------------------------------------------------------
\* A thread that matches the flag of u in its current episode knows that u has
\* entered that episode: an older flag value is the opposite one, and a flag
\* never written is not 1.
LEMMA FlagMeansEntered ==
  ASSUME BarrierInv, NEW t \in Threads, NEW u \in Threads,
         pc[t] = "spin", bval[u][offset[t]] = val[t]
  PROVE  entered[u] >= entered[t]
<1> DEFINE k == left[t]
<1> SUFFICES ASSUME entered[u] < entered[t] PROVE FALSE
  BY MaxRoundsAssumption DEF BarrierInv, BarrierTypeOK
<1>1. k \in Nat /\ entered[t] = k + 1 /\ offset[t] = k % 2 /\ val[t] = Sense(k)
  BY MaxRoundsAssumption DEF BarrierInv, PhaseInv, BarrierTypeOK
<1>2. entered[u] = k
  <2>1. k <= entered[u]
    BY DEF BarrierInv, BarrierSafe
  <2>2. entered[u] \in Nat
    BY MaxRoundsAssumption DEF BarrierInv, BarrierTypeOK
  <2> QED BY <1>1, <2>1, <2>2
<1>3. CASE k >= 2
  <2>1. k - 2 \in 0 .. MaxRounds /\ k - 2 \in Nat
    BY <1>1, <1>2, <1>3, MaxRoundsAssumption DEF BarrierInv, BarrierTypeOK
  <2>2. k - 2 < entered[u] /\ entered[u] <= (k - 2) + 2
    BY <1>1, <1>2, <1>3
  <2>3. bval[u][(k - 2) % 2] = Sense(k - 2)
    BY <2>1, <2>2 DEF BarrierInv, FlagInv
  <2>4. (k - 2) + 2 = k
    BY <1>1
  <2>5. k % 2 = (k - 2) % 2 /\ Sense(k) = 1 - Sense(k - 2) /\ Sense(k - 2) \in 0 .. 1
    BY <2>1, <2>4, PhaseStep
  <2> QED BY <1>1, <2>3, <2>5
<1>4. CASE k < 2
  <2>1. k \in 0 .. 1
    BY <1>1, <1>4
  <2>2. k % 2 = k /\ Sense(k) = 1
    BY <2>1 DEF Sense
  <2>3. bval[u][k] # 1
    BY <2>1, <1>2 DEF BarrierInv, FlagInv
  <2> QED BY <1>1, <2>2, <2>3
<1> QED BY <1>1, <1>3, <1>4

\* The flags left by barrier_registerGroup satisfy the invariant.
LEMMA InitInv == 1 \notin Garbage /\ BarrierInit => BarrierInv
<1> SUFFICES ASSUME 1 \notin Garbage, BarrierInit PROVE BarrierInv
  OBVIOUS
<1>1. BarrierTypeOK
  <2>1. bval \in [Threads -> [0 .. 1 -> Int]]
    BY GarbageAssumption DEF BarrierInit
  <2> QED BY <2>1, NumThreadsAssumption, MaxRoundsAssumption
          DEF BarrierInit, BarrierTypeOK
<1>2. PhaseInv
  BY DEF BarrierInit, PhaseInv, Sense
<1>3. FlagInv
  BY GarbageAssumption, MaxRoundsAssumption DEF BarrierInit, FlagInv
<1>4. SeenInv /\ BarrierSafe /\ NewInv
  BY DEF BarrierInit, SeenInv, BarrierSafe, NewInv
<1> QED BY <1>1, <1>2, <1>3, <1>4 DEF BarrierInv

\* barrier_registerThread preserves the invariant.
LEMMA RegisterInv ==
  ASSUME BarrierInv, NEW t \in Threads, barrier_registerThread(t)
  PROVE  BarrierInv'
<1> USE DEF BarrierInv, barrier_registerThread
<1>1. BarrierTypeOK'
  BY DEF BarrierTypeOK
<1>2. left[t] = 0
  BY DEF NewInv
<1>3. PhaseInv'
  BY <1>2 DEF PhaseInv, BarrierTypeOK, Sense
<1>4. FlagInv'
  BY DEF FlagInv
<1>5. SeenInv'
  BY DEF SeenInv, BarrierTypeOK
<1>6. BarrierSafe'
  BY DEF BarrierSafe
<1>7. NewInv'
  BY DEF NewInv, BarrierTypeOK
<1> QED BY <1>1, <1>3, <1>4, <1>5, <1>6, <1>7

\* Writing the own flag preserves the invariant.
LEMMA ArriveInv ==
  ASSUME BarrierInv, NEW t \in Threads, Arrive(t)
  PROVE  BarrierInv'
<1> USE DEF BarrierInv, Arrive
<1>0. /\ left[t] \in Nat /\ entered[t] = left[t] /\ left[t] < MaxRounds
      /\ offset[t] = left[t] % 2 /\ val[t] = Sense(left[t])
      /\ entered'[t] = left[t] + 1
  BY MaxRoundsAssumption DEF PhaseInv, BarrierTypeOK
<1>1. BarrierTypeOK'
  BY NumThreadsAssumption, MaxRoundsAssumption DEF BarrierTypeOK
<1>2. PhaseInv'
  BY DEF PhaseInv, BarrierTypeOK
<1>3. FlagInv'
  <2> SUFFICES ASSUME NEW u \in Threads
      PROVE /\ \A k \in 0 .. MaxRounds : k < entered'[u] /\ entered'[u] <= k + 2
                                           => bval'[u][k % 2] = Sense(k)
            /\ \A o \in 0 .. 1 : entered'[u] <= o => bval'[u][o] # 1
    BY DEF FlagInv
  <2>1. CASE u # t
    BY <2>1 DEF FlagInv, BarrierTypeOK
  <2>2. CASE u = t
    <3>1. ASSUME NEW k \in 0 .. MaxRounds, k < entered'[t], entered'[t] <= k + 2
          PROVE  bval'[t][k % 2] = Sense(k)
      <4>1. CASE k = left[t]
        BY <4>1, <1>0, PhaseStep DEF BarrierTypeOK
      <4>2. CASE k # left[t]
        <5>1. k + 1 = left[t] /\ k \in Nat
          BY <4>2, <3>1, <1>0
        <5>2. k % 2 # left[t] % 2 /\ k % 2 \in 0 .. 1
          BY <5>1, PhaseStep
        <5>3. bval[t][k % 2] = Sense(k)
          BY <5>1, <1>0 DEF FlagInv
        <5> QED BY <5>2, <5>3, <1>0 DEF BarrierTypeOK
      <4> QED BY <4>1, <4>2
    <3>2. ASSUME NEW o \in 0 .. 1, entered'[t] <= o
          PROVE  bval'[t][o] # 1
      <4>1. o = 1 /\ left[t] = 0 /\ offset[t] = 0
        BY <3>2, <1>0
      <4>2. bval[t][1] # 1
        BY <4>1, <1>0 DEF FlagInv
      <4> QED BY <4>1, <4>2 DEF BarrierTypeOK
    <3> QED BY <2>2, <3>1, <3>2
  <2> QED BY <2>1, <2>2
<1>4. \A u \in Threads : entered[u] <= entered'[u]
  BY DEF BarrierTypeOK
<1>5. SeenInv'
  <2> SUFFICES ASSUME NEW u \in Threads, pc'[u] = "spin"
      PROVE /\ i'[u] >= 1
            /\ \A j \in 1 .. i'[u] - 1 : entered'[Index(u, j)] >= entered'[u]
    BY DEF SeenInv
  <2>1. CASE u = t
    BY <2>1 DEF BarrierTypeOK
  <2>2. CASE u # t
    <3>1. pc[u] = "spin" /\ i'[u] = i[u] /\ entered'[u] = entered[u]
      BY <2>2 DEF BarrierTypeOK
    <3>2. ASSUME NEW j \in 1 .. i[u] - 1
          PROVE  entered'[Index(u, j)] >= entered[u]
      <4>1. Index(u, j) \in Threads
        BY IndexIn, NumThreadsAssumption DEF BarrierTypeOK
      <4>2. entered[Index(u, j)] >= entered[u]
        BY <3>1 DEF SeenInv
      <4> QED BY <4>1, <4>2, <1>1, <1>4, MaxRoundsAssumption DEF BarrierTypeOK
    <3> QED BY <3>1, <3>2 DEF SeenInv
  <2> QED BY <2>1, <2>2
<1>6. BarrierSafe'
  BY <1>4, <1>1, MaxRoundsAssumption DEF BarrierSafe, BarrierTypeOK
<1>7. NewInv'
  BY DEF NewInv, BarrierTypeOK
<1> QED BY <1>1, <1>2, <1>3, <1>5, <1>6, <1>7

\* Passing the inner while loop preserves the invariant: by FlagMeansEntered
\* the awaited thread has entered the episode.
LEMMA SeeInv ==
  ASSUME BarrierInv, NEW t \in Threads, See(t)
  PROVE  BarrierInv'
<1> USE DEF BarrierInv, See
<1>1. BarrierTypeOK'
  BY NumThreadsAssumption DEF BarrierTypeOK
<1>2. PhaseInv' /\ BarrierSafe' /\ NewInv'
  BY DEF PhaseInv, BarrierSafe, NewInv
<1>3. FlagInv'
  BY DEF FlagInv
<1>4. SeenInv'
  <2>1. i[t] \in 1 .. NumThreads - 1
    BY NumThreadsAssumption DEF SeenInv, BarrierTypeOK
  <2>2. entered[Index(t, i[t])] >= entered[t]
    BY <2>1, IndexIn, FlagMeansEntered
  <2> SUFFICES ASSUME NEW u \in Threads, pc[u] = "spin"
      PROVE /\ i'[u] >= 1
            /\ \A j \in 1 .. i'[u] - 1 : entered[Index(u, j)] >= entered[u]
    BY DEF SeenInv
  <2>3. CASE u = t
    <3>1. i'[t] = i[t] + 1 /\ i[t] >= 1
      BY <2>1 DEF BarrierTypeOK
    <3>2. ASSUME NEW j \in 1 .. i[t] PROVE entered[Index(t, j)] >= entered[t]
      <4>1. CASE j = i[t]
        BY <4>1, <2>2
      <4>2. CASE j # i[t]
        <5>1. j \in 1 .. i[t] - 1
          BY <2>1, <4>2
        <5> QED BY <5>1, <2>3 DEF SeenInv
      <4> QED BY <4>1, <4>2
    <3> QED BY <2>1, <2>3, <3>1, <3>2
  <2>4. CASE u # t
    BY <2>4 DEF SeenInv, BarrierTypeOK
  <2> QED BY <2>3, <2>4
<1> QED BY <1>1, <1>2, <1>3, <1>4

\* When the loop is over, every thread has entered the episode.
LEMMA LoopDone ==
  ASSUME BarrierInv, NEW t \in Threads, pc[t] = "spin", i[t] >= NumThreads
  PROVE  \A u \in Threads : entered[u] >= left[t] + 1
<1>1. i[t] = NumThreads /\ entered[t] = left[t] + 1
  <2>1. i[t] \in 0 .. NumThreads
    BY DEF BarrierInv, BarrierTypeOK
  <2>2. entered[t] = left[t] + 1
    BY DEF BarrierInv, PhaseInv
  <2> QED BY <2>1, <2>2, NumThreadsAssumption
<1> TAKE u \in Threads
<1>2. CASE u = t
  BY <1>1, <1>2, MaxRoundsAssumption DEF BarrierInv, BarrierTypeOK
<1>3. CASE u # t
  <2>1. PICK k \in 1 .. NumThreads - 1 : Index(t, k) = u
    BY <1>3, IndexOnto
  <2>2. entered[u] >= entered[t]
    BY <1>1, <2>1 DEF BarrierInv, SeenInv
  <2> QED BY <1>1, <2>2
<1> QED BY <1>2, <1>3

\* Returning from barrier_synchronize preserves the invariant, BarrierSafe by
\* LoopDone.
LEMMA LeaveInv ==
  ASSUME BarrierInv, NEW t \in Threads, Leave(t)
  PROVE  BarrierInv'
<1> USE DEF BarrierInv, Leave
<1>0. /\ left[t] \in Nat /\ entered[t] = left[t] + 1
      /\ offset[t] = left[t] % 2 /\ val[t] = Sense(left[t])
      /\ left'[t] = left[t] + 1
  BY MaxRoundsAssumption DEF PhaseInv, BarrierTypeOK
<1>1. BarrierTypeOK'
  BY <1>0, MaxRoundsAssumption DEF BarrierTypeOK
<1>2. PhaseInv'
  <2> SUFFICES ASSUME NEW u \in Threads
      PROVE /\ offset'[u] = left'[u] % 2
            /\ val'[u] = Sense(left'[u])
            /\ entered'[u] = IF pc'[u] = "spin" THEN left'[u] + 1 ELSE left'[u]
    BY DEF PhaseInv
  <2>1. CASE u = t
    <3>1. offset'[t] = 1 - offset[t] /\ pc'[t] = "out" /\ entered'[t] = entered[t]
      BY DEF BarrierTypeOK
    <3>2. val'[t] = IF offset[t] = 1 THEN 1 - val[t] ELSE val[t]
      BY DEF BarrierTypeOK
    <3> QED BY <2>1, <1>0, <3>1, <3>2, PhaseStep
  <2>2. CASE u # t
    BY <2>2 DEF PhaseInv, BarrierTypeOK
  <2> QED BY <2>1, <2>2
<1>3. FlagInv'
  BY DEF FlagInv
<1>4. SeenInv'
  BY DEF SeenInv, BarrierTypeOK
<1>5. BarrierSafe'
  <2>1. \A u \in Threads : left'[t] <= entered'[u]
    BY <1>0, LoopDone, MaxRoundsAssumption DEF BarrierTypeOK
  <2> QED BY <2>1 DEF BarrierSafe, BarrierTypeOK
<1>6. NewInv'
  BY DEF NewInv, BarrierTypeOK
<1> QED BY <1>1, <1>2, <1>3, <1>4, <1>5, <1>6

\* Every step of every thread preserves the invariant.
LEMMA NextInv == BarrierInv /\ [BarrierNext]_barrierVars => BarrierInv'
<1> SUFFICES ASSUME BarrierInv, [BarrierNext]_barrierVars PROVE BarrierInv'
  OBVIOUS
<1>1. CASE UNCHANGED barrierVars
  BY <1>1 DEF barrierVars, BarrierInv, BarrierTypeOK, PhaseInv, FlagInv, SeenInv,
              BarrierSafe, NewInv
<1>2. CASE BarrierNext
  BY <1>2, RegisterInv, ArriveInv, SeeInv, LeaveInv DEF BarrierNext, BarrierStep
<1> QED BY <1>1, <1>2

-----------------------------------------------------------------------------
\* barrier_synchronize keeps its inductive invariant, for every number of
\* threads and calls, provided the flags do not happen to hold 1 at the start.
THEOREM BarrierInvariant ==
  1 \notin Garbage => (BarrierSafetySpec => []BarrierInv)
<1>1. 1 \notin Garbage /\ BarrierInit => BarrierInv
  BY InitInv
<1>2. BarrierInv /\ [BarrierNext]_barrierVars => BarrierInv'
  BY NextInv
<1> QED BY <1>1, <1>2, PTL DEF BarrierSafetySpec

\* No thread returns from barrier_synchronize before every thread has called it
\* for the same episode.
THEOREM BarrierIsSafe ==
  1 \notin Garbage => (BarrierSafetySpec => []BarrierSafe)
<1>1. BarrierInv => BarrierSafe
  BY DEF BarrierInv
<1> QED BY <1>1, BarrierInvariant, PTL

\* The spin barrier of bench/barrier.c implements the abstract barrier: every
\* step is a step of BarrierSpec or leaves its counters unchanged.
THEOREM BarrierRefinement ==
  1 \notin Garbage => (BarrierSafetySpec => AbstractBarrier)
<1>1. BarrierInit => Abstract!Init
  BY DEF BarrierInit, Abstract!Init
<1>2. BarrierInv /\ [BarrierNext]_barrierVars => [Abstract!Next]_(Abstract!vars)
  <2> SUFFICES ASSUME BarrierInv, [BarrierNext]_barrierVars
               PROVE  [Abstract!Next]_(Abstract!vars)
    OBVIOUS
  <2> USE DEF Abstract!vars
  <2>1. CASE UNCHANGED barrierVars
    BY <2>1 DEF barrierVars
  <2>2. ASSUME NEW t \in Threads, barrier_registerThread(t) \/ See(t)
        PROVE  UNCHANGED Abstract!vars
    BY <2>2 DEF barrier_registerThread, See
  <2>3. ASSUME NEW t \in Threads, Arrive(t) PROVE Abstract!Enter(t)
    BY <2>3, MaxRoundsAssumption DEF Arrive, Abstract!Enter, BarrierInv, PhaseInv, BarrierTypeOK
  <2>4. ASSUME NEW t \in Threads, Leave(t) PROVE Abstract!Leave(t)
    <3>1. entered[t] = left[t] + 1
      BY <2>4 DEF Leave, BarrierInv, PhaseInv
    <3>2. \A u \in Threads : entered[u] >= entered[t]
      BY <2>4, <3>1, LoopDone DEF Leave
    <3> QED BY <2>4, <3>1, <3>2 DEF Leave, Abstract!Leave
  <2> QED BY <2>1, <2>2, <2>3, <2>4 DEF BarrierNext, BarrierStep, Abstract!Next
<1> QED BY <1>1, <1>2, BarrierInvariant, PTL
        DEF BarrierSafetySpec, AbstractBarrier, Abstract!Spec

-----------------------------------------------------------------------------
(* The run. *)

\* Calls of barrier_synchronize a thread has finished at a statement of runTest.
Episodes(s) == IF s <= 3 THEN 0 ELSE IF s = 4 THEN 1 ELSE IF s <= 7 THEN 2 ELSE IF s <= 9 THEN 3 ELSE 4

\* The statement a thread has reached and its place in the barrier.
StageInv ==
    /\ stage \in [Threads -> 0 .. EndStage]
    /\ \A t \in Threads : /\ left[t] = Episodes(stage[t])
                          /\ pc[t] = "new" <=> stage[t] <= 1
                          /\ pc[t] = "spin" => stage[t] \in Barriers

\* Threads run only after main has prepared them.
MainInv ==
    /\ created \in 0 .. NumThreads
    /\ created > 0 => mainStage \in {"run", "exit"}
    /\ \A t \in Threads : stage[t] = NotCreated <=> t >= created

\* The barrier's own invariant survives every step of the run.
LEMMA BarrierKept ==
  ASSUME BarrierInv, [Next]_vars
  PROVE  BarrierInv'
<1>1. [BarrierNext]_barrierVars
  <2>1. CASE UNCHANGED vars
    BY <2>1 DEF vars, barrierVars
  <2>2. CASE main \/ Done
    BY <2>2 DEF main, ParseWorkgroup, PrepareThreads, getIterSingle, threads_create, threads_join, Done, vars
  <2>3. ASSUME NEW t \in Threads, runTest(t) PROVE [BarrierNext]_barrierVars
    BY <2>3 DEF runTest, RunRegister, RunPin, RunLocal, RunBarrier, BarrierNext
  <2> QED BY <2>1, <2>2, <2>3 DEF Next
<1> QED BY <1>1, NextInv

\* Every step keeps the statement of a thread and its place in the barrier in step.
LEMMA StageStep ==
  ASSUME BarrierInv, StageInv, MainInv, [Next]_vars
  PROVE  StageInv' /\ MainInv'
<1> USE NumThreadsAssumption, MaxRoundsAssumption DEF StageInv, MainInv, Episodes, EndStage, NotCreated, Barriers, KernelStage
<1>0. /\ pc \in [Threads -> {"new", "out", "spin"}] /\ left \in [Threads -> 0 .. MaxRounds]
      /\ Threads \subseteq Nat /\ \A t \in Threads : t < NumThreads
  BY DEF BarrierInv, BarrierTypeOK, Threads
<1>1. CASE UNCHANGED vars
  BY <1>1 DEF vars, barrierVars, benchVars
<1>2. CASE ParseWorkgroup \/ PrepareThreads \/ getIterSingle \/ Done
  BY <1>2 DEF ParseWorkgroup, PrepareThreads, getIterSingle, Done, vars, barrierVars, benchVars
<1>3. CASE threads_create
  <2>1. created \in Threads
    BY <1>3 DEF threads_create, Threads
  <2> QED BY <1>0, <1>3, <2>1 DEF threads_create, barrierVars
<1>4. CASE threads_join
  BY <1>4 DEF threads_join, barrierVars
<1>5. ASSUME NEW t \in Threads, RunRegister(t) PROVE StageInv' /\ MainInv'
  BY <1>0, <1>5 DEF RunRegister, barrier_registerThread, Advance, mainVars
<1>6. ASSUME NEW t \in Threads, RunPin(t) \/ RunLocal(t) PROVE StageInv' /\ MainInv'
  BY <1>0, <1>6 DEF RunPin, RunLocal, Advance, mainVars, barrierVars
<1>7. ASSUME NEW t \in Threads, RunBarrier(t) PROVE StageInv' /\ MainInv'
  <2>1. CASE Arrive(t) \/ See(t)
    BY <1>0, <1>7, <2>1 DEF RunBarrier, Arrive, See, Advance, mainVars
  <2>2. CASE Leave(t)
    BY <1>0, <1>7, <2>2 DEF RunBarrier, Leave, Advance, mainVars
  <2> QED BY <1>7, <2>1, <2>2 DEF RunBarrier, BarrierStep
<1> QED BY <1>1, <1>2, <1>3, <1>4, <1>5, <1>6, <1>7 DEF Next, main, runTest

\* A run keeps the barrier's invariant and the stages.
THEOREM BenchStages == 1 \notin Garbage => (Spec => [](BarrierInv /\ StageInv /\ MainInv))
<1>1. 1 \notin Garbage /\ Init => BarrierInv /\ StageInv /\ MainInv
  BY InitInv, NumThreadsAssumption
     DEF Init, BarrierInit, StageInv, MainInv, Episodes, EndStage, NotCreated, Barriers, Threads
<1>2. BarrierInv /\ StageInv /\ MainInv /\ [Next]_vars => BarrierInv' /\ StageInv' /\ MainInv'
  BY BarrierKept, StageStep
<1> QED BY <1>1, <1>2, PTL DEF Spec

\* What the statement a thread has reached says of the others: nobody passes
\* a barrier of runTest before all have come to it.
LEMMA StagesTogether ==
  ASSUME BarrierInv, StageInv, NEW t \in Threads, NEW u \in Threads
  PROVE  /\ stage[t] >= 5 => stage[u] >= 4
         /\ stage[t] >= 8 => stage[u] >= 7
<1>1. left[t] <= entered[u] /\ entered[u] = IF pc[u] = "spin" THEN left[u] + 1 ELSE left[u]
  BY DEF BarrierInv, BarrierSafe, PhaseInv
<1> QED BY <1>1 DEF StageInv, Episodes, Barriers, EndStage

\* The interval that timer and marker of a thread of likwid-bench measure covers
\* the kernel of every thread (EXECUTE in bench.c).
THEOREM MeasuredIntervalCoversKernels == 1 \notin Garbage => (Spec => []StopCoversAllKernels)
<1>1. BarrierInv /\ StageInv => StopCoversAllKernels
  BY StagesTogether DEF StopCoversAllKernels, KernelStage, StageInv, EndStage
<1> QED BY <1>1, BenchStages, PTL

-----------------------------------------------------------------------------
(* The shape of the workgroups *)

PerGroup == NumThreads \div Len(arg)
GroupOf(t) == t \div PerGroup
Rank(t) == t % PerGroup

\* Thread t is the thread Rank(t) of a workgroup that exists, and this is a
\* numbering of all places in the CPU lists of the command line.
LEMMA Shape ==
  ASSUME arg \in Arguments
  PROVE  /\ Len(arg) \in Nat \ {0} /\ PerGroup \in Nat \ {0} /\ PerGroup * Len(arg) = NumThreads
         /\ \A g \in 1 .. Len(arg) : arg[g] \in Workgroups /\ Len(arg[g].cpus) = PerGroup
         /\ \A t \in Threads : /\ GroupOf(t) \in 0 .. Len(arg) - 1 /\ Rank(t) \in 0 .. PerGroup - 1
                               /\ t = PerGroup * GroupOf(t) + Rank(t)
<1> DEFINE G == Len(arg)
           n == PerGroup
<1>1. arg \in Seq(Workgroups) /\ arg # <<>> /\ EqualGroups(arg)
  BY ArgumentsAssumption
<1>2. G \in Nat \ {0}
  BY <1>1
<1>3. \A g \in 1 .. G : arg[g] \in Workgroups /\ Len(arg[g].cpus) \in Nat /\ Len(arg[g].cpus) * G = NumThreads
  <2>1. DOMAIN arg = 1 .. G /\ \A g \in 1 .. G : arg[g] \in Workgroups
    BY <1>1
  <2>2. \A w \in Workgroups : Len(w.cpus) \in Nat
    BY DEF Workgroups
  <2> QED BY <1>1, <2>1, <2>2 DEF EqualGroups
<1>4. n \in Nat /\ NumThreads % G \in 0 .. G - 1 /\ NumThreads = G * n + (NumThreads % G)
  BY <1>2, NumThreadsAssumption, DivMod DEF PerGroup
<1>5. ASSUME NEW g \in 1 .. G PROVE Len(arg[g].cpus) = n /\ NumThreads % G = 0
  <2> DEFINE l == Len(arg[g].cpus)
  <2>1. l \in Nat /\ G * l + 0 = G * n + (NumThreads % G)
    BY <1>2, <1>3, <1>4, SMTT(30)
  <2>2. G \in Nat \ {0} /\ n \in Nat /\ 0 \in 0 .. G - 1 /\ NumThreads % G \in 0 .. G - 1
    BY <1>2, <1>4
  <2>3. \A q, p \in Nat, r, s \in 0 .. G - 1 : G * q + r = G * p + s => q = p /\ r = s
    BY <2>2, DivUnique
  <2> HIDE DEF l, n, G
  <2>4. l = n /\ 0 = NumThreads % G
    BY <2>1, <2>2, <2>3
  <2> QED BY <2>4 DEF l, n, G
<1>6. n * G = NumThreads
  <2>1. 1 \in 1 .. G
    BY <1>2
  <2>2. NumThreads % G = 0
    BY <1>5, <2>1
  <2> QED BY <1>2, <1>4, <2>2
<1>7. n # 0
  BY <1>2, <1>6, NumThreadsAssumption
<1>8. ASSUME NEW t \in Threads
      PROVE  /\ GroupOf(t) \in 0 .. G - 1 /\ Rank(t) \in 0 .. n - 1
             /\ t = n * GroupOf(t) + Rank(t)
  <2>1. t \in Nat /\ t < n * G
    BY <1>6, NumThreadsAssumption DEF Threads
  <2>2. GroupOf(t) \in Nat /\ Rank(t) \in 0 .. n - 1 /\ t = n * GroupOf(t) + Rank(t)
    BY <1>4, <1>7, <2>1, DivMod DEF GroupOf, Rank
  <2>3. GroupOf(t) < G
    <3>1. SUFFICES ASSUME G <= GroupOf(t) PROVE FALSE
      BY <1>2, <2>2
    <3>2. n * G <= n * GroupOf(t)
      BY <1>2, <1>4, <2>2, <3>1, MulMono
    <3> QED BY <1>2, <1>4, <2>1, <2>2, <3>2
  <2> QED BY <1>2, <2>2, <2>3
<1> QED BY <1>2, <1>3, <1>4, <1>5, <1>6, <1>7, <1>8

\* The workgroup of thread t, the elements of one of its streams, and the
\* share of them a thread of the group gets.
GroupArg(t) == arg[GroupOf(t) + 1]
Length(t) == GroupArg(t).size \div Streams
Share(t) == (Length(t) \div PerGroup) - ((Length(t) \div PerGroup) % Stride)

\* The shares of a group's threads fit its vector one behind the other.
LEMMA ShareFits ==
  ASSUME arg \in Arguments, NEW t \in Threads
  PROVE  /\ GroupOf(t) + 1 \in 1 .. Len(arg) /\ GroupArg(t) \in Workgroups /\ Length(t) \in Nat
         /\ Share(t) \in Nat /\ Rank(t) \in Nat /\ Rank(t) * Share(t) \in Nat
         /\ Rank(t) * Share(t) + Share(t) <= Length(t)
<1>1. /\ PerGroup \in Nat \ {0} /\ GroupOf(t) \in 0 .. Len(arg) - 1 /\ Rank(t) \in 0 .. PerGroup - 1
      /\ GroupOf(t) + 1 \in 1 .. Len(arg) /\ GroupArg(t) \in Workgroups
  BY Shape DEF GroupArg
<1>2. GroupArg(t).size \in Nat
  BY <1>1 DEF Workgroups
<1>3. Length(t) \in Nat
  BY <1>2, DivMod, KernelAssumption DEF Length
<1> DEFINE q == Length(t) \div PerGroup
<1>4. q \in Nat /\ PerGroup * q <= Length(t)
  <2>1. q \in Nat /\ Length(t) % PerGroup \in 0 .. PerGroup - 1 /\ Length(t) = PerGroup * q + (Length(t) % PerGroup)
    BY <1>1, <1>3, DivMod
  <2> HIDE DEF q
  <2>2. PerGroup * q \in Nat
    BY <1>1, <2>1
  <2> QED BY <1>1, <1>3, <2>1, <2>2
<1>5. Share(t) \in Nat /\ Share(t) <= q
  <2>1. q \div Stride \in Nat /\ q % Stride \in 0 .. Stride - 1 /\ q = Stride * (q \div Stride) + (q % Stride)
    BY <1>4, DivMod, KernelAssumption
  <2>2. Share(t) = q - (q % Stride)
    BY DEF Share
  <2> HIDE DEF q
  <2>3. Stride * (q \div Stride) \in Nat
    BY <2>1, KernelAssumption
  <2> QED BY <1>4, <2>1, <2>2, <2>3, KernelAssumption
<1>6. (Rank(t) + 1) * Share(t) <= Length(t) /\ (Rank(t) + 1) * Share(t) = Rank(t) * Share(t) + Share(t)
  <2> HIDE DEF q
  <2>1. (Rank(t) + 1) * Share(t) <= PerGroup * Share(t)
    BY <1>1, <1>5, MulMono
  <2>2. PerGroup * Share(t) <= PerGroup * q
    BY <1>1, <1>4, <1>5, MulMono
  <2>3. (Rank(t) + 1) * Share(t) = Rank(t) * Share(t) + Share(t)
    BY <1>1, <1>5
  <2> DEFINE x == (Rank(t) + 1) * Share(t)
             y == PerGroup * Share(t)
             z == PerGroup * q
  <2>4. x \in Nat /\ y \in Nat /\ z \in Nat /\ x <= y /\ y <= z /\ z <= Length(t)
    BY <1>1, <1>4, <1>5, <2>1, <2>2
  <2>5. x <= Length(t)
    <3> HIDE DEF x, y, z
    <3> QED BY <1>3, <2>4
  <2> QED BY <2>3, <2>5
<1>7. Rank(t) * Share(t) \in Nat
  BY <1>1, <1>5
<1> QED BY <1>1, <1>3, <1>5, <1>6, <1>7

\* The CPU list of the group of a thread has a place for the thread.
LEMMA PlaceExists ==
  ASSUME arg \in Arguments, NEW t \in Threads
  PROVE  /\ GroupArg(t).cpus \in Seq(Nat) /\ Len(GroupArg(t).cpus) = PerGroup
         /\ Rank(t) + 1 \in 1 .. Len(GroupArg(t).cpus)
         /\ GroupArg(t).cpus[Rank(t) + 1] \in Nat
<1>1. /\ PerGroup \in Nat /\ Rank(t) \in 0 .. PerGroup - 1 /\ GroupOf(t) + 1 \in 1 .. Len(arg)
      /\ GroupArg(t) \in Workgroups
  BY Shape, ShareFits
<1>2. GroupArg(t).cpus \in Seq(Nat)
  BY <1>1 DEF Workgroups
<1>3. Len(GroupArg(t).cpus) = PerGroup
  BY <1>1, Shape DEF GroupArg
<1> QED BY <1>1, <1>2, <1>3

-----------------------------------------------------------------------------
(* The threads' data *)

\* The int that holds the offset of a thread's piece holds every offset into
\* the vectors of the command line.
NoOverflow == \A ws \in Arguments : \A g \in DOMAIN ws : \A x \in 0 .. ws[g].size \div Streams : ToInt(x) = x

DataRecords == [threadId : Nat, groupId : Nat, numberOfThreads : Nat, processors : Seq(Nat),
                size : Nat, stream : Nat, iter : Nat]

\* Main has copied the groups' data to the threads.
Ready == mainStage \in {"iterations", "run"} \/ created > 0

\* The data of a thread that main has prepared: the whole vector of its group
\* until the thread has taken its piece.
Prepared(t) ==
    /\ data[t].threadId = Rank(t) /\ data[t].groupId = GroupOf(t) /\ data[t].numberOfThreads = PerGroup
    /\ data[t].processors = GroupArg(t).cpus
    /\ data[t].iter = data[0].iter
    /\ stage[t] <= 1 => data[t].size = Length(t) /\ data[t].stream = GroupArg(t).offset
    /\ stage[t] > 1 => data[t].size = Share(t) /\ data[t].stream = GroupArg(t).offset + Rank(t) * Share(t)

DataInv ==
    /\ arg \in Arguments
    /\ groups \in Seq(Workgroups) /\ Len(groups) <= Len(arg)
    /\ \A g \in 1 .. Len(groups) : groups[g] = bstr_to_workgroup(arg[g])
    /\ data \in [Threads -> DataRecords]
    /\ demandIter \in Nat
    /\ Ready => Len(groups) = Len(arg) /\ \A t \in Threads : Prepared(t)

\* A thread that has passed the pinning is on the CPU its group's list names
\* for it.
PinInv ==
    /\ cpu \in [Threads \cup {Main} -> Nat \cup {AnyCpu}]
    /\ \A t \in Threads : stage[t] > 2 => cpu[t] = GroupArg(t).cpus[Rank(t) + 1]

\* While main parses or looks for an iteration count no thread exists.
LEMMA ParseOnly ==
  ASSUME MainInv, mainStage \in {"parse", "iterations"}
  PROVE  created = 0 /\ \A t \in Threads : stage[t] = 0
<1>1. created = 0
  BY NumThreadsAssumption DEF MainInv
<1>2. \A t \in Threads : t \in Nat
  BY DEF Threads
<1> QED BY <1>1, <1>2 DEF MainInv, NotCreated

\* Parsing a workgroup appends it.
LEMMA ParseStep ==
  ASSUME StageInv, MainInv, DataInv, PinInv, ParseWorkgroup
  PROVE  DataInv' /\ PinInv'
<1> DEFINE w == arg[Len(groups) + 1]
<1>1. Len(arg) \in Nat /\ Len(groups) \in Nat /\ Len(groups) + 1 \in 1 .. Len(arg) /\ w \in Workgroups
  BY Shape DEF DataInv, ParseWorkgroup
<1>2. bstr_to_workgroup(w) \in Workgroups /\ w.home \in Nat
  <2>1. w.size \in Nat /\ w.size \div Streams \in Nat
    BY <1>1, DivMod, KernelAssumption DEF Workgroups
  <2> QED BY <1>1, <2>1 DEF bstr_to_workgroup, Workgroups
<1>3. UNCHANGED <<arg, demandIter, data, stage, created>>
  BY DEF ParseWorkgroup
<1>4. ~Ready /\ ~Ready' /\ ~(\E t \in Threads : stage[t] > 2)
  BY ParseOnly DEF ParseWorkgroup, Ready
<1>5. groups' \in Seq(Workgroups) /\ Len(groups') <= Len(arg)
      /\ \A g \in 1 .. Len(groups') : groups'[g] = bstr_to_workgroup(arg[g])
  <2>1. CASE groups' = groups
    BY <1>1, <2>1 DEF DataInv
  <2>2. CASE groups' = Append(groups, bstr_to_workgroup(w))
    <3> DEFINE v == bstr_to_workgroup(w)
    <3>1. v \in Workgroups /\ groups' = Append(groups, v)
      BY <1>2, <2>2
    <3> HIDE DEF v
    <3>2. groups' \in Seq(Workgroups) /\ Len(groups') = Len(groups) + 1 /\ groups'[Len(groups) + 1] = v
          /\ \A g \in 1 .. Len(groups) : groups'[g] = groups[g]
      BY <3>1 DEF DataInv
    <3>3. \A g \in 1 .. Len(groups') : g \in 1 .. Len(groups) \/ g = Len(groups) + 1
      BY <1>1, <3>2
    <3> QED BY <1>1, <3>2, <3>3 DEF DataInv, v
  <2> QED BY <2>1, <2>2 DEF ParseWorkgroup
<1>6. PinInv'
  <2>1. cpu' = cpu \/ cpu' = [cpu EXCEPT ![Main] = w.home]
    BY DEF ParseWorkgroup, allocator_allocateVector
  <2> QED BY <1>2, <1>3, <1>4, <2>1 DEF PinInv
<1> QED BY <1>3, <1>4, <1>5, <1>6 DEF DataInv

\* Main copies to every thread what it knows of the thread's group.
LEMMA PrepareStep ==
  ASSUME StageInv, MainInv, DataInv, PinInv, PrepareThreads
  PROVE  DataInv' /\ PinInv'
<1>1. /\ mainStage = "parse" /\ Len(groups) = Len(arg)
      /\ data' = threads_registerDataGroup(threads_createGroups(data))
      /\ UNCHANGED <<arg, groups, demandIter, cpu, stage, created>>
  BY DEF PrepareThreads
<1>2. numThreadsPerGroup = PerGroup /\ \A t \in Threads : stage[t] = 0
  BY <1>1, ParseOnly DEF numThreadsPerGroup, PerGroup
<1>3. ASSUME NEW t \in Threads
      PROVE  /\ data'[t] \in DataRecords /\ data'[t].threadId = Rank(t) /\ data'[t].groupId = GroupOf(t)
             /\ data'[t].numberOfThreads = PerGroup /\ data'[t].processors = GroupArg(t).cpus
             /\ data'[t].size = Length(t) /\ data'[t].stream = GroupArg(t).offset
             /\ data'[t].iter = demandIter
  <2> DEFINE d == threads_createGroups(data)
             w == groups[GroupOf(t) + 1]
  <2>1. data[t] \in DataRecords
    BY DEF DataInv
  <2>2. d[t] = [data[t] EXCEPT !.threadId = Rank(t), !.groupId = GroupOf(t), !.numberOfThreads = PerGroup]
    BY <1>2 DEF threads_createGroups, Rank, GroupOf
  <2>3. Rank(t) \in Nat /\ GroupOf(t) \in Nat /\ PerGroup \in Nat /\ Length(t) \in Nat /\ GroupArg(t) \in Workgroups
    BY Shape, ShareFits DEF DataInv
  <2>4. /\ d[t] \in DataRecords /\ d[t].threadId = Rank(t) /\ d[t].groupId = GroupOf(t)
        /\ d[t].numberOfThreads = PerGroup
    BY <2>1, <2>2, <2>3 DEF DataRecords
  <2>5. data'[t] = copyThreadData(d[t], groups[d[t].groupId + 1])
    BY <1>1 DEF threads_registerDataGroup
  <2> HIDE DEF d
  <2>6. data'[t] = copyThreadData(d[t], w)
    BY <2>4, <2>5
  <2>7. w = bstr_to_workgroup(GroupArg(t))
    <3>1. GroupOf(t) + 1 \in 1 .. Len(groups)
      BY <1>1, ShareFits DEF DataInv
    <3> QED BY <3>1 DEF DataInv, GroupArg
  <2>8. w.cpus = GroupArg(t).cpus /\ w.size = Length(t) /\ w.offset = GroupArg(t).offset
    BY <2>3, <2>7 DEF bstr_to_workgroup, Workgroups, Length
  <2>9. GroupArg(t).cpus \in Seq(Nat) /\ GroupArg(t).offset \in Nat
    BY <2>3 DEF Workgroups
  <2> HIDE DEF w
  <2>10. data'[t] = [d[t] EXCEPT !.processors = GroupArg(t).cpus, !.size = Length(t),
                                 !.stream = GroupArg(t).offset, !.iter = demandIter]
    BY <2>6, <2>8 DEF copyThreadData
  <2>11. demandIter \in Nat
    BY DEF DataInv
  <2> QED BY <2>3, <2>4, <2>9, <2>10, <2>11 DEF DataRecords
<1>5. data' \in [Threads -> DataRecords]
  <2>1. DOMAIN data' = Threads /\ data' = [t \in Threads |-> data'[t]]
    BY <1>1 DEF threads_registerDataGroup
  <2> QED BY <1>3, <2>1
<1>6. 0 \in Threads
  BY NumThreadsAssumption DEF Threads
<1>7. \A t \in Threads : Prepared(t)'
  BY <1>1, <1>2, <1>3, <1>6 DEF Prepared, Rank, GroupOf, PerGroup, GroupArg, Length
<1> QED BY <1>1, <1>2, <1>5, <1>7 DEF DataInv, PinInv, GroupArg, GroupOf, PerGroup, Rank

\* Main sets the measured iteration count for all threads.
LEMMA IterationsStep ==
  ASSUME StageInv, MainInv, DataInv, PinInv, getIterSingle
  PROVE  DataInv' /\ PinInv'
<1>1. PICK iters \in Measured : data' = threads_updateIterations(data, iters)
  BY DEF getIterSingle
<1>2. mainStage = "iterations" /\ UNCHANGED <<arg, groups, demandIter, stage, created>>
  BY DEF getIterSingle
<1> DEFINE n == IF iters < MIN_ITERATIONS THEN MIN_ITERATIONS ELSE iters
<1>3. n \in Nat
  BY <1>1, IterationsAssumption DEF MIN_ITERATIONS
<1>4. data' = [t \in Threads |-> [data[t] EXCEPT !.iter = n]]
  BY <1>1 DEF threads_updateIterations
<1> HIDE DEF n
<1>5. \A t \in Threads : data'[t] = [data[t] EXCEPT !.iter = n]
  BY <1>4
<1>6. data' \in [Threads -> DataRecords]
  <2>1. \A t \in Threads : [data[t] EXCEPT !.iter = n] \in DataRecords
    BY <1>3 DEF DataInv, DataRecords
  <2> QED BY <1>4, <2>1
<1>7. 0 \in Threads
  BY NumThreadsAssumption DEF Threads
<1>8. Ready /\ \A t \in Threads : Prepared(t)
  BY <1>2 DEF Ready, DataInv
<1>9. ASSUME NEW t \in Threads PROVE Prepared(t)'
  <2>1. data[t] \in DataRecords /\ data[0] \in DataRecords
    BY <1>7 DEF DataInv
  <2>2. /\ data'[t].iter = n /\ data'[0].iter = n /\ data'[t].threadId = data[t].threadId
        /\ data'[t].groupId = data[t].groupId /\ data'[t].numberOfThreads = data[t].numberOfThreads
        /\ data'[t].processors = data[t].processors /\ data'[t].size = data[t].size
        /\ data'[t].stream = data[t].stream
    BY <1>5, <1>7, <2>1 DEF DataRecords
  <2> QED BY <1>2, <1>8, <2>2 DEF Prepared, Rank, GroupOf, PerGroup, GroupArg, Length, Share
<1>10. DataInv'
  BY <1>2, <1>6, <1>8, <1>9 DEF DataInv
<1>11. PinInv'
  <2>1. data[0].processors[data[0].threadId + 1] \in Nat
    <3>1. Rank(0) + 1 \in 1 .. Len(GroupArg(0).cpus) /\ GroupArg(0).cpus \in Seq(Nat)
      BY <1>7, PlaceExists DEF DataInv
    <3>2. data[0].processors = GroupArg(0).cpus /\ data[0].threadId = Rank(0)
      BY <1>7, <1>8 DEF Prepared
    <3> QED BY <3>1, <3>2
  <2>2. cpu' = [cpu EXCEPT ![Main] = data[0].processors[data[0].threadId + 1]]
    BY DEF getIterSingle
  <2>3. \A t \in Threads : stage[t] = 0
    BY <1>2, ParseOnly
  <2> QED BY <1>2, <2>1, <2>2, <2>3 DEF PinInv
<1> QED BY <1>10, <1>11

\* A thread takes its piece of the vectors; the offset of the piece fits an int.
LEMMA RegisterStep ==
  ASSUME NoOverflow, StageInv, MainInv, DataInv, PinInv, NEW t \in Threads, RunRegister(t)
  PROVE  DataInv' /\ PinInv'
<1>1. /\ stage[t] = 1 /\ data' = [data EXCEPT ![t] = Piece(data[t])] /\ stage' = [stage EXCEPT ![t] = 2]
      /\ UNCHANGED <<arg, groups, demandIter, mainStage, created, cpu>>
  BY DEF RunRegister, Advance, mainVars
<1>2. Ready /\ Ready' /\ \A u \in Threads : Prepared(u)
  <2>1. t \in Nat /\ ~(t >= created) /\ created \in Nat
    BY <1>1, NumThreadsAssumption DEF MainInv, NotCreated, Threads
  <2> QED BY <1>1, <2>1 DEF Ready, DataInv
<1>3. /\ GroupOf(t) + 1 \in 1 .. Len(arg) /\ GroupArg(t) \in Workgroups /\ Length(t) \in Nat /\ Share(t) \in Nat
      /\ Rank(t) * Share(t) \in Nat /\ Rank(t) * Share(t) + Share(t) <= Length(t)
  BY ShareFits DEF DataInv
<1>4. ToInt(Rank(t) * Share(t)) = Rank(t) * Share(t)
  <2> DEFINE x == Rank(t) * Share(t)
  <2>1. x \in 0 .. Length(t)
    <3> HIDE DEF x
    <3>1. x \in Nat /\ x + Share(t) <= Length(t)
      BY <1>3 DEF x
    <3> QED BY <1>3, <3>1
  <2>2. arg \in Arguments /\ GroupOf(t) + 1 \in DOMAIN arg
    <3>1. arg \in Seq(Workgroups)
      BY ArgumentsAssumption DEF DataInv
    <3> QED BY <1>3, <3>1 DEF DataInv
  <2> HIDE DEF x
  <2>3. ToInt(x) = x
    BY <2>1, <2>2 DEF NoOverflow, Length, GroupArg
  <2> QED BY <2>3 DEF x
<1>5. Piece(data[t]) = [data[t] EXCEPT !.size = Share(t), !.stream = data[t].stream + Rank(t) * Share(t)]
  <2>1. /\ data[t].size = Length(t) /\ data[t].numberOfThreads = PerGroup /\ data[t].threadId = Rank(t)
    BY <1>1, <1>2 DEF Prepared
  <2>2. Piece(data[t]) = [data[t] EXCEPT !.size = Share(t), !.stream = data[t].stream + ToInt(data[t].threadId * Share(t))]
    BY <2>1 DEF Piece, Share
  <2> QED BY <1>4, <2>1, <2>2
<1> DEFINE d == Piece(data[t])
<1>6. data[t] \in DataRecords /\ data[t].stream = GroupArg(t).offset
  BY <1>1, <1>2 DEF DataInv, Prepared
<1>7. /\ d \in DataRecords /\ d.size = Share(t) /\ d.stream = GroupArg(t).offset + Rank(t) * Share(t)
      /\ d.threadId = data[t].threadId /\ d.groupId = data[t].groupId /\ d.iter = data[t].iter
      /\ d.numberOfThreads = data[t].numberOfThreads /\ d.processors = data[t].processors
  <2> DEFINE x == Rank(t) * Share(t)
  <2>1. x \in Nat /\ d = [data[t] EXCEPT !.size = Share(t), !.stream = data[t].stream + x]
    BY <1>3, <1>5
  <2> HIDE DEF x, d
  <2>2. data[t].stream \in Nat /\ data[t].stream + x \in Nat
    BY <1>6, <2>1 DEF DataRecords
  <2>3. /\ d \in DataRecords /\ d.size = Share(t) /\ d.stream = data[t].stream + x
        /\ d.threadId = data[t].threadId /\ d.groupId = data[t].groupId /\ d.iter = data[t].iter
        /\ d.numberOfThreads = data[t].numberOfThreads /\ d.processors = data[t].processors
    BY <1>3, <1>6, <2>1, <2>2 DEF DataRecords
  <2> QED BY <1>6, <2>3 DEF x
<1> HIDE DEF d
<1>8. data' = [data EXCEPT ![t] = d] /\ data' \in [Threads -> DataRecords]
  BY <1>1, <1>7 DEF DataInv, d
<1>9. 0 \in Threads
  BY NumThreadsAssumption DEF Threads
<1>10. /\ data'[t] = d /\ data'[0].iter = data[0].iter /\ stage'[t] = 2
       /\ \A u \in Threads \ {t} : data'[u] = data[u] /\ stage'[u] = stage[u]
  BY <1>1, <1>7, <1>8, <1>9 DEF DataInv, StageInv
<1>11. ASSUME NEW u \in Threads PROVE Prepared(u)'
  <2>1. CASE u = t
    BY <1>1, <1>2, <1>7, <1>10, <2>1 DEF Prepared, Rank, GroupOf, PerGroup, GroupArg, Length, Share
  <2>2. CASE u # t
    BY <1>1, <1>2, <1>10, <2>2 DEF Prepared, Rank, GroupOf, PerGroup, GroupArg, Length, Share
  <2> QED BY <2>1, <2>2
<1>12. DataInv'
  BY <1>1, <1>2, <1>8, <1>11 DEF DataInv
<1>13. PinInv'
  BY <1>1, <1>10 DEF PinInv, GroupArg, GroupOf, Rank, PerGroup
<1> QED BY <1>12, <1>13

\* A step that changes neither the command line nor the data and moves
\* threads only past the point where they have taken their piece, or creates
\* one, leaves the data as it has to be.
LEMMA DataKept ==
  ASSUME DataInv, UNCHANGED <<arg, groups, demandIter, data>>, Ready' => Ready,
         stage \in [Threads -> 0 .. EndStage],
         \A t \in Threads : stage'[t] \in 0 .. EndStage /\ (stage'[t] <= 1 <=> stage[t] <= 1)
  PROVE  DataInv'
<1>1. \A t \in Threads : Prepared(t) => Prepared(t)'
  BY SMTT(30) DEF Prepared, Rank, GroupOf, PerGroup, GroupArg, Length, Share, EndStage
<1> QED BY <1>1 DEF DataInv

\* Every step keeps the threads' data and CPUs as the command line has them.
LEMMA DataStep ==
  ASSUME NoOverflow, BarrierInv, StageInv, MainInv, DataInv, PinInv, [Next]_vars
  PROVE  DataInv' /\ PinInv'
<1>0. StageInv' /\ MainInv'
  BY StageStep
<1>1. CASE UNCHANGED vars
  BY <1>1 DEF vars, benchVars, DataInv, PinInv, Ready, Prepared, Rank, GroupOf, PerGroup, GroupArg, Length, Share
<1>2. CASE ParseWorkgroup \/ PrepareThreads \/ getIterSingle
  BY <1>2, ParseStep, PrepareStep, IterationsStep
<1>3. CASE threads_create
  <2>1. created \in Threads /\ Main \notin Threads
    BY <1>3, NumThreadsAssumption DEF threads_create, Threads, MainInv, Main
  <2>2. stage[created] = 0 /\ stage' = [stage EXCEPT ![created] = 1]
    BY <1>3, <2>1 DEF threads_create, MainInv, NotCreated, Threads
  <2>3. cpu' = [cpu EXCEPT ![created] = cpu[Main]] /\ cpu[Main] \in Nat \cup {AnyCpu}
    BY <1>3 DEF threads_create, PinInv
  <2>4. DataInv'
    BY <1>3, <2>1, <2>2, DataKept DEF threads_create, Ready, StageInv, EndStage
  <2>5. PinInv'
    BY <1>3, <2>1, <2>2, <2>3 DEF threads_create, PinInv, StageInv, GroupArg, GroupOf, Rank, PerGroup
  <2> QED BY <2>4, <2>5
<1>4. CASE threads_join \/ Done
  <2>1. UNCHANGED <<arg, groups, demandIter, data, cpu, stage, created>>
    BY <1>4 DEF threads_join, Done, vars, benchVars
  <2>2. Ready' => Ready
    BY <1>4, <2>1 DEF threads_join, Done, vars, benchVars, Ready
  <2> QED BY <2>1, <2>2, DataKept DEF StageInv, PinInv, GroupArg, GroupOf, Rank, PerGroup
<1>5. ASSUME NEW t \in Threads, RunRegister(t) PROVE DataInv' /\ PinInv'
  BY <1>5, RegisterStep
<1>6. ASSUME NEW t \in Threads, RunPin(t) PROVE DataInv' /\ PinInv'
  <2>1. /\ stage[t] = 2 /\ stage' = [stage EXCEPT ![t] = 3]
        /\ cpu' = [cpu EXCEPT ![t] = data[t].processors[data[t].threadId + 1]]
        /\ UNCHANGED <<arg, groups, demandIter, mainStage, created, data>>
    BY <1>6 DEF RunPin, Advance, mainVars
  <2>2. DataInv'
    BY <2>1, DataKept DEF Ready, StageInv, EndStage
  <2>3. Ready
    <3>1. t \in Nat /\ ~(t >= created) /\ created \in Nat
      BY <2>1, NumThreadsAssumption DEF MainInv, NotCreated, Threads
    <3> QED BY <3>1 DEF Ready
  <2>4. data[t].processors = GroupArg(t).cpus /\ data[t].threadId = Rank(t)
    BY <2>3 DEF DataInv, Prepared
  <2>5. GroupArg(t).cpus[Rank(t) + 1] \in Nat
    BY PlaceExists DEF DataInv
  <2>6. PinInv'
    BY <2>1, <2>4, <2>5 DEF PinInv, StageInv, GroupArg, GroupOf, Rank, PerGroup
  <2> QED BY <2>2, <2>6
<1>7. ASSUME NEW t \in Threads, RunLocal(t) \/ RunBarrier(t) PROVE DataInv' /\ PinInv'
  <2>1. /\ stage[t] > 2 /\ (stage' = stage \/ stage' = [stage EXCEPT ![t] = stage[t] + 1])
        /\ UNCHANGED <<arg, groups, demandIter, mainStage, created, data, cpu>>
    BY <1>7 DEF RunLocal, RunBarrier, Advance, mainVars, Barriers, KernelStage
  <2>2. \A u \in Threads : stage'[u] \in 0 .. EndStage /\ (stage'[u] <= 1 <=> stage[u] <= 1)
                           /\ (stage'[u] <= 2 <=> stage[u] <= 2)
    BY <1>0, <2>1 DEF StageInv, EndStage
  <2>3. DataInv'
    BY <2>1, <2>2, DataKept DEF Ready, StageInv
  <2>4. PinInv'
    BY <2>1, <2>2 DEF PinInv, StageInv, GroupArg, GroupOf, Rank, PerGroup, EndStage
  <2> QED BY <2>3, <2>4
<1> QED BY <1>1, <1>2, <1>3, <1>4, <1>5, <1>6, <1>7 DEF Next, main, runTest

\* Every run keeps the threads' data and CPUs as the command line has them.
THEOREM BenchData ==
  ASSUME 1 \notin Garbage, NoOverflow
  PROVE  Spec => [](BarrierInv /\ StageInv /\ MainInv /\ DataInv /\ PinInv)
<1>1. Init => DataInv /\ PinInv
  <2> SUFFICES ASSUME Init PROVE DataInv /\ PinInv
    OBVIOUS
  <2>1. arg \in Arguments /\ Len(arg) \in Nat /\ groups = <<>> /\ Len(groups) = 0
    BY Shape DEF Init
  <2>2. threads_init \in [Threads -> DataRecords]
    BY NumThreadsAssumption DEF threads_init, DataRecords, Threads
  <2>3. ~Ready
    BY DEF Init, Ready
  <2> QED BY <2>1, <2>2, <2>3, IterationsAssumption DEF Init, DataInv, PinInv, NotCreated
<1>2. BarrierInv /\ StageInv /\ MainInv /\ DataInv /\ PinInv /\ [Next]_vars => DataInv' /\ PinInv'
  BY DataStep
<1>3. Spec => [](BarrierInv /\ StageInv /\ MainInv)
  BY BenchStages
<1> QED BY <1>1, <1>2, <1>3, PTL DEF Spec

-----------------------------------------------------------------------------
(* The kernel runs on prepared threads *)

\* The threads that list a CPU and the places that name it are as many: thread
\* t stands for place Rank(t) + 1 of group GroupOf(t) + 1.
LEMMA PlacesAreThreads ==
  ASSUME arg \in Arguments, NEW c
  PROVE  Cardinality({t \in Threads : GroupArg(t).cpus[Rank(t) + 1] = c}) = Cardinality(Named(c))
<1> DEFINE T == {t \in Threads : GroupArg(t).cpus[Rank(t) + 1] = c}
           f == [t \in T |-> <<GroupOf(t) + 1, Rank(t) + 1>>]
<1>1. /\ Len(arg) \in Nat \ {0} /\ PerGroup \in Nat \ {0} /\ PerGroup * Len(arg) = NumThreads
      /\ \A g \in 1 .. Len(arg) : Len(arg[g].cpus) = PerGroup
      /\ \A t \in Threads : /\ GroupOf(t) \in 0 .. Len(arg) - 1 /\ Rank(t) \in 0 .. PerGroup - 1
                            /\ t = PerGroup * GroupOf(t) + Rank(t)
  BY Shape
<1>2. PerGroup <= NumThreads
  <2>1. 1 * PerGroup <= Len(arg) * PerGroup
    BY <1>1, MulMono
  <2> QED BY <1>1, <2>1
<1>3. ASSUME NEW t \in T PROVE f[t] \in Named(c)
  <2>1. /\ GroupOf(t) + 1 \in 1 .. Len(arg) /\ Rank(t) + 1 \in 1 .. PerGroup /\ Rank(t) + 1 \in 1 .. NumThreads
        /\ Len(arg[GroupOf(t) + 1].cpus) = PerGroup /\ arg[GroupOf(t) + 1].cpus[Rank(t) + 1] = c
    BY <1>1, <1>2, NumThreadsAssumption, SMTT(30) DEF GroupArg
  <2> QED BY <1>1, <2>1 DEF Named
<1>4. ASSUME NEW t \in T, NEW u \in T, f[t] = f[u] PROVE t = u
  <2>1. GroupOf(t) + 1 = GroupOf(u) + 1 /\ Rank(t) + 1 = Rank(u) + 1
    BY <1>4
  <2>2. GroupOf(t) \in Nat /\ GroupOf(u) \in Nat /\ Rank(t) \in Nat /\ Rank(u) \in Nat
    BY <1>1
  <2>3. GroupOf(t) = GroupOf(u) /\ Rank(t) = Rank(u)
    BY <2>1, <2>2
  <2> QED BY <1>1, <2>3
<1>5. ASSUME NEW p \in Named(c) PROVE \E t \in T : f[t] = p
  <2> DEFINE g == p[1] - 1
             k == p[2] - 1
             t == PerGroup * g + k
  <2>1. p[1] \in 1 .. Len(arg) /\ p[2] \in Nat /\ 1 <= p[2] /\ p[2] <= Len(arg[p[1]].cpus) /\ arg[p[1]].cpus[p[2]] = c
    BY NumThreadsAssumption DEF Named
  <2>2. g \in 0 .. Len(arg) - 1 /\ k \in 0 .. PerGroup - 1 /\ p = <<g + 1, k + 1>>
    BY <1>1, <2>1, NumThreadsAssumption, SMTT(30) DEF Named
  <2>3. arg[g + 1].cpus[k + 1] = c
    BY <1>1, <2>1
  <2> HIDE DEF g, k
  <2>4. t \in Threads
    <3>0. g + 1 \in Nat /\ Len(arg) \in Nat /\ PerGroup \in Nat /\ g + 1 <= Len(arg)
      BY <1>1, <2>2
    <3>1. PerGroup * (g + 1) <= PerGroup * Len(arg)
      BY <3>0, MulMono
    <3>2. PerGroup * (g + 1) = PerGroup * g + PerGroup /\ PerGroup * g \in Nat
      BY <1>1, <2>2
    <3> DEFINE m == PerGroup * g
    <3>3. m \in Nat /\ m + PerGroup <= NumThreads
      BY <1>1, <3>1, <3>2
    <3> HIDE DEF m
    <3>4. m + k \in 0 .. NumThreads - 1
      BY <1>1, <2>2, <3>3, NumThreadsAssumption
    <3> QED BY <3>4 DEF m, Threads
  <2> HIDE DEF t
  <2>5. GroupOf(t) = g /\ Rank(t) = k
    <3>1. /\ PerGroup \in Nat \ {0} /\ GroupOf(t) \in Nat /\ g \in Nat /\ Rank(t) \in 0 .. PerGroup - 1
          /\ PerGroup * GroupOf(t) + Rank(t) = PerGroup * g + k
      BY <1>1, <2>2, <2>4 DEF t
    <3>2. \A a, b \in Nat, r, s \in 0 .. PerGroup - 1 : PerGroup * a + r = PerGroup * b + s => a = b /\ r = s
      BY <3>1, DivUnique
    <3> QED BY <2>2, <3>1, <3>2, Zenon
  <2>6. t \in T
    BY <2>3, <2>4, <2>5 DEF GroupArg
  <2>7. f[t] = p
    BY <2>2, <2>5, <2>6
  <2> QED BY <2>6, <2>7
<1>6. f \in [T -> Named(c)]
  BY <1>3
<1>7. IsFiniteSet(T)
  <2>1. IsFiniteSet(0 .. NumThreads - 1)
    BY FS_Interval, NumThreadsAssumption
  <2>2. T \in SUBSET (0 .. NumThreads - 1)
    BY DEF Threads
  <2> HIDE DEF T
  <2> QED BY <2>1, <2>2, FS_Subset
<1>8. ExistsBijection(T, Named(c))
  <2> HIDE DEF T, f
  <2>1. f \in Bijection(T, Named(c))
    BY <1>4, <1>5, <1>6, Fun_IsBij
  <2> QED BY <2>1, Fun_ExistsBij
<1>9. Cardinality(Named(c)) = Cardinality(T)
  <2> HIDE DEF T
  <2> QED BY <1>7, <1>8, FS_Bijection
<1> QED BY <1>9

\* Once a thread is at the kernel, the threads are on their CPUs, with their
\* pieces of the vectors and the same number of iterations.
LEMMA KernelPrepared ==
  ASSUME BarrierInv, StageInv, MainInv, DataInv, PinInv
  PROVE  KernelOnPreparedThreads
<1> SUFFICES ASSUME NEW t0 \in Threads, stage[t0] = KernelStage
             PROVE  /\ \A c \in {cpu[t] : t \in Threads} :
                         Cardinality({t \in Threads : cpu[t] = c}) = Cardinality(Named(c))
                    /\ \A t \in Threads : Elements(t) \subseteq
                         groups[data[t].groupId + 1].offset
                           .. groups[data[t].groupId + 1].offset + groups[data[t].groupId + 1].size - 1
                    /\ \A t, u \in Threads : t # u /\ data[t].groupId = data[u].groupId
                                               => Elements(t) \cap Elements(u) = {}
                    /\ \A t \in Threads : data[t].iter = data[0].iter
  BY DEF KernelOnPreparedThreads
<1>1. \A t \in Threads : stage[t] \in Nat /\ stage[t] >= 4
  BY StagesTogether DEF KernelStage, StageInv, EndStage
<1>2. Ready
  <2>1. t0 \in Nat /\ ~(t0 >= created) /\ created \in Nat
    BY <1>1, NumThreadsAssumption DEF MainInv, NotCreated, Threads
  <2> QED BY <2>1 DEF Ready
<1>3. ASSUME NEW t \in Threads
      PROVE  /\ data[t].groupId = GroupOf(t) /\ data[t].iter = data[0].iter /\ data[t].size = Share(t)
             /\ data[t].stream = GroupArg(t).offset + Rank(t) * Share(t)
             /\ cpu[t] = GroupArg(t).cpus[Rank(t) + 1]
  BY <1>1, <1>2 DEF DataInv, Prepared, PinInv
<1>4. \A c : Cardinality({t \in Threads : cpu[t] = c}) = Cardinality(Named(c))
  <2> TAKE c
  <2>1. {t \in Threads : cpu[t] = c} = {t \in Threads : GroupArg(t).cpus[Rank(t) + 1] = c}
    BY <1>3
  <2> QED BY <2>1, PlacesAreThreads DEF DataInv
<1>5. ASSUME NEW t \in Threads
      PROVE  /\ GroupArg(t).offset \in Nat /\ Length(t) \in Nat /\ Share(t) \in Nat
             /\ Rank(t) * Share(t) \in Nat /\ Rank(t) * Share(t) + Share(t) <= Length(t)
             /\ groups[data[t].groupId + 1].offset = GroupArg(t).offset
             /\ groups[data[t].groupId + 1].size = Length(t)
  <2>1. /\ GroupOf(t) + 1 \in 1 .. Len(arg) /\ GroupArg(t) \in Workgroups /\ Length(t) \in Nat /\ Share(t) \in Nat
        /\ Rank(t) * Share(t) \in Nat /\ Rank(t) * Share(t) + Share(t) <= Length(t)
    BY ShareFits DEF DataInv
  <2>2. groups[data[t].groupId + 1] = bstr_to_workgroup(GroupArg(t))
    BY <1>2, <1>3, <2>1 DEF DataInv, GroupArg
  <2> QED BY <2>1, <2>2 DEF bstr_to_workgroup, Workgroups, Length
<1>6. ASSUME NEW t \in Threads
      PROVE  Elements(t) \subseteq groups[data[t].groupId + 1].offset
                   .. groups[data[t].groupId + 1].offset + groups[data[t].groupId + 1].size - 1
  <2> DEFINE x == Rank(t) * Share(t)
             o == GroupArg(t).offset
  <2>1. /\ o \in Nat /\ Length(t) \in Nat /\ Share(t) \in Nat /\ x \in Nat /\ x + Share(t) <= Length(t)
        /\ groups[data[t].groupId + 1].offset = o /\ groups[data[t].groupId + 1].size = Length(t)
        /\ Elements(t) = (o + x) .. (o + x) + Share(t) - 1
    BY <1>3, <1>5 DEF Elements
  <2> HIDE DEF x, o
  <2>2. (o + x) .. (o + x) + Share(t) - 1 \subseteq o .. o + Length(t) - 1
    BY <2>1
  <2> QED BY <2>1, <2>2
<1>7. ASSUME NEW t \in Threads, NEW u \in Threads, t # u, GroupOf(t) = GroupOf(u), Rank(t) < Rank(u)
      PROVE  Elements(t) \cap Elements(u) = {}
  <2> DEFINE x == Rank(t) * Share(t)
             y == Rank(u) * Share(t)
             o == GroupArg(t).offset
  <2>1. Share(u) = Share(t) /\ GroupArg(u) = GroupArg(t)
    BY <1>7 DEF Share, Length, GroupArg
  <2>2. /\ o \in Nat /\ Share(t) \in Nat /\ x \in Nat /\ y \in Nat
        /\ Elements(t) = (o + x) .. (o + x) + Share(t) - 1 /\ Elements(u) = (o + y) .. (o + y) + Share(t) - 1
    BY <1>3, <1>5, <2>1 DEF Elements
  <2>3. x + Share(t) <= y
    <3>0. Rank(t) \in Nat /\ Rank(u) \in Nat /\ Share(t) \in Nat
      BY ShareFits DEF DataInv
    <3>1. Rank(t) \in Nat /\ Rank(u) \in Nat /\ Rank(t) + 1 \in Nat /\ Rank(t) + 1 <= Rank(u)
      BY <1>7, <3>0
    <3>2. (Rank(t) + 1) * Share(t) <= Rank(u) * Share(t)
      BY <3>0, <3>1, MulMono
    <3>3. (Rank(t) + 1) * Share(t) = Rank(t) * Share(t) + Share(t)
      BY <2>2, <3>1
    <3> QED BY <3>2, <3>3
  <2> HIDE DEF x, y, o
  <2>4. \A e \in (o + x) .. (o + x) + Share(t) - 1 : e \notin (o + y) .. (o + y) + Share(t) - 1
    BY <2>2, <2>3
  <2> QED BY <2>2, <2>4
<1>8. ASSUME NEW t \in Threads, NEW u \in Threads, t # u, GroupOf(t) = GroupOf(u)
      PROVE  Rank(t) < Rank(u) \/ Rank(u) < Rank(t)
  <2>1. /\ t = PerGroup * GroupOf(t) + Rank(t) /\ u = PerGroup * GroupOf(u) + Rank(u)
        /\ Rank(t) \in Nat /\ Rank(u) \in Nat
    BY Shape DEF DataInv
  <2>2. Rank(t) # Rank(u)
    BY <1>8, <2>1
  <2> QED BY <2>1, <2>2
<1>9. \A t, u \in Threads : t # u /\ data[t].groupId = data[u].groupId => Elements(t) \cap Elements(u) = {}
  BY <1>3, <1>7, <1>8
<1> QED BY <1>3, <1>4, <1>6, <1>9

\* No thread of likwid-bench executes the kernel before all threads of all
\* workgroups are pinned as the command line asks, have their pieces of the
\* vectors, which lie inside them and do not overlap, and agree on the number
\* of iterations (threads_createGroups, copyThreadData and runTest in threads.c
\* and bench.c), for every number of threads and all command lines whose
\* vectors the int offset of runTest can address.
THEOREM KernelAfterPreparation ==
  ASSUME 1 \notin Garbage, NoOverflow
  PROVE  Spec => []KernelOnPreparedThreads
<1>1. BarrierInv /\ StageInv /\ MainInv /\ DataInv /\ PinInv => KernelOnPreparedThreads
  BY KernelPrepared
<1>2. Spec => [](BarrierInv /\ StageInv /\ MainInv /\ DataInv /\ PinInv)
  BY BenchData
<1> QED BY <1>1, <1>2, PTL
=============================================================================
