----------------------------- MODULE Pin_proofs -----------------------------
(***************************************************************************)
(* Proofs about the pthread wrapper in a process whose main thread creates *)
(* all threads, for every list of CPUs that leaves an entry of pin_ids     *)
(* free, every skip mask and every number of threads and failing calls;    *)
(* and about a program that likwid-pin starts under it.                    *)
(***************************************************************************)
EXTENDS Pin, NatLemmas

L == Len(envPin)

\* Main is between the real pthread_create and the end of the wrapper.
Created == {"pin", "test", "reset", "advance", "count"}
\* Main has used the entry npinned of the list and not yet left it.
Used == {"test", "reset", "advance"}

\* Types, and what the environment leaves alone: only main is ever inside the
\* wrapper.
EnvInv ==
    /\ envPin \in Seq(Nat) /\ L \in 1 .. MAX_NUM_THREADS - 1 /\ creators = {Main}
    /\ mask = [t \in Threads |-> mask[t]]
ProcInv ==
    /\ npinned \in Nat /\ ncalled \in Nat /\ ncpus \in Nat /\ placements \in Nat /\ failures \in Nat
    /\ pc \in [Threads -> {"none", "out", "load", "create"} \cup Created]
    /\ pc[Main] # "none" /\ \A t \in Threads \ {Main} : pc[t] \in {"none", "out"}
    /\ made \in [Threads -> Threads]
    /\ pc[Main] = "pin" => made[Main] # Main /\ pc[made[Main]] = "out"
    /\ fate \in [Threads -> Nat \cup {Inherited, Skipped}]
    /\ \A t \in Threads : pc[t] = "none" \/ t = Main => fate[t] = Inherited

\* The list has not been read, or has been read once, or more often.
ListInv ==
    /\ ncpus = 0 \/ ncpus >= L
    /\ ncpus = 0 => /\ pc[Main] = "out" /\ ncalled = 0 /\ npinned = 0 /\ placements = 0
                    /\ pin_ids = [k \in Ids |-> 0]
                    /\ \A t \in Threads : fate[t] = Inherited
    /\ ncpus # 0 => skipMask = envSkip
    /\ ncpus = L => overflow = L /\ pin_ids = [k \in Ids |-> IF k < L THEN envPin[k + 1] ELSE 0]

\* Where the k-th placement goes: the list is followed by one entry that was never
\* written, and then starts again.
EntryFor(k) == LET r == k % (Len(envPin) + 1) IN IF r < Len(envPin) THEN envPin[r + 1] ELSE 0

\* After the list has been read once, npinned walks through it and the entry
\* behind it with the placements.
OrderInv ==
    ncpus = L =>
        /\ mask[Main] = {envPin[L]}
        /\ \A t \in Threads : fate[t] >= 0 => mask[t] = {EntryFor(fate[t])}
        /\ pc[Main] \notin Used => npinned = placements % (L + 1)
        /\ pc[Main] \in Used => placements > 0 /\ npinned = (placements - 1) % (L + 1)
        /\ pc[Main] = "reset" => npinned = L
        /\ pc[Main] = "advance" => npinned # L

\* Threads that exist if no call has failed: one for each call counted, and
\* the one main is about to place.
Born == ncalled + IF pc[Main] \in Created THEN 1 ELSE 0

\* As long as no call has failed, ncalled is the number of the next thread.
SkipInv ==
    failures = 0 =>
        /\ pc[Main] \in {"load", "create"} => Born < MaxThreads
        /\ \A t \in Threads : pc[t] = "none" <=> t > Born
        /\ Born <= MaxThreads
        /\ pc[Main] \in Created => made[Main] = Born
        /\ pc[Main] = "pin" => fate[Born] = Inherited
        /\ \A t \in Threads : fate[t] # Inherited => (fate[t] = Skipped <=> t - 1 \in envSkip /\ t <= 64)

WrapperInv == EnvInv /\ ProcInv /\ ListInv /\ OrderInv /\ SkipInv

\* Only main takes steps of the wrapper.
LEMMA OnlyMain ==
  ASSUME EnvInv, ProcInv, NEW t \in Threads, PinStep(t)
  PROVE  t = Main
<1> SUFFICES ASSUME t # Main PROVE FALSE
  OBVIOUS
<1>1. pc[t] \in {"none", "out"} /\ t \notin creators
  BY DEF EnvInv, ProcInv
<1> QED BY <1>1 DEF PinStep, pthread_create, Load, Create, Pin, Test, Advance, Count

\* The wrapper has not been called.
Untouched ==
    /\ npinned = 0 /\ ncalled = 0 /\ ncpus = 0 /\ placements = 0 /\ failures = 0
    /\ pin_ids = [k \in Ids |-> 0]
    /\ pc = [t \in Threads |-> IF t = Main THEN "out" ELSE "none"]
    /\ made = [t \in Threads |-> Main]
    /\ mask = [t \in Threads |-> mask[t]]
    /\ fate = [t \in Threads |-> Inherited]

\* With a list that leaves an entry free the wrapper starts in a state of the
\* invariant.
LEMMA WrapperStart ==
  Untouched /\ envPin \in Seq(Nat) /\ L \in 1 .. MAX_NUM_THREADS - 1 /\ creators = {Main} => WrapperInv
<1> SUFFICES ASSUME Untouched, envPin \in Seq(Nat), L \in 1 .. MAX_NUM_THREADS - 1, creators = {Main}
             PROVE  WrapperInv
  OBVIOUS
<1> USE PinAssumption DEF Untouched
<1>1. EnvInv
  BY DEF EnvInv
<1>2. ProcInv
  BY DEF ProcInv, Created, Threads, Main, Inherited, Skipped
<1>3. ListInv
  BY DEF ListInv, Threads, Main
<1>4. OrderInv
  BY DEF OrderInv
<1>5. SkipInv
  BY DEF SkipInv, Born, Created, Threads, Main, Inherited, Skipped
<1> QED BY <1>1, <1>2, <1>3, <1>4, <1>5 DEF WrapperInv

\* Main enters the wrapper, and reads the list if no call has been counted.
LEMMA EnterStep ==
  ASSUME WrapperInv, pthread_create(Main)
  PROVE  WrapperInv'
<1> USE DEF WrapperInv
<1>0. 0 \in Threads /\ Threads \subseteq Nat
  BY PinAssumption DEF Threads
<1>1. /\ pc[Main] = "out" /\ Unborn # {} /\ pc' = [pc EXCEPT ![Main] = "load"]
      /\ UNCHANGED <<envPin, envSkip, creators, npinned, ncalled, made, fate, placements, failures>>
      /\ (ncalled = 0 /\ FirstEntry) \/ (ncalled # 0 /\ UNCHANGED <<skipMask, pin_ids, ncpus, overflow, mask>>)
  BY DEF pthread_create, Goto
<1>2. EnvInv' /\ ProcInv'
  <2>1. ncpus' \in Nat /\ mask' = [t \in Threads |-> mask'[t]]
    BY <1>1 DEF EnvInv, ProcInv, FirstEntry, L
  <2>2. EnvInv'
    BY <1>1, <2>1 DEF EnvInv, L
  <2>3. ProcInv'
    BY <1>0, <1>1, <2>1, SMTT(30) DEF ProcInv, Created, Main
  <2> QED BY <2>2, <2>3
<1>3. ListInv' /\ OrderInv'
  <2>1. CASE ncalled # 0
    BY <1>0, <1>1, <2>1 DEF ListInv, OrderInv, EnvInv, ProcInv, L, EntryFor, Used, Main
  <2>2. CASE ncalled = 0 /\ ncpus # 0
    <3>1. ncpus' > L /\ skipMask' = envSkip
      BY <1>1, <2>2 DEF FirstEntry, ListInv, EnvInv, ProcInv, L
    <3> QED BY <1>1, <1>2, <2>2, <3>1 DEF ListInv, OrderInv, EnvInv, ProcInv, L
  <2>3. CASE ncpus = 0
    <3>1. /\ ncalled = 0 /\ npinned = 0 /\ placements = 0 /\ pin_ids = [k \in Ids |-> 0]
          /\ \A t \in Threads : fate[t] = Inherited
      BY <2>3 DEF ListInv
    <3>2. /\ ncpus' = L /\ overflow' = L /\ skipMask' = envSkip
          /\ pin_ids' = [k \in Ids |-> IF k < L THEN envPin[k + 1] ELSE 0]
      BY <1>1, <2>3, <3>1 DEF FirstEntry, EnvInv, ProcInv, L
    <3>3. mask'[Main] = {envPin[L]}
      <4>1. L - 1 \in Ids /\ L - 1 < L /\ (L - 1) + 1 = L /\ envPin # <<>>
        BY PinAssumption DEF EnvInv, ProcInv, Ids, L
      <4>2. mask' = [mask EXCEPT ![Main] = {pin_ids'[L - 1]}]
        BY <1>1, <3>1, <3>2, <4>1 DEF FirstEntry
      <4> QED BY <1>0, <3>2, <4>1, <4>2 DEF EnvInv, ProcInv, Main
    <3>4. 0 % (L + 1) = 0
      BY DEF EnvInv, ProcInv
    <3>5. pc'[Main] = "load"
      BY <1>0, <1>1 DEF EnvInv, ProcInv, Main
    <3> QED BY <1>1, <3>1, <3>2, <3>3, <3>4, <3>5 DEF ListInv, OrderInv, EnvInv, ProcInv, L, Used, Inherited
  <2> QED BY <2>1, <2>2, <2>3 DEF ListInv
<1>4. SkipInv'
  <2> SUFFICES ASSUME failures = 0 PROVE SkipInv'
    BY <1>1 DEF SkipInv
  <2>1. Born = ncalled /\ Born' = ncalled
    BY <1>0, <1>1 DEF Born, Created, EnvInv, ProcInv, Main
  <2>2. PICK t \in Threads : pc[t] = "none"
    BY <1>1 DEF Unborn
  <2>3. t > ncalled /\ t <= MaxThreads
    BY <2>1, <2>2, PinAssumption DEF SkipInv, Threads
  <2> QED BY <1>0, <1>1, <2>1, <2>3, PinAssumption DEF SkipInv, EnvInv, ProcInv, Created, Main, Threads
<1> QED BY <1>2, <1>3, <1>4

\* The library is loaded, or cannot be.
LEMMA LoadStep ==
  ASSUME WrapperInv, Load(Main)
  PROVE  WrapperInv'
<1> USE DEF WrapperInv
<1>0. Main \in Threads /\ Threads \subseteq Nat
  BY PinAssumption DEF Threads, Main
<1>1. /\ pc[Main] = "load" /\ UNCHANGED <<envPin, envSkip, creators, wrapper, made, mask, fate, placements>>
      /\ \/ pc' = [pc EXCEPT ![Main] = "create"] /\ failures' = failures
         \/ pc' = [pc EXCEPT ![Main] = "out"] /\ failures' = failures + 1
  BY DEF Load, Goto
<1>2. EnvInv' /\ ProcInv'
  <2>1. EnvInv'
    BY <1>1 DEF EnvInv, L
  <2>2. failures' \in Nat
    BY <1>1 DEF ProcInv
  <2> QED BY <1>0, <1>1, <2>1, <2>2 DEF ProcInv, wrapper, Created
<1>3. ListInv' /\ OrderInv'
  BY <1>0, <1>1 DEF ListInv, OrderInv, EnvInv, ProcInv, wrapper, L, EntryFor, Used
<1>4. SkipInv'
  BY <1>0, <1>1 DEF SkipInv, Born, EnvInv, ProcInv, wrapper, Created
<1> QED BY <1>2, <1>3, <1>4

\* The real pthread_create makes the thread with the least number, or fails.
LEMMA CreateStep ==
  ASSUME WrapperInv, Create(Main)
  PROVE  WrapperInv'
<1> USE DEF WrapperInv
<1>0. Main \in Threads /\ Threads \subseteq Nat /\ pc[Main] = "create" /\ Unborn \subseteq Threads
  BY PinAssumption DEF Threads, Main, Create, Unborn
<1>1. UNCHANGED <<envPin, envSkip, creators, wrapper, fate, placements>>
  BY DEF Create
<1>2. CASE Unborn # {} /\ failures' = failures
           /\ LET u == CHOOSE v \in Unborn : \A w \in Unborn : v <= w
              IN pc' = [pc EXCEPT ![Main] = "pin", ![u] = "out"]
                 /\ made' = [made EXCEPT ![Main] = u] /\ mask' = [mask EXCEPT ![u] = mask[Main]]
  <2>1. PICK u \in Unborn : /\ \A w \in Unborn : u <= w
                            /\ pc' = [pc EXCEPT ![Main] = "pin", ![u] = "out"]
                            /\ made' = [made EXCEPT ![Main] = u] /\ mask' = [mask EXCEPT ![u] = mask[Main]]
    <3>1. Unborn \subseteq Nat
      BY <1>0
    <3>2. \E u \in Unborn : \A w \in Unborn : u <= w
      BY <1>2, <3>1, LeastNatural
    <3> QED BY <1>2, <3>2
  <2>2. u \in Threads /\ pc[u] = "none" /\ u # Main /\ fate[u] = Inherited
    BY <1>0, <2>1 DEF Unborn, EnvInv, ProcInv
  <2>3. /\ pc'[Main] = "pin" /\ pc'[u] = "out" /\ made'[Main] = u
        /\ \A t \in Threads \ {Main, u} : pc'[t] = pc[t]
        /\ \A t \in Threads \ {u} : mask'[t] = mask[t]
    BY <1>0, <2>1, <2>2 DEF EnvInv, ProcInv
  <2>4. EnvInv' /\ ProcInv'
    <3>1. EnvInv'
      BY <1>1, <2>1 DEF EnvInv, L
    <3>2. pc' \in [Threads -> {"none", "out", "load", "create"} \cup Created] /\ made' \in [Threads -> Threads]
      BY <1>0, <2>1, <2>2 DEF ProcInv, Created
    <3>3. \A t \in Threads \ {Main} : pc'[t] \in {"none", "out"}
      BY <2>3 DEF ProcInv
    <3> QED BY <1>0, <1>1, <1>2, <2>2, <2>3, <3>1, <3>2, <3>3 DEF ProcInv, wrapper
  <2>5. ListInv' /\ OrderInv'
    <3>1. ncpus # 0
      BY <1>0 DEF ListInv
    <3>2. ListInv'
      BY <1>1, <3>1 DEF ListInv, wrapper, L
    <3>3. \A t \in Threads : fate[t] >= 0 => t # u
      BY <2>2 DEF Inherited
    <3>4. OrderInv'
      BY <1>0, <1>1, <2>2, <2>3, <3>3 DEF OrderInv, wrapper, L, EntryFor, Used
    <3> QED BY <3>2, <3>4
  <2>6. SkipInv'
    <3> SUFFICES ASSUME failures = 0 PROVE SkipInv'
      BY <1>2 DEF SkipInv
    <3>1. Born = ncalled /\ Born < MaxThreads /\ Born \in Nat
      BY <1>0 DEF SkipInv, Born, Created, EnvInv, ProcInv
    <3>2. Born' = ncalled + 1
      BY <1>1, <2>3 DEF Born, Created, wrapper
    <3>3. ncalled + 1 \in Unborn
      BY <3>1, PinAssumption DEF SkipInv, Unborn, Threads
    <3>4. u = ncalled + 1
      <4>1. u <= ncalled + 1
        BY <2>1, <3>3
      <4>2. u > ncalled
        BY <2>2, <3>1 DEF SkipInv
      <4> QED BY <1>0, <2>2, <3>1, <4>1, <4>2
    <3>5. \A t \in Threads : pc'[t] = "none" <=> t > ncalled + 1
      <4>1. \A t \in Threads : pc[t] = "none" <=> t > ncalled
        BY <3>1 DEF SkipInv
      <4>2. ASSUME NEW t \in Threads \ {Main, u} PROVE pc'[t] = "none" <=> t > ncalled + 1
        BY <1>0, <2>3, <3>1, <3>4, <4>1, <4>2
      <4>3. ~(u > ncalled + 1) /\ ~(Main > ncalled + 1)
        BY <3>1, <3>4 DEF Main
      <4> QED BY <2>3, <4>2, <4>3
    <3>6. \A t \in Threads : fate[t] # Inherited => (fate[t] = Skipped <=> t - 1 \in envSkip /\ t <= 64)
      BY DEF SkipInv
    <3>7. ncalled + 1 <= MaxThreads
      BY <3>1, PinAssumption
    <3> QED BY <1>1, <2>2, <2>3, <3>2, <3>4, <3>5, <3>6, <3>7 DEF SkipInv
  <2> QED BY <2>4, <2>5, <2>6
<1>3. CASE /\ failures < MaxFailures \/ Unborn = {}
           /\ failures' = IF failures < MaxFailures THEN failures + 1 ELSE failures
           /\ pc' = [pc EXCEPT ![Main] = "count"] /\ UNCHANGED <<made, mask>>
  <2>1. EnvInv' /\ ProcInv'
    <3>1. EnvInv'
      BY <1>1, <1>3 DEF EnvInv, L
    <3>2. failures' \in Nat
      BY <1>3 DEF ProcInv
    <3> QED BY <1>0, <1>1, <1>3, <3>1, <3>2 DEF ProcInv, wrapper, Created
  <2>2. ListInv' /\ OrderInv'
    BY <1>0, <1>1, <1>3 DEF ListInv, OrderInv, EnvInv, ProcInv, wrapper, L, EntryFor, Used
  <2>3. failures' # 0
    <3>1. CASE Unborn = {}
      <4>1. failures # 0
        <5> SUFFICES ASSUME failures = 0 PROVE FALSE
          OBVIOUS
        <5>1. Born < MaxThreads /\ Born \in Nat
          BY <1>0 DEF SkipInv, Born, Created, EnvInv, ProcInv
        <5> QED BY <3>1, <5>1, PinAssumption DEF SkipInv, Unborn, Threads
      <4> QED BY <1>3, <4>1, PinAssumption DEF EnvInv, ProcInv
    <3>2. CASE failures < MaxFailures
      BY <1>3, <3>2 DEF EnvInv, ProcInv
    <3> QED BY <1>3, <3>1, <3>2
  <2> QED BY <2>1, <2>2, <2>3 DEF SkipInv
<1> QED BY <1>2, <1>3 DEF Create, Goto

\* The new thread is skipped, or goes to the CPU npinned points to.
LEMMA PlaceStep ==
  ASSUME WrapperInv, Pin(Main)
  PROVE  WrapperInv'
<1> USE DEF WrapperInv
<1> DEFINE u == made[Main]
<1>0. /\ Main \in Threads /\ Threads \subseteq Nat /\ pc[Main] = "pin"
      /\ u \in Threads /\ u # Main /\ pc[u] = "out"
  BY PinAssumption DEF Threads, Main, Pin, EnvInv, ProcInv
<1>1. UNCHANGED <<envPin, envSkip, creators, wrapper, made, failures>>
  BY DEF Pin
<1>2. CASE /\ ncalled < 64 /\ ncalled \in skipMask
           /\ fate' = [fate EXCEPT ![u] = Skipped] /\ pc' = [pc EXCEPT ![Main] = "count"]
           /\ UNCHANGED <<mask, placements>>
  <2>1. EnvInv' /\ ProcInv'
    BY <1>0, <1>1, <1>2 DEF EnvInv, ProcInv, wrapper, L, Created
  <2>2. ListInv' /\ OrderInv'
    BY <1>0, <1>1, <1>2 DEF ListInv, OrderInv, EnvInv, ProcInv, wrapper, L, EntryFor, Used, Skipped
  <2>3. SkipInv'
    <3> SUFFICES ASSUME failures = 0 PROVE SkipInv'
      BY <1>1 DEF SkipInv
    <3>1. u = ncalled + 1 /\ u - 1 = ncalled /\ u <= 64 /\ skipMask = envSkip
      BY <1>0, <1>2, SMTT(30) DEF SkipInv, Born, Created, EnvInv, ProcInv, ListInv
    <3>2. Born' = Born /\ Born = u
      BY <1>0, <1>1, <1>2, <3>1 DEF Born, Created, EnvInv, ProcInv, wrapper
    <3> QED BY <1>0, <1>1, <1>2, <3>1, <3>2 DEF SkipInv, EnvInv, ProcInv, Created, Skipped, Inherited
  <2> QED BY <2>1, <2>2, <2>3
<1>3. CASE /\ ~(ncalled < 64 /\ ncalled \in skipMask)
           /\ mask' = [mask EXCEPT ![u] = {pin_ids[npinned]}] /\ fate' = [fate EXCEPT ![u] = placements]
           /\ placements' = placements + 1 /\ pc' = [pc EXCEPT ![Main] = "test"]
  <2>1. EnvInv' /\ ProcInv'
    <3>1. EnvInv'
      BY <1>1, <1>3 DEF EnvInv, L
    <3>2. fate' \in [Threads -> Nat \cup {Inherited, Skipped}] /\ placements' \in Nat
      BY <1>0, <1>3 DEF ProcInv
    <3>3. \A t \in Threads : pc'[t] = "none" \/ t = Main => fate'[t] = Inherited
      BY <1>0, <1>3 DEF ProcInv
    <3> QED BY <1>0, <1>1, <1>3, <3>1, <3>2, <3>3 DEF ProcInv, wrapper, Created
  <2>2. ListInv'
    BY <1>0, <1>1, <1>3 DEF ListInv, EnvInv, ProcInv, wrapper, L
  <2>3. OrderInv'
    <3> SUFFICES ASSUME ncpus = L PROVE OrderInv'
      BY <1>1 DEF OrderInv, L, wrapper
    <3>1. npinned = placements % (L + 1) /\ npinned \in 0 .. L
      <4>1. npinned = placements % (L + 1)
        BY <1>0 DEF OrderInv, Used
      <4>2. L + 1 \in Nat \ {0} /\ placements \in Nat /\ L \in Nat
        BY DEF EnvInv, ProcInv
      <4> QED BY <4>1, <4>2, DivMod
    <3>2. pin_ids[npinned] = EntryFor(placements)
      <4>1. npinned \in Ids
        BY <3>1, PinAssumption DEF Ids, EnvInv, ProcInv
      <4> QED BY <3>1, <4>1 DEF ListInv, EntryFor, L
    <3>3. \A k : EntryFor(k)' = EntryFor(k)
      BY <1>1 DEF EntryFor
    <3>4. \A t \in Threads : fate'[t] >= 0 => mask'[t] = {EntryFor(fate'[t])}
      BY <1>0, <1>3, <3>2 DEF OrderInv, EnvInv, ProcInv
    <3>5. (placements + 1) - 1 = placements /\ placements + 1 > 0
      BY DEF EnvInv, ProcInv
    <3>6. mask'[Main] = mask[Main] /\ pc'[Main] = "test"
      BY <1>0, <1>3 DEF EnvInv, ProcInv
    <3>7. /\ mask'[Main] = {envPin[L]} /\ npinned' = (placements' - 1) % (L + 1) /\ placements' > 0
      BY <1>1, <1>3, <3>1, <3>5, <3>6 DEF OrderInv, wrapper
    <3>8. L' = L
      BY <1>1 DEF L
    <3>9. \A t \in Threads : fate'[t] >= 0 => mask'[t] = {EntryFor(fate[t])'}
      BY <1>1, <3>4 DEF EntryFor
    <3> QED BY <1>1, <3>6, <3>7, <3>8, <3>9 DEF OrderInv, Used
  <2>4. SkipInv'
    <3> SUFFICES ASSUME failures = 0 PROVE SkipInv'
      BY <1>1 DEF SkipInv
    <3>0. u = ncalled + 1 /\ u - 1 = ncalled /\ skipMask = envSkip /\ ncalled \in Nat
      BY <1>0 DEF SkipInv, Born, Created, ProcInv, ListInv
    <3>1. u = ncalled + 1 /\ u - 1 = ncalled /\ ~(u - 1 \in envSkip /\ u <= 64)
      BY <1>3, <3>0
    <3>2. Born' = Born /\ Born = u /\ placements # Skipped
      BY <1>0, <1>1, <1>3, <3>1 DEF Born, Created, EnvInv, ProcInv, wrapper, Skipped
    <3> QED BY <1>0, <1>1, <1>3, <3>1, <3>2 DEF SkipInv, EnvInv, ProcInv, Created, Skipped, Inherited
  <2> QED BY <2>1, <2>2, <2>3, <2>4
<1> QED BY <1>2, <1>3 DEF Pin, Goto

\* The test for the end of the list decides how npinned moves.
LEMMA TestStep ==
  ASSUME WrapperInv, Test(Main)
  PROVE  WrapperInv'
<1> USE DEF WrapperInv
<1>0. Main \in Threads /\ pc[Main] = "test"
  BY PinAssumption DEF Threads, Main, Test
<1>1. UNCHANGED <<envPin, envSkip, creators, wrapper, made, mask, fate, placements, failures>>
  BY DEF Test
<1>2. pc' = [pc EXCEPT ![Main] = IF npinned = overflow THEN "reset" ELSE "advance"]
  BY DEF Test, Goto
<1>3. EnvInv' /\ ProcInv'
  <2>1. EnvInv'
    BY <1>1 DEF EnvInv, L
  <2> QED BY <1>0, <1>1, <1>2, <2>1 DEF ProcInv, wrapper, Created
<1>4. ListInv' /\ OrderInv'
  BY <1>0, <1>1, <1>2 DEF ListInv, OrderInv, ProcInv, wrapper, L, EntryFor, Used
<1>5. SkipInv'
  BY <1>0, <1>1, <1>2 DEF SkipInv, Born, ProcInv, wrapper, Created
<1> QED BY <1>3, <1>4, <1>5

\* npinned moves on in the list, or back to its start.
LEMMA AdvanceStep ==
  ASSUME WrapperInv, Advance(Main)
  PROVE  WrapperInv'
<1> USE DEF WrapperInv
<1>0. Main \in Threads /\ pc[Main] \in {"reset", "advance"}
  BY PinAssumption DEF Threads, Main, Advance
<1>1. UNCHANGED <<envPin, envSkip, creators, ncalled, overflow, ncpus, pin_ids, skipMask, made, mask, fate,
                  placements, failures>>
  BY DEF Advance
<1>2. pc' = [pc EXCEPT ![Main] = "count"] /\ npinned' = IF pc[Main] = "reset" THEN 0 ELSE npinned + 1
  BY DEF Advance, Goto
<1>3. EnvInv' /\ ProcInv'
  <2>1. EnvInv'
    BY <1>1 DEF EnvInv, L
  <2>2. npinned' \in Nat
    BY <1>2 DEF ProcInv
  <2> QED BY <1>0, <1>1, <1>2, <2>1, <2>2 DEF ProcInv, Created
<1>4. ListInv'
  BY <1>0, <1>1, <1>2 DEF ListInv, ProcInv, L
<1>5. OrderInv'
  <2> SUFFICES ASSUME ncpus = L PROVE OrderInv'
    BY <1>1 DEF OrderInv, L
  <2>1. placements > 0 /\ placements \in Nat /\ L \in Nat /\ npinned = (placements - 1) % (L + 1)
    BY <1>0 DEF OrderInv, Used, ProcInv, EnvInv
  <2> DEFINE a == placements - 1
             n == L + 1
  <2>2. a \in Nat /\ n \in Nat \ {0} /\ a + 1 = placements /\ n - 1 = L /\ npinned = a % n
    BY <2>1
  <2>3. pc[Main] = "reset" <=> npinned = L
    BY <1>0 DEF OrderInv
  <2> HIDE DEF a, n
  <2>4. (a + 1) % n = IF a % n = n - 1 THEN 0 ELSE (a % n) + 1
    BY <2>2, ModSucc
  <2>5. npinned' = placements % n
    BY <1>2, <2>2, <2>3, <2>4
  <2>6. pc'[Main] = "count"
    BY <1>0, <1>2 DEF ProcInv
  <2> QED BY <1>1, <2>5, <2>6 DEF OrderInv, L, EntryFor, Used, n
<1>6. SkipInv'
  BY <1>0, <1>1, <1>2 DEF SkipInv, Born, ProcInv, Created
<1> QED BY <1>3, <1>4, <1>5, <1>6

\* The call is counted.
LEMMA CountStep ==
  ASSUME WrapperInv, Count(Main)
  PROVE  WrapperInv'
<1> USE DEF WrapperInv
<1>0. Main \in Threads /\ pc[Main] = "count"
  BY PinAssumption DEF Threads, Main, Count
<1>1. UNCHANGED <<envPin, envSkip, creators, npinned, overflow, ncpus, pin_ids, skipMask, made, mask, fate,
                  placements, failures>>
  BY DEF Count
<1>2. pc' = [pc EXCEPT ![Main] = "out"] /\ ncalled' = ncalled + 1
  BY DEF Count, Goto
<1>3. EnvInv' /\ ProcInv'
  <2>1. EnvInv'
    BY <1>1 DEF EnvInv, L
  <2>2. ncalled' \in Nat
    BY <1>2 DEF ProcInv
  <2> QED BY <1>0, <1>1, <1>2, <2>1, <2>2 DEF ProcInv, Created
<1>4. ListInv' /\ OrderInv'
  BY <1>0, <1>1, <1>2 DEF ListInv, OrderInv, ProcInv, L, EntryFor, Used
<1>5. SkipInv'
  <2>1. Born' = Born
    BY <1>0, <1>1, <1>2 DEF Born, ProcInv, Created
  <2> QED BY <1>0, <1>1, <1>2, <2>1 DEF SkipInv, ProcInv, Created
<1> QED BY <1>3, <1>4, <1>5

\* Every step of the wrapper keeps its invariant.
LEMMA WrapperStep ==
  ASSUME WrapperInv, [WrapperNext]_pinVars
  PROVE  WrapperInv'
<1>1. CASE UNCHANGED pinVars
  BY <1>1 DEF pinVars, wrapper, WrapperInv, EnvInv, ProcInv, ListInv, OrderInv, SkipInv, L, Born, EntryFor
<1>2. CASE WrapperNext
  <2>1. PinStep(Main)
    BY <1>2, OnlyMain DEF WrapperNext, WrapperInv
  <2> QED BY <2>1, EnterStep, LoadStep, CreateStep, PlaceStep, TestStep, AdvanceStep, CountStep DEF PinStep
<1> QED BY <1>1, <1>2

\* The wrapper keeps its invariant.
THEOREM WrapperInvariant == WrapperSpec => []WrapperInv
<1>1. WrapperInit => WrapperInv
  <2> SUFFICES ASSUME WrapperInit PROVE WrapperInv
    OBVIOUS
  <2>1. PICK cpus \in SUBSET Nat : PinInit(cpus)
    BY DEF WrapperInit
  <2>2. Untouched
    BY <2>1 DEF PinInit, Untouched
  <2> QED BY <2>2, WrapperStart DEF WrapperInit, L
<1>2. WrapperInv /\ [WrapperNext]_pinVars => WrapperInv'
  BY WrapperStep
<1> QED BY <1>1, <1>2, PTL DEF WrapperSpec

\* What the invariant says of the threads.
LEMMA InvPlaced ==
  ASSUME WrapperInv
  PROVE  PlacedInOrder
<1>1. ASSUME ListRead
      PROVE  /\ mask[Main] = {envPin[ncpus]}
             /\ \A t \in Threads :
                    /\ fate[t] \in 0 .. ncpus - 1 => mask[t] = {envPin[fate[t] + 1]}
                    /\ fate[t] >= ncpus => mask[t] = {0} \/ \E i \in 1 .. ncpus : mask[t] = {envPin[i]}
  <2>1. ncpus = L /\ L \in Nat \ {0} /\ mask[Main] = {envPin[L]}
    BY <1>1, PinAssumption DEF ListRead, WrapperInv, EnvInv, OrderInv, L
  <2>2. ASSUME NEW t \in Threads, fate[t] >= 0 PROVE mask[t] = {EntryFor(fate[t])} /\ fate[t] \in Nat
    BY <2>1, <2>2 DEF WrapperInv, ProcInv, OrderInv, Inherited, Skipped
  <2>3. ASSUME NEW k \in Nat, k < L PROVE EntryFor(k) = envPin[k + 1]
    <3>1. k % (L + 1) = k
      BY <2>1, <2>3
    <3> QED BY <2>3, <3>1 DEF EntryFor, L
  <2>4. ASSUME NEW k \in Nat PROVE EntryFor(k) = 0 \/ \E i \in 1 .. L : EntryFor(k) = envPin[i]
    <3>1. k % (L + 1) \in Nat
      BY <2>1
    <3>2. CASE k % (L + 1) < L
      <4>1. (k % (L + 1)) + 1 \in 1 .. L
        BY <2>1, <3>1, <3>2
      <4> QED BY <3>2, <4>1 DEF EntryFor, L
    <3>3. CASE ~(k % (L + 1) < L)
      BY <3>3 DEF EntryFor, L
    <3> QED BY <3>2, <3>3
  <2> SUFFICES ASSUME NEW t \in Threads
               PROVE  /\ fate[t] \in 0 .. ncpus - 1 => mask[t] = {envPin[fate[t] + 1]}
                      /\ fate[t] >= ncpus => mask[t] = {0} \/ \E i \in 1 .. ncpus : mask[t] = {envPin[i]}
    BY <2>1
  <2>5. ASSUME fate[t] \in 0 .. ncpus - 1 PROVE mask[t] = {envPin[fate[t] + 1]}
    BY <2>1, <2>2, <2>3, <2>5
  <2>6. ASSUME fate[t] >= ncpus PROVE mask[t] = {0} \/ \E i \in 1 .. ncpus : mask[t] = {envPin[i]}
    <3>1. fate[t] >= 0
      <4>1. fate[t] \in Nat \cup {-1, -2}
        BY DEF WrapperInv, ProcInv, Inherited, Skipped
      <4> QED BY <2>1, <2>6, <4>1
    <3>2. mask[t] = {EntryFor(fate[t])} /\ (EntryFor(fate[t]) = 0 \/ \E i \in 1 .. L : EntryFor(fate[t]) = envPin[i])
      BY <2>2, <2>4, <3>1
    <3> QED BY <2>1, <3>2
  <2> QED BY <2>5, <2>6
<1>2. failures = 0 =>
          \A t \in Threads : fate[t] # Inherited => (fate[t] = Skipped <=> t - 1 \in envSkip /\ t <= 64)
  BY DEF WrapperInv, SkipInv
<1> QED BY <1>1, <1>2 DEF PlacedInOrder

\* Of the threads that the main thread of a process creates, as many as the list
\* has CPUs are placed in its order and the others on one of its CPUs or on CPU 0,
\* for every list that leaves an entry of pin_ids free, and if no call fails the
\* skip mask skips exactly the threads it names (pthread_create in
\* pthread-overload.c).
THEOREM ThreadsPlacedInOrder == WrapperSpec => []PlacedInOrder
<1>1. WrapperInv => PlacedInOrder
  BY InvPlaced
<1> QED BY <1>1, WrapperInvariant, PTL

-----------------------------------------------------------------------------
(* A program under likwid-pin *)

\* What likwid-pin has found out.
ToolInv ==
    /\ machine \in Machines /\ cpustr \in CpuStrings
    /\ stage \in {"start", "domains", "parsed", "refused", "running"}
    /\ stage = "domains" => topo = topology_init(machine) /\ doms = affinity_init(topo)
    /\ stage \in {"parsed", "running"} => /\ cpu_list \in Seq(Nat \cup {Garbage}) /\ cpu_list # <<>>
                                          /\ Len(cpu_list) < MAX_NUM_THREADS
    /\ stage = "running" => cpu_list \in Seq(Nat)

\* The wrapper runs on the list of likwid-pin, whose first CPU comes last, or
\* it is not loaded.
Wrapping == stage = "running" /\ Len(cpu_list) > 1
LoadedInv ==
    /\ creators = {Main}
    /\ Wrapping => WrapperInv /\ envPin = Append(Tail(cpu_list), Head(cpu_list))
    /\ ~Wrapping => ncpus = 0 /\ \A t \in Threads : fate[t] = Inherited
    /\ stage # "running" => Untouched

\* The list with its first CPU at the end.
LEMMA Rotated ==
  ASSUME NEW list \in Seq(Nat), Len(list) > 1, NEW r, r = Append(Tail(list), Head(list))
  PROVE  /\ r \in Seq(Nat) /\ Len(r) = Len(list) /\ r[Len(r)] = list[1]
         /\ \A k \in 0 .. Len(list) - 2 : r[k + 1] = list[k + 2]
  OBVIOUS

\* likwid-pin starts the program with the list it has read.
LEMMA StartStep ==
  ASSUME ToolInv, LoadedInv, startProgram
  PROVE  ToolInv' /\ LoadedInv'
<1>1. /\ stage = "parsed" /\ stage' = "running" /\ Garbage \notin Range(cpu_list)
      /\ mask' = [mask EXCEPT ![Main] = Range(cpu_list)]
      /\ UNCHANGED <<machine, cpustr, topo, doms, cpu_list, envSkip, creators, wrapper, pc, made, fate, placements, failures>>
      /\ envPin' = IF Len(cpu_list) > 1 THEN Append(Tail(cpu_list), Head(cpu_list)) ELSE <<>>
  BY DEF startProgram
<1>2. cpu_list \in Seq(Nat) /\ Len(cpu_list) < MAX_NUM_THREADS
  <2>1. cpu_list \in Seq(Nat \cup {Garbage}) /\ Len(cpu_list) < MAX_NUM_THREADS
    BY <1>1 DEF ToolInv
  <2>2. \A i \in 1 .. Len(cpu_list) : cpu_list[i] \in Nat
    BY <1>1, <2>1 DEF Range
  <2> QED BY <2>1, <2>2
<1>3. ToolInv'
  BY <1>1, <1>2 DEF ToolInv
<1>4. Untouched /\ creators = {Main}
  BY <1>1 DEF LoadedInv
<1>5. Untouched'
  BY <1>1, <1>4 DEF Untouched, wrapper
<1>6. Wrapping' => WrapperInv' /\ envPin' = Append(Tail(cpu_list), Head(cpu_list))
  <2> SUFFICES ASSUME Len(cpu_list) > 1
               PROVE  WrapperInv' /\ envPin' = Append(Tail(cpu_list), Head(cpu_list))
    BY <1>1 DEF Wrapping
  <2>1. envPin' \in Seq(Nat) /\ Len(envPin') = Len(cpu_list)
    BY <1>1, <1>2, Rotated
  <2>2. L' \in 1 .. MAX_NUM_THREADS - 1
    BY <1>2, <2>1, PinAssumption DEF L
  <2>3. WrapperInv'
    <3>1. (Untouched /\ envPin \in Seq(Nat) /\ L \in 1 .. MAX_NUM_THREADS - 1 /\ creators = {Main} => WrapperInv)'
      BY WrapperStart, PTL
    <3> QED BY <1>1, <1>4, <1>5, <2>1, <2>2, <3>1
  <2> QED BY <1>1, <2>3
<1> QED BY <1>1, <1>3, <1>4, <1>5, <1>6 DEF LoadedInv, Untouched

\* Every step of likwid-pin, and of the program under it, keeps the invariant.
LEMMA ToolStep ==
  ASSUME ListsFit, ToolInv, LoadedInv, [Next]_vars
  PROVE  ToolInv' /\ LoadedInv'
<1>1. CASE UNCHANGED vars
  <2>1. UNCHANGED pinVars /\ UNCHANGED <<machine, cpustr, topo, doms, cpu_list, stage>>
    BY <1>1 DEF vars, toolVars
  <2>2. WrapperInv => WrapperInv'
    BY <2>1, WrapperStep
  <2> QED BY <2>1, <2>2 DEF ToolInv, LoadedInv, Wrapping, Untouched, pinVars, wrapper
<1>2. CASE getAffinityInfo \/ ParseCpuString
  <2>1. UNCHANGED pinVars /\ stage # "running" /\ stage' # "running"
    BY <1>2 DEF getAffinityInfo, ParseCpuString
  <2>2. LoadedInv'
    BY <2>1 DEF LoadedInv, Wrapping, Untouched, pinVars, wrapper
  <2>3. CASE getAffinityInfo
    BY <2>2, <2>3 DEF getAffinityInfo, ToolInv
  <2>4. CASE ParseCpuString
    <3>1. cpu_list' \in Seq(Nat \cup {Garbage}) /\ Len(cpu_list') < MAX_NUM_THREADS
      BY <2>4 DEF ParseCpuString, ToolInv, ListsFit
    <3> QED BY <2>2, <2>4, <3>1 DEF ParseCpuString, ToolInv
  <2> QED BY <1>2, <2>3, <2>4
<1>3. CASE startProgram
  BY <1>3, StartStep
<1>4. ASSUME NEW t \in Threads, PlainCreate(t) PROVE ToolInv' /\ LoadedInv'
  <2>1. stage = "running" /\ Len(cpu_list) = 1 /\ UNCHANGED <<toolVars, creators, wrapper, fate>>
    BY <1>4 DEF PlainCreate
  <2>2. UNCHANGED <<machine, cpustr, topo, doms, cpu_list, stage, creators, ncpus, fate>>
    BY <2>1 DEF toolVars, wrapper
  <2>3. ~Wrapping /\ ~Wrapping'
    <3>1. ~(Len(cpu_list) > 1) /\ cpu_list' = cpu_list
      BY <2>1, <2>2
    <3> QED BY <3>1 DEF Wrapping
  <2>4. ToolInv'
    BY <2>2 DEF ToolInv
  <2> QED BY <2>1, <2>2, <2>3, <2>4 DEF LoadedInv
<1>5. ASSUME NEW t \in Threads, Wrapped(t) PROVE ToolInv' /\ LoadedInv'
  <2>1. Wrapping /\ UNCHANGED toolVars /\ WrapperNext
    BY <1>5 DEF Wrapped, Wrapping, WrapperNext
  <2>2. UNCHANGED <<envPin, creators>>
    BY <1>5 DEF Wrapped, PinStep, pthread_create, Load, Create, Pin, Test, Advance, Count
  <2>3. WrapperInv'
    BY <2>1, WrapperStep DEF LoadedInv
  <2> QED BY <2>1, <2>2, <2>3 DEF toolVars, ToolInv, LoadedInv, Wrapping
<1> QED BY <1>1, <1>2, <1>3, <1>4, <1>5 DEF Next

\* likwid-pin and the program keep the invariant if only main creates threads.
THEOREM PinToolInvariant ==
  ASSUME ListsFit, CreatorSets = {{Main}}
  PROVE  Spec => [](ToolInv /\ LoadedInv)
<1>1. Init => ToolInv /\ LoadedInv
  <2> SUFFICES ASSUME Init PROVE ToolInv /\ LoadedInv
    OBVIOUS
  <2>1. Untouched
    BY DEF Init, PinInit, Untouched
  <2> QED BY <2>1 DEF Init, ToolInv, LoadedInv, Wrapping, Untouched
<1>2. ToolInv /\ LoadedInv /\ [Next]_vars => ToolInv' /\ LoadedInv'
  BY ToolStep
<1> QED BY <1>1, <1>2, PTL DEF Spec

\* The program that likwid-pin starts has its main thread on the first CPU of
\* the list and the next threads that are not skipped on the next CPUs, which
\* rests on the rotation of the list (startProgram in likwid-pin.lua) and the
\* walk through it (pthread_create in pthread-overload.c) together.
THEOREM PinnedInListOrder ==
  ASSUME ListsFit, CreatorSets = {{Main}}
  PROVE  Spec => [](PinnedAsListed /\ PlacedInOrder)
<1>1. ASSUME ToolInv, LoadedInv PROVE PinnedAsListed /\ PlacedInOrder
  <2>1. CASE ~Wrapping
    BY <1>1, <2>1 DEF LoadedInv, PinnedAsListed, PlacedInOrder, ListRead
  <2>2. CASE Wrapping
    <3>1. WrapperInv /\ envPin = Append(Tail(cpu_list), Head(cpu_list))
      BY <1>1, <2>2 DEF LoadedInv
    <3>2. /\ Len(envPin) = Len(cpu_list) /\ envPin[Len(envPin)] = cpu_list[1]
          /\ \A k \in 0 .. Len(cpu_list) - 2 : envPin[k + 1] = cpu_list[k + 2]
      BY <1>1, <2>2, <3>1, Rotated DEF ToolInv, Wrapping
    <3>3. PlacedInOrder
      BY <3>1, InvPlaced
    <3>4. PinnedAsListed
      <4> SUFFICES ASSUME ncpus > 0, ncpus = Len(cpu_list) PROVE PinnedAsListed
        BY DEF PinnedAsListed
      <4>1. ListRead
        BY <3>2 DEF ListRead
      <4>2. mask[Main] = {cpu_list[1]}
        BY <3>2, <3>3, <4>1 DEF PlacedInOrder
      <4>3. ASSUME NEW t \in Threads, fate[t] \in 0 .. ncpus - 2 PROVE mask[t] = {cpu_list[fate[t] + 2]}
        <5>1. ncpus \in Nat /\ fate[t] \in 0 .. ncpus - 1
          BY <3>1, <4>3 DEF WrapperInv, ProcInv
        <5> QED BY <3>2, <3>3, <4>1, <4>3, <5>1 DEF PlacedInOrder
      <4> QED BY <4>2, <4>3 DEF PinnedAsListed
    <3> QED BY <3>3, <3>4
  <2> QED BY <2>1, <2>2
<1>2. Spec => [](ToolInv /\ LoadedInv)
  BY PinToolInvariant
<1> QED BY <1>1, <1>2, PTL
=============================================================================
