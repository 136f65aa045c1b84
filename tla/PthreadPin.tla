------------------------------ MODULE PthreadPin ------------------------------
(***************************************************************************)
(* The pthread wrapper (pthread-overload.c): a pthread_create that is      *)
(* loaded before the real one, creates the thread with the real one and    *)
(* pins it to the next CPU of the list in the environment variable         *)
(* LIKWID_PIN.  Its state are static variables without any lock, although  *)
(* every thread may create threads; each statement that reads or writes    *)
(* them is a step.                                                         *)
(***************************************************************************)
EXTENDS Integers, Sequences

CONSTANTS
    MaxThreads,     \* bound: threads 1 .. MaxThreads may be created; 0 is the main thread
    MaxFailures,    \* bound: failing calls of dlopen, dlsym or the real pthread_create
    MAX_NUM_THREADS \* entries of pin_ids

ASSUME PinAssumption ==
    /\ MaxThreads \in Nat /\ MaxFailures \in Nat /\ MAX_NUM_THREADS \in Nat \ {0}

VARIABLES
    envPin,     \* LIKWID_PIN, a sequence of CPUs; empty if not set
    envSkip,    \* bits of LIKWID_SKIP; if that is not set, bit 0 for a program with
                \* the Intel OpenMP runtime and none for any other
    creators,   \* environment: the threads that create threads
    npinned, ncalled, overflow, ncpus, pin_ids, skipMask,
    pc,         \* where each thread is in pthread_create; "none" before it exists
    made,       \* *thread of each caller
    mask,       \* the CPUs each thread may run on
    fate,       \* history: Inherited, Skipped or the number of the placement
    placements, \* history: the number of threads pinned
    failures

wrapper == <<npinned, ncalled, overflow, ncpus, pin_ids, skipMask>>
pinVars == <<envPin, envSkip, creators, wrapper, pc, made, mask, fate, placements, failures>>

Threads == 0 .. MaxThreads
Main == 0
Inherited == -1
Skipped == -2
Ids == 0 .. MAX_NUM_THREADS - 1
Unborn == {t \in Threads : pc[t] = "none"}

\* The process as exec leaves it, with the CPUs its parent has pinned it to
PinInit(cpus) ==
    /\ npinned = 0 /\ ncalled = 0 /\ overflow = 0 /\ ncpus = 0 /\ skipMask = {}
    /\ pin_ids = [i \in Ids |-> 0]
    /\ pc = [t \in Threads |-> IF t = Main THEN "out" ELSE "none"]
    /\ made = [t \in Threads |-> Main]
    /\ mask = [t \in Threads |-> cpus]
    /\ fate = [t \in Threads |-> Inherited] /\ placements = 0 /\ failures = 0

\* First entry: every caller that finds ncalled at 0 reads the list, adds its
\* length to ncpus and pins the main thread to the last CPU it then sees.
FirstEntry ==
    /\ skipMask' = envSkip
    /\ pin_ids' = [i \in Ids |-> IF i < Len(envPin) THEN envPin[i + 1] ELSE pin_ids[i]]
    /\ ncpus' = ncpus + Len(envPin) /\ overflow' = ncpus'
    /\ mask' = IF envPin = <<>> THEN mask ELSE [mask EXCEPT ![Main] = {pin_ids'[ncpus' - 1]}]

Goto(t, label) == pc' = [pc EXCEPT ![t] = label]

pthread_create(t) ==
    /\ t \in creators /\ pc[t] = "out" /\ Unborn # {}
    /\ Goto(t, "load")
    /\ IF ncalled = 0 THEN FirstEntry
       ELSE UNCHANGED <<skipMask, pin_ids, ncpus, overflow, mask>>
    /\ UNCHANGED <<envPin, envSkip, creators, npinned, ncalled, made, fate, placements, failures>>

\* dlopen and dlsym; a failure returns before the call is counted
Load(t) ==
    /\ pc[t] = "load"
    /\ \/ Goto(t, "create") /\ UNCHANGED failures
       \/ failures < MaxFailures /\ failures' = failures + 1 /\ Goto(t, "out")
    /\ UNCHANGED <<envPin, envSkip, creators, wrapper, made, mask, fate, placements>>

\* The real pthread_create: the new thread runs at once, with its creator's CPUs
Create(t) ==
    /\ pc[t] = "create"
    /\ \/ /\ Unborn # {}
          /\ LET u == CHOOSE v \in Unborn : \A w \in Unborn : v <= w
             IN /\ pc' = [pc EXCEPT ![t] = "pin", ![u] = "out"]
                /\ made' = [made EXCEPT ![t] = u]
                /\ mask' = [mask EXCEPT ![u] = mask[t]]
          /\ UNCHANGED failures
       \/ /\ failures < MaxFailures \/ Unborn = {}
          /\ failures' = IF failures < MaxFailures THEN failures + 1 ELSE failures
          /\ Goto(t, "count") /\ UNCHANGED <<made, mask>>
    /\ UNCHANGED <<envPin, envSkip, creators, wrapper, fate, placements>>

\* variant: the entry is that of the call, not of the last thread that was pinned
PinByCall(t) ==
    /\ pc[t] = "pin"
    /\ IF ncalled < 64 /\ ncalled \in skipMask
       THEN /\ fate' = [fate EXCEPT ![made[t]] = Skipped]
            /\ Goto(t, "count") /\ UNCHANGED <<mask, placements>>
       ELSE /\ mask' = [mask EXCEPT ![made[t]] = {pin_ids[ncalled]}]
            /\ fate' = [fate EXCEPT ![made[t]] = placements] /\ placements' = placements + 1
            /\ Goto(t, "test")
    /\ UNCHANGED <<envPin, envSkip, creators, wrapper, made, failures>>
Pin(t) ==
    /\ pc[t] = "pin"
    /\ IF ncalled < 64 /\ ncalled \in skipMask
       THEN /\ fate' = [fate EXCEPT ![made[t]] = Skipped]
            /\ Goto(t, "count") /\ UNCHANGED <<mask, placements>>
       ELSE /\ mask' = [mask EXCEPT ![made[t]] = {pin_ids[npinned]}]
            /\ fate' = [fate EXCEPT ![made[t]] = placements] /\ placements' = placements + 1
            /\ Goto(t, "test")
    /\ UNCHANGED <<envPin, envSkip, creators, wrapper, made, failures>>

Test(t) ==
    /\ pc[t] = "test"
    /\ Goto(t, IF npinned = overflow THEN "reset" ELSE "advance")
    /\ UNCHANGED <<envPin, envSkip, creators, wrapper, made, mask, fate, placements, failures>>

Advance(t) ==
    /\ pc[t] \in {"reset", "advance"}
    /\ npinned' = IF pc[t] = "reset" THEN 0 ELSE npinned + 1
    /\ Goto(t, "count")
    /\ UNCHANGED <<envPin, envSkip, creators, ncalled, overflow, ncpus, pin_ids, skipMask, made, mask, fate, placements, failures>>

Count(t) ==
    /\ pc[t] = "count"
    /\ ncalled' = ncalled + 1
    /\ Goto(t, "out")
    /\ UNCHANGED <<envPin, envSkip, creators, npinned, overflow, ncpus, pin_ids, skipMask, made, mask, fate, placements, failures>>

PinStep(t) ==
    pthread_create(t) \/ Load(t) \/ Create(t) \/ Pin(t) \/ Test(t) \/ Advance(t) \/ Count(t)
WrapperNext == \E t \in Threads : PinStep(t)

\* The wrapper in a process that is started with any list and any skip mask,
\* whose main thread creates all threads
WrapperInit ==
    /\ envPin \in Seq(Nat) /\ Len(envPin) \in 1 .. MAX_NUM_THREADS - 1
    /\ envSkip \in SUBSET Nat /\ creators = {Main}
    /\ \E cpus \in SUBSET Nat : PinInit(cpus)
WrapperSpec == WrapperInit /\ [][WrapperNext]_pinVars

-----------------------------------------------------------------------------
ListRead == ncpus = Len(envPin) /\ ncpus > 0     \* once

\* The threads follow the list, as the manual says (likwid-pin.1:153): the main
\* thread is on its last CPU, which likwid-pin has moved there, and as many
\* threads as it has CPUs, not counting those that are skipped, are on the
\* first, the second and so on.  Threads beyond these are nowhere but on CPUs of
\* the list and on CPU 0.  If no call fails, exactly the threads whose bit is in
\* the skip mask are skipped (pthread_create).
PlacedInOrder ==
    /\ ListRead =>
           /\ mask[Main] = {envPin[ncpus]}
           /\ \A t \in Threads :
                  /\ fate[t] \in 0 .. ncpus - 1 => mask[t] = {envPin[fate[t] + 1]}
                  /\ fate[t] >= ncpus => mask[t] = {0} \/ \E i \in 1 .. ncpus : mask[t] = {envPin[i]}
    /\ failures = 0 =>
           \A t \in Threads : fate[t] # Inherited => (fate[t] = Skipped <=> t - 1 \in envSkip /\ t <= 64)

\* Of the threads beyond the list the manual says that they "are pinned to
\* processor 0 as fallback" (likwid-pin.1:155).  pthread_create does so with
\* one of them and then starts the list again: TLC refutes this in MCPin.cfg.
SurplusOnProcessor0 == ListRead => \A t \in Threads : fate[t] >= ncpus => mask[t] = {0}
=============================================================================
