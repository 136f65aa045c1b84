------------------------------- MODULE Bench -------------------------------
(***************************************************************************)
(* A run of likwid-bench: main parses the workgroups, allocates and places *)
(* their vectors, splits the threads into groups and copies the group's    *)
(* data to every thread, finds an iteration count, creates the threads     *)
(* (threads_create), and joins them (threads_join).  Each thread executes  *)
(* runTest: it takes its piece of the vectors, pins itself, passes a       *)
(* barrier, and executes the macro EXECUTE: barrier, timer and marker      *)
(* start, kernel, barrier, marker and timer stop, barrier.  The barrier is *)
(* module Barrier.                                                         *)
(*                                                                         *)
(* A parsed workgroup is a record: the CPU list that cpustr_to_cpulist     *)
(* wrote, the length in elements, the offset of its streams, and the first *)
(* CPU of the domain the streams are placed in.  Lengths and offsets count *)
(* elements, so the element type has no part in them.                      *)
(***************************************************************************)
EXTENDS Barrier, FiniteSets, Sequences

CONSTANTS
    Arguments,      \* possible command lines: sequences of workgroups
    Stride,         \* test->stride and test->streams, properties of the
    Streams,        \* chosen kernel
    Measured,       \* iteration counts the measurement of getIterSingle may end with
    DemandIter,     \* possible values of option -i, 0 if it is not given
    IntWidth,       \* bits of an int
    AnyCpu          \* the affinity of a process nobody has pinned

\* threads.h
MIN_ITERATIONS == 10

\* What main's comment says of the workgroups: all have as many threads.
EqualGroups(ws) ==
    \A g \in DOMAIN ws : Len(ws[g].cpus) * Len(ws) = NumThreads

\* At least one -w is demanded; the kernels are generated with positive strides.
Workgroups == [cpus : Seq(Nat), size : Nat, offset : Nat, home : Nat]
ASSUME ArgumentsAssumption ==
    \A ws \in Arguments : ws \in Seq(Workgroups) /\ ws # <<>> /\ EqualGroups(ws)
ASSUME KernelAssumption == {Stride, Streams} \subseteq Nat \ {0}
ASSUME IterationsAssumption == Measured \cup DemandIter \subseteq Nat

VARIABLES
    arg,        \* the command line
    groups,     \* workgroups parsed and allocated so far
    demandIter, \* option -i
    mainStage,  \* "parse" | "prepare" | "iterations" | "run" | "exit"
    data,       \* threads_data
    cpu,        \* affinity of every thread and of main
    stage,      \* statement of runTest each thread has reached
    created,    \* number of threads main has created
    joined      \* number of threads main has joined

benchVars == <<arg, groups, demandIter, mainStage, data, cpu, stage, created, joined>>
vars == <<barrierVars, benchVars>>

Main == NumThreads

\* The statements of runTest: 1 register and vector piece, 2 pin, 3 and 4
\* barrier, 5 start timer and marker, 6 kernel, 7 barrier, 8 stop marker and
\* timer, 9 barrier, 10 end.
Barriers == {3, 4, 7, 9}
KernelStage == 6
EndStage == 10
NotCreated == 0

\* threads_init: every thread by itself until the groups are made
threads_init ==
    [t \in Threads |-> [threadId |-> t, groupId |-> 0, numberOfThreads |-> NumThreads,
                        processors |-> <<>>, size |-> 0, stream |-> 0, iter |-> 0]]

Init ==
    /\ BarrierInit
    /\ arg \in Arguments
    /\ groups = <<>>
    /\ demandIter \in DemandIter
    /\ mainStage = "parse"
    /\ data = threads_init
    /\ cpu = [t \in Threads \cup {Main} |-> AnyCpu]
    /\ stage = [t \in Threads |-> NotCreated]
    /\ created = 0
    /\ joined = 0

\* parse_workgroup refuses an argument without a readable length; the length
\* covers all streams, and each gets an equal part of it.
Readable(w) == w.size > 0
bstr_to_workgroup(w) == [w EXCEPT !.size = @ \div Streams]

\* allocator_allocateVector pins the process to the first CPU of the stream's
\* domain, then touches the vector
allocator_allocateVector(w) == cpu' = [cpu EXCEPT ![Main] = w.home]

\* One -w option: parse it, refuse a stream offset that is no multiple of the
\* stride, allocate the vectors.
ParseWorkgroup ==
    /\ mainStage = "parse"
    /\ Len(groups) < Len(arg)
    /\ LET w == arg[Len(groups) + 1]
       IN IF Readable(w) /\ w.offset % Stride = 0
          THEN /\ groups' = Append(groups, bstr_to_workgroup(w))
               /\ allocator_allocateVector(w)
               /\ UNCHANGED mainStage
          ELSE mainStage' = "exit" /\ UNCHANGED <<groups, cpu>>
    /\ UNCHANGED <<barrierVars, arg, demandIter, data, stage, created, joined>>

\* threads_createGroups, the threads of each group numbered from 0
numThreadsPerGroup == NumThreads \div Len(groups)
threads_createGroups(d) ==
    [t \in Threads |-> [d[t] EXCEPT !.threadId = t % numThreadsPerGroup,
                                    !.groupId = t \div numThreadsPerGroup,
                                    !.numberOfThreads = numThreadsPerGroup]]

\* Every thread gets its own copy of its group's CPUs and pointers.
copyThreadData(d, w) ==
    [d EXCEPT !.processors = w.cpus, !.size = w.size, !.stream = w.offset,
              !.iter = demandIter]
threads_registerDataGroup(d) ==
    [t \in Threads |-> copyThreadData(d[t], groups[d[t].groupId + 1])]

PrepareThreads ==
    /\ mainStage = "parse"
    /\ Len(groups) = Len(arg)
    /\ data' = threads_registerDataGroup(threads_createGroups(data))
    /\ mainStage' = IF demandIter = 0 THEN "iterations" ELSE "run"
    /\ UNCHANGED <<barrierVars, arg, groups, demandIter, cpu, stage, created, joined>>

\* threads_updateIterations for every group, from what thread 0 measured
threads_updateIterations(d, iterations) ==
    [t \in Threads |-> [d[t] EXCEPT !.iter =
        IF iterations < MIN_ITERATIONS THEN MIN_ITERATIONS ELSE iterations]]

\* Main runs the kernel of thread 0 itself, on thread 0's CPU, until it takes
\* long enough.
getIterSingle ==
    /\ mainStage = "iterations"
    /\ cpu' = [cpu EXCEPT ![Main] = data[0].processors[data[0].threadId + 1]]
    /\ \E iterations \in Measured : data' = threads_updateIterations(data, iterations)
    /\ mainStage' = "run"
    /\ UNCHANGED <<barrierVars, arg, groups, demandIter, stage, created, joined>>

\* threads_create: pthread_create in order of the thread id; a new thread
\* inherits the affinity of main
threads_create ==
    /\ mainStage = "run"
    /\ created < NumThreads
    /\ stage' = [stage EXCEPT ![created] = 1]
    /\ cpu' = [cpu EXCEPT ![created] = cpu[Main]]
    /\ created' = created + 1
    /\ UNCHANGED <<barrierVars, arg, groups, demandIter, mainStage, data, joined>>

Advance(t) == stage' = [stage EXCEPT ![t] = @ + 1]
mainVars == <<arg, groups, demandIter, mainStage, created, joined>>

\* conversion of a size_t to an int
ToInt(x) == ((x + 2^(IntWidth - 1)) % 2^IntWidth) - 2^(IntWidth - 1)

\* The piece of the vectors a thread works on: its share of the elements,
\* rounded down to the stride, from the offset (an int) of the thread on.
Piece(d) ==
    LET share == d.size \div d.numberOfThreads
        size == share - (share % Stride)
    IN [d EXCEPT !.size = size, !.stream = @ + ToInt(d.threadId * size)]

RunRegister(t) ==
    /\ stage[t] = 1
    /\ barrier_registerThread(t)
    /\ data' = [data EXCEPT ![t] = Piece(@)]
    /\ Advance(t)
    /\ UNCHANGED <<mainVars, cpu>>

RunPin(t) ==
    /\ stage[t] = 2
    /\ cpu' = [cpu EXCEPT ![t] = data[t].processors[data[t].threadId + 1]]
    /\ Advance(t)
    /\ UNCHANGED <<barrierVars, mainVars, data>>

\* timer_start + LIKWID_MARKER_START, the kernel, LIKWID_MARKER_STOP + timer_stop
RunLocal(t) ==
    /\ stage[t] \in {5, KernelStage, 8}
    /\ Advance(t)
    /\ UNCHANGED <<barrierVars, mainVars, data, cpu>>

RunBarrier(t) ==
    /\ stage[t] \in Barriers
    /\ BarrierStep(t)
    /\ IF left'[t] > left[t] THEN Advance(t) ELSE UNCHANGED stage
    /\ UNCHANGED <<mainVars, data, cpu>>

\* threads_join: main waits for the threads in the order of their ids
threads_join ==
    /\ created = NumThreads
    /\ joined < NumThreads
    /\ stage[joined] = EndStage
    /\ joined' = joined + 1
    /\ mainStage' = IF joined' = NumThreads THEN "exit" ELSE mainStage
    /\ UNCHANGED <<barrierVars, arg, groups, demandIter, data, cpu, stage, created>>

runTest(t) == RunRegister(t) \/ RunPin(t) \/ RunLocal(t) \/ RunBarrier(t)
main == ParseWorkgroup \/ PrepareThreads \/ getIterSingle \/ threads_create \/ threads_join

Done == mainStage = "exit" /\ UNCHANGED vars

Next == main \/ (\E t \in Threads : runTest(t)) \/ Done

Fairness == WF_vars(main) /\ \A t \in Threads : WF_vars(runTest(t))

Spec == Init /\ [][Next]_vars /\ Fairness

-----------------------------------------------------------------------------
\* The elements of its workgroup's vector that thread t works on.
Elements(t) == data[t].stream .. data[t].stream + data[t].size - 1

\* The places of the command line's CPU lists that name CPU c.
Named(c) == {p \in (1 .. Len(arg)) \X (1 .. NumThreads) :
               p[2] <= Len(arg[p[1]].cpus) /\ arg[p[1]].cpus[p[2]] = c}

\* No thread executes the kernel before every thread of every workgroup is
\* ready for it: each CPU is used by as many threads as the workgroups name it,
\* the pieces of one vector lie inside it and do not overlap, and all threads
\* make the same number of iterations, which is what the printed rates assume
\* (threads_createGroups, copyThreadData and runTest with its first barriers).
KernelOnPreparedThreads ==
    (\E t \in Threads : stage[t] = KernelStage) =>
        /\ \A c \in {cpu[t] : t \in Threads} :
             Cardinality({t \in Threads : cpu[t] = c}) = Cardinality(Named(c))
        /\ \A t \in Threads : LET w == groups[data[t].groupId + 1]
                              IN Elements(t) \subseteq w.offset .. w.offset + w.size - 1
        /\ \A t, u \in Threads : t # u /\ data[t].groupId = data[u].groupId
                                   => Elements(t) \cap Elements(u) = {}
        /\ \A t \in Threads : data[t].iter = data[0].iter

\* The measured interval of each thread covers the kernel of every thread:
\* nobody stops its timer and marker while another is still before the end of
\* its kernel (third barrier of runTest, the one inside EXECUTE).
StopCoversAllKernels ==
    \A t, u \in Threads : stage[t] >= 8 => stage[u] > KernelStage

\* likwid-bench ends: it refuses the command line, or main joins every thread
\* it has created.
BenchTerminates == <>(mainStage = "exit")

=============================================================================
