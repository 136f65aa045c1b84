------------------------------ MODULE Perfmon ------------------------------
(***************************************************************************)
(* The perfmon module of the library (perfmon.c): event groups that are    *)
(* added, set up on all measured CPUs, started, read, stopped, switched    *)
(* and evaluated.  One thread of the application calls it; between its     *)
(* calls time passes and events happen on the CPUs.                        *)
(*                                                                         *)
(* The functions of perfmon.c that others of it call are operators on the  *)
(* library state [gs, cpu] and are composed as the code composes them.     *)
(***************************************************************************)
EXTENDS Skylake

CONSTANTS
    NumThreads,     \* measured CPUs; thread i measures one CPU
    NodeOf,         \* processor package of the CPU of each thread
    EventSets,      \* the event strings of the application, parsed
    MaxGroups,      \* bound: event groups
    MaxEvents,      \* bound: events that happen
    MaxTime,        \* bound: the clock
    MaxRunTime,     \* bound: accumulated runTime
    MaySwitch,      \* the application uses perfmon_switchActiveGroup
    Restarts,       \* the application starts again without setting up
    SetupAnytime,   \* the application sets up a group while another runs
    ReadsIdle       \* the application reads a CPU whose group does not run

Threads == 0 .. NumThreads - 1
Groups == 0 .. MaxGroups - 1

ASSUME ThreadsAssumption == NumThreads \in Nat \ {0} /\ NodeOf \in [Threads -> Nat]
ASSUME PerfmonBoundsAssumption == {MaxGroups, MaxEvents, MaxTime, MaxRunTime} \subseteq Nat
ASSUME AppAssumption == {MaySwitch, Restarts, SetupAnytime, ReadsIdle} \subseteq BOOLEAN
\* an energy counter counts one event only
ASSUME EventSetsAssumption ==
    \A es \in EventSets : /\ es \in [DOMAIN es -> Flags] /\ DOMAIN es \subseteq Counters
                          /\ \A c \in DOMAIN es \cap Power : es[c] = Joule

VARIABLES
    perfmon_initialized,
    groupSet,       \* the PerfmonGroupSet
    cpu,            \* the CPU of each thread
    now,            \* time stamp counter
    happened        \* number of events so far

vars == <<perfmon_initialized, groupSet, cpu, now, happened>>

\* socket_lock: the first thread of a package acquires it in perfmon_init
HaveLock(t) == \A u \in Threads : NodeOf[u] = NodeOf[t] => t <= u

NewCounter == [init |-> FALSE, startData |-> 0, counterData |-> 0, fullData |-> 0, overflows |-> 0]
\* A group: truth and ran are history, the events that happened and the time
\* that passed while the group was running since its last start (truth) and
\* altogether (ran); measured says that the group was stopped since it was last
\* set up or started.  The timer is not initialised: garbage is what it holds.
NewGroup(es, garbage) ==
    [state |-> "NONE", events |-> es, runTime |-> 0, rdtscTime |-> 0,
     timer |-> [start |-> garbage, stop |-> 0],
     counters |-> [t \in Threads |-> [c \in DOMAIN es |-> NewCounter]],
     truth |-> [t \in Threads |-> [c \in DOMAIN es |-> 0]], ran |-> 0, measured |-> FALSE]

NoGroups == [numberOfGroups |-> 0, numberOfActiveGroups |-> 0, activeGroup |-> -1, groups |-> <<>>]

Init ==
    /\ perfmon_initialized = FALSE
    /\ groupSet = NoGroups
    /\ cpu = [t \in Threads |-> IdleCpu]
    /\ now = 0
    /\ happened = 0

\* the library state: gs is the group set, cpu the CPUs
Now == [gs |-> groupSet, cpu |-> cpu]
Becomes(x) == groupSet' = x.gs /\ cpu' = x.cpu
Group(x, g) == x.gs.groups[g]
WithGroup(gs, g, grp) == [gs EXCEPT !.groups = [gs.groups EXCEPT ![g] = grp]]

timer_print(timer) == IF timer.stop <= timer.start THEN 0 ELSE timer.stop - timer.start

-----------------------------------------------------------------------------
(* Results *)

\* calculateResult in unsigned arithmetic; it uses up an overflow
Word == CoreSize * PowerSize
calculateResult(c, ctr) ==
    IF ctr.overflows = 0 THEN (ctr.counterData - ctr.startData) % Word
    ELSE (perfmon_getMaxCounterValue(c) - ctr.startData) + ctr.counterData
         + (ctr.overflows - 1) * perfmon_getMaxCounterValue(c)
Evaluated(ctr) == [ctr EXCEPT !.overflows = IF @ > 0 THEN @ - 1 ELSE @]

\* perfmon_getResult: what is returned, and the counter afterwards
ResultOf(c, ctr) == IF ctr.fullData = 0 THEN calculateResult(c, ctr) ELSE ctr.fullData
AfterResult(ctr) == IF ctr.fullData = 0 THEN Evaluated(ctr) ELSE ctr

-----------------------------------------------------------------------------
(* Setup, start, stop, read and switch on the library state *)

SetupGroup(grp) ==
    [grp EXCEPT !.counters = [t \in Threads |-> [c \in DOMAIN grp.events |->
                                 [grp.counters[t][c] EXCEPT !.init = TRUE]]],
                !.state = "SETUP",
                !.measured = FALSE]
Setup(x, g) ==
    [gs  |-> [WithGroup(x.gs, g, SetupGroup(Group(x, g))) EXCEPT !.activeGroup = g],
     cpu |-> [t \in Threads |-> perfmon_setupCounterThread(x.cpu[t], Group(x, g).events)]]

StartGroup(grp, cpus) ==
    [grp EXCEPT !.counters = [t \in Threads |-> [c \in DOMAIN grp.events |->
                                 StartedCounter(cpus[t], c, grp.counters[t][c], HaveLock(t))]],
                !.truth = [t \in Threads |-> [c \in DOMAIN grp.events |-> 0]],
                !.timer = [grp.timer EXCEPT !.start = now],
                !.state = "START",
                !.measured = FALSE]
Start(x, g) ==
    [gs  |-> WithGroup(x.gs, g, StartGroup(Group(x, g), x.cpu)),
     cpu |-> [t \in Threads |-> perfmon_startCountersThread(x.cpu[t], Group(x, g).events, Group(x, g).counters[t])]]

\* variant: the last interval replaces the sum
StopTimerLast(grp) ==
    LET timer == [grp.timer EXCEPT !.stop = now]
    IN [grp EXCEPT !.timer = timer, !.rdtscTime = timer_print(timer), !.runTime = timer_print(timer)]

StopTimer(grp) ==
    LET timer == [grp.timer EXCEPT !.stop = now]
    IN [grp EXCEPT !.timer = timer, !.rdtscTime = timer_print(timer), !.runTime = @ + timer_print(timer)]

\* __perfmon_stopCounters, with the aggregation of the results
Aggregated(c, ctr) == [Evaluated(ctr) EXCEPT !.fullData = @ + calculateResult(c, ctr)]
StopGroup(grp, cpus) ==
    [StopTimer(grp) EXCEPT
        !.counters = [t \in Threads |-> [c \in DOMAIN grp.events |->
            Aggregated(c, StoppedCounter(cpus[t], c, grp.counters[t][c], HaveLock(t)))]],
        !.state = "SETUP",
        !.measured = TRUE]
Stop(x, g) ==
    [gs  |-> WithGroup(x.gs, g, StopGroup(Group(x, g), x.cpu)),
     cpu |-> [t \in Threads |-> perfmon_stopCountersThread(x.cpu[t], Group(x, g).events, Group(x, g).counters[t])]]

ReadGroup(grp, cpus, ts) ==
    [grp EXCEPT !.counters = [t \in Threads |-> [c \in DOMAIN grp.events |->
        IF t \in ts THEN SampledCounter(cpus[t], c, grp.counters[t][c], HaveLock(t)) ELSE grp.counters[t][c]]]]
Read(x, g, ts) ==
    [gs  |-> WithGroup(x.gs, g, ReadGroup(Group(x, g), x.cpu, ts)),
     cpu |-> [t \in Threads |->
                IF t \in ts THEN perfmon_readCountersThread(x.cpu[t], Group(x, g).events, Group(x, g).counters[t])
                ELSE x.cpu[t]]]

\* the counters of one thread are marked as not set up
ClearedGroup(grp, t) ==
    [grp EXCEPT !.counters = [u \in Threads |-> [c \in DOMAIN grp.events |->
        IF u = t THEN [grp.counters[u][c] EXCEPT !.init = FALSE] ELSE grp.counters[u][c]]]]

\* __perfmon_switchActiveGroupThread: stops and sets up all threads each time
LeaveGroup(x, t) ==
    LET old == x.gs.activeGroup
        state == Group(x, old).state
        timed == [gs |-> WithGroup(x.gs, old, StopTimer(Group(x, old))), cpu |-> x.cpu]
        stopped == IF state = "START" THEN Stop(timed, old) ELSE timed
    IN IF state = "SETUP"
       THEN [gs |-> WithGroup(stopped.gs, old, ClearedGroup(Group(stopped, old), t)), cpu |-> stopped.cpu]
       ELSE stopped
SwitchThread(x, t, g) ==
    LET set == Setup(LeaveGroup(x, t), g)
    IN IF Group(x, x.gs.activeGroup).state = "START" THEN Start(set, g) ELSE set

\* one turn of the loop per thread
Switch(x, g) ==
    LET turn[i \in 0 .. NumThreads] == IF i = 0 THEN x ELSE SwitchThread(turn[i - 1], i - 1, g)
    IN turn[NumThreads]

-----------------------------------------------------------------------------
(* The calls of the application *)

perfmon_init ==
    /\ ~perfmon_initialized
    /\ perfmon_initialized' = TRUE
    /\ groupSet' = NoGroups
    /\ UNCHANGED <<cpu, now, happened>>

\* variant: the first group becomes the active one at once, even if refused
AddEventSetActive(es, garbage) ==
    LET n == groupSet.numberOfActiveGroups
    IN
    /\ perfmon_initialized
    /\ n < MaxGroups
    /\ groupSet' =
         IF DOMAIN es = {}
         THEN [groupSet EXCEPT !.numberOfGroups = n + 1, !.activeGroup = IF n = 0 THEN 0 ELSE @]
         ELSE [groupSet EXCEPT
                 !.numberOfGroups = n + 1, !.numberOfActiveGroups = n + 1,
                 !.activeGroup = IF n = 0 THEN 0 ELSE @,
                 !.groups = [g \in 0 .. n |-> IF g < n THEN groupSet.groups[g] ELSE NewGroup(es, garbage)]]
    /\ UNCHANGED <<perfmon_initialized, cpu, now, happened>>

\* An event string without a usable event is refused, but the slot allocated
\* for it stays.
perfmon_addEventSet(es, garbage) ==
    LET n == groupSet.numberOfActiveGroups
        slots == IF n = 0 THEN 1 ELSE IF n = groupSet.numberOfGroups THEN n + 1 ELSE groupSet.numberOfGroups
    IN
    /\ perfmon_initialized
    /\ n < MaxGroups
    /\ groupSet' =
         IF DOMAIN es = {}
         THEN [groupSet EXCEPT !.numberOfGroups = slots, !.activeGroup = IF n = 0 THEN -1 ELSE @]
         ELSE [groupSet EXCEPT
                 !.numberOfGroups = slots, !.numberOfActiveGroups = n + 1,
                 !.activeGroup = IF n = 0 THEN -1 ELSE @,
                 !.groups = [g \in 0 .. n |-> IF g < n THEN groupSet.groups[g] ELSE NewGroup(es, garbage)]]
    /\ UNCHANGED <<perfmon_initialized, cpu, now, happened>>

Running(g) == groupSet.groups[g].state = "START"

perfmon_setupCounters(g) ==
    /\ perfmon_initialized
    /\ g < groupSet.numberOfActiveGroups
    /\ SetupAnytime \/ \A h \in 0 .. groupSet.numberOfActiveGroups - 1 : ~Running(h)
    /\ Becomes(Setup(Now, g))
    /\ UNCHANGED <<perfmon_initialized, now, happened>>

Active == groupSet.activeGroup
\* every counter of the group has been set up since it was last stopped
Prepared(g) == \A t \in Threads : \A c \in DOMAIN groupSet.groups[g].events :
                   groupSet.groups[g].counters[t][c].init

\* also perfmon_startGroupCounters, which accepts only invalid group ids and
\* starts the active group then
perfmon_startCounters ==
    /\ perfmon_initialized
    /\ Active >= 0
    /\ groupSet.groups[Active].state = "SETUP"
    /\ Restarts \/ Prepared(Active)
    /\ Becomes(Start(Now, Active))
    /\ UNCHANGED <<perfmon_initialized, now, happened>>

\* also perfmon_stopGroupCounters, in the same way
perfmon_stopCounters ==
    /\ perfmon_initialized
    /\ Active >= 0
    /\ Running(Active)
    /\ Becomes(Stop(Now, Active))
    /\ UNCHANGED <<perfmon_initialized, now, happened>>

\* perfmon_readCounters, perfmon_readGroupCounters and
\* perfmon_readGroupThreadCounters: all threads or one of a running group
perfmon_readCounters(g, ts) ==
    /\ perfmon_initialized
    /\ g < groupSet.numberOfActiveGroups
    /\ Running(g)
    /\ Becomes(Read(Now, g, ts))
    /\ UNCHANGED <<perfmon_initialized, now, happened>>

\* one thread of the active group, whatever its state
perfmon_readCountersCpu(t) ==
    /\ perfmon_initialized
    /\ Active >= 0
    /\ ReadsIdle \/ Running(Active)
    /\ Becomes(Read(Now, Active, {t}))
    /\ UNCHANGED <<perfmon_initialized, now, happened>>

EvaluatedGroup(grp, t, c) ==
    [grp EXCEPT !.counters = [grp.counters EXCEPT ![t] = [grp.counters[t] EXCEPT ![c] = AfterResult(grp.counters[t][c])]]]
perfmon_getResult(g, t, c) ==
    /\ perfmon_initialized
    /\ g < groupSet.numberOfActiveGroups
    /\ c \in DOMAIN groupSet.groups[g].events
    /\ groupSet' = WithGroup(groupSet, g, EvaluatedGroup(groupSet.groups[g], t, c))
    /\ UNCHANGED <<perfmon_initialized, cpu, now, happened>>

\* A group that does not exist is refused when the first thread has left the
\* active one
perfmon_switchActiveGroup(g) ==
    /\ MaySwitch
    /\ perfmon_initialized
    /\ Active >= 0
    /\ groupSet.groups[Active].runTime <= MaxRunTime
    /\ Becomes(IF g < groupSet.numberOfActiveGroups THEN Switch(Now, g) ELSE LeaveGroup(Now, 0))
    /\ UNCHANGED <<perfmon_initialized, now, happened>>

\* clears what every group has programmed, and currentConfig
perfmon_finalize ==
    LET n == groupSet.numberOfActiveGroups
        Cleared(t) ==
          LET turn[i \in 0 .. n] ==
                IF i = 0 THEN cpu[t]
                ELSE perfmon_finalizeCountersThread(turn[i - 1], groupSet.groups[i - 1].events)
          IN turn[n]
    IN
    /\ perfmon_initialized
    /\ perfmon_initialized' = FALSE
    /\ groupSet' = NoGroups
    /\ cpu' = [t \in Threads |-> [Cleared(t) EXCEPT !.currentConfig = [c \in Core |-> Off]]]
    /\ UNCHANGED <<now, happened>>

-----------------------------------------------------------------------------
(* The machine *)

\* CPUs on which an event happens when it happens on the CPU of thread t:
\* energy is consumed by the whole package
Where(t, e) == IF e = Joule THEN {u \in Threads : NodeOf[u] = NodeOf[t]} ELSE {t}

\* history: the event happens for a running group that wants it
Witness(grp, hit, e) ==
    IF grp.state # "START" THEN grp
    ELSE [grp EXCEPT !.truth = [u \in Threads |-> [c \in DOMAIN grp.events |->
            IF u \in hit /\ grp.events[c] = e /\ (c \in Power => HaveLock(u))
            THEN grp.truth[u][c] + 1 ELSE grp.truth[u][c]]]]
Timed(grp) == IF grp.state = "START" THEN [grp EXCEPT !.ran = @ + 1] ELSE grp

Event(t, e) ==
    LET hit == Where(t, e)
    IN
    /\ happened < MaxEvents
    /\ happened' = happened + 1
    /\ cpu' = [u \in Threads |-> IF u \in hit THEN EventOn(cpu[u], e) ELSE cpu[u]]
    /\ groupSet' = [groupSet EXCEPT !.groups = [g \in DOMAIN @ |-> Witness(@[g], hit, e)]]
    /\ UNCHANGED <<perfmon_initialized, now>>

Tick ==
    /\ now < MaxTime
    /\ now' = now + 1
    /\ groupSet' = [groupSet EXCEPT !.groups = [g \in DOMAIN @ |-> Timed(@[g])]]
    /\ UNCHANGED <<perfmon_initialized, cpu, happened>>

Next ==
    \/ perfmon_init \/ perfmon_finalize
    \/ \E es \in EventSets, garbage \in 0 .. MaxTime : perfmon_addEventSet(es, garbage)
    \/ \E g \in Groups : perfmon_setupCounters(g) \/ perfmon_switchActiveGroup(g)
    \/ perfmon_startCounters \/ perfmon_stopCounters
    \/ \E g \in Groups, ts \in {Threads} \cup {{t} : t \in Threads} : perfmon_readCounters(g, ts)
    \/ \E t \in Threads : perfmon_readCountersCpu(t)
    \/ \E g \in Groups, t \in Threads, c \in Counters : perfmon_getResult(g, t, c)
    \/ \E t \in Threads, e \in Flags : Event(t, e)
    \/ Tick

Spec == Init /\ [][Next]_vars

-----------------------------------------------------------------------------
PerfmonCounter == [init : BOOLEAN, startData : Nat, counterData : Nat, fullData : Nat, overflows : Nat]
AddedGroups == 0 .. groupSet.numberOfActiveGroups - 1

\* Type invariant of the group set and the CPUs (perfmon_types.h), with the
\* bounds of the group list: every added group, and the active one, lies in it.
TypeOK ==
    /\ perfmon_initialized \in BOOLEAN
    /\ groupSet.numberOfActiveGroups \in 0 .. MaxGroups
    /\ groupSet.numberOfActiveGroups <= groupSet.numberOfGroups
    /\ groupSet.activeGroup \in AddedGroups \cup {-1}
    /\ DOMAIN groupSet.groups = AddedGroups
    /\ \A g \in AddedGroups : LET grp == groupSet.groups[g] IN
         /\ grp.state \in {"NONE", "SETUP", "START"}
         /\ grp.events \in EventSets /\ grp.runTime \in Nat /\ grp.rdtscTime \in Nat
         /\ grp.timer \in [start : 0 .. MaxTime, stop : 0 .. MaxTime]
         /\ grp.counters \in [Threads -> [DOMAIN grp.events -> PerfmonCounter]]
    /\ cpu \in [Threads -> Cpu]
    /\ now \in 0 .. MaxTime

\* The active group finds its events selected in the control registers of every
\* CPU, whatever groups were set up before and whatever currentConfig made
\* setupCounters leave out (init: "control register is set up properly").
ActiveConfigured ==
    Active >= 0 /\ perfmon_initialized =>
        \A t \in Threads : \A c \in DOMAIN groupSet.groups[Active].events \cap Core :
            groupSet.groups[Active].counters[t][c].init
                => cpu[t].ctrl[c] = groupSet.groups[Active].events[c]

\* the value of the counter at the end, had it no limit
Reached(g, t, c) == groupSet.groups[g].counters[t][c].startData + groupSet.groups[g].truth[t][c]
Completed(g) == groupSet.groups[g].measured

\* After a measurement the result of an event is the number of times it
\* happened on that CPU between start and stop, whatever groups ran before,
\* provided the counter did not overflow since (perfmon_getResult).
ResultOfLastCycle ==
    \A g \in AddedGroups : Completed(g) =>
        \A t \in Threads : \A c \in DOMAIN groupSet.groups[g].events :
            Reached(g, t, c) < Size(c)
                => ResultOf(c, groupSet.groups[g].counters[t][c]) = groupSet.groups[g].truth[t][c]

\* The same with overflows: the result takes care of happened overflows.
ResultWithOverflows ==
    \A g \in AddedGroups : Completed(g) =>
        \A t \in Threads : \A c \in DOMAIN groupSet.groups[g].events :
            ResultOf(c, groupSet.groups[g].counters[t][c]) = groupSet.groups[g].truth[t][c]

\* Finalizing leaves no counter enabled or configured on any CPU, and the
\* cache of the control registers empty (perfmon_finalize).
OffAfterFinalize ==
    ~perfmon_initialized => \A t \in Threads :
        /\ cpu[t].enabled = {}
        /\ \A c \in Core : cpu[t].ctrl[c] = Off /\ cpu[t].currentConfig[c] = Off

\* The time of a group that does not run is the time it was measured.
RunTimeIsMeasured ==
    \A g \in AddedGroups : ~Running(g) => groupSet.groups[g].runTime = groupSet.groups[g].ran

=============================================================================
