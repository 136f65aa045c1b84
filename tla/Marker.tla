------------------------------- MODULE Marker -------------------------------
(***************************************************************************)
(* The Marker API (libperfctr.c, hashTable.c): the threads of an           *)
(* instrumented application start and stop named regions, on the CPUs they *)
(* are pinned to, and the process writes the sums to a file at the end.    *)
(*                                                                         *)
(* The API only reads the counters: likwid-perfctr, the parent process,    *)
(* has set up and started the first event set (Init).  The application has *)
(* its own perfmon library (module Perfmon), whose state is part of this   *)
(* specification; Threads are the measured CPUs, groupSet the application's*)
(* copy of the group set.                                                  *)
(*                                                                         *)
(* A region is entered in the hash table of a CPU under its name and the   *)
(* active group, its tag.  Look-up and insertion are separate steps, as    *)
(* are reading the counters and using what was read.                       *)
(***************************************************************************)
EXTENDS Perfmon, Sequences

CONSTANTS
    Teams,          \* the sets of application threads to consider
    Environments,   \* values of LIKWID_PIN, OMP_NUM_THREADS and CILK_NWORKERS (0: not set),
                    \* for each size of the team
    Regions,        \* region names, for each size of the team
    GroupEvents,    \* the event sets of LIKWID_EVENTS, a function on 0 .. n-1
    Positions,      \* values the counters may have when the application starts
    Garbage,        \* what uninitialised memory may hold
    MaxCalls,       \* bound: calls of a thread, for each size of the team
    RegisterFirst,  \* regions of a shared CPU are registered before they are used
    OneRunsAll      \* one CPU runs every region, and the first that knows a region runs it

Team == UNION Teams
Cpus == Threads
numberOfGroups == Cardinality(DOMAIN GroupEvents)
Names == UNION {Regions[n] : n \in DOMAIN Regions}
Tags == Names \X DOMAIN GroupEvents
NoTag == <<>>

ASSUME TeamsAssumption == Teams # {} /\ \A m \in Teams : m # {} /\ IsFiniteSet(m)
ASSUME EnvironmentsAssumption ==
    \A n \in DOMAIN Environments :
        /\ Environments[n] # {}
        /\ Environments[n] \subseteq [LIKWID_PIN : BOOLEAN, OMP_NUM_THREADS : Nat, CILK_NWORKERS : Nat]
ASSUME GroupEventsAssumption ==
    /\ numberOfGroups \in 1 .. MaxGroups /\ DOMAIN GroupEvents = 0 .. numberOfGroups - 1
    /\ \A g \in DOMAIN GroupEvents : GroupEvents[g] \in EventSets
ASSUME MarkerBoundsAssumption ==
    /\ \A m \in Teams : {Cardinality(m)} \subseteq DOMAIN MaxCalls \cap DOMAIN Regions \cap DOMAIN Environments
    /\ Garbage # {} /\ Garbage \subseteq Int
    /\ Positions # {} /\ Positions \subseteq 0 .. CoreSize - 1
ASSUME MarkerAppAssumption == {RegisterFirst, OneRunsAll} \subseteq BOOLEAN

VARIABLES
    likwid_init,
    registered_cpus,
    threadLocks,    \* holders of the lock of each CPU
    threadList,     \* hash table of each CPU: tag to LikwidThreadResults
    environ,        \* the environment variables the library looks at
    team,           \* the threads of the application
    cpuOf,          \* the CPU a thread is pinned to, -1 before likwid_markerThreadInit
    at,             \* what a thread is doing, with its local variables
    calls,          \* number of calls of a thread
    file,           \* the marker files written
    inside,         \* history: the tags a thread is inside of
    counted,        \* history: what the counters counted inside a region
    wraps,          \* history: how often they wrapped around there
    stops           \* history: completed stops of a region

markerVars == <<likwid_init, registered_cpus, threadLocks, threadList, environ, team, cpuOf, at, calls, file,
                inside, counted, wraps, stops>>
allVars == <<vars, markerVars>>

Idle == [pc |-> "idle", op |-> "none", tag |-> NoTag, orphan |-> FALSE]

-----------------------------------------------------------------------------
(* Initialisation *)

\* What likwid-perfctr has programmed before it runs the application: the
\* counters of the first event set count, at any value.
ProgrammedCpu(es, position) ==
    [IdleCpu EXCEPT !.ctrl = [c \in Core |-> IF c \in DOMAIN es THEN es[c] ELSE Off],
                    !.enabled = DOMAIN es \cap Core,
                    !.count = [c \in Counters |-> IF c \in DOMAIN es \cap Core THEN position ELSE 0]]

EmptyTable == [tag \in {} |-> 0]

MarkerInit ==
    /\ perfmon_initialized = FALSE /\ groupSet = NoGroups /\ now = 0 /\ happened = 0
    /\ \E position \in Positions : cpu = [t \in Threads |-> ProgrammedCpu(GroupEvents[0], position)]
    /\ likwid_init = FALSE /\ registered_cpus = 0
    /\ threadLocks = [k \in Cpus |-> {}]
    /\ threadList = [k \in Cpus |-> EmptyTable]
    /\ team \in Teams
    /\ environ \in Environments[Cardinality(team)]
    /\ cpuOf = [t \in Team |-> -1]
    /\ at = [t \in Team |-> Idle]
    /\ calls = [t \in Team |-> 0]
    /\ file = <<>>
    /\ inside = [t \in Team |-> {}]
    /\ counted = [k \in Cpus |-> [tag \in Tags |-> [c \in Counters |-> 0]]]
    /\ wraps = [k \in Cpus |-> [tag \in Tags |-> [c \in Counters |-> 0]]]
    /\ stops = [k \in Cpus |-> [tag \in Tags |-> 0]]

\* The stops of the threads of one CPU are serialised if likwid-perfctr pins the
\* application and the environment announces more threads than CPUs; the threads
\* that exist are not counted.
use_locks ==
    environ.LIKWID_PIN /\ (environ.OMP_NUM_THREADS > NumThreads \/ environ.CILK_NWORKERS > NumThreads)

\* perfmon_init, the event sets, and the first group as the active one whose
\* counters are known to be set up; its state remains STATE_NONE
likwid_markerInit ==
    LET Added(g) == NewGroup(GroupEvents[g], 0)
        Known(grp) == [grp EXCEPT !.counters = [t \in Threads |-> [c \in DOMAIN grp.events |->
                                    [grp.counters[t][c] EXCEPT !.init = TRUE]]]]
    IN
    /\ ~likwid_init /\ file = <<>>
    /\ likwid_init' = TRUE
    /\ perfmon_initialized' = TRUE
    /\ groupSet' = [numberOfGroups |-> numberOfGroups, numberOfActiveGroups |-> numberOfGroups, activeGroup |-> 0,
                    groups |-> [g \in DOMAIN GroupEvents |-> IF g = 0 THEN Known(Added(0)) ELSE Added(g)]]
    /\ threadList' = [k \in Cpus |-> EmptyTable]
    /\ UNCHANGED <<cpu, now, happened, registered_cpus, threadLocks, environ, team, cpuOf, at, calls, file,
                   inside, counted, wraps, stops>>

\* The thread takes the next number.  With LIKWID_PIN it is pinned to the CPU of
\* that number; otherwise the application has put it on one of the measured CPUs.
likwid_markerThreadInit(t) ==
    /\ likwid_init
    /\ cpuOf[t] = -1
    /\ registered_cpus' = registered_cpus + 1
    /\ \E k \in Cpus : /\ environ.LIKWID_PIN => k = registered_cpus % NumThreads
                      /\ cpuOf' = [cpuOf EXCEPT ![t] = k]
    /\ UNCHANGED <<vars, likwid_init, threadLocks, threadList, environ, team, at, calls, file, inside, counted, wraps,
                   stops>>

-----------------------------------------------------------------------------
(* The hash table *)

NewEntry(garbage) ==
    [count |-> 0, PMcounters |-> [c \in Counters |-> 0], StartPMcounters |-> [c \in Counters |-> 0],
     StartOverflows |-> [c \in Counters |-> garbage], groupID |-> garbage, cpuID |-> garbage]

TagsOf(k) == DOMAIN threadList[k]
MyTag(r) == <<r, groupSet.activeGroup>>
MyEntry(t) == threadList[cpuOf[t]][at[t].tag]
Known(k, tag) == tag \in TagsOf(k)

\* the thread goes on in its call
Goto(t, pc) == at' = [at EXCEPT ![t] = [at[t] EXCEPT !.pc = pc]]
Return(t) == at' = [at EXCEPT ![t] = Idle]

\* hashTable_get, first half: the table is searched.  Then the thread goes to
\* the step after the call or, if the region is unknown, to the insertion.
Lookup(t, op, tag, then) ==
    at' = [at EXCEPT ![t] = [pc |-> IF Known(cpuOf[t], tag) THEN then ELSE "insert",
                             op |-> op, tag |-> tag, orphan |-> FALSE]]

\* hashTable_get, second half: g_hash_table_insert replaces an entry that
\* appeared in between; threads that hold a pointer to that one keep it, but
\* nobody will find it again.
hashTable_insert(t, garbage) ==
    LET k == cpuOf[t]
        tag == at[t].tag
        loses == {u \in Team \ {t} : cpuOf[u] = k /\ at[u].tag = tag /\ at[u].pc # "insert" /\ at[u].pc # "lock"}
        next == CASE at[t].op = "start" -> "start_read" [] at[t].op = "stop" -> "stop_count" [] OTHER -> "idle"
    IN
    /\ at[t].pc = "insert"
    /\ threadList' = [threadList EXCEPT ![k] = [x \in TagsOf(k) \cup {tag} |->
                         IF x = tag THEN NewEntry(garbage) ELSE threadList[k][x]]]
    /\ at' = [u \in Team |-> IF u = t THEN IF next = "idle" THEN Idle ELSE [at[t] EXCEPT !.pc = next]
                             ELSE IF u \in loses THEN [at[u] EXCEPT !.orphan = TRUE] ELSE at[u]]
    /\ UNCHANGED <<vars, likwid_init, registered_cpus, threadLocks, environ, team, cpuOf, calls, file,
                   inside, counted, wraps, stops>>

\* what a thread writes through its pointer to the entry of its region
Update(t, e) ==
    threadList' = IF at[t].orphan THEN threadList
                  ELSE [threadList EXCEPT ![cpuOf[t]] = [threadList[cpuOf[t]] EXCEPT ![at[t].tag] = e]]

-----------------------------------------------------------------------------
(* Regions *)

Sharers(k) == {t \in team : cpuOf[t] = k}
Busy(k, tag) == \E t \in Sharers(k) : at[t].pc = "insert" /\ at[t].tag = tag
\* The application: after all threads have called likwid_markerThreadInit and,
\* where threads share a CPU, have registered the region.
AppMayStart(t, r) ==
    /\ \A u \in team : cpuOf[u] # -1
    /\ RegisterFirst /\ Cardinality(Sharers(cpuOf[t])) > 1
        => Known(cpuOf[t], MyTag(r)) /\ ~Busy(cpuOf[t], MyTag(r))

Ready(t) == likwid_init /\ t \in team /\ cpuOf[t] # -1 /\ at[t].pc = "idle"
Called(t) == calls[t] < MaxCalls[Cardinality(team)] /\ calls' = [calls EXCEPT ![t] = @ + 1]

\* likwid_markerRegisterRegion and likwid_markerGetRegion: both look the region
\* up, and create it if it is new
likwid_markerRegisterRegion(t, r) ==
    /\ Ready(t) /\ Called(t)
    /\ ~Known(cpuOf[t], MyTag(r))
    /\ Lookup(t, "register", MyTag(r), "idle")
    /\ UNCHANGED <<vars, likwid_init, registered_cpus, threadLocks, threadList, environ, team, cpuOf, file,
                   inside, counted, wraps, stops>>

likwid_markerStartRegion(t, r) ==
    /\ Ready(t) /\ Called(t)
    /\ AppMayStart(t, r)
    /\ MyTag(r) \notin inside[t]
    /\ Lookup(t, "start", MyTag(r), "start_read")
    /\ UNCHANGED <<vars, likwid_init, registered_cpus, threadLocks, threadList, environ, team, cpuOf, file,
                   inside, counted, wraps, stops>>

\* perfmon_readCountersCpu on the CPU of the thread
ReadCpu(t) == Becomes(Read(Now, Active, {cpuOf[t]}))

start_read(t) ==
    /\ at[t].pc = "start_read"
    /\ ReadCpu(t)
    /\ inside' = [inside EXCEPT ![t] = @ \cup {at[t].tag}]
    /\ Goto(t, "start_store")
    /\ UNCHANGED <<perfmon_initialized, now, happened, likwid_init, registered_cpus, threadLocks, threadList,
                   environ, team, cpuOf, calls, file, counted, wraps, stops>>

ActiveEvents == groupSet.groups[Active].events
ActiveCounter(t, c) == groupSet.groups[Active].counters[cpuOf[t]][c]

\* variant: the overflows so far are not noted
StartedEntryNoOverflows(t, e) ==
    [e EXCEPT !.cpuID = cpuOf[t],
              !.StartPMcounters = [c \in Counters |-> IF c \in DOMAIN ActiveEvents
                                                      THEN ActiveCounter(t, c).counterData ELSE @[c]],
              !.StartOverflows = [c \in Counters |-> 0]]

StartedEntry(t, e) ==
    [e EXCEPT !.cpuID = cpuOf[t],
              !.StartPMcounters = [c \in Counters |-> IF c \in DOMAIN ActiveEvents
                                                      THEN ActiveCounter(t, c).counterData ELSE @[c]],
              !.StartOverflows = [c \in Counters |-> IF c \in DOMAIN ActiveEvents
                                                     THEN ActiveCounter(t, c).overflows ELSE @[c]]]

start_store(t) ==
    /\ at[t].pc = "start_store"
    /\ Update(t, StartedEntry(t, MyEntry(t)))
    /\ Return(t)
    /\ UNCHANGED <<vars, likwid_init, registered_cpus, threadLocks, environ, team, cpuOf, calls, file,
                   inside, counted, wraps, stops>>

\* with use_locks the rest of the call is one critical section per CPU
likwid_markerStopRegion(t, r) ==
    /\ Ready(t)
    /\ MyTag(r) \in inside[t]
    /\ at' = [at EXCEPT ![t] = [pc |-> "lock", op |-> "stop", tag |-> MyTag(r), orphan |-> FALSE]]
    /\ UNCHANGED <<vars, likwid_init, registered_cpus, threadLocks, threadList, environ, team, cpuOf, calls, file,
                   inside, counted, wraps, stops>>

\* variant: no lock is taken
stop_lookupUnlocked(t) ==
    /\ at[t].pc = "lock"
    /\ Lookup(t, "stop", at[t].tag, "stop_count")
    /\ UNCHANGED <<vars, likwid_init, registered_cpus, threadLocks, threadList, environ, team, cpuOf, calls, file,
                   inside, counted, wraps, stops>>

stop_lookup(t) ==
    /\ at[t].pc = "lock"
    /\ use_locks => threadLocks[cpuOf[t]] = {}
    /\ threadLocks' = IF use_locks THEN [threadLocks EXCEPT ![cpuOf[t]] = {t}] ELSE threadLocks
    /\ Lookup(t, "stop", at[t].tag, "stop_count")
    /\ UNCHANGED <<vars, likwid_init, registered_cpus, threadList, environ, team, cpuOf, calls, file,
                   inside, counted, wraps, stops>>

\* results->count++ is a load and a store: reg is the value in between
stop_count(t) ==
    /\ at[t].pc = "stop_count"
    /\ at' = [at EXCEPT ![t] = [pc |-> "stop_read", op |-> "stop", tag |-> @.tag, orphan |-> @.orphan,
                                reg |-> IF @.orphan THEN 0 ELSE MyEntry(t).count]]
    /\ UNCHANGED <<vars, likwid_init, registered_cpus, threadLocks, threadList, environ, team, cpuOf, calls, file,
                   inside, counted, wraps, stops>>

stop_read(t) ==
    /\ at[t].pc = "stop_read"
    /\ Update(t, [MyEntry(t) EXCEPT !.groupID = Active, !.count = at[t].reg + 1])
    /\ ReadCpu(t)
    /\ inside' = [inside EXCEPT ![t] = @ \ {at[t].tag}]
    /\ at' = [at EXCEPT ![t] = [pc |-> "stop_add", op |-> "stop", tag |-> @.tag, orphan |-> @.orphan]]
    /\ UNCHANGED <<perfmon_initialized, now, happened, likwid_init, registered_cpus, threadLocks,
                   environ, team, cpuOf, calls, file, counted, wraps, stops>>

\* calculateMarkerResult: stop minus start, with the overflows since the start
calculateMarkerResult(c, start, stop, overflows) ==
    CASE overflows = 0 -> (stop - start) % Word
      [] overflows > 0 -> (perfmon_getMaxCounterValue(c) - start) + stop
                          + (overflows - 1) * perfmon_getMaxCounterValue(c)
      [] OTHER         -> overflows * perfmon_getMaxCounterValue(c)

StoppedEntry(t, e) ==
    [e EXCEPT !.PMcounters = [c \in Counters |->
        IF c \notin DOMAIN ActiveEvents THEN @[c]
        ELSE @[c] + calculateMarkerResult(c, e.StartPMcounters[c], ActiveCounter(t, c).counterData,
                                          ActiveCounter(t, c).overflows - e.StartOverflows[c])]]

stop_add(t) ==
    /\ at[t].pc = "stop_add"
    /\ Update(t, StoppedEntry(t, MyEntry(t)))
    /\ threadLocks' = IF use_locks THEN [threadLocks EXCEPT ![cpuOf[t]] = {}] ELSE threadLocks
    /\ stops' = [stops EXCEPT ![cpuOf[t]] = [stops[cpuOf[t]] EXCEPT ![at[t].tag] = stops[cpuOf[t]][at[t].tag] + 1]]
    /\ Return(t)
    /\ UNCHANGED <<vars, likwid_init, registered_cpus, environ, team, cpuOf, calls, file, inside, counted, wraps>>

-----------------------------------------------------------------------------
(* Groups and the end *)

Quiet == \A t \in team : at[t].pc = "idle"
Outside == \A t \in team : inside[t] = {}

\* The application switches outside of regions only, as the documentation asks.
likwid_markerNextGroup ==
    LET next_group == (Active + 1) % numberOfGroups
    IN
    /\ likwid_init /\ Quiet /\ Outside
    /\ next_group # Active
    /\ \E t \in team : Ready(t) /\ Called(t)
    /\ Becomes(Switch(Now, next_group))
    /\ UNCHANGED <<perfmon_initialized, now, happened, likwid_init, registered_cpus, threadLocks, threadList,
                   environ, team, cpuOf, at, file, inside, counted, wraps, stops>>

AllTags == UNION {TagsOf(k) : k \in Cpus}

\* variant: the regions of the first CPU are counted
numberOfRegionsFirst(cpus) == Cardinality(TagsOf(0))
\* hashTable_finalize: there is room for as many regions as one CPU has
numberOfRegions(cpus) ==
    CHOOSE n \in {Cardinality(TagsOf(k)) : k \in cpus} : \A k \in cpus : Cardinality(TagsOf(k)) <= n

\* the first CPU that knows a region
First(tag) == CHOOSE k \in Cpus : tag \in TagsOf(k) /\ \A l \in Cpus : tag \in TagsOf(l) => k <= l
\* Regions get their numbers CPU by CPU, in the order of the hash table.
RegionIds == {f \in [AllTags -> 0 .. Cardinality(AllTags) - 1] :
                \A x, y \in AllTags : /\ x # y => f[x] # f[y]
                                      /\ First(x) < First(y) => f[x] < f[y]}

\* one line of the file: what a CPU has of a region
Row(k, tag) == IF tag \in TagsOf(k)
               THEN [cpuID |-> threadList[k][tag].cpuID, count |-> threadList[k][tag].count,
                     counters |-> threadList[k][tag].PMcounters]
               ELSE [cpuID |-> -1, count |-> 0, counters |-> [c \in Counters |-> 0]]

\* the file lists the regions that have found room
Results(f) ==
    {[tag |-> tag, groupID |-> threadList[First(tag)][tag].groupID, rows |-> [k \in Cpus |-> Row(k, tag)]] :
        tag \in {x \in AllTags : f[x] < numberOfRegions(Cpus)}}

likwid_markerClose ==
    /\ likwid_init /\ Quiet /\ Outside
    /\ \A t \in team : cpuOf[t] # -1
    /\ OneRunsAll => /\ \E k \in Cpus : \A tag \in AllTags : stops[k][tag] > 0
                     /\ \A tag \in AllTags : stops[First(tag)][tag] > 0
    /\ \E f \in RegionIds : file' = Append(file, Results(f))
    /\ likwid_init' = FALSE
    /\ UNCHANGED <<vars, registered_cpus, threadLocks, threadList, environ, team, cpuOf, at, calls,
                   inside, counted, wraps, stops>>

-----------------------------------------------------------------------------
\* An event that some counter counts happens on CPU k; history notes it for the regions entered there.
MarkerEvent(k, e) ==
    LET hit == Where(k, e)
        Moves(j, c) == j \in hit /\ Counts(cpu[j], c, e)
        In(j, tag) == \E t \in team : cpuOf[t] = j /\ tag \in inside[t]
        Tally(h, wrapping) == [j \in Cpus |-> [tag \in Tags |-> [c \in Counters |->
            IF In(j, tag) /\ Moves(j, c) /\ (wrapping => cpu[j].count[c] = perfmon_getMaxCounterValue(c))
            THEN h[j][tag][c] + 1 ELSE h[j][tag][c]]]]
    IN
    /\ likwid_init
    /\ happened < MaxEvents
    /\ \E j \in Cpus, c \in Counters : Moves(j, c)
    /\ happened' = happened + 1
    /\ cpu' = [j \in Cpus |-> IF j \in hit THEN EventOn(cpu[j], e) ELSE cpu[j]]
    /\ counted' = Tally(counted, FALSE)
    /\ wraps' = Tally(wraps, TRUE)
    /\ UNCHANGED <<perfmon_initialized, groupSet, now, likwid_init, registered_cpus, threadLocks, threadList,
                   environ, team, cpuOf, at, calls, file, inside, stops>>

Step(t) ==
    \/ likwid_markerThreadInit(t)
    \/ \E r \in Regions[Cardinality(team)] : \/ likwid_markerRegisterRegion(t, r)
                          \/ likwid_markerStartRegion(t, r) \/ likwid_markerStopRegion(t, r)
    \/ \E garbage \in Garbage : hashTable_insert(t, garbage)
    \/ start_read(t) \/ start_store(t)
    \/ stop_lookup(t) \/ stop_count(t) \/ stop_read(t) \/ stop_add(t)

MarkerNext ==
    \/ likwid_markerInit \/ likwid_markerNextGroup \/ likwid_markerClose
    \/ \E t \in team : Step(t)
    \/ \E k \in Cpus, e \in Flags : MarkerEvent(k, e)

MarkerSpec == MarkerInit /\ [][MarkerNext]_allVars

-----------------------------------------------------------------------------
Settled(k) == \A t \in Sharers(k) : at[t].pc = "idle" /\ inside[t] = {}

\* One thread has the CPU for itself, or the stops there are serialised.
Serial(k) == use_locks \/ Cardinality(Sharers(k)) <= 1

\* Every completed stop of a region is counted, on every CPU that one thread has
\* for itself, and with locks also where several threads share the CPU and its
\* table (threadLocks in likwid_markerStopRegion).
CountsStops ==
    \A k \in Cpus : Settled(k) /\ Serial(k) =>
        \A tag \in TagsOf(k) : threadList[k][tag].count = stops[k][tag]

\* The same without the condition; it fails for threads that share a CPU without
\* locks, which OMP_NUM_THREADS does not announce (likwid_markerInit).
AllStopsCounted ==
    \A k \in Cpus : Settled(k) => \A tag \in TagsOf(k) : threadList[k][tag].count = stops[k][tag]

\* The sum of a region is what the CPU's counters counted while the thread was
\* inside it, over all its executions, however often the counters are read by
\* other regions in between; every overflow inside the region may cost one
\* (likwid_markerStartRegion, likwid_markerStopRegion, calculateMarkerResult).
RegionTotals ==
    \A k \in Cpus : Settled(k) /\ Cardinality(Sharers(k)) = 1 =>
        \A tag \in TagsOf(k) : \A c \in DOMAIN GroupEvents[tag[2]] \cap Core :
            counted[k][tag][c] - threadList[k][tag].PMcounters[c] \in 0 .. wraps[k][tag][c]

\* The file gathers all data of all regions: for every region that was run
\* there is one entry, with its group and, for each CPU, its sums and, where stops
\* are serialised, its executions (likwid_markerClose, hashTable_finalize).
FileGathersAll ==
    \A n \in DOMAIN file :
        \A tag \in Tags : (\E k \in Cpus : stops[k][tag] > 0) =>
            \E e \in file[n] :
                /\ e.tag = tag /\ e.groupID = tag[2]
                /\ \A x \in file[n] : x.tag = tag => x = e
                /\ \A k \in Cpus : /\ Serial(k) => e.rows[k].count = stops[k][tag]
                                   /\ stops[k][tag] > 0 => /\ e.rows[k].cpuID = k
                                                           /\ e.rows[k].counters = threadList[k][tag].PMcounters

\* Every region that was run is in the file.
RegionsHaveRoom ==
    \A n \in DOMAIN file : \A tag \in Tags :
        (\E k \in Cpus : stops[k][tag] > 0) => \E e \in file[n] : e.tag = tag

\* While a thread is inside a region, every core counter of the active event
\* set counts its event on that CPU: a switch of groups lets the same region be
\* measured with other events.
RegionIsCounted ==
    \A t \in team : inside[t] # {} =>
        \A c \in DOMAIN ActiveEvents \cap Core : Counts(cpu[cpuOf[t]], c, ActiveEvents[c])
=============================================================================
