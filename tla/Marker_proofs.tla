---------------------------- MODULE Marker_proofs ----------------------------
(***************************************************************************)
(* Proofs about the Marker API, for every number of CPUs and of threads of *)
(* the application, all regions, event sets and interleavings.  They       *)
(* assume that the regions of shared CPUs are registered before they are   *)
(* used (RegisterFirst): two threads that create the same region at once   *)
(* lose one of the entries (hashTable_get).                                *)
(***************************************************************************)
EXTENDS Marker, Perfmon_proofs, FiniteSetTheorems

-----------------------------------------------------------------------------
(* The inductive invariant *)

\* The library: the counters of the active group are known to be set up, and
\* no group was ever started here.
Ctr(k, c) == groupSet.groups[groupSet.activeGroup].counters[k][c]
GroupReady(grp) == \A k \in Cpus, c \in DOMAIN grp.events : grp.counters[k][c].init
GroupsAre(x) == \A g \in DOMAIN GroupEvents : Group(x, g).events = GroupEvents[g] /\ Group(x, g).state # "START"
LibraryInv ==
    /\ LibType(Now) /\ now \in 0 .. MaxTime /\ happened \in 0 .. MaxEvents
    /\ likwid_init => /\ Added(Now) = DOMAIN GroupEvents /\ GroupsAre(Now)
                      /\ groupSet.activeGroup \in DOMAIN GroupEvents
                      /\ GroupReady(Group(Now, groupSet.activeGroup))

\* Types.  No thread ever holds a pointer to an entry that was replaced.
Entries == [count : Nat, PMcounters : [Counters -> Int], StartPMcounters : [Counters -> Nat],
            StartOverflows : [Counters -> Int], groupID : Int, cpuID : Int]
Before == {"start_read", "start_store", "lock", "stop_count"}
Calls == [pc : {"idle"}, op : {"none"}, tag : {NoTag}, orphan : {FALSE}]
         \cup [pc : {"insert"}, op : {"register", "start"}, tag : Tags, orphan : {FALSE}]
         \cup [pc : Before \cup {"stop_add"}, op : {"start", "stop"}, tag : Tags, orphan : {FALSE}]
         \cup [pc : {"stop_read"}, op : {"stop"}, tag : Tags, orphan : {FALSE}, reg : Nat]
Tables(tab) == /\ tab = [k \in Cpus |-> tab[k]]
               /\ \A k \in Cpus : DOMAIN tab[k] \subseteq Tags /\ IsFiniteSet(DOMAIN tab[k])
                                  /\ tab[k] \in [DOMAIN tab[k] -> Entries]
MarkerTypes ==
    /\ team \in Teams
    /\ cpuOf \in [Team -> Cpus \cup {-1}] /\ at \in [Team -> Calls] /\ inside \in [Team -> SUBSET Tags]
    /\ threadLocks \in [Cpus -> SUBSET Team]
    /\ Tables(threadList)
    /\ stops \in [Cpus -> [Tags -> Nat]]
    /\ counted \in [Cpus -> [Tags -> [Counters -> Nat]]] /\ wraps \in [Cpus -> [Tags -> [Counters -> Nat]]]

\* Threads and CPUs: the numbers given so far, and who has a CPU
AllPinned == \A t \in team : cpuOf[t] # -1
Together(t, u) == cpuOf[t] = cpuOf[u]
PinInv == registered_cpus \in Nat /\ \A t \in Team \ team : cpuOf[t] = -1
\* The stops on CPU k exclude one another: there are locks, or one thread has the CPU.
Exact(k) == use_locks \/ \A t, u \in team : cpuOf[t] = k /\ cpuOf[u] = k => t = u

\* Where a thread is in its call, and what it is inside of
Stopping == {"stop_count", "stop_read", "stop_add"}
Using == {"start_read", "start_store", "lock", "stop_count", "stop_read", "stop_add"}
ThreadOK(t) ==
    /\ cpuOf[t] = -1 => at[t].pc = "idle" /\ inside[t] = {}
    /\ at[t].pc \in Using \/ at[t].op = "start" \/ inside[t] # {} => AllPinned
    /\ at[t].pc \in {"start_store", "lock", "stop_count", "stop_read"} => at[t].tag \in inside[t]
    /\ at[t].pc \in {"insert", "start_read", "stop_add"} => at[t].tag \notin inside[t]
    /\ at[t].pc # "idle" => likwid_init /\ at[t].tag[2] = groupSet.activeGroup
    /\ \A tag \in inside[t] : likwid_init /\ tag[2] = groupSet.activeGroup /\ Known(cpuOf[t], tag)
    /\ at[t].pc \in Using => Known(cpuOf[t], at[t].tag)
    /\ use_locks /\ at[t].pc \in Stopping => threadLocks[cpuOf[t]] = {t}
\* A region is created only as long as nobody on that CPU has started it.
Creating(t) ==
    at[t].pc = "insert" =>
        /\ stops[cpuOf[t]][at[t].tag] = 0
        /\ \A u \in team : u # t /\ Together(t, u) =>
             /\ at[t].op # "start" /\ at[t].tag \notin inside[u]
             /\ at[u].pc \in Using => at[u].tag # at[t].tag
ThreadInv == (\A t \in team : ThreadOK(t)) /\ (\A t \in team : Creating(t))

\* The entry of a region: its count, which a stop increments before it is
\* complete, and who has filled it.  Stops that do not exclude one another may
\* lose increments, but never all of them.
Adding(k, tag) == \E t \in team : cpuOf[t] = k /\ at[t].pc = "stop_add" /\ at[t].tag = tag
EntryOK(k, tag) ==
    IF Known(k, tag)
    THEN /\ Exact(k) => threadList[k][tag].count = stops[k][tag] + IF Adding(k, tag) THEN 1 ELSE 0
         /\ (stops[k][tag] > 0 \/ Adding(k, tag)) => threadList[k][tag].count > 0
         /\ threadList[k][tag].count > 0 => threadList[k][tag].groupID = tag[2] /\ threadList[k][tag].cpuID = k
    ELSE stops[k][tag] = 0
StoppingOK(t) ==
    /\ (at[t].pc = "stop_read" /\ Exact(cpuOf[t])) => at[t].reg = threadList[cpuOf[t]][at[t].tag].count
    /\ \A tag \in inside[t] : threadList[cpuOf[t]][tag].cpuID = cpuOf[t] \/ (at[t].pc = "start_store" /\ at[t].tag = tag)
TableInv == (\A k \in Cpus, tag \in Tags : EntryOK(k, tag)) /\ (\A t \in team : StoppingOK(t))

\* Before likwid_markerInit there are no entries; after likwid_markerClose
\* nothing happens any more.
PhaseInv == IF file # <<>> THEN ~likwid_init ELSE ~likwid_init => \A k \in Cpus : TagsOf(k) = {}

MarkerInv == LibraryInv /\ MarkerTypes /\ PinInv /\ ThreadInv /\ TableInv /\ PhaseInv

\* The counters of a CPU: whether the last read has not seen an overflow yet,
\* how often the counter has overflown, and the events since the last read
Unseen(k, c) == IF c \in cpu[k].status /\ cpu[k].count[c] < Ctr(k, c).counterData THEN 1 ELSE 0
Seen(k, c) == Ctr(k, c).overflows + Unseen(k, c)
Fresh(k, c) == cpu[k].count[c] + CoreSize * Unseen(k, c) - Ctr(k, c).counterData \in 0 .. happened

\* n events and v overflows since a region began: what the history has beyond
\* the sum of the earlier executions and these events is lost to overflows.
Since(total, sum, lost, n, v) == v \in {0, 1} /\ n \in 0 .. happened /\ total - sum - n \in 0 .. lost - v
\* A region that began at s after o overflows goes on.
Open(k, tag, c, s, o) ==
    /\ s \in 0 .. CoreSize - 1
    /\ Since(counted[k][tag][c], threadList[k][tag].PMcounters[c], wraps[k][tag][c],
             cpu[k].count[c] - s + CoreSize * (Seen(k, c) - o), Seen(k, c) - o)
\* It has ended with the last read.
Sampled(k, tag, c, s, o) ==
    /\ s \in 0 .. CoreSize - 1
    /\ Since(counted[k][tag][c], threadList[k][tag].PMcounters[c], wraps[k][tag][c],
             Ctr(k, c).counterData - s + CoreSize * (Ctr(k, c).overflows - o), Ctr(k, c).overflows - o)

\* The sum of a region on a CPU that one thread has for itself
Entering(t, tag) == at[t].pc = "start_store" /\ at[t].tag = tag
Leaving(t, tag) == at[t].pc = "stop_add" /\ at[t].tag = tag
StartOf(k, tag, c) == threadList[k][tag].StartPMcounters[c]
OverflowsOf(k, tag, c) == threadList[k][tag].StartOverflows[c]
SumOK(t, k, tag, c) ==
    IF Entering(t, tag) THEN Open(k, tag, c, Ctr(k, c).counterData, Ctr(k, c).overflows)
    ELSE IF tag \in inside[t] THEN Open(k, tag, c, StartOf(k, tag, c), OverflowsOf(k, tag, c))
    ELSE IF Leaving(t, tag) THEN Sampled(k, tag, c, StartOf(k, tag, c), OverflowsOf(k, tag, c))
    ELSE counted[k][tag][c] - threadList[k][tag].PMcounters[c] \in 0 .. wraps[k][tag][c]
CoreEvents(tag) == DOMAIN GroupEvents[tag[2]] \cap Core
Alone(t) == cpuOf[t] # -1 /\ \A u \in team : Together(t, u) => u = t
AloneOK(t, k) ==
    /\ inside[t] # {} => \A c \in DOMAIN ActiveEvents \cap Core : Fresh(k, c)
    /\ \A tag \in TagsOf(k) : \A c \in CoreEvents(tag) : SumOK(t, k, tag, c)

\* A region that nobody has entered yet
Untouched(k, tag) == \A c \in Counters : counted[k][tag][c] = 0 /\ wraps[k][tag][c] = 0
                                        /\ (Known(k, tag) => threadList[k][tag].PMcounters[c] = 0)
NewOK == /\ \A k \in Cpus, tag \in Tags : ~Known(k, tag) \/ ~AllPinned => Untouched(k, tag)
         /\ \A t \in team : at[t].pc = "insert" => Untouched(cpuOf[t], at[t].tag)
TotalInv == NewOK /\ \A t \in team : Alone(t) => AloneOK(t, cpuOf[t])

-----------------------------------------------------------------------------
(* The library *)

\* Reading the counters of some CPUs.
LEMMA ReadType ==
  ASSUME NEW x, LibType(x), NEW g \in Added(x), NEW ts, NEW y, y = Read(x, g, ts)
  PROVE  /\ Replaced(x, y, g, ReadGroup(Group(x, g), x.cpu, ts)) /\ y.gs.activeGroup = x.gs.activeGroup
         /\ \A k \in Threads : y.cpu[k].count = x.cpu[k].count /\ y.cpu[k].status \subseteq x.cpu[k].status
                                /\ y.cpu[k].enabled = x.cpu[k].enabled /\ y.cpu[k].ctrl = x.cpu[k].ctrl
                                /\ (k \notin ts => y.cpu[k] = x.cpu[k])
<1> DEFINE grp == Group(x, g)
           G == ReadGroup(grp, x.cpu, ts)
           es == grp.events
<1>1. GroupOK(grp) /\ \A k \in Threads : CpuOK(x.cpu[k])
  BY AddedGroup DEF LibType
<1>2. GroupOK(G)
  BY <1>1, ReadG
<1>3. /\ y.gs = WithGroup(x.gs, g, G)
      /\ y.cpu = [k \in Threads |-> IF k \in ts THEN perfmon_readCountersThread(x.cpu[k], es, grp.counters[k]) ELSE x.cpu[k]]
  BY DEF Read
<1> HIDE DEF G
<1>4. ASSUME NEW k \in Threads
      PROVE  /\ CpuOK(y.cpu[k]) /\ y.cpu[k].count = x.cpu[k].count /\ y.cpu[k].status \subseteq x.cpu[k].status
             /\ y.cpu[k].enabled = x.cpu[k].enabled /\ y.cpu[k].ctrl = x.cpu[k].ctrl
             /\ k \notin ts => y.cpu[k] = x.cpu[k]
  <2> DEFINE cs == grp.counters[k]
  <2>1. CpuOK(x.cpu[k]) /\ y.cpu[k] = IF k \in ts THEN perfmon_readCountersThread(x.cpu[k], es, cs) ELSE x.cpu[k]
    BY <1>1, <1>3
  <2> HIDE DEF cs, es, grp
  <2> QED BY <2>1, ReadsCpu
<1>5. y.cpu = [k \in Threads |-> y.cpu[k]]
  BY <1>3
<1>6. Replaced(x, y, g, G) /\ y.gs.activeGroup = x.gs.activeGroup
  BY <1>2, <1>3, <1>4, <1>5, ReplaceType
<1> QED BY <1>4, <1>6 DEF G

\* What a read does to the counters of a group that is set up.
LEMMA ReadCounters ==
  ASSUME NEW x, LibType(x), NEW g \in Added(x), NEW ts, NEW y, y = Read(x, g, ts), GroupReady(Group(x, g)),
         NEW k \in Threads, NEW c \in DOMAIN Group(x, g).events, NEW r, r = Group(x, g).counters[k][c],
         NEW s, s = Group(y, g).counters[k][c]
  PROVE  /\ s.init
         /\ k \notin ts => s = r
         /\ k \in ts /\ c \in Core =>
              /\ s.counterData = x.cpu[k].count[c]
              /\ s.overflows = IF c \in x.cpu[k].status /\ x.cpu[k].count[c] < r.counterData
                               THEN r.overflows + 1 ELSE r.overflows
<1> DEFINE grp == Group(x, g)
           G == ReadGroup(grp, x.cpu, ts)
           u == SampledCounter(x.cpu[k], c, r, HaveLock(k))
<1>1. GroupOK(grp)
  BY AddedGroup
<1>2. Group(y, g) = G
  BY ReadType DEF Replaced
<1>3. grp \in GroupRecord(grp.events) /\ CounterOK(c, r) /\ r.init
  BY <1>1 DEF GroupOK, GroupReady, Cpus
<1>4. G.counters = [t \in Threads |-> [d \in DOMAIN grp.events |->
         IF t \in ts THEN SampledCounter(x.cpu[t], d, grp.counters[t][d], HaveLock(t)) ELSE grp.counters[t][d]]]
  <2> HIDE DEF grp
  <2> QED BY <1>3 DEF ReadGroup, GroupRecord
<1>5. s = IF k \in ts THEN u ELSE r
  BY <1>2, <1>4
<1>6. r \in PerfmonCounter
  BY <1>3 DEF CounterOK
<1>7. ~(c \in Power /\ c \in Core)
  BY CountersAssumption DEF Core
<1> HIDE DEF grp, G
<1>8. u.init
  BY <1>3, <1>6 DEF SampledCounter, PerfmonCounter
<1>9. c \in Core => /\ u.counterData = x.cpu[k].count[c]
                     /\ u.overflows = IF c \in x.cpu[k].status /\ x.cpu[k].count[c] < r.counterData
                                      THEN r.overflows + 1 ELSE r.overflows
  BY <1>3, <1>6, <1>7 DEF SampledCounter, PerfmonCounter
<1> QED BY <1>3, <1>5, <1>8, <1>9

\* The groups as likwid_markerNextGroup finds and leaves them: none is running.
Dormant(x) == LibType(x) /\ x.gs.activeGroup \in Added(x) /\ \A h \in Added(x) : Group(x, h).state # "START"
SameEvents(x, y) == Added(y) = Added(x) /\ \A h \in Added(x) : Group(y, h).events = Group(x, h).events

\* Replacing a group by one with the same events that does not run
LEMMA DormantKept ==
  ASSUME NEW x, Dormant(x), NEW g \in Added(x), NEW G, GroupOK(G), G.state # "START", G.events = Group(x, g).events,
         NEW y, y.gs = WithGroup(x.gs, g, G), y.cpu = x.cpu
  PROVE  Dormant(y) /\ SameEvents(x, y) /\ y.gs.activeGroup = x.gs.activeGroup /\ Group(y, g) = G
<1>1. LibType(x) /\ y.cpu = [k \in Threads |-> y.cpu[k]] /\ \A k \in Threads : CpuOK(y.cpu[k])
  BY DEF Dormant, LibType
<1>2. Replaced(x, y, g, G) /\ y.gs.activeGroup = x.gs.activeGroup
  BY <1>1, ReplaceType
<1>3. Added(y) = Added(x) /\ LibType(y) /\ Group(y, g) = G /\ \A h \in Added(x) : h # g => Group(y, h) = Group(x, h)
  BY <1>2 DEF Replaced, Added
<1>4. \A h \in Added(x) : Group(y, h).state # "START" /\ Group(y, h).events = Group(x, h).events
  <2> SUFFICES ASSUME NEW h \in Added(x) PROVE Group(y, h).state # "START" /\ Group(y, h).events = Group(x, h).events
    OBVIOUS
  <2>1. CASE h = g
    BY <1>3, <2>1
  <2>2. CASE h # g
    BY <1>3, <2>2 DEF Dormant
  <2> QED BY <2>1, <2>2
<1> QED BY <1>2, <1>3, <1>4 DEF Dormant, SameEvents

\* Setting up a group.
LEMMA DormantSetup ==
  ASSUME NEW x, Dormant(x), NEW g \in Added(x), NEW y, y = Setup(x, g)
  PROVE  Dormant(y) /\ SameEvents(x, y) /\ y.gs.activeGroup = g /\ GroupReady(Group(y, g))
<1> DEFINE grp == Group(x, g)
           G == SetupGroup(grp)
           es == grp.events
           hs == WithGroup(x.gs, g, G)
           z == [gs |-> hs, cpu |-> y.cpu]
<1>1. LibType(x) /\ GroupOK(grp) /\ es \in EventSets
  BY AddedGroup DEF Dormant
<1>2. GroupOK(G) /\ G.state = "SETUP" /\ G.events = es /\ \A k \in Threads, c \in DOMAIN es : G.counters[k][c].init
  BY <1>1, SetupG
<1>3. y.gs = [hs EXCEPT !.activeGroup = g] /\ y.cpu = [k \in Threads |-> perfmon_setupCounterThread(x.cpu[k], es)]
  BY DEF Setup
<1> HIDE DEF G
<1>4. y.cpu = [k \in Threads |-> y.cpu[k]] /\ \A k \in Threads : CpuOK(y.cpu[k])
  <2>1. ASSUME NEW k \in Threads PROVE CpuOK(y.cpu[k])
    <3>1. CpuOK(x.cpu[k]) /\ y.cpu[k] = perfmon_setupCounterThread(x.cpu[k], es)
      BY <1>1, <1>3 DEF LibType
    <3> QED BY <1>1, <3>1, SetupCpu
  <2> QED BY <1>3, <2>1
<1>5. SetOK(hs) /\ hs.numberOfActiveGroups = x.gs.numberOfActiveGroups /\ hs.groups[g] = G
      /\ \A h \in 0 .. x.gs.numberOfActiveGroups - 1 : h # g => hs.groups[h] = x.gs.groups[h]
  BY <1>1, <1>2, PutGroup DEF LibType, Added
<1> HIDE DEF hs
<1>6. SetOK(y.gs) /\ y.gs.numberOfActiveGroups = hs.numberOfActiveGroups /\ y.gs.activeGroup = g /\ y.gs.groups = hs.groups
  BY <1>3, <1>5, PutActive DEF Added
<1>7. LibType(y) /\ Added(y) = Added(x) /\ Group(y, g) = G /\ \A h \in Added(x) : h # g => Group(y, h) = Group(x, h)
  BY <1>4, <1>5, <1>6 DEF LibType, Added, Group
<1>8. \A h \in Added(x) : Group(y, h).state # "START" /\ Group(y, h).events = Group(x, h).events
  <2> SUFFICES ASSUME NEW h \in Added(x) PROVE Group(y, h).state # "START" /\ Group(y, h).events = Group(x, h).events
    OBVIOUS
  <2>1. CASE h = g
    BY <1>2, <1>7, <2>1
  <2>2. CASE h # g
    BY <1>7, <2>2 DEF Dormant
  <2> QED BY <2>1, <2>2
<1> QED BY <1>2, <1>6, <1>7, <1>8 DEF Dormant, SameEvents, GroupReady, Cpus

\* One turn of the loop, and the loop
LEMMA DormantTurn ==
  ASSUME NEW x, Dormant(x), now \in 0 .. MaxTime, NEW g \in Added(x), NEW t, NEW y, y = SwitchThread(x, t, g)
  PROVE  Dormant(y) /\ SameEvents(x, y) /\ y.gs.activeGroup = g /\ GroupReady(Group(y, g))
<1> DEFINE old == x.gs.activeGroup
           grp == Group(x, old)
           G == StopTimer(grp)
           C == ClearedGroup(G, t)
           timed == [gs |-> WithGroup(x.gs, old, G), cpu |-> x.cpu]
           cleared == IF grp.state = "SETUP"
                      THEN [gs |-> WithGroup(timed.gs, old, ClearedGroup(Group(timed, old), t)), cpu |-> timed.cpu]
                      ELSE timed
<1>1. LibType(x) /\ old \in Added(x) /\ grp.state # "START"
  BY DEF Dormant
<1>2. y = Setup(cleared, g)
  BY <1>1 DEF SwitchThread, LeaveGroup
<1>3. GroupOK(grp)
  BY <1>1, AddedGroup
<1>4. GroupOK(G) /\ G.state = grp.state /\ G.events = grp.events
  BY <1>3, StopTimerG
<1>5. GroupOK(C) /\ C.state = G.state /\ C.events = G.events
  BY <1>4, ClearedG
<1>6. timed.gs = WithGroup(x.gs, old, G) /\ timed.cpu = x.cpu
  OBVIOUS
<1> HIDE DEF G, timed
<1>7. Dormant(timed) /\ SameEvents(x, timed) /\ timed.gs.activeGroup = old /\ Group(timed, old) = G
  BY <1>1, <1>4, <1>6, DormantKept
<1>8. grp.state = "SETUP" => cleared.gs = WithGroup(timed.gs, old, C) /\ cleared.cpu = timed.cpu
  BY <1>7
<1>9. grp.state # "SETUP" => cleared = timed
  OBVIOUS
<1> HIDE DEF cleared, C, grp, old
<1>10. Dormant(cleared) /\ SameEvents(x, cleared)
  <2>1. CASE grp.state = "SETUP"
    <3>1. C.state # "START" /\ C.events = Group(timed, old).events /\ old \in Added(timed)
      BY <1>1, <1>4, <1>5, <1>7 DEF SameEvents
    <3>2. Dormant(cleared) /\ SameEvents(timed, cleared)
      BY <1>5, <1>7, <1>8, <2>1, <3>1, DormantKept
    <3> QED BY <1>7, <3>2 DEF SameEvents
  <2>2. CASE grp.state # "SETUP"
    BY <1>7, <1>9, <2>2
  <2> QED BY <2>1, <2>2
<1>11. g \in Added(cleared)
  BY <1>10 DEF SameEvents
<1>12. Dormant(y) /\ SameEvents(cleared, y) /\ y.gs.activeGroup = g /\ GroupReady(Group(y, g))
  BY <1>2, <1>10, <1>11, DormantSetup
<1> QED BY <1>10, <1>12 DEF SameEvents

LEMMA DormantSwitch ==
  ASSUME NEW x, Dormant(x), now \in 0 .. MaxTime, NEW g \in Added(x), NEW y, y = Switch(x, g)
  PROVE  Dormant(y) /\ SameEvents(x, y) /\ y.gs.activeGroup = g /\ GroupReady(Group(y, g))
<1>1. NumThreads \in Nat /\ NumThreads > 0
  BY ThreadsAssumption
<1>2. PICK turn : /\ y = turn[NumThreads]
                  /\ \A i \in 0 .. NumThreads : turn[i] = IF i = 0 THEN x ELSE SwitchThread(turn[i - 1], i - 1, g)
  BY SwitchTurns
<1> DEFINE P(m) == Dormant(turn[m]) /\ SameEvents(x, turn[m])
           Q(m) == m = 0 \/ (turn[m].gs.activeGroup = g /\ GroupReady(Group(turn[m], g)))
           T == {m \in 0 .. NumThreads : ~(P(m) /\ Q(m))}
<1>3. T = {}
  <2> SUFFICES ASSUME T # {} PROVE FALSE
    OBVIOUS
  <2>1. T \subseteq Nat
    OBVIOUS
  <2>2. PICK m \in T : \A k \in T : m <= k
    BY <2>1, LeastNatural
  <2>3. m # 0
    <3>1. turn[0] = x
      BY <1>1, <1>2
    <3>2. P(0) /\ Q(0)
      BY <3>1 DEF SameEvents
    <3> QED BY <2>2, <3>2
  <2>4. m - 1 \in 0 .. NumThreads /\ m \in 0 .. NumThreads /\ m - 1 \notin T
    BY <1>1, <2>2, <2>3
  <2> DEFINE z == turn[m - 1]
  <2>5. Dormant(z) /\ SameEvents(x, z)
    BY <2>4
  <2>6. turn[m] = SwitchThread(z, m - 1, g)
    BY <1>2, <2>3, <2>4
  <2> HIDE DEF z
  <2>7. g \in Added(z)
    BY <2>5 DEF SameEvents
  <2>8. /\ Dormant(turn[m]) /\ SameEvents(z, turn[m])
        /\ turn[m].gs.activeGroup = g /\ GroupReady(Group(turn[m], g))
    BY <2>5, <2>6, <2>7, DormantTurn
  <2>9. SameEvents(x, turn[m])
    BY <2>5, <2>8 DEF SameEvents
  <2> QED BY <2>2, <2>8, <2>9
<1>4. P(NumThreads) /\ Q(NumThreads)
  BY <1>1, <1>3
<1> QED BY <1>1, <1>2, <1>4

-----------------------------------------------------------------------------
(* Threads and their tables *)

\* A thread of the application, its CPU and its call
LEMMA Thread ==
  ASSUME MarkerInv, NEW t \in team
  PROVE  /\ t \in Team /\ at[t] \in Calls /\ at \in [Team -> Calls] /\ cpuOf[t] \in Cpus \cup {-1}
         /\ inside[t] \in SUBSET Tags /\ -1 \notin Cpus
         /\ cpuOf[t] \notin Cpus => at[t].pc = "idle" /\ inside[t] = {}
<1>1. t \in Team
  BY DEF MarkerInv, MarkerTypes, Team
<1>2. -1 \notin Cpus
  BY ThreadsAssumption DEF Cpus, Threads
<1>3. cpuOf[t] = -1 => at[t].pc = "idle" /\ inside[t] = {}
  BY DEF MarkerInv, ThreadInv, ThreadOK
<1>4. cpuOf[t] \in Cpus \cup {-1} /\ at[t] \in Calls /\ at \in [Team -> Calls] /\ inside[t] \in SUBSET Tags
  BY <1>1 DEF MarkerInv, MarkerTypes
<1> QED BY <1>1, <1>2, <1>3, <1>4

\* The fields of a call
LEMMA Call ==
  ASSUME NEW a \in Calls
  PROVE  /\ a.pc \in {"idle", "insert", "stop_read"} \cup Using /\ a.orphan = FALSE
         /\ a.pc = "idle" => a.op = "none" /\ a.tag = NoTag
         /\ a.pc # "idle" => a.tag \in Tags
         /\ a.pc = "insert" => a.op \in {"register", "start"}
         /\ a.pc = "stop_read" => a.reg \in Nat
<1> DEFINE C1 == [pc : {"idle"}, op : {"none"}, tag : {NoTag}, orphan : {FALSE}]
           C2 == [pc : {"insert"}, op : {"register", "start"}, tag : Tags, orphan : {FALSE}]
           C3 == [pc : Before \cup {"stop_add"}, op : {"start", "stop"}, tag : Tags, orphan : {FALSE}]
           C4 == [pc : {"stop_read"}, op : {"stop"}, tag : Tags, orphan : {FALSE}, reg : Nat]
<1>1. CASE a \in C1
  BY <1>1
<1>2. CASE a \in C2
  BY <1>2
<1>3. CASE a \in C3
  BY <1>3 DEF Before, Using
<1>4. CASE a \in C4
  BY <1>4 DEF Using
<1> QED BY <1>1, <1>2, <1>3, <1>4 DEF Calls

\* One thread goes on in its call.
Goes(t, a) == at' \in [Team -> Calls] /\ at'[t] = a /\ \A u \in Team : u # t => at'[u] = at[u]
LEMMA Moved ==
  ASSUME MarkerInv, NEW t \in team, NEW a \in Calls, at' = [at EXCEPT ![t] = a]
  PROVE  Goes(t, a)
  BY Thread DEF Goes

\* The tag of a region in the active group
LEMMA RegionTag ==
  ASSUME MarkerInv, likwid_init, NEW r \in Regions[Cardinality(team)]
  PROVE  MyTag(r) \in Tags /\ MyTag(r)[2] = groupSet.activeGroup
<1>1. team \in Teams /\ groupSet.activeGroup \in DOMAIN GroupEvents
  BY DEF MarkerInv, LibraryInv, MarkerTypes
<1>2. r \in Names
  BY <1>1, MarkerBoundsAssumption DEF Names
<1> QED BY <1>1, <1>2 DEF MyTag, Tags

\* Threads that share a CPU: a stop excludes the others.
LEMMA FiniteTeam == MarkerTypes => IsFiniteSet(team)
  BY TeamsAssumption DEF MarkerTypes
LEMMA StopsAlone ==
  ASSUME MarkerInv, NEW t \in team, NEW u \in team, Together(t, u), Exact(cpuOf[t]),
         at[t].pc \in Stopping, at[u].pc \in Stopping
  PROVE  t = u
<1>1. use_locks => threadLocks[cpuOf[t]] = {t} /\ threadLocks[cpuOf[u]] = {u}
  BY DEF MarkerInv, ThreadInv, ThreadOK
<1>2. use_locks => t = u
  BY <1>1 DEF Together
<1> QED BY <1>2 DEF Exact, Together
\* The only thread of a CPU
LEMMA OnlySharer ==
  ASSUME MarkerInv, NEW t \in team, ~(Cardinality(Sharers(cpuOf[t])) > 1), NEW u \in team, Together(t, u)
  PROVE  u = t
<1> DEFINE S == Sharers(cpuOf[t])
<1>1. t \in S /\ u \in S /\ S \subseteq team
  BY DEF Sharers, Together
<1>2. IsFiniteSet(S) /\ Cardinality(S) \in Nat
  BY <1>1, FiniteTeam, FS_Subset, FS_CardinalityType DEF MarkerInv
<1>3. Cardinality(S) = 0 \/ Cardinality(S) = 1
  BY <1>2
<1> HIDE DEF S
<1>4. CASE Cardinality(S) = 0
  BY <1>1, <1>2, <1>4, FS_EmptySet
<1>5. CASE Cardinality(S) = 1
  BY <1>1, <1>2, <1>5, FS_Singleton
<1> QED BY <1>3, <1>4, <1>5
\* Where stops are serialised, they exclude one another.
LEMMA SerialExact ==
  ASSUME MarkerInv, NEW k, Serial(k)
  PROVE  Exact(k)
<1>1. CASE Cardinality(Sharers(k)) <= 1
  <2> SUFFICES ASSUME NEW t \in team, NEW u \in team, cpuOf[t] = k, cpuOf[u] = k PROVE t = u
    BY DEF Exact
  <2>1. Cardinality(Sharers(k)) \in Nat
    BY FiniteTeam, FS_Subset, FS_CardinalityType DEF MarkerInv, Sharers
  <2>2. ~(Cardinality(Sharers(cpuOf[t])) > 1)
    BY <1>1, <2>1
  <2> QED BY <2>2, OnlySharer DEF Together
<1>2. CASE use_locks
  BY <1>2 DEF Exact
<1> QED BY <1>1, <1>2 DEF Serial

\* The counters of the active group
LEMMA ActiveOK ==
  ASSUME MarkerInv, likwid_init
  PROVE  /\ Active \in Added(Now) /\ GroupOK(groupSet.groups[Active]) /\ LibType(Now)
         /\ ActiveEvents = GroupEvents[Active] /\ DOMAIN ActiveEvents \subseteq Counters
         /\ \A k \in Cpus, c \in DOMAIN ActiveEvents : CounterOK(c, Ctr(k, c)) /\ Ctr(k, c) \in PerfmonCounter /\ Ctr(k, c).init
<1>1. LibType(Now) /\ Active \in Added(Now) /\ GroupsAre(Now) /\ Active \in DOMAIN GroupEvents /\ GroupReady(Group(Now, Active))
  BY DEF MarkerInv, LibraryInv, Active
<1>2. Group(Now, Active) = groupSet.groups[Active]
  BY DEF Group, Now
<1>3. GroupOK(groupSet.groups[Active])
  BY <1>1, <1>2, AddedGroup
<1>4. ActiveEvents = GroupEvents[Active]
  BY <1>1, <1>2 DEF GroupsAre, ActiveEvents
<1>5. DOMAIN ActiveEvents \subseteq Counters
  BY <1>3, GroupFields DEF ActiveEvents
<1>6. \A k \in Cpus, c \in DOMAIN ActiveEvents : CounterOK(c, Ctr(k, c)) /\ Ctr(k, c) \in PerfmonCounter
  BY <1>3 DEF GroupOK, CounterOK, Cpus, ActiveEvents, Ctr, Active
<1>7. \A k \in Cpus, c \in DOMAIN ActiveEvents : Ctr(k, c).init
  BY <1>1, <1>2 DEF GroupReady, ActiveEvents, Ctr, Active
<1> QED BY <1>1, <1>3, <1>4, <1>5, <1>6, <1>7

\* A thread writes the entry of its region.
Writes(k, tag, e) ==
    /\ Tables(threadList') /\ \A j \in Cpus : DOMAIN threadList'[j] = TagsOf(j)
    /\ threadList'[k][tag] = e
    /\ \A j \in Cpus : \A x \in TagsOf(j) : j # k \/ x # tag => threadList'[j][x] = threadList[j][x]
LEMMA Written ==
  ASSUME MarkerInv, NEW t \in team, NEW k, k = cpuOf[t], NEW tag, tag = at[t].tag, at[t].pc \in Using
  PROVE  /\ k \in Cpus /\ tag \in TagsOf(k) /\ tag \in Tags /\ tag[2] = Active /\ likwid_init /\ AllPinned
         /\ threadList[k][tag] \in Entries /\ MyEntry(t) = threadList[k][tag]
         /\ \A e \in Entries : Update(t, e) => Writes(k, tag, e)
<1>1. k \in Cpus /\ at[t] \in Calls /\ t \in Team
  BY Thread DEF Using
<1>2. at[t].orphan = FALSE /\ tag \in Tags
  BY <1>1, Call DEF Using
<1>3. Known(k, tag) /\ likwid_init /\ AllPinned /\ tag[2] = groupSet.activeGroup
  BY DEF MarkerInv, ThreadInv, ThreadOK, Using
<1>4. tag \in TagsOf(k) /\ Tables(threadList) /\ MyEntry(t) = threadList[k][tag]
  BY <1>3 DEF Known, MarkerInv, MarkerTypes, MyEntry
<1>5. threadList[k][tag] \in Entries
  BY <1>1, <1>4 DEF Tables, TagsOf
<1>6. ASSUME NEW e \in Entries, Update(t, e)
      PROVE  Writes(k, tag, e)
  <2> DEFINE row == [threadList[k] EXCEPT ![tag] = e]
  <2>1. threadList' = [threadList EXCEPT ![k] = row]
    BY <1>2, <1>6 DEF Update
  <2>2. threadList[k] \in [TagsOf(k) -> Entries]
    BY <1>1, <1>4 DEF Tables, TagsOf
  <2>3. row \in [TagsOf(k) -> Entries] /\ row[tag] = e /\ DOMAIN row = TagsOf(k)
        /\ \A x \in TagsOf(k) : x # tag => row[x] = threadList[k][x]
    BY <1>4, <2>2
  <2> HIDE DEF row
  <2>4. threadList' = [j \in Cpus |-> threadList'[j]] /\ threadList'[k] = row /\ \A j \in Cpus : j # k => threadList'[j] = threadList[j]
    BY <1>1, <1>4, <2>1 DEF Tables
  <2>5. \A j \in Cpus : DOMAIN threadList'[j] = TagsOf(j) /\ threadList'[j] \in [TagsOf(j) -> Entries]
    BY <1>4, <2>3, <2>4 DEF Tables, TagsOf
  <2>6. Tables(threadList')
    BY <1>4, <2>4, <2>5 DEF Tables, TagsOf
  <2>7. \A j \in Cpus : \A x \in TagsOf(j) : j # k \/ x # tag => threadList'[j][x] = threadList[j][x]
    BY <2>3, <2>4
  <2> QED BY <2>3, <2>4, <2>5, <2>6, <2>7 DEF Writes
<1> QED BY <1>1, <1>2, <1>3, <1>4, <1>5, <1>6 DEF Active

\* What is written at a start and at a stop
LEMMA StartEntry ==
  ASSUME MarkerInv, likwid_init, NEW t, cpuOf[t] \in Cpus, NEW e \in Entries, NEW s, s = StartedEntry(t, e)
  PROVE  /\ s \in Entries /\ s.count = e.count /\ s.groupID = e.groupID /\ s.PMcounters = e.PMcounters /\ s.cpuID = cpuOf[t]
         /\ \A c \in DOMAIN ActiveEvents : s.StartPMcounters[c] = Ctr(cpuOf[t], c).counterData
                                           /\ s.StartOverflows[c] = Ctr(cpuOf[t], c).overflows
<1> DEFINE sp == [c \in Counters |-> IF c \in DOMAIN ActiveEvents THEN ActiveCounter(t, c).counterData ELSE e.StartPMcounters[c]]
           so == [c \in Counters |-> IF c \in DOMAIN ActiveEvents THEN ActiveCounter(t, c).overflows ELSE e.StartOverflows[c]]
           A1 == [e EXCEPT !.cpuID = cpuOf[t]]
           A2 == [A1 EXCEPT !.StartPMcounters = sp]
<1>1. \A c \in DOMAIN ActiveEvents : ActiveCounter(t, c) = Ctr(cpuOf[t], c) /\ Ctr(cpuOf[t], c) \in PerfmonCounter /\ c \in Counters
  BY ActiveOK DEF ActiveCounter, Ctr, Active
<1>2. \A c \in DOMAIN ActiveEvents : ActiveCounter(t, c).counterData \in Nat /\ ActiveCounter(t, c).overflows \in Nat
  BY <1>1 DEF PerfmonCounter
<1>3. sp \in [Counters -> Nat] /\ so \in [Counters -> Int]
  BY <1>2 DEF Entries
<1>4. cpuOf[t] \in Int
  BY DEF Cpus, Threads
<1>5. A1 \in Entries /\ A1.count = e.count /\ A1.groupID = e.groupID /\ A1.PMcounters = e.PMcounters /\ A1.cpuID = cpuOf[t]
      /\ A1.StartPMcounters = e.StartPMcounters /\ A1.StartOverflows = e.StartOverflows
  BY <1>4 DEF Entries
<1>6. s = [A2 EXCEPT !.StartOverflows = so]
  <2>1. e \in Entries
    OBVIOUS
  <2>2. StartedEntry(t, e) = [[[e EXCEPT !.cpuID = cpuOf[t]] EXCEPT !.StartPMcounters = sp] EXCEPT !.StartOverflows = so]
    BY DEF StartedEntry, Entries
  <2> QED BY <2>2
<1> HIDE DEF sp, so, A1
<1>7. A2 \in Entries /\ A2.count = A1.count /\ A2.groupID = A1.groupID /\ A2.PMcounters = A1.PMcounters /\ A2.cpuID = A1.cpuID
      /\ A2.StartPMcounters = sp
  BY <1>3, <1>5 DEF Entries
<1> HIDE DEF A2
<1>8. s \in Entries /\ s.count = A2.count /\ s.groupID = A2.groupID /\ s.PMcounters = A2.PMcounters /\ s.cpuID = A2.cpuID
      /\ s.StartPMcounters = sp /\ s.StartOverflows = so
  BY <1>3, <1>6, <1>7 DEF Entries
<1> QED BY <1>1, <1>5, <1>7, <1>8 DEF sp, so

LEMMA StopEntry ==
  ASSUME MarkerInv, likwid_init, NEW t, cpuOf[t] \in Cpus, NEW e \in Entries, NEW s, s = StoppedEntry(t, e)
  PROVE  /\ s \in Entries /\ s.count = e.count /\ s.groupID = e.groupID /\ s.cpuID = e.cpuID
         /\ \A c \in DOMAIN ActiveEvents : s.PMcounters[c] = e.PMcounters[c] +
              calculateMarkerResult(c, e.StartPMcounters[c], Ctr(cpuOf[t], c).counterData,
                                    Ctr(cpuOf[t], c).overflows - e.StartOverflows[c])
         /\ \A c \in Counters : c \notin DOMAIN ActiveEvents => s.PMcounters[c] = e.PMcounters[c]
<1> DEFINE R(c) == calculateMarkerResult(c, e.StartPMcounters[c], Ctr(cpuOf[t], c).counterData,
                                         Ctr(cpuOf[t], c).overflows - e.StartOverflows[c])
           pm == [c \in Counters |-> IF c \notin DOMAIN ActiveEvents THEN e.PMcounters[c] ELSE e.PMcounters[c] + R(c)]
<1>1. \A c \in DOMAIN ActiveEvents : ActiveCounter(t, c) = Ctr(cpuOf[t], c) /\ Ctr(cpuOf[t], c) \in PerfmonCounter /\ c \in Counters
  BY ActiveOK DEF ActiveCounter, Ctr, Active
<1>2. ASSUME NEW c \in DOMAIN ActiveEvents PROVE R(c) \in Int
  <2> DEFINE a == e.StartPMcounters[c]
             b == Ctr(cpuOf[t], c).counterData
             o == Ctr(cpuOf[t], c).overflows - e.StartOverflows[c]
             z == perfmon_getMaxCounterValue(c)
  <2>1. a \in Nat /\ b \in Nat /\ o \in Int
    BY <1>1 DEF PerfmonCounter, Entries
  <2>2. z \in Nat /\ Word \in Nat \ {0}
    BY Sizes, SizeAssumption DEF perfmon_getMaxCounterValue, Word
  <2> HIDE DEF a, b, o, z
  <2>3. (b - a) % Word \in Int /\ o * z \in Int /\ (o - 1) * z \in Int
    BY <2>1, <2>2
  <2>4. (z - a) + b + (o - 1) * z \in Int
    BY <2>1, <2>2, <2>3
  <2>5. calculateMarkerResult(c, a, b, o) \in Int
    BY <2>1, <2>3, <2>4 DEF calculateMarkerResult, z
  <2> QED BY <2>5 DEF a, b, o
<1>3. s = [e EXCEPT !.PMcounters = pm]
  BY <1>1 DEF StoppedEntry, Entries
<1> HIDE DEF R
<1>4. pm \in [Counters -> Int]
  BY <1>2 DEF Entries
<1>5. \A c \in DOMAIN ActiveEvents : pm[c] = e.PMcounters[c] + R(c)
  BY <1>1
<1>6. \A c \in Counters : c \notin DOMAIN ActiveEvents => pm[c] = e.PMcounters[c]
  OBVIOUS
<1> HIDE DEF pm
<1>7. s \in Entries /\ s.count = e.count /\ s.groupID = e.groupID /\ s.cpuID = e.cpuID /\ s.PMcounters = pm
  BY <1>3, <1>4 DEF Entries
<1> QED BY <1>5, <1>6, <1>7 DEF R


-----------------------------------------------------------------------------
(* The library in the steps of the Marker API *)

\* The library after a step
LibraryReady(x) == /\ LibType(x) /\ Added(x) = DOMAIN GroupEvents /\ GroupsAre(x)
                   /\ x.gs.activeGroup \in DOMAIN GroupEvents /\ GroupReady(Group(x, x.gs.activeGroup))
LEMMA LibraryNow ==
  ASSUME MarkerInv
  PROVE  /\ LibType(Now) /\ now \in 0 .. MaxTime /\ happened \in 0 .. MaxEvents /\ (likwid_init => LibraryReady(Now))
         /\ Now.gs = groupSet /\ Now.cpu = cpu
  BY DEF MarkerInv, LibraryInv, LibraryReady, Now

\* perfmon_readCountersCpu
LEMMA ReadNow ==
  ASSUME MarkerInv, likwid_init, NEW t \in team, cpuOf[t] \in Cpus, ReadCpu(t)
  PROVE  /\ LibraryReady(Now') /\ groupSet'.activeGroup = groupSet.activeGroup
         /\ \A k \in Cpus : cpu'[k].count = cpu[k].count /\ cpu'[k].status \subseteq cpu[k].status
         /\ \A k \in Cpus : k # cpuOf[t] => cpu'[k] = cpu[k]
         /\ \A k \in Cpus, c \in DOMAIN ActiveEvents :
              LET s == groupSet'.groups[Active].counters[k][c] IN
              /\ k # cpuOf[t] => s = Ctr(k, c)
              /\ k = cpuOf[t] /\ c \in Core => s.counterData = cpu[k].count[c] /\ s.overflows = Ctr(k, c).overflows + Unseen(k, c)
<1> DEFINE x == Now
           y == Read(Now, Active, {cpuOf[t]})
           g == Active
<1>1. LibType(x) /\ g \in Added(x) /\ LibraryReady(x) /\ x.gs.activeGroup = g /\ x.cpu = cpu /\ x.gs = groupSet
  BY ActiveOK, LibraryNow DEF Active
<1>2. Now' = y /\ groupSet' = y.gs /\ cpu' = y.cpu
  BY DEF ReadCpu, Becomes, Now, Read
<1> DEFINE G == ReadGroup(Group(x, g), x.cpu, {cpuOf[t]})
<1>3. /\ Replaced(x, y, g, G) /\ y.gs.activeGroup = x.gs.activeGroup
      /\ \A k \in Threads : y.cpu[k].count = x.cpu[k].count /\ y.cpu[k].status \subseteq x.cpu[k].status
                             /\ (k \notin {cpuOf[t]} => y.cpu[k] = x.cpu[k])
  <2> HIDE DEF x, y, g
  <2>1. LibType(x) /\ g \in Added(x) /\ y = Read(x, g, {cpuOf[t]})
    BY <1>1 DEF y, x, g
  <2> QED BY <2>1, ReadType
<1>4. G.events = Group(x, g).events /\ G.state = Group(x, g).state
  BY <1>1, AddedGroup, ReadG DEF LibType
<1>5. ActiveEvents = Group(x, g).events /\ GroupReady(Group(x, g))
  BY <1>1 DEF ActiveEvents, Group, LibraryReady
<1>6. ASSUME NEW k \in Threads, NEW c \in DOMAIN ActiveEvents
      PROVE  LET r == Group(x, g).counters[k][c]
                 s == Group(y, g).counters[k][c]
             IN /\ s.init
                /\ k \notin {cpuOf[t]} => s = r
                /\ k \in {cpuOf[t]} /\ c \in Core =>
                     /\ s.counterData = x.cpu[k].count[c]
                     /\ s.overflows = IF c \in x.cpu[k].status /\ x.cpu[k].count[c] < r.counterData
                                      THEN r.overflows + 1 ELSE r.overflows
  <2>1. c \in DOMAIN Group(x, g).events
    BY <1>5
  <2> HIDE DEF x, y, g
  <2>2. y = Read(x, g, {cpuOf[t]})
    BY DEF y, x, g
  <2>3. LibType(x) /\ g \in Added(x)
    BY <1>1
  <2>4. PICK K : K = {cpuOf[t]}
    OBVIOUS
  <2> QED BY <1>5, <2>1, <2>2, <2>3, <2>4, ReadCounters
<1>7. \A k \in Threads, c \in DOMAIN ActiveEvents : Group(x, g).counters[k][c] = Ctr(k, c)
      /\ Group(y, g).counters[k][c] = groupSet'.groups[Active].counters[k][c]
  BY <1>1, <1>2 DEF Ctr, Group, Active
<1> HIDE DEF x, y, g, G
<1>8. Added(y) = Added(x) /\ LibType(y) /\ Group(y, g) = G
  BY <1>3 DEF Replaced, Added
<1>9. GroupsAre(y)
  <2> SUFFICES ASSUME NEW h \in DOMAIN GroupEvents
               PROVE  Group(y, h).events = GroupEvents[h] /\ Group(y, h).state # "START"
    BY DEF GroupsAre
  <2>1. Group(x, h).events = GroupEvents[h] /\ Group(x, h).state # "START" /\ h \in Added(x)
    BY <1>1 DEF LibraryReady, GroupsAre
  <2>2. CASE h = g
    BY <1>4, <1>8, <2>1, <2>2
  <2>3. CASE h # g
    BY <1>3, <2>1, <2>3 DEF Replaced
  <2> QED BY <2>2, <2>3
<1>10. GroupReady(Group(y, g))
  BY <1>4, <1>5, <1>6, <1>8 DEF GroupReady, Cpus
<1>11. LibraryReady(y)
  BY <1>1, <1>3, <1>8, <1>9, <1>10 DEF LibraryReady
<1>12. ASSUME NEW k \in Cpus, NEW c \in DOMAIN ActiveEvents
       PROVE  LET s == groupSet'.groups[Active].counters[k][c] IN
              /\ k # cpuOf[t] => s = Ctr(k, c)
              /\ k = cpuOf[t] /\ c \in Core => s.counterData = cpu[k].count[c] /\ s.overflows = Ctr(k, c).overflows + Unseen(k, c)
  <2>1. k \in Threads /\ Ctr(k, c).overflows \in Nat
    BY ActiveOK DEF Cpus, PerfmonCounter
  <2>2. Ctr(k, c).overflows + 0 = Ctr(k, c).overflows
    BY <2>1
  <2> DEFINE s == groupSet'.groups[Active].counters[k][c]
             r == Ctr(k, c)
             lost == c \in cpu[k].status /\ cpu[k].count[c] < r.counterData
  <2>3. Group(x, g).counters[k][c] = r /\ Group(y, g).counters[k][c] = s /\ cpu = x.cpu
    BY <1>1, <1>7, <2>1
  <2>4. Unseen(k, c) = IF lost THEN 1 ELSE 0
    BY DEF Unseen
  <2>5. r.overflows \in Nat
    BY <2>1
  <2> HIDE DEF s, r
  <2>6. /\ k \notin {cpuOf[t]} => s = r
        /\ k \in {cpuOf[t]} /\ c \in Core =>
             s.counterData = cpu[k].count[c] /\ s.overflows = IF lost THEN r.overflows + 1 ELSE r.overflows
    BY <1>6, <2>1, <2>3
  <2> HIDE DEF lost
  <2>7. /\ k # cpuOf[t] => s = r
        /\ k = cpuOf[t] /\ c \in Core => s.counterData = cpu[k].count[c] /\ s.overflows = r.overflows + Unseen(k, c)
    BY <2>6, <2>4, <2>5
  <2> QED BY <2>7 DEF s, r
<1>13. \A k \in Cpus : /\ cpu'[k].count = cpu[k].count /\ cpu'[k].status \subseteq cpu[k].status
                       /\ k # cpuOf[t] => cpu'[k] = cpu[k]
  BY <1>1, <1>2, <1>3 DEF Cpus
<1> QED BY <1>1, <1>2, <1>3, <1>11, <1>12, <1>13

\* likwid_markerInit
LEMMA InitLibrary ==
  ASSUME MarkerInv, likwid_markerInit
  PROVE  LibraryReady(Now')
<1> DEFINE N(g) == NewGroup(GroupEvents[g], 0)
           es == GroupEvents[0]
           cs == [t \in Threads |-> [c \in DOMAIN N(0).events |-> [N(0).counters[t][c] EXCEPT !.init = TRUE]]]
           K == [N(0) EXCEPT !.counters = cs]
           F == [g \in DOMAIN GroupEvents |-> IF g = 0 THEN K ELSE N(g)]
           gs == [numberOfGroups |-> numberOfGroups, numberOfActiveGroups |-> numberOfGroups, activeGroup |-> 0, groups |-> F]
<1>1. groupSet' = gs /\ cpu' = cpu
  BY DEF likwid_markerInit
<1>2. numberOfGroups \in Nat /\ numberOfGroups > 0 /\ numberOfGroups <= MaxGroups /\ MaxGroups \in Nat
      /\ DOMAIN GroupEvents = 0 .. numberOfGroups - 1 /\ 0 \in DOMAIN GroupEvents /\ 0 \in 0 .. MaxTime
  BY GroupEventsAssumption, PerfmonBoundsAssumption
<1>3. \A g \in DOMAIN GroupEvents : /\ N(g).state = "NONE" /\ N(g).events = GroupEvents[g] /\ GroupOK(N(g))
                                    /\ \A t \in Threads, c \in DOMAIN GroupEvents[g] : N(g).counters[t][c] = NewCounter
  BY <1>2, FreshGroup, GroupEventsAssumption
<1> HIDE DEF N
<1>4. N(0) \in GroupRecord(es) /\ N(0).events = es /\ es \in EventSets /\ N(0).state = "NONE"
  BY <1>2, <1>3 DEF GroupOK
<1>5. ASSUME NEW t \in Threads, NEW c \in DOMAIN es
      PROVE  cs[t][c].init /\ cs[t][c] \in PerfmonCounter /\ CounterOK(c, cs[t][c])
  <2> DEFINE r == [NewCounter EXCEPT !.init = TRUE]
  <2>1. cs[t][c] = r
    BY <1>2, <1>3, <1>4
  <2>2. NewCounter \in PerfmonCounter /\ NewCounter.startData = 0 /\ NewCounter.counterData = 0
    BY DEF NewCounter, PerfmonCounter
  <2> HIDE DEF cs, NewCounter
  <2>3. r.init /\ r \in PerfmonCounter /\ r.startData = 0 /\ r.counterData = 0
    BY <2>2 DEF PerfmonCounter
  <2>4. 0 < Size(c)
    BY Sizes
  <2> QED BY <2>1, <2>3, <2>4 DEF CounterOK
<1>6. cs = [t \in Threads |-> [c \in DOMAIN es |-> cs[t][c]]]
  BY <1>4
<1> HIDE DEF cs
<1>7. cs \in [Threads -> [DOMAIN es -> PerfmonCounter]]
  BY <1>5, <1>6
<1>8. K \in GroupRecord(es) /\ K.events = es /\ K.state = "NONE" /\ K.counters = cs
  BY <1>4, <1>7 DEF GroupRecord
<1> HIDE DEF K
<1>9. GroupOK(K) /\ GroupReady(K)
  BY <1>4, <1>5, <1>8 DEF GroupOK, GroupReady, Cpus
<1>10. \A g \in DOMAIN GroupEvents : GroupOK(F[g]) /\ F[g].events = GroupEvents[g] /\ F[g].state # "START"
  <2> SUFFICES ASSUME NEW g \in DOMAIN GroupEvents
               PROVE  GroupOK(F[g]) /\ F[g].events = GroupEvents[g] /\ F[g].state # "START"
    OBVIOUS
  <2>1. CASE g = 0
    BY <1>8, <1>9, <2>1
  <2>2. CASE g # 0
    BY <1>3, <2>2
  <2> QED BY <2>1, <2>2
<1>11. F[0] = K /\ F = [g \in 0 .. numberOfGroups - 1 |-> F[g]]
  BY <1>2
<1> HIDE DEF F
<1>12. SetOK(gs) /\ gs.groups = F /\ gs.activeGroup = 0 /\ gs.numberOfActiveGroups = numberOfGroups
  BY <1>2, <1>10, <1>11 DEF SetOK
<1> HIDE DEF gs
<1>13. Now'.gs = gs /\ Now'.cpu = cpu
  BY <1>1 DEF Now
<1>14. LibType(Now')
  BY <1>12, <1>13, LibraryNow DEF LibType
<1>15. Added(Now') = DOMAIN GroupEvents /\ \A g : Group(Now', g) = F[g]
  BY <1>2, <1>12, <1>13 DEF Added, Group
<1>16. GroupsAre(Now')
  BY <1>10, <1>15 DEF GroupsAre
<1>17. Now'.gs.activeGroup = 0 /\ GroupReady(Group(Now', 0))
  BY <1>9, <1>11, <1>12, <1>13, <1>15
<1> QED BY <1>2, <1>14, <1>15, <1>16, <1>17 DEF LibraryReady

\* likwid_markerNextGroup
LEMMA SwitchLibrary ==
  ASSUME MarkerInv, likwid_markerNextGroup
  PROVE  LibraryReady(Now')
<1> DEFINE g == (Active + 1) % numberOfGroups
           y == Switch(Now, g)
<1>1. likwid_init /\ groupSet' = y.gs /\ cpu' = y.cpu
  BY DEF likwid_markerNextGroup, Becomes
<1>2. LibraryReady(Now) /\ now \in 0 .. MaxTime /\ Active = Now.gs.activeGroup
  BY <1>1, LibraryNow DEF Active
<1>3. Dormant(Now)
  BY <1>2 DEF Dormant, LibraryReady, GroupsAre
<1>4. g \in Added(Now)
  <2>1. Active \in Nat /\ numberOfGroups \in Nat \ {0} /\ DOMAIN GroupEvents = 0 .. numberOfGroups - 1
    BY <1>2, GroupEventsAssumption, PerfmonBoundsAssumption DEF LibraryReady
  <2>2. g \in 0 .. numberOfGroups - 1
    BY <2>1, DivMod
  <2> QED BY <1>2, <2>1, <2>2 DEF LibraryReady
<1> HIDE DEF g
<1>5. Dormant(y) /\ SameEvents(Now, y) /\ y.gs.activeGroup = g /\ GroupReady(Group(y, g))
  BY <1>2, <1>3, <1>4, DormantSwitch
<1>6. Now'.gs = y.gs /\ Now'.cpu = y.cpu
  BY <1>1 DEF Now
<1> HIDE DEF y
<1>7. LibType(Now') /\ Added(Now') = Added(y) /\ \A h : Group(Now', h) = Group(y, h)
  BY <1>5, <1>6 DEF Dormant, LibType, Added, Group
<1>8. \A h \in Added(Now) : Group(y, h).events = GroupEvents[h] /\ Group(y, h).state # "START"
  BY <1>2, <1>5 DEF Dormant, SameEvents, LibraryReady, GroupsAre
<1> QED BY <1>2, <1>4, <1>5, <1>6, <1>7, <1>8 DEF LibraryReady, GroupsAre, SameEvents


\* An event on a CPU
LEMMA EventNow ==
  ASSUME MarkerInv, NEW k \in Cpus, NEW e \in Flags, MarkerEvent(k, e)
  PROVE  /\ likwid_init /\ LibraryReady(Now') /\ groupSet' = groupSet /\ happened' = happened + 1 /\ happened' \in 0 .. MaxEvents
         /\ \A j \in Cpus : cpu'[j] = IF j \in Where(k, e) THEN EventOn(cpu[j], e) ELSE cpu[j]
<1>1. /\ likwid_init /\ groupSet' = groupSet /\ happened' = happened + 1 /\ happened < MaxEvents
      /\ cpu' = [j \in Cpus |-> IF j \in Where(k, e) THEN EventOn(cpu[j], e) ELSE cpu[j]]
  BY DEF MarkerEvent
<1>2. LibraryReady(Now) /\ Now.gs = groupSet /\ Now.cpu = cpu /\ Now'.gs = groupSet /\ Now'.cpu = cpu' /\ happened \in 0 .. MaxEvents
  BY <1>1, LibraryNow DEF Now
<1>3. \A j \in Cpus : CpuOK(cpu[j])
  BY <1>2 DEF LibraryReady, LibType, Cpus
<1>4. ASSUME NEW j \in Cpus PROVE CpuOK(cpu'[j])
  BY <1>1, <1>3, EventCpu
<1>5. LibType(Now')
  BY <1>1, <1>2, <1>4 DEF LibraryReady, LibType, Cpus
<1>6. Added(Now') = Added(Now) /\ \A g : Group(Now', g) = Group(Now, g)
  BY <1>2 DEF Added, Group
<1>7. GroupsAre(Now')
  BY <1>2, <1>6 DEF LibraryReady, GroupsAre
<1>8. LibraryReady(Now')
  BY <1>2, <1>5, <1>6, <1>7 DEF LibraryReady
<1>9. happened' \in 0 .. MaxEvents
  BY <1>1, <1>2, PerfmonBoundsAssumption
<1> QED BY <1>1, <1>8, <1>9

-----------------------------------------------------------------------------
(* What the steps do.  A thread that calls: *)

Calling(t, m) == /\ likwid_init /\ cpuOf[t] \in Cpus /\ cpuOf[t] # -1 /\ t \in Team /\ at[t].pc = "idle" /\ at[t].tag = NoTag /\ NoTag \notin Tags
                 /\ m \in Tags /\ m[2] = groupSet.activeGroup
LEMMA Caller ==
  ASSUME MarkerInv, NEW t \in team, Ready(t), NEW r \in Regions[Cardinality(team)]
  PROVE  Calling(t, MyTag(r))
<1>1. likwid_init /\ cpuOf[t] \in Cpus /\ cpuOf[t] # -1 /\ at[t].pc = "idle" /\ t \in Team
  BY Thread DEF Ready
<1>2. at[t].tag = NoTag
  BY <1>1, Thread, Call
<1>3. NoTag \notin Tags
  BY DEF NoTag, Tags
<1> QED BY <1>1, <1>2, <1>3, RegionTag DEF Calling

LEMMA RegisterDoes ==
  ASSUME MarkerInv, NEW t \in team, NEW r \in Regions[Cardinality(team)], likwid_markerRegisterRegion(t, r), NEW m, m = MyTag(r)
  PROVE  /\ Calling(t, m) /\ ~Known(cpuOf[t], m)
         /\ Goes(t, [pc |-> "insert", op |-> "register", tag |-> m, orphan |-> FALSE])
<1>1. Ready(t) /\ ~Known(cpuOf[t], m) /\ Lookup(t, "register", m, "idle")
  BY DEF likwid_markerRegisterRegion
<1> DEFINE a == [pc |-> "insert", op |-> "register", tag |-> m, orphan |-> FALSE]
<1>2. at' = [at EXCEPT ![t] = a]
  BY <1>1 DEF Lookup
<1>3. Calling(t, m)
  BY <1>1, Caller
<1>4. a \in Calls
  BY <1>3 DEF Calls, Calling
<1> HIDE DEF a
<1>5. Goes(t, a)
  BY <1>2, <1>4, Moved
<1> QED BY <1>1, <1>3, <1>5 DEF a

LEMMA StartDoes ==
  ASSUME RegisterFirst, MarkerInv, NEW t \in team, NEW r \in Regions[Cardinality(team)], likwid_markerStartRegion(t, r),
         NEW m, m = MyTag(r)
  PROVE  /\ Calling(t, m) /\ AllPinned /\ m \notin inside[t]
         /\ Goes(t, [pc |-> IF Known(cpuOf[t], m) THEN "start_read" ELSE "insert", op |-> "start", tag |-> m, orphan |-> FALSE])
         /\ \A u \in team : u # t /\ Together(t, u) => Known(cpuOf[t], m) /\ ~(at[u].pc = "insert" /\ at[u].tag = m)
<1>1. Ready(t) /\ AppMayStart(t, r) /\ m \notin inside[t] /\ Lookup(t, "start", m, "start_read")
  BY DEF likwid_markerStartRegion
<1> DEFINE a == [pc |-> IF Known(cpuOf[t], m) THEN "start_read" ELSE "insert", op |-> "start", tag |-> m, orphan |-> FALSE]
<1>2. at' = [at EXCEPT ![t] = a]
  BY <1>1 DEF Lookup
<1>3. Calling(t, m)
  BY <1>1, Caller
<1>4. a \in Calls
  BY <1>3 DEF Calls, Calling, Before
<1> HIDE DEF a
<1>5. Goes(t, a)
  BY <1>2, <1>4, Moved
<1>6. ASSUME NEW u \in team, u # t, Together(t, u)
      PROVE  Known(cpuOf[t], m) /\ ~(at[u].pc = "insert" /\ at[u].tag = m)
  <2>1. Cardinality(Sharers(cpuOf[t])) > 1
    BY <1>6, OnlySharer
  <2>2. Known(cpuOf[t], m) /\ ~Busy(cpuOf[t], m)
    BY <1>1, <2>1 DEF AppMayStart
  <2> QED BY <1>6, <2>2 DEF Busy, Sharers, Together
<1> QED BY <1>1, <1>3, <1>5, <1>6 DEF a, AppMayStart, AllPinned

LEMMA StopDoes ==
  ASSUME MarkerInv, NEW t \in team, NEW r \in Regions[Cardinality(team)], likwid_markerStopRegion(t, r), NEW m, m = MyTag(r)
  PROVE  /\ Calling(t, m) /\ m \in inside[t]
         /\ Goes(t, [pc |-> "lock", op |-> "stop", tag |-> m, orphan |-> FALSE])
<1>1. Ready(t) /\ m \in inside[t] /\ at' = [at EXCEPT ![t] = [pc |-> "lock", op |-> "stop", tag |-> m, orphan |-> FALSE]]
  BY DEF likwid_markerStopRegion
<1> DEFINE a == [pc |-> "lock", op |-> "stop", tag |-> m, orphan |-> FALSE]
<1>2. at' = [at EXCEPT ![t] = a]
  BY <1>1
<1>3. Calling(t, m)
  BY <1>1, Caller
<1>4. a \in Calls
  BY <1>3 DEF Calls, Calling, Before
<1> HIDE DEF a
<1>5. Goes(t, a)
  BY <1>2, <1>4, Moved
<1> QED BY <1>1, <1>3, <1>5 DEF a


\* A thread in its call
Inserts(k, tag, e) ==
    /\ Tables(threadList') /\ \A j \in Cpus : DOMAIN threadList'[j] = IF j = k THEN TagsOf(j) \cup {tag} ELSE TagsOf(j)
    /\ threadList'[k][tag] = e
    /\ \A j \in Cpus : \A x \in TagsOf(j) : j # k \/ x # tag => threadList'[j][x] = threadList[j][x]
LEMMA InsertDoes ==
  ASSUME MarkerInv, NEW t \in team, NEW garbage \in Garbage, hashTable_insert(t, garbage),
         NEW k, k = cpuOf[t], NEW tag, tag = at[t].tag
  PROVE  /\ k \in Cpus /\ tag \in Tags /\ at[t].pc = "insert" /\ at[t].op \in {"register", "start"}
         /\ Goes(t, at'[t]) /\ (at[t].op = "register" => at'[t] = Idle)
         /\ (at[t].op = "start" => at'[t].pc = "start_read" /\ at'[t].tag = tag)
         /\ Inserts(k, tag, NewEntry(garbage)) /\ NewEntry(garbage) \in Entries
<1>1. at[t].pc = "insert"
  BY DEF hashTable_insert
<1>2. k \in Cpus /\ at[t] \in Calls /\ at \in [Team -> Calls] /\ t \in Team /\ -1 \notin Cpus
  BY <1>1, Thread
<1>3. at[t].op \in {"register", "start"} /\ tag \in Tags /\ at[t].orphan = FALSE
  BY <1>1, <1>2, Call
<1> DEFINE loses == {u \in Team \ {t} : cpuOf[u] = k /\ at[u].tag = tag /\ at[u].pc # "insert" /\ at[u].pc # "lock"}
           next == CASE at[t].op = "start" -> "start_read" [] at[t].op = "stop" -> "stop_count" [] OTHER -> "idle"
<1>4. /\ threadList' = [threadList EXCEPT ![k] = [x \in TagsOf(k) \cup {tag} |->
                           IF x = tag THEN NewEntry(garbage) ELSE threadList[k][x]]]
      /\ at' = [u \in Team |-> IF u = t THEN IF next = "idle" THEN Idle ELSE [at[t] EXCEPT !.pc = next]
                               ELSE IF u \in loses THEN [at[u] EXCEPT !.orphan = TRUE] ELSE at[u]]
  BY DEF hashTable_insert
<1>5. loses = {}
  <2> SUFFICES ASSUME NEW u \in Team, u # t, cpuOf[u] = k, at[u].tag = tag, at[u].pc # "insert" PROVE FALSE
    OBVIOUS
  <2>1. u \in team
    BY <1>2 DEF MarkerInv, PinInv
  <2>2. at[u] \in Calls
    BY <1>2
  <2>3. at[u].pc # "idle"
    <3>1. NoTag \notin Tags
      BY DEF NoTag, Tags
    <3> QED BY <1>3, <2>2, <3>1, Call
  <2>4. at[u].pc \in Using
    BY <2>2, <2>3, Call DEF Using
  <2>5. Together(t, u) => (at[u].pc \in Using => at[u].tag # at[t].tag)
    BY <1>1, <2>1 DEF MarkerInv, ThreadInv, Creating
  <2> QED BY <2>4, <2>5 DEF Together
<1>6. next = IF at[t].op = "register" THEN "idle" ELSE "start_read"
  BY <1>3
<1> DEFINE a == IF next = "idle" THEN Idle ELSE [at[t] EXCEPT !.pc = next]
<1>7. /\ a \in Calls /\ (at[t].op = "register" => a = Idle)
      /\ (at[t].op = "start" => a.pc = "start_read" /\ a.tag = tag)
  <2>1. CASE at[t].op = "register"
    <3>1. a = Idle
      BY <1>6, <2>1
    <3>2. Idle \in Calls
      BY DEF Idle, Calls
    <3> QED BY <2>1, <3>1, <3>2
  <2>2. CASE at[t].op = "start"
    <3>1. at[t] \in [pc : {"insert"}, op : {"register", "start"}, tag : Tags, orphan : {FALSE}]
      BY <1>1, <1>2 DEF Calls, Before
    <3>2. a = [at[t] EXCEPT !.pc = "start_read"]
      BY <1>6, <2>2
    <3> HIDE DEF a, next
    <3>3. a \in [pc : Before \cup {"stop_add"}, op : {"start", "stop"}, tag : Tags, orphan : {FALSE}] /\ a.pc = "start_read" /\ a.tag = tag
      BY <2>2, <3>1, <3>2 DEF Before
    <3> QED BY <2>2, <3>3 DEF Calls
  <2> QED BY <1>3, <2>1, <2>2
<1>9. at' = [u \in Team |-> IF u = t THEN a ELSE at[u]]
  BY <1>4, <1>5
<1> HIDE DEF a, loses, next
<1>10. Goes(t, a) /\ at'[t] = a
  BY <1>2, <1>7, <1>9 DEF Goes
<1>11. NewEntry(garbage) \in Entries
  BY MarkerBoundsAssumption DEF NewEntry, Entries
<1> DEFINE row == [x \in TagsOf(k) \cup {tag} |-> IF x = tag THEN NewEntry(garbage) ELSE threadList[k][x]]
<1> HIDE DEF NewEntry
<1>12. Tables(threadList)
  BY DEF MarkerInv, MarkerTypes
<1>13. row \in [TagsOf(k) \cup {tag} -> Entries] /\ DOMAIN row = TagsOf(k) \cup {tag} /\ row[tag] = NewEntry(garbage)
       /\ \A x \in TagsOf(k) : x # tag => row[x] = threadList[k][x]
  BY <1>2, <1>11, <1>12 DEF Tables, TagsOf
<1>14. threadList' = [threadList EXCEPT ![k] = row]
  BY <1>4
<1> HIDE DEF row
<1>15. threadList' = [j \in Cpus |-> threadList'[j]] /\ threadList'[k] = row /\ \A j \in Cpus : j # k => threadList'[j] = threadList[j]
  BY <1>2, <1>12, <1>14 DEF Tables
<1>16. IsFiniteSet(TagsOf(k) \cup {tag}) /\ TagsOf(k) \cup {tag} \subseteq Tags
  <2>1. IsFiniteSet(TagsOf(k)) /\ TagsOf(k) \subseteq Tags
    BY <1>2, <1>12 DEF Tables, TagsOf
  <2> QED BY <1>3, <2>1, FS_AddElement
<1>17. \A j \in Cpus : DOMAIN threadList'[j] = IF j = k THEN TagsOf(j) \cup {tag} ELSE TagsOf(j)
  BY <1>13, <1>15 DEF TagsOf
<1>18. ASSUME NEW j \in Cpus
       PROVE  DOMAIN threadList'[j] \subseteq Tags /\ IsFiniteSet(DOMAIN threadList'[j]) /\ threadList'[j] \in [DOMAIN threadList'[j] -> Entries]
  <2>1. CASE j = k
    BY <1>13, <1>15, <1>16, <2>1
  <2>2. CASE j # k
    BY <1>12, <1>15, <2>2 DEF Tables
  <2> QED BY <2>1, <2>2
<1>19. Tables(threadList')
  BY <1>15, <1>18 DEF Tables
<1>20. \A j \in Cpus : \A x \in TagsOf(j) : j # k \/ x # tag => threadList'[j][x] = threadList[j][x]
  BY <1>13, <1>15
<1>21. Inserts(k, tag, NewEntry(garbage))
  BY <1>13, <1>15, <1>17, <1>19, <1>20 DEF Inserts
<1> QED BY <1>1, <1>2, <1>3, <1>7, <1>10, <1>11, <1>21

\* What holds of a thread that uses an entry
InUse(t, k, tag) == k = cpuOf[t] /\ tag = at[t].tag /\ k \in Cpus /\ k # -1 /\ tag \in Tags /\ tag \in TagsOf(k) /\ tag[2] = groupSet.activeGroup
                    /\ likwid_init /\ t \in Team /\ threadList[k][tag] \in Entries /\ AllPinned
LEMMA Uses ==
  ASSUME MarkerInv, NEW t \in team, at[t].pc \in Using
  PROVE  InUse(t, cpuOf[t], at[t].tag) /\ at[t].orphan = FALSE /\ at[t] \in Calls
<1>1. t \in Team /\ at[t] \in Calls /\ cpuOf[t] # -1
  BY Thread DEF Using
<1>2. at[t].orphan = FALSE
  BY <1>1, Call
<1> QED BY <1>1, <1>2, Written DEF InUse, Active

LEMMA StartReadDoes ==
  ASSUME MarkerInv, NEW t \in team, start_read(t), NEW k, k = cpuOf[t], NEW tag, tag = at[t].tag
  PROVE  /\ InUse(t, k, tag) /\ at[t].pc = "start_read" /\ ReadCpu(t)
         /\ at'[t].pc = "start_store" /\ at'[t].tag = tag /\ Goes(t, at'[t])
         /\ inside' = [inside EXCEPT ![t] = inside[t] \cup {tag}]
<1>1. at[t].pc = "start_read" /\ ReadCpu(t) /\ at' = [at EXCEPT ![t] = [at[t] EXCEPT !.pc = "start_store"]]
      /\ inside' = [inside EXCEPT ![t] = inside[t] \cup {tag}]
  BY DEF start_read, Goto
<1>2. InUse(t, k, tag) /\ at[t] \in Calls
  BY <1>1, Uses DEF Using
<1> DEFINE a == [at[t] EXCEPT !.pc = "start_store"]
<1>3. a \in Calls /\ a.pc = "start_store" /\ a.tag = tag
  <2>1. at[t] \in [pc : Before \cup {"stop_add"}, op : {"start", "stop"}, tag : Tags, orphan : {FALSE}]
    BY <1>1, <1>2 DEF Calls
  <2>2. a \in [pc : Before \cup {"stop_add"}, op : {"start", "stop"}, tag : Tags, orphan : {FALSE}] /\ a.pc = "start_store" /\ a.tag = tag
    BY <2>1 DEF Before
  <2> HIDE DEF a
  <2> QED BY <2>2 DEF Calls
<1>4. at' = [at EXCEPT ![t] = a]
  BY <1>1
<1> HIDE DEF a
<1>5. Goes(t, a)
  BY <1>3, <1>4, Moved
<1> QED BY <1>1, <1>2, <1>3, <1>5 DEF Goes

LEMMA StoreDoes ==
  ASSUME MarkerInv, NEW t \in team, start_store(t), NEW k, k = cpuOf[t], NEW tag, tag = at[t].tag
  PROVE  /\ InUse(t, k, tag) /\ at[t].pc = "start_store" /\ Goes(t, Idle)
         /\ Writes(k, tag, StartedEntry(t, threadList[k][tag]))
<1>1. at[t].pc = "start_store" /\ at' = [at EXCEPT ![t] = Idle] /\ Update(t, StartedEntry(t, MyEntry(t)))
  BY DEF start_store, Return
<1>2. InUse(t, k, tag) /\ MyEntry(t) = threadList[k][tag]
  BY <1>1, Uses DEF Using, MyEntry
<1>3. Idle \in Calls
  BY DEF Idle, Calls
<1> HIDE DEF Idle
<1>4. Goes(t, Idle)
  BY <1>1, <1>3, Moved
<1> DEFINE e == StartedEntry(t, threadList[k][tag])
<1>5. e \in Entries
  BY <1>2, StartEntry DEF InUse
<1>6. Update(t, e)
  BY <1>1, <1>2
<1> HIDE DEF e
<1>7. Writes(k, tag, e)
  BY <1>1, <1>5, <1>6, Written DEF Using
<1> QED BY <1>1, <1>2, <1>4, <1>7 DEF e


LEMMA LookupDoes ==
  ASSUME MarkerInv, NEW t \in team, stop_lookup(t), NEW k, k = cpuOf[t], NEW tag, tag = at[t].tag
  PROVE  /\ InUse(t, k, tag) /\ at[t].pc = "lock" /\ (use_locks => threadLocks[k] = {})
         /\ threadLocks' = IF use_locks THEN [threadLocks EXCEPT ![k] = {t}] ELSE threadLocks
         /\ Goes(t, [pc |-> "stop_count", op |-> "stop", tag |-> tag, orphan |-> FALSE])
<1>1. /\ at[t].pc = "lock" /\ (use_locks => threadLocks[k] = {}) /\ Lookup(t, "stop", tag, "stop_count")
      /\ threadLocks' = IF use_locks THEN [threadLocks EXCEPT ![k] = {t}] ELSE threadLocks
  BY DEF stop_lookup
<1>2. InUse(t, k, tag)
  BY <1>1, Uses DEF Using
<1> DEFINE a == [pc |-> "stop_count", op |-> "stop", tag |-> tag, orphan |-> FALSE]
<1>3. at' = [at EXCEPT ![t] = a]
  BY <1>1, <1>2 DEF Lookup, Known, InUse
<1>4. a \in Calls
  BY <1>2 DEF Calls, InUse, Before
<1> HIDE DEF a
<1>5. Goes(t, a)
  BY <1>3, <1>4, Moved
<1> QED BY <1>1, <1>2, <1>5 DEF a

LEMMA CountDoes ==
  ASSUME MarkerInv, NEW t \in team, stop_count(t), NEW k, k = cpuOf[t], NEW tag, tag = at[t].tag
  PROVE  /\ InUse(t, k, tag) /\ at[t].pc = "stop_count"
         /\ Goes(t, [pc |-> "stop_read", op |-> "stop", tag |-> tag, orphan |-> FALSE, reg |-> threadList[k][tag].count])
<1>1. at[t].pc = "stop_count"
  BY DEF stop_count
<1>2. InUse(t, k, tag) /\ at[t].orphan = FALSE /\ MyEntry(t) = threadList[k][tag] /\ at \in [Team -> Calls]
  BY <1>1, Uses, Thread DEF Using, MyEntry
<1> DEFINE n == threadList[k][tag].count
           a == [pc |-> "stop_read", op |-> "stop", tag |-> tag, orphan |-> FALSE, reg |-> n]
           b == [pc |-> "stop_read", op |-> "stop", tag |-> at[t].tag, orphan |-> at[t].orphan,
                 reg |-> IF at[t].orphan THEN 0 ELSE MyEntry(t).count]
<1>3. at' = [at EXCEPT ![t] = b]
  BY DEF stop_count
<1>4. n \in Nat
  BY <1>2 DEF InUse, Entries
<1>5. b = a
  BY <1>2
<1> HIDE DEF n, b
<1>6. a \in Calls
  BY <1>2, <1>4 DEF Calls, InUse
<1> HIDE DEF a
<1>7. Goes(t, a)
  BY <1>3, <1>5, <1>6, Moved
<1> QED BY <1>1, <1>2, <1>7 DEF a, n

\* only the group and the count of the entry change
Counted(old, new, g, n) == /\ new.groupID = g /\ new.count = n /\ new.cpuID = old.cpuID /\ new.PMcounters = old.PMcounters
                           /\ new.StartPMcounters = old.StartPMcounters /\ new.StartOverflows = old.StartOverflows
LEMMA StopReadDoes ==
  ASSUME MarkerInv, NEW t \in team, stop_read(t), NEW k, k = cpuOf[t], NEW tag, tag = at[t].tag
  PROVE  /\ InUse(t, k, tag) /\ at[t].pc = "stop_read" /\ ReadCpu(t) /\ at[t].reg \in Nat
         /\ Writes(k, tag, threadList'[k][tag])
         /\ Counted(threadList[k][tag], threadList'[k][tag], tag[2], at[t].reg + 1)
         /\ inside' = [inside EXCEPT ![t] = inside[t] \ {tag}]
         /\ Goes(t, [pc |-> "stop_add", op |-> "stop", tag |-> tag, orphan |-> FALSE])
<1>1. at[t].pc = "stop_read" /\ ReadCpu(t) /\ inside' = [inside EXCEPT ![t] = inside[t] \ {tag}]
  BY DEF stop_read
<1>2. InUse(t, k, tag) /\ at[t].orphan = FALSE /\ at[t] \in Calls /\ MyEntry(t) = threadList[k][tag] /\ at \in [Team -> Calls]
      /\ Active = tag[2]
  BY <1>1, Uses, Thread DEF Using, MyEntry, InUse, Active
<1>3. at[t].reg \in Nat
  BY <1>1, <1>2, Call
<1>4. tag[2] \in Int
  BY <1>2, GroupEventsAssumption DEF InUse, Tags
<1> DEFINE old == threadList[k][tag]
           mid == [old EXCEPT !.groupID = tag[2]]
           n == at[t].reg + 1
           e == [old EXCEPT !.groupID = tag[2], !.count = n]
<1>5. old \in Entries /\ e = [mid EXCEPT !.count = n] /\ n \in Nat
  BY <1>2, <1>3 DEF InUse
<1> HIDE DEF old, n
<1>6. mid \in Entries /\ mid.groupID = tag[2] /\ mid.cpuID = old.cpuID /\ mid.PMcounters = old.PMcounters
      /\ mid.StartPMcounters = old.StartPMcounters /\ mid.StartOverflows = old.StartOverflows
  BY <1>4, <1>5 DEF Entries
<1> HIDE DEF mid
<1>7. e \in Entries /\ e.count = n /\ e.groupID = mid.groupID /\ e.cpuID = mid.cpuID /\ e.PMcounters = mid.PMcounters
      /\ e.StartPMcounters = mid.StartPMcounters /\ e.StartOverflows = mid.StartOverflows
  BY <1>5, <1>6 DEF Entries
<1>8. Update(t, e)
  BY <1>2 DEF stop_read, old, n
<1> HIDE DEF e
<1>9. Writes(k, tag, e) /\ threadList'[k][tag] = e
  BY <1>1, <1>7, <1>8, Written DEF Using, Writes
<1> DEFINE a == [pc |-> "stop_add", op |-> "stop", tag |-> tag, orphan |-> FALSE]
           b == [pc |-> "stop_add", op |-> "stop", tag |-> at[t].tag, orphan |-> at[t].orphan]
<1>10. at' = [at EXCEPT ![t] = b]
  BY DEF stop_read
<1>11. b = a
  BY <1>2
<1> HIDE DEF b
<1>12. a \in Calls
  BY <1>2 DEF Calls, InUse
<1> HIDE DEF a
<1>13. Goes(t, a)
  BY <1>10, <1>11, <1>12, Moved
<1> QED BY <1>1, <1>2, <1>3, <1>6, <1>7, <1>9, <1>13 DEF a, old, n, Counted

OneMore(k, tag) == /\ stops' \in [Cpus -> [Tags -> Nat]] /\ stops'[k][tag] = stops[k][tag] + 1
                   /\ \A j \in Cpus, x \in Tags : j # k \/ x # tag => stops'[j][x] = stops[j][x]
LEMMA AddDoes ==
  ASSUME MarkerInv, NEW t \in team, stop_add(t), NEW k, k = cpuOf[t], NEW tag, tag = at[t].tag
  PROVE  /\ InUse(t, k, tag) /\ at[t].pc = "stop_add" /\ Goes(t, Idle)
         /\ Writes(k, tag, StoppedEntry(t, threadList[k][tag]))
         /\ threadLocks' = IF use_locks THEN [threadLocks EXCEPT ![k] = {}] ELSE threadLocks
         /\ OneMore(k, tag)
<1>1. /\ at[t].pc = "stop_add" /\ at' = [at EXCEPT ![t] = Idle] /\ Update(t, StoppedEntry(t, MyEntry(t)))
      /\ threadLocks' = IF use_locks THEN [threadLocks EXCEPT ![k] = {}] ELSE threadLocks
      /\ stops' = [stops EXCEPT ![k] = [stops[k] EXCEPT ![tag] = stops[k][tag] + 1]]
  BY DEF stop_add, Return
<1>2. InUse(t, k, tag) /\ MyEntry(t) = threadList[k][tag]
  BY <1>1, Uses DEF Using, MyEntry
<1>3. Idle \in Calls
  BY DEF Idle, Calls
<1> HIDE DEF Idle
<1>4. Goes(t, Idle)
  BY <1>1, <1>3, Moved
<1> DEFINE e == StoppedEntry(t, threadList[k][tag])
<1>5. e \in Entries
  BY <1>2, StopEntry DEF InUse
<1>6. Update(t, e)
  BY <1>1, <1>2
<1> HIDE DEF e
<1>7. Writes(k, tag, e)
  BY <1>1, <1>5, <1>6, Written DEF Using
<1> DEFINE row == [stops[k] EXCEPT ![tag] = stops[k][tag] + 1]
<1>8. stops \in [Cpus -> [Tags -> Nat]] /\ k \in Cpus /\ tag \in Tags
  BY <1>2 DEF MarkerInv, MarkerTypes, InUse
<1>9. row \in [Tags -> Nat] /\ row[tag] = stops[k][tag] + 1 /\ \A x \in Tags : x # tag => row[x] = stops[k][x]
  BY <1>8
<1>10. stops' = [stops EXCEPT ![k] = row]
  BY <1>1
<1> HIDE DEF row
<1>11. stops' \in [Cpus -> [Tags -> Nat]] /\ stops'[k] = row /\ \A j \in Cpus : j # k => stops'[j] = stops[j]
  BY <1>8, <1>9, <1>10
<1> QED BY <1>1, <1>2, <1>4, <1>7, <1>9, <1>11 DEF e, OneMore


-----------------------------------------------------------------------------
(* Threads in the steps of one of them *)

\* What a step of thread t leaves alone
Frame(t) ==
    /\ team' = team /\ environ' = environ /\ cpuOf' = cpuOf /\ likwid_init' = likwid_init
    /\ groupSet'.activeGroup = groupSet.activeGroup
    /\ \A u \in Team : u # t => at'[u] = at[u] /\ inside'[u] = inside[u]
    /\ \A j \in Cpus : TagsOf(j) \subseteq DOMAIN threadList'[j]
LocksKept(t) == \A u \in team : u # t /\ use_locks /\ at[u].pc \in Stopping => threadLocks'[cpuOf[u]] = threadLocks[cpuOf[u]]
CreatorsKept(t) == \A u \in team : u # t /\ at[u].pc = "insert" =>
    /\ stops'[cpuOf[u]][at[u].tag] = stops[cpuOf[u]][at[u].tag]
    /\ Together(u, t) => at[u].tag \notin inside'[t] /\ (at'[t].pc \in Using => at'[t].tag # at[u].tag)

LEMMA ThreadKept ==
  ASSUME MarkerInv, NEW t \in team, Frame(t), LocksKept(t), CreatorsKept(t), ThreadOK(t)', Creating(t)'
  PROVE  ThreadInv'
<1>1. team' = team /\ cpuOf' = cpuOf /\ likwid_init' = likwid_init /\ groupSet'.activeGroup = groupSet.activeGroup
      /\ AllPinned' = AllPinned /\ use_locks' = use_locks /\ team \subseteq Team
  BY DEF Frame, AllPinned, use_locks, MarkerInv, MarkerTypes, Team
<1>2. ASSUME NEW u \in team, u # t PROVE ThreadOK(u)'
  <2>1. at'[u] = at[u] /\ inside'[u] = inside[u] /\ ThreadOK(u) /\ u \in Team
    BY <1>1, <1>2 DEF Frame, MarkerInv, ThreadInv
  <2>2. use_locks /\ at[u].pc \in Stopping => threadLocks'[cpuOf[u]] = threadLocks[cpuOf[u]]
    BY <1>2 DEF LocksKept
  <2>3. \A x : cpuOf[u] \in Cpus /\ Known(cpuOf[u], x) => Known(cpuOf[u], x)'
    BY <1>1 DEF Frame, Known, TagsOf
  <2>4. cpuOf[u] \notin Cpus => at[u].pc = "idle" /\ inside[u] = {}
    BY Thread
  <2>5. at[u].pc \in Using => at[u].pc # "idle"
    BY DEF Using
  <2> QED BY <1>1, <2>1, <2>2, <2>3, <2>4, <2>5 DEF ThreadOK
<1>3. ASSUME NEW u \in team, u # t PROVE Creating(u)'
  <2> SUFFICES ASSUME at[u].pc = "insert" PROVE Creating(u)'
    BY <1>1, <1>3 DEF Creating, Frame
  <2>1. at'[u] = at[u] /\ Creating(u) /\ u \in Team
    BY <1>1, <1>3 DEF Frame, MarkerInv, ThreadInv
  <2>2. /\ stops'[cpuOf[u]][at[u].tag] = 0
        /\ Together(u, t) => at[u].tag \notin inside'[t] /\ (at'[t].pc \in Using => at'[t].tag # at[u].tag)
    BY <1>3, <2>1 DEF CreatorsKept, Creating
  <2>3. ASSUME NEW v \in team, v # u, Together(u, v)
        PROVE  at[u].op # "start" /\ at[u].tag \notin inside'[v] /\ (at'[v].pc \in Using => at'[v].tag # at[u].tag)
    <3>1. at[u].op # "start" /\ at[u].tag \notin inside[v] /\ (at[v].pc \in Using => at[v].tag # at[u].tag)
      BY <2>1, <2>3 DEF Creating
    <3>2. CASE v = t
      BY <2>2, <2>3, <3>1, <3>2
    <3>3. CASE v # t
      BY <1>1, <3>1, <3>3 DEF Frame
    <3> QED BY <3>2, <3>3
  <2> QED BY <1>1, <2>1, <2>2, <2>3 DEF Creating, Together
<1> QED BY <1>1, <1>2, <1>3 DEF ThreadInv

\* A call, which only changes at
LEMMA CallFrame ==
  ASSUME MarkerInv, NEW t \in team, NEW a, Goes(t, a),
         UNCHANGED <<groupSet, likwid_init, threadLocks, threadList, environ, team, cpuOf, inside, stops>>
  PROVE  Frame(t) /\ LocksKept(t)
  BY DEF Frame, LocksKept, Goes, TagsOf

LEMMA RegisterThreads ==
  ASSUME MarkerInv, NEW t \in team, NEW r \in Regions[Cardinality(team)], likwid_markerRegisterRegion(t, r)
  PROVE  ThreadInv'
<1>0. PICK m, k : m = MyTag(r) /\ k = cpuOf[t]
  OBVIOUS
<1> DEFINE a == [pc |-> "insert", op |-> "register", tag |-> m, orphan |-> FALSE]
<1>1. Calling(t, m) /\ ~Known(k, m) /\ Goes(t, a)
  BY <1>0, RegisterDoes
<1>2. UNCHANGED <<groupSet, likwid_init, threadLocks, threadList, environ, team, cpuOf, inside, stops>>
  BY DEF likwid_markerRegisterRegion, vars
<1>3. a.pc = "insert" /\ a.op = "register" /\ a.tag = m
  OBVIOUS
<1> HIDE DEF a
<1>4. at'[t] = a /\ ThreadOK(t) /\ AllPinned' = AllPinned /\ \A u \in Team : u # t => at'[u] = at[u]
  BY <1>1, <1>2 DEF Goes, MarkerInv, ThreadInv, AllPinned
<1>5. \A u \in team : Together(t, u) => m \notin inside[u] /\ (at[u].pc \in Using => at[u].tag # m)
  BY <1>0, <1>1, Uses DEF MarkerInv, ThreadInv, ThreadOK, Together, Known, InUse
<1>6. ThreadOK(t)'
  BY <1>0, <1>1, <1>2, <1>3, <1>4, <1>5 DEF ThreadOK, Using, Stopping, Calling, Together, Known, TagsOf
<1>7. stops[k][m] = 0
  BY <1>0, <1>1 DEF MarkerInv, TableInv, EntryOK, Calling
<1>8. team \subseteq Team
  BY Thread
<1>9. Creating(t)'
  BY <1>0, <1>2, <1>3, <1>4, <1>5, <1>7, <1>8 DEF Creating, Together
<1>10. CreatorsKept(t)
  BY <1>0, <1>2, <1>3, <1>4 DEF CreatorsKept, Using, MarkerInv, ThreadInv, Creating, Together
<1> QED BY <1>1, <1>2, <1>6, <1>9, <1>10, CallFrame, ThreadKept

LEMMA StartThreads ==
  ASSUME RegisterFirst, MarkerInv, NEW t \in team, NEW r \in Regions[Cardinality(team)], likwid_markerStartRegion(t, r)
  PROVE  ThreadInv'
<1>0. PICK m, k : m = MyTag(r) /\ k = cpuOf[t]
  OBVIOUS
<1> DEFINE a == [pc |-> IF Known(k, m) THEN "start_read" ELSE "insert", op |-> "start", tag |-> m, orphan |-> FALSE]
<1>1. /\ Calling(t, m) /\ Goes(t, a) /\ AllPinned /\ m \notin inside[t]
      /\ \A u \in team : u # t /\ Together(t, u) => Known(k, m) /\ ~(at[u].pc = "insert" /\ at[u].tag = m)
  BY <1>0, StartDoes
<1>2. UNCHANGED <<groupSet, likwid_init, threadLocks, threadList, environ, team, cpuOf, inside, stops>>
  BY DEF likwid_markerStartRegion, vars
<1>3. a.pc = (IF Known(k, m) THEN "start_read" ELSE "insert") /\ a.op = "start" /\ a.tag = m
  OBVIOUS
<1> HIDE DEF a
<1>4. at'[t] = a /\ ThreadOK(t) /\ AllPinned' = AllPinned /\ \A u \in Team : u # t => at'[u] = at[u]
  BY <1>1, <1>2 DEF Goes, MarkerInv, ThreadInv, AllPinned
<1>5. Known(k, m)' = Known(k, m)
  BY <1>2 DEF Known, TagsOf
<1>6. ThreadOK(t)'
  BY <1>0, <1>1, <1>2, <1>3, <1>4, <1>5 DEF ThreadOK, Using, Stopping, Calling, Known, TagsOf
<1>7. ~Known(k, m) => stops[k][m] = 0
  BY <1>0, <1>1 DEF MarkerInv, TableInv, EntryOK, Calling
<1>8. team \subseteq Team
  BY Thread
<1>9. Creating(t)'
  BY <1>0, <1>1, <1>2, <1>3, <1>4, <1>7, <1>8 DEF Creating, Together
<1>10. CreatorsKept(t)
  BY <1>0, <1>1, <1>2, <1>3, <1>4 DEF CreatorsKept, MarkerInv, ThreadInv, Creating, Together
<1> QED BY <1>1, <1>2, <1>6, <1>9, <1>10, CallFrame, ThreadKept

LEMMA StopThreads ==
  ASSUME MarkerInv, NEW t \in team, NEW r \in Regions[Cardinality(team)], likwid_markerStopRegion(t, r)
  PROVE  ThreadInv'
<1>0. PICK m, k : m = MyTag(r) /\ k = cpuOf[t]
  OBVIOUS
<1> DEFINE a == [pc |-> "lock", op |-> "stop", tag |-> m, orphan |-> FALSE]
<1>1. Calling(t, m) /\ Goes(t, a) /\ m \in inside[t]
  BY <1>0, StopDoes
<1>2. UNCHANGED <<groupSet, likwid_init, threadLocks, threadList, environ, team, cpuOf, inside, stops>>
  BY DEF likwid_markerStopRegion, vars
<1>3. a.pc = "lock" /\ a.op = "stop" /\ a.tag = m
  OBVIOUS
<1> HIDE DEF a
<1>4. at'[t] = a /\ ThreadOK(t) /\ AllPinned' = AllPinned
  BY <1>1, <1>2 DEF Goes, MarkerInv, ThreadInv, AllPinned
<1>5. ThreadOK(t)'
  BY <1>0, <1>1, <1>2, <1>3, <1>4 DEF ThreadOK, Using, Stopping, Calling, Known, TagsOf
<1>6. Creating(t)'
  BY <1>3, <1>4 DEF Creating
<1>7. CreatorsKept(t)
  BY <1>0, <1>1, <1>2, <1>3, <1>4 DEF CreatorsKept, MarkerInv, ThreadInv, Creating, Together
<1> QED BY <1>1, <1>2, <1>5, <1>6, <1>7, CallFrame, ThreadKept


LEMMA InsertThreads ==
  ASSUME MarkerInv, NEW t \in team, NEW garbage \in Garbage, hashTable_insert(t, garbage)
  PROVE  ThreadInv'
<1>0. PICK k, tag : k = cpuOf[t] /\ tag = at[t].tag
  OBVIOUS
<1>1. /\ k \in Cpus /\ tag \in Tags /\ at[t].pc = "insert" /\ at[t].op \in {"register", "start"} /\ Goes(t, at'[t])
      /\ (at[t].op = "register" => at'[t] = Idle) /\ (at[t].op = "start" => at'[t].pc = "start_read" /\ at'[t].tag = tag)
      /\ Inserts(k, tag, NewEntry(garbage))
  BY <1>0, InsertDoes
<1>2. UNCHANGED <<groupSet, likwid_init, threadLocks, environ, team, cpuOf, inside, stops>>
  BY DEF hashTable_insert, vars
<1>3. \A j \in Cpus : TagsOf(j) \subseteq DOMAIN threadList'[j]
  BY <1>1 DEF Inserts
<1>4. Frame(t) /\ LocksKept(t)
  BY <1>1, <1>2, <1>3 DEF Frame, Goes, LocksKept
<1>5. ThreadOK(t) /\ Creating(t) /\ AllPinned' = AllPinned /\ t \in Team
  BY <1>2, Thread DEF MarkerInv, ThreadInv, AllPinned
<1>6. ThreadOK(t)'
  <2>1. at[t].op = "start" => AllPinned /\ at'[t].pc = "start_read" /\ at'[t].tag = tag
    BY <1>1, <1>5 DEF ThreadOK
  <2>2. at[t].op = "register" => at'[t].pc = "idle" /\ at'[t].op = "none"
    BY <1>1 DEF Idle
  <2>3. tag \in DOMAIN threadList'[k]
    BY <1>1 DEF Inserts
  <2>4. \A x \in inside[t] : x \in DOMAIN threadList'[k]
    BY <1>0, <1>1, <1>3, <1>5 DEF ThreadOK, Known
  <2> QED BY <1>0, <1>1, <1>2, <1>5, <2>1, <2>2, <2>3, <2>4 DEF ThreadOK, Using, Stopping, Known, TagsOf
<1>7. Creating(t)'
  BY <1>1 DEF Creating, Idle
<1>8. CreatorsKept(t)
  <2> SUFFICES ASSUME NEW u \in team, u # t, at[u].pc = "insert", Together(u, t)
               PROVE  at[u].tag \notin inside[t] /\ at'[t].pc \notin Using
    BY <1>2 DEF CreatorsKept
  <2>1. at[u].tag \notin inside[t] /\ at[t].op # "start"
    BY <1>1, <1>5 DEF MarkerInv, ThreadInv, Creating, Together
  <2> QED BY <1>1, <2>1 DEF Idle, Using
<1> QED BY <1>4, <1>6, <1>7, <1>8, ThreadKept

\* Nobody creates the region that a thread on its CPU uses.
LEMMA NobodyCreates ==
  ASSUME MarkerInv, NEW t \in team, at[t].pc \in Using, NEW u \in team, at[u].pc = "insert", Together(u, t)
  PROVE  at[u].tag # at[t].tag /\ at[u].tag \notin inside[t]
<1>1. u # t
  BY DEF Using
<1> QED BY <1>1 DEF MarkerInv, ThreadInv, Creating

LEMMA ReadThreads ==
  ASSUME MarkerInv, NEW t \in team, start_read(t)
  PROVE  ThreadInv'
<1>0. PICK k, tag : k = cpuOf[t] /\ tag = at[t].tag
  OBVIOUS
<1>1. /\ InUse(t, k, tag) /\ at[t].pc = "start_read" /\ ReadCpu(t)
      /\ at'[t].pc = "start_store" /\ at'[t].tag = tag /\ Goes(t, at'[t]) /\ inside' = [inside EXCEPT ![t] = inside[t] \cup {tag}]
  BY <1>0, StartReadDoes
<1>2. UNCHANGED <<likwid_init, threadLocks, threadList, environ, team, cpuOf, stops>> /\ groupSet'.activeGroup = groupSet.activeGroup
  BY <1>0, <1>1, ReadNow DEF start_read, InUse
<1>3. inside \in [Team -> SUBSET Tags] /\ t \in Team
  BY Thread DEF MarkerInv, MarkerTypes
<1>4. inside'[t] = inside[t] \cup {tag} /\ \A u \in Team : u # t => inside'[u] = inside[u]
  BY <1>1, <1>3
<1>5. Frame(t) /\ LocksKept(t)
  BY <1>1, <1>2, <1>4 DEF Frame, Goes, LocksKept, TagsOf
<1>6. ThreadOK(t) /\ AllPinned' = AllPinned
  BY <1>2 DEF MarkerInv, ThreadInv, AllPinned
<1>7. ThreadOK(t)'
  BY <1>0, <1>1, <1>2, <1>4, <1>6 DEF ThreadOK, InUse, Using, Stopping, Known, TagsOf
<1>8. Creating(t)'
  BY <1>1 DEF Creating
<1>9. CreatorsKept(t)
  BY <1>0, <1>1, <1>2, <1>4, NobodyCreates DEF CreatorsKept, Using
<1> QED BY <1>5, <1>7, <1>8, <1>9, ThreadKept

LEMMA StoreThreads ==
  ASSUME MarkerInv, NEW t \in team, start_store(t)
  PROVE  ThreadInv'
<1>0. PICK k, tag : k = cpuOf[t] /\ tag = at[t].tag
  OBVIOUS
<1>1. InUse(t, k, tag) /\ at[t].pc = "start_store" /\ Goes(t, Idle) /\ Writes(k, tag, StartedEntry(t, threadList[k][tag]))
  BY <1>0, StoreDoes
<1>2. UNCHANGED <<groupSet, likwid_init, threadLocks, environ, team, cpuOf, inside, stops>>
  BY DEF start_store, vars
<1>3. Frame(t) /\ LocksKept(t)
  BY <1>1, <1>2 DEF Frame, Goes, LocksKept, TagsOf, Writes
<1>4. ThreadOK(t) /\ AllPinned' = AllPinned /\ at'[t].pc = "idle" /\ at'[t].op = "none"
  BY <1>1, <1>2 DEF MarkerInv, ThreadInv, AllPinned, Goes, Idle
<1>5. \A x : Known(k, x)' = Known(k, x)
  BY <1>1 DEF Known, TagsOf, Writes, InUse
<1>6. ThreadOK(t)'
  BY <1>0, <1>1, <1>2, <1>4, <1>5 DEF ThreadOK, Using, Stopping
<1>7. Creating(t)'
  BY <1>4 DEF Creating
<1>8. CreatorsKept(t)
  BY <1>1, <1>2, <1>4, NobodyCreates DEF CreatorsKept, Using
<1> QED BY <1>3, <1>6, <1>7, <1>8, ThreadKept

LEMMA LookupThreads ==
  ASSUME MarkerInv, NEW t \in team, stop_lookup(t)
  PROVE  ThreadInv'
<1>0. PICK k, tag : k = cpuOf[t] /\ tag = at[t].tag
  OBVIOUS
<1> DEFINE a == [pc |-> "stop_count", op |-> "stop", tag |-> tag, orphan |-> FALSE]
<1>1. /\ InUse(t, k, tag) /\ at[t].pc = "lock" /\ (use_locks => threadLocks[k] = {}) /\ Goes(t, a)
      /\ threadLocks' = IF use_locks THEN [threadLocks EXCEPT ![k] = {t}] ELSE threadLocks
  BY <1>0, LookupDoes
<1>2. UNCHANGED <<groupSet, likwid_init, threadList, environ, team, cpuOf, inside, stops>> /\ use_locks' = use_locks
  BY DEF stop_lookup, vars, use_locks
<1>3. a.pc = "stop_count" /\ a.op = "stop" /\ a.tag = tag
  OBVIOUS
<1> HIDE DEF a
<1>4. threadLocks \in [Cpus -> SUBSET Team] /\ k \in Cpus
  BY <1>1 DEF MarkerInv, MarkerTypes, InUse
<1>5. (use_locks => threadLocks'[k] = {t}) /\ \A j \in Cpus : j # k => threadLocks'[j] = threadLocks[j]
  BY <1>1, <1>4
<1>6. Frame(t)
  BY <1>1, <1>2 DEF Frame, Goes, TagsOf
<1>7. LocksKept(t)
  <2> SUFFICES ASSUME NEW u \in team, u # t, use_locks, at[u].pc \in Stopping
               PROVE  threadLocks'[cpuOf[u]] = threadLocks[cpuOf[u]]
    BY DEF LocksKept
  <2>1. threadLocks[cpuOf[u]] = {u}
    BY DEF MarkerInv, ThreadInv, ThreadOK
  <2>2. cpuOf[u] \in Cpus
    BY Thread DEF Stopping
  <2> QED BY <1>1, <1>5, <2>1, <2>2
<1>8. ThreadOK(t) /\ AllPinned' = AllPinned /\ at'[t] = a
  BY <1>1, <1>2 DEF MarkerInv, ThreadInv, AllPinned, Goes
<1>9. ThreadOK(t)'
  BY <1>0, <1>1, <1>2, <1>3, <1>5, <1>8 DEF ThreadOK, Using, Stopping, InUse, Known, TagsOf
<1>10. Creating(t)'
  BY <1>3, <1>8 DEF Creating
<1>11. CreatorsKept(t)
  BY <1>0, <1>1, <1>2, <1>3, <1>8, NobodyCreates DEF CreatorsKept, Using
<1> QED BY <1>6, <1>7, <1>9, <1>10, <1>11, ThreadKept

LEMMA CountThreads ==
  ASSUME MarkerInv, NEW t \in team, stop_count(t)
  PROVE  ThreadInv'
<1>0. PICK k, tag : k = cpuOf[t] /\ tag = at[t].tag
  OBVIOUS
<1> DEFINE a == [pc |-> "stop_read", op |-> "stop", tag |-> tag, orphan |-> FALSE, reg |-> threadList[k][tag].count]
<1>1. InUse(t, k, tag) /\ at[t].pc = "stop_count" /\ Goes(t, a)
  BY <1>0, CountDoes
<1>2. UNCHANGED <<groupSet, likwid_init, threadLocks, threadList, environ, team, cpuOf, inside, stops>> /\ use_locks' = use_locks
  BY DEF stop_count, vars, use_locks
<1>3. a.pc = "stop_read" /\ a.op = "stop" /\ a.tag = tag
  OBVIOUS
<1> HIDE DEF a
<1>4. Frame(t) /\ LocksKept(t)
  BY <1>1, <1>2, CallFrame
<1>5. ThreadOK(t) /\ AllPinned' = AllPinned /\ at'[t] = a
  BY <1>1, <1>2 DEF MarkerInv, ThreadInv, AllPinned, Goes
<1>6. ThreadOK(t)'
  BY <1>0, <1>1, <1>2, <1>3, <1>5 DEF ThreadOK, Using, Stopping, InUse, Known, TagsOf
<1>7. Creating(t)'
  BY <1>3, <1>5 DEF Creating
<1>8. CreatorsKept(t)
  BY <1>0, <1>1, <1>2, <1>3, <1>5, NobodyCreates DEF CreatorsKept, Using
<1> QED BY <1>4, <1>6, <1>7, <1>8, ThreadKept


LEMMA StopReadThreads ==
  ASSUME MarkerInv, NEW t \in team, stop_read(t)
  PROVE  ThreadInv'
<1>0. PICK k, tag : k = cpuOf[t] /\ tag = at[t].tag
  OBVIOUS
<1> DEFINE a == [pc |-> "stop_add", op |-> "stop", tag |-> tag, orphan |-> FALSE]
<1>1. /\ InUse(t, k, tag) /\ at[t].pc = "stop_read" /\ ReadCpu(t) /\ Goes(t, a) /\ Writes(k, tag, threadList'[k][tag])
      /\ inside' = [inside EXCEPT ![t] = inside[t] \ {tag}]
  BY <1>0, StopReadDoes
<1>2. UNCHANGED <<likwid_init, threadLocks, environ, team, cpuOf, stops>> /\ groupSet'.activeGroup = groupSet.activeGroup
  BY <1>0, <1>1, ReadNow DEF stop_read, InUse
<1>3. a.pc = "stop_add" /\ a.op = "stop" /\ a.tag = tag
  OBVIOUS
<1> HIDE DEF a
<1>4. inside \in [Team -> SUBSET Tags] /\ t \in Team
  BY Thread DEF MarkerInv, MarkerTypes
<1>5. inside'[t] = inside[t] \ {tag} /\ \A u \in Team : u # t => inside'[u] = inside[u]
  BY <1>1, <1>4
<1>6. Frame(t) /\ LocksKept(t)
  BY <1>1, <1>2, <1>5 DEF Frame, Goes, LocksKept, TagsOf, Writes
<1>7. ThreadOK(t) /\ AllPinned' = AllPinned /\ at'[t] = a /\ use_locks' = use_locks
  BY <1>1, <1>2 DEF MarkerInv, ThreadInv, AllPinned, Goes, use_locks
<1>8. \A x : Known(k, x)' = Known(k, x)
  BY <1>1 DEF Known, TagsOf, Writes, InUse
<1>9. ThreadOK(t)'
  BY <1>0, <1>1, <1>2, <1>3, <1>5, <1>7, <1>8 DEF ThreadOK, InUse, Using, Stopping
<1>10. Creating(t)'
  BY <1>3, <1>7 DEF Creating
<1>11. CreatorsKept(t)
  BY <1>0, <1>1, <1>2, <1>3, <1>5, <1>7, NobodyCreates DEF CreatorsKept, Using
<1> QED BY <1>6, <1>9, <1>10, <1>11, ThreadKept

LEMMA AddThreads ==
  ASSUME MarkerInv, NEW t \in team, stop_add(t)
  PROVE  ThreadInv'
<1>0. PICK k, tag : k = cpuOf[t] /\ tag = at[t].tag
  OBVIOUS
<1>1. /\ InUse(t, k, tag) /\ at[t].pc = "stop_add" /\ Goes(t, Idle) /\ Writes(k, tag, StoppedEntry(t, threadList[k][tag]))
      /\ threadLocks' = IF use_locks THEN [threadLocks EXCEPT ![k] = {}] ELSE threadLocks
      /\ OneMore(k, tag)
  BY <1>0, AddDoes
<1>2. UNCHANGED <<groupSet, likwid_init, environ, team, cpuOf, inside>> /\ use_locks' = use_locks
  BY DEF stop_add, vars, use_locks
<1>3. threadLocks \in [Cpus -> SUBSET Team] /\ k \in Cpus
  BY <1>1 DEF MarkerInv, MarkerTypes, InUse
<1>4. Frame(t)
  BY <1>1, <1>2 DEF Frame, Goes, TagsOf, Writes
<1>5. LocksKept(t)
  <2> SUFFICES ASSUME NEW u \in team, u # t, use_locks, at[u].pc \in Stopping
               PROVE  threadLocks'[cpuOf[u]] = threadLocks[cpuOf[u]]
    BY DEF LocksKept
  <2>1. cpuOf[u] # k
    BY <1>0, <1>1, StopsAlone DEF Together, Stopping, Exact
  <2>2. cpuOf[u] \in Cpus
    BY Thread DEF Stopping
  <2> QED BY <1>1, <1>3, <2>1, <2>2
<1>6. ThreadOK(t) /\ AllPinned' = AllPinned /\ at'[t].pc = "idle" /\ at'[t].op = "none"
  BY <1>1, <1>2 DEF MarkerInv, ThreadInv, AllPinned, Goes, Idle
<1>7. \A x : Known(k, x)' = Known(k, x)
  BY <1>1 DEF Known, TagsOf, Writes, InUse
<1>8. ThreadOK(t)'
  BY <1>0, <1>1, <1>2, <1>6, <1>7 DEF ThreadOK, Using, Stopping
<1>9. Creating(t)'
  BY <1>6 DEF Creating
<1>10. CreatorsKept(t)
  <2> SUFFICES ASSUME NEW u \in team, u # t, at[u].pc = "insert"
               PROVE  /\ stops'[cpuOf[u]][at[u].tag] = stops[cpuOf[u]][at[u].tag]
                      /\ Together(u, t) => at[u].tag \notin inside[t]
    BY <1>2, <1>6 DEF CreatorsKept, Using
  <2>1. cpuOf[u] \in Cpus /\ at[u].tag \in Tags
    BY Thread, Call
  <2>2. Together(u, t) => at[u].tag # tag /\ at[u].tag \notin inside[t]
    BY <1>0, <1>1, NobodyCreates DEF Using
  <2> QED BY <1>0, <1>1, <2>1, <2>2 DEF Together, OneMore
<1> QED BY <1>4, <1>5, <1>8, <1>9, <1>10, ThreadKept

-----------------------------------------------------------------------------
(* Pinning, and the steps of the process *)

\* likwid_markerThreadInit
LEMMA PinThread ==
  ASSUME MarkerInv, NEW t \in team, likwid_markerThreadInit(t)
  PROVE  /\ likwid_init /\ ~AllPinned /\ t \in Team /\ cpuOf[t] = -1 /\ at[t].pc = "idle" /\ inside[t] = {}
         /\ cpuOf' \in [Team -> Cpus \cup {-1}] /\ cpuOf'[t] \in Cpus /\ \A u \in Team : u # t => cpuOf'[u] = cpuOf[u]
         /\ \A u \in team : at[u].pc \notin Using /\ at[u].op # "start" /\ inside[u] = {}
         /\ ThreadInv' /\ PinInv'
<1>1. /\ likwid_init /\ cpuOf[t] = -1 /\ registered_cpus' = registered_cpus + 1
      /\ \E k \in Cpus : cpuOf' = [cpuOf EXCEPT ![t] = k]
      /\ UNCHANGED <<groupSet, likwid_init, threadLocks, threadList, environ, team, at, inside, stops>>
  BY DEF likwid_markerThreadInit, vars
<1>2. ~AllPinned /\ team \subseteq Team /\ t \in Team /\ cpuOf \in [Team -> Cpus \cup {-1}] /\ -1 \notin Cpus
  BY <1>1, Thread DEF AllPinned, MarkerInv, MarkerTypes
<1>3. \A u \in team : at[u].pc \notin Using /\ at[u].op # "start" /\ inside[u] = {}
  BY <1>2 DEF MarkerInv, ThreadInv, ThreadOK
<1>4. at[t].pc = "idle"
  BY <1>1 DEF MarkerInv, ThreadInv, ThreadOK
<1>5. PICK k \in Cpus : cpuOf' = [cpuOf EXCEPT ![t] = k]
  BY <1>1
<1>6. k # -1
  BY <1>2
<1>8. cpuOf' \in [Team -> Cpus \cup {-1}] /\ cpuOf'[t] = k /\ \A u \in Team : u # t => cpuOf'[u] = cpuOf[u]
  BY <1>2, <1>5
<1>11. PinInv'
  BY <1>1, <1>2, <1>8 DEF MarkerInv, PinInv
<1>12. ASSUME NEW u \in team PROVE ThreadOK(u)'
  <2>1. ThreadOK(u) /\ inside'[u] = {} /\ at'[u] = at[u] /\ at[u].pc \notin Using /\ at[u].op # "start"
    BY <1>1, <1>3 DEF MarkerInv, ThreadInv
  <2>2. cpuOf'[u] = -1 => cpuOf[u] = -1
    BY <1>1, <1>2, <1>6, <1>8
  <2>3. \A s \in {"start_store", "lock", "stop_count", "stop_read", "stop_add", "start_read"} : s \in Using
    BY DEF Using
  <2>4. at[u].pc \notin Stopping
    BY <2>1, <2>3 DEF Stopping
  <2> QED BY <1>1, <2>1, <2>2, <2>3, <2>4 DEF ThreadOK
<1>13. ASSUME NEW u \in team PROVE Creating(u)'
  <2> SUFFICES ASSUME at[u].pc = "insert" PROVE Creating(u)'
    BY <1>1 DEF Creating
  <2>1. u # t /\ cpuOf'[u] = cpuOf[u]
    BY <1>2, <1>4, <1>8
  <2>2. stops'[cpuOf'[u]][at[u].tag] = 0
    BY <1>1, <2>1 DEF MarkerInv, ThreadInv, Creating
  <2> QED BY <1>1, <1>3, <2>1, <2>2 DEF Creating
<1>14. ThreadInv'
  BY <1>1, <1>12, <1>13 DEF ThreadInv
<1> QED BY <1>1, <1>2, <1>3, <1>4, <1>8, <1>11, <1>14

\* The process acts while all threads are outside of the API.
AllIdle == \A t \in team : at[t].pc = "idle" /\ inside[t] = {}
LEMMA IdleThreads ==
  ASSUME MarkerInv, AllIdle, UNCHANGED <<environ, team, cpuOf, at, inside>>
  PROVE  ThreadInv'
<1>1. ASSUME NEW t \in team PROVE at'[t].pc = "idle" /\ at'[t].op = "none" /\ inside'[t] = {}
  BY Thread, Call DEF AllIdle
<1> QED BY <1>1 DEF ThreadInv, ThreadOK, Creating, Using, Stopping

LEMMA EventThreads ==
  ASSUME MarkerInv, NEW k \in Cpus, NEW e \in Flags, MarkerEvent(k, e)
  PROVE  ThreadInv'
<1>1. UNCHANGED <<groupSet, likwid_init, threadLocks, threadList, environ, team, cpuOf, at, inside, stops>> /\ ThreadInv
  BY DEF MarkerEvent, MarkerInv
<1>2. AllPinned' = AllPinned /\ use_locks' = use_locks /\ \A j, x : Known(j, x)' = Known(j, x)
  BY <1>1 DEF AllPinned, use_locks, Known, TagsOf
<1> QED BY <1>1, <1>2 DEF ThreadInv, ThreadOK, Creating, Together


-----------------------------------------------------------------------------
(* The entries *)

\* At most the entry of region m on CPU k changes.
OnlyEntry(k, m) == \A j \in Cpus, x \in Tags : j # k \/ x # m =>
    /\ Known(j, x)' = Known(j, x) /\ stops'[j][x] = stops[j][x]
    /\ Known(j, x) => threadList'[j][x] = threadList[j][x]
\* For the other threads that are inside or stop, the entries stay as they are.
OthersStop(t) == \A u \in team : u # t =>
    /\ (at[u].pc = "stop_read" /\ Exact(cpuOf[u])) =>
         threadList'[cpuOf[u]][at[u].tag].count = threadList[cpuOf[u]][at[u].tag].count
    /\ \A x \in inside[u] : threadList'[cpuOf[u]][x].cpuID \in {threadList[cpuOf[u]][x].cpuID, cpuOf[u]}

LEMMA TableKept ==
  ASSUME MarkerInv, NEW t \in team, Frame(t), NEW k, k = cpuOf[t], NEW m, OnlyEntry(k, m), OthersStop(t),
         at[t].pc = "stop_add" => at[t].tag = m, at'[t].pc = "stop_add" => at'[t].tag = m,
         m \in Tags /\ k \in Cpus => EntryOK(k, m)', StoppingOK(t)'
  PROVE  TableInv'
<1>1. /\ team' = team /\ cpuOf' = cpuOf /\ \A u \in team : u # t => at'[u] = at[u] /\ inside'[u] = inside[u]
      /\ \A j : Exact(j)' <=> Exact(j)
  BY Thread DEF Frame, Exact, use_locks
<1>2. ASSUME NEW j \in Cpus, NEW x \in Tags PROVE EntryOK(j, x)'
  <2>1. CASE j = k /\ x = m
    BY <2>1
  <2>2. CASE j # k \/ x # m
    <3>1. Known(j, x)' = Known(j, x) /\ stops'[j][x] = stops[j][x] /\ (Known(j, x) => threadList'[j][x] = threadList[j][x])
      BY <2>2 DEF OnlyEntry
    <3>2. Adding(j, x)' <=> Adding(j, x)
      BY <1>1, <2>2 DEF Adding
    <3>3. EntryOK(j, x)
      BY DEF MarkerInv, TableInv
    <3> QED BY <1>1, <3>1, <3>2, <3>3 DEF EntryOK
  <2> QED BY <2>1, <2>2
<1>3. ASSUME NEW u \in team, u # t PROVE StoppingOK(u)'
  <2>1. StoppingOK(u)
    BY DEF MarkerInv, TableInv
  <2>2. /\ (at[u].pc = "stop_read" /\ Exact(cpuOf[u])) =>
             threadList'[cpuOf[u]][at[u].tag].count = threadList[cpuOf[u]][at[u].tag].count
        /\ \A x \in inside[u] : threadList'[cpuOf[u]][x].cpuID \in {threadList[cpuOf[u]][x].cpuID, cpuOf[u]}
    BY <1>3 DEF OthersStop
  <2> QED BY <1>1, <1>3, <2>1, <2>2 DEF StoppingOK
<1> QED BY <1>1, <1>2, <1>3 DEF TableInv

LEMMA SameTables ==
  ASSUME MarkerInv, UNCHANGED <<threadList, stops, at, inside, cpuOf, environ, team>>
  PROVE  TableInv'
<1>1. \A k, tag : Adding(k, tag)' = Adding(k, tag) /\ Known(k, tag)' = Known(k, tag) /\ Exact(k)' = Exact(k)
  BY DEF Adding, Known, TagsOf, Exact, use_locks
<1> QED BY <1>1 DEF MarkerInv, TableInv, EntryOK, StoppingOK

\* The entry of a region that a thread uses
LEMMA UsedEntry ==
  ASSUME MarkerInv, NEW t \in team, NEW k, NEW tag, InUse(t, k, tag)
  PROVE  /\ Exact(k) => threadList[k][tag].count = stops[k][tag] + IF Adding(k, tag) THEN 1 ELSE 0
         /\ (stops[k][tag] > 0 \/ Adding(k, tag)) => threadList[k][tag].count > 0
         /\ threadList[k][tag].count > 0 => threadList[k][tag].groupID = tag[2] /\ threadList[k][tag].cpuID = k
         /\ stops[k][tag] \in Nat /\ threadList[k][tag].count \in Nat
<1>1. EntryOK(k, tag) /\ Known(k, tag)
  BY DEF InUse, MarkerInv, TableInv, Known
<1>2. stops[k][tag] \in Nat /\ threadList[k][tag].count \in Nat
  BY DEF InUse, MarkerInv, MarkerTypes, Entries
<1> QED BY <1>1, <1>2 DEF EntryOK

\* What a thread is inside of is in the table.
LEMMA InsideKnown ==
  ASSUME MarkerInv, NEW u \in team, NEW x \in inside[u]
  PROVE  cpuOf[u] \in Cpus /\ x \in Tags /\ x \in TagsOf(cpuOf[u])
  BY Thread DEF MarkerInv, ThreadInv, ThreadOK, Known

\* A step that writes no entry
LEMMA CallTables ==
  ASSUME MarkerInv, NEW t \in team, NEW a, Goes(t, a), a.pc # "stop_read", a.pc # "stop_add", at[t].pc \in {"idle", "lock"},
         UNCHANGED <<groupSet, likwid_init, threadList, environ, team, cpuOf, inside, stops>>
  PROVE  TableInv'
<1>0. PICK k : k = cpuOf[t]
  OBVIOUS
<1>1. Frame(t) /\ at'[t] = a
  BY DEF Frame, Goes, TagsOf
<1>2. OnlyEntry(k, NoTag) /\ NoTag \notin Tags
  BY DEF OnlyEntry, Known, TagsOf, NoTag, Tags
<1>3. OthersStop(t)
  BY DEF OthersStop
<1>4. StoppingOK(t)'
  BY <1>1 DEF StoppingOK, MarkerInv, TableInv
<1> QED BY <1>0, <1>1, <1>2, <1>3, <1>4, TableKept

LEMMA CountTables ==
  ASSUME MarkerInv, NEW t \in team, stop_count(t)
  PROVE  TableInv'
<1>0. PICK k, tag : k = cpuOf[t] /\ tag = at[t].tag
  OBVIOUS
<1> DEFINE a == [pc |-> "stop_read", op |-> "stop", tag |-> tag, orphan |-> FALSE, reg |-> threadList[k][tag].count]
<1>1. at[t].pc = "stop_count" /\ Goes(t, a) /\ a.pc = "stop_read" /\ a.tag = tag /\ a.reg = threadList[k][tag].count
  BY <1>0, CountDoes
<1>2. UNCHANGED <<groupSet, likwid_init, threadLocks, threadList, environ, team, cpuOf, inside, stops>>
  BY DEF stop_count, vars
<1> HIDE DEF a
<1>3. Frame(t) /\ at'[t] = a
  BY <1>1, <1>2 DEF Frame, Goes, TagsOf
<1>4. OnlyEntry(k, NoTag) /\ NoTag \notin Tags
  BY <1>2 DEF OnlyEntry, Known, TagsOf, NoTag, Tags
<1>5. OthersStop(t)
  BY <1>2 DEF OthersStop
<1>6. StoppingOK(t)'
  BY <1>0, <1>1, <1>2, <1>3 DEF StoppingOK, MarkerInv, TableInv
<1> QED BY <1>0, <1>1, <1>3, <1>4, <1>5, <1>6, TableKept

LEMMA ReadTables ==
  ASSUME MarkerInv, NEW t \in team, start_read(t)
  PROVE  TableInv'
<1>0. PICK k, tag : k = cpuOf[t] /\ tag = at[t].tag
  OBVIOUS
<1>1. /\ InUse(t, k, tag) /\ at[t].pc = "start_read" /\ ReadCpu(t) /\ at'[t].pc = "start_store" /\ at'[t].tag = tag
      /\ Goes(t, at'[t]) /\ inside' = [inside EXCEPT ![t] = inside[t] \cup {tag}]
  BY <1>0, StartReadDoes
<1>2. UNCHANGED <<likwid_init, threadList, environ, team, cpuOf, stops>> /\ groupSet'.activeGroup = groupSet.activeGroup
  BY <1>0, <1>1, ReadNow DEF start_read, InUse
<1>3. inside'[t] = inside[t] \cup {tag} /\ \A u \in Team : u # t => inside'[u] = inside[u]
  BY <1>1, Thread DEF MarkerInv, MarkerTypes
<1>4. Frame(t)
  BY <1>1, <1>2, <1>3 DEF Frame, Goes, TagsOf
<1>5. OnlyEntry(k, NoTag) /\ NoTag \notin Tags
  BY <1>2 DEF OnlyEntry, Known, TagsOf, NoTag, Tags
<1>6. OthersStop(t)
  BY <1>2 DEF OthersStop
<1>7. StoppingOK(t)'
  BY <1>0, <1>1, <1>2, <1>3 DEF StoppingOK, MarkerInv, TableInv
<1> QED BY <1>0, <1>1, <1>4, <1>5, <1>6, <1>7, TableKept


\* A step that writes the entry of its region
LEMMA WriteOnly ==
  ASSUME MarkerInv, NEW t \in team, NEW k, NEW tag, InUse(t, k, tag), Writes(k, tag, threadList'[k][tag]),
         \A j \in Cpus, x \in Tags : j # k \/ x # tag => stops'[j][x] = stops[j][x]
  PROVE  OnlyEntry(k, tag) /\ \A x : Known(k, x)' = Known(k, x)
  BY DEF OnlyEntry, Writes, Known, TagsOf, InUse
LEMMA WriteOthers ==
  ASSUME MarkerInv, NEW t \in team, NEW k, NEW tag, InUse(t, k, tag), Writes(k, tag, threadList'[k][tag]),
         threadList'[k][tag].cpuID \in {threadList[k][tag].cpuID, k},
         at[t].pc \in Stopping \/ threadList'[k][tag].count = threadList[k][tag].count
  PROVE  OthersStop(t)
<1> SUFFICES ASSUME NEW u \in team, u # t
             PROVE  /\ (at[u].pc = "stop_read" /\ Exact(cpuOf[u])) =>
                         threadList'[cpuOf[u]][at[u].tag].count = threadList[cpuOf[u]][at[u].tag].count
                    /\ \A x \in inside[u] : threadList'[cpuOf[u]][x].cpuID \in {threadList[cpuOf[u]][x].cpuID, cpuOf[u]}
  BY DEF OthersStop
<1>1. \A j \in Cpus : \A x \in TagsOf(j) : j # k \/ x # tag => threadList'[j][x] = threadList[j][x]
  BY DEF Writes
<1>2. ASSUME at[u].pc = "stop_read", Exact(cpuOf[u])
      PROVE  threadList'[cpuOf[u]][at[u].tag].count = threadList[cpuOf[u]][at[u].tag].count
  <2>1. cpuOf[u] \in Cpus /\ at[u].tag \in TagsOf(cpuOf[u])
    BY <1>2, Uses DEF InUse, Using
  <2>2. CASE cpuOf[u] = k /\ at[u].tag = tag
    <3>1. at[t].pc \notin Stopping
      BY <1>2, <2>2, StopsAlone DEF Together, Stopping, InUse
    <3> QED BY <2>2, <3>1
  <2> QED BY <1>1, <2>1, <2>2
<1>3. ASSUME NEW x \in inside[u]
      PROVE  threadList'[cpuOf[u]][x].cpuID \in {threadList[cpuOf[u]][x].cpuID, cpuOf[u]}
  BY <1>1, InsideKnown
<1> QED BY <1>2, <1>3

LEMMA StoreTables ==
  ASSUME MarkerInv, NEW t \in team, start_store(t)
  PROVE  TableInv'
<1>0. PICK k, tag : k = cpuOf[t] /\ tag = at[t].tag
  OBVIOUS
<1> DEFINE e == StartedEntry(t, threadList[k][tag])
<1>1. InUse(t, k, tag) /\ at[t].pc = "start_store" /\ Goes(t, Idle) /\ Writes(k, tag, e)
  BY <1>0, StoreDoes
<1>2. UNCHANGED <<groupSet, likwid_init, environ, team, cpuOf, inside, stops>>
  BY DEF start_store, vars
<1>3. e.count = threadList[k][tag].count /\ e.groupID = threadList[k][tag].groupID /\ e.cpuID = k
  BY <1>0, <1>1, StartEntry DEF InUse
<1>4. threadList'[k][tag] = e
  BY <1>1 DEF Writes
<1> HIDE DEF e
<1>5. OnlyEntry(k, tag) /\ (\A x : Known(k, x)' = Known(k, x))
  BY <1>1, <1>2, <1>4, WriteOnly
<1>6. OthersStop(t)
  BY <1>1, <1>3, <1>4, WriteOthers
<1>7. Frame(t) /\ at'[t].pc = "idle" /\ \A u \in team : u # t => at'[u] = at[u]
  BY <1>1, <1>2, Thread DEF Frame, Goes, TagsOf, Writes, Idle
<1>8. Adding(k, tag)' <=> Adding(k, tag)
  BY <1>1, <1>2, <1>7 DEF Adding
<1>9. EntryOK(k, tag)'
  <2>1. Exact(k)' <=> Exact(k)
    BY <1>2 DEF Exact, use_locks
  <2> QED BY <1>1, <1>2, <1>3, <1>4, <1>5, <1>8, <2>1, UsedEntry DEF EntryOK, InUse, Known
<1>10. StoppingOK(t)'
  <2>1. ASSUME NEW x \in inside[t] PROVE threadList'[k][x].cpuID = k
    <3>1. x \in TagsOf(k) /\ (x # tag => threadList[k][x].cpuID = k)
      BY <1>0, InsideKnown DEF MarkerInv, TableInv, StoppingOK
    <3> QED BY <1>1, <1>3, <1>4, <3>1 DEF Writes, InUse
  <2> QED BY <1>0, <1>2, <1>7, <2>1 DEF StoppingOK
<1> QED BY <1>0, <1>1, <1>5, <1>6, <1>7, <1>9, <1>10, TableKept

LEMMA InsertTables ==
  ASSUME MarkerInv, NEW t \in team, NEW garbage \in Garbage, hashTable_insert(t, garbage)
  PROVE  TableInv'
<1>0. PICK k, tag : k = cpuOf[t] /\ tag = at[t].tag
  OBVIOUS
<1>1. /\ k \in Cpus /\ tag \in Tags /\ at[t].pc = "insert" /\ at[t].op \in {"register", "start"} /\ Goes(t, at'[t])
      /\ (at[t].op = "register" => at'[t] = Idle) /\ (at[t].op = "start" => at'[t].pc = "start_read" /\ at'[t].tag = tag)
      /\ Inserts(k, tag, NewEntry(garbage))
  BY <1>0, InsertDoes
<1>2. UNCHANGED <<groupSet, likwid_init, environ, team, cpuOf, inside, stops>>
  BY DEF hashTable_insert, vars
<1>3. Frame(t) /\ at'[t].pc \in {"idle", "start_read"} /\ \A u \in team : u # t => at'[u] = at[u]
  <2>1. \A j \in Cpus : TagsOf(j) \subseteq DOMAIN threadList'[j]
    BY <1>1 DEF Inserts
  <2>2. at'[t].pc \in {"idle", "start_read"}
    BY <1>1 DEF Idle
  <2>3. \A u \in team : u # t => at'[u] = at[u]
    BY <1>1, Thread DEF Goes
  <2> QED BY <1>1, <1>2, <2>1, <2>2, <2>3 DEF Frame, Goes
<1>4. OnlyEntry(k, tag)
  <2> SUFFICES ASSUME NEW j \in Cpus, NEW x \in Tags, j # k \/ x # tag
               PROVE  /\ Known(j, x)' = Known(j, x) /\ stops'[j][x] = stops[j][x]
                      /\ Known(j, x) => threadList'[j][x] = threadList[j][x]
    BY DEF OnlyEntry
  <2>1. DOMAIN threadList'[j] = IF j = k THEN TagsOf(j) \cup {tag} ELSE TagsOf(j)
    BY <1>1 DEF Inserts
  <2>2. x \in DOMAIN threadList'[j] <=> x \in TagsOf(j)
    BY <2>1
  <2>3. x \in TagsOf(j) => threadList'[j][x] = threadList[j][x]
    BY <1>1 DEF Inserts
  <2> QED BY <1>2, <2>2, <2>3 DEF Known, TagsOf
<1>5. Creating(t) /\ tag \notin inside[t]
  BY <1>0, <1>1 DEF MarkerInv, ThreadInv, ThreadOK
<1>6. \A u \in team : u # t /\ cpuOf[u] = k => tag \notin inside[u] /\ (at[u].pc \in Using => at[u].tag # tag)
  BY <1>0, <1>1, <1>5 DEF Creating, Together
<1>7. \A j \in Cpus : \A x \in TagsOf(j) : j # k \/ x # tag => threadList'[j][x] = threadList[j][x]
  BY <1>1 DEF Inserts
<1>8. OthersStop(t)
  <2> SUFFICES ASSUME NEW u \in team, u # t
               PROVE  /\ (at[u].pc = "stop_read" /\ Exact(cpuOf[u])) =>
                           threadList'[cpuOf[u]][at[u].tag].count = threadList[cpuOf[u]][at[u].tag].count
                      /\ \A x \in inside[u] : threadList'[cpuOf[u]][x].cpuID \in {threadList[cpuOf[u]][x].cpuID, cpuOf[u]}
    BY DEF OthersStop
  <2>1. ASSUME at[u].pc = "stop_read"
        PROVE  threadList'[cpuOf[u]][at[u].tag].count = threadList[cpuOf[u]][at[u].tag].count
    BY <1>6, <1>7, <2>1, Uses DEF InUse, Using
  <2>2. ASSUME NEW x \in inside[u]
        PROVE  threadList'[cpuOf[u]][x].cpuID \in {threadList[cpuOf[u]][x].cpuID, cpuOf[u]}
    BY <1>6, <1>7, InsideKnown
  <2> QED BY <2>1, <2>2
<1>9. ~Adding(k, tag)'
  BY <1>2, <1>3, <1>6 DEF Adding, Using
<1>10. EntryOK(k, tag)'
  <2>1. threadList'[k][tag] = NewEntry(garbage) /\ tag \in DOMAIN threadList'[k]
    BY <1>1 DEF Inserts
  <2>2. NewEntry(garbage).count = 0
    BY DEF NewEntry
  <2>3. stops'[k][tag] = 0
    BY <1>0, <1>1, <1>2, <1>5 DEF Creating
  <2> QED BY <1>9, <2>1, <2>2, <2>3 DEF EntryOK, Known, TagsOf
<1>11. StoppingOK(t)'
  <2>1. ASSUME NEW x \in inside[t] PROVE threadList'[k][x].cpuID = k
    BY <1>0, <1>1, <1>5, <1>7, InsideKnown DEF MarkerInv, TableInv, StoppingOK
  <2> QED BY <1>0, <1>2, <1>3, <2>1 DEF StoppingOK
<1> QED BY <1>0, <1>1, <1>3, <1>4, <1>8, <1>10, <1>11, TableKept

LEMMA StopReadTables ==
  ASSUME MarkerInv, NEW t \in team, stop_read(t)
  PROVE  TableInv'
<1>0. PICK k, tag : k = cpuOf[t] /\ tag = at[t].tag
  OBVIOUS
<1> DEFINE a == [pc |-> "stop_add", op |-> "stop", tag |-> tag, orphan |-> FALSE]
           e == threadList'[k][tag]
<1>1. /\ InUse(t, k, tag) /\ at[t].pc = "stop_read" /\ ReadCpu(t) /\ Goes(t, a) /\ Writes(k, tag, e)
      /\ Counted(threadList[k][tag], e, tag[2], at[t].reg + 1) /\ inside' = [inside EXCEPT ![t] = inside[t] \ {tag}]
  BY <1>0, StopReadDoes
<1>2. UNCHANGED <<likwid_init, environ, team, cpuOf, stops>> /\ groupSet'.activeGroup = groupSet.activeGroup
  BY <1>0, <1>1, ReadNow DEF stop_read, InUse
<1>3. a.pc = "stop_add" /\ a.tag = tag
  OBVIOUS
<1> HIDE DEF a
<1>4. inside'[t] = inside[t] \ {tag} /\ \A u \in Team : u # t => inside'[u] = inside[u]
  BY <1>1, Thread DEF MarkerInv, MarkerTypes
<1>5. Frame(t) /\ at'[t] = a /\ t \in team'
  BY <1>1, <1>2, <1>4 DEF Frame, Goes, TagsOf, Writes
<1>6. OnlyEntry(k, tag) /\ (\A x : Known(k, x)' = Known(k, x))
  BY <1>1, <1>2, WriteOnly
<1>7. OthersStop(t)
  BY <1>1, WriteOthers DEF Counted, Stopping
<1>8. (Exact(k) => at[t].reg = threadList[k][tag].count) /\ tag \in inside[t] /\ threadList[k][tag].cpuID = k
      /\ at[t].reg \in Nat
  BY <1>0, <1>1, Thread, Call DEF MarkerInv, TableInv, StoppingOK, ThreadInv, ThreadOK
<1>9. Exact(k) => ~Adding(k, tag)
  BY <1>0, <1>1, StopsAlone DEF Adding, Together, Stopping
<1>10. Adding(k, tag)'
  BY <1>0, <1>2, <1>3, <1>5 DEF Adding
<1>11. EntryOK(k, tag)'
  <2>1. (Exact(k) => threadList[k][tag].count = stops[k][tag] + 0) /\ stops[k][tag] \in Nat
    BY <1>1, <1>9, UsedEntry
  <2>2. (Exact(k) => e.count = stops[k][tag] + 1) /\ e.count > 0 /\ e.groupID = tag[2] /\ e.cpuID = k
    BY <1>1, <1>8, <2>1 DEF Counted
  <2>3. Exact(k)' <=> Exact(k)
    BY <1>2 DEF Exact, use_locks
  <2> QED BY <1>1, <1>2, <1>6, <1>10, <2>2, <2>3 DEF EntryOK, InUse, Known
<1>12. StoppingOK(t)'
  <2>1. ASSUME NEW x \in inside[t], x # tag PROVE threadList'[k][x].cpuID = k
    BY <1>0, <1>1, <2>1, InsideKnown DEF MarkerInv, TableInv, StoppingOK, Writes
  <2> QED BY <1>0, <1>2, <1>3, <1>4, <1>5, <2>1 DEF StoppingOK
<1> QED BY <1>0, <1>1, <1>3, <1>5, <1>6, <1>7, <1>11, <1>12, TableKept

LEMMA AddTables ==
  ASSUME MarkerInv, NEW t \in team, stop_add(t)
  PROVE  TableInv'
<1>0. PICK k, tag : k = cpuOf[t] /\ tag = at[t].tag
  OBVIOUS
<1> DEFINE e == StoppedEntry(t, threadList[k][tag])
<1>1. InUse(t, k, tag) /\ at[t].pc = "stop_add" /\ Goes(t, Idle) /\ Writes(k, tag, e) /\ OneMore(k, tag)
  BY <1>0, AddDoes
<1>2. UNCHANGED <<groupSet, likwid_init, environ, team, cpuOf, inside>>
  BY DEF stop_add, vars
<1>3. e.count = threadList[k][tag].count /\ e.groupID = threadList[k][tag].groupID /\ e.cpuID = threadList[k][tag].cpuID
  BY <1>0, <1>1, StopEntry DEF InUse
<1>4. threadList'[k][tag] = e
  BY <1>1 DEF Writes
<1> HIDE DEF e
<1>5. OnlyEntry(k, tag) /\ (\A x : Known(k, x)' = Known(k, x))
  BY <1>1, <1>4, WriteOnly DEF OneMore
<1>6. OthersStop(t)
  BY <1>1, <1>3, <1>4, WriteOthers
<1>7. Frame(t) /\ at'[t].pc = "idle" /\ \A u \in team : u # t => at'[u] = at[u]
  BY <1>1, <1>2, Thread DEF Frame, Goes, TagsOf, Writes, Idle
<1>8. Adding(k, tag) /\ (Exact(k) => ~Adding(k, tag)')
  <2>1. Adding(k, tag)
    BY <1>0, <1>1 DEF Adding
  <2>2. Exact(k) => \A u \in team : cpuOf[u] = k /\ at[u].pc = "stop_add" => u = t
    BY <1>0, <1>1, StopsAlone DEF Together, Stopping
  <2> QED BY <1>2, <1>7, <2>1, <2>2 DEF Adding
<1>9. EntryOK(k, tag)'
  <2>1. /\ Exact(k) => threadList[k][tag].count = stops[k][tag] + 1
        /\ threadList[k][tag].count > 0 /\ stops[k][tag] \in Nat
    BY <1>1, <1>8, UsedEntry
  <2>2. (Exact(k) => e.count = stops'[k][tag] + 0) /\ e.count > 0
    BY <1>1, <1>3, <2>1 DEF OneMore
  <2>3. e.groupID = tag[2] /\ e.cpuID = k
    BY <1>1, <1>3, <2>1, UsedEntry
  <2>4. Exact(k)' <=> Exact(k)
    BY <1>2 DEF Exact, use_locks
  <2> QED BY <1>1, <1>4, <1>5, <1>8, <2>2, <2>3, <2>4 DEF EntryOK, InUse, Known
<1>10. StoppingOK(t)'
  <2>1. ASSUME NEW x \in inside[t] PROVE threadList'[k][x].cpuID = k
    <3>1. x \in TagsOf(k) /\ threadList[k][x].cpuID = k
      BY <1>0, <1>1, InsideKnown DEF MarkerInv, TableInv, StoppingOK
    <3> QED BY <1>1, <1>3, <1>4, <3>1 DEF Writes, InUse
  <2> QED BY <1>0, <1>2, <1>7, <2>1 DEF StoppingOK
<1> QED BY <1>0, <1>1, <1>5, <1>6, <1>7, <1>9, <1>10, TableKept

LEMMA PinTables ==
  ASSUME MarkerInv, NEW t \in team, likwid_markerThreadInit(t)
  PROVE  TableInv'
<1>1. UNCHANGED <<threadList, stops, at, inside, environ, team>>
  BY DEF likwid_markerThreadInit
<1>2. \A u \in team : at[u].pc \notin {"stop_add", "stop_read"} /\ inside[u] = {}
  BY PinThread DEF Using
<1>3. \A k, tag : ~Adding(k, tag) /\ ~Adding(k, tag)' /\ Known(k, tag)' = Known(k, tag)
  BY <1>1, <1>2 DEF Adding, Known, TagsOf
<1>4. ASSUME NEW k \in Cpus, Exact(k)' PROVE Exact(k)
  <2> SUFFICES ASSUME ~use_locks, NEW u \in team, NEW v \in team, cpuOf[u] = k, cpuOf[v] = k PROVE u = v
    BY DEF Exact
  <2>1. cpuOf'[u] = k /\ cpuOf'[v] = k
    BY PinThread, Thread
  <2> QED BY <1>1, <1>4, <2>1 DEF Exact, use_locks
<1> QED BY <1>1, <1>2, <1>3, <1>4 DEF MarkerInv, TableInv, EntryOK, StoppingOK

LEMMA InitTables ==
  ASSUME MarkerInv, likwid_markerInit
  PROVE  TableInv' /\ AllIdle /\ Tables(threadList')
<1>1. /\ ~likwid_init /\ file = <<>> /\ threadList' = [k \in Cpus |-> EmptyTable]
      /\ UNCHANGED <<stops, at, inside, environ, team, cpuOf>>
  BY DEF likwid_markerInit
<1>2. AllIdle
  BY <1>1 DEF AllIdle, MarkerInv, ThreadInv, ThreadOK
<1>3. \A k \in Cpus, tag \in Tags : stops[k][tag] = 0
  BY <1>1 DEF MarkerInv, PhaseInv, TableInv, EntryOK, Known
<1>4. \A k \in Cpus : DOMAIN threadList'[k] = {} /\ threadList'[k] = EmptyTable
  BY <1>1 DEF EmptyTable
<1>5. \A k, tag : ~Adding(k, tag)'
  BY <1>1, <1>2 DEF AllIdle, Adding
<1>6. TableInv'
  BY <1>1, <1>2, <1>3, <1>4, <1>5 DEF TableInv, EntryOK, StoppingOK, Known, TagsOf, AllIdle
<1>7. IsFiniteSet({}) /\ EmptyTable \in [{} -> Entries]
  BY FS_EmptySet DEF EmptyTable
<1>8. Tables(threadList')
  BY <1>1, <1>4, <1>7 DEF Tables
<1> QED BY <1>2, <1>6, <1>8

-----------------------------------------------------------------------------
(* The steps *)

\* A step of a thread inside the API: what remains to be shown for it
LEMMA StepKept ==
  ASSUME MarkerInv, NEW t \in team, likwid_init, LibraryReady(Now'), at' \in [Team -> Calls],
         inside' \in [Team -> SUBSET Tags], threadLocks' \in [Cpus -> SUBSET Team], Tables(threadList'),
         stops' \in [Cpus -> [Tags -> Nat]], ThreadInv', TableInv',
         UNCHANGED <<likwid_init, file, registered_cpus, environ, team, cpuOf, now, happened, counted, wraps>>
  PROVE  MarkerInv'
<1>1. LibraryInv'
  BY LibraryNow DEF LibraryInv, LibraryReady, Now
<1>2. MarkerTypes'
  BY DEF MarkerInv, MarkerTypes
<1>3. PinInv'
  BY DEF MarkerInv, PinInv
<1>4. PhaseInv'
  BY DEF MarkerInv, PhaseInv
<1> QED BY <1>1, <1>2, <1>3, <1>4 DEF MarkerInv

\* A step of a thread that does not read the counters
LEMMA QuietStep ==
  ASSUME MarkerInv, likwid_init, UNCHANGED <<groupSet, cpu>>
  PROVE  LibraryReady(Now')
<1>1. Now' = Now
  BY DEF Now
<1> QED BY <1>1, LibraryNow

LEMMA MarkerTyped ==
  ASSUME MarkerInv
  PROVE  /\ cpuOf \in [Team -> Cpus \cup {-1}] /\ inside \in [Team -> SUBSET Tags] /\ threadLocks \in [Cpus -> SUBSET Team]
         /\ Tables(threadList) /\ stops \in [Cpus -> [Tags -> Nat]] /\ team \subseteq Team
  BY DEF MarkerInv, MarkerTypes, Team

LEMMA RegisterKept ==
  ASSUME MarkerInv, NEW t \in team, NEW r \in Regions[Cardinality(team)], likwid_markerRegisterRegion(t, r)
  PROVE  MarkerInv'
<1>1. PICK m : m = MyTag(r)
  OBVIOUS
<1> DEFINE a == [pc |-> "insert", op |-> "register", tag |-> m, orphan |-> FALSE]
<1>2. Calling(t, m) /\ Goes(t, a)
  BY <1>1, RegisterDoes
<1>3. /\ UNCHANGED <<groupSet, cpu, now, happened>>
      /\ UNCHANGED <<likwid_init, registered_cpus, threadLocks, threadList, environ, team, cpuOf, file, inside, counted, wraps, stops>>
  BY DEF likwid_markerRegisterRegion, vars
<1>4. a.pc = "insert"
  OBVIOUS
<1> HIDE DEF a
<1>5. likwid_init /\ LibraryReady(Now')
  BY <1>2, <1>3, QuietStep DEF Calling
<1>6. TableInv'
  BY <1>2, <1>3, <1>4, CallTables DEF Calling
<1>7. ThreadInv'
  BY RegisterThreads
<1> QED BY <1>2, <1>3, <1>5, <1>6, <1>7, StepKept, MarkerTyped DEF Goes

LEMMA StartKept ==
  ASSUME RegisterFirst, MarkerInv, NEW t \in team, NEW r \in Regions[Cardinality(team)], likwid_markerStartRegion(t, r)
  PROVE  MarkerInv'
<1>1. PICK m : m = MyTag(r)
  OBVIOUS
<1> DEFINE a == [pc |-> IF Known(cpuOf[t], m) THEN "start_read" ELSE "insert", op |-> "start", tag |-> m, orphan |-> FALSE]
<1>2. Calling(t, m) /\ Goes(t, a)
  BY <1>1, StartDoes
<1>3. /\ UNCHANGED <<groupSet, cpu, now, happened>>
      /\ UNCHANGED <<likwid_init, registered_cpus, threadLocks, threadList, environ, team, cpuOf, file, inside, counted, wraps, stops>>
  BY DEF likwid_markerStartRegion, vars
<1>4. a.pc \in {"insert", "start_read"}
  OBVIOUS
<1> HIDE DEF a
<1>5. likwid_init /\ LibraryReady(Now')
  BY <1>2, <1>3, QuietStep DEF Calling
<1>6. TableInv'
  BY <1>2, <1>3, <1>4, CallTables DEF Calling
<1>7. ThreadInv'
  BY StartThreads
<1> QED BY <1>2, <1>3, <1>5, <1>6, <1>7, StepKept, MarkerTyped DEF Goes

LEMMA StopKept ==
  ASSUME MarkerInv, NEW t \in team, NEW r \in Regions[Cardinality(team)], likwid_markerStopRegion(t, r)
  PROVE  MarkerInv'
<1>1. PICK m : m = MyTag(r)
  OBVIOUS
<1> DEFINE a == [pc |-> "lock", op |-> "stop", tag |-> m, orphan |-> FALSE]
<1>2. Calling(t, m) /\ Goes(t, a)
  BY <1>1, StopDoes
<1>3. /\ UNCHANGED <<groupSet, cpu, now, happened>>
      /\ UNCHANGED <<likwid_init, registered_cpus, threadLocks, threadList, environ, team, cpuOf, file, inside, counted, wraps, stops>>
  BY DEF likwid_markerStopRegion, vars
<1>4. a.pc = "lock"
  OBVIOUS
<1> HIDE DEF a
<1>5. likwid_init /\ LibraryReady(Now')
  BY <1>2, <1>3, QuietStep DEF Calling
<1>6. TableInv'
  BY <1>2, <1>3, <1>4, CallTables DEF Calling
<1>7. ThreadInv'
  BY StopThreads
<1> QED BY <1>2, <1>3, <1>5, <1>6, <1>7, StepKept, MarkerTyped DEF Goes

LEMMA LookupKept ==
  ASSUME MarkerInv, NEW t \in team, stop_lookup(t)
  PROVE  MarkerInv'
<1>0. PICK k, tag : k = cpuOf[t] /\ tag = at[t].tag
  OBVIOUS
<1> DEFINE a == [pc |-> "stop_count", op |-> "stop", tag |-> tag, orphan |-> FALSE]
<1>1. /\ InUse(t, k, tag) /\ Goes(t, a) /\ at[t].pc = "lock"
      /\ threadLocks' = IF use_locks THEN [threadLocks EXCEPT ![k] = {t}] ELSE threadLocks
  BY <1>0, LookupDoes
<1>2. /\ UNCHANGED <<groupSet, cpu, now, happened>>
      /\ UNCHANGED <<likwid_init, registered_cpus, threadList, environ, team, cpuOf, file, inside, counted, wraps, stops>>
  BY DEF stop_lookup, vars
<1>3. a.pc = "stop_count"
  OBVIOUS
<1> HIDE DEF a
<1>4. likwid_init /\ LibraryReady(Now')
  BY <1>1, <1>2, QuietStep DEF InUse
<1>5. threadLocks' \in [Cpus -> SUBSET Team]
  BY <1>1, MarkerTyped DEF InUse
<1>6. TableInv'
  BY <1>1, <1>2, <1>3, CallTables
<1>7. ThreadInv'
  BY LookupThreads
<1> QED BY <1>1, <1>2, <1>4, <1>5, <1>6, <1>7, StepKept, MarkerTyped DEF Goes

LEMMA InsertKept ==
  ASSUME MarkerInv, NEW t \in team, NEW garbage \in Garbage, hashTable_insert(t, garbage)
  PROVE  MarkerInv'
<1>0. PICK k, tag : k = cpuOf[t] /\ tag = at[t].tag
  OBVIOUS
<1>1. Goes(t, at'[t]) /\ Inserts(k, tag, NewEntry(garbage)) /\ at[t].pc = "insert"
  BY <1>0, InsertDoes
<1>2. /\ UNCHANGED <<groupSet, cpu, now, happened>>
      /\ UNCHANGED <<likwid_init, registered_cpus, threadLocks, environ, team, cpuOf, file, inside, counted, wraps, stops>>
  BY DEF hashTable_insert, vars
<1>3. likwid_init
  BY <1>1 DEF MarkerInv, ThreadInv, ThreadOK
<1>4. LibraryReady(Now') /\ ThreadInv' /\ TableInv'
  BY <1>2, <1>3, QuietStep, InsertThreads, InsertTables
<1> QED BY <1>1, <1>2, <1>3, <1>4, StepKept, MarkerTyped DEF Goes, Inserts

LEMMA StoreKept ==
  ASSUME MarkerInv, NEW t \in team, start_store(t)
  PROVE  MarkerInv'
<1>0. PICK k, tag : k = cpuOf[t] /\ tag = at[t].tag
  OBVIOUS
<1>1. InUse(t, k, tag) /\ Goes(t, Idle) /\ Writes(k, tag, StartedEntry(t, threadList[k][tag]))
  BY <1>0, StoreDoes
<1>2. /\ UNCHANGED <<groupSet, cpu, now, happened>>
      /\ UNCHANGED <<likwid_init, registered_cpus, threadLocks, environ, team, cpuOf, file, inside, counted, wraps, stops>>
  BY DEF start_store, vars
<1>3. likwid_init /\ at' \in [Team -> Calls] /\ Tables(threadList')
  BY <1>1 DEF InUse, Goes, Writes
<1>4. LibraryReady(Now') /\ ThreadInv' /\ TableInv'
  BY <1>2, <1>3, QuietStep, StoreThreads, StoreTables
<1> QED BY <1>2, <1>3, <1>4, StepKept, MarkerTyped

LEMMA CountKept ==
  ASSUME MarkerInv, NEW t \in team, stop_count(t)
  PROVE  MarkerInv'
<1>0. PICK k, tag : k = cpuOf[t] /\ tag = at[t].tag
  OBVIOUS
<1>1. /\ InUse(t, k, tag)
      /\ Goes(t, [pc |-> "stop_read", op |-> "stop", tag |-> tag, orphan |-> FALSE, reg |-> threadList[k][tag].count])
  BY <1>0, CountDoes
<1>2. /\ UNCHANGED <<groupSet, cpu, now, happened>>
      /\ UNCHANGED <<likwid_init, registered_cpus, threadLocks, threadList, environ, team, cpuOf, file, inside, counted, wraps, stops>>
  BY DEF stop_count, vars
<1>3. likwid_init /\ at' \in [Team -> Calls]
  BY <1>1 DEF InUse, Goes
<1>4. LibraryReady(Now') /\ ThreadInv' /\ TableInv'
  BY <1>2, <1>3, QuietStep, CountThreads, CountTables
<1> QED BY <1>2, <1>3, <1>4, StepKept, MarkerTyped

LEMMA ReadKept ==
  ASSUME MarkerInv, NEW t \in team, start_read(t)
  PROVE  MarkerInv'
<1>0. PICK k, tag : k = cpuOf[t] /\ tag = at[t].tag
  OBVIOUS
<1>1. InUse(t, k, tag) /\ Goes(t, at'[t]) /\ ReadCpu(t) /\ inside' = [inside EXCEPT ![t] = inside[t] \cup {tag}]
  BY <1>0, StartReadDoes
<1>2. /\ UNCHANGED <<now, happened>>
      /\ UNCHANGED <<likwid_init, registered_cpus, threadLocks, threadList, environ, team, cpuOf, file, counted, wraps, stops>>
  BY DEF start_read
<1>3. likwid_init /\ at' \in [Team -> Calls] /\ inside' \in [Team -> SUBSET Tags]
  BY <1>1, MarkerTyped DEF InUse, Goes
<1>4. LibraryReady(Now')
  BY <1>1, ReadNow DEF InUse
<1>5. ThreadInv' /\ TableInv'
  BY ReadThreads, ReadTables
<1> QED BY <1>2, <1>3, <1>4, <1>5, StepKept, MarkerTyped

LEMMA StopReadKept ==
  ASSUME MarkerInv, NEW t \in team, stop_read(t)
  PROVE  MarkerInv'
<1>0. PICK k, tag : k = cpuOf[t] /\ tag = at[t].tag
  OBVIOUS
<1>1. /\ InUse(t, k, tag) /\ Goes(t, [pc |-> "stop_add", op |-> "stop", tag |-> tag, orphan |-> FALSE]) /\ ReadCpu(t)
      /\ inside' = [inside EXCEPT ![t] = inside[t] \ {tag}] /\ Writes(k, tag, threadList'[k][tag])
  BY <1>0, StopReadDoes
<1>2. /\ UNCHANGED <<now, happened>>
      /\ UNCHANGED <<likwid_init, registered_cpus, threadLocks, environ, team, cpuOf, file, counted, wraps, stops>>
  BY DEF stop_read
<1>3. likwid_init /\ at' \in [Team -> Calls] /\ inside' \in [Team -> SUBSET Tags] /\ Tables(threadList')
  BY <1>1, MarkerTyped DEF InUse, Goes, Writes
<1>4. LibraryReady(Now')
  BY <1>1, ReadNow DEF InUse
<1>5. ThreadInv' /\ TableInv'
  BY StopReadThreads, StopReadTables
<1> QED BY <1>2, <1>3, <1>4, <1>5, StepKept, MarkerTyped

LEMMA AddKept ==
  ASSUME MarkerInv, NEW t \in team, stop_add(t)
  PROVE  MarkerInv'
<1>0. PICK k, tag : k = cpuOf[t] /\ tag = at[t].tag
  OBVIOUS
<1>1. /\ InUse(t, k, tag) /\ Goes(t, Idle) /\ Writes(k, tag, StoppedEntry(t, threadList[k][tag])) /\ OneMore(k, tag)
      /\ threadLocks' = IF use_locks THEN [threadLocks EXCEPT ![k] = {}] ELSE threadLocks
  BY <1>0, AddDoes
<1>2. /\ UNCHANGED <<groupSet, cpu, now, happened>>
      /\ UNCHANGED <<likwid_init, registered_cpus, environ, team, cpuOf, file, inside, counted, wraps>>
  BY DEF stop_add, vars
<1>3. likwid_init /\ at' \in [Team -> Calls] /\ Tables(threadList') /\ stops' \in [Cpus -> [Tags -> Nat]]
  BY <1>1 DEF InUse, Goes, Writes, OneMore
<1>4. threadLocks' \in [Cpus -> SUBSET Team]
  BY <1>1, MarkerTyped DEF InUse
<1>5. LibraryReady(Now') /\ ThreadInv' /\ TableInv'
  BY <1>2, <1>3, QuietStep, AddThreads, AddTables
<1> QED BY <1>2, <1>3, <1>4, <1>5, StepKept, MarkerTyped


LEMMA PinKept ==
  ASSUME MarkerInv, NEW t \in team, likwid_markerThreadInit(t)
  PROVE  MarkerInv'
<1>1. likwid_init /\ cpuOf' \in [Team -> Cpus \cup {-1}] /\ ThreadInv' /\ PinInv' /\ TableInv'
  BY PinThread, PinTables
<1>2. /\ UNCHANGED <<groupSet, cpu, now, happened>>
      /\ UNCHANGED <<likwid_init, threadLocks, threadList, environ, team, at, file, inside, counted, wraps, stops>>
  BY DEF likwid_markerThreadInit, vars
<1>3. LibraryReady(Now')
  BY <1>1, <1>2, QuietStep
<1>4. LibraryInv'
  BY <1>2, <1>3, LibraryNow DEF LibraryInv, LibraryReady, Now
<1>5. MarkerTypes'
  BY <1>1, <1>2 DEF MarkerInv, MarkerTypes
<1>6. PhaseInv'
  BY <1>1, <1>2 DEF MarkerInv, PhaseInv
<1> QED BY <1>1, <1>4, <1>5, <1>6 DEF MarkerInv

LEMMA InitKept ==
  ASSUME MarkerInv, likwid_markerInit
  PROVE  MarkerInv'
<1>1. /\ likwid_init' /\ file = <<>>
      /\ UNCHANGED <<now, happened, registered_cpus, threadLocks, environ, team, cpuOf, at, file, inside, counted, wraps, stops>>
  BY DEF likwid_markerInit
<1>2. LibraryReady(Now') /\ TableInv' /\ AllIdle /\ Tables(threadList')
  BY InitLibrary, InitTables
<1>3. ThreadInv'
  BY <1>1, <1>2, IdleThreads
<1>4. LibraryInv'
  BY <1>1, <1>2, LibraryNow DEF LibraryInv, LibraryReady, Now
<1>5. MarkerTypes'
  BY <1>1, <1>2 DEF MarkerInv, MarkerTypes
<1>6. PinInv'
  BY <1>1 DEF MarkerInv, PinInv
<1>7. PhaseInv'
  BY <1>1 DEF PhaseInv
<1> QED BY <1>2, <1>3, <1>4, <1>5, <1>6, <1>7 DEF MarkerInv

LEMMA SwitchKept ==
  ASSUME MarkerInv, likwid_markerNextGroup
  PROVE  MarkerInv'
<1>1. /\ likwid_init /\ Quiet /\ Outside
      /\ UNCHANGED <<now, happened, likwid_init, registered_cpus, threadLocks, threadList, environ, team, cpuOf, at, file,
                     inside, counted, wraps, stops>>
  BY DEF likwid_markerNextGroup
<1>2. LibraryReady(Now') /\ AllIdle
  BY <1>1, SwitchLibrary DEF AllIdle, Quiet, Outside
<1>3. ThreadInv' /\ TableInv'
  BY <1>1, <1>2, IdleThreads, SameTables
<1>4. LibraryInv'
  BY <1>1, <1>2, LibraryNow DEF LibraryInv, LibraryReady, Now
<1>5. MarkerTypes'
  BY <1>1 DEF MarkerInv, MarkerTypes
<1>6. PinInv' /\ PhaseInv'
  BY <1>1 DEF MarkerInv, PinInv, PhaseInv
<1> QED BY <1>3, <1>4, <1>5, <1>6 DEF MarkerInv

\* The file is written once, and there was none before.
LEMMA CloseWrites ==
  ASSUME MarkerInv, likwid_markerClose
  PROVE  /\ likwid_init /\ ~likwid_init' /\ AllIdle /\ file = <<>> /\ AllPinned
         /\ \E f \in RegionIds : file' = <<Results(f)>>
         /\ UNCHANGED <<groupSet, cpu, now, happened>>
         /\ UNCHANGED <<registered_cpus, threadLocks, threadList, environ, team, cpuOf, at, inside, counted, wraps, stops>>
<1>1. /\ likwid_init /\ ~likwid_init' /\ Quiet /\ Outside /\ AllPinned
      /\ \E f \in RegionIds : file' = Append(file, Results(f))
      /\ UNCHANGED <<groupSet, cpu, now, happened>>
      /\ UNCHANGED <<registered_cpus, threadLocks, threadList, environ, team, cpuOf, at, inside, counted, wraps, stops>>
  BY DEF likwid_markerClose, vars, AllPinned
<1>2. file = <<>>
  BY <1>1 DEF MarkerInv, PhaseInv
<1>3. \A x : Append(<<>>, x) = <<x>>
  OBVIOUS
<1> QED BY <1>1, <1>2, <1>3 DEF AllIdle, Quiet, Outside

LEMMA CloseKept ==
  ASSUME MarkerInv, likwid_markerClose
  PROVE  MarkerInv'
<1>1. /\ ~likwid_init' /\ AllIdle
      /\ UNCHANGED <<groupSet, cpu, now, happened>>
      /\ UNCHANGED <<registered_cpus, threadLocks, threadList, environ, team, cpuOf, at, inside, counted, wraps, stops>>
  BY CloseWrites
<1>2. file' # <<>>
  BY CloseWrites
<1>3. ThreadInv' /\ TableInv'
  BY <1>1, IdleThreads, SameTables
<1>4. LibraryInv'
  BY <1>1, LibraryNow DEF LibraryInv, Now
<1>5. MarkerTypes'
  BY <1>1 DEF MarkerInv, MarkerTypes
<1>6. PinInv' /\ PhaseInv'
  BY <1>1, <1>2 DEF MarkerInv, PinInv, PhaseInv
<1> QED BY <1>3, <1>4, <1>5, <1>6 DEF MarkerInv

\* What the history notes for an event
Inside(k, tag) == \E t \in team : cpuOf[t] = k /\ tag \in inside[t]
Hits(j, c, k, e) == j \in Where(k, e) /\ Counts(cpu[j], c, e)
LEMMA EventHistory ==
  ASSUME MarkerInv, NEW k \in Cpus, NEW e \in Flags, MarkerEvent(k, e)
  PROVE  /\ counted' \in [Cpus -> [Tags -> [Counters -> Nat]]] /\ wraps' \in [Cpus -> [Tags -> [Counters -> Nat]]]
         /\ \A j \in Cpus, tag \in Tags, c \in Counters :
              /\ counted'[j][tag][c] = counted[j][tag][c] + IF Inside(j, tag) /\ Hits(j, c, k, e) THEN 1 ELSE 0
              /\ wraps'[j][tag][c] = wraps[j][tag][c] +
                   IF Inside(j, tag) /\ Hits(j, c, k, e) /\ cpu[j].count[c] = perfmon_getMaxCounterValue(c) THEN 1 ELSE 0
<1> DEFINE A(j, tag, c) == Inside(j, tag) /\ Hits(j, c, k, e)
           B(j, tag, c) == A(j, tag, c) /\ cpu[j].count[c] = perfmon_getMaxCounterValue(c)
<1>1. counted' = [j \in Cpus |-> [tag \in Tags |-> [c \in Counters |->
                    IF A(j, tag, c) THEN counted[j][tag][c] + 1 ELSE counted[j][tag][c]]]]
  BY DEF MarkerEvent, Inside, Hits
<1>2. wraps' = [j \in Cpus |-> [tag \in Tags |-> [c \in Counters |->
                  IF B(j, tag, c) THEN wraps[j][tag][c] + 1 ELSE wraps[j][tag][c]]]]
  BY DEF MarkerEvent, Inside, Hits
<1>3. counted \in [Cpus -> [Tags -> [Counters -> Nat]]] /\ wraps \in [Cpus -> [Tags -> [Counters -> Nat]]]
  BY DEF MarkerInv, MarkerTypes
<1> HIDE DEF A, B
<1>4. counted' \in [Cpus -> [Tags -> [Counters -> Nat]]] /\ wraps' \in [Cpus -> [Tags -> [Counters -> Nat]]]
  BY <1>1, <1>2, <1>3
<1>5. ASSUME NEW j \in Cpus, NEW tag \in Tags, NEW c \in Counters
      PROVE  /\ counted'[j][tag][c] = counted[j][tag][c] + IF A(j, tag, c) THEN 1 ELSE 0
             /\ wraps'[j][tag][c] = wraps[j][tag][c] + IF B(j, tag, c) THEN 1 ELSE 0
  BY <1>1, <1>2, <1>3
<1> QED BY <1>4, <1>5 DEF A, B

LEMMA EventKept ==
  ASSUME MarkerInv, NEW k \in Cpus, NEW e \in Flags, MarkerEvent(k, e)
  PROVE  MarkerInv'
<1>1. /\ likwid_init /\ UNCHANGED now
      /\ UNCHANGED <<likwid_init, registered_cpus, threadLocks, threadList, environ, team, cpuOf, at, file, inside, stops>>
  BY DEF MarkerEvent
<1>2. LibraryReady(Now') /\ happened' \in 0 .. MaxEvents
  BY EventNow
<1>3. ThreadInv' /\ TableInv'
  BY <1>1, EventThreads, SameTables
<1>4. LibraryInv'
  BY <1>1, <1>2, LibraryNow DEF LibraryInv, LibraryReady, Now
<1>5. MarkerTypes'
  BY <1>1, EventHistory DEF MarkerInv, MarkerTypes
<1>6. PinInv' /\ PhaseInv'
  BY <1>1 DEF MarkerInv, PinInv, PhaseInv
<1> QED BY <1>3, <1>4, <1>5, <1>6 DEF MarkerInv

LEMMA StutterKept ==
  ASSUME MarkerInv, UNCHANGED allVars
  PROVE  MarkerInv'
<1>1. /\ UNCHANGED <<groupSet, cpu, now, happened>>
      /\ UNCHANGED <<likwid_init, file, registered_cpus, threadLocks, threadList, environ, team, cpuOf, at, inside, counted, wraps, stops>>
  BY DEF allVars, vars, markerVars
<1>2. LibraryInv' /\ MarkerTypes'
  BY <1>1 DEF MarkerInv, LibraryInv, Now, MarkerTypes
<1>3. PinInv' /\ PhaseInv'
  BY <1>1 DEF MarkerInv, PinInv, PhaseInv, TagsOf
<1>4. TableInv'
  BY <1>1, SameTables
<1>5. AllPinned' = AllPinned /\ use_locks' = use_locks /\ \A j, x : Known(j, x)' = Known(j, x)
  BY <1>1 DEF AllPinned, use_locks, Known, TagsOf
<1>6. ThreadInv'
  BY <1>1, <1>5 DEF MarkerInv, ThreadInv, ThreadOK, Creating, Together
<1> QED BY <1>2, <1>3, <1>4, <1>6 DEF MarkerInv

LEMMA MarkerStep ==
  ASSUME RegisterFirst, MarkerInv, [MarkerNext]_allVars
  PROVE  MarkerInv'
<1>1. ASSUME NEW t \in team, Step(t) PROVE MarkerInv'
  <2>1. CASE likwid_markerThreadInit(t)
    BY <2>1, PinKept
  <2>2. ASSUME NEW r \in Regions[Cardinality(team)], likwid_markerRegisterRegion(t, r) PROVE MarkerInv'
    BY <2>2, RegisterKept
  <2>3. ASSUME NEW r \in Regions[Cardinality(team)], likwid_markerStartRegion(t, r) PROVE MarkerInv'
    BY <2>3, StartKept
  <2>4. ASSUME NEW r \in Regions[Cardinality(team)], likwid_markerStopRegion(t, r) PROVE MarkerInv'
    BY <2>4, StopKept
  <2>5. ASSUME NEW garbage \in Garbage, hashTable_insert(t, garbage) PROVE MarkerInv'
    BY <2>5, InsertKept
  <2>6. CASE start_read(t)
    BY <2>6, ReadKept
  <2>7. CASE start_store(t)
    BY <2>7, StoreKept
  <2>8. CASE stop_lookup(t)
    BY <2>8, LookupKept
  <2>9. CASE stop_count(t)
    BY <2>9, CountKept
  <2>10. CASE stop_read(t)
    BY <2>10, StopReadKept
  <2>11. CASE stop_add(t)
    BY <2>11, AddKept
  <2> QED BY <1>1, <2>1, <2>2, <2>3, <2>4, <2>5, <2>6, <2>7, <2>8, <2>9, <2>10, <2>11 DEF Step
<1>2. ASSUME NEW k \in Cpus, NEW e \in Flags, MarkerEvent(k, e) PROVE MarkerInv'
  BY <1>2, EventKept
<1>3. CASE likwid_markerInit
  BY <1>3, InitKept
<1>4. CASE likwid_markerNextGroup
  BY <1>4, SwitchKept
<1>5. CASE likwid_markerClose
  BY <1>5, CloseKept
<1>6. CASE UNCHANGED allVars
  BY <1>6, StutterKept
<1> QED BY <1>1, <1>2, <1>3, <1>4, <1>5, <1>6 DEF MarkerNext


\* The initial state: likwid-perfctr has programmed the counters.
LEMMA MarkerInitHolds == MarkerInit => MarkerInv
<1> SUFFICES ASSUME MarkerInit PROVE MarkerInv
  OBVIOUS
<1>1. /\ groupSet = NoGroups /\ now = 0 /\ happened = 0 /\ likwid_init = FALSE /\ registered_cpus = 0
      /\ threadLocks = [k \in Cpus |-> {}] /\ threadList = [k \in Cpus |-> EmptyTable] /\ team \in Teams
      /\ cpuOf = [t \in Team |-> -1] /\ at = [t \in Team |-> Idle] /\ file = <<>> /\ inside = [t \in Team |-> {}]
      /\ counted = [k \in Cpus |-> [tag \in Tags |-> [c \in Counters |-> 0]]]
      /\ wraps = [k \in Cpus |-> [tag \in Tags |-> [c \in Counters |-> 0]]]
      /\ stops = [k \in Cpus |-> [tag \in Tags |-> 0]]
  BY DEF MarkerInit
<1>2. PICK position \in Positions : cpu = [t \in Threads |-> ProgrammedCpu(GroupEvents[0], position)]
  BY DEF MarkerInit
<1> DEFINE es == GroupEvents[0]
           q == ProgrammedCpu(es, position)
<1>3. es \in EventSets /\ position \in 0 .. CoreSize - 1 /\ CoreSize \in Nat
  BY GroupEventsAssumption, MarkerBoundsAssumption, SizeAssumption
<1>4. DOMAIN es \subseteq Counters /\ \A c \in DOMAIN es : es[c] \in Flags
  BY <1>3, EventSet
<1> HIDE DEF es
<1>5. CpuOK(q)
  <2> DEFINE c1 == [c \in Core |-> IF c \in DOMAIN es THEN es[c] ELSE Off]
             n1 == [c \in Counters |-> IF c \in DOMAIN es \cap Core THEN position ELSE 0]
             q1 == [IdleCpu EXCEPT !.ctrl = c1]
             q2 == [q1 EXCEPT !.enabled = DOMAIN es \cap Core]
  <2>1. q = [q2 EXCEPT !.count = n1]
    BY DEF ProgrammedCpu
  <2>2. IdleCpu \in Cpu
    BY DEF IdleCpu, Cpu
  <2>3. c1 \in [Core -> Flags \cup {Off}]
    BY <1>4
  <2>4. n1 \in [Counters -> Nat] /\ \A c \in Counters : n1[c] < Size(c)
    <3>1. \A c \in Core : c \notin Power
      BY CountersAssumption
    <3> QED BY <1>3, <3>1, Sizes DEF Size
  <2> HIDE DEF c1, n1, IdleCpu
  <2>5. q1 \in Cpu
    BY <2>2, <2>3 DEF Cpu
  <2> HIDE DEF q1
  <2>6. q2 \in Cpu
    BY <2>5 DEF Cpu
  <2> HIDE DEF q2
  <2>7. q \in Cpu /\ q.count = n1
    BY <2>1, <2>4, <2>6 DEF Cpu
  <2> QED BY <2>4, <2>7 DEF CpuOK
<1> HIDE DEF q
<1>6. Now.gs = NoGroups /\ Now.cpu = [t \in Threads |-> q]
  BY <1>1, <1>2 DEF Now, q, es
<1>7. SetOK(NoGroups)
  <2>1. NoGroups.groups = <<>> /\ <<>> = [g \in 0 .. -1 |-> <<>>[g]]
    BY DEF NoGroups
  <2> QED BY <2>1, PerfmonBoundsAssumption DEF NoGroups, SetOK
<1>8. LibraryInv
  BY <1>1, <1>5, <1>6, <1>7, PerfmonBoundsAssumption DEF LibraryInv, LibType
<1>9. MarkerTypes
  <2>1. Idle \in Calls
    BY DEF Idle, Calls
  <2>2. IsFiniteSet({}) /\ EmptyTable \in [{} -> Entries] /\ DOMAIN EmptyTable = {}
    BY FS_EmptySet DEF EmptyTable
  <2> HIDE DEF Idle, EmptyTable
  <2>3. Tables(threadList)
    BY <1>1, <2>2 DEF Tables
  <2>4. at \in [Team -> Calls] /\ cpuOf \in [Team -> Cpus \cup {-1}] /\ inside \in [Team -> SUBSET Tags]
        /\ threadLocks \in [Cpus -> SUBSET Team]
    BY <1>1, <2>1
  <2>5. stops \in [Cpus -> [Tags -> Nat]]
    BY <1>1
  <2>6. counted \in [Cpus -> [Tags -> [Counters -> Nat]]] /\ wraps \in [Cpus -> [Tags -> [Counters -> Nat]]]
    BY <1>1
  <2> QED BY <1>1, <2>3, <2>4, <2>5, <2>6 DEF MarkerTypes
<1>10. team \subseteq Team
  BY <1>1 DEF Team
<1>11. \A t \in team : cpuOf[t] = -1 /\ at[t] = Idle /\ inside[t] = {}
  BY <1>1, <1>10
<1>12. PinInv
  BY <1>1 DEF PinInv
<1>13. \A t \in team : at[t].pc = "idle" /\ at[t].op = "none"
  BY <1>11 DEF Idle
<1>14. ThreadInv
  BY <1>11, <1>13 DEF ThreadInv, ThreadOK, Creating, Using, Stopping
<1>15. \A k \in Cpus : TagsOf(k) = {}
  BY <1>1 DEF TagsOf, EmptyTable
<1>16. TableInv
  BY <1>1, <1>11, <1>13, <1>15 DEF TableInv, EntryOK, StoppingOK, Known
<1>17. PhaseInv
  BY <1>1, <1>15 DEF PhaseInv
<1> QED BY <1>8, <1>9, <1>12, <1>14, <1>16, <1>17 DEF MarkerInv

\* The entry of a region when all threads of the CPU are outside of the API
LEMMA SettledCounts ==
  ASSUME MarkerInv, NEW k \in Cpus, Settled(k), NEW tag \in TagsOf(k)
  PROVE  tag \in Tags /\ (Serial(k) => threadList[k][tag].count = stops[k][tag])
<1>1. tag \in Tags /\ Known(k, tag)
  BY DEF MarkerInv, MarkerTypes, Tables, TagsOf, Known
<1>2. ~Adding(k, tag)
  BY DEF Adding, Settled, Sharers
<1>3. EntryOK(k, tag) /\ stops[k][tag] \in Nat
  BY <1>1 DEF MarkerInv, TableInv, MarkerTypes
<1>4. Serial(k) => threadList[k][tag].count = stops[k][tag] + 0
  BY <1>1, <1>2, <1>3, SerialExact DEF EntryOK
<1> QED BY <1>1, <1>3, <1>4

\* Every completed stop of a region is counted, on every CPU that one thread has
\* for itself, and with locks also where any number of threads share the CPU and
\* its table, however their stops interleave (threadLocks in
\* likwid_markerStopRegion), provided that a region of a shared CPU is
\* registered before it is used.
THEOREM StopsAreCounted ==
  ASSUME RegisterFirst
  PROVE  MarkerSpec => []CountsStops
<1>1. MarkerInit => MarkerInv
  BY MarkerInitHolds
<1>2. MarkerInv /\ [MarkerNext]_allVars => MarkerInv'
  BY MarkerStep
<1>3. MarkerInv => CountsStops
  BY SettledCounts DEF CountsStops
<1> QED BY <1>1, <1>2, <1>3, PTL DEF MarkerSpec


-----------------------------------------------------------------------------
(* The file *)

\* The regions of a CPU, and of all of them
LEMMA RegionsFinite ==
  ASSUME MarkerInv, NEW k \in Cpus, TagsOf(k) = AllTags
  PROVE  /\ IsFiniteSet(AllTags) /\ Cardinality(AllTags) \in Nat
         /\ numberOfRegions(Cpus) = Cardinality(AllTags)
<1>1. \A j \in Cpus : TagsOf(j) \subseteq AllTags
  BY DEF AllTags
<1>2. \A j \in Cpus : IsFiniteSet(TagsOf(j))
  BY DEF MarkerInv, MarkerTypes, Tables, TagsOf
<1>3. IsFiniteSet(AllTags) /\ Cardinality(AllTags) \in Nat
  BY <1>2, FS_CardinalityType
<1>4. \A j \in Cpus : Cardinality(TagsOf(j)) \in Nat /\ Cardinality(TagsOf(j)) <= Cardinality(AllTags)
  BY <1>1, <1>2, <1>3, FS_Subset, FS_CardinalityType
<1> DEFINE S == {Cardinality(TagsOf(j)) : j \in Cpus}
           n == CHOOSE m \in S : \A j \in Cpus : Cardinality(TagsOf(j)) <= m
<1>5. \E m \in S : \A j \in Cpus : Cardinality(TagsOf(j)) <= m
  BY <1>4
<1>6. n \in S /\ \A j \in Cpus : Cardinality(TagsOf(j)) <= n
  BY <1>5
<1>7. numberOfRegions(Cpus) = n
  BY DEF numberOfRegions
<1> HIDE DEF n
<1>8. n = Cardinality(AllTags)
  <2>1. PICK j \in Cpus : n = Cardinality(TagsOf(j))
    BY <1>6
  <2>2. Cardinality(AllTags) <= n
    BY <1>6
  <2> QED BY <1>3, <1>4, <2>1, <2>2
<1> QED BY <1>3, <1>7, <1>8

\* The first CPU that knows a region
LEMMA FirstKnows ==
  ASSUME NEW tag \in AllTags
  PROVE  First(tag) \in Cpus /\ tag \in TagsOf(First(tag))
<1> DEFINE S == {k \in Cpus : tag \in TagsOf(k)}
<1>1. S # {} /\ S \subseteq Nat
  BY ThreadsAssumption DEF AllTags, Cpus, Threads
<1>2. PICK k \in S : \A l \in S : k <= l
  BY <1>1, LeastNatural
<1>3. \E j \in Cpus : tag \in TagsOf(j) /\ \A l \in Cpus : tag \in TagsOf(l) => j <= l
  BY <1>2
<1> QED BY <1>3 DEF First

\* What is in the table when the file is written
LEMMA TableAtClose ==
  ASSUME MarkerInv, AllIdle, NEW k \in Cpus, NEW tag \in Tags
  PROVE  /\ stops[k][tag] \in Nat /\ (stops[k][tag] > 0 => tag \in TagsOf(k) /\ tag \in AllTags)
         /\ Serial(k) /\ tag \in TagsOf(k) => threadList[k][tag].count = stops[k][tag]
         /\ stops[k][tag] > 0 => threadList[k][tag].groupID = tag[2] /\ threadList[k][tag].cpuID = k
         /\ tag \notin TagsOf(k) => stops[k][tag] = 0
<1>1. stops[k][tag] \in Nat /\ EntryOK(k, tag)
  BY DEF MarkerInv, MarkerTypes, TableInv
<1>2. Settled(k)
  BY DEF AllIdle, Settled, Sharers
<1>3. Serial(k) /\ tag \in TagsOf(k) => threadList[k][tag].count = stops[k][tag]
  BY <1>2, SettledCounts
<1>4. stops[k][tag] > 0 => tag \in TagsOf(k)
  BY <1>1 DEF EntryOK, Known
<1> QED BY <1>1, <1>3, <1>4 DEF EntryOK, Known, AllTags

\* The line of a region
LEMMA RegionLine ==
  ASSUME MarkerInv, AllIdle, NEW tag \in Tags, NEW k \in Cpus, NEW r, r = Row(k, tag)
  PROVE  /\ Serial(k) => r.count = stops[k][tag]
         /\ stops[k][tag] > 0 => r.cpuID = k /\ r.counters = threadList[k][tag].PMcounters
<1>1. CASE tag \in TagsOf(k)
  BY <1>1, TableAtClose DEF Row
<1>2. CASE tag \notin TagsOf(k)
  BY <1>2, TableAtClose DEF Row
<1> QED BY <1>1, <1>2

LEMMA CloseGathers ==
  ASSUME OneRunsAll, MarkerInv, likwid_markerClose
  PROVE  FileGathersAll'
<1>1. /\ AllIdle /\ UNCHANGED <<threadList, stops, environ, team, cpuOf>>
      /\ \E k \in Cpus : \A tag \in AllTags : stops[k][tag] > 0
      /\ \A tag \in AllTags : stops[First(tag)][tag] > 0
  BY CloseWrites DEF likwid_markerClose
<1>2. PICK f \in RegionIds : file' = <<Results(f)>>
  BY CloseWrites
<1>3. PICK k \in Cpus : \A tag \in AllTags : stops[k][tag] > 0
  BY <1>1
<1>4. AllTags \subseteq Tags
  BY DEF AllTags, MarkerInv, MarkerTypes, Tables, TagsOf
<1>5. TagsOf(k) = AllTags
  <2>1. TagsOf(k) \subseteq AllTags
    BY DEF AllTags
  <2>2. AllTags \subseteq TagsOf(k)
    BY <1>1, <1>3, <1>4, TableAtClose
  <2> QED BY <2>1, <2>2
<1>6. Cardinality(AllTags) \in Nat /\ numberOfRegions(Cpus) = Cardinality(AllTags)
  BY <1>5, RegionsFinite
<1>7. \A x \in AllTags : f[x] < numberOfRegions(Cpus)
  BY <1>6 DEF RegionIds
<1> DEFINE Line(x) == [tag |-> x, groupID |-> threadList[First(x)][x].groupID, rows |-> [j \in Cpus |-> Row(j, x)]]
<1>8. Results(f) = {Line(x) : x \in AllTags}
  BY <1>7 DEF Results
<1>9. \A x : /\ Line(x).tag = x /\ Line(x).groupID = threadList[First(x)][x].groupID
             /\ \A j \in Cpus : Line(x).rows[j] = Row(j, x)
  OBVIOUS
<1> HIDE DEF Line
<1>10. ASSUME NEW tag \in Tags, NEW j \in Cpus, stops[j][tag] > 0
       PROVE  \E e \in Results(f) :
                /\ e.tag = tag /\ e.groupID = tag[2]
                /\ \A x \in Results(f) : x.tag = tag => x = e
                /\ \A i \in Cpus : /\ Serial(i) => e.rows[i].count = stops[i][tag]
                                   /\ stops[i][tag] > 0 => /\ e.rows[i].cpuID = i
                                                           /\ e.rows[i].counters = threadList[i][tag].PMcounters
  <2> DEFINE e == Line(tag)
  <2>1. tag \in AllTags
    BY <1>1, <1>10, TableAtClose
  <2>2. e \in Results(f) /\ e.tag = tag /\ \A x \in Results(f) : x.tag = tag => x = e
    BY <1>8, <1>9, <2>1
  <2>3. First(tag) \in Cpus /\ stops[First(tag)][tag] > 0
    BY <1>1, <2>1, FirstKnows
  <2>4. e.groupID = tag[2]
    BY <1>1, <1>9, <2>3, TableAtClose
  <2>5. ASSUME NEW i \in Cpus
        PROVE  /\ Serial(i) => e.rows[i].count = stops[i][tag]
               /\ stops[i][tag] > 0 => e.rows[i].cpuID = i /\ e.rows[i].counters = threadList[i][tag].PMcounters
    BY <1>1, <1>9, RegionLine
  <2> QED BY <2>2, <2>4, <2>5
<1>11. DOMAIN file' = {1} /\ file'[1] = Results(f)
  BY <1>2
<1>12. \A i : Serial(i)' <=> Serial(i)
  BY <1>1 DEF Serial, Sharers, use_locks
<1> QED BY <1>1, <1>10, <1>11, <1>12 DEF FileGathersAll

LEMMA FileStep ==
  ASSUME OneRunsAll, MarkerInv, FileGathersAll, [MarkerNext]_allVars
  PROVE  FileGathersAll'
<1>1. CASE likwid_markerClose
  BY <1>1, CloseGathers
<1>2. CASE UNCHANGED allVars
  BY <1>2 DEF FileGathersAll, Serial, Sharers, use_locks, allVars, markerVars
<1>3. CASE MarkerNext /\ ~likwid_markerClose
  <2>1. \A t \in team : at[t].pc # "idle" => likwid_init
    BY DEF MarkerInv, ThreadInv, ThreadOK
  <2>2. ASSUME NEW t \in team, Step(t) PROVE likwid_init /\ file' = file
    <3>1. ASSUME NEW r, likwid_markerRegisterRegion(t, r) \/ likwid_markerStartRegion(t, r) \/ likwid_markerStopRegion(t, r)
          PROVE  likwid_init /\ file' = file
      BY <3>1 DEF likwid_markerRegisterRegion, likwid_markerStartRegion, likwid_markerStopRegion, Ready
    <3>2. ASSUME NEW garbage, hashTable_insert(t, garbage) PROVE at[t].pc # "idle" /\ file' = file
      BY <3>2 DEF hashTable_insert
    <3>3. CASE likwid_markerThreadInit(t)
      BY <3>3 DEF likwid_markerThreadInit
    <3>4. CASE start_read(t) \/ start_store(t)
      BY <2>1, <3>4 DEF start_read, start_store
    <3>5. CASE stop_lookup(t) \/ stop_count(t) \/ stop_read(t) \/ stop_add(t)
      BY <2>1, <3>5 DEF stop_lookup, stop_count, stop_read, stop_add
    <3> QED BY <2>1, <2>2, <3>1, <3>2, <3>3, <3>4, <3>5 DEF Step
  <2>3. ASSUME NEW k \in Cpus, NEW e \in Flags, MarkerEvent(k, e) PROVE likwid_init /\ file' = file
    BY <2>3 DEF MarkerEvent
  <2>4. CASE likwid_markerInit
    BY <2>4 DEF likwid_markerInit, FileGathersAll
  <2>5. CASE likwid_markerNextGroup
    <3>1. likwid_init /\ file' = file
      BY <2>5 DEF likwid_markerNextGroup
    <3> QED BY <3>1 DEF MarkerInv, PhaseInv, FileGathersAll
  <2>6. CASE likwid_init /\ file' = file
    BY <2>6 DEF MarkerInv, PhaseInv, FileGathersAll
  <2> QED BY <1>3, <2>2, <2>3, <2>4, <2>5, <2>6 DEF MarkerNext
<1> QED BY <1>1, <1>2, <1>3

\* The file has, for every region that was run, one entry with its group and,
\* for each CPU, its sums and, where stops are serialised, its executions
\* (likwid_markerClose, hashTable_finalize), provided that one CPU runs every region and the first
\* CPU that knows a region runs it: there is room for as many regions as one
\* CPU has, and the group is taken from that first CPU.
THEOREM FileIsComplete ==
  ASSUME RegisterFirst, OneRunsAll
  PROVE  MarkerSpec => []FileGathersAll
<1>1. MarkerInit => MarkerInv /\ FileGathersAll
  <2>1. MarkerInit => FileGathersAll
    BY DEF MarkerInit, FileGathersAll
  <2> QED BY <2>1, MarkerInitHolds
<1>2. MarkerInv /\ FileGathersAll /\ [MarkerNext]_allVars => MarkerInv' /\ FileGathersAll'
  BY MarkerStep, FileStep
<1> QED BY <1>1, <1>2, PTL DEF MarkerSpec


-----------------------------------------------------------------------------
(* The sums of the regions *)

\* The counters of the active group are numbers below their range.
LEMMA CounterNumbers ==
  ASSUME MarkerInv, likwid_init, NEW k \in Cpus, NEW c \in DOMAIN ActiveEvents \cap Core
  PROVE  /\ cpu[k].count[c] \in 0 .. CoreSize - 1 /\ Ctr(k, c).counterData \in 0 .. CoreSize - 1
         /\ Ctr(k, c).overflows \in Nat /\ Unseen(k, c) \in {0, 1} /\ CoreSize \in Nat \ {0}
         /\ Size(c) = CoreSize /\ c \in Counters /\ c \in Core
<1>1. CounterOK(c, Ctr(k, c)) /\ Ctr(k, c) \in PerfmonCounter
  BY ActiveOK
<1>2. c \notin Power /\ c \in Counters
  BY CountersAssumption DEF Counters
<1>3. Size(c) = CoreSize /\ CoreSize \in Nat \ {0}
  BY <1>2, SizeAssumption DEF Size
<1>4. CpuOK(cpu[k])
  BY LibraryNow DEF LibType, Cpus
<1>5. cpu[k].count[c] \in Nat /\ cpu[k].count[c] < CoreSize
  BY <1>2, <1>3, <1>4 DEF CpuOK, Cpu
<1>6. Ctr(k, c).counterData \in Nat /\ Ctr(k, c).counterData < CoreSize /\ Ctr(k, c).overflows \in Nat
  BY <1>1, <1>3 DEF CounterOK, PerfmonCounter
<1> QED BY <1>2, <1>3, <1>5, <1>6 DEF Unseen

\* A region that is entered belongs to the active group.
LEMMA EnteredActive ==
  ASSUME MarkerInv, NEW t \in team, NEW tag, tag \in inside[t] \/ Entering(t, tag) \/ Leaving(t, tag)
  PROVE  likwid_init /\ AllPinned /\ CoreEvents(tag) = DOMAIN ActiveEvents \cap Core /\ cpuOf[t] \in Cpus
         /\ tag \in TagsOf(cpuOf[t]) /\ tag \in Tags /\ (Entering(t, tag) => tag \in inside[t])
<1>1. Entering(t, tag) \/ Leaving(t, tag) => at[t].pc \in Using /\ at[t].tag = tag
  BY DEF Entering, Leaving, Using
<1>2. likwid_init /\ tag[2] = groupSet.activeGroup /\ AllPinned /\ Known(cpuOf[t], tag)
  BY <1>1 DEF MarkerInv, ThreadInv, ThreadOK, Using
<1>3. cpuOf[t] \in Cpus
  BY <1>2, Thread DEF AllPinned
<1>4. tag \in TagsOf(cpuOf[t]) /\ tag \in Tags
  BY <1>2, <1>3 DEF Known, TagsOf, MarkerInv, MarkerTypes, Tables
<1>5. Entering(t, tag) => tag \in inside[t]
  BY DEF MarkerInv, ThreadInv, ThreadOK, Entering
<1> QED BY <1>2, <1>3, <1>4, <1>5, ActiveOK DEF CoreEvents, Active

\* What thread u on CPU k depends on stays as it is.
SameView(u, k) ==
    /\ inside'[u] = inside[u] /\ happened' = happened /\ counted'[k] = counted[k] /\ wraps'[k] = wraps[k]
    /\ threadList'[k] = threadList[k] /\ cpu'[k] = cpu[k] /\ groupSet'.activeGroup = groupSet.activeGroup
    /\ groupSet'.groups[Active].events = ActiveEvents
    /\ \A c \in DOMAIN ActiveEvents \cap Core : groupSet'.groups[Active].counters[k][c] = Ctr(k, c)
    /\ \A tag : (Entering(u, tag)' <=> Entering(u, tag)) /\ (Leaving(u, tag)' <=> Leaving(u, tag))
LEMMA AloneKept ==
  ASSUME MarkerInv, NEW u \in team, NEW k, k = cpuOf[u], AloneOK(u, k), SameView(u, k)
  PROVE  AloneOK(u, k)'
<1>1. /\ inside'[u] = inside[u] /\ happened' = happened /\ counted'[k] = counted[k] /\ wraps'[k] = wraps[k]
      /\ threadList'[k] = threadList[k] /\ cpu'[k] = cpu[k] /\ ActiveEvents' = ActiveEvents
      /\ \A c \in DOMAIN ActiveEvents \cap Core : Ctr(k, c)' = Ctr(k, c)
      /\ \A tag : (Entering(u, tag)' <=> Entering(u, tag)) /\ (Leaving(u, tag)' <=> Leaving(u, tag))
  BY DEF SameView, ActiveEvents, Active, Ctr
<1>2. \A c \in DOMAIN ActiveEvents \cap Core : Unseen(k, c)' = Unseen(k, c) /\ Seen(k, c)' = Seen(k, c)
  BY <1>1 DEF Unseen, Seen
<1>3. inside'[u] # {} => \A c \in DOMAIN ActiveEvents' \cap Core : Fresh(k, c)'
  BY <1>1, <1>2 DEF AloneOK, Fresh
<1>4. ASSUME NEW tag \in TagsOf(k), NEW c \in CoreEvents(tag) PROVE SumOK(u, k, tag, c)'
  <2>1. SumOK(u, k, tag, c)
    BY DEF AloneOK
  <2>2. /\ StartOf(k, tag, c)' = StartOf(k, tag, c) /\ OverflowsOf(k, tag, c)' = OverflowsOf(k, tag, c)
        /\ counted'[k][tag][c] = counted[k][tag][c] /\ wraps'[k][tag][c] = wraps[k][tag][c]
        /\ threadList'[k][tag].PMcounters[c] = threadList[k][tag].PMcounters[c] /\ cpu'[k].count[c] = cpu[k].count[c]
    BY <1>1 DEF StartOf, OverflowsOf
  <2>3. CASE tag \in inside[u] \/ Entering(u, tag) \/ Leaving(u, tag)
    <3>1. c \in DOMAIN ActiveEvents \cap Core
      BY <2>3, EnteredActive
    <3>2. Ctr(k, c)' = Ctr(k, c) /\ Seen(k, c)' = Seen(k, c)
      BY <1>1, <1>2, <3>1
    <3>3. ASSUME NEW s, NEW o PROVE (Open(k, tag, c, s, o) => Open(k, tag, c, s, o)') /\ (Sampled(k, tag, c, s, o) => Sampled(k, tag, c, s, o)')
      BY <1>1, <2>2, <3>2 DEF Open, Sampled, Since
    <3> QED BY <1>1, <2>1, <2>2, <3>2, <3>3 DEF SumOK
  <2>4. CASE ~(tag \in inside[u] \/ Entering(u, tag) \/ Leaving(u, tag))
    BY <1>1, <2>1, <2>2, <2>4 DEF SumOK
  <2> QED BY <2>3, <2>4
<1> QED BY <1>1, <1>3, <1>4 DEF AloneOK, TagsOf

\* A step of thread t: what remains to be shown for it
OthersSame(t) == \A u \in team : cpuOf[u] \in Cpus /\ cpuOf[u] # cpuOf[t] => SameView(u, cpuOf[u])
LEMMA TotalKept ==
  ASSUME MarkerInv, TotalInv, NEW t \in team, NEW k, k = cpuOf[t], team' = team, cpuOf' = cpuOf, OthersSame(t), NewOK',
         Alone(t) => AloneOK(t, k)'
  PROVE  TotalInv'
<1> SUFFICES ASSUME NEW u \in team, Alone(u) PROVE AloneOK(u, cpuOf[u])'
  BY DEF TotalInv, Alone, Together
<1>1. CASE u = t
  BY <1>1
<1>2. CASE u # t
  <2>1. cpuOf[u] # cpuOf[t] /\ cpuOf[u] \in Cpus
    BY <1>2, Thread DEF Alone, Together
  <2>2. PICK j : j = cpuOf[u]
    OBVIOUS
  <2>3. SameView(u, j) /\ AloneOK(u, j)
    BY <1>2, <2>1, <2>2 DEF OthersSame, TotalInv
  <2>4. AloneOK(u, j)'
    BY <2>2, <2>3, AloneKept
  <2> QED BY <2>2, <2>4
<1> QED BY <1>1, <1>2

\* Sums of regions that nobody has entered
SumsKept(t) ==
    \A j \in Cpus, x \in Tags, c \in Counters : x \in DOMAIN threadList'[j] =>
        \/ threadList'[j][x].PMcounters[c] = 0
        \/ x \in TagsOf(j) /\ threadList'[j][x].PMcounters[c] = threadList[j][x].PMcounters[c]
        \/ at[t].pc \in Using /\ at[t].tag = x /\ cpuOf[t] = j
LEMMA NewKept ==
  ASSUME MarkerInv, NewOK, NEW t \in team, Frame(t), UNCHANGED <<counted, wraps>>, SumsKept(t),
         at'[t].pc = "insert" => cpuOf[t] \in Cpus /\ at'[t].tag \in Tags /\ ~Known(cpuOf[t], at'[t].tag)
  PROVE  NewOK'
<1>1. team' = team /\ cpuOf' = cpuOf /\ AllPinned' = AllPinned /\ \A u \in team : u # t => at'[u] = at[u]
  BY Thread DEF Frame, AllPinned
<1>2. ASSUME NEW j \in Cpus, NEW x \in Tags, Untouched(j, x), ~(at[t].pc \in Using /\ at[t].tag = x /\ cpuOf[t] = j)
      PROVE  Untouched(j, x)'
  <2> SUFFICES ASSUME NEW c \in Counters, x \in DOMAIN threadList'[j] PROVE threadList'[j][x].PMcounters[c] = 0
    BY <1>2 DEF Untouched, Known, TagsOf
  <2> QED BY <1>2 DEF SumsKept, Untouched, Known
<1>3. ASSUME NEW j \in Cpus, NEW x \in Tags, ~Known(j, x)' \/ ~AllPinned' PROVE Untouched(j, x)'
  <2>1. ~Known(j, x) \/ ~AllPinned
    BY <1>1, <1>3 DEF Frame, Known, TagsOf
  <2>2. at[t].pc \in Using => Known(cpuOf[t], at[t].tag) /\ AllPinned
    BY DEF MarkerInv, ThreadInv, ThreadOK
  <2> QED BY <1>2, <2>1, <2>2 DEF NewOK
<1>4. ASSUME NEW u \in team, at'[u].pc = "insert" PROVE Untouched(cpuOf[u], at[u].tag)'
  <2>1. PICK j, x : j = cpuOf[u] /\ x = at'[u].tag
    OBVIOUS
  <2>2. CASE u = t
    <3>1. Untouched(j, x)
      BY <1>4, <2>1, <2>2 DEF NewOK
    <3>2. ~(at[t].pc \in Using /\ at[t].tag = x /\ cpuOf[t] = j)
      BY <1>4, <2>1, <2>2 DEF MarkerInv, ThreadInv, ThreadOK
    <3>3. Untouched(j, x)'
      BY <1>2, <1>4, <2>1, <2>2, <3>1, <3>2
    <3> QED BY <1>1, <2>1, <3>3
  <2>3. CASE u # t
    <3>1. at[u].pc = "insert" /\ at[u].tag = x /\ Untouched(j, x)
      BY <1>1, <1>4, <2>1, <2>3 DEF NewOK
    <3>2. j \in Cpus /\ x \in Tags
      BY <2>1, <3>1, Thread, Call
    <3>3. ~(at[t].pc \in Using /\ at[t].tag = x /\ cpuOf[t] = j)
      BY <2>1, <3>1, NobodyCreates DEF Together
    <3>4. Untouched(j, x)'
      BY <1>2, <3>1, <3>2, <3>3
    <3> QED BY <1>1, <2>1, <3>4
  <2> QED BY <2>2, <2>3
<1> QED BY <1>1, <1>3, <1>4 DEF NewOK


\* The others, in a step of t that does not read the counters
LEMMA OthersQuiet ==
  ASSUME MarkerInv, NEW t \in team, NEW k, k = cpuOf[t], \A u \in Team : u # t => at'[u] = at[u] /\ inside'[u] = inside[u],
         UNCHANGED <<counted, wraps, happened, groupSet, cpu>>, \A j \in Cpus : j # k => threadList'[j] = threadList[j]
  PROVE  OthersSame(t)
<1> SUFFICES ASSUME NEW u \in team, NEW j \in Cpus, j = cpuOf[u], j # k PROVE SameView(u, j)
  BY DEF OthersSame
<1>1. at'[u] = at[u] /\ inside'[u] = inside[u]
  BY Thread
<1> QED BY <1>1 DEF SameView, Entering, Leaving, Ctr, Active, ActiveEvents

\* A step that changes no entry, in which t neither is about to store its
\* start nor about to add to the sum
LEMMA QuietTotals ==
  ASSUME MarkerInv, TotalInv, NEW t \in team, NEW a, Goes(t, a), {a.pc, at[t].pc} \cap {"start_store", "stop_add"} = {},
         UNCHANGED <<groupSet, cpu, happened, likwid_init, threadList, environ, team, cpuOf, inside, counted, wraps>>,
         a.pc = "insert" => cpuOf[t] \in Cpus /\ a.tag \in Tags /\ ~Known(cpuOf[t], a.tag)
  PROVE  TotalInv'
<1>0. PICK k : k = cpuOf[t]
  OBVIOUS
<1>1. at'[t] = a /\ \A u \in Team : u # t => at'[u] = at[u]
  BY DEF Goes
<1>2. Frame(t)
  BY <1>1 DEF Frame, TagsOf
<1>3. OthersSame(t)
  BY <1>0, <1>1, OthersQuiet
<1>4. SumsKept(t)
  BY DEF SumsKept, TagsOf
<1>5. NewOK'
  BY <1>1, <1>2, <1>4, NewKept DEF TotalInv
<1>6. \A tag : ~Entering(t, tag) /\ ~Leaving(t, tag) /\ ~Entering(t, tag)' /\ ~Leaving(t, tag)'
  BY <1>1 DEF Entering, Leaving
<1>7. SameView(t, k)
  BY <1>6 DEF SameView, Ctr, Active, ActiveEvents
<1>8. Alone(t) => AloneOK(t, k)'
  BY <1>0, <1>7, AloneKept DEF TotalInv
<1> QED BY <1>0, <1>3, <1>5, <1>8, TotalKept

\* A region that is not the one t starts or stops
SameSums(k, x, c) == /\ happened' = happened /\ counted'[k][x][c] = counted[k][x][c] /\ wraps'[k][x][c] = wraps[k][x][c]
                     /\ threadList'[k][x].PMcounters[c] = threadList[k][x].PMcounters[c]
SameStart(k, x, c) == StartOf(k, x, c)' = StartOf(k, x, c) /\ OverflowsOf(k, x, c)' = OverflowsOf(k, x, c)
LEMMA OpenKept ==
  ASSUME NEW k, NEW x, NEW c, NEW s, NEW o, SameSums(k, x, c), cpu'[k].count[c] = cpu[k].count[c], Seen(k, c)' = Seen(k, c),
         Open(k, x, c, s, o)
  PROVE  Open(k, x, c, s, o)'
  BY DEF SameSums, Open, Since
LEMMA OtherSum ==
  ASSUME NEW t, NEW k, NEW x, NEW c, SumOK(t, k, x, c), SameSums(k, x, c), SameStart(k, x, c),
         ~Entering(t, x), ~Leaving(t, x), ~Entering(t, x)', ~Leaving(t, x)', x \in inside'[t] <=> x \in inside[t],
         x \in inside[t] => cpu'[k].count[c] = cpu[k].count[c] /\ Seen(k, c)' = Seen(k, c)
  PROVE  SumOK(t, k, x, c)'
<1>1. CASE x \in inside[t]
  <2>1. PICK s, o : s = StartOf(k, x, c) /\ o = OverflowsOf(k, x, c)
    OBVIOUS
  <2>2. Open(k, x, c, s, o)
    BY <1>1, <2>1 DEF SumOK
  <2>3. Open(k, x, c, s, o)'
    BY <1>1, <2>2, OpenKept
  <2> QED BY <1>1, <2>1, <2>3 DEF SumOK, SameStart
<1>2. CASE x \notin inside[t]
  BY <1>2 DEF SumOK, SameSums
<1> QED BY <1>1, <1>2

\* The rows of the other CPUs, and of the other regions of this one
LEMMA WriteRows ==
  ASSUME MarkerInv, NEW k \in Cpus, NEW tag, NEW e, Writes(k, tag, e) \/ Inserts(k, tag, e)
  PROVE  /\ \A j \in Cpus : j # k => threadList'[j] = threadList[j]
         /\ \A x \in TagsOf(k) : x # tag => threadList'[k][x] = threadList[k][x]
         /\ threadList'[k][tag] = e
<1>1. Tables(threadList) /\ Tables(threadList')
  BY DEF MarkerInv, MarkerTypes, Writes, Inserts
<1>2. ASSUME NEW j \in Cpus, j # k PROVE threadList'[j] = threadList[j]
  <2>1. DOMAIN threadList'[j] = TagsOf(j) /\ \A x \in TagsOf(j) : threadList'[j][x] = threadList[j][x]
    BY <1>2 DEF Writes, Inserts
  <2>2. threadList'[j] \in [TagsOf(j) -> Entries] /\ threadList[j] \in [TagsOf(j) -> Entries]
    BY <1>1, <2>1 DEF Tables, TagsOf
  <2> QED BY <2>1, <2>2
<1>3. \A x \in TagsOf(k) : x # tag => threadList'[k][x] = threadList[k][x]
  BY DEF Writes, Inserts
<1>4. threadList'[k][tag] = e
  BY DEF Writes, Inserts
<1> QED BY <1>2, <1>3, <1>4

LEMMA StoreTotals ==
  ASSUME MarkerInv, TotalInv, NEW t \in team, start_store(t)
  PROVE  TotalInv'
<1>0. PICK k, tag : k = cpuOf[t] /\ tag = at[t].tag
  OBVIOUS
<1> DEFINE e == StartedEntry(t, threadList[k][tag])
<1>1. InUse(t, k, tag) /\ at[t].pc = "start_store" /\ Goes(t, Idle) /\ Writes(k, tag, e)
  BY <1>0, StoreDoes
<1>2. UNCHANGED <<groupSet, cpu, happened, likwid_init, environ, team, cpuOf, inside, stops, counted, wraps>>
  BY DEF start_store, vars
<1>3. /\ e.PMcounters = threadList[k][tag].PMcounters
      /\ \A c \in DOMAIN ActiveEvents : e.StartPMcounters[c] = Ctr(k, c).counterData /\ e.StartOverflows[c] = Ctr(k, c).overflows
  BY <1>0, <1>1, StartEntry DEF InUse
<1> HIDE DEF e
<1>4. /\ \A j \in Cpus : j # k => threadList'[j] = threadList[j]
      /\ \A x \in TagsOf(k) : x # tag => threadList'[k][x] = threadList[k][x]
      /\ threadList'[k][tag] = e /\ k \in Cpus /\ tag \in Tags
  BY <1>1, WriteRows DEF InUse
<1>5. \A j \in Cpus : DOMAIN threadList'[j] = TagsOf(j)
  BY <1>1 DEF Writes
<1>6. at'[t].pc = "idle" /\ at'[t].tag = NoTag /\ \A u \in Team : u # t => at'[u] = at[u]
  BY <1>1 DEF Goes, Idle
<1>7. Frame(t) /\ OthersSame(t)
  BY <1>0, <1>2, <1>4, <1>5, <1>6, OthersQuiet DEF Frame
<1>8. SumsKept(t)
  <2> SUFFICES ASSUME NEW j \in Cpus, NEW x \in TagsOf(j), NEW c \in Counters
               PROVE  threadList'[j][x].PMcounters[c] = threadList[j][x].PMcounters[c]
    BY <1>5 DEF SumsKept
  <2> QED BY <1>3, <1>4
<1>9. NewOK'
  BY <1>2, <1>6, <1>7, <1>8, NewKept DEF TotalInv
<1>10. ASSUME Alone(t) PROVE AloneOK(t, k)'
  <2>1. AloneOK(t, k)
    BY <1>0, <1>10 DEF TotalInv
  <2>2. inside'[t] # {} => \A c \in DOMAIN ActiveEvents' \cap Core : Fresh(k, c)'
    BY <1>2, <2>1 DEF AloneOK, Fresh, Unseen, Ctr, ActiveEvents, Active
  <2>3. \A x : ~Entering(t, x)' /\ ~Leaving(t, x)' /\ ~Leaving(t, x) /\ (x # tag => ~Entering(t, x))
    BY <1>0, <1>1, <1>6 DEF Entering, Leaving
  <2>4. \A c : Seen(k, c)' = Seen(k, c) /\ Ctr(k, c)' = Ctr(k, c)
    BY <1>2 DEF Seen, Unseen, Ctr
  <2>5. ASSUME NEW x \in TagsOf(k), NEW c \in CoreEvents(x) PROVE SumOK(t, k, x, c)'
    <3>1. SumOK(t, k, x, c)
      BY <2>1 DEF AloneOK
    <3>2. SameSums(k, x, c)
      BY <1>2, <1>3, <1>4 DEF SameSums
    <3>3. CASE x # tag
      BY <1>2, <1>4, <2>3, <2>4, <2>5, <3>1, <3>2, <3>3, OtherSum DEF SameStart, StartOf, OverflowsOf
    <3>4. CASE x = tag
      <4>1. PICK s, o : s = Ctr(k, c).counterData /\ o = Ctr(k, c).overflows
        OBVIOUS
      <4>2. Entering(t, tag)
        BY <1>0, <1>1 DEF Entering
      <4>3. Open(k, x, c, s, o) /\ tag \in inside[t] /\ c \in DOMAIN ActiveEvents
        BY <2>5, <3>1, <3>4, <4>1, <4>2, EnteredActive DEF SumOK
      <4>4. Open(k, x, c, s, o)'
        BY <1>2, <2>4, <3>2, <4>3, OpenKept
      <4>5. StartOf(k, x, c)' = s /\ OverflowsOf(k, x, c)' = o
        BY <1>3, <1>4, <3>4, <4>1, <4>3 DEF StartOf, OverflowsOf
      <4> QED BY <1>2, <2>3, <3>4, <4>3, <4>4, <4>5 DEF SumOK
    <3> QED BY <3>3, <3>4
  <2> QED BY <1>4, <1>5, <2>2, <2>5 DEF AloneOK, TagsOf
<1> QED BY <1>0, <1>2, <1>7, <1>9, <1>10, TotalKept

LEMMA InsertTotals ==
  ASSUME MarkerInv, TotalInv, NEW t \in team, NEW garbage \in Garbage, hashTable_insert(t, garbage)
  PROVE  TotalInv'
<1>0. PICK k, tag : k = cpuOf[t] /\ tag = at[t].tag
  OBVIOUS
<1> DEFINE e == NewEntry(garbage)
<1>1. /\ k \in Cpus /\ tag \in Tags /\ at[t].pc = "insert" /\ at[t].op \in {"register", "start"} /\ Goes(t, at'[t])
      /\ (at[t].op = "register" => at'[t] = Idle) /\ (at[t].op = "start" => at'[t].pc = "start_read" /\ at'[t].tag = tag)
      /\ Inserts(k, tag, e)
  BY <1>0, InsertDoes
<1>2. UNCHANGED <<groupSet, cpu, happened, likwid_init, environ, team, cpuOf, inside, stops, counted, wraps>>
  BY DEF hashTable_insert, vars
<1>3. \A c \in Counters : e.PMcounters[c] = 0
  BY DEF NewEntry
<1> HIDE DEF e
<1>4. /\ \A j \in Cpus : j # k => threadList'[j] = threadList[j]
      /\ \A x \in TagsOf(k) : x # tag => threadList'[k][x] = threadList[k][x]
      /\ threadList'[k][tag] = e
  BY <1>1, WriteRows
<1>5. \A j \in Cpus : DOMAIN threadList'[j] = IF j = k THEN TagsOf(j) \cup {tag} ELSE TagsOf(j)
  BY <1>1 DEF Inserts
<1>6. at'[t].pc \in {"idle", "start_read"} /\ \A u \in Team : u # t => at'[u] = at[u]
  BY <1>1 DEF Goes, Idle
<1>7. Frame(t) /\ OthersSame(t)
  <2>1. \A j \in Cpus : TagsOf(j) \subseteq DOMAIN threadList'[j]
    BY <1>5
  <2> QED BY <1>0, <1>2, <1>4, <1>6, <2>1, OthersQuiet DEF Frame
<1>8. SumsKept(t)
  <2> SUFFICES ASSUME NEW j \in Cpus, NEW x \in DOMAIN threadList'[j], NEW c \in Counters
               PROVE  \/ threadList'[j][x].PMcounters[c] = 0
                      \/ x \in TagsOf(j) /\ threadList'[j][x].PMcounters[c] = threadList[j][x].PMcounters[c]
    BY DEF SumsKept
  <2>1. CASE j = k /\ x = tag
    BY <1>3, <1>4, <2>1
  <2>2. CASE ~(j = k /\ x = tag)
    <3>1. x \in TagsOf(j)
      BY <1>5, <2>2
    <3> QED BY <1>4, <2>2, <3>1
  <2> QED BY <2>1, <2>2
<1>9. NewOK'
  BY <1>2, <1>6, <1>7, <1>8, NewKept DEF TotalInv
<1>10. ASSUME Alone(t) PROVE AloneOK(t, k)'
  <2>1. AloneOK(t, k)
    BY <1>0, <1>10 DEF TotalInv
  <2>2. inside'[t] # {} => \A c \in DOMAIN ActiveEvents' \cap Core : Fresh(k, c)'
    BY <1>2, <2>1 DEF AloneOK, Fresh, Unseen, Ctr, ActiveEvents, Active
  <2>3. \A x : ~Entering(t, x)' /\ ~Leaving(t, x)' /\ ~Leaving(t, x) /\ ~Entering(t, x)
    BY <1>1, <1>6 DEF Entering, Leaving
  <2>4. \A c : Seen(k, c)' = Seen(k, c) /\ Ctr(k, c)' = Ctr(k, c)
    BY <1>2 DEF Seen, Unseen, Ctr
  <2>5. ASSUME NEW x \in DOMAIN threadList'[k], NEW c \in CoreEvents(x) PROVE SumOK(t, k, x, c)'
    <3>1. CASE x # tag
      <4>1. x \in TagsOf(k)
        BY <1>1, <1>5, <3>1
      <4>2. SumOK(t, k, x, c)
        BY <2>1, <2>5, <4>1 DEF AloneOK
      <4>3. SameSums(k, x, c) /\ SameStart(k, x, c)
        BY <1>2, <1>4, <3>1, <4>1 DEF SameSums, SameStart, StartOf, OverflowsOf
      <4> QED BY <1>2, <2>3, <2>4, <4>2, <4>3, OtherSum
    <3>2. CASE x = tag
      <4>1. tag \notin inside[t] /\ Untouched(k, tag) /\ c \in Counters
        BY <1>0, <1>1, <2>5 DEF MarkerInv, ThreadInv, ThreadOK, TotalInv, NewOK, CoreEvents, Counters
      <4>2. counted'[k][tag][c] = 0 /\ wraps'[k][tag][c] = 0 /\ threadList'[k][tag].PMcounters[c] = 0
        BY <1>2, <1>3, <1>4, <4>1 DEF Untouched
      <4>3. 0 - 0 \in 0 .. 0
        OBVIOUS
      <4> QED BY <1>2, <2>3, <3>2, <4>1, <4>2, <4>3 DEF SumOK
    <3> QED BY <3>1, <3>2
  <2> QED BY <2>2, <2>5 DEF AloneOK, TagsOf
<1> QED BY <1>0, <1>2, <1>7, <1>9, <1>10, TotalKept


\* A read: it notes the overflow that was not seen yet.
LEMMA ReadCtr ==
  ASSUME MarkerInv, likwid_init, NEW t \in team, NEW k \in Cpus, k = cpuOf[t], ReadCpu(t)
  PROVE  /\ groupSet'.activeGroup = groupSet.activeGroup /\ groupSet'.groups[Active].events = ActiveEvents
         /\ ActiveEvents' = ActiveEvents
         /\ \A c \in DOMAIN ActiveEvents \cap Core :
              /\ Ctr(k, c)'.counterData = cpu[k].count[c] /\ Ctr(k, c)'.overflows = Seen(k, c)
              /\ Unseen(k, c)' = 0 /\ Seen(k, c)' = Seen(k, c) /\ cpu'[k].count[c] = cpu[k].count[c]
         /\ \A j \in Cpus : j # k => /\ cpu'[j] = cpu[j]
              /\ \A c \in DOMAIN ActiveEvents \cap Core : groupSet'.groups[Active].counters[j][c] = Ctr(j, c)
<1>1. LibraryReady(Now') /\ groupSet'.activeGroup = groupSet.activeGroup
  BY ReadNow
<1>2. \A j \in Cpus : cpu'[j].count = cpu[j].count /\ (j # k => cpu'[j] = cpu[j])
  BY ReadNow
<1>3. \A j \in Cpus, c \in DOMAIN ActiveEvents :
        LET s == groupSet'.groups[Active].counters[j][c] IN
        /\ j # k => s = Ctr(j, c)
        /\ j = k /\ c \in Core => s.counterData = cpu[j].count[c] /\ s.overflows = Ctr(j, c).overflows + Unseen(j, c)
  BY ReadNow
<1>4. Group(Now', Active) = groupSet'.groups[Active] /\ Active \in DOMAIN GroupEvents
  BY LibraryNow DEF Group, Now, LibraryReady, Active
<1>5. groupSet'.groups[Active].events = ActiveEvents
  BY <1>1, <1>4, ActiveOK DEF LibraryReady, GroupsAre
<1>6. ActiveEvents' = ActiveEvents
  BY <1>1, <1>5 DEF ActiveEvents, Active
<1>7. ASSUME NEW c \in DOMAIN ActiveEvents \cap Core
      PROVE  /\ Ctr(k, c)'.counterData = cpu[k].count[c] /\ Ctr(k, c)'.overflows = Seen(k, c)
             /\ Unseen(k, c)' = 0 /\ Seen(k, c)' = Seen(k, c) /\ cpu'[k].count[c] = cpu[k].count[c]
  <2>1. Ctr(k, c)' = groupSet'.groups[Active].counters[k][c]
    BY <1>1 DEF Ctr, Active
  <2>2. Ctr(k, c)'.counterData = cpu[k].count[c] /\ Ctr(k, c)'.overflows = Seen(k, c)
    BY <1>3, <2>1 DEF Seen
  <2>3. cpu[k].count[c] \in Nat /\ Seen(k, c) \in Nat
    BY CounterNumbers DEF Seen
  <2>4. cpu'[k].count[c] = cpu[k].count[c]
    BY <1>2
  <2>5. Unseen(k, c)' = 0
    BY <2>2, <2>3, <2>4 DEF Unseen
  <2>6. Seen(k, c)' = Seen(k, c)
    BY <2>2, <2>3, <2>5 DEF Seen
  <2> QED BY <2>2, <2>4, <2>5, <2>6
<1> QED BY <1>1, <1>2, <1>3, <1>5, <1>6, <1>7

LEMMA OthersRead ==
  ASSUME MarkerInv, likwid_init, NEW t \in team, NEW k \in Cpus, k = cpuOf[t], ReadCpu(t),
         \A u \in Team : u # t => at'[u] = at[u] /\ inside'[u] = inside[u],
         UNCHANGED <<counted, wraps, happened>>, \A j \in Cpus : j # k => threadList'[j] = threadList[j]
  PROVE  OthersSame(t)
<1> SUFFICES ASSUME NEW u \in team, NEW j \in Cpus, j = cpuOf[u], j # k PROVE SameView(u, j)
  BY DEF OthersSame
<1>1. at'[u] = at[u] /\ inside'[u] = inside[u]
  BY Thread
<1>2. /\ groupSet'.activeGroup = groupSet.activeGroup /\ groupSet'.groups[Active].events = ActiveEvents /\ cpu'[j] = cpu[j]
      /\ \A c \in DOMAIN ActiveEvents \cap Core : groupSet'.groups[Active].counters[j][c] = Ctr(j, c)
  BY ReadCtr
<1> QED BY <1>1, <1>2 DEF SameView, Entering, Leaving

\* After a read no events have happened since.
LEMMA FreshRead ==
  ASSUME MarkerInv, likwid_init, NEW t \in team, NEW k \in Cpus, k = cpuOf[t], ReadCpu(t), happened' = happened
  PROVE  \A c \in DOMAIN ActiveEvents' \cap Core : Fresh(k, c)'
<1> SUFFICES ASSUME NEW c \in DOMAIN ActiveEvents \cap Core PROVE Fresh(k, c)'
  BY ReadCtr
<1>1. Ctr(k, c)'.counterData = cpu[k].count[c] /\ Unseen(k, c)' = 0 /\ cpu'[k].count[c] = cpu[k].count[c]
  BY ReadCtr
<1>2. cpu[k].count[c] \in Nat /\ CoreSize \in Nat /\ happened \in Nat
  BY CounterNumbers, LibraryNow
<1> QED BY <1>1, <1>2 DEF Fresh

LEMMA ReadTotals ==
  ASSUME MarkerInv, TotalInv, NEW t \in team, start_read(t)
  PROVE  TotalInv'
<1>0. PICK k, tag : k = cpuOf[t] /\ tag = at[t].tag
  OBVIOUS
<1>1. /\ InUse(t, k, tag) /\ at[t].pc = "start_read" /\ ReadCpu(t) /\ at'[t].pc = "start_store" /\ at'[t].tag = tag
      /\ Goes(t, at'[t]) /\ inside' = [inside EXCEPT ![t] = inside[t] \cup {tag}]
  BY <1>0, StartReadDoes
<1>2. UNCHANGED <<happened, likwid_init, threadList, environ, team, cpuOf, stops, counted, wraps>>
  BY DEF start_read
<1>3. k \in Cpus /\ likwid_init /\ tag \in Tags /\ tag[2] = Active /\ t \in Team
  BY <1>1 DEF InUse, Active
<1>4. inside'[t] = inside[t] \cup {tag} /\ \A u \in Team : u # t => inside'[u] = inside[u]
  BY <1>1, <1>3 DEF MarkerInv, MarkerTypes
<1>5. \A u \in Team : u # t => at'[u] = at[u]
  BY <1>1 DEF Goes
<1>6. Frame(t) /\ OthersSame(t)
  BY <1>0, <1>1, <1>2, <1>3, <1>4, <1>5, OthersRead, ReadCtr DEF Frame, TagsOf
<1>7. SumsKept(t)
  BY <1>2 DEF SumsKept, TagsOf
<1>8. NewOK'
  BY <1>1, <1>2, <1>6, <1>7, NewKept DEF TotalInv
<1>9. ASSUME Alone(t) PROVE AloneOK(t, k)'
  <2>1. AloneOK(t, k)
    BY <1>0, <1>9 DEF TotalInv
  <2>2. \A c \in DOMAIN ActiveEvents' \cap Core : Fresh(k, c)'
    BY <1>0, <1>1, <1>2, <1>3, FreshRead
  <2>3. /\ Entering(t, tag)' /\ \A x : ~Leaving(t, x)' /\ ~Leaving(t, x) /\ ~Entering(t, x) /\ (x # tag => ~Entering(t, x)')
    BY <1>1 DEF Entering, Leaving
  <2>4. ASSUME NEW x \in TagsOf(k), NEW c \in CoreEvents(x) PROVE SumOK(t, k, x, c)'
    <3>1. SumOK(t, k, x, c)
      BY <2>1 DEF AloneOK
    <3>2. SameSums(k, x, c) /\ SameStart(k, x, c)
      BY <1>2 DEF SameSums, SameStart, StartOf, OverflowsOf
    <3>3. CASE x # tag
      <4>1. x \in inside[t] => cpu'[k].count[c] = cpu[k].count[c] /\ Seen(k, c)' = Seen(k, c)
        BY <1>0, <1>1, <1>3, <2>4, EnteredActive, ReadCtr
      <4> QED BY <1>4, <2>3, <3>1, <3>2, <3>3, <4>1, OtherSum
    <3>4. CASE x = tag
      <4>1. c \in DOMAIN ActiveEvents \cap Core
        BY <1>3, <2>4, <3>4, ActiveOK DEF CoreEvents
      <4>2. tag \notin inside[t]
        BY <1>0, <1>1 DEF MarkerInv, ThreadInv, ThreadOK
      <4>3. counted[k][x][c] - threadList[k][x].PMcounters[c] \in 0 .. wraps[k][x][c]
        BY <2>3, <3>1, <3>4, <4>2 DEF SumOK
      <4>4. /\ Ctr(k, c)'.counterData = cpu[k].count[c] /\ Ctr(k, c)'.overflows = Seen(k, c)
            /\ Seen(k, c)' = Seen(k, c) /\ cpu'[k].count[c] = cpu[k].count[c]
        BY <1>0, <1>1, <1>3, <4>1, ReadCtr
      <4>5. cpu[k].count[c] \in 0 .. CoreSize - 1 /\ Seen(k, c) \in Nat /\ CoreSize \in Nat /\ happened \in Nat
        BY <1>3, <4>1, CounterNumbers, LibraryNow DEF Seen
      <4>6. PICK s, o : s = cpu[k].count[c] /\ o = Seen(k, c)
        OBVIOUS
      <4>7. Seen(k, c) - o = 0 /\ cpu[k].count[c] - s + CoreSize * 0 = 0
        BY <4>5, <4>6
      <4>8. /\ counted[k][x][c] \in Nat /\ wraps[k][x][c] \in Nat /\ threadList[k][x].PMcounters[c] \in Int
        <5>1. c \in Counters /\ threadList[k][x] \in Entries /\ x \in Tags
          BY <1>1, <3>4, <4>1 DEF InUse, Counters
        <5> QED BY <1>3, <5>1 DEF MarkerInv, MarkerTypes, Entries
      <4>9. Since(counted[k][x][c], threadList[k][x].PMcounters[c], wraps[k][x][c], 0, 0)
        BY <4>3, <4>5, <4>8 DEF Since
      <4>10. Open(k, x, c, s, o)
        BY <4>5, <4>6, <4>7, <4>9 DEF Open
      <4>11. Open(k, x, c, s, o)'
        BY <3>2, <4>4, <4>10, OpenKept
      <4> QED BY <2>3, <3>4, <4>4, <4>6, <4>11 DEF SumOK
    <3> QED BY <3>3, <3>4
  <2> QED BY <1>2, <2>2, <2>4 DEF AloneOK, TagsOf
<1> QED BY <1>0, <1>2, <1>6, <1>8, <1>9, TotalKept

LEMMA StopReadTotals ==
  ASSUME MarkerInv, TotalInv, NEW t \in team, stop_read(t)
  PROVE  TotalInv'
<1>0. PICK k, tag : k = cpuOf[t] /\ tag = at[t].tag
  OBVIOUS
<1> DEFINE a == [pc |-> "stop_add", op |-> "stop", tag |-> tag, orphan |-> FALSE]
           e == threadList'[k][tag]
<1>1. /\ InUse(t, k, tag) /\ at[t].pc = "stop_read" /\ ReadCpu(t) /\ Goes(t, a) /\ Writes(k, tag, e)
      /\ Counted(threadList[k][tag], e, tag[2], at[t].reg + 1) /\ inside' = [inside EXCEPT ![t] = inside[t] \ {tag}]
  BY <1>0, StopReadDoes
<1>2. UNCHANGED <<happened, likwid_init, environ, team, cpuOf, stops, counted, wraps>>
  BY DEF stop_read
<1>3. k \in Cpus /\ likwid_init /\ tag \in Tags /\ tag[2] = Active /\ t \in Team
  BY <1>1 DEF InUse, Active
<1>4. inside'[t] = inside[t] \ {tag} /\ \A u \in Team : u # t => inside'[u] = inside[u]
  BY <1>1, <1>3 DEF MarkerInv, MarkerTypes
<1>5. at'[t].pc = "stop_add" /\ at'[t].tag = tag /\ \A u \in Team : u # t => at'[u] = at[u]
  BY <1>1 DEF Goes
<1>6. /\ \A j \in Cpus : j # k => threadList'[j] = threadList[j]
      /\ \A x \in TagsOf(k) : x # tag => threadList'[k][x] = threadList[k][x]
      /\ \A j \in Cpus : DOMAIN threadList'[j] = TagsOf(j)
  <2>1. \A j \in Cpus : DOMAIN threadList'[j] = TagsOf(j)
    BY <1>1 DEF Writes
  <2> HIDE DEF e
  <2> QED BY <1>1, <1>3, <2>1, WriteRows
<1>7. /\ e.PMcounters = threadList[k][tag].PMcounters /\ e.StartPMcounters = threadList[k][tag].StartPMcounters
      /\ e.StartOverflows = threadList[k][tag].StartOverflows
  BY <1>1 DEF Counted
<1> HIDE DEF a
<1>8. Frame(t) /\ OthersSame(t)
  BY <1>0, <1>1, <1>2, <1>3, <1>4, <1>5, <1>6, OthersRead, ReadCtr DEF Frame
<1>9. SumsKept(t)
  <2> SUFFICES ASSUME NEW j \in Cpus, NEW x \in TagsOf(j), NEW c \in Counters
               PROVE  threadList'[j][x].PMcounters[c] = threadList[j][x].PMcounters[c]
    BY <1>6 DEF SumsKept
  <2> QED BY <1>6, <1>7
<1>10. NewOK'
  BY <1>2, <1>5, <1>8, <1>9, NewKept DEF TotalInv
<1>11. ASSUME Alone(t) PROVE AloneOK(t, k)'
  <2>1. AloneOK(t, k)
    BY <1>0, <1>11 DEF TotalInv
  <2>2. \A c \in DOMAIN ActiveEvents' \cap Core : Fresh(k, c)'
    BY <1>0, <1>1, <1>2, <1>3, FreshRead
  <2>3. /\ Leaving(t, tag)' /\ \A x : ~Entering(t, x)' /\ ~Leaving(t, x) /\ ~Entering(t, x) /\ (x # tag => ~Leaving(t, x)')
    BY <1>1, <1>5 DEF Entering, Leaving
  <2>4. ASSUME NEW x \in TagsOf(k), NEW c \in CoreEvents(x) PROVE SumOK(t, k, x, c)'
    <3>1. SumOK(t, k, x, c)
      BY <2>1 DEF AloneOK
    <3>2. SameSums(k, x, c) /\ SameStart(k, x, c)
      <4>1. /\ threadList'[k][x].PMcounters = threadList[k][x].PMcounters
            /\ threadList'[k][x].StartPMcounters = threadList[k][x].StartPMcounters
            /\ threadList'[k][x].StartOverflows = threadList[k][x].StartOverflows
        BY <1>6, <1>7
      <4> QED BY <1>2, <4>1 DEF SameSums, SameStart, StartOf, OverflowsOf
    <3>3. CASE x # tag
      <4>1. x \in inside[t] => cpu'[k].count[c] = cpu[k].count[c] /\ Seen(k, c)' = Seen(k, c)
        BY <1>0, <1>1, <1>3, <2>4, EnteredActive, ReadCtr
      <4> QED BY <1>4, <2>3, <3>1, <3>2, <3>3, <4>1, OtherSum
    <3>4. CASE x = tag
      <4>1. c \in DOMAIN ActiveEvents \cap Core
        BY <1>3, <2>4, <3>4, ActiveOK DEF CoreEvents
      <4>2. tag \in inside[t]
        BY <1>0, <1>1 DEF MarkerInv, ThreadInv, ThreadOK
      <4>3. PICK s, o : s = StartOf(k, x, c) /\ o = OverflowsOf(k, x, c)
        OBVIOUS
      <4>4. Open(k, x, c, s, o)
        BY <2>3, <3>1, <3>4, <4>2, <4>3 DEF SumOK
      <4>5. /\ Ctr(k, c)'.counterData = cpu[k].count[c] /\ Ctr(k, c)'.overflows = Seen(k, c)
        BY <1>0, <1>1, <1>3, <4>1, ReadCtr
      <4>6. Sampled(k, x, c, s, o)'
        BY <3>2, <4>4, <4>5 DEF Open, Sampled, SameSums, Since
      <4> QED BY <1>4, <2>3, <3>2, <3>4, <4>3, <4>6 DEF SumOK, SameStart
    <3> QED BY <3>3, <3>4
  <2> QED BY <1>3, <1>6, <2>2, <2>4 DEF AloneOK, TagsOf
<1> QED BY <1>0, <1>2, <1>8, <1>10, <1>11, TotalKept

\* calculateMarkerResult: the events since the start, less one if the counter
\* overflowed
LEMMA MarkerResult ==
  ASSUME NEW c \in Core, NEW s \in 0 .. CoreSize - 1, NEW stop \in 0 .. CoreSize - 1, NEW v \in {0, 1},
         NEW n \in Nat, n = stop - s + CoreSize * v, n < CoreSize
  PROVE  calculateMarkerResult(c, s, stop, v) = n - v
<1>1. c \notin Power
  BY CountersAssumption
<1>2. Size(c) = CoreSize /\ CoreSize \in Nat \ {0} /\ PowerSize \in Nat \ {0}
  BY <1>1, SizeAssumption DEF Size
<1>3. CASE v = 0
  <2>1. n = stop - s
    BY <1>2, <1>3
  <2>2. Word \in Nat /\ CoreSize <= Word
    <3>1. CoreSize * 1 <= CoreSize * PowerSize /\ CoreSize * PowerSize \in Nat
      BY <1>2, MulMono
    <3> QED BY <1>2, <3>1 DEF Word
  <2>3. n % Word = n
    BY <1>2, <2>2, SmallMod
  <2> QED BY <1>3, <2>1, <2>3 DEF calculateMarkerResult
<1>4. CASE v = 1
  <2>1. n = stop - s + CoreSize
    BY <1>2, <1>4
  <2>2. calculateMarkerResult(c, s, stop, 1) = (perfmon_getMaxCounterValue(c) - s) + stop + (1 - 1) * perfmon_getMaxCounterValue(c)
    BY DEF calculateMarkerResult
  <2>3. perfmon_getMaxCounterValue(c) = CoreSize - 1
    BY <1>2 DEF perfmon_getMaxCounterValue
  <2> QED BY <1>2, <1>4, <2>1, <2>2, <2>3
<1> QED BY <1>3, <1>4


LEMMA AddTotals ==
  ASSUME MaxEvents < CoreSize, MarkerInv, TotalInv, NEW t \in team, stop_add(t)
  PROVE  TotalInv'
<1>0. PICK k, tag : k = cpuOf[t] /\ tag = at[t].tag
  OBVIOUS
<1> DEFINE e == StoppedEntry(t, threadList[k][tag])
<1>1. InUse(t, k, tag) /\ at[t].pc = "stop_add" /\ Goes(t, Idle) /\ Writes(k, tag, e)
  BY <1>0, AddDoes
<1>2. UNCHANGED <<groupSet, cpu, happened, likwid_init, environ, team, cpuOf, inside, counted, wraps>>
  BY DEF stop_add, vars
<1>3. \A c \in DOMAIN ActiveEvents : e.PMcounters[c] = threadList[k][tag].PMcounters[c] +
        calculateMarkerResult(c, StartOf(k, tag, c), Ctr(k, c).counterData, Ctr(k, c).overflows - OverflowsOf(k, tag, c))
  BY <1>0, <1>1, StopEntry DEF InUse, StartOf, OverflowsOf
<1> HIDE DEF e
<1>4. /\ \A j \in Cpus : j # k => threadList'[j] = threadList[j]
      /\ \A x \in TagsOf(k) : x # tag => threadList'[k][x] = threadList[k][x]
      /\ threadList'[k][tag] = e /\ k \in Cpus /\ tag \in Tags /\ likwid_init
  BY <1>1, WriteRows DEF InUse
<1>5. \A j \in Cpus : DOMAIN threadList'[j] = TagsOf(j)
  BY <1>1 DEF Writes
<1>6. at'[t].pc = "idle" /\ at'[t].tag = NoTag /\ \A u \in Team : u # t => at'[u] = at[u]
  BY <1>1 DEF Goes, Idle
<1>7. Frame(t) /\ OthersSame(t)
  BY <1>0, <1>2, <1>4, <1>5, <1>6, OthersQuiet DEF Frame
<1>8. SumsKept(t)
  <2> SUFFICES ASSUME NEW j \in Cpus, NEW x \in TagsOf(j), NEW c \in Counters, ~(x = tag /\ j = k)
               PROVE  threadList'[j][x].PMcounters[c] = threadList[j][x].PMcounters[c]
    BY <1>0, <1>1, <1>5 DEF SumsKept, Using
  <2> QED BY <1>4
<1>9. NewOK'
  BY <1>2, <1>6, <1>7, <1>8, NewKept DEF TotalInv
<1>10. ASSUME Alone(t) PROVE AloneOK(t, k)'
  <2>1. AloneOK(t, k)
    BY <1>0, <1>10 DEF TotalInv
  <2>2. inside'[t] # {} => \A c \in DOMAIN ActiveEvents' \cap Core : Fresh(k, c)'
    BY <1>2, <2>1 DEF AloneOK, Fresh, Unseen, Ctr, ActiveEvents, Active
  <2>3. Leaving(t, tag) /\ \A x : ~Entering(t, x)' /\ ~Leaving(t, x)' /\ ~Entering(t, x) /\ (x # tag => ~Leaving(t, x))
    BY <1>0, <1>1, <1>6 DEF Entering, Leaving
  <2>4. \A c : Seen(k, c)' = Seen(k, c)
    BY <1>2 DEF Seen, Unseen, Ctr
  <2>5. ASSUME NEW x \in TagsOf(k), NEW c \in CoreEvents(x) PROVE SumOK(t, k, x, c)'
    <3>1. SumOK(t, k, x, c)
      BY <2>1 DEF AloneOK
    <3>2. CASE x # tag
      <4>1. SameSums(k, x, c) /\ SameStart(k, x, c)
        BY <1>2, <1>4, <3>2 DEF SameSums, SameStart, StartOf, OverflowsOf
      <4> QED BY <1>2, <2>3, <2>4, <3>1, <3>2, <4>1, OtherSum
    <3>3. CASE x = tag
      <4>1. c \in DOMAIN ActiveEvents \cap Core /\ c \in Counters
        BY <2>3, <2>5, <3>3, EnteredActive DEF Counters
      <4>2. tag \notin inside[t]
        BY <1>0, <1>1 DEF MarkerInv, ThreadInv, ThreadOK
      <4>3. PICK s, v, p, stop, n : /\ s = StartOf(k, x, c) /\ v = Ctr(k, c).overflows - OverflowsOf(k, x, c)
                                    /\ p = threadList[k][x].PMcounters[c] /\ stop = Ctr(k, c).counterData
                                    /\ n = stop - s + CoreSize * v
        OBVIOUS
      <4>4. s \in 0 .. CoreSize - 1 /\ Since(counted[k][x][c], p, wraps[k][x][c], n, v)
        BY <2>3, <3>1, <3>3, <4>2, <4>3 DEF SumOK, Sampled
      <4>5. stop \in 0 .. CoreSize - 1 /\ CoreSize \in Nat /\ happened \in 0 .. MaxEvents /\ MaxEvents \in Nat
        BY <1>4, <4>1, <4>3, CounterNumbers, LibraryNow, PerfmonBoundsAssumption
      <4>6. v \in {0, 1} /\ n \in Nat /\ n < CoreSize
        BY <4>4, <4>5 DEF Since
      <4>7. calculateMarkerResult(c, s, stop, v) = n - v
        BY <4>1, <4>3, <4>4, <4>5, <4>6, MarkerResult
      <4>8. threadList'[k][x].PMcounters[c] = p + (n - v)
        BY <1>3, <1>4, <3>3, <4>1, <4>3, <4>7
      <4>9. counted[k][x][c] \in Nat /\ wraps[k][x][c] \in Nat /\ p \in Int
        <5>1. threadList[k][x] \in Entries /\ x \in Tags
          BY <1>1, <3>3 DEF InUse
        <5> QED BY <1>4, <4>1, <4>3, <5>1 DEF MarkerInv, MarkerTypes, Entries
      <4>10. counted[k][x][c] - (p + (n - v)) \in 0 .. wraps[k][x][c]
        BY <4>4, <4>6, <4>9 DEF Since
      <4> QED BY <1>2, <2>3, <3>3, <4>2, <4>8, <4>10 DEF SumOK
    <3> QED BY <3>2, <3>3
  <2> QED BY <1>4, <1>5, <2>2, <2>5 DEF AloneOK, TagsOf
<1> QED BY <1>0, <1>2, <1>7, <1>9, <1>10, TotalKept

\* Steps outside of regions: the sums are what they were.
LEMMA IdleTotals ==
  ASSUME MarkerInv, NewOK', AllIdle, UNCHANGED <<at, inside, team>>, \A t \in team : Alone(t)' => \A tag \in TagsOf(cpuOf[t])' :
           \A c \in CoreEvents(tag) : (counted[cpuOf[t]][tag][c] - threadList[cpuOf[t]][tag].PMcounters[c] \in 0 .. wraps[cpuOf[t]][tag][c])'
  PROVE  TotalInv'
<1>1. \A t \in team : inside'[t] = {} /\ at'[t].pc = "idle"
  BY DEF AllIdle
<1>2. \A t \in team : \A x : ~Entering(t, x)' /\ ~Leaving(t, x)'
  BY <1>1 DEF Entering, Leaving
<1>3. ASSUME NEW t \in team, Alone(t)' PROVE AloneOK(t, cpuOf[t])'
  BY <1>1, <1>2, <1>3 DEF AloneOK, SumOK
<1> QED BY <1>3 DEF TotalInv


LEMMA SameNew ==
  ASSUME NewOK, UNCHANGED <<threadList, counted, wraps, at, environ, team, cpuOf>>
  PROVE  NewOK'
<1>1. AllPinned' = AllPinned /\ \A k, tag : Known(k, tag)' = Known(k, tag) /\ Untouched(k, tag)' = Untouched(k, tag)
  BY DEF AllPinned, Known, TagsOf, Untouched
<1> QED BY <1>1 DEF NewOK

\* likwid_markerNextGroup and likwid_markerClose
LEMMA OutsideTotals ==
  ASSUME MarkerInv, TotalInv, AllIdle, UNCHANGED <<threadList, counted, wraps, at, environ, team, cpuOf, inside>>
  PROVE  TotalInv'
<1>1. NewOK'
  BY SameNew DEF TotalInv
<1>2. ASSUME NEW t \in team, Alone(t)', NEW tag \in TagsOf(cpuOf[t]), NEW c \in CoreEvents(tag)
      PROVE  counted[cpuOf[t]][tag][c] - threadList[cpuOf[t]][tag].PMcounters[c] \in 0 .. wraps[cpuOf[t]][tag][c]
  <2>1. Alone(t)
    BY <1>2 DEF Alone, Together
  <2>2. SumOK(t, cpuOf[t], tag, c) /\ tag \notin inside[t] /\ ~Entering(t, tag) /\ ~Leaving(t, tag)
    BY <1>2, <2>1 DEF TotalInv, AloneOK, AllIdle, Entering, Leaving
  <2> QED BY <2>2 DEF SumOK
<1> QED BY <1>1, <1>2, IdleTotals DEF TagsOf

LEMMA InitTotals ==
  ASSUME MarkerInv, TotalInv, likwid_markerInit
  PROVE  TotalInv'
<1>1. /\ ~likwid_init /\ file = <<>> /\ threadList' = [k \in Cpus |-> EmptyTable]
      /\ UNCHANGED <<at, inside, environ, team, cpuOf, counted, wraps>>
  BY DEF likwid_markerInit
<1>2. AllIdle
  BY InitTables
<1>3. \A k \in Cpus, tag \in Tags : Untouched(k, tag)
  BY <1>1 DEF MarkerInv, PhaseInv, TotalInv, NewOK, Known
<1>4. \A k \in Cpus : DOMAIN threadList'[k] = {}
  BY <1>1 DEF EmptyTable
<1>5. \A k \in Cpus, tag \in Tags : Untouched(k, tag)'
  BY <1>1, <1>3, <1>4 DEF Untouched, Known, TagsOf
<1>6. NewOK'
  BY <1>1, <1>2, <1>5 DEF NewOK, AllIdle
<1>7. \A t \in team : Alone(t)' => TagsOf(cpuOf[t])' = {}
  BY <1>1, <1>4, Thread DEF Alone, TagsOf
<1> QED BY <1>1, <1>2, <1>6, <1>7, IdleTotals

LEMMA PinTotals ==
  ASSUME MarkerInv, TotalInv, NEW t \in team, likwid_markerThreadInit(t)
  PROVE  TotalInv'
<1>1. UNCHANGED <<threadList, counted, wraps, at, inside, team>>
  BY DEF likwid_markerThreadInit
<1>2. /\ ~AllPinned /\ at[t].pc = "idle" /\ cpuOf' \in [Team -> Cpus \cup {-1}] /\ \A u \in Team : u # t => cpuOf'[u] = cpuOf[u]
      /\ \A u \in team : at[u].pc \notin Using /\ inside[u] = {}
  BY PinThread
<1>3. \A k \in Cpus, tag \in Tags : Untouched(k, tag)'
  BY <1>1, <1>2 DEF TotalInv, NewOK, Untouched, Known, TagsOf
<1>4. \A u \in team : at[u].pc = "insert" => cpuOf'[u] \in Cpus /\ at[u].tag \in Tags
  BY <1>2, Thread, Call
<1>5. NewOK'
  BY <1>1, <1>3, <1>4 DEF NewOK
<1>6. ASSUME NEW u \in team, Alone(u)' PROVE AloneOK(u, cpuOf[u])'
  <2>1. PICK k : k = cpuOf'[u]
    OBVIOUS
  <2>2. k \in Cpus
    BY <1>2, <1>6, <2>1, Thread DEF Alone
  <2>3. \A x : ~Entering(u, x)' /\ ~Leaving(u, x)'
    BY <1>1, <1>2 DEF Entering, Leaving, Using
  <2>4. ASSUME NEW tag \in TagsOf(k), NEW c \in CoreEvents(tag) PROVE SumOK(u, k, tag, c)'
    <3>1. tag \in Tags /\ c \in Counters /\ Known(k, tag)'
      BY <1>1, <2>2, <2>4 DEF MarkerInv, MarkerTypes, Tables, TagsOf, CoreEvents, Counters, Known
    <3>2. counted'[k][tag][c] = 0 /\ wraps'[k][tag][c] = 0 /\ threadList'[k][tag].PMcounters[c] = 0
      BY <1>3, <2>2, <3>1 DEF Untouched
    <3>3. 0 - 0 \in 0 .. 0
      OBVIOUS
    <3> QED BY <1>1, <1>2, <2>3, <3>2, <3>3 DEF SumOK
  <2>5. AloneOK(u, k)'
    BY <1>1, <1>2, <2>4 DEF AloneOK, TagsOf
  <2> QED BY <2>1, <2>5
<1> QED BY <1>1, <1>5, <1>6 DEF TotalInv

LEMMA StutterTotals ==
  ASSUME MarkerInv, TotalInv, UNCHANGED allVars
  PROVE  TotalInv'
<1>1. /\ UNCHANGED <<groupSet, cpu, happened>>
      /\ UNCHANGED <<threadList, counted, wraps, at, environ, team, cpuOf, inside>>
  BY DEF allVars, vars, markerVars
<1>2. NewOK'
  BY <1>1, SameNew DEF TotalInv
<1>3. ASSUME NEW u \in team, Alone(u)' PROVE AloneOK(u, cpuOf[u])'
  <2>1. PICK k : k = cpuOf[u]
    OBVIOUS
  <2>2. SameView(u, k)
    BY <1>1 DEF SameView, Ctr, Active, ActiveEvents, Entering, Leaving
  <2>3. AloneOK(u, k)
    BY <1>1, <1>3, <2>1 DEF TotalInv, Alone, Together
  <2>4. AloneOK(u, k)'
    BY <2>1, <2>2, <2>3, AloneKept
  <2> QED BY <1>1, <2>1, <2>4
<1> QED BY <1>1, <1>2, <1>3 DEF TotalInv

\* An event on a counter of the active group.  The counter has not come round
\* to what was read last: fewer events happen than it can count.
LEMMA EventCounter ==
  ASSUME MaxEvents < CoreSize, MarkerInv, NEW k \in Cpus, NEW e \in Flags, MarkerEvent(k, e),
         NEW j \in Cpus, NEW c \in DOMAIN ActiveEvents \cap Core, Fresh(j, c)
  PROVE  \E h, w \in {0, 1} :
           /\ h = (IF Hits(j, c, k, e) THEN 1 ELSE 0)
           /\ w = (IF Hits(j, c, k, e) /\ cpu[j].count[c] = perfmon_getMaxCounterValue(c) THEN 1 ELSE 0)
           /\ w <= h /\ (w = 1 => cpu[j].count[c] = CoreSize - 1)
           /\ cpu'[j].count[c] = cpu[j].count[c] + h - CoreSize * w /\ Seen(j, c)' = Seen(j, c) + w /\ Fresh(j, c)'
<1>1. likwid_init /\ groupSet' = groupSet /\ happened' = happened + 1 /\ happened' \in 0 .. MaxEvents
      /\ cpu'[j] = IF j \in Where(k, e) THEN EventOn(cpu[j], e) ELSE cpu[j]
  BY EventNow
<1>2. PICK n, d, o, u, p, f :
        /\ n = cpu[j].count[c] /\ d = Ctr(j, c).counterData /\ o = Ctr(j, c).overflows /\ u = Unseen(j, c)
        /\ p = cpu'[j].count[c] /\ f = happened
  OBVIOUS
<1>3. /\ n \in 0 .. CoreSize - 1 /\ d \in 0 .. CoreSize - 1 /\ o \in Nat /\ u \in {0, 1} /\ CoreSize \in Nat \ {0}
      /\ perfmon_getMaxCounterValue(c) = CoreSize - 1 /\ Size(c) = CoreSize /\ c \in Counters /\ c \in Core
  BY <1>1, <1>2, CounterNumbers DEF perfmon_getMaxCounterValue
<1>4. f \in Nat /\ f + 1 < CoreSize /\ n + CoreSize * u - d \in 0 .. f
  BY <1>1, <1>2, <1>3, LibraryNow, PerfmonBoundsAssumption DEF Fresh
<1>5. CpuOK(cpu[j])
  BY LibraryNow DEF LibType, Cpus
<1>6. Ctr(j, c)' = Ctr(j, c)
  BY <1>1 DEF Ctr
<1>7. u = IF c \in cpu[j].status /\ n < d THEN 1 ELSE 0
  BY <1>2 DEF Unseen
<1>8. Unseen(j, c)' = IF c \in cpu'[j].status /\ p < d THEN 1 ELSE 0
  BY <1>2, <1>6 DEF Unseen
<1>9. CASE ~Hits(j, c, k, e)
  <2>1. cpu'[j] = cpu[j] \/ (~Counts(cpu[j], c, e) /\ cpu'[j] = EventOn(cpu[j], e))
    BY <1>1, <1>9 DEF Hits
  <2>2. p = n /\ (c \in cpu'[j].status <=> c \in cpu[j].status)
    BY <1>2, <1>3, <1>5, <2>1, EventCpu
  <2>3. Unseen(j, c)' = u
    BY <1>7, <1>8, <2>2
  <2>4. Seen(j, c)' = Seen(j, c) + 0
    BY <1>2, <1>3, <1>6, <2>3 DEF Seen
  <2>5. Fresh(j, c)'
    BY <1>1, <1>2, <1>3, <1>4, <1>6, <2>2, <2>3 DEF Fresh
  <2>6. p = n + 0 - CoreSize * 0
    BY <1>3, <2>2
  <2> QED BY <1>2, <1>9, <2>4, <2>5, <2>6
<1>10. CASE Hits(j, c, k, e) /\ n # CoreSize - 1
  <2>1. Counts(cpu[j], c, e) /\ cpu'[j] = EventOn(cpu[j], e) /\ n + 1 < CoreSize
    BY <1>1, <1>3, <1>10 DEF Hits
  <2>2. p = n + 1 /\ (c \in cpu'[j].status <=> c \in cpu[j].status)
    BY <1>2, <1>3, <1>5, <2>1, EventCpu
  <2>3. Unseen(j, c)' = u
    BY <1>3, <1>4, <1>7, <1>8, <2>2
  <2>4. Seen(j, c)' = Seen(j, c) + 0
    BY <1>2, <1>3, <1>6, <2>3 DEF Seen
  <2>5. Fresh(j, c)'
    <3>1. n + 1 + CoreSize * u - d \in 0 .. f + 1
      BY <1>3, <1>4
    <3> QED BY <1>1, <1>2, <1>6, <2>2, <2>3, <3>1 DEF Fresh
  <2>6. p = n + 1 - CoreSize * 0
    BY <1>3, <2>2
  <2> QED BY <1>2, <1>3, <1>10, <2>4, <2>5, <2>6
<1>11. CASE Hits(j, c, k, e) /\ n = CoreSize - 1
  <2>1. Counts(cpu[j], c, e) /\ cpu'[j] = EventOn(cpu[j], e) /\ n + 1 = CoreSize
    BY <1>1, <1>3, <1>11 DEF Hits
  <2>2. p = 0 /\ c \in cpu'[j].status
    BY <1>2, <1>3, <1>5, <2>1, EventCpu
  <2>3. u = 0 /\ Unseen(j, c)' = 1
    BY <1>3, <1>4, <1>7, <1>8, <1>11, <2>2
  <2>4. Seen(j, c)' = Seen(j, c) + 1
    BY <1>2, <1>3, <1>6, <2>3 DEF Seen
  <2>5. Fresh(j, c)'
    <3>1. 0 + CoreSize * 1 - d \in 0 .. f + 1
      BY <1>3, <1>4, <1>11, <2>3
    <3> QED BY <1>1, <1>2, <1>6, <2>2, <2>3, <3>1 DEF Fresh
  <2>6. p = n + 1 - CoreSize * 1
    BY <1>3, <1>11, <2>2
  <2> QED BY <1>2, <1>3, <1>11, <2>4, <2>5, <2>6
<1> QED BY <1>9, <1>10, <1>11


\* h events, of which w overflow the counter, inside a region
LEMMA SinceEvent ==
  ASSUME NEW N \in Nat, NEW f \in Nat, f + 1 < N, NEW total \in Nat, NEW sum \in Int, NEW lost \in Nat, NEW count \in 0 .. N - 1,
         NEW s \in 0 .. N - 1, NEW v \in {0, 1}, NEW n, n = count - s + N * v, n \in 0 .. f, total - sum - n \in 0 .. lost - v,
         NEW h \in {0, 1}, NEW w \in {0, 1}, w <= h, w = 1 => count = N - 1
  PROVE  /\ v + w \in {0, 1} /\ (count + h - N * w) - s + N * (v + w) = n + h
         /\ n + h \in 0 .. f + 1 /\ (total + h) - sum - (n + h) \in 0 .. (lost + w) - (v + w)
<1>1. w = 1 => v = 0
  OBVIOUS
<1>2. CASE w = 0
  BY <1>2
<1>3. CASE w = 1
  <2>1. v = 0 /\ n = count - s /\ h = 1
    BY <1>1, <1>3
  <2> QED BY <1>3, <2>1
<1> QED BY <1>2, <1>3

LEMMA OpenEvent ==
  ASSUME MaxEvents < CoreSize, MarkerInv, likwid_init, NEW j \in Cpus, NEW tag \in TagsOf(j), NEW c \in DOMAIN ActiveEvents \cap Core,
         NEW h \in {0, 1}, NEW w \in {0, 1}, w <= h, w = 1 => cpu[j].count[c] = CoreSize - 1,
         cpu'[j].count[c] = cpu[j].count[c] + h - CoreSize * w, Seen(j, c)' = Seen(j, c) + w,
         happened' = happened + 1, happened' \in 0 .. MaxEvents, threadList' = threadList,
         counted'[j][tag][c] = counted[j][tag][c] + h, wraps'[j][tag][c] = wraps[j][tag][c] + w,
         NEW s, NEW o \in Int, Open(j, tag, c, s, o)
  PROVE  Open(j, tag, c, s, o)'
<1>1. PICK count, total, sum, lost, v, n : /\ count = cpu[j].count[c] /\ total = counted[j][tag][c] /\ lost = wraps[j][tag][c]
                                           /\ sum = threadList[j][tag].PMcounters[c] /\ v = Seen(j, c) - o
                                           /\ n = count - s + CoreSize * v
  OBVIOUS
<1>2. count \in 0 .. CoreSize - 1 /\ CoreSize \in Nat /\ Seen(j, c) \in Nat /\ c \in Counters
  BY <1>1, CounterNumbers DEF Seen
<1>3. happened \in Nat /\ happened + 1 < CoreSize
  BY <1>2, LibraryNow, PerfmonBoundsAssumption
<1>4. total \in Nat /\ lost \in Nat /\ sum \in Int
  <2>1. tag \in Tags /\ threadList[j][tag] \in Entries
    BY DEF MarkerInv, MarkerTypes, Tables, TagsOf
  <2>2. counted[j][tag][c] \in Nat /\ wraps[j][tag][c] \in Nat
    BY <1>2, <2>1 DEF MarkerInv, MarkerTypes
  <2>3. threadList[j][tag].PMcounters[c] \in Int
    BY <1>2, <2>1 DEF Entries
  <2> QED BY <1>1, <2>2, <2>3
<1>5. s \in 0 .. CoreSize - 1 /\ v \in {0, 1} /\ n \in 0 .. happened /\ total - sum - n \in 0 .. lost - v
  BY <1>1 DEF Open, Since
<1>6. /\ v + w \in {0, 1} /\ (count + h - CoreSize * w) - s + CoreSize * (v + w) = n + h
      /\ n + h \in 0 .. happened + 1 /\ (total + h) - sum - (n + h) \in 0 .. (lost + w) - (v + w)
  <2>1. w = 1 => count = CoreSize - 1
    BY <1>1
  <2>2. PICK N, f : N = CoreSize /\ f = happened
    OBVIOUS
  <2>3. /\ N \in Nat /\ f \in Nat /\ f + 1 < N /\ count \in 0 .. N - 1 /\ (w = 1 => count = N - 1) /\ s \in 0 .. N - 1
        /\ n = count - s + N * v /\ n \in 0 .. f
    BY <1>1, <1>2, <1>3, <1>5, <2>1, <2>2
  <2>4. /\ v + w \in {0, 1} /\ (count + h - N * w) - s + N * (v + w) = n + h
        /\ n + h \in 0 .. f + 1 /\ (total + h) - sum - (n + h) \in 0 .. (lost + w) - (v + w)
    BY <1>4, <1>5, <2>3, SinceEvent
  <2> QED BY <2>2, <2>4
<1>7. Seen(j, c)' - o = v + w
  BY <1>1, <1>2
<1>8. cpu'[j].count[c] - s + CoreSize * (Seen(j, c)' - o) = n + h
  BY <1>1, <1>6, <1>7
<1>9. Since(counted[j][tag][c], threadList[j][tag].PMcounters[c], wraps[j][tag][c], n + h, v + w)'
  BY <1>1, <1>6 DEF Since
<1> QED BY <1>5, <1>7, <1>8, <1>9 DEF Open


\* What is not inside a region on that CPU is not noted there.
LEMMA EventElsewhere ==
  ASSUME MarkerInv, NEW k \in Cpus, NEW e \in Flags, MarkerEvent(k, e), NEW j \in Cpus, NEW x \in Tags, ~Inside(j, x)
  PROVE  \A c \in Counters : counted'[j][x][c] = counted[j][x][c] /\ wraps'[j][x][c] = wraps[j][x][c]
<1>1. \A c \in Counters : counted[j][x][c] \in Nat /\ wraps[j][x][c] \in Nat
  BY DEF MarkerInv, MarkerTypes
<1> QED BY <1>1, EventHistory

LEMMA EventNew ==
  ASSUME MarkerInv, NewOK, NEW k \in Cpus, NEW e \in Flags, MarkerEvent(k, e)
  PROVE  NewOK'
<1>1. UNCHANGED <<threadList, at, environ, team, cpuOf, inside>>
  BY DEF MarkerEvent
<1>2. AllPinned' = AllPinned /\ \A j, x : Known(j, x)' = Known(j, x)
  BY <1>1 DEF AllPinned, Known, TagsOf
<1>3. ASSUME NEW j \in Cpus, NEW x \in Tags, ~Inside(j, x), Untouched(j, x) PROVE Untouched(j, x)'
  BY <1>1, <1>2, <1>3, EventElsewhere DEF Untouched
<1>4. ASSUME NEW j \in Cpus, NEW x \in Tags, ~Known(j, x) \/ ~AllPinned PROVE ~Inside(j, x)
  BY <1>4 DEF MarkerInv, ThreadInv, ThreadOK, Inside
<1>5. ASSUME NEW t \in team, at[t].pc = "insert"
      PROVE  cpuOf[t] \in Cpus /\ at[t].tag \in Tags /\ ~Inside(cpuOf[t], at[t].tag)
  <2>1. cpuOf[t] \in Cpus /\ at[t].tag \in Tags
    BY <1>5, Thread, Call
  <2>2. \A u \in team : cpuOf[u] = cpuOf[t] => at[t].tag \notin inside[u]
    BY <1>5 DEF MarkerInv, ThreadInv, ThreadOK, Creating, Together
  <2> QED BY <2>1, <2>2 DEF Inside
<1>6. ASSUME NEW j \in Cpus, NEW x \in Tags, ~Known(j, x)' \/ ~AllPinned' PROVE Untouched(j, x)'
  BY <1>2, <1>3, <1>4, <1>6 DEF NewOK
<1>7. ASSUME NEW t \in team, at[t].pc = "insert", NEW j, NEW x, j = cpuOf[t], x = at[t].tag PROVE Untouched(j, x)'
  BY <1>3, <1>5, <1>7 DEF NewOK
<1> QED BY <1>1, <1>6, <1>7 DEF NewOK

\* The sums on a CPU that one thread has for itself
LEMMA EventSum ==
  ASSUME MaxEvents < CoreSize, MarkerInv, NEW k \in Cpus, NEW e \in Flags, MarkerEvent(k, e),
         NEW u \in team, Alone(u), NEW j \in Cpus, j = cpuOf[u], AloneOK(u, j), NEW x \in TagsOf(j), NEW c \in CoreEvents(x)
  PROVE  SumOK(u, j, x, c)'
<1>1. UNCHANGED <<groupSet, threadList, at, environ, team, cpuOf, inside>>
  BY DEF MarkerEvent
<1>2. likwid_init /\ happened' = happened + 1 /\ happened' \in 0 .. MaxEvents /\ happened \in 0 .. MaxEvents /\ MaxEvents \in Nat
  BY EventNow, LibraryNow, PerfmonBoundsAssumption
<1>3. /\ Ctr(j, c)' = Ctr(j, c) /\ StartOf(j, x, c)' = StartOf(j, x, c) /\ OverflowsOf(j, x, c)' = OverflowsOf(j, x, c)
      /\ (Entering(u, x)' <=> Entering(u, x)) /\ (Leaving(u, x)' <=> Leaving(u, x))
      /\ threadList'[j][x].PMcounters[c] = threadList[j][x].PMcounters[c]
  BY <1>1 DEF Ctr, StartOf, OverflowsOf, Entering, Leaving
<1>4. x \in Tags /\ c \in Counters /\ threadList[j][x] \in Entries
  BY DEF MarkerInv, MarkerTypes, Tables, TagsOf, CoreEvents, Counters
<1>5. Inside(j, x) <=> x \in inside[u]
  BY DEF Inside, Alone, Together
<1>6. SumOK(u, j, x, c)
  BY DEF AloneOK
<1>7. CASE x \in inside[u]
  <2>1. c \in DOMAIN ActiveEvents \cap Core /\ Fresh(j, c) /\ Inside(j, x)
    BY <1>5, <1>7, EnteredActive DEF AloneOK
  <2>2. PICK h, w \in {0, 1} :
           /\ h = (IF Hits(j, c, k, e) THEN 1 ELSE 0)
           /\ w = (IF Hits(j, c, k, e) /\ cpu[j].count[c] = perfmon_getMaxCounterValue(c) THEN 1 ELSE 0)
           /\ w <= h /\ (w = 1 => cpu[j].count[c] = CoreSize - 1)
           /\ cpu'[j].count[c] = cpu[j].count[c] + h - CoreSize * w /\ Seen(j, c)' = Seen(j, c) + w
    BY <2>1, EventCounter
  <2>3. counted'[j][x][c] = counted[j][x][c] + h /\ wraps'[j][x][c] = wraps[j][x][c] + w
    BY <1>4, <2>1, <2>2, EventHistory
  <2>4. ASSUME NEW s, NEW o \in Int, Open(j, x, c, s, o) PROVE Open(j, x, c, s, o)'
    BY <1>1, <1>2, <2>1, <2>2, <2>3, <2>4, OpenEvent
  <2>5. PICK s, o : /\ s = IF Entering(u, x) THEN Ctr(j, c).counterData ELSE StartOf(j, x, c)
                    /\ o = IF Entering(u, x) THEN Ctr(j, c).overflows ELSE OverflowsOf(j, x, c)
    OBVIOUS
  <2>6. Ctr(j, c).overflows \in Int /\ OverflowsOf(j, x, c) \in Int
    BY <1>2, <1>4, <2>1, CounterNumbers DEF Entries, OverflowsOf
  <2>7. o \in Int /\ Open(j, x, c, s, o)
    BY <1>6, <1>7, <2>5, <2>6 DEF SumOK
  <2>8. Open(j, x, c, s, o)'
    BY <2>4, <2>7
  <2> QED BY <1>1, <1>3, <1>7, <2>5, <2>8 DEF SumOK
<1>8. CASE x \notin inside[u]
  <2>1. counted'[j][x][c] = counted[j][x][c] /\ wraps'[j][x][c] = wraps[j][x][c]
    BY <1>4, <1>5, <1>8, EventElsewhere
  <2>2. ~Entering(u, x)
    BY <1>8, EnteredActive
  <2>3. \A n : n \in 0 .. happened => n \in 0 .. happened'
    BY <1>2
  <2>4. ASSUME NEW s, NEW o, Sampled(j, x, c, s, o) PROVE Sampled(j, x, c, s, o)'
    BY <1>3, <2>1, <2>3, <2>4 DEF Sampled, Since
  <2>5. CASE Leaving(u, x)
    <3>1. PICK s, o : s = StartOf(j, x, c) /\ o = OverflowsOf(j, x, c)
      OBVIOUS
    <3>2. Sampled(j, x, c, s, o)
      BY <1>6, <1>8, <2>2, <2>5, <3>1 DEF SumOK
    <3>3. Sampled(j, x, c, s, o)'
      BY <2>4, <3>2
    <3> QED BY <1>1, <1>3, <1>8, <2>2, <2>5, <3>1, <3>3 DEF SumOK
  <2>6. CASE ~Leaving(u, x)
    BY <1>1, <1>3, <1>6, <1>8, <2>1, <2>2, <2>6 DEF SumOK
  <2> QED BY <2>5, <2>6
<1> QED BY <1>7, <1>8

LEMMA EventTotals ==
  ASSUME MaxEvents < CoreSize, MarkerInv, TotalInv, NEW k \in Cpus, NEW e \in Flags, MarkerEvent(k, e)
  PROVE  TotalInv'
<1>1. UNCHANGED <<groupSet, threadList, at, environ, team, cpuOf, inside>>
  BY DEF MarkerEvent
<1>2. NewOK'
  BY EventNew DEF TotalInv
<1>3. ASSUME NEW u \in team, Alone(u)' PROVE AloneOK(u, cpuOf[u])'
  <2>1. PICK j : j = cpuOf[u]
    OBVIOUS
  <2>2. Alone(u) /\ AloneOK(u, j)
    BY <1>1, <1>3, <2>1 DEF TotalInv, Alone, Together
  <2>3. j \in Cpus
    BY <2>1, <2>2, Thread DEF Alone
  <2>4. \A x \in TagsOf(j) : \A c \in CoreEvents(x) : SumOK(u, j, x, c)'
    BY <2>1, <2>2, <2>3, EventSum
  <2>5. ASSUME inside[u] # {}, NEW c \in DOMAIN ActiveEvents \cap Core PROVE Fresh(j, c)'
    <3>1. Fresh(j, c)
      BY <2>2, <2>5 DEF AloneOK
    <3> QED BY <2>3, <3>1, EventCounter
  <2>6. AloneOK(u, j)'
    BY <1>1, <2>4, <2>5 DEF AloneOK, TagsOf, ActiveEvents, Active
  <2> QED BY <1>1, <2>1, <2>6
<1> QED BY <1>1, <1>2, <1>3 DEF TotalInv


\* The calls and the steps that neither read the counters nor write an entry
LEMMA CallTotals ==
  ASSUME RegisterFirst, MarkerInv, TotalInv, NEW t \in team, NEW r \in Regions[Cardinality(team)],
         likwid_markerRegisterRegion(t, r) \/ likwid_markerStartRegion(t, r) \/ likwid_markerStopRegion(t, r)
  PROVE  TotalInv'
<1>1. UNCHANGED <<groupSet, cpu, happened, likwid_init, threadList, environ, team, cpuOf, inside, counted, wraps>>
  BY DEF likwid_markerRegisterRegion, likwid_markerStartRegion, likwid_markerStopRegion, vars
<1>2. PICK m : m = MyTag(r)
  OBVIOUS
<1>3. PICK a : /\ Calling(t, m) /\ Goes(t, a) /\ a.pc \in {"insert", "start_read", "lock"}
               /\ a.pc = "insert" => a.tag = m /\ ~Known(cpuOf[t], m)
  <2> DEFINE a1 == [pc |-> "insert", op |-> "register", tag |-> m, orphan |-> FALSE]
             a2 == [pc |-> IF Known(cpuOf[t], m) THEN "start_read" ELSE "insert", op |-> "start", tag |-> m, orphan |-> FALSE]
             a3 == [pc |-> "lock", op |-> "stop", tag |-> m, orphan |-> FALSE]
  <2>1. CASE likwid_markerRegisterRegion(t, r)
    <3>1. Calling(t, m) /\ Goes(t, a1) /\ ~Known(cpuOf[t], m)
      BY <1>2, <2>1, RegisterDoes
    <3>2. a1.pc = "insert" /\ a1.tag = m
      OBVIOUS
    <3> HIDE DEF a1
    <3> QED BY <3>1, <3>2
  <2>2. CASE likwid_markerStartRegion(t, r)
    <3>1. Calling(t, m) /\ Goes(t, a2)
      BY <1>2, <2>2, StartDoes
    <3>2. a2.pc \in {"insert", "start_read"} /\ a2.tag = m /\ (a2.pc = "insert" => ~Known(cpuOf[t], m))
      OBVIOUS
    <3> HIDE DEF a2
    <3> QED BY <3>1, <3>2
  <2>3. CASE likwid_markerStopRegion(t, r)
    <3>1. Calling(t, m) /\ Goes(t, a3)
      BY <1>2, <2>3, StopDoes
    <3>2. a3.pc = "lock"
      OBVIOUS
    <3> HIDE DEF a3
    <3> QED BY <3>1, <3>2
  <2> QED BY <2>1, <2>2, <2>3
<1>4. at[t].pc = "idle" /\ cpuOf[t] \in Cpus /\ m \in Tags
  BY <1>3 DEF Calling
<1>5. {a.pc, at[t].pc} \cap {"start_store", "stop_add"} = {}
  BY <1>3, <1>4
<1> QED BY <1>1, <1>3, <1>4, <1>5, QuietTotals

LEMMA LookupTotals ==
  ASSUME MarkerInv, TotalInv, NEW t \in team, stop_lookup(t) \/ stop_count(t)
  PROVE  TotalInv'
<1>1. UNCHANGED <<groupSet, cpu, happened, likwid_init, threadList, environ, team, cpuOf, inside, counted, wraps>>
  BY DEF stop_lookup, stop_count, vars
<1>2. PICK k, tag : k = cpuOf[t] /\ tag = at[t].tag
  OBVIOUS
<1>3. PICK a : Goes(t, a) /\ a.pc \in {"stop_count", "stop_read"} /\ at[t].pc \in {"lock", "stop_count"}
  <2> DEFINE a1 == [pc |-> "stop_count", op |-> "stop", tag |-> tag, orphan |-> FALSE]
             a2 == [pc |-> "stop_read", op |-> "stop", tag |-> tag, orphan |-> FALSE, reg |-> threadList[k][tag].count]
  <2>1. CASE stop_lookup(t)
    <3>1. Goes(t, a1) /\ at[t].pc = "lock"
      BY <1>2, <2>1, LookupDoes
    <3>2. a1.pc = "stop_count"
      OBVIOUS
    <3> HIDE DEF a1
    <3> QED BY <3>1, <3>2
  <2>2. CASE stop_count(t)
    <3>1. Goes(t, a2) /\ at[t].pc = "stop_count"
      BY <1>2, <2>2, CountDoes
    <3>2. a2.pc = "stop_read"
      OBVIOUS
    <3> HIDE DEF a2
    <3> QED BY <3>1, <3>2
  <2> QED BY <2>1, <2>2
<1>4. {a.pc, at[t].pc} \cap {"start_store", "stop_add"} = {} /\ a.pc # "insert"
  BY <1>3
<1> QED BY <1>1, <1>3, <1>4, QuietTotals

LEMMA TotalStep ==
  ASSUME RegisterFirst, MaxEvents < CoreSize, MarkerInv, TotalInv, [MarkerNext]_allVars
  PROVE  TotalInv'
<1>1. ASSUME NEW t \in team, Step(t) PROVE TotalInv'
  <2>1. CASE likwid_markerThreadInit(t)
    BY <2>1, PinTotals
  <2>2. ASSUME NEW r \in Regions[Cardinality(team)],
               likwid_markerRegisterRegion(t, r) \/ likwid_markerStartRegion(t, r) \/ likwid_markerStopRegion(t, r)
        PROVE  TotalInv'
    BY <2>2, CallTotals
  <2>3. ASSUME NEW garbage \in Garbage, hashTable_insert(t, garbage) PROVE TotalInv'
    BY <2>3, InsertTotals
  <2>4. CASE start_read(t)
    BY <2>4, ReadTotals
  <2>5. CASE start_store(t)
    BY <2>5, StoreTotals
  <2>6. CASE stop_lookup(t) \/ stop_count(t)
    BY <2>6, LookupTotals
  <2>7. CASE stop_read(t)
    BY <2>7, StopReadTotals
  <2>8. CASE stop_add(t)
    BY <2>8, AddTotals
  <2> QED BY <1>1, <2>1, <2>2, <2>3, <2>4, <2>5, <2>6, <2>7, <2>8 DEF Step
<1>2. ASSUME NEW k \in Cpus, NEW e \in Flags, MarkerEvent(k, e) PROVE TotalInv'
  BY <1>2, EventTotals
<1>3. CASE likwid_markerInit
  BY <1>3, InitTotals
<1>4. CASE likwid_markerNextGroup
  <2>1. AllIdle /\ UNCHANGED <<threadList, counted, wraps, at, environ, team, cpuOf, inside>>
    BY <1>4 DEF likwid_markerNextGroup, AllIdle, Quiet, Outside
  <2> QED BY <2>1, OutsideTotals
<1>5. CASE likwid_markerClose
  <2>1. AllIdle /\ UNCHANGED <<threadList, counted, wraps, at, environ, team, cpuOf, inside>>
    BY <1>5, CloseWrites
  <2> QED BY <2>1, OutsideTotals
<1>6. CASE UNCHANGED allVars
  BY <1>6, StutterTotals
<1> QED BY <1>1, <1>2, <1>3, <1>4, <1>5, <1>6 DEF MarkerNext

LEMMA TotalInit ==
  ASSUME MarkerInit
  PROVE  TotalInv
<1>1. /\ \A t \in Team : cpuOf[t] = -1 /\ at[t].pc = "idle"
      /\ threadList = [k \in Cpus |-> EmptyTable]
      /\ \A k \in Cpus, tag \in Tags, c \in Counters : counted[k][tag][c] = 0 /\ wraps[k][tag][c] = 0
  BY DEF MarkerInit, Idle
<1>2. team \subseteq Team
  BY DEF MarkerInit, Team
<1>3. \A k \in Cpus : TagsOf(k) = {}
  BY <1>1 DEF TagsOf, EmptyTable
<1>4. \A k \in Cpus, tag \in Tags : Untouched(k, tag)
  BY <1>1, <1>3 DEF Untouched, Known
<1> QED BY <1>1, <1>2, <1>4 DEF TotalInv, NewOK, Alone

\* A CPU with one thread, when that thread is outside of its regions
LEMMA SettledTotals ==
  ASSUME MarkerInv, TotalInv, NEW k \in Cpus, Settled(k), Cardinality(Sharers(k)) = 1, NEW tag \in TagsOf(k),
         NEW c \in CoreEvents(tag)
  PROVE  counted[k][tag][c] - threadList[k][tag].PMcounters[c] \in 0 .. wraps[k][tag][c]
<1>1. Sharers(k) # {}
  BY FS_EmptySet
<1>2. PICK t : t \in team /\ cpuOf[t] = k
  BY <1>1 DEF Sharers
<1>3. \A u \in team : Together(t, u) => u = t
  BY <1>2, OnlySharer
<1>4. Alone(t) /\ AloneOK(t, k)
  BY <1>2, <1>3, Thread DEF Alone, TotalInv
<1>5. at[t].pc = "idle" /\ inside[t] = {}
  BY <1>2 DEF Settled, Sharers
<1> QED BY <1>4, <1>5 DEF AloneOK, SumOK, Entering, Leaving

\* The sum of a region is what the counters counted while the thread was inside
\* it, over all its executions and nested or overlapping with any others; every
\* overflow inside may cost one (likwid_markerStartRegion, likwid_markerStopRegion,
\* calculateMarkerResult, perfmon_readCountersCpu).  The thread has its CPU for
\* itself, regions of shared CPUs are registered first, and there are fewer
\* events than a counter can hold: of several overflows between two reads the
\* code can see one only.
THEOREM TotalsAreRight ==
  ASSUME RegisterFirst, MaxEvents < CoreSize
  PROVE  MarkerSpec => []RegionTotals
<1>1. MarkerInit => MarkerInv /\ TotalInv
  BY MarkerInitHolds, TotalInit
<1>2. MarkerInv /\ TotalInv /\ [MarkerNext]_allVars => MarkerInv' /\ TotalInv'
  BY MarkerStep, TotalStep
<1>3. MarkerInv /\ TotalInv => RegionTotals
  BY SettledTotals DEF RegionTotals, CoreEvents
<1> QED BY <1>1, <1>2, <1>3, PTL DEF MarkerSpec


=============================================================================
