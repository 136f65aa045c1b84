--------------------------- MODULE Perfmon_proofs ---------------------------
(***************************************************************************)
(* Proofs about the perfmon module on Skylake, for every number of CPUs,   *)
(* groups and calls, and every event set.                                  *)
(***************************************************************************)
EXTENDS Perfmon, NatLemmas

\* Hypotheses of some of the theorems.  All event sets that use fixed-purpose
\* counters use the same ones for the same events (the fields of the others
\* in their common register are lost, see skl_setup); and no counter wraps.
FixedAlike ==
    \A es, fs \in EventSets : DOMAIN es \cap Fixed # {} /\ DOMAIN fs \cap Fixed # {} =>
        DOMAIN es \cap Fixed = DOMAIN fs \cap Fixed /\ \A c \in DOMAIN es \cap Fixed : es[c] = fs[c]
NoWrap == MaxEvents < CoreSize /\ MaxEvents < PowerSize

-----------------------------------------------------------------------------
(* The invariant, as a predicate on the library state x = [gs, cpu] *)

Added(x) == 0 .. x.gs.numberOfActiveGroups - 1

GroupRecord(es) ==
    [state : {"NONE", "SETUP", "START"}, events : {es}, runTime : Nat, rdtscTime : Nat,
     timer : [start : 0 .. MaxTime, stop : 0 .. MaxTime],
     counters : [Threads -> [DOMAIN es -> PerfmonCounter]], truth : [Threads -> [DOMAIN es -> Nat]],
     ran : Nat, measured : BOOLEAN]

\* Types, and values of counters within their registers
CpuOK(q) == q \in Cpu /\ \A c \in Counters : q.count[c] < Size(c)
CounterOK(c, r) == r \in PerfmonCounter /\ r.startData < Size(c) /\ r.counterData < Size(c)
GroupOK(grp) ==
    /\ grp.events \in EventSets /\ grp \in GroupRecord(grp.events)
    /\ \A t \in Threads, c \in DOMAIN grp.events : CounterOK(c, grp.counters[t][c])
SetOK(gs) ==
    /\ gs \in [numberOfGroups : Nat, numberOfActiveGroups : 0 .. MaxGroups, activeGroup : Int, groups : {gs.groups}]
    /\ gs.numberOfActiveGroups <= gs.numberOfGroups
    /\ gs.activeGroup \in -1 .. gs.numberOfActiveGroups - 1
    /\ gs.groups = [g \in 0 .. gs.numberOfActiveGroups - 1 |-> gs.groups[g]]
    /\ \A g \in 0 .. gs.numberOfActiveGroups - 1 : GroupOK(gs.groups[g])
LibType(x) == SetOK(x.gs) /\ x.cpu = [t \in Threads |-> x.cpu[t]] /\ \A t \in Threads : CpuOK(x.cpu[t])

\* What is configured or enabled, an added group has wanted.
UsedInv(x) ==
    \A t \in Threads :
        /\ \A c \in Core : x.cpu[t].ctrl[c] # Off => \E g \in Added(x) : c \in DOMAIN Group(x, g).events
        /\ x.cpu[t].enabled # {} => \E g \in Added(x) : UsesCore(Group(x, g).events)

\* The copy of the control registers is right, the fixed counters are
\* configured together or not at all, and the active group is configured.
CpuConfigured(q) ==
    /\ \A c \in Core : q.ctrl[c] = q.currentConfig[c]
    /\ \A es \in EventSets : \/ \A c \in DOMAIN es \cap Fixed : q.ctrl[c] = es[c]
                             \/ \A c \in Fixed : q.ctrl[c] = Off
GroupConfigured(q, es) == \A c \in DOMAIN es \cap Core : q.ctrl[c] = es[c]
ConfigInv(x) ==
    FixedAlike =>
        \A t \in Threads : /\ CpuConfigured(x.cpu[t])
                           /\ x.gs.activeGroup >= 0 => GroupConfigured(x.cpu[t], Group(x, x.gs.activeGroup).events)

\* The counters of a group against those of a CPU, if no counter wraps
CpuCounts(q, n) == q.status = {} /\ \A c \in Counters : q.count[c] <= n
CounterSane(q, c, r, lock) ==
    /\ r.overflows = 0
    /\ c \in Power => r.counterData <= q.count[c]
    /\ c \in Power /\ ~lock => r.startData = 0 /\ r.counterData = 0
\* while the group runs
CounterRuns(q, c, r, lock, truth) ==
    /\ r.init /\ r.fullData = 0
    /\ c \in Core => r.startData = 0 /\ q.count[c] = truth /\ c \in q.enabled
    /\ c \in Power => IF lock THEN q.count[c] = r.startData + truth ELSE truth = 0
\* after it was stopped
CounterDone(r, n, truth) == ~r.init /\ r.fullData = truth /\ r.counterData = r.startData + truth /\ truth <= n
GroupSane(grp, cpus) ==
    \A t \in Threads, c \in DOMAIN grp.events : CounterSane(cpus[t], c, grp.counters[t][c], HaveLock(t))
GroupRuns(grp, cpus) ==
    grp.state = "START" => \A t \in Threads, c \in DOMAIN grp.events :
        CounterRuns(cpus[t], c, grp.counters[t][c], HaveLock(t), grp.truth[t][c])
GroupDone(grp, n) ==
    grp.measured => /\ grp.state = "SETUP"
                    /\ \A t \in Threads, c \in DOMAIN grp.events : CounterDone(grp.counters[t][c], n, grp.truth[t][c])
CountInv(x, n) ==
    FixedAlike /\ NoWrap /\ ~Restarts =>
        /\ \A t \in Threads : CpuCounts(x.cpu[t], n)
        /\ \A g \in Added(x) : GroupSane(Group(x, g), x.cpu) /\ GroupDone(Group(x, g), n)
        /\ x.gs.activeGroup >= 0 => GroupRuns(Group(x, x.gs.activeGroup), x.cpu)

LibInv(x, n) == LibType(x) /\ UsedInv(x) /\ ConfigInv(x) /\ CountInv(x, n)

PerfmonInv ==
    /\ perfmon_initialized \in BOOLEAN /\ now \in 0 .. MaxTime /\ happened \in 0 .. MaxEvents
    /\ LibInv(Now, happened)
    /\ ~perfmon_initialized => groupSet.numberOfActiveGroups = 0 /\ groupSet.activeGroup = -1
    /\ OffAfterFinalize

\* The time of a running group is the time of its earlier cycles and that
\* since its start.
TimeOK(grp, tsc) ==
    IF grp.state = "START" THEN grp.timer.start <= tsc /\ grp.ran = grp.runTime + (tsc - grp.timer.start)
    ELSE grp.runTime = grp.ran
TimeInv == ~MaySwitch /\ ~SetupAnytime => \A g \in AddedGroups : TimeOK(groupSet.groups[g], now)

-----------------------------------------------------------------------------
(* The architecture layer *)

\* Sizes of counters are positive.
LEMMA Sizes == \A c : Size(c) \in Nat \ {0}
  BY SizeAssumption DEF Size

\* Every event set is a function from counters to flags, which are not Off.
LEMMA EventSet ==
  ASSUME NEW es \in EventSets
  PROVE  /\ DOMAIN es \subseteq Counters /\ \A c \in DOMAIN es : es[c] \in Flags /\ es[c] # Off
         /\ \A c \in DOMAIN es \cap Power : es[c] = Joule
<1>1. es \in [DOMAIN es -> Flags]
  BY EventSetsAssumption
<1>2. \A c \in DOMAIN es : es[c] \in Flags
  BY <1>1
<1> QED BY <1>2, EventSetsAssumption, OffAssumption

\* perfmon_setupCounterThread: the control registers afterwards.
LEMMA SetupCpu ==
  ASSUME NEW q, CpuOK(q), NEW es \in EventSets, NEW p, p = perfmon_setupCounterThread(q, es)
  PROVE  /\ CpuOK(p) /\ p.count = q.count /\ p.status \subseteq q.status
         /\ p.enabled = IF UsesCore(es) THEN {} ELSE q.enabled
         /\ \A c \in Core : p.currentConfig[c] = IF c \in DOMAIN es THEN es[c] ELSE q.currentConfig[c]
         /\ \A c \in Core : p.ctrl[c] =
              IF c \in DOMAIN es /\ q.currentConfig[c] # es[c] THEN es[c]
              ELSE IF c \in Fixed /\ \E f \in DOMAIN es \cap Fixed : q.currentConfig[f] # es[f] THEN Off
              ELSE q.ctrl[c]
<1> DEFINE r == IF UsesCore(es) THEN [q EXCEPT !.enabled = {}, !.status = {}] ELSE q
           changed == {c \in DOMAIN es \cap Core : r.currentConfig[c] # es[c]}
           cc == [c \in Core |-> IF c \in changed THEN es[c] ELSE r.currentConfig[c]]
           ct == [c \in Core |-> IF c \in changed THEN es[c]
                                 ELSE IF c \in Fixed /\ changed \cap Fixed # {} THEN Off ELSE r.ctrl[c]]
<1>1. q \in Cpu
  BY DEF CpuOK
<1>2. /\ r \in Cpu /\ r.count = q.count /\ r.ctrl = q.ctrl /\ r.currentConfig = q.currentConfig
      /\ r.status \subseteq q.status /\ r.enabled = IF UsesCore(es) THEN {} ELSE q.enabled
  BY <1>1 DEF Cpu
<1>3. p = [r EXCEPT !.currentConfig = cc, !.ctrl = ct]
  BY DEF perfmon_setupCounterThread, skl_setup
<1> HIDE DEF r
<1>4. cc \in [Core -> Flags \cup {Off}] /\ ct \in [Core -> Flags \cup {Off}]
  BY <1>2, EventSet DEF Cpu
<1>5. p \in Cpu /\ p.count = q.count /\ p.status \subseteq q.status /\ p.enabled = r.enabled
      /\ p.currentConfig = cc /\ p.ctrl = ct
  BY <1>2, <1>3, <1>4 DEF Cpu
<1>6. \A c \in Core : c \in changed <=> c \in DOMAIN es /\ q.currentConfig[c] # es[c]
  BY <1>2
<1>7. changed \cap Fixed # {} <=> \E f \in DOMAIN es \cap Fixed : q.currentConfig[f] # es[f]
  BY <1>2 DEF Core
<1>8. CpuOK(p)
  BY <1>5 DEF CpuOK
<1> HIDE DEF changed
<1> QED BY <1>2, <1>5, <1>6, <1>7, <1>8

\* perfmon_startCountersThread: the counters that were set up are zeroed and
\* enabled.
LEMMA StartCpu ==
  ASSUME NEW q, CpuOK(q), NEW es \in EventSets, NEW cs, NEW p, p = perfmon_startCountersThread(q, es, cs)
  PROVE  /\ CpuOK(p) /\ p.ctrl = q.ctrl /\ p.currentConfig = q.currentConfig /\ p.status \subseteq q.status
         /\ p.enabled # {} => q.enabled # {} \/ UsesCore(es)
         /\ \A c \in Counters : p.count[c] = IF c \in DOMAIN es \cap Core /\ cs[c].init THEN 0 ELSE q.count[c]
         /\ \A c \in DOMAIN es \cap Core : cs[c].init => c \in p.enabled
<1> DEFINE on == {c \in DOMAIN es \cap Core : cs[c].init}
           cn == [c \in Counters |-> IF c \in on THEN 0 ELSE q.count[c]]
           z == [q EXCEPT !.count = cn]
<1>1. q \in Cpu /\ \A c \in Counters : q.count[c] \in Nat /\ q.count[c] < Size(c)
  BY DEF CpuOK, Cpu
<1>2. cn \in [Counters -> Nat] /\ \A c \in Counters : cn[c] < Size(c)
  BY <1>1, Sizes
<1>3. z \in Cpu /\ z.ctrl = q.ctrl /\ z.currentConfig = q.currentConfig /\ z.status = q.status /\ z.enabled = q.enabled
      /\ z.count = cn
  BY <1>1, <1>2 DEF Cpu
<1>4. p = IF UsesCore(es) THEN [z EXCEPT !.enabled = on, !.status = z.status \ on] ELSE z
  BY DEF perfmon_startCountersThread
<1>5. on \subseteq Core
  OBVIOUS
<1> HIDE DEF z, cn
<1>6. /\ p \in Cpu /\ p.ctrl = z.ctrl /\ p.currentConfig = z.currentConfig /\ p.status \subseteq z.status
      /\ p.count = cn /\ p.enabled = IF UsesCore(es) THEN on ELSE q.enabled
  <2> HIDE DEF on
  <2> QED BY <1>3, <1>4, <1>5 DEF Cpu
<1>7. CpuOK(p)
  BY <1>2, <1>6 DEF CpuOK
<1>8. \A c \in Counters : p.count[c] = IF c \in DOMAIN es \cap Core /\ cs[c].init THEN 0 ELSE q.count[c]
  BY <1>6 DEF cn
<1>9. \A c \in DOMAIN es \cap Core : cs[c].init => c \in p.enabled
  BY <1>6 DEF UsesCore
<1> QED BY <1>3, <1>6, <1>7, <1>8, <1>9

\* perfmon_readCountersThread leaves all but the overflow bits alone.
LEMMA ReadsCpu ==
  ASSUME NEW q, CpuOK(q), NEW es, NEW cs, NEW p, p = perfmon_readCountersThread(q, es, cs)
  PROVE  /\ CpuOK(p) /\ p.ctrl = q.ctrl /\ p.currentConfig = q.currentConfig /\ p.count = q.count
         /\ p.status \subseteq q.status /\ p.enabled = q.enabled
<1>1. q \in Cpu /\ p = [q EXCEPT !.status = q.status \ Acknowledged(q, es, cs)]
  BY DEF CpuOK, perfmon_readCountersThread
<1>2. p \in Cpu /\ p.ctrl = q.ctrl /\ p.currentConfig = q.currentConfig /\ p.count = q.count
      /\ p.status \subseteq q.status /\ p.enabled = q.enabled
  BY <1>1 DEF Cpu
<1> QED BY <1>2 DEF CpuOK

\* perfmon_stopCountersThread also disables the counters.
LEMMA StopCpu ==
  ASSUME NEW q, CpuOK(q), NEW es, NEW cs, NEW p, p = perfmon_stopCountersThread(q, es, cs)
  PROVE  /\ CpuOK(p) /\ p.ctrl = q.ctrl /\ p.currentConfig = q.currentConfig /\ p.count = q.count
         /\ p.status \subseteq q.status /\ p.enabled \in {{}, q.enabled}
<1>1. q \in Cpu /\ p = [q EXCEPT !.enabled = IF UsesCore(es) THEN {} ELSE q.enabled,
                                 !.status = q.status \ Acknowledged(q, es, cs)]
  BY DEF CpuOK, perfmon_stopCountersThread
<1>2. p \in Cpu /\ p.ctrl = q.ctrl /\ p.currentConfig = q.currentConfig /\ p.count = q.count
      /\ p.status \subseteq q.status /\ p.enabled \in {{}, q.enabled}
  BY <1>1 DEF Cpu
<1> QED BY <1>2 DEF CpuOK

\* perfmon_finalizeCountersThread clears what the event set has used.
LEMMA FinalizeCpu ==
  ASSUME NEW q, CpuOK(q), NEW es \in EventSets, NEW p, p = perfmon_finalizeCountersThread(q, es)
  PROVE  /\ CpuOK(p) /\ p.count = q.count /\ p.status \subseteq q.status
         /\ p.enabled = IF UsesCore(es) THEN {} ELSE q.enabled
         /\ \A c \in Core : p.ctrl[c] \in {Off, q.ctrl[c]} /\ (c \in DOMAIN es => p.ctrl[c] = Off)
<1> DEFINE used == DOMAIN es \cap Core
           clear == (used \cap Pmc) \cup (IF used \cap Fixed # {} THEN Fixed ELSE {})
           ct == [c \in Core |-> IF c \in clear THEN Off ELSE q.ctrl[c]]
           en == IF used # {} THEN {} ELSE q.enabled
           st == q.status \ used
<1>1. q \in Cpu
  BY DEF CpuOK
<1>2. \A c \in Core : c \in DOMAIN es => c \in clear
  BY DEF Core
<1> HIDE DEF clear
<1>3. ct \in [Core -> Flags \cup {Off}] /\ \A c \in Core : ct[c] \in {Off, q.ctrl[c]} /\ (c \in DOMAIN es => ct[c] = Off)
  BY <1>1, <1>2 DEF Cpu
<1>4. p = [q EXCEPT !.ctrl = ct, !.enabled = en, !.status = st]
  BY DEF perfmon_finalizeCountersThread, clear
<1>5. en \in SUBSET Core /\ st \in SUBSET Core /\ st \subseteq q.status
  BY <1>1 DEF Cpu
<1> HIDE DEF ct, en, st
<1>6. p \in Cpu /\ p.count = q.count /\ p.status = st /\ p.ctrl = ct /\ p.enabled = en
  BY <1>1, <1>3, <1>4, <1>5 DEF Cpu
<1> QED BY <1>3, <1>5, <1>6 DEF CpuOK, UsesCore, en

\* The remainder of a number that is small enough.
LEMMA SmallMod ==
  ASSUME NEW a \in Nat, NEW n \in Nat, a < n
  PROVE  a % n = a
  OBVIOUS

\* An event on a CPU: who counts it, and that nothing wraps below the limit.
LEMMA EventCpu ==
  ASSUME NEW q, CpuOK(q), NEW e, NEW p, p = EventOn(q, e)
  PROVE  /\ CpuOK(p) /\ p.ctrl = q.ctrl /\ p.currentConfig = q.currentConfig /\ p.enabled = q.enabled
         /\ \A c \in Counters : ~Counts(q, c, e) => p.count[c] = q.count[c]
         /\ \A c \in Counters : Counts(q, c, e) /\ q.count[c] + 1 < Size(c) => p.count[c] = q.count[c] + 1
         /\ \A c \in Counters : Counts(q, c, e) /\ q.count[c] + 1 = Size(c) => p.count[c] = 0
         /\ p.status = q.status \cup {c \in Core : Counts(q, c, e) /\ q.count[c] + 1 = Size(c)}
         /\ (\A c \in Counters : q.count[c] + 1 < Size(c)) => p.status = q.status
<1> DEFINE hit == {c \in Counters : Counts(q, c, e)}
           wraps == {c \in hit : q.count[c] = perfmon_getMaxCounterValue(c)}
           cn == [c \in Counters |-> IF c \in hit THEN (q.count[c] + 1) % Size(c) ELSE q.count[c]]
<1>1. q \in Cpu /\ \A c \in Counters : q.count[c] \in Nat /\ q.count[c] < Size(c)
  BY DEF CpuOK, Cpu
<1>2. ASSUME NEW c \in Counters PROVE cn[c] \in Nat /\ cn[c] < Size(c)
  <2> DEFINE a == q.count[c] + 1
             n == Size(c)
  <2>1. a \in Nat /\ n \in Nat \ {0}
    BY <1>1, Sizes
  <2> HIDE DEF a, n
  <2>2. a % n \in Nat /\ a % n < n
    BY <2>1, DivMod
  <2> QED BY <1>1, <2>2 DEF a, n
<1>3. p = [q EXCEPT !.count = cn, !.status = q.status \cup (wraps \cap Core)]
  BY DEF EventOn
<1>4. (\A c \in Counters : q.count[c] + 1 < Size(c)) => wraps = {}
  BY <1>1, Sizes DEF perfmon_getMaxCounterValue
<1>5. \A c \in Counters : Counts(q, c, e) /\ q.count[c] + 1 < Size(c) => cn[c] = q.count[c] + 1
  BY <1>1, Sizes, SmallMod
<1>6. \A c \in Counters : ~Counts(q, c, e) => cn[c] = q.count[c]
  OBVIOUS
<1>7. cn \in [Counters -> Nat]
  BY <1>2
<1>8. \A c \in Counters : Counts(q, c, e) /\ q.count[c] + 1 = Size(c) => cn[c] = 0
  BY Sizes, DivMod
<1>9. wraps \cap Core = {c \in Core : Counts(q, c, e) /\ q.count[c] + 1 = Size(c)}
  BY <1>1, Sizes DEF perfmon_getMaxCounterValue, Counters
<1> HIDE DEF cn, wraps
<1>10. p \in Cpu /\ p.ctrl = q.ctrl /\ p.currentConfig = q.currentConfig /\ p.enabled = q.enabled /\ p.count = cn
      /\ p.status = q.status \cup (wraps \cap Core)
  BY <1>1, <1>3, <1>7 DEF Cpu
<1>11. CpuOK(p)
  BY <1>2, <1>10 DEF CpuOK
<1> QED BY <1>4, <1>5, <1>6, <1>10, <1>11, <1>8, <1>9

-----------------------------------------------------------------------------
(* Counters *)

\* What calculateResult returns is not negative.
LEMMA ResultType ==
  ASSUME NEW c, NEW r, CounterOK(c, r)
  PROVE  calculateResult(c, r) \in Nat
<1>1. /\ r.startData \in Nat /\ r.counterData \in Nat /\ r.overflows \in Nat
      /\ r.startData < Size(c) /\ Size(c) \in Nat \ {0}
  BY Sizes DEF CounterOK, PerfmonCounter
<1>2. CASE r.overflows = 0
  <2> DEFINE a == r.counterData - r.startData
  <2>1. Word \in Nat \ {0} /\ a \in Int
    BY <1>1, SizeAssumption DEF Word
  <2> HIDE DEF a
  <2>2. a % Word \in Nat
    BY <2>1
  <2> QED BY <1>2, <2>2 DEF calculateResult, a
<1>3. CASE r.overflows # 0
  <2> DEFINE m == Size(c) - 1
             k == r.overflows - 1
             a == k * m
  <2>1. m \in Nat /\ k \in Nat
    BY <1>1, <1>3
  <2> HIDE DEF m, k
  <2>2. a \in Nat
    BY <2>1, MulMono
  <2> HIDE DEF a
  <2>3. (m - r.startData) + r.counterData + a \in Nat
    BY <1>1, <2>1, <2>2 DEF m
  <2> QED BY <1>3, <2>3 DEF calculateResult, perfmon_getMaxCounterValue, m, k, a
<1> QED BY <1>2, <1>3

\* Starting a counter that was set up.
LEMMA StartCounter ==
  ASSUME NEW q, CpuOK(q), NEW c \in Counters, NEW r, CounterOK(c, r), NEW lock, NEW s, s = StartedCounter(q, c, r, lock)
  PROVE  /\ CounterOK(c, s) /\ s.overflows = r.overflows /\ s.init = r.init
         /\ r.init => /\ s.counterData = 0 /\ s.fullData = 0
                      /\ s.startData = IF c \in Power /\ lock THEN q.count[c] ELSE 0
         /\ ~r.init => s = r
<1>1. r \in PerfmonCounter /\ q.count[c] \in Nat /\ q.count[c] < Size(c) /\ Size(c) \in Nat \ {0}
  BY Sizes DEF CounterOK, CpuOK, Cpu
<1> DEFINE a == IF c \in Power /\ lock THEN q.count[c] ELSE 0
<1>2. a \in Nat /\ a < Size(c)
  BY <1>1
<1>3. s = IF ~r.init THEN r ELSE [r EXCEPT !.startData = a, !.counterData = 0, !.fullData = 0]
  BY DEF StartedCounter
<1>4. CASE r.init
  <2> HIDE DEF a
  <2>1. /\ s \in PerfmonCounter /\ s.startData = a /\ s.counterData = 0 /\ s.fullData = 0
        /\ s.init = r.init /\ s.overflows = r.overflows
    <3>1. r \in PerfmonCounter /\ a \in Nat /\ s = [r EXCEPT !.startData = a, !.counterData = 0, !.fullData = 0]
      BY <1>1, <1>2, <1>3, <1>4
    <3> DEFINE v == [r EXCEPT !.startData = a]
               w == [v EXCEPT !.counterData = 0]
    <3>2. v \in PerfmonCounter /\ v.startData = a /\ v.init = r.init /\ v.overflows = r.overflows
      BY <3>1 DEF PerfmonCounter
    <3>3. s = [w EXCEPT !.fullData = 0]
      BY <3>1
    <3> HIDE DEF v
    <3>4. w \in PerfmonCounter /\ w.startData = a /\ w.init = r.init /\ w.overflows = r.overflows /\ w.counterData = 0
      BY <3>2 DEF PerfmonCounter
    <3> HIDE DEF w
    <3> QED BY <3>3, <3>4 DEF PerfmonCounter
  <2> QED BY <1>1, <1>2, <1>4, <2>1 DEF CounterOK, a
<1>5. CASE ~r.init
  BY <1>3, <1>5
<1> QED BY <1>4, <1>5

\* Reading a counter.
LEMMA SampleCounter ==
  ASSUME NEW q, CpuOK(q), NEW c \in Counters, NEW r, CounterOK(c, r), NEW lock, NEW s, s = SampledCounter(q, c, r, lock)
  PROVE  /\ CounterOK(c, s) /\ s.init = r.init /\ s.startData = r.startData /\ s.fullData = r.fullData
         /\ ~r.init \/ (c \in Power /\ ~lock) => s = r
         /\ r.init /\ (c \in Power => lock) => s.counterData = q.count[c]
         /\ s.overflows \in {r.overflows, r.overflows + 1}
         /\ ~(q.count[c] < r.counterData /\ (c \in Power \/ c \in q.status)) => s.overflows = r.overflows
<1>1. r \in PerfmonCounter /\ q.count[c] \in Nat /\ q.count[c] < Size(c)
  BY DEF CounterOK, CpuOK, Cpu
<1> DEFINE o == IF q.count[c] < r.counterData /\ (c \in Power \/ c \in q.status) THEN r.overflows + 1 ELSE r.overflows
<1>2. o \in Nat
  BY <1>1 DEF PerfmonCounter
<1>3. s = IF ~r.init \/ (c \in Power /\ ~lock) THEN r ELSE [r EXCEPT !.counterData = q.count[c], !.overflows = o]
  BY DEF SampledCounter
<1>4. CASE ~(~r.init \/ (c \in Power /\ ~lock))
  <2> HIDE DEF o
  <2>1. /\ s \in PerfmonCounter /\ s.counterData = q.count[c] /\ s.overflows = o
        /\ s.init = r.init /\ s.startData = r.startData /\ s.fullData = r.fullData
    BY <1>1, <1>2, <1>3, <1>4 DEF PerfmonCounter
  <2> QED BY <1>1, <1>4, <2>1 DEF CounterOK, o
<1>5. CASE ~r.init \/ (c \in Power /\ ~lock)
  BY <1>3, <1>5
<1> QED BY <1>4, <1>5

\* Stopping a counter: it is read once more and its result is added up.
LEMMA StopCounter ==
  ASSUME NEW q, CpuOK(q), NEW c \in Counters, NEW r, CounterOK(c, r), NEW lock,
         NEW s, s = Aggregated(c, StoppedCounter(q, c, r, lock))
  PROVE  /\ CounterOK(c, s) /\ ~s.init /\ s.startData = r.startData
         /\ LET u == SampledCounter(q, c, r, lock)
            IN /\ s.counterData = u.counterData
               /\ u.overflows > 0 => s.overflows = u.overflows - 1
               /\ u.overflows = 0 => /\ s.overflows = 0
                                     /\ s.fullData = r.fullData + ((u.counterData - r.startData) % Word)
<1> DEFINE u == SampledCounter(q, c, r, lock)
           v == [u EXCEPT !.init = FALSE]
           w == Evaluated(v)
           k == calculateResult(c, v)
           o == IF v.overflows > 0 THEN v.overflows - 1 ELSE v.overflows
<1>1. CounterOK(c, u) /\ u.startData = r.startData /\ u.fullData = r.fullData
  BY SampleCounter
<1> HIDE DEF u
<1>2. CounterOK(c, v) /\ ~v.init /\ v.startData = r.startData /\ v.fullData = r.fullData
      /\ v.counterData = u.counterData /\ v.overflows = u.overflows
  BY <1>1 DEF CounterOK, PerfmonCounter
<1>3. s = [w EXCEPT !.fullData = w.fullData + k]
  BY DEF Aggregated, StoppedCounter, u
<1> HIDE DEF v
<1>4. k \in Nat /\ o \in Nat /\ (v.overflows = 0 => o = 0) /\ (v.overflows > 0 => o = v.overflows - 1)
  BY <1>2, ResultType DEF CounterOK, PerfmonCounter
<1>5. w = [v EXCEPT !.overflows = o]
  BY DEF Evaluated
<1>6. v.overflows = 0 => k = (v.counterData - v.startData) % Word
  BY DEF calculateResult
<1> HIDE DEF w, k, o
<1>7. /\ w \in PerfmonCounter /\ ~w.init /\ w.startData = v.startData /\ w.counterData = v.counterData
      /\ w.fullData = v.fullData /\ w.overflows = o
  BY <1>2, <1>4, <1>5 DEF CounterOK, PerfmonCounter
<1>8. /\ s \in PerfmonCounter /\ ~s.init /\ s.startData = v.startData /\ s.counterData = v.counterData
      /\ s.fullData = v.fullData + k /\ s.overflows = o
  BY <1>3, <1>4, <1>7 DEF PerfmonCounter
<1> QED BY <1>2, <1>4, <1>6, <1>8 DEF CounterOK, u

\* Asking for a result uses up an overflow, if there is one.
LEMMA ResultCounter ==
  ASSUME NEW c, NEW r, CounterOK(c, r)
  PROVE  /\ CounterOK(c, AfterResult(r))
         /\ r.overflows = 0 => AfterResult(r) = r
         /\ AfterResult(r).init = r.init /\ AfterResult(r).startData = r.startData
         /\ AfterResult(r).counterData = r.counterData /\ AfterResult(r).fullData = r.fullData
         /\ AfterResult(r).overflows \in {r.overflows, r.overflows - 1}
<1> DEFINE o == IF r.overflows > 0 THEN r.overflows - 1 ELSE r.overflows
           s == [r EXCEPT !.overflows = o]
<1>1. r \in PerfmonCounter /\ o \in Nat /\ (r.overflows = 0 => o = r.overflows) /\ o \in {r.overflows, r.overflows - 1}
  BY DEF CounterOK, PerfmonCounter
<1>2. AfterResult(r) = IF r.fullData = 0 THEN s ELSE r
  BY DEF AfterResult, Evaluated
<1> HIDE DEF o
<1>3. /\ s \in PerfmonCounter /\ s.startData = r.startData /\ s.counterData = r.counterData
      /\ s.init = r.init /\ s.fullData = r.fullData /\ s.overflows \in {r.overflows, r.overflows - 1}
  BY <1>1 DEF PerfmonCounter
<1>4. r.overflows = 0 => s = r
  BY <1>1 DEF PerfmonCounter
<1> QED BY <1>2, <1>3, <1>4 DEF CounterOK

-----------------------------------------------------------------------------
(* Groups *)

\* The fields of a group.
LEMMA GroupFields ==
  ASSUME NEW grp, GroupOK(grp)
  PROVE  /\ grp \in GroupRecord(grp.events) /\ grp.events \in EventSets
         /\ grp.runTime \in Nat /\ grp.ran \in Nat /\ grp.rdtscTime \in Nat
         /\ grp.timer \in [start : 0 .. MaxTime, stop : 0 .. MaxTime] /\ grp.measured \in BOOLEAN
         /\ DOMAIN grp.events \subseteq Counters
         /\ \A t \in Threads, c \in DOMAIN grp.events :
              c \in Counters /\ CounterOK(c, grp.counters[t][c]) /\ grp.counters[t][c] \in PerfmonCounter
              /\ grp.truth[t][c] \in Nat
<1>1. grp \in GroupRecord(grp.events) /\ grp.events \in EventSets
  BY DEF GroupOK
<1>2. /\ grp.runTime \in Nat /\ grp.ran \in Nat /\ grp.rdtscTime \in Nat
      /\ grp.timer \in [start : 0 .. MaxTime, stop : 0 .. MaxTime] /\ grp.measured \in BOOLEAN
      /\ grp.counters \in [Threads -> [DOMAIN grp.events -> PerfmonCounter]]
      /\ grp.truth \in [Threads -> [DOMAIN grp.events -> Nat]]
  BY <1>1 DEF GroupRecord
<1>3. DOMAIN grp.events \subseteq Counters
  BY <1>1, EventSet
<1> QED BY <1>1, <1>2, <1>3 DEF GroupOK

\* Setting up a group.
LEMMA SetupG ==
  ASSUME NEW grp, GroupOK(grp), NEW G, G = SetupGroup(grp)
  PROVE  /\ GroupOK(G) /\ G.state = "SETUP" /\ G.events = grp.events /\ G.runTime = grp.runTime
         /\ G.timer = grp.timer /\ G.truth = grp.truth /\ G.ran = grp.ran /\ ~G.measured
         /\ \A t \in Threads, c \in DOMAIN grp.events :
              /\ G.counters[t][c].init /\ G.counters[t][c].overflows = grp.counters[t][c].overflows
              /\ G.counters[t][c].startData = grp.counters[t][c].startData
              /\ G.counters[t][c].counterData = grp.counters[t][c].counterData
<1> DEFINE es == grp.events
           tab == [t \in Threads |-> [c \in DOMAIN grp.events |-> [grp.counters[t][c] EXCEPT !.init = TRUE]]]
           A1 == [grp EXCEPT !.counters = tab]
           A2 == [A1 EXCEPT !.state = "SETUP"]
<1>1. es \in EventSets /\ grp \in GroupRecord(es) /\ grp.events = es
  BY DEF GroupOK
<1>2. ASSUME NEW t \in Threads, NEW c \in DOMAIN grp.events
      PROVE  /\ CounterOK(c, tab[t][c]) /\ tab[t][c].init /\ tab[t][c].overflows = grp.counters[t][c].overflows
             /\ tab[t][c].startData = grp.counters[t][c].startData
             /\ tab[t][c].counterData = grp.counters[t][c].counterData
  <2> DEFINE r == grp.counters[t][c]
             s == [r EXCEPT !.init = TRUE]
  <2>1. CounterOK(c, r) /\ r \in PerfmonCounter /\ tab[t][c] = s
    BY GroupFields
  <2> HIDE DEF r, tab
  <2>2. s \in PerfmonCounter /\ s.init /\ s.overflows = r.overflows /\ s.startData = r.startData
        /\ s.counterData = r.counterData
    BY <2>1 DEF PerfmonCounter
  <2> QED BY <2>1, <2>2 DEF CounterOK, r
<1>3. tab \in [Threads -> [DOMAIN es -> PerfmonCounter]]
  BY <1>2 DEF CounterOK
<1>4. G = [A2 EXCEPT !.measured = FALSE]
  BY DEF SetupGroup
<1> HIDE DEF es, tab
<1>5. /\ A1 \in GroupRecord(es) /\ A1.state = grp.state /\ A1.events = grp.events
      /\ A1.runTime = grp.runTime /\ A1.rdtscTime = grp.rdtscTime /\ A1.timer = grp.timer
      /\ A1.counters = tab /\ A1.truth = grp.truth /\ A1.ran = grp.ran /\ A1.measured = grp.measured
  BY <1>1, <1>3 DEF GroupRecord
<1> HIDE DEF A1
<1>6. /\ A2 \in GroupRecord(es) /\ A2.state = "SETUP" /\ A2.events = grp.events
      /\ A2.runTime = grp.runTime /\ A2.rdtscTime = grp.rdtscTime /\ A2.timer = grp.timer
      /\ A2.counters = tab /\ A2.truth = grp.truth /\ A2.ran = grp.ran /\ A2.measured = grp.measured
  BY <1>1, <1>5, <1>3 DEF GroupRecord
<1> HIDE DEF A2
<1>7. /\ G \in GroupRecord(es) /\ G.state = "SETUP" /\ G.events = grp.events /\ G.runTime = grp.runTime
      /\ G.rdtscTime = grp.rdtscTime /\ G.timer = grp.timer /\ G.counters = tab /\ G.truth = grp.truth
      /\ G.ran = grp.ran /\ ~G.measured
  BY <1>1, <1>6, <1>4, <1>3 DEF GroupRecord
<1> QED BY <1>1, <1>2, <1>7 DEF GroupOK, es

\* Starting a group.
LEMMA StartG ==
  ASSUME NEW grp, GroupOK(grp), NEW cpus, \A t \in Threads : CpuOK(cpus[t]), now \in 0 .. MaxTime,
         NEW G, G = StartGroup(grp, cpus)
  PROVE  /\ GroupOK(G) /\ G.state = "START" /\ G.events = grp.events /\ G.runTime = grp.runTime
         /\ G.ran = grp.ran /\ ~G.measured
         /\ G.timer.start = now
         /\ \A t \in Threads, c \in DOMAIN grp.events :
              G.truth[t][c] = 0 /\ G.counters[t][c] = StartedCounter(cpus[t], c, grp.counters[t][c], HaveLock(t))
<1> DEFINE es == grp.events
           tab == [t \in Threads |-> [c \in DOMAIN grp.events |->
                     StartedCounter(cpus[t], c, grp.counters[t][c], HaveLock(t))]]
           tr == [t \in Threads |-> [c \in DOMAIN grp.events |-> 0]]
           tm == [grp.timer EXCEPT !.start = now]
           A1 == [grp EXCEPT !.counters = tab]
           A2 == [A1 EXCEPT !.truth = tr]
           A3 == [A2 EXCEPT !.timer = tm]
           A4 == [A3 EXCEPT !.state = "START"]
<1>1. es \in EventSets /\ grp \in GroupRecord(es) /\ grp.events = es
  BY DEF GroupOK
<1>2. ASSUME NEW t \in Threads, NEW c \in DOMAIN grp.events
      PROVE  /\ CounterOK(c, tab[t][c]) /\ tr[t][c] = 0
             /\ tab[t][c] = StartedCounter(cpus[t], c, grp.counters[t][c], HaveLock(t))
  <2>1. CounterOK(c, grp.counters[t][c]) /\ c \in Counters
    BY GroupFields
  <2> QED BY <2>1, StartCounter
<1>3. tab \in [Threads -> [DOMAIN es -> PerfmonCounter]]
  BY <1>2 DEF CounterOK
<1>4. tr \in [Threads -> [DOMAIN es -> Nat]]
  OBVIOUS
<1>5. tm \in [start : 0 .. MaxTime, stop : 0 .. MaxTime] /\ tm.start = now
  BY GroupFields
<1>6. G = [A4 EXCEPT !.measured = FALSE]
  BY DEF StartGroup
<1> HIDE DEF es, tab, tr, tm
<1>7. /\ A1 \in GroupRecord(es) /\ A1.state = grp.state /\ A1.events = grp.events
      /\ A1.runTime = grp.runTime /\ A1.rdtscTime = grp.rdtscTime /\ A1.timer = grp.timer
      /\ A1.counters = tab /\ A1.truth = grp.truth /\ A1.ran = grp.ran /\ A1.measured = grp.measured
  BY <1>1, <1>3, <1>4, <1>5 DEF GroupRecord
<1> HIDE DEF A1
<1>8. /\ A2 \in GroupRecord(es) /\ A2.state = grp.state /\ A2.events = grp.events
      /\ A2.runTime = grp.runTime /\ A2.rdtscTime = grp.rdtscTime /\ A2.timer = grp.timer
      /\ A2.counters = tab /\ A2.truth = tr /\ A2.ran = grp.ran /\ A2.measured = grp.measured
  BY <1>1, <1>7, <1>3, <1>4, <1>5 DEF GroupRecord
<1> HIDE DEF A2
<1>9. /\ A3 \in GroupRecord(es) /\ A3.state = grp.state /\ A3.events = grp.events
      /\ A3.runTime = grp.runTime /\ A3.rdtscTime = grp.rdtscTime /\ A3.timer = tm /\ A3.counters = tab
      /\ A3.truth = tr /\ A3.ran = grp.ran /\ A3.measured = grp.measured
  BY <1>1, <1>8, <1>3, <1>4, <1>5 DEF GroupRecord
<1> HIDE DEF A3
<1>10. /\ A4 \in GroupRecord(es) /\ A4.state = "START" /\ A4.events = grp.events
      /\ A4.runTime = grp.runTime /\ A4.rdtscTime = grp.rdtscTime /\ A4.timer = tm /\ A4.counters = tab
      /\ A4.truth = tr /\ A4.ran = grp.ran /\ A4.measured = grp.measured
  BY <1>1, <1>9, <1>3, <1>4, <1>5 DEF GroupRecord
<1> HIDE DEF A4
<1>11. /\ G \in GroupRecord(es) /\ G.state = "START" /\ G.events = grp.events /\ G.runTime = grp.runTime
      /\ G.rdtscTime = grp.rdtscTime /\ G.timer = tm /\ G.counters = tab /\ G.truth = tr
      /\ G.ran = grp.ran /\ ~G.measured
  BY <1>1, <1>10, <1>6, <1>3, <1>4, <1>5 DEF GroupRecord
<1> QED BY <1>1, <1>2, <1>11, <1>5 DEF GroupOK, es

\* Stopping the timer of a group.
LEMMA StopTimerG ==
  ASSUME NEW grp, GroupOK(grp), now \in 0 .. MaxTime, NEW G, G = StopTimer(grp)
  PROVE  /\ GroupOK(G) /\ G.state = grp.state /\ G.events = grp.events /\ G.counters = grp.counters
         /\ G.truth = grp.truth /\ G.ran = grp.ran /\ G.measured = grp.measured
         /\ G.runTime = grp.runTime + IF now <= grp.timer.start THEN 0 ELSE now - grp.timer.start
<1> DEFINE es == grp.events
           tm == [grp.timer EXCEPT !.stop = now]
           rd == timer_print(tm)
           rt == grp.runTime + rd
           A1 == [grp EXCEPT !.timer = tm]
           A2 == [A1 EXCEPT !.rdtscTime = rd]
<1>1. es \in EventSets /\ grp \in GroupRecord(es) /\ grp.events = es
  BY DEF GroupOK
<1>2. tm \in [start : 0 .. MaxTime, stop : 0 .. MaxTime] /\ tm.start = grp.timer.start /\ tm.stop = now
  BY GroupFields
<1>3. rd \in Nat /\ rt \in Nat
  BY <1>2, GroupFields DEF timer_print
<1>4. rt = grp.runTime + IF now <= grp.timer.start THEN 0 ELSE now - grp.timer.start
  BY <1>2 DEF timer_print
<1>5. G = [A2 EXCEPT !.runTime = rt]
  BY DEF StopTimer
<1> HIDE DEF es, tm, rd, rt
<1>6. /\ A1 \in GroupRecord(es) /\ A1.state = grp.state /\ A1.events = grp.events
      /\ A1.runTime = grp.runTime /\ A1.rdtscTime = grp.rdtscTime /\ A1.timer = tm
      /\ A1.counters = grp.counters /\ A1.truth = grp.truth /\ A1.ran = grp.ran
      /\ A1.measured = grp.measured
  BY <1>1, <1>2, <1>3, <1>4 DEF GroupRecord
<1> HIDE DEF A1
<1>7. /\ A2 \in GroupRecord(es) /\ A2.state = grp.state /\ A2.events = grp.events
      /\ A2.runTime = grp.runTime /\ A2.rdtscTime = rd /\ A2.timer = tm /\ A2.counters = grp.counters
      /\ A2.truth = grp.truth /\ A2.ran = grp.ran /\ A2.measured = grp.measured
  BY <1>1, <1>6, <1>2, <1>3, <1>4 DEF GroupRecord
<1> HIDE DEF A2
<1>8. /\ G \in GroupRecord(es) /\ G.state = grp.state /\ G.events = grp.events /\ G.runTime = rt
      /\ G.rdtscTime = rd /\ G.timer = tm /\ G.counters = grp.counters /\ G.truth = grp.truth
      /\ G.ran = grp.ran /\ G.measured = grp.measured
  BY <1>1, <1>7, <1>5, <1>2, <1>3, <1>4 DEF GroupRecord
<1> QED BY <1>1, <1>8, <1>4 DEF GroupOK, es

\* Reading the counters of a group on some of the CPUs.
LEMMA ReadG ==
  ASSUME NEW grp, GroupOK(grp), NEW cpus, \A t \in Threads : CpuOK(cpus[t]), NEW ts, NEW G, G = ReadGroup(grp, cpus, ts)
  PROVE  /\ GroupOK(G) /\ G.state = grp.state /\ G.events = grp.events /\ G.runTime = grp.runTime
         /\ G.timer = grp.timer /\ G.truth = grp.truth /\ G.ran = grp.ran /\ G.measured = grp.measured
         /\ \A t \in Threads, c \in DOMAIN grp.events :
              G.counters[t][c] \in {SampledCounter(cpus[t], c, grp.counters[t][c], HaveLock(t)), grp.counters[t][c]}
<1> DEFINE es == grp.events
           tab == [t \in Threads |-> [c \in DOMAIN grp.events |->
                     IF t \in ts THEN SampledCounter(cpus[t], c, grp.counters[t][c], HaveLock(t)) ELSE grp.counters[t][c]]]
<1>1. es \in EventSets /\ grp \in GroupRecord(es) /\ grp.events = es
  BY DEF GroupOK
<1>2. ASSUME NEW t \in Threads, NEW c \in DOMAIN grp.events
      PROVE  /\ CounterOK(c, tab[t][c])
             /\ tab[t][c] \in {SampledCounter(cpus[t], c, grp.counters[t][c], HaveLock(t)), grp.counters[t][c]}
  <2>1. CounterOK(c, grp.counters[t][c]) /\ c \in Counters
    BY GroupFields
  <2> QED BY <2>1, SampleCounter
<1>3. tab \in [Threads -> [DOMAIN es -> PerfmonCounter]]
  BY <1>2 DEF CounterOK
<1>4. G = [grp EXCEPT !.counters = tab]
  BY DEF ReadGroup
<1> HIDE DEF es, tab
<1>5. /\ G \in GroupRecord(es) /\ G.state = grp.state /\ G.events = grp.events /\ G.runTime = grp.runTime
      /\ G.rdtscTime = grp.rdtscTime /\ G.timer = grp.timer /\ G.counters = tab /\ G.truth = grp.truth
      /\ G.ran = grp.ran /\ G.measured = grp.measured
  BY <1>1, <1>4, <1>3 DEF GroupRecord
<1> QED BY <1>1, <1>2, <1>5 DEF GroupOK, es

\* Marking the counters of one thread as not set up.
LEMMA ClearedG ==
  ASSUME NEW grp, GroupOK(grp), NEW t, NEW G, G = ClearedGroup(grp, t)
  PROVE  /\ GroupOK(G) /\ G.state = grp.state /\ G.events = grp.events /\ G.runTime = grp.runTime
         /\ G.timer = grp.timer /\ G.truth = grp.truth /\ G.ran = grp.ran /\ G.measured = grp.measured
         /\ \A u \in Threads, c \in DOMAIN grp.events :
              /\ ~grp.counters[u][c].init => ~G.counters[u][c].init
              /\ G.counters[u][c].overflows = grp.counters[u][c].overflows
              /\ G.counters[u][c].fullData = grp.counters[u][c].fullData
              /\ G.counters[u][c].startData = grp.counters[u][c].startData
              /\ G.counters[u][c].counterData = grp.counters[u][c].counterData
<1> DEFINE es == grp.events
           tab == [u \in Threads |-> [c \in DOMAIN grp.events |->
                     IF u = t THEN [grp.counters[u][c] EXCEPT !.init = FALSE] ELSE grp.counters[u][c]]]
<1>1. es \in EventSets /\ grp \in GroupRecord(es) /\ grp.events = es
  BY DEF GroupOK
<1>2. ASSUME NEW u \in Threads, NEW c \in DOMAIN grp.events
      PROVE  /\ CounterOK(c, tab[u][c]) /\ (~grp.counters[u][c].init => ~tab[u][c].init)
             /\ tab[u][c].overflows = grp.counters[u][c].overflows /\ tab[u][c].fullData = grp.counters[u][c].fullData
             /\ tab[u][c].startData = grp.counters[u][c].startData
             /\ tab[u][c].counterData = grp.counters[u][c].counterData
  <2> DEFINE r == grp.counters[u][c]
             s == [r EXCEPT !.init = FALSE]
  <2>1. CounterOK(c, r) /\ r \in PerfmonCounter /\ (tab[u][c] = s \/ tab[u][c] = r)
    BY GroupFields
  <2> HIDE DEF r, tab
  <2>2. s \in PerfmonCounter /\ ~s.init /\ s.overflows = r.overflows /\ s.startData = r.startData
        /\ s.counterData = r.counterData /\ s.fullData = r.fullData
    BY <2>1 DEF PerfmonCounter
  <2> HIDE DEF s
  <2> QED BY <2>1, <2>2 DEF CounterOK, r
<1>3. tab \in [Threads -> [DOMAIN es -> PerfmonCounter]]
  BY <1>2 DEF CounterOK
<1>4. G = [grp EXCEPT !.counters = tab]
  BY DEF ClearedGroup
<1> HIDE DEF es, tab
<1>5. /\ G \in GroupRecord(es) /\ G.state = grp.state /\ G.events = grp.events /\ G.runTime = grp.runTime
      /\ G.rdtscTime = grp.rdtscTime /\ G.timer = grp.timer /\ G.counters = tab /\ G.truth = grp.truth
      /\ G.ran = grp.ran /\ G.measured = grp.measured
  BY <1>1, <1>4, <1>3 DEF GroupRecord
<1> QED BY <1>1, <1>2, <1>5 DEF GroupOK, es

\* Asking for the result of one counter.
LEMMA EvaluatedG ==
  ASSUME NEW grp, GroupOK(grp), NEW t \in Threads, NEW c \in DOMAIN grp.events,
         NEW G, G = EvaluatedGroup(grp, t, c)
  PROVE  /\ GroupOK(G) /\ G.state = grp.state /\ G.events = grp.events /\ G.runTime = grp.runTime
         /\ G.timer = grp.timer /\ G.truth = grp.truth /\ G.ran = grp.ran /\ G.measured = grp.measured
         /\ \A u \in Threads, b \in DOMAIN grp.events :
              /\ G.counters[u][b] \in {grp.counters[u][b], AfterResult(grp.counters[u][b])}
              /\ grp.counters[u][b].overflows = 0 => G.counters[u][b] = grp.counters[u][b]
<1> DEFINE es == grp.events
           tab == [grp.counters EXCEPT ![t] = [grp.counters[t] EXCEPT ![c] = AfterResult(grp.counters[t][c])]]
<1>1. es \in EventSets /\ grp \in GroupRecord(es) /\ grp.events = es
  BY DEF GroupOK
<1>2. ASSUME NEW u \in Threads, NEW b \in DOMAIN grp.events
      PROVE  /\ CounterOK(b, tab[u][b]) /\ tab[u][b] \in {grp.counters[u][b], AfterResult(grp.counters[u][b])}
             /\ grp.counters[u][b].overflows = 0 => tab[u][b] = grp.counters[u][b]
  <2>1. CounterOK(b, grp.counters[u][b]) /\ grp.counters \in [Threads -> [DOMAIN grp.events -> PerfmonCounter]]
    BY <1>1, GroupFields DEF GroupRecord
  <2>2. tab[u][b] \in {grp.counters[u][b], AfterResult(grp.counters[u][b])}
    BY <2>1
  <2> HIDE DEF tab
  <2> QED BY <2>1, <2>2, ResultCounter
<1>3. tab \in [Threads -> [DOMAIN es -> PerfmonCounter]]
  <2>1. grp.counters \in [Threads -> [DOMAIN es -> PerfmonCounter]]
    BY <1>1 DEF GroupRecord
  <2>2. AfterResult(grp.counters[t][c]) \in PerfmonCounter
    BY GroupFields, ResultCounter DEF CounterOK
  <2> QED BY <2>1, <2>2
<1>4. G = [grp EXCEPT !.counters = tab]
  BY DEF EvaluatedGroup
<1> HIDE DEF es, tab
<1>5. /\ G \in GroupRecord(es) /\ G.state = grp.state /\ G.events = grp.events /\ G.runTime = grp.runTime
      /\ G.rdtscTime = grp.rdtscTime /\ G.timer = grp.timer /\ G.counters = tab /\ G.truth = grp.truth
      /\ G.ran = grp.ran /\ G.measured = grp.measured
  BY <1>1, <1>4, <1>3 DEF GroupRecord
<1> QED BY <1>1, <1>2, <1>5 DEF GroupOK, es

\* Stopping a group.
LEMMA StopG ==
  ASSUME NEW grp, GroupOK(grp), NEW cpus, \A t \in Threads : CpuOK(cpus[t]), now \in 0 .. MaxTime,
         NEW G, G = StopGroup(grp, cpus)
  PROVE  /\ GroupOK(G) /\ G.state = "SETUP" /\ G.events = grp.events /\ G.truth = grp.truth /\ G.ran = grp.ran /\ G.measured
         /\ G.runTime = grp.runTime + IF now <= grp.timer.start THEN 0 ELSE now - grp.timer.start
         /\ \A t \in Threads, c \in DOMAIN grp.events :
              G.counters[t][c] = Aggregated(c, StoppedCounter(cpus[t], c, grp.counters[t][c], HaveLock(t)))
<1> DEFINE es == grp.events
           B == StopTimer(grp)
           tab == [t \in Threads |-> [c \in DOMAIN grp.events |->
                     Aggregated(c, StoppedCounter(cpus[t], c, grp.counters[t][c], HaveLock(t)))]]
           A1 == [B EXCEPT !.counters = tab]
           A2 == [A1 EXCEPT !.state = "SETUP"]
<1>1. /\ GroupOK(B) /\ B.events = grp.events /\ B.truth = grp.truth /\ B.ran = grp.ran
      /\ B.runTime = grp.runTime + IF now <= grp.timer.start THEN 0 ELSE now - grp.timer.start
  BY StopTimerG
<1>2. es \in EventSets /\ B \in GroupRecord(es) /\ grp.events = es
  BY <1>1 DEF GroupOK
<1>3. ASSUME NEW t \in Threads, NEW c \in DOMAIN grp.events
      PROVE  /\ CounterOK(c, tab[t][c])
             /\ tab[t][c] = Aggregated(c, StoppedCounter(cpus[t], c, grp.counters[t][c], HaveLock(t)))
  <2>1. CounterOK(c, grp.counters[t][c]) /\ c \in Counters
    BY GroupFields
  <2> QED BY <2>1, StopCounter
<1>4. tab \in [Threads -> [DOMAIN es -> PerfmonCounter]]
  BY <1>3 DEF CounterOK
<1>5. G = [A2 EXCEPT !.measured = TRUE]
  BY DEF StopGroup
<1> HIDE DEF es, B, tab
<1>6. /\ A1 \in GroupRecord(es) /\ A1.events = B.events /\ A1.runTime = B.runTime /\ A1.counters = tab
      /\ A1.truth = B.truth /\ A1.ran = B.ran
  BY <1>2, <1>4 DEF GroupRecord
<1> HIDE DEF A1
<1>7. /\ A2 \in GroupRecord(es) /\ A2.events = B.events /\ A2.runTime = B.runTime /\ A2.counters = tab
      /\ A2.truth = B.truth /\ A2.ran = B.ran /\ A2.state = "SETUP"
  BY <1>6 DEF GroupRecord
<1> HIDE DEF A2
<1>8. /\ G \in GroupRecord(es) /\ G.events = B.events /\ G.runTime = B.runTime /\ G.counters = tab
      /\ G.truth = B.truth /\ G.ran = B.ran /\ G.state = "SETUP" /\ G.measured
  BY <1>5, <1>7 DEF GroupRecord
<1> QED BY <1>1, <1>2, <1>3, <1>8 DEF GroupOK, es

\* An event that a running group wants is noted in its history.
LEMMA WitnessG ==
  ASSUME NEW grp, GroupOK(grp), NEW hit, NEW e, NEW G, G = Witness(grp, hit, e)
  PROVE  /\ GroupOK(G) /\ G.state = grp.state /\ G.events = grp.events /\ G.runTime = grp.runTime /\ G.ran = grp.ran
         /\ G.timer = grp.timer /\ G.counters = grp.counters /\ G.measured = grp.measured
         /\ grp.state # "START" => G.truth = grp.truth
         /\ grp.state = "START" => \A u \in Threads, c \in DOMAIN grp.events :
              G.truth[u][c] = IF u \in hit /\ grp.events[c] = e /\ (c \in Power => HaveLock(u))
                              THEN grp.truth[u][c] + 1 ELSE grp.truth[u][c]
<1> DEFINE es == grp.events
           tr == [u \in Threads |-> [c \in DOMAIN grp.events |->
                    IF u \in hit /\ grp.events[c] = e /\ (c \in Power => HaveLock(u))
                    THEN grp.truth[u][c] + 1 ELSE grp.truth[u][c]]]
<1>1. es \in EventSets /\ grp \in GroupRecord(es) /\ grp.events = es
  BY DEF GroupOK
<1>2. CASE grp.state # "START"
  BY <1>2 DEF Witness
<1>3. CASE grp.state = "START"
  <2>1. G = [grp EXCEPT !.truth = tr]
    BY <1>3 DEF Witness
  <2>2. ASSUME NEW u \in Threads, NEW c \in DOMAIN grp.events
        PROVE  /\ tr[u][c] \in Nat
               /\ tr[u][c] = IF u \in hit /\ grp.events[c] = e /\ (c \in Power => HaveLock(u))
                             THEN grp.truth[u][c] + 1 ELSE grp.truth[u][c]
    BY GroupFields
  <2>3. tr \in [Threads -> [DOMAIN es -> Nat]]
    BY <2>2
  <2> HIDE DEF tr, es
  <2>4. /\ G \in GroupRecord(es) /\ G.state = grp.state /\ G.events = grp.events /\ G.runTime = grp.runTime
        /\ G.ran = grp.ran /\ G.timer = grp.timer /\ G.counters = grp.counters /\ G.measured = grp.measured /\ G.truth = tr
    BY <1>1, <2>1, <2>3 DEF GroupRecord
  <2> QED BY <1>1, <1>3, <2>2, <2>4 DEF GroupOK, es
<1> QED BY <1>2, <1>3

\* A tick is noted in the history of a running group.
LEMMA TimedG ==
  ASSUME NEW grp, GroupOK(grp), NEW G, G = Timed(grp)
  PROVE  /\ GroupOK(G) /\ G.state = grp.state /\ G.events = grp.events /\ G.runTime = grp.runTime
         /\ G.timer = grp.timer /\ G.counters = grp.counters /\ G.measured = grp.measured /\ G.truth = grp.truth
         /\ G.ran = IF grp.state = "START" THEN grp.ran + 1 ELSE grp.ran
<1> DEFINE es == grp.events
<1>1. es \in EventSets /\ grp \in GroupRecord(es) /\ grp.events = es /\ grp.ran \in Nat
  BY GroupFields DEF GroupOK
<1>2. CASE grp.state # "START"
  BY <1>2 DEF Timed
<1>3. CASE grp.state = "START"
  <2> DEFINE k == grp.ran + 1
  <2>1. G = [grp EXCEPT !.ran = k] /\ k \in Nat
    BY <1>1, <1>3 DEF Timed
  <2> HIDE DEF k, es
  <2>2. /\ G \in GroupRecord(es) /\ G.state = grp.state /\ G.events = grp.events /\ G.runTime = grp.runTime
        /\ G.timer = grp.timer /\ G.counters = grp.counters /\ G.measured = grp.measured /\ G.truth = grp.truth
        /\ G.ran = k
    BY <1>1, <2>1 DEF GroupRecord
  <2> QED BY <1>1, <1>3, <2>2 DEF GroupOK, es, k
<1> QED BY <1>2, <1>3

-----------------------------------------------------------------------------
(* The library state *)

\* The group set with one group replaced.
LEMMA PutGroup ==
  ASSUME NEW gs, SetOK(gs), NEW g \in 0 .. gs.numberOfActiveGroups - 1, NEW G, GroupOK(G), NEW hs, hs = WithGroup(gs, g, G)
  PROVE  /\ SetOK(hs) /\ hs.numberOfActiveGroups = gs.numberOfActiveGroups /\ hs.activeGroup = gs.activeGroup
         /\ hs.groups[g] = G
         /\ \A h \in 0 .. gs.numberOfActiveGroups - 1 : h # g => hs.groups[h] = gs.groups[h]
<1> DEFINE D == 0 .. gs.numberOfActiveGroups - 1
           F == [gs.groups EXCEPT ![g] = G]
<1>1. /\ gs \in [numberOfGroups : Nat, numberOfActiveGroups : 0 .. MaxGroups, activeGroup : Int, groups : {gs.groups}]
      /\ gs.groups = [h \in D |-> gs.groups[h]] /\ \A h \in D : GroupOK(gs.groups[h])
  BY DEF SetOK
<1>2. hs = [gs EXCEPT !.groups = F]
  BY DEF WithGroup
<1>3. F = [h \in D |-> F[h]] /\ F[g] = G /\ \A h \in D : h # g => F[h] = gs.groups[h]
  <2> HIDE DEF D
  <2>1. g \in D
    BY DEF D
  <2> QED BY <1>1, <2>1
<1> HIDE DEF F
<1>4. /\ hs \in [numberOfGroups : Nat, numberOfActiveGroups : 0 .. MaxGroups, activeGroup : Int, groups : {F}]
      /\ hs.groups = F /\ hs.numberOfActiveGroups = gs.numberOfActiveGroups /\ hs.activeGroup = gs.activeGroup
      /\ hs.numberOfGroups = gs.numberOfGroups
  BY <1>1, <1>2
<1>5. SetOK(hs)
  BY <1>1, <1>3, <1>4 DEF SetOK
<1> QED BY <1>3, <1>4, <1>5

\* The group set with another active group.
LEMMA PutActive ==
  ASSUME NEW gs, SetOK(gs), NEW g \in 0 .. gs.numberOfActiveGroups - 1, NEW hs, hs = [gs EXCEPT !.activeGroup = g]
  PROVE  /\ SetOK(hs) /\ hs.numberOfActiveGroups = gs.numberOfActiveGroups /\ hs.activeGroup = g /\ hs.groups = gs.groups
<1>1. gs \in [numberOfGroups : Nat, numberOfActiveGroups : 0 .. MaxGroups, activeGroup : Int, groups : {gs.groups}]
  BY DEF SetOK
<1>2. g \in Int /\ g \in -1 .. gs.numberOfActiveGroups - 1
  BY <1>1
<1>3. /\ hs \in [numberOfGroups : Nat, numberOfActiveGroups : 0 .. MaxGroups, activeGroup : Int, groups : {gs.groups}]
      /\ hs.groups = gs.groups /\ hs.numberOfActiveGroups = gs.numberOfActiveGroups /\ hs.activeGroup = g
      /\ hs.numberOfGroups = gs.numberOfGroups
  BY <1>1, <1>2
<1> QED BY <1>2, <1>3 DEF SetOK

\* What the operations have in common: group g is replaced by G with the same
\* events, and the CPUs change.
Replaced(x, y, g, G) ==
    /\ LibType(y) /\ y.gs.numberOfActiveGroups = x.gs.numberOfActiveGroups
    /\ Group(y, g) = G /\ \A h \in Added(x) : h # g => Group(y, h) = Group(x, h)

\* An operation that yields well-formed parts yields a well-formed state.
LEMMA ReplaceType ==
  ASSUME NEW x, LibType(x), NEW g \in Added(x), NEW G, GroupOK(G), NEW y, y.gs = WithGroup(x.gs, g, G),
         y.cpu = [t \in Threads |-> y.cpu[t]], \A t \in Threads : CpuOK(y.cpu[t])
  PROVE  Replaced(x, y, g, G) /\ y.gs.activeGroup = x.gs.activeGroup
<1>1. SetOK(x.gs) /\ g \in 0 .. x.gs.numberOfActiveGroups - 1
  BY DEF LibType, Added
<1>2. /\ SetOK(y.gs) /\ y.gs.numberOfActiveGroups = x.gs.numberOfActiveGroups /\ y.gs.activeGroup = x.gs.activeGroup
      /\ y.gs.groups[g] = G
      /\ \A h \in 0 .. x.gs.numberOfActiveGroups - 1 : h # g => y.gs.groups[h] = x.gs.groups[h]
  BY <1>1, PutGroup
<1> QED BY <1>2 DEF Replaced, LibType, Group, Added

\* Groups of a well-formed state.
LEMMA AddedGroup ==
  ASSUME NEW x, LibType(x), NEW g \in Added(x)
  PROVE  GroupOK(Group(x, g)) /\ Group(x, g).events \in EventSets
  BY DEF LibType, SetOK, Group, Added, GroupOK

\* The active group is -1 or an added one.
LEMMA ActiveAdded ==
  ASSUME NEW x, LibType(x)
  PROVE  /\ x.gs.activeGroup \in Int /\ (x.gs.activeGroup >= 0 => x.gs.activeGroup \in Added(x))
         /\ x.gs.numberOfActiveGroups \in Nat
  BY DEF LibType, SetOK, Added

\* Everything configured stays wanted by an added group.
LEMMA UsedStep ==
  ASSUME NEW x, UsedInv(x), NEW g \in Added(x), NEW y, NEW G, Replaced(x, y, g, G), G.events = Group(x, g).events,
         \A t \in Threads :
           /\ \A c \in Core : y.cpu[t].ctrl[c] # Off => x.cpu[t].ctrl[c] # Off \/ c \in DOMAIN G.events
           /\ y.cpu[t].enabled # {} => x.cpu[t].enabled # {} \/ UsesCore(G.events)
  PROVE  UsedInv(y)
<1>1. Added(y) = Added(x) /\ \A h \in Added(x) : Group(y, h).events = Group(x, h).events
  BY DEF Replaced, Added
<1>2. ASSUME NEW t \in Threads, NEW c \in Core, y.cpu[t].ctrl[c] # Off
      PROVE  \E h \in Added(x) : c \in DOMAIN Group(x, h).events
  BY <1>2 DEF UsedInv
<1>3. ASSUME NEW t \in Threads, y.cpu[t].enabled # {}
      PROVE  \E h \in Added(x) : UsesCore(Group(x, h).events)
  BY <1>3 DEF UsedInv
<1> QED BY <1>1, <1>2, <1>3 DEF UsedInv

\* Setting up configures the CPU for the event set, whatever it was
\* configured for before.
LEMMA SetupConfig ==
  ASSUME NEW q, CpuOK(q), NEW es \in EventSets, FixedAlike, CpuConfigured(q), NEW p, p = perfmon_setupCounterThread(q, es)
  PROVE  CpuConfigured(p) /\ GroupConfigured(p, es)
<1> DEFINE moved == \E f \in DOMAIN es \cap Fixed : q.currentConfig[f] # es[f]
<1>1. \A c \in Core : p.currentConfig[c] = IF c \in DOMAIN es THEN es[c] ELSE q.currentConfig[c]
  BY SetupCpu
<1>2. \A c \in Core : p.ctrl[c] = IF c \in DOMAIN es /\ q.currentConfig[c] # es[c] THEN es[c]
                                  ELSE IF c \in Fixed /\ moved THEN Off ELSE q.ctrl[c]
  BY SetupCpu
<1>3. Fixed \subseteq Core /\ \A c \in Core : q.ctrl[c] = q.currentConfig[c]
  BY DEF Core, CpuConfigured
<1>4. moved => \A c \in Fixed : q.ctrl[c] = Off
  BY <1>3 DEF CpuConfigured
<1> HIDE DEF moved
<1>5. \A c \in DOMAIN es : es[c] # Off
  BY EventSet
<1>6. ASSUME NEW c \in Core PROVE p.ctrl[c] = p.currentConfig[c]
  <2>1. CASE c \in DOMAIN es
    BY <1>1, <1>2, <1>3, <1>4, <1>5, <2>1
  <2>2. CASE c \notin DOMAIN es
    BY <1>1, <1>2, <1>3, <1>4, <2>2
  <2> QED BY <2>1, <2>2
<1>7. GroupConfigured(p, es)
  BY <1>1, <1>6 DEF GroupConfigured
<1>8. ASSUME NEW fs \in EventSets
      PROVE  (\A c \in DOMAIN fs \cap Fixed : p.ctrl[c] = fs[c]) \/ (\A c \in Fixed : p.ctrl[c] = Off)
  <2>1. CASE DOMAIN fs \cap Fixed = {}
    BY <2>1
  <2>2. CASE DOMAIN fs \cap Fixed # {} /\ DOMAIN es \cap Fixed = {}
    <3>1. ~moved /\ \A c \in Fixed : c \notin DOMAIN es
      BY <2>2 DEF moved
    <3>2. \A c \in Fixed : p.ctrl[c] = q.ctrl[c]
      BY <1>2, <1>3, <3>1
    <3>3. (\A c \in DOMAIN fs \cap Fixed : q.ctrl[c] = fs[c]) \/ (\A c \in Fixed : q.ctrl[c] = Off)
      BY DEF CpuConfigured
    <3> QED BY <3>2, <3>3
  <2>3. CASE DOMAIN fs \cap Fixed # {} /\ DOMAIN es \cap Fixed # {}
    <3>1. DOMAIN fs \cap Fixed = DOMAIN es \cap Fixed /\ \A c \in DOMAIN es \cap Fixed : es[c] = fs[c]
      BY <2>3 DEF FixedAlike
    <3> QED BY <1>3, <1>7, <3>1 DEF GroupConfigured
  <2> QED BY <2>1, <2>2, <2>3
<1> QED BY <1>6, <1>7, <1>8 DEF CpuConfigured

\* The configuration stays what it is when the control registers do.
LEMMA SameConfig ==
  ASSUME NEW x, LibType(x), ConfigInv(x), NEW y, NEW g \in Added(x), NEW G, Replaced(x, y, g, G), G.events = Group(x, g).events,
         y.gs.activeGroup = x.gs.activeGroup,
         \A t \in Threads : y.cpu[t].ctrl = x.cpu[t].ctrl /\ y.cpu[t].currentConfig = x.cpu[t].currentConfig
  PROVE  ConfigInv(y)
<1> SUFFICES ASSUME FixedAlike, NEW t \in Threads
             PROVE  /\ CpuConfigured(y.cpu[t])
                    /\ y.gs.activeGroup >= 0 => GroupConfigured(y.cpu[t], Group(y, y.gs.activeGroup).events)
  BY DEF ConfigInv
<1>1. x.gs.activeGroup >= 0 => Group(y, x.gs.activeGroup).events = Group(x, x.gs.activeGroup).events
  BY ActiveAdded DEF Replaced
<1>2. CpuConfigured(x.cpu[t]) /\ (x.gs.activeGroup >= 0 => GroupConfigured(x.cpu[t], Group(x, x.gs.activeGroup).events))
  BY DEF ConfigInv
<1>3. CpuConfigured(y.cpu[t])
  BY <1>2 DEF CpuConfigured
<1> QED BY <1>1, <1>2, <1>3 DEF GroupConfigured

\* The other groups keep what they have measured: no operation moves an energy
\* counter, and a fixed or programmable one is at most set back.
LEMMA CountStep ==
  ASSUME NEW x, LibType(x), NEW n \in Nat, CountInv(x, n), NEW g \in Added(x), NEW G, NEW y, Replaced(x, y, g, G),
         \A t \in Threads : /\ y.cpu[t].status \subseteq x.cpu[t].status
                            /\ \A c \in Counters : \/ y.cpu[t].count[c] = x.cpu[t].count[c]
                                                   \/ c \notin Power /\ y.cpu[t].count[c] = 0,
         FixedAlike /\ NoWrap /\ ~Restarts =>
            /\ GroupSane(G, y.cpu) /\ GroupDone(G, n)
            /\ y.gs.activeGroup >= 0 => GroupRuns(Group(y, y.gs.activeGroup), y.cpu)
  PROVE  CountInv(y, n)
<1> SUFFICES ASSUME FixedAlike, NoWrap, ~Restarts
             PROVE  /\ \A t \in Threads : CpuCounts(y.cpu[t], n)
                    /\ \A h \in Added(y) : GroupSane(Group(y, h), y.cpu) /\ GroupDone(Group(y, h), n)
                    /\ y.gs.activeGroup >= 0 => GroupRuns(Group(y, y.gs.activeGroup), y.cpu)
  BY DEF CountInv
<1>1. /\ \A t \in Threads : CpuCounts(x.cpu[t], n)
      /\ \A h \in Added(x) : GroupSane(Group(x, h), x.cpu) /\ GroupDone(Group(x, h), n)
  BY DEF CountInv
<1>2. ASSUME NEW t \in Threads PROVE CpuCounts(y.cpu[t], n)
  <2>1. x.cpu[t].status = {} /\ \A c \in Counters : x.cpu[t].count[c] <= n
    BY <1>1 DEF CpuCounts
  <2>2. y.cpu[t].status = {}
    BY <2>1
  <2>3. \A c \in Counters : y.cpu[t].count[c] <= n
    BY <2>1
  <2> QED BY <2>2, <2>3 DEF CpuCounts
<1>3. Added(y) = Added(x)
  BY DEF Replaced, Added
<1>4. ASSUME NEW h \in Added(x), h # g PROVE GroupSane(Group(y, h), y.cpu) /\ GroupDone(Group(y, h), n)
  <2>1. Group(y, h) = Group(x, h) /\ GroupSane(Group(x, h), x.cpu) /\ GroupDone(Group(x, h), n)
    BY <1>1, <1>4 DEF Replaced
  <2> DEFINE grp == Group(x, h)
  <2>2. ASSUME NEW t \in Threads, NEW c \in DOMAIN grp.events
        PROVE  CounterSane(y.cpu[t], c, grp.counters[t][c], HaveLock(t))
    <3>1. CounterSane(x.cpu[t], c, grp.counters[t][c], HaveLock(t))
      BY <2>1 DEF GroupSane
    <3>2. c \in Counters
      BY AddedGroup, GroupFields
    <3>3. c \in Power => y.cpu[t].count[c] = x.cpu[t].count[c]
      BY <3>2
    <3> QED BY <3>1, <3>3 DEF CounterSane
  <2> QED BY <2>1, <2>2 DEF GroupSane
<1>5. Group(y, g) = G
  BY DEF Replaced
<1> QED BY <1>2, <1>3, <1>4, <1>5

\* Setup: the group becomes the active one, on CPUs configured for it.
LEMMA SetupLib ==
  ASSUME NEW x, NEW n \in Nat, LibInv(x, n), NEW g \in Added(x), NEW y, y = Setup(x, g)
  PROVE  /\ LibInv(y, n) /\ y.gs.activeGroup = g /\ y.gs.numberOfActiveGroups = x.gs.numberOfActiveGroups
         /\ Group(y, g) = SetupGroup(Group(x, g)) /\ \A h \in Added(x) : h # g => Group(y, h) = Group(x, h)
<1> DEFINE grp == Group(x, g)
           G == SetupGroup(grp)
           es == grp.events
           hs == WithGroup(x.gs, g, G)
<1>1. LibType(x) /\ UsedInv(x) /\ ConfigInv(x) /\ CountInv(x, n)
  BY DEF LibInv
<1>2. GroupOK(grp) /\ es \in EventSets /\ SetOK(x.gs) /\ g \in 0 .. x.gs.numberOfActiveGroups - 1
  BY <1>1, AddedGroup DEF LibType, Added
<1>3. /\ GroupOK(G) /\ G.state = "SETUP" /\ G.events = es /\ ~G.measured
      /\ \A t \in Threads, c \in DOMAIN es :
           /\ G.counters[t][c].overflows = grp.counters[t][c].overflows
           /\ G.counters[t][c].startData = grp.counters[t][c].startData
           /\ G.counters[t][c].counterData = grp.counters[t][c].counterData
  BY <1>2, SetupG
<1>4. y.gs = [hs EXCEPT !.activeGroup = g] /\ y.cpu = [t \in Threads |-> perfmon_setupCounterThread(x.cpu[t], es)]
  BY DEF Setup
<1> HIDE DEF G, hs
<1>5. /\ SetOK(hs) /\ hs.numberOfActiveGroups = x.gs.numberOfActiveGroups /\ hs.groups[g] = G
      /\ \A h \in 0 .. x.gs.numberOfActiveGroups - 1 : h # g => hs.groups[h] = x.gs.groups[h]
  BY <1>2, <1>3, PutGroup DEF hs
<1>6. /\ SetOK(y.gs) /\ y.gs.numberOfActiveGroups = x.gs.numberOfActiveGroups /\ y.gs.activeGroup = g
      /\ y.gs.groups = hs.groups
  BY <1>2, <1>4, <1>5, PutActive
<1>7. ASSUME NEW t \in Threads
      PROVE  /\ CpuOK(x.cpu[t]) /\ y.cpu[t] = perfmon_setupCounterThread(x.cpu[t], es)
             /\ CpuOK(y.cpu[t]) /\ y.cpu[t].count = x.cpu[t].count /\ y.cpu[t].status \subseteq x.cpu[t].status
             /\ y.cpu[t].enabled # {} => x.cpu[t].enabled # {}
             /\ \A c \in Core : y.cpu[t].ctrl[c] # Off => x.cpu[t].ctrl[c] # Off \/ c \in DOMAIN es
  <2>1. CpuOK(x.cpu[t]) /\ y.cpu[t] = perfmon_setupCounterThread(x.cpu[t], es)
    BY <1>1, <1>4 DEF LibType
  <2>2. /\ CpuOK(y.cpu[t]) /\ y.cpu[t].count = x.cpu[t].count /\ y.cpu[t].status \subseteq x.cpu[t].status
        /\ y.cpu[t].enabled = IF UsesCore(es) THEN {} ELSE x.cpu[t].enabled
    BY <1>2, <2>1, SetupCpu
  <2>3. \A c \in Core : y.cpu[t].ctrl[c] =
              IF c \in DOMAIN es /\ x.cpu[t].currentConfig[c] # es[c] THEN es[c]
              ELSE IF c \in Fixed /\ \E f \in DOMAIN es \cap Fixed : x.cpu[t].currentConfig[f] # es[f] THEN Off
              ELSE x.cpu[t].ctrl[c]
    BY <1>2, <2>1, SetupCpu
  <2>4. \A c \in Core : y.cpu[t].ctrl[c] # Off => x.cpu[t].ctrl[c] # Off \/ c \in DOMAIN es
    BY <2>3
  <2> QED BY <2>1, <2>2, <2>4
<1>8. y.cpu = [t \in Threads |-> y.cpu[t]]
  BY <1>4
<1>9. Replaced(x, y, g, G)
  BY <1>5, <1>6, <1>7, <1>8 DEF Replaced, LibType, Group, Added
<1>10. UsedInv(y)
  BY <1>1, <1>3, <1>7, <1>9, UsedStep
<1>11. ConfigInv(y)
  <2> SUFFICES ASSUME FixedAlike, NEW t \in Threads
               PROVE  CpuConfigured(y.cpu[t]) /\ GroupConfigured(y.cpu[t], es)
    BY <1>3, <1>6, <1>9 DEF ConfigInv, Replaced
  <2>1. CpuConfigured(x.cpu[t])
    BY <1>1 DEF ConfigInv
  <2> QED BY <1>2, <1>7, <2>1, SetupConfig
<1>12. CountInv(y, n)
  <2>1. ASSUME FixedAlike, NoWrap, ~Restarts PROVE GroupSane(G, y.cpu)
    <3>1. GroupSane(grp, x.cpu)
      BY <1>1, <2>1 DEF CountInv
    <3>2. ASSUME NEW t \in Threads, NEW c \in DOMAIN es
          PROVE  CounterSane(y.cpu[t], c, G.counters[t][c], HaveLock(t))
      <4>1. CounterSane(x.cpu[t], c, grp.counters[t][c], HaveLock(t))
        BY <3>1 DEF GroupSane
      <4> QED BY <1>3, <1>7, <4>1 DEF CounterSane
    <3> QED BY <1>3, <3>2 DEF GroupSane
  <2>2. GroupDone(G, n) /\ GroupRuns(G, y.cpu)
    BY <1>3 DEF GroupDone, GroupRuns
  <2>3. Group(y, y.gs.activeGroup) = G
    BY <1>6, <1>9 DEF Replaced
  <2> HIDE DEF grp, es
  <2> QED BY <1>1, <1>7, <1>9, <2>1, <2>2, <2>3, CountStep
<1> QED BY <1>6, <1>9, <1>10, <1>11, <1>12 DEF LibInv, Replaced, G

\* The operations that leave the configuration and the active group alone:
\* what they do to the CPUs, and to what group g has counted.
KeepsConfig(x, y, es) ==
    /\ y.cpu = [t \in Threads |-> y.cpu[t]]
    /\ \A t \in Threads :
         /\ CpuOK(y.cpu[t]) /\ y.cpu[t].ctrl = x.cpu[t].ctrl /\ y.cpu[t].currentConfig = x.cpu[t].currentConfig
         /\ y.cpu[t].status \subseteq x.cpu[t].status
         /\ y.cpu[t].enabled # {} => x.cpu[t].enabled # {} \/ UsesCore(es)
         /\ \A c \in Counters : \/ y.cpu[t].count[c] = x.cpu[t].count[c]
                                \/ c \notin Power /\ y.cpu[t].count[c] = 0
KeepsCounts(x, y, g, G, n) ==
    /\ FixedAlike /\ NoWrap /\ ~Restarts =>
         GroupSane(G, y.cpu) /\ GroupDone(G, n) /\ (x.gs.activeGroup = g => GroupRuns(G, y.cpu))
    /\ x.gs.activeGroup # g => \A t \in Threads : y.cpu[t].enabled = x.cpu[t].enabled /\ y.cpu[t].count = x.cpu[t].count

\* They preserve the invariant.
LEMMA KeepLib ==
  ASSUME NEW x, NEW n \in Nat, LibInv(x, n), NEW g \in Added(x), NEW G, GroupOK(G), G.events = Group(x, g).events,
         NEW y, y.gs = WithGroup(x.gs, g, G), KeepsConfig(x, y, G.events), KeepsCounts(x, y, g, G, n)
  PROVE  LibInv(y, n) /\ Replaced(x, y, g, G) /\ y.gs.activeGroup = x.gs.activeGroup
<1>1. LibType(x) /\ UsedInv(x) /\ ConfigInv(x) /\ CountInv(x, n)
  BY DEF LibInv
<1>2. Replaced(x, y, g, G) /\ y.gs.activeGroup = x.gs.activeGroup
  BY <1>1, ReplaceType DEF KeepsConfig
<1>3. UsedInv(y)
  BY <1>1, <1>2, UsedStep, SMTT(30) DEF KeepsConfig
<1>4. ConfigInv(y)
  BY <1>1, <1>2, SameConfig DEF KeepsConfig
<1>5. ASSUME FixedAlike, NoWrap, ~Restarts, y.gs.activeGroup >= 0
      PROVE  GroupRuns(Group(y, y.gs.activeGroup), y.cpu)
  <2>1. CASE x.gs.activeGroup = g
    BY <1>2, <1>5, <2>1 DEF Replaced, KeepsCounts
  <2>2. CASE x.gs.activeGroup # g
    <3> DEFINE a == x.gs.activeGroup
               grp == Group(x, a)
    <3>1. a \in Added(x) /\ Group(y, a) = grp
      BY <1>1, <1>2, <1>5, <2>2, ActiveAdded DEF Replaced
    <3>2. GroupRuns(grp, x.cpu) /\ GroupOK(grp)
      BY <1>1, <1>2, <1>5, <3>1, AddedGroup DEF CountInv
    <3>3. ASSUME NEW t \in Threads, NEW c \in DOMAIN grp.events, grp.state = "START"
          PROVE  CounterRuns(y.cpu[t], c, grp.counters[t][c], HaveLock(t), grp.truth[t][c])
      <4>1. CounterRuns(x.cpu[t], c, grp.counters[t][c], HaveLock(t), grp.truth[t][c])
        BY <3>2, <3>3 DEF GroupRuns
      <4> QED BY <2>2, <4>1 DEF CounterRuns, KeepsCounts
    <3> QED BY <1>2, <3>1, <3>3 DEF GroupRuns
  <2> QED BY <2>1, <2>2
<1>6. CountInv(y, n)
  BY <1>1, <1>2, <1>5, CountStep DEF KeepsConfig, KeepsCounts
<1> QED BY <1>2, <1>3, <1>4, <1>6 DEF LibInv, Replaced

\* Start: the counters of the active group begin at zero, or where the energy
\* counters are.
LEMMA StartLib ==
  ASSUME NEW x, NEW n \in Nat, LibInv(x, n), now \in 0 .. MaxTime, NEW g \in Added(x), x.gs.activeGroup = g,
         ~Restarts => \A t \in Threads : \A c \in DOMAIN Group(x, g).events : Group(x, g).counters[t][c].init,
         NEW y, y = Start(x, g)
  PROVE  LibInv(y, n) /\ Replaced(x, y, g, StartGroup(Group(x, g), x.cpu)) /\ y.gs.activeGroup = x.gs.activeGroup
<1> DEFINE grp == Group(x, g)
           G == StartGroup(grp, x.cpu)
           es == grp.events
<1>1. LibType(x) /\ CountInv(x, n)
  BY DEF LibInv
<1>2. GroupOK(grp) /\ es \in EventSets /\ \A t \in Threads : CpuOK(x.cpu[t])
  BY <1>1, AddedGroup DEF LibType
<1>3. /\ GroupOK(G) /\ G.state = "START" /\ G.events = es /\ ~G.measured
      /\ \A t \in Threads, c \in DOMAIN es :
           G.truth[t][c] = 0 /\ G.counters[t][c] = StartedCounter(x.cpu[t], c, grp.counters[t][c], HaveLock(t))
  BY <1>2, StartG
<1>4. /\ y.gs = WithGroup(x.gs, g, G)
      /\ y.cpu = [t \in Threads |-> perfmon_startCountersThread(x.cpu[t], es, grp.counters[t])]
  BY DEF Start
<1> HIDE DEF G
<1>5. ASSUME NEW t \in Threads
      PROVE  /\ CpuOK(y.cpu[t]) /\ y.cpu[t].ctrl = x.cpu[t].ctrl /\ y.cpu[t].currentConfig = x.cpu[t].currentConfig
             /\ y.cpu[t].status \subseteq x.cpu[t].status /\ (y.cpu[t].enabled # {} => x.cpu[t].enabled # {} \/ UsesCore(es))
             /\ \A c \in Counters : y.cpu[t].count[c] = IF c \in DOMAIN es \cap Core /\ grp.counters[t][c].init THEN 0
                                                        ELSE x.cpu[t].count[c]
             /\ \A c \in DOMAIN es \cap Core : grp.counters[t][c].init => c \in y.cpu[t].enabled
  <2>1. CpuOK(x.cpu[t]) /\ y.cpu[t] = perfmon_startCountersThread(x.cpu[t], es, grp.counters[t])
    BY <1>2, <1>4
  <2> DEFINE cs == grp.counters[t]
  <2>2. y.cpu[t] = perfmon_startCountersThread(x.cpu[t], es, cs)
    BY <2>1
  <2> HIDE DEF cs, es, grp
  <2>3. /\ CpuOK(y.cpu[t]) /\ y.cpu[t].ctrl = x.cpu[t].ctrl /\ y.cpu[t].currentConfig = x.cpu[t].currentConfig
        /\ y.cpu[t].status \subseteq x.cpu[t].status /\ (y.cpu[t].enabled # {} => x.cpu[t].enabled # {} \/ UsesCore(es))
        /\ \A c \in Counters : y.cpu[t].count[c] = IF c \in DOMAIN es \cap Core /\ cs[c].init THEN 0
                                                   ELSE x.cpu[t].count[c]
        /\ \A c \in DOMAIN es \cap Core : cs[c].init => c \in y.cpu[t].enabled
    BY <1>2, <2>1, <2>2, StartCpu
  <2> QED BY <2>3 DEF cs
<1>6. ASSUME FixedAlike, NoWrap, ~Restarts, NEW t \in Threads, NEW c \in DOMAIN es
      PROVE  /\ CounterSane(y.cpu[t], c, G.counters[t][c], HaveLock(t))
             /\ CounterRuns(y.cpu[t], c, G.counters[t][c], HaveLock(t), G.truth[t][c])
  <2> DEFINE r == grp.counters[t][c]
             s == G.counters[t][c]
  <2>1. CounterOK(c, r) /\ c \in Counters /\ r.init /\ s = StartedCounter(x.cpu[t], c, r, HaveLock(t)) /\ G.truth[t][c] = 0
    BY <1>2, <1>3, <1>6, GroupFields
  <2>2. CounterSane(x.cpu[t], c, r, HaveLock(t))
    BY <1>1, <1>6 DEF CountInv, GroupSane
  <2>3. /\ s.overflows = r.overflows /\ s.init /\ s.counterData = 0 /\ s.fullData = 0
        /\ s.startData = IF c \in Power /\ HaveLock(t) THEN x.cpu[t].count[c] ELSE 0
    BY <1>2, <2>1, StartCounter
  <2>4. x.cpu[t].count[c] \in Nat
    BY <1>2, <2>1 DEF CpuOK, Cpu
  <2>5. c \in Power => y.cpu[t].count[c] = x.cpu[t].count[c]
    BY <1>5, <2>1, CountersAssumption
  <2>6. c \in Core => c \notin Power /\ y.cpu[t].count[c] = 0 /\ c \in y.cpu[t].enabled
    BY <1>5, <2>1, CountersAssumption
  <2> HIDE DEF r, s
  <2>7. CounterSane(y.cpu[t], c, s, HaveLock(t))
    BY <2>2, <2>3, <2>4, <2>5 DEF CounterSane
  <2>8. CounterRuns(y.cpu[t], c, s, HaveLock(t), 0)
    BY <2>3, <2>4, <2>5, <2>6 DEF CounterRuns
  <2> QED BY <2>1, <2>7, <2>8 DEF s
<1>7. FixedAlike /\ NoWrap /\ ~Restarts => GroupSane(G, y.cpu) /\ GroupDone(G, n) /\ (x.gs.activeGroup = g => GroupRuns(G, y.cpu))
  BY <1>3, <1>6 DEF GroupSane, GroupDone, GroupRuns
<1>8. KeepsConfig(x, y, G.events)
  <2>1. \A t \in Threads : \A c \in Counters : y.cpu[t].count[c] = x.cpu[t].count[c] \/ (c \notin Power /\ y.cpu[t].count[c] = 0)
    BY <1>5, CountersAssumption
  <2>2. y.cpu = [t \in Threads |-> y.cpu[t]]
    BY <1>4
  <2> QED BY <1>3, <1>5, <2>1, <2>2 DEF KeepsConfig
<1>9. KeepsCounts(x, y, g, G, n)
  BY <1>7 DEF KeepsCounts
<1>10. LibInv(y, n) /\ Replaced(x, y, g, G) /\ y.gs.activeGroup = x.gs.activeGroup
  BY <1>3, <1>4, <1>8, <1>9, KeepLib
<1> QED BY <1>10 DEF G

\* Stop: the result of the running group is the number of events it has seen.
LEMMA StopLib ==
  ASSUME NEW x, NEW n \in 0 .. MaxEvents, LibInv(x, n), now \in 0 .. MaxTime, NEW g \in Added(x), x.gs.activeGroup = g,
         Group(x, g).state = "START", NEW y, y = Stop(x, g)
  PROVE  LibInv(y, n) /\ Replaced(x, y, g, StopGroup(Group(x, g), x.cpu)) /\ y.gs.activeGroup = x.gs.activeGroup
<1> DEFINE grp == Group(x, g)
           G == StopGroup(grp, x.cpu)
           es == grp.events
<1>0. n \in Nat /\ n <= MaxEvents /\ MaxEvents \in Nat
  BY PerfmonBoundsAssumption
<1>1. LibType(x) /\ CountInv(x, n)
  BY DEF LibInv
<1>2. GroupOK(grp) /\ es \in EventSets /\ \A t \in Threads : CpuOK(x.cpu[t])
  BY <1>1, AddedGroup DEF LibType
<1>3. /\ GroupOK(G) /\ G.state = "SETUP" /\ G.events = es /\ G.truth = grp.truth
      /\ \A t \in Threads, c \in DOMAIN es :
           G.counters[t][c] = Aggregated(c, StoppedCounter(x.cpu[t], c, grp.counters[t][c], HaveLock(t)))
  BY <1>2, StopG
<1>4. /\ y.gs = WithGroup(x.gs, g, G)
      /\ y.cpu = [t \in Threads |-> perfmon_stopCountersThread(x.cpu[t], es, grp.counters[t])]
  BY DEF Stop
<1> HIDE DEF G
<1>5. ASSUME NEW t \in Threads
      PROVE  /\ CpuOK(y.cpu[t]) /\ y.cpu[t].ctrl = x.cpu[t].ctrl /\ y.cpu[t].currentConfig = x.cpu[t].currentConfig
             /\ y.cpu[t].status \subseteq x.cpu[t].status /\ y.cpu[t].enabled \in {{}, x.cpu[t].enabled}
             /\ y.cpu[t].count = x.cpu[t].count
  <2> DEFINE cs == grp.counters[t]
  <2>1. CpuOK(x.cpu[t]) /\ y.cpu[t] = perfmon_stopCountersThread(x.cpu[t], es, cs)
    BY <1>2, <1>4
  <2> HIDE DEF cs, es, grp
  <2> QED BY <2>1, StopCpu
<1>6. ASSUME FixedAlike, NoWrap, ~Restarts, NEW t \in Threads, NEW c \in DOMAIN es
      PROVE  /\ CounterSane(y.cpu[t], c, G.counters[t][c], HaveLock(t))
             /\ CounterDone(G.counters[t][c], n, G.truth[t][c])
  <2> DEFINE r == grp.counters[t][c]
             s == G.counters[t][c]
             q == x.cpu[t]
             u == SampledCounter(q, c, r, HaveLock(t))
             k == grp.truth[t][c]
  <2>1. CounterOK(c, r) /\ c \in Counters /\ s = Aggregated(c, StoppedCounter(q, c, r, HaveLock(t))) /\ G.truth[t][c] = k /\ k \in Nat
    BY <1>2, <1>3, GroupFields
  <2>2. CounterSane(q, c, r, HaveLock(t)) /\ CounterRuns(q, c, r, HaveLock(t), k)
    <3>1. GroupSane(grp, x.cpu) /\ GroupRuns(grp, x.cpu) /\ grp.state = "START"
      BY <1>1, <1>6, ActiveAdded DEF CountInv, Added
    <3> QED BY <3>1 DEF GroupSane, GroupRuns
  <2>3. CpuOK(q) /\ q.status = {} /\ q.count[c] \in Nat /\ q.count[c] <= n /\ r.startData \in Nat /\ r.counterData \in Nat
    BY <1>1, <1>2, <1>6, <2>1 DEF CountInv, CpuCounts, CpuOK, Cpu, CounterOK, PerfmonCounter
  <2> HIDE DEF r, s, k, q, u
  <2>4. /\ ~s.init /\ s.startData = r.startData /\ s.counterData = u.counterData
        /\ u.overflows = 0 => s.overflows = 0 /\ s.fullData = r.fullData + ((u.counterData - r.startData) % Word)
    BY <2>1, <2>3, StopCounter DEF u
  <2>5. /\ (c \in Power /\ ~HaveLock(t)) => u = r
        /\ (c \in Power => HaveLock(t)) => u.counterData = q.count[c]
        /\ ~(q.count[c] < r.counterData /\ (c \in Power \/ c \in q.status)) => u.overflows = r.overflows
    <3>1. r.init
      BY <2>2 DEF CounterRuns
    <3> QED BY <2>1, <2>3, <3>1, SampleCounter DEF u
  <2>6. u.overflows = 0
    <3>1. ~(q.count[c] < r.counterData /\ (c \in Power \/ c \in q.status))
      BY <2>2, <2>3 DEF CounterSane
    <3> QED BY <2>2, <2>5, <3>1 DEF CounterSane
  <2>7. u.counterData = r.startData + k /\ k <= n
    <3>1. CASE c \in Power /\ ~HaveLock(t)
      BY <1>0, <2>1, <2>2, <2>5, <3>1 DEF CounterSane, CounterRuns
    <3>2. CASE c \in Power /\ HaveLock(t)
      BY <1>0, <2>1, <2>2, <2>3, <2>5, <3>2 DEF CounterRuns
    <3>3. CASE c \notin Power
      <4>1. c \in Core
        BY <2>1, <3>3 DEF Counters
      <4> QED BY <1>0, <2>1, <2>2, <2>3, <2>5, <3>3, <4>1 DEF CounterRuns
    <3> QED BY <3>1, <3>2, <3>3
  <2>8. k % Word = k
    <3>1. Word \in Nat /\ CoreSize <= Word
      <4>1. 1 \in Nat /\ 1 <= PowerSize /\ CoreSize \in Nat /\ PowerSize \in Nat
        BY SizeAssumption
      <4>2. CoreSize * PowerSize \in Nat /\ CoreSize * 1 <= CoreSize * PowerSize
        BY <4>1, MulMono
      <4> QED BY <4>1, <4>2 DEF Word
    <3>2. k < Word
      BY <1>0, <1>6, <2>1, <2>7, <3>1, SizeAssumption DEF NoWrap
    <3> QED BY <2>1, <3>1, <3>2, SmallMod
  <2>9. s.fullData = k /\ s.overflows = 0
    <3>1. u.counterData - r.startData = k /\ r.fullData = 0
      BY <2>1, <2>2, <2>3, <2>7 DEF CounterRuns
    <3> QED BY <2>1, <2>4, <2>6, <2>8, <3>1
  <2>10. CounterDone(s, n, k)
    BY <2>4, <2>7, <2>9 DEF CounterDone
  <2>11. c \in Power => s.counterData <= q.count[c]
    <3>1. CASE c \in Power /\ HaveLock(t)
      BY <2>3, <2>4, <2>5, <3>1
    <3>2. CASE c \in Power /\ ~HaveLock(t)
      BY <2>2, <2>4, <2>5, <3>2 DEF CounterSane
    <3> QED BY <3>1, <3>2
  <2>12. c \in Power /\ ~HaveLock(t) => s.startData = 0 /\ s.counterData = 0
    BY <2>2, <2>4, <2>5 DEF CounterSane
  <2>13. CounterSane(y.cpu[t], c, s, HaveLock(t))
    BY <1>5, <2>9, <2>11, <2>12 DEF CounterSane, q
  <2> QED BY <2>1, <2>10, <2>13 DEF s
<1>7. KeepsCounts(x, y, g, G, n)
  BY <1>3, <1>6 DEF GroupSane, GroupDone, GroupRuns, KeepsCounts
<1>8. KeepsConfig(x, y, G.events)
  BY <1>4, <1>5 DEF KeepsConfig
<1>9. LibInv(y, n) /\ Replaced(x, y, g, G) /\ y.gs.activeGroup = x.gs.activeGroup
  BY <1>0, <1>3, <1>4, <1>7, <1>8, KeepLib
<1> QED BY <1>9 DEF G

\* Read: nothing but the last value read of a counter changes.
LEMMA ReadLib ==
  ASSUME NEW x, NEW n \in Nat, LibInv(x, n), NEW g \in Added(x), NEW ts, NEW y, y = Read(x, g, ts)
  PROVE  LibInv(y, n) /\ Replaced(x, y, g, ReadGroup(Group(x, g), x.cpu, ts)) /\ y.gs.activeGroup = x.gs.activeGroup
<1> DEFINE grp == Group(x, g)
           G == ReadGroup(grp, x.cpu, ts)
           es == grp.events
<1>1. LibType(x) /\ CountInv(x, n)
  BY DEF LibInv
<1>2. GroupOK(grp) /\ es \in EventSets /\ \A t \in Threads : CpuOK(x.cpu[t])
  BY <1>1, AddedGroup DEF LibType
<1>3. /\ GroupOK(G) /\ G.state = grp.state /\ G.events = es /\ G.truth = grp.truth /\ G.measured = grp.measured
      /\ \A t \in Threads, c \in DOMAIN es :
           G.counters[t][c] \in {SampledCounter(x.cpu[t], c, grp.counters[t][c], HaveLock(t)), grp.counters[t][c]}
  BY <1>2, ReadG
<1>4. /\ y.gs = WithGroup(x.gs, g, G)
      /\ y.cpu = [t \in Threads |-> IF t \in ts THEN perfmon_readCountersThread(x.cpu[t], es, grp.counters[t]) ELSE x.cpu[t]]
  BY DEF Read
<1> HIDE DEF G
<1>5. ASSUME NEW t \in Threads
      PROVE  /\ CpuOK(y.cpu[t]) /\ y.cpu[t].ctrl = x.cpu[t].ctrl /\ y.cpu[t].currentConfig = x.cpu[t].currentConfig
             /\ y.cpu[t].status \subseteq x.cpu[t].status /\ y.cpu[t].enabled = x.cpu[t].enabled
             /\ y.cpu[t].count = x.cpu[t].count
  <2> DEFINE cs == grp.counters[t]
  <2>1. CpuOK(x.cpu[t]) /\ (y.cpu[t] = x.cpu[t] \/ y.cpu[t] = perfmon_readCountersThread(x.cpu[t], es, cs))
    BY <1>2, <1>4
  <2> HIDE DEF cs, es, grp
  <2> QED BY <2>1, ReadsCpu
<1>6. ASSUME FixedAlike, NoWrap, ~Restarts, NEW t \in Threads, NEW c \in DOMAIN es
      PROVE  /\ CounterSane(y.cpu[t], c, G.counters[t][c], HaveLock(t))
             /\ grp.measured => CounterDone(G.counters[t][c], n, G.truth[t][c])
             /\ grp.state = "START" /\ x.gs.activeGroup = g =>
                  CounterRuns(y.cpu[t], c, G.counters[t][c], HaveLock(t), G.truth[t][c])
  <2> DEFINE r == grp.counters[t][c]
             s == G.counters[t][c]
             q == x.cpu[t]
             u == SampledCounter(q, c, r, HaveLock(t))
             k == grp.truth[t][c]
  <2>1. CounterOK(c, r) /\ c \in Counters /\ s \in {u, r} /\ G.truth[t][c] = k /\ k \in Nat
    BY <1>2, <1>3, GroupFields
  <2>2. /\ CounterSane(q, c, r, HaveLock(t)) /\ (grp.measured => CounterDone(r, n, k))
        /\ grp.state = "START" /\ x.gs.activeGroup = g => CounterRuns(q, c, r, HaveLock(t), k)
    <3>1. GroupSane(grp, x.cpu) /\ GroupDone(grp, n)
      BY <1>1, <1>6 DEF CountInv
    <3>2. x.gs.activeGroup = g => GroupRuns(grp, x.cpu)
      BY <1>1, <1>6, ActiveAdded DEF CountInv, Added
    <3> QED BY <3>1, <3>2 DEF GroupSane, GroupDone, GroupRuns
  <2>3. CpuOK(q) /\ q.status = {} /\ q.count[c] \in Nat /\ r.counterData \in Nat
    BY <1>1, <1>2, <1>6, <2>1 DEF CountInv, CpuCounts, CpuOK, Cpu, CounterOK, PerfmonCounter
  <2>4. q.count = y.cpu[t].count /\ q.enabled = y.cpu[t].enabled
    BY <1>5
  <2> HIDE DEF r, s, k, q, u
  <2>5. /\ u.init = r.init /\ u.startData = r.startData /\ u.fullData = r.fullData
        /\ ~r.init \/ (c \in Power /\ ~HaveLock(t)) => u = r
        /\ r.init /\ (c \in Power => HaveLock(t)) => u.counterData = q.count[c]
        /\ ~(q.count[c] < r.counterData /\ (c \in Power \/ c \in q.status)) => u.overflows = r.overflows
    BY <2>1, <2>3, SampleCounter DEF u
  <2>6. u.overflows = 0
    <3>1. ~(q.count[c] < r.counterData /\ (c \in Power \/ c \in q.status))
      BY <2>2, <2>3 DEF CounterSane
    <3> QED BY <2>2, <2>5, <3>1 DEF CounterSane
  <2>7. CounterSane(q, c, u, HaveLock(t))
    BY <2>2, <2>3, <2>5, <2>6 DEF CounterSane
  <2>8. grp.measured => CounterDone(u, n, k)
    BY <2>2, <2>5 DEF CounterDone
  <2>9. grp.state = "START" /\ x.gs.activeGroup = g => CounterRuns(q, c, u, HaveLock(t), k)
    BY <2>2, <2>5 DEF CounterRuns
  <2> HIDE DEF grp
  <2>10. CounterSane(q, c, s, HaveLock(t)) /\ (grp.measured => CounterDone(s, n, k))
         /\ (grp.state = "START" /\ x.gs.activeGroup = g => CounterRuns(q, c, s, HaveLock(t), k))
    BY <2>1, <2>2, <2>7, <2>8, <2>9
  <2>11. CounterSane(y.cpu[t], c, s, HaveLock(t))
         /\ (grp.state = "START" /\ x.gs.activeGroup = g => CounterRuns(y.cpu[t], c, s, HaveLock(t), k))
    BY <2>4, <2>10 DEF CounterSane, CounterRuns
  <2> QED BY <2>1, <2>10, <2>11 DEF s
<1>7. FixedAlike /\ NoWrap /\ ~Restarts =>
         GroupSane(G, y.cpu) /\ GroupDone(G, n) /\ (x.gs.activeGroup = g => GroupRuns(G, y.cpu))
  <2> SUFFICES ASSUME FixedAlike, NoWrap, ~Restarts
               PROVE  GroupSane(G, y.cpu) /\ GroupDone(G, n) /\ (x.gs.activeGroup = g => GroupRuns(G, y.cpu))
    OBVIOUS
  <2>1. GroupDone(grp, n)
    BY <1>1 DEF CountInv
  <2>2. GroupDone(G, n)
    BY <1>3, <1>6, <2>1 DEF GroupDone
  <2> QED BY <1>3, <1>6, <2>2 DEF GroupSane, GroupRuns
<1>8. KeepsCounts(x, y, g, G, n)
  BY <1>5, <1>7 DEF KeepsCounts
<1>9. KeepsConfig(x, y, G.events)
  BY <1>4, <1>5 DEF KeepsConfig
<1>10. LibInv(y, n) /\ Replaced(x, y, g, G) /\ y.gs.activeGroup = x.gs.activeGroup
  BY <1>3, <1>4, <1>8, <1>9, KeepLib
<1> QED BY <1>10 DEF G

\* The operations that touch neither the CPUs nor what a group has counted.
Harmless(grp, G) ==
    /\ GroupOK(G) /\ G.events = grp.events /\ G.truth = grp.truth /\ G.state = grp.state /\ G.measured = grp.measured
    /\ \A t \in Threads, c \in DOMAIN grp.events : grp.counters[t][c].overflows = 0 =>
         /\ G.counters[t][c].overflows = 0 /\ G.counters[t][c].fullData = grp.counters[t][c].fullData
         /\ G.counters[t][c].startData = grp.counters[t][c].startData
         /\ G.counters[t][c].counterData = grp.counters[t][c].counterData
         /\ ~grp.counters[t][c].init => ~G.counters[t][c].init
         /\ grp.state = "START" /\ grp.counters[t][c].init => G.counters[t][c].init

\* They preserve the invariant.
LEMMA QuietLib ==
  ASSUME NEW x, NEW n \in Nat, LibInv(x, n), NEW g \in Added(x), NEW G, Harmless(Group(x, g), G),
         NEW y, y.gs = WithGroup(x.gs, g, G), y.cpu = x.cpu
  PROVE  LibInv(y, n) /\ Replaced(x, y, g, G) /\ y.gs.activeGroup = x.gs.activeGroup
<1> DEFINE grp == Group(x, g)
<1>1. LibType(x) /\ CountInv(x, n)
  BY DEF LibInv
<1>2. KeepsConfig(x, y, G.events)
  BY <1>1 DEF KeepsConfig, LibType
<1>3. ASSUME FixedAlike, NoWrap, ~Restarts
      PROVE  GroupSane(G, y.cpu) /\ GroupDone(G, n) /\ (x.gs.activeGroup = g => GroupRuns(G, y.cpu))
  <2>1. GroupSane(grp, x.cpu) /\ GroupDone(grp, n) /\ (x.gs.activeGroup = g => GroupRuns(grp, x.cpu))
    BY <1>1, <1>3, ActiveAdded DEF CountInv, Added
  <2>2. ASSUME NEW t \in Threads, NEW c \in DOMAIN grp.events
        PROVE  /\ CounterSane(x.cpu[t], c, G.counters[t][c], HaveLock(t))
               /\ grp.measured => CounterDone(G.counters[t][c], n, grp.truth[t][c])
               /\ grp.state = "START" /\ x.gs.activeGroup = g =>
                    CounterRuns(x.cpu[t], c, G.counters[t][c], HaveLock(t), grp.truth[t][c])
    <3>1. CounterSane(x.cpu[t], c, grp.counters[t][c], HaveLock(t))
      BY <2>1 DEF GroupSane
    <3>2. grp.measured => CounterDone(grp.counters[t][c], n, grp.truth[t][c])
      BY <2>1 DEF GroupDone
    <3>3. grp.state = "START" /\ x.gs.activeGroup = g =>
            CounterRuns(x.cpu[t], c, grp.counters[t][c], HaveLock(t), grp.truth[t][c])
      BY <2>1 DEF GroupRuns
    <3>4. grp.counters[t][c].overflows = 0
      BY <3>1 DEF CounterSane
    <3> DEFINE r == grp.counters[t][c]
               s == G.counters[t][c]
    <3>5. /\ s.overflows = 0 /\ s.fullData = r.fullData /\ s.startData = r.startData /\ s.counterData = r.counterData
          /\ ~r.init => ~s.init
          /\ grp.state = "START" /\ r.init => s.init
      BY <3>4 DEF Harmless
    <3> HIDE DEF r, s
    <3>6. CounterSane(x.cpu[t], c, s, HaveLock(t))
      BY <3>1, <3>5 DEF CounterSane, r
    <3>7. grp.measured => CounterDone(s, n, grp.truth[t][c])
      BY <3>2, <3>5 DEF CounterDone, r
    <3>8. grp.state = "START" /\ x.gs.activeGroup = g => CounterRuns(x.cpu[t], c, s, HaveLock(t), grp.truth[t][c])
      BY <3>3, <3>5 DEF CounterRuns, r
    <3> QED BY <3>6, <3>7, <3>8 DEF s
  <2>3. GroupDone(G, n)
    BY <2>1, <2>2 DEF GroupDone, Harmless
  <2> QED BY <2>2, <2>3 DEF GroupSane, GroupRuns, Harmless
<1>4. KeepsCounts(x, y, g, G, n)
  BY <1>3 DEF KeepsCounts
<1> QED BY <1>2, <1>4, KeepLib DEF Harmless

\* A thread leaves the active group.
LEMMA LeaveLib ==
  ASSUME NEW x, NEW n \in 0 .. MaxEvents, LibInv(x, n), now \in 0 .. MaxTime, x.gs.activeGroup >= 0,
         NEW t, NEW y, y = LeaveGroup(x, t)
  PROVE  LibInv(y, n) /\ Added(y) = Added(x)
<1> DEFINE old == x.gs.activeGroup
           grp == Group(x, old)
           state == grp.state
           G == StopTimer(grp)
           timed == [gs |-> WithGroup(x.gs, old, G), cpu |-> x.cpu]
           stopped == IF state = "START" THEN Stop(timed, old) ELSE timed
           cleared == IF state = "SETUP"
                      THEN [gs |-> WithGroup(stopped.gs, old, ClearedGroup(Group(stopped, old), t)), cpu |-> stopped.cpu]
                      ELSE stopped
<1>0. n \in Nat
  BY PerfmonBoundsAssumption
<1>1. LibType(x) /\ old \in Added(x)
  BY ActiveAdded DEF LibInv
<1>2. GroupOK(grp)
  BY <1>1, AddedGroup
<1>3. /\ GroupOK(G) /\ G.state = state /\ G.events = grp.events /\ G.counters = grp.counters
      /\ G.truth = grp.truth /\ G.measured = grp.measured
  BY <1>2, StopTimerG
<1>4. y = cleared
  BY DEF LeaveGroup
<1> HIDE DEF G
<1>5. timed.gs = WithGroup(x.gs, old, G) /\ timed.cpu = x.cpu
  OBVIOUS
<1> HIDE DEF grp, old, timed
<1>6. LibInv(timed, n) /\ Replaced(x, timed, old, G) /\ timed.gs.activeGroup = old
  <2>1. Harmless(Group(x, old), G)
    BY <1>3 DEF Harmless, grp
  <2> QED BY <1>0, <1>1, <1>5, <2>1, QuietLib DEF old
<1>7. Added(timed) = Added(x) /\ Group(timed, old) = G /\ old \in Added(timed)
  BY <1>1, <1>6 DEF Replaced, Added
<1>8. LibInv(stopped, n) /\ Added(stopped) = Added(x) /\ stopped.gs.activeGroup = old
  <2>1. CASE state = "START"
    <3>1. stopped = Stop(timed, old)
      BY <2>1
    <3>2. Group(timed, old).state = "START"
      BY <1>3, <1>7, <2>1
    <3> HIDE DEF stopped
    <3> QED BY <1>6, <1>7, <3>1, <3>2, StopLib DEF Replaced, Added
  <2>2. CASE state # "START"
    BY <1>6, <1>7, <2>2
  <2> QED BY <2>1, <2>2
<1>9. LibInv(cleared, n) /\ Added(cleared) = Added(x)
  <2>1. CASE state = "SETUP"
    <3> DEFINE C == ClearedGroup(G, t)
    <3>1. stopped = timed /\ cleared.gs = WithGroup(timed.gs, old, C) /\ cleared.cpu = timed.cpu
      BY <1>7, <2>1
    <3>2. /\ GroupOK(C) /\ C.state = G.state /\ C.events = G.events /\ C.truth = G.truth /\ C.measured = G.measured
          /\ \A u \in Threads, c \in DOMAIN G.events :
              /\ ~G.counters[u][c].init => ~C.counters[u][c].init
              /\ C.counters[u][c].overflows = G.counters[u][c].overflows
              /\ C.counters[u][c].fullData = G.counters[u][c].fullData
              /\ C.counters[u][c].startData = G.counters[u][c].startData
              /\ C.counters[u][c].counterData = G.counters[u][c].counterData
      BY <1>3, ClearedG
    <3>3. G.state # "START"
      BY <1>3, <2>1
    <3> HIDE DEF C, cleared, stopped
    <3>4. LibInv(cleared, n) /\ Replaced(timed, cleared, old, C)
      <4>1. Harmless(G, C)
        BY <3>2, <3>3 DEF Harmless
      <4> QED BY <1>0, <1>6, <1>7, <3>1, <4>1, QuietLib
    <3> QED BY <1>7, <3>4 DEF Replaced, Added
  <2>2. CASE state # "SETUP"
    <3>1. cleared = stopped
      BY <2>2
    <3> QED BY <1>8, <3>1
  <2> QED BY <2>1, <2>2
<1> QED BY <1>4, <1>9

\* One turn of the loop that switches groups.
LEMMA SwitchThreadLib ==
  ASSUME NEW x, NEW n \in 0 .. MaxEvents, LibInv(x, n), now \in 0 .. MaxTime, x.gs.activeGroup >= 0, NEW g \in Added(x),
         NEW t, NEW y, y = SwitchThread(x, t, g)
  PROVE  LibInv(y, n) /\ y.gs.activeGroup = g /\ Added(y) = Added(x)
<1> DEFINE cleared == LeaveGroup(x, t)
           state == Group(x, x.gs.activeGroup).state
           set == Setup(cleared, g)
<1>0. n \in Nat
  BY PerfmonBoundsAssumption
<1>1. y = IF state = "START" THEN Start(set, g) ELSE set
  BY DEF SwitchThread
<1>2. LibInv(cleared, n) /\ Added(cleared) = Added(x)
  BY LeaveLib
<1> HIDE DEF cleared, state
<1>3. /\ LibInv(set, n) /\ set.gs.activeGroup = g /\ Added(set) = Added(x) /\ Group(set, g) = SetupGroup(Group(cleared, g))
  <2>1. /\ LibInv(set, n) /\ set.gs.activeGroup = g /\ Group(set, g) = SetupGroup(Group(cleared, g))
        /\ set.gs.numberOfActiveGroups = cleared.gs.numberOfActiveGroups
    BY <1>0, <1>2, SetupLib
  <2> QED BY <1>2, <2>1 DEF Added
<1>4. GroupOK(Group(cleared, g))
  BY <1>2, AddedGroup DEF LibInv
<1>5. \A u \in Threads : \A c \in DOMAIN Group(set, g).events : Group(set, g).counters[u][c].init
  BY <1>3, <1>4, SetupG
<1> HIDE DEF set
<1>6. CASE state = "START"
  <2>1. y = Start(set, g)
    BY <1>1, <1>6
  <2>2. LibInv(y, n) /\ Replaced(set, y, g, StartGroup(Group(set, g), set.cpu)) /\ y.gs.activeGroup = g
    BY <1>0, <1>3, <1>5, <2>1, StartLib
  <2> QED BY <1>3, <2>2 DEF Replaced, Added
<1> QED BY <1>1, <1>3, <1>6

\* The turns of that loop.
LEMMA SwitchTurns ==
  ASSUME NEW x, NEW g
  PROVE  \E f : /\ Switch(x, g) = f[NumThreads]
                /\ \A i \in 0 .. NumThreads : f[i] = IF i = 0 THEN x ELSE SwitchThread(f[i - 1], i - 1, g)
<1> DEFINE N == NumThreads
           turn[i \in 0 .. N] == IF i = 0 THEN x ELSE SwitchThread(turn[i - 1], i - 1, g)
           F(f, m) == f = [i \in 0 .. m |-> IF i = 0 THEN x ELSE SwitchThread(f[i - 1], i - 1, g)]
           S == {m \in Nat : ~\E f : F(f, m)}
<1>1. N \in Nat /\ N > 0
  BY ThreadsAssumption
<1>2. Switch(x, g) = turn[N]
  BY DEF Switch
<1>3. \E f : F(f, N)
  <2> SUFFICES ASSUME S # {} PROVE FALSE
    BY <1>1
  <2>1. PICK m \in S : \A k \in S : m <= k
    BY LeastNatural
  <2>2. CASE m = 0
    <3> DEFINE f == [i \in 0 .. 0 |-> x]
    <3>1. F(f, 0)
      OBVIOUS
    <3> QED BY <2>1, <2>2, <3>1
  <2>3. CASE m # 0
    <3>0. S \subseteq Nat
      OBVIOUS
    <3>1. m \in Nat /\ m - 1 \in Nat /\ m - 1 \notin S
      <4> HIDE DEF S
      <4> QED BY <2>1, <2>3, <3>0
    <3>2. PICK f : F(f, m - 1)
      BY <3>1
    <3> DEFINE h == [i \in 0 .. m |-> IF i < m THEN f[i] ELSE SwitchThread(f[m - 1], m - 1, g)]
    <3>3. ASSUME NEW i \in 0 .. m PROVE h[i] = IF i = 0 THEN x ELSE SwitchThread(h[i - 1], i - 1, g)
      <4>1. CASE i = m
        BY <2>3, <3>1, <4>1
      <4>2. CASE i # m
        <5>1. i \in 0 .. m - 1 /\ i < m
          BY <3>1, <4>2
        <5>2. f[i] = IF i = 0 THEN x ELSE SwitchThread(f[i - 1], i - 1, g)
          BY <3>2, <5>1
        <5>3. h[i] = f[i]
          BY <5>1
        <5>4. i # 0 => h[i - 1] = f[i - 1]
          BY <3>1, <5>1
        <5> QED BY <5>2, <5>3, <5>4
      <4> QED BY <4>1, <4>2
    <3>4. F(h, m)
      BY <3>3
    <3> QED BY <2>1, <3>4
  <2> QED BY <2>2, <2>3
<1>4. F(turn, N)
  <2> HIDE DEF N
  <2> QED BY <1>3 DEF turn
<1> HIDE DEF turn
<1>5. \A i \in 0 .. N : turn[i] = IF i = 0 THEN x ELSE SwitchThread(turn[i - 1], i - 1, g)
  BY <1>4
<1> QED BY <1>2, <1>5

\* All turns: perfmon_switchActiveGroup.
LEMMA SwitchLib ==
  ASSUME NEW x, NEW n \in 0 .. MaxEvents, LibInv(x, n), now \in 0 .. MaxTime, x.gs.activeGroup >= 0, NEW g \in Added(x)
  PROVE  LibInv(Switch(x, g), n) /\ Added(Switch(x, g)) = Added(x) /\ Switch(x, g).gs.activeGroup = g
<1> DEFINE N == NumThreads
<1>1. N \in Nat /\ N > 0
  BY ThreadsAssumption
<1>2. PICK turn : /\ Switch(x, g) = turn[N]
                  /\ \A i \in 0 .. N : turn[i] = IF i = 0 THEN x ELSE SwitchThread(turn[i - 1], i - 1, g)
  BY SwitchTurns
<1>5. ASSUME NEW i \in 0 .. N PROVE turn[i] = IF i = 0 THEN x ELSE SwitchThread(turn[i - 1], i - 1, g)
  BY <1>2
<1> DEFINE P(m) == LibInv(turn[m], n) /\ Added(turn[m]) = Added(x) /\ (m = 0 \/ turn[m].gs.activeGroup = g)
           T == {m \in 0 .. N : ~P(m)}
<1>6. T = {}
  <2> SUFFICES ASSUME T # {} PROVE FALSE
    OBVIOUS
  <2>1. T \subseteq Nat
    OBVIOUS
  <2>2. PICK m \in T : \A k \in T : m <= k
    BY <2>1, LeastNatural
  <2>3. m # 0
    BY <1>1, <1>5, <2>2
  <2>4. m - 1 \in 0 .. N /\ m \in 0 .. N /\ m - 1 \notin T
    BY <1>1, <2>2, <2>3
  <2> DEFINE z == turn[m - 1]
  <2>5. LibInv(z, n) /\ Added(z) = Added(x) /\ z.gs.activeGroup >= 0
    <3>1. P(m - 1)
      BY <2>4
    <3>2. m - 1 = 0 => z = x
      BY <1>1, <1>5
    <3>3. g \in Nat
      BY ActiveAdded DEF LibInv, Added
    <3> QED BY <3>1, <3>2, <3>3
  <2>6. turn[m] = SwitchThread(z, m - 1, g)
    BY <1>5, <2>3, <2>4
  <2> HIDE DEF z, P
  <2>7. LibInv(turn[m], n) /\ turn[m].gs.activeGroup = g /\ Added(turn[m]) = Added(z)
    BY <2>5, <2>6, SwitchThreadLib
  <2> QED BY <2>2, <2>5, <2>7 DEF P
<1>7. P(N)
  BY <1>1, <1>6
<1> QED BY <1>1, <1>2, <1>7

\* perfmon_finalize on one CPU: the loop over the added groups clears every
\* control register that one of them has used.
Finalized(q, groups, n) ==
    LET turn[i \in 0 .. n] == IF i = 0 THEN q ELSE perfmon_finalizeCountersThread(turn[i - 1], groups[i - 1].events)
    IN turn[n]

\* What the loop leaves behind.
LEMMA FinalizeLoop ==
  ASSUME NEW q, CpuOK(q), NEW n \in Nat, NEW groups, \A g \in 0 .. n - 1 : groups[g].events \in EventSets,
         NEW p, p = Finalized(q, groups, n)
  PROVE  /\ CpuOK(p) /\ p.count = q.count /\ p.status \subseteq q.status
         /\ p.enabled # {} => q.enabled # {} /\ \A g \in 0 .. n - 1 : ~UsesCore(groups[g].events)
         /\ \A c \in Core : p.ctrl[c] # Off => p.ctrl[c] = q.ctrl[c] /\ \A g \in 0 .. n - 1 : c \notin DOMAIN groups[g].events
<1> DEFINE turn[i \in 0 .. n] == IF i = 0 THEN q ELSE perfmon_finalizeCountersThread(turn[i - 1], groups[i - 1].events)
           F(f, m) == f = [i \in 0 .. m |-> IF i = 0 THEN q ELSE perfmon_finalizeCountersThread(f[i - 1], groups[i - 1].events)]
           S == {m \in Nat : ~\E f : F(f, m)}
<1>2. p = turn[n]
  BY DEF Finalized
<1>3. \E f : F(f, n)
  <2> SUFFICES ASSUME S # {} PROVE FALSE
    OBVIOUS
  <2>1. PICK m \in S : \A k \in S : m <= k
    BY LeastNatural
  <2>2. CASE m = 0
    <3> DEFINE f == [i \in 0 .. 0 |-> q]
    <3>1. F(f, 0)
      OBVIOUS
    <3> QED BY <2>1, <2>2, <3>1
  <2>3. CASE m # 0
    <3>0. S \subseteq Nat
      OBVIOUS
    <3>1. m \in Nat /\ m - 1 \in Nat /\ m - 1 \notin S
      <4> HIDE DEF S
      <4> QED BY <2>1, <2>3, <3>0
    <3>2. PICK f : F(f, m - 1)
      BY <3>1
    <3> DEFINE h == [i \in 0 .. m |-> IF i < m THEN f[i] ELSE perfmon_finalizeCountersThread(f[m - 1], groups[m - 1].events)]
    <3>3. ASSUME NEW i \in 0 .. m
          PROVE  h[i] = IF i = 0 THEN q ELSE perfmon_finalizeCountersThread(h[i - 1], groups[i - 1].events)
      <4>1. CASE i = m
        BY <2>3, <3>1, <4>1
      <4>2. CASE i # m
        <5>1. i \in 0 .. m - 1 /\ i < m
          BY <3>1, <4>2
        <5>2. f[i] = IF i = 0 THEN q ELSE perfmon_finalizeCountersThread(f[i - 1], groups[i - 1].events)
          BY <3>2, <5>1
        <5>3. h[i] = f[i]
          BY <5>1
        <5>4. i # 0 => h[i - 1] = f[i - 1]
          BY <3>1, <5>1
        <5> QED BY <5>2, <5>3, <5>4
      <4> QED BY <4>1, <4>2
    <3>4. F(h, m)
      BY <3>3
    <3> QED BY <2>1, <3>4
  <2> QED BY <2>2, <2>3
<1>4. F(turn, n)
  BY <1>3 DEF turn
<1> HIDE DEF turn
<1>5. ASSUME NEW i \in 0 .. n
      PROVE  turn[i] = IF i = 0 THEN q ELSE perfmon_finalizeCountersThread(turn[i - 1], groups[i - 1].events)
  BY <1>4
<1> DEFINE P(m) ==
             /\ CpuOK(turn[m]) /\ turn[m].count = q.count /\ turn[m].status \subseteq q.status
             /\ turn[m].enabled # {} => q.enabled # {} /\ \A g \in 0 .. m - 1 : ~UsesCore(groups[g].events)
             /\ \A c \in Core : turn[m].ctrl[c] # Off =>
                  turn[m].ctrl[c] = q.ctrl[c] /\ \A g \in 0 .. m - 1 : c \notin DOMAIN groups[g].events
           T == {m \in 0 .. n : ~P(m)}
<1>6. T = {}
  <2> SUFFICES ASSUME T # {} PROVE FALSE
    OBVIOUS
  <2>1. T \subseteq Nat
    OBVIOUS
  <2>2. PICK m \in T : \A k \in T : m <= k
    BY <2>1, LeastNatural
  <2>3. m # 0
    <3>1. turn[0] = q
      BY <1>5
    <3>2. P(0)
      BY <3>1
    <3> QED BY <2>2, <3>2
  <2>4. m - 1 \in 0 .. n /\ m \in 0 .. n /\ m - 1 \in 0 .. n - 1 /\ m - 1 \notin T
    BY <2>2, <2>3
  <2> DEFINE z == turn[m - 1]
             y == turn[m]
             es == groups[m - 1].events
  <2>5. P(m - 1)
    BY <2>4
  <2>6. y = perfmon_finalizeCountersThread(z, es) /\ CpuOK(z) /\ es \in EventSets
    BY <1>5, <2>3, <2>4, <2>5
  <2> HIDE DEF z, y, es
  <2>7. /\ CpuOK(y) /\ y.count = z.count /\ y.status \subseteq z.status
        /\ y.enabled = IF UsesCore(es) THEN {} ELSE z.enabled
        /\ \A c \in Core : y.ctrl[c] \in {Off, z.ctrl[c]} /\ (c \in DOMAIN es => y.ctrl[c] = Off)
    BY <2>6, FinalizeCpu
  <2>8. \A g \in 0 .. m - 1 : g \in 0 .. (m - 1) - 1 \/ g = m - 1
    BY <2>4
  <2>9. y.enabled # {} => q.enabled # {} /\ \A g \in 0 .. m - 1 : ~UsesCore(groups[g].events)
    BY <2>5, <2>7, <2>8 DEF z, es
  <2>10. ASSUME NEW c \in Core, y.ctrl[c] # Off
         PROVE  y.ctrl[c] = q.ctrl[c] /\ \A g \in 0 .. m - 1 : c \notin DOMAIN groups[g].events
    <3>1. y.ctrl[c] = z.ctrl[c] /\ c \notin DOMAIN es
      BY <2>7, <2>10
    <3>2. z.ctrl[c] = q.ctrl[c] /\ \A g \in 0 .. (m - 1) - 1 : c \notin DOMAIN groups[g].events
      BY <2>5, <2>10, <3>1 DEF z
    <3> QED BY <2>8, <3>1, <3>2 DEF es
  <2>11. y.count = q.count /\ y.status \subseteq q.status
    BY <2>5, <2>7 DEF z
  <2>12. P(m)
    BY <2>7, <2>9, <2>10, <2>11 DEF y
  <2> HIDE DEF P
  <2> QED BY <2>2, <2>12
<1>7. P(n)
  BY <1>6
<1> QED BY <1>2, <1>7

-----------------------------------------------------------------------------
(* The actions *)

\* Facts about the actions are stated for the library state before and after.
Now1 == [gs |-> groupSet', cpu |-> cpu']

\* An operation that preserves the library's invariant preserves it all.
LEMMA LibStep ==
  ASSUME PerfmonInv, perfmon_initialized, LibInv(Now1, happened),
         UNCHANGED <<perfmon_initialized, now, happened>>
  PROVE  PerfmonInv'
<1>1. Now' = Now1
  BY DEF Now, Now1
<1> QED BY <1>1 DEF PerfmonInv, OffAfterFinalize

\* Without a group, with all CPUs off.
LEMMA EmptyLib ==
  ASSUME NEW x, NEW n, x.gs = NoGroups, x.cpu = [t \in Threads |-> x.cpu[t]],
         \A t \in Threads : /\ CpuOK(x.cpu[t]) /\ x.cpu[t].enabled = {}
                            /\ \A c \in Core : x.cpu[t].ctrl[c] = Off /\ x.cpu[t].currentConfig[c] = Off,
         FixedAlike /\ NoWrap /\ ~Restarts => \A t \in Threads : CpuCounts(x.cpu[t], n)
  PROVE  LibInv(x, n) /\ x.gs.numberOfActiveGroups = 0 /\ x.gs.activeGroup = -1
<1>1. /\ SetOK(NoGroups) /\ NoGroups.numberOfActiveGroups = 0 /\ NoGroups.activeGroup = -1
  BY PerfmonBoundsAssumption DEF SetOK, NoGroups
<1>2. LibType(x) /\ UsedInv(x)
  BY <1>1 DEF LibType, UsedInv
<1>3. Added(x) = {} /\ ~(x.gs.activeGroup >= 0)
  BY <1>1 DEF Added
<1>4. CountInv(x, n)
  BY <1>3 DEF CountInv
<1>5. ASSUME NEW t \in Threads PROVE CpuConfigured(x.cpu[t])
  <2>1. Fixed \subseteq Core
    BY DEF Core
  <2> QED BY <2>1 DEF CpuConfigured
<1>6. ConfigInv(x)
  BY <1>3, <1>5 DEF ConfigInv
<1> QED BY <1>1, <1>2, <1>4, <1>6 DEF LibInv

\* perfmon_finalize
LEMMA FinalizeStep ==
  ASSUME PerfmonInv, perfmon_finalize
  PROVE  PerfmonInv'
<1> DEFINE n == groupSet.numberOfActiveGroups
           End(t) == Finalized(cpu[t], groupSet.groups, n)
           off == [c \in Core |-> Off]
<1>1. /\ perfmon_initialized' = FALSE /\ groupSet' = NoGroups /\ UNCHANGED <<now, happened>>
      /\ cpu' = [t \in Threads |-> [End(t) EXCEPT !.currentConfig = off]]
  BY DEF perfmon_finalize, Finalized
<1>2. LibInv(Now, happened) /\ LibType(Now) /\ UsedInv(Now) /\ CountInv(Now, happened)
  BY DEF PerfmonInv, LibInv
<1>3. Now.gs = groupSet /\ Now.cpu = cpu
  BY DEF Now
<1>4. ASSUME NEW t \in Threads
      PROVE  /\ CpuOK(cpu'[t]) /\ cpu'[t].count = cpu[t].count /\ cpu'[t].status \subseteq cpu[t].status
             /\ cpu'[t].enabled = {} /\ \A c \in Core : cpu'[t].ctrl[c] = Off /\ cpu'[t].currentConfig[c] = Off
  <2> DEFINE p == End(t)
             r == [p EXCEPT !.currentConfig = off]
  <2>1. cpu'[t] = r
    BY <1>1
  <2>2. CpuOK(cpu[t]) /\ n \in Nat /\ \A g \in 0 .. n - 1 : groupSet.groups[g].events \in EventSets
    BY <1>2, <1>3, AddedGroup, ActiveAdded DEF LibType, Added, Group
  <2>3. /\ CpuOK(p) /\ p.count = cpu[t].count /\ p.status \subseteq cpu[t].status
        /\ p.enabled # {} => cpu[t].enabled # {} /\ \A g \in 0 .. n - 1 : ~UsesCore(groupSet.groups[g].events)
        /\ \A c \in Core : p.ctrl[c] # Off =>
             p.ctrl[c] = cpu[t].ctrl[c] /\ \A g \in 0 .. n - 1 : c \notin DOMAIN groupSet.groups[g].events
    BY <2>2, FinalizeLoop
  <2> HIDE DEF p
  <2>4. /\ cpu[t].enabled # {} => \E g \in 0 .. n - 1 : UsesCore(groupSet.groups[g].events)
        /\ \A c \in Core : cpu[t].ctrl[c] # Off => \E g \in 0 .. n - 1 : c \in DOMAIN groupSet.groups[g].events
    BY <1>2, <1>3 DEF UsedInv, Added, Group
  <2>5. p.enabled = {} /\ \A c \in Core : p.ctrl[c] = Off
    BY <2>3, <2>4
  <2>6. p \in Cpu /\ off \in [Core -> Flags \cup {Off}]
    BY <2>3 DEF CpuOK
  <2>7. /\ r \in Cpu /\ r.count = p.count /\ r.status = p.status /\ r.enabled = p.enabled /\ r.ctrl = p.ctrl
        /\ r.currentConfig = off
    <3> HIDE DEF off
    <3> QED BY <2>6 DEF Cpu
  <2> HIDE DEF r
  <2> QED BY <2>1, <2>3, <2>5, <2>7 DEF CpuOK
<1>5. Now'.gs = NoGroups /\ Now'.cpu = cpu' /\ cpu' = [t \in Threads |-> cpu'[t]]
  BY <1>1 DEF Now
<1>6. FixedAlike /\ NoWrap /\ ~Restarts => \A t \in Threads : CpuCounts(cpu'[t], happened')
  <2> SUFFICES ASSUME FixedAlike, NoWrap, ~Restarts, NEW t \in Threads PROVE CpuCounts(cpu'[t], happened')
    OBVIOUS
  <2>1. CpuCounts(cpu[t], happened)
    BY <1>2, <1>3 DEF CountInv
  <2>2. /\ cpu'[t].count = cpu[t].count /\ cpu'[t].status \subseteq cpu[t].status /\ happened' = happened
    BY <1>1, <1>4
  <2> QED BY <2>1, <2>2 DEF CpuCounts
<1>7. LibInv(Now', happened') /\ Now'.gs.numberOfActiveGroups = 0 /\ Now'.gs.activeGroup = -1
  <2> DEFINE x == Now'
             m == happened'
  <2>1. x.gs = NoGroups /\ x.cpu = [t \in Threads |-> x.cpu[t]]
    BY <1>5
  <2>2. \A t \in Threads : /\ CpuOK(x.cpu[t]) /\ x.cpu[t].enabled = {}
                           /\ \A c \in Core : x.cpu[t].ctrl[c] = Off /\ x.cpu[t].currentConfig[c] = Off
    BY <1>4, <1>5
  <2>3. FixedAlike /\ NoWrap /\ ~Restarts => \A t \in Threads : CpuCounts(x.cpu[t], m)
    BY <1>5, <1>6
  <2> HIDE DEF x, m
  <2>4. LibInv(x, m) /\ x.gs.numberOfActiveGroups = 0 /\ x.gs.activeGroup = -1
    BY <2>1, <2>2, <2>3, EmptyLib
  <2> QED BY <2>4 DEF x, m
<1>8. OffAfterFinalize'
  BY <1>4 DEF OffAfterFinalize
<1> QED BY <1>1, <1>5, <1>7, <1>8 DEF PerfmonInv

\* perfmon_init
LEMMA InitStep ==
  ASSUME PerfmonInv, perfmon_init
  PROVE  PerfmonInv'
<1>1. ~perfmon_initialized /\ perfmon_initialized' = TRUE /\ groupSet' = NoGroups /\ UNCHANGED <<cpu, now, happened>>
  BY DEF perfmon_init
<1>2. LibType(Now) /\ CountInv(Now, happened) /\ OffAfterFinalize
  BY DEF PerfmonInv, LibInv
<1> DEFINE x == Now'
<1>3. x.gs = NoGroups /\ x.cpu = cpu /\ Now.cpu = cpu
  BY <1>1 DEF Now
<1> HIDE DEF x
<1>4. x.cpu = [t \in Threads |-> x.cpu[t]]
  BY <1>2, <1>3 DEF LibType
<1>5. \A t \in Threads : /\ CpuOK(x.cpu[t]) /\ x.cpu[t].enabled = {}
                         /\ \A c \in Core : x.cpu[t].ctrl[c] = Off /\ x.cpu[t].currentConfig[c] = Off
  BY <1>1, <1>2, <1>3 DEF LibType, OffAfterFinalize
<1>6. FixedAlike /\ NoWrap /\ ~Restarts => \A t \in Threads : CpuCounts(x.cpu[t], happened)
  BY <1>2, <1>3 DEF CountInv
<1>7. LibInv(x, happened)
  BY <1>3, <1>4, <1>5, <1>6, EmptyLib
<1>8. OffAfterFinalize'
  BY <1>1 DEF OffAfterFinalize
<1> QED BY <1>1, <1>7, <1>8 DEF PerfmonInv, x

\* The initial state.
LEMMA InitHolds == Init => PerfmonInv
<1> SUFFICES ASSUME Init PROVE PerfmonInv
  OBVIOUS
<1>1. /\ perfmon_initialized = FALSE /\ Now.gs = NoGroups /\ Now.cpu = [t \in Threads |-> IdleCpu]
      /\ now = 0 /\ happened = 0 /\ groupSet = Now.gs /\ cpu = Now.cpu
  BY DEF Init, Now
<1>2. /\ CpuOK(IdleCpu) /\ IdleCpu.enabled = {} /\ CpuCounts(IdleCpu, 0)
      /\ \A c \in Core : IdleCpu.ctrl[c] = Off /\ IdleCpu.currentConfig[c] = Off
  BY Sizes DEF IdleCpu, Cpu, CpuOK, CpuCounts
<1> HIDE DEF IdleCpu
<1>3. LibInv(Now, 0) /\ Now.gs.numberOfActiveGroups = 0 /\ Now.gs.activeGroup = -1
  BY <1>1, <1>2, EmptyLib
<1>4. OffAfterFinalize
  BY <1>1, <1>2 DEF OffAfterFinalize
<1>5. now \in 0 .. MaxTime /\ happened \in 0 .. MaxEvents
  BY <1>1, PerfmonBoundsAssumption
<1> QED BY <1>1, <1>3, <1>4, <1>5 DEF PerfmonInv

\* A group that was just added
LEMMA FreshGroup ==
  ASSUME NEW es \in EventSets, NEW garbage \in 0 .. MaxTime, NEW fresh, fresh = NewGroup(es, garbage)
  PROVE  /\ fresh.state = "NONE" /\ fresh.events = es /\ ~fresh.measured /\ GroupOK(fresh)
         /\ \A t \in Threads, c \in DOMAIN es : fresh.counters[t][c] = NewCounter
<1>1. NewCounter \in PerfmonCounter /\ \A c : CounterOK(c, NewCounter)
  BY Sizes DEF NewCounter, PerfmonCounter, CounterOK
<1>2. /\ fresh.state = "NONE" /\ fresh.events = es /\ ~fresh.measured
      /\ \A t \in Threads, c \in DOMAIN es : fresh.counters[t][c] = NewCounter
  BY DEF NewGroup
<1>3. fresh \in GroupRecord(es)
  <2> HIDE DEF NewCounter
  <2>1. [t \in Threads |-> [c \in DOMAIN es |-> NewCounter]] \in [Threads -> [DOMAIN es -> PerfmonCounter]]
    BY <1>1
  <2>2. [t \in Threads |-> [c \in DOMAIN es |-> 0]] \in [Threads -> [DOMAIN es -> Nat]]
    OBVIOUS
  <2>3. [start |-> garbage, stop |-> 0] \in [start : 0 .. MaxTime, stop : 0 .. MaxTime]
    BY PerfmonBoundsAssumption
  <2> DEFINE cs == [t \in Threads |-> [c \in DOMAIN es |-> NewCounter]]
             tr == [t \in Threads |-> [c \in DOMAIN es |-> 0]]
             tm == [start |-> garbage, stop |-> 0]
  <2>4. fresh = [state |-> "NONE", events |-> es, runTime |-> 0, rdtscTime |-> 0, timer |-> tm,
                 counters |-> cs, truth |-> tr, ran |-> 0, measured |-> FALSE]
    BY DEF NewGroup
  <2> HIDE DEF cs, tr, tm
  <2> QED BY <2>1, <2>2, <2>3, <2>4 DEF GroupRecord, cs, tr, tm
<1> QED BY <1>1, <1>2, <1>3 DEF GroupOK

\* perfmon_addEventSet: a refused set changes no group, an accepted one adds a
\* group that is not set up.
LEMMA AddStep ==
  ASSUME PerfmonInv, NEW es \in EventSets, NEW garbage \in 0 .. MaxTime, perfmon_addEventSet(es, garbage)
  PROVE  PerfmonInv'
<1> DEFINE n == groupSet.numberOfActiveGroups
           slots == IF n = 0 THEN 1 ELSE IF n = groupSet.numberOfGroups THEN n + 1 ELSE groupSet.numberOfGroups
           act == IF n = 0 THEN -1 ELSE groupSet.activeGroup
           fresh == NewGroup(es, garbage)
           tab == [g \in 0 .. n |-> IF g < n THEN groupSet.groups[g] ELSE fresh]
           x == Now
           y == Now'
<1>1. /\ perfmon_initialized /\ n < MaxGroups /\ UNCHANGED <<perfmon_initialized, cpu, now, happened>>
      /\ groupSet' = IF DOMAIN es = {} THEN [groupSet EXCEPT !.numberOfGroups = slots, !.activeGroup = act]
                     ELSE [groupSet EXCEPT !.numberOfGroups = slots, !.numberOfActiveGroups = n + 1,
                                           !.activeGroup = act, !.groups = tab]
  BY DEF perfmon_addEventSet
<1>2. LibInv(x, happened) /\ LibType(x) /\ UsedInv(x) /\ ConfigInv(x) /\ CountInv(x, happened) /\ SetOK(groupSet)
  BY DEF PerfmonInv, LibInv, LibType, Now
<1>3. x.gs = groupSet /\ x.cpu = cpu /\ y.gs = groupSet' /\ y.cpu = cpu
  BY <1>1 DEF Now
<1>4. /\ n \in Nat /\ slots \in Nat /\ act \in Int /\ act \in -1 .. n - 1 /\ n <= slots
      /\ groupSet.activeGroup \in Int /\ MaxGroups \in Nat
      /\ (act >= 0 => n # 0 /\ act = groupSet.activeGroup)
      /\ n = groupSet.numberOfGroups \/ n = 0 => slots = n + 1
      /\ n # groupSet.numberOfGroups => n < groupSet.numberOfGroups
  BY <1>2, PerfmonBoundsAssumption DEF SetOK
<1>5. n + 1 <= slots
  BY <1>2, <1>4 DEF SetOK
<1>6. /\ fresh.state = "NONE" /\ fresh.events = es /\ ~fresh.measured /\ GroupOK(fresh)
      /\ \A t \in Threads, c \in DOMAIN es : fresh.counters[t][c] = NewCounter
  BY FreshGroup
<1>7. CASE DOMAIN es = {}
  <2>1. groupSet' = [groupSet EXCEPT !.numberOfGroups = slots, !.activeGroup = act]
    BY <1>1, <1>7
  <2> HIDE DEF slots, act
  <2>2. /\ SetOK(groupSet') /\ groupSet'.groups = groupSet.groups /\ groupSet'.numberOfActiveGroups = n
        /\ groupSet'.activeGroup = act
    BY <1>2, <1>4, <2>1 DEF SetOK
  <2>3. Added(y) = Added(x) /\ (\A g : Group(y, g) = Group(x, g)) /\ y.gs.activeGroup = act
        /\ (act >= 0 => act = x.gs.activeGroup)
    BY <1>3, <1>4, <2>2 DEF Added, Group
  <2>4. LibType(y)
    BY <1>2, <1>3, <2>2 DEF LibType
  <2> HIDE DEF x, y
  <2>5. UsedInv(y)
    BY <1>2, <1>3, <2>3 DEF UsedInv
  <2>6. ConfigInv(y)
    BY <1>2, <1>3, <2>3 DEF ConfigInv
  <2>7. CountInv(y, happened)
    BY <1>2, <1>3, <2>3 DEF CountInv
  <2> QED BY <1>1, <2>4, <2>5, <2>6, <2>7 DEF PerfmonInv, LibInv, OffAfterFinalize, y
<1>8. CASE DOMAIN es # {}
  <2>1. groupSet' = [groupSet EXCEPT !.numberOfGroups = slots, !.numberOfActiveGroups = n + 1,
                                     !.activeGroup = act, !.groups = tab]
    BY <1>1, <1>8
  <2>2. /\ tab[n] = fresh /\ \A g \in 0 .. n - 1 : tab[g] = groupSet.groups[g]
    BY <1>4
  <2>3. tab = [g \in 0 .. (n + 1) - 1 |-> tab[g]] /\ \A g \in 0 .. n : g \in 0 .. n - 1 \/ g = n
    BY <1>4
  <2>4. \A g \in 0 .. n : GroupOK(tab[g])
    BY <1>2, <1>6, <2>2, <2>3 DEF SetOK
  <2> HIDE DEF slots, act, tab, fresh
  <2>5. /\ groupSet' \in [numberOfGroups : Nat, numberOfActiveGroups : 0 .. MaxGroups, activeGroup : Int, groups : {tab}]
        /\ groupSet'.groups = tab /\ groupSet'.numberOfActiveGroups = n + 1 /\ groupSet'.activeGroup = act
        /\ groupSet'.numberOfGroups = slots
    <3> DEFINE k == n + 1
    <3>1. k \in 0 .. MaxGroups
      BY <1>1, <1>4
    <3>2. groupSet \in [numberOfGroups : Nat, numberOfActiveGroups : 0 .. MaxGroups, activeGroup : Int, groups : {groupSet.groups}]
      BY <1>2 DEF SetOK
    <3> HIDE DEF k
    <3>3. groupSet' = [groupSet EXCEPT !.numberOfGroups = slots, !.numberOfActiveGroups = k, !.activeGroup = act, !.groups = tab]
      BY <2>1 DEF k
    <3>4. /\ groupSet' \in [numberOfGroups : Nat, numberOfActiveGroups : 0 .. MaxGroups, activeGroup : Int, groups : {tab}]
          /\ groupSet'.groups = tab /\ groupSet'.numberOfActiveGroups = k /\ groupSet'.activeGroup = act
          /\ groupSet'.numberOfGroups = slots
      BY <1>4, <3>1, <3>2, <3>3
    <3> QED BY <3>4 DEF k
  <2>6. SetOK(groupSet')
    <3> DEFINE hs == groupSet'
               k == n + 1
    <3>1. k \in Nat /\ k <= slots /\ k - 1 = n /\ act \in -1 .. k - 1
      BY <1>4, <1>5
    <3>2. /\ hs \in [numberOfGroups : Nat, numberOfActiveGroups : 0 .. MaxGroups, activeGroup : Int, groups : {tab}]
          /\ hs.groups = tab /\ hs.numberOfActiveGroups = k /\ hs.activeGroup = act /\ hs.numberOfGroups = slots
      BY <2>5
    <3>3. tab = [g \in 0 .. k - 1 |-> tab[g]] /\ \A g \in 0 .. k - 1 : GroupOK(tab[g])
      BY <2>3, <2>4, <3>1
    <3> HIDE DEF hs, k
    <3>4. SetOK(hs)
      BY <3>1, <3>2, <3>3 DEF SetOK
    <3> QED BY <3>4 DEF hs
  <2>7. /\ Added(y) = 0 .. n /\ Added(x) = 0 .. n - 1 /\ Group(y, n) = fresh
        /\ \A g \in Added(x) : g \in Added(y) /\ Group(y, g) = Group(x, g)
        /\ y.gs.activeGroup = act /\ (act >= 0 => act = x.gs.activeGroup /\ act \in Added(x))
    BY <1>3, <1>4, <2>2, <2>5 DEF Added, Group
  <2>8. LibType(y)
    BY <1>2, <1>3, <2>6 DEF LibType
  <2> HIDE DEF x, y
  <2>9. UsedInv(y)
    BY <1>2, <1>3, <2>7 DEF UsedInv
  <2>10. ConfigInv(y)
    BY <1>2, <1>3, <2>7 DEF ConfigInv
  <2>11. GroupDone(fresh, happened)
    BY <1>6 DEF GroupDone
  <2>12. GroupSane(fresh, y.cpu)
    <3>1. ASSUME NEW t \in Threads, NEW c \in DOMAIN es
          PROVE  CounterSane(cpu[t], c, NewCounter, HaveLock(t))
      <4>1. c \in Counters /\ cpu[t].count[c] \in Nat
        BY <1>2, <1>3, EventSet DEF LibType, CpuOK, Cpu
      <4> QED BY <4>1 DEF CounterSane, NewCounter
    <3> QED BY <1>3, <1>6, <3>1 DEF GroupSane
  <2>13. CountInv(y, happened)
    <3> SUFFICES ASSUME FixedAlike, NoWrap, ~Restarts
                 PROVE  /\ \A t \in Threads : CpuCounts(y.cpu[t], happened)
                        /\ \A g \in Added(y) : GroupSane(Group(y, g), y.cpu) /\ GroupDone(Group(y, g), happened)
                        /\ y.gs.activeGroup >= 0 => GroupRuns(Group(y, y.gs.activeGroup), y.cpu)
      BY DEF CountInv
    <3>1. /\ \A t \in Threads : CpuCounts(x.cpu[t], happened)
          /\ \A g \in Added(x) : GroupSane(Group(x, g), x.cpu) /\ GroupDone(Group(x, g), happened)
          /\ x.gs.activeGroup >= 0 => GroupRuns(Group(x, x.gs.activeGroup), x.cpu)
      BY <1>2 DEF CountInv
    <3>2. \A g \in Added(y) : g \in Added(x) \/ g = n
      BY <2>3, <2>7
    <3>3. x.cpu = y.cpu
      BY <1>3
    <3> HIDE DEF n
    <3> QED BY <2>7, <2>11, <2>12, <3>1, <3>2, <3>3
  <2> QED BY <1>1, <2>8, <2>9, <2>10, <2>13 DEF PerfmonInv, LibInv, OffAfterFinalize, y
<1> QED BY <1>7, <1>8

\* Only the two fields of a library state matter.
LEMMA SameLib ==
  ASSUME NEW x, NEW n, LibInv(x, n), NEW y, y.gs = x.gs, y.cpu = x.cpu
  PROVE  LibInv(y, n)
  BY DEF LibInv, LibType, UsedInv, ConfigInv, CountInv, Added, Group

\* An operation on the library state.
LEMMA CallStep ==
  ASSUME PerfmonInv, perfmon_initialized, NEW x, LibInv(x, happened), Becomes(x), UNCHANGED <<perfmon_initialized, now, happened>>
  PROVE  PerfmonInv'
<1>1. Now1.gs = x.gs /\ Now1.cpu = x.cpu
  BY DEF Now1, Becomes
<1> HIDE DEF Now1
<1>2. LibInv(Now1, happened)
  BY <1>1, SameLib
<1> QED BY <1>2, LibStep

\* What the calls of the application find.
LEMMA CallFacts ==
  ASSUME PerfmonInv
  PROVE  /\ LibInv(Now, happened) /\ now \in 0 .. MaxTime /\ happened \in 0 .. MaxEvents /\ happened \in Nat
         /\ Now.gs = groupSet /\ Now.cpu = cpu /\ Now.gs.activeGroup = Active
         /\ \A g : Group(Now, g) = groupSet.groups[g]
         /\ \A g \in Groups : g < groupSet.numberOfActiveGroups => g \in Added(Now)
         /\ Active >= 0 => Active \in Added(Now)
<1>1. LibInv(Now, happened) /\ now \in 0 .. MaxTime /\ happened \in 0 .. MaxEvents
  BY DEF PerfmonInv
<1>2. happened \in Nat
  BY <1>1, PerfmonBoundsAssumption
<1>3. Now.gs = groupSet /\ Now.cpu = cpu /\ Now.gs.activeGroup = Active /\ \A g : Group(Now, g) = groupSet.groups[g]
  BY DEF Now, Active, Group
<1>4. groupSet.numberOfActiveGroups \in Nat /\ (Active >= 0 => Active \in Added(Now))
  BY <1>1, <1>3, ActiveAdded DEF LibInv
<1>5. \A g \in Groups : g < groupSet.numberOfActiveGroups => g \in Added(Now)
  BY <1>3, <1>4, PerfmonBoundsAssumption DEF Groups, Added
<1> QED BY <1>1, <1>2, <1>3, <1>4, <1>5

\* perfmon_setupCounters
LEMMA SetupStep ==
  ASSUME PerfmonInv, NEW g \in Groups, perfmon_setupCounters(g)
  PROVE  PerfmonInv'
<1>1. perfmon_initialized /\ g < groupSet.numberOfActiveGroups /\ Becomes(Setup(Now, g))
      /\ UNCHANGED <<perfmon_initialized, now, happened>>
  BY DEF perfmon_setupCounters
<1>2. LibInv(Setup(Now, g), happened)
  BY <1>1, CallFacts, SetupLib
<1> QED BY <1>1, <1>2, CallStep

\* perfmon_startCounters
LEMMA StartStep ==
  ASSUME PerfmonInv, perfmon_startCounters
  PROVE  PerfmonInv'
<1>1. perfmon_initialized /\ Active >= 0 /\ Becomes(Start(Now, Active)) /\ (Restarts \/ Prepared(Active))
      /\ UNCHANGED <<perfmon_initialized, now, happened>>
  BY DEF perfmon_startCounters
<1>2. ~Restarts => \A t \in Threads : \A c \in DOMAIN Group(Now, Active).events : Group(Now, Active).counters[t][c].init
  BY <1>1, CallFacts DEF Prepared
<1>3. LibInv(Start(Now, Active), happened)
  BY <1>1, <1>2, CallFacts, StartLib
<1> QED BY <1>1, <1>3, CallStep

\* perfmon_stopCounters
LEMMA StopStep ==
  ASSUME PerfmonInv, perfmon_stopCounters
  PROVE  PerfmonInv'
<1>1. perfmon_initialized /\ Active >= 0 /\ Becomes(Stop(Now, Active)) /\ Running(Active)
      /\ UNCHANGED <<perfmon_initialized, now, happened>>
  BY DEF perfmon_stopCounters
<1>2. Group(Now, Active).state = "START"
  BY <1>1, CallFacts DEF Running
<1>3. LibInv(Stop(Now, Active), happened)
  BY <1>1, <1>2, CallFacts, StopLib
<1> QED BY <1>1, <1>3, CallStep

\* perfmon_readCounters and perfmon_readCountersCpu
LEMMA ReadStep ==
  ASSUME PerfmonInv, NEW g, NEW ts,
         (g \in Groups /\ perfmon_readCounters(g, ts)) \/ (\E t \in Threads : g = Active /\ ts = {t} /\ perfmon_readCountersCpu(t))
  PROVE  PerfmonInv'
<1>1. perfmon_initialized /\ g \in Added(Now) /\ Becomes(Read(Now, g, ts))
      /\ UNCHANGED <<perfmon_initialized, now, happened>>
  BY CallFacts DEF perfmon_readCounters, perfmon_readCountersCpu
<1>2. LibInv(Read(Now, g, ts), happened)
  BY <1>1, CallFacts, ReadLib
<1> QED BY <1>1, <1>2, CallStep

\* perfmon_getResult
LEMMA ResultStep ==
  ASSUME PerfmonInv, NEW g \in Groups, NEW t \in Threads, NEW c, perfmon_getResult(g, t, c)
  PROVE  PerfmonInv'
<1> DEFINE grp == groupSet.groups[g]
           G == EvaluatedGroup(grp, t, c)
           y == [gs |-> groupSet', cpu |-> cpu']
<1>1. perfmon_initialized /\ g \in Added(Now) /\ c \in DOMAIN grp.events /\ groupSet' = WithGroup(groupSet, g, G)
      /\ UNCHANGED <<perfmon_initialized, cpu, now, happened>>
  BY CallFacts DEF perfmon_getResult
<1>2. GroupOK(grp) /\ Group(Now, g) = grp
  BY <1>1, CallFacts, AddedGroup DEF LibInv
<1>3. Harmless(grp, G)
  <2>1. /\ GroupOK(G) /\ G.state = grp.state /\ G.events = grp.events /\ G.truth = grp.truth /\ G.measured = grp.measured
        /\ \A u \in Threads, b \in DOMAIN grp.events :
              grp.counters[u][b].overflows = 0 => G.counters[u][b] = grp.counters[u][b]
    BY <1>1, <1>2, EvaluatedG
  <2> HIDE DEF G, grp
  <2> QED BY <2>1 DEF Harmless
<1>4. y.gs = WithGroup(Now.gs, g, G) /\ y.cpu = Now.cpu /\ Becomes(y)
  BY <1>1, CallFacts DEF Becomes
<1> HIDE DEF G, grp, y
<1>5. LibInv(y, happened)
  BY <1>1, <1>2, <1>3, <1>4, CallFacts, QuietLib
<1> QED BY <1>1, <1>4, <1>5, CallStep

\* perfmon_switchActiveGroup
LEMMA SwitchStep ==
  ASSUME PerfmonInv, NEW g \in Groups, perfmon_switchActiveGroup(g)
  PROVE  PerfmonInv'
<1>1. perfmon_initialized /\ Active >= 0 /\ UNCHANGED <<perfmon_initialized, now, happened>>
  BY DEF perfmon_switchActiveGroup
<1>2. CASE g < groupSet.numberOfActiveGroups
  <2>1. Becomes(Switch(Now, g))
    BY <1>2 DEF perfmon_switchActiveGroup
  <2>2. LibInv(Switch(Now, g), happened)
    BY <1>1, <1>2, CallFacts, SwitchLib
  <2> QED BY <1>1, <2>1, <2>2, CallStep
<1>3. CASE ~(g < groupSet.numberOfActiveGroups)
  <2>1. Becomes(LeaveGroup(Now, 0))
    BY <1>3 DEF perfmon_switchActiveGroup
  <2>2. LibInv(LeaveGroup(Now, 0), happened)
    BY <1>1, CallFacts, LeaveLib
  <2> QED BY <1>1, <2>1, <2>2, CallStep
<1> QED BY <1>2, <1>3

\* The group set with every group replaced.
LEMMA MapGroups ==
  ASSUME NEW gs, SetOK(gs), NEW tab, tab = [g \in DOMAIN gs.groups |-> tab[g]],
         \A g \in 0 .. gs.numberOfActiveGroups - 1 : GroupOK(tab[g]), NEW hs, hs = [gs EXCEPT !.groups = tab]
  PROVE  /\ SetOK(hs) /\ hs.numberOfActiveGroups = gs.numberOfActiveGroups /\ hs.activeGroup = gs.activeGroup
         /\ hs.groups = tab
<1>1. gs \in [numberOfGroups : Nat, numberOfActiveGroups : 0 .. MaxGroups, activeGroup : Int, groups : {gs.groups}]
  BY DEF SetOK
<1>2. /\ hs \in [numberOfGroups : Nat, numberOfActiveGroups : 0 .. MaxGroups, activeGroup : Int, groups : {tab}]
      /\ hs.groups = tab /\ hs.numberOfActiveGroups = gs.numberOfActiveGroups /\ hs.activeGroup = gs.activeGroup
      /\ hs.numberOfGroups = gs.numberOfGroups
  BY <1>1
<1>3. DOMAIN gs.groups = 0 .. gs.numberOfActiveGroups - 1
  <2> DEFINE f == gs.groups
             D == 0 .. gs.numberOfActiveGroups - 1
  <2>1. f = [g \in D |-> f[g]]
    BY DEF SetOK
  <2> HIDE DEF f, D
  <2>2. DOMAIN f = D
    BY <2>1
  <2> QED BY <2>2 DEF f, D
<1> QED BY <1>1, <1>2, <1>3 DEF SetOK

\* Tick: nothing but the history of the running groups.
LEMMA TickStep ==
  ASSUME PerfmonInv, Tick
  PROVE  PerfmonInv'
<1> DEFINE tab == [g \in DOMAIN groupSet.groups |-> Timed(groupSet.groups[g])]
           x == Now
           y == Now'
<1>1. now < MaxTime /\ now' = now + 1 /\ UNCHANGED <<perfmon_initialized, cpu, happened>>
      /\ groupSet' = [groupSet EXCEPT !.groups = tab]
  BY DEF Tick
<1>2. LibInv(x, happened) /\ LibType(x) /\ UsedInv(x) /\ ConfigInv(x) /\ CountInv(x, happened) /\ SetOK(groupSet)
  BY DEF PerfmonInv, LibInv, LibType, Now
<1>3. x.gs = groupSet /\ x.cpu = cpu /\ y.gs = groupSet' /\ y.cpu = cpu
  BY <1>1 DEF Now
<1>4. DOMAIN groupSet.groups = 0 .. groupSet.numberOfActiveGroups - 1
  <2> DEFINE f == groupSet.groups
             D == 0 .. groupSet.numberOfActiveGroups - 1
  <2>1. f = [g \in D |-> f[g]]
    BY <1>2 DEF SetOK
  <2> HIDE DEF f, D
  <2>2. DOMAIN f = D
    BY <2>1
  <2> QED BY <2>2 DEF f, D
<1>5. ASSUME NEW g \in 0 .. groupSet.numberOfActiveGroups - 1
      PROVE  LET G == tab[g]
                 grp == groupSet.groups[g]
             IN /\ GroupOK(G) /\ G.state = grp.state /\ G.events = grp.events /\ G.counters = grp.counters
                /\ G.truth = grp.truth /\ G.measured = grp.measured
  <2>1. tab[g] = Timed(groupSet.groups[g]) /\ GroupOK(groupSet.groups[g])
    BY <1>2, <1>4 DEF SetOK
  <2> QED BY <2>1, TimedG
<1>6. tab = [g \in DOMAIN groupSet.groups |-> tab[g]]
  OBVIOUS
<1> HIDE DEF tab
<1>7. /\ SetOK(groupSet') /\ groupSet'.numberOfActiveGroups = groupSet.numberOfActiveGroups
      /\ groupSet'.activeGroup = groupSet.activeGroup /\ groupSet'.groups = tab
  BY <1>1, <1>2, <1>5, <1>6, MapGroups
<1>8. /\ Added(y) = Added(x) /\ y.gs.activeGroup = x.gs.activeGroup /\ y.cpu = x.cpu
      /\ \A g \in Added(x) :
           /\ Group(y, g).state = Group(x, g).state /\ Group(y, g).events = Group(x, g).events
           /\ Group(y, g).counters = Group(x, g).counters
           /\ Group(y, g).truth = Group(x, g).truth /\ Group(y, g).measured = Group(x, g).measured
  BY <1>3, <1>5, <1>7 DEF Added, Group
<1>9. LibType(y)
  BY <1>2, <1>3, <1>7 DEF LibType
<1> HIDE DEF x, y
<1>10. x.gs.activeGroup >= 0 => x.gs.activeGroup \in Added(x)
  BY <1>2, ActiveAdded
<1>11. UsedInv(y)
  BY <1>2, <1>8 DEF UsedInv
<1>12. ConfigInv(y)
  BY <1>2, <1>8, <1>10 DEF ConfigInv
<1>13. CountInv(y, happened)
  <2> SUFFICES ASSUME FixedAlike, NoWrap, ~Restarts
               PROVE  /\ \A t \in Threads : CpuCounts(y.cpu[t], happened)
                      /\ \A g \in Added(y) : GroupSane(Group(y, g), y.cpu) /\ GroupDone(Group(y, g), happened)
                      /\ y.gs.activeGroup >= 0 => GroupRuns(Group(y, y.gs.activeGroup), y.cpu)
    BY DEF CountInv
  <2>1. /\ \A t \in Threads : CpuCounts(x.cpu[t], happened)
        /\ \A g \in Added(x) : GroupSane(Group(x, g), x.cpu) /\ GroupDone(Group(x, g), happened)
        /\ x.gs.activeGroup >= 0 => GroupRuns(Group(x, x.gs.activeGroup), x.cpu)
    BY <1>2 DEF CountInv
  <2>2. \A g \in Added(x) : GroupSane(Group(y, g), y.cpu) /\ GroupDone(Group(y, g), happened)
    BY <1>8, <2>1 DEF GroupSane, GroupDone
  <2>3. x.gs.activeGroup >= 0 => GroupRuns(Group(y, x.gs.activeGroup), y.cpu)
    BY <1>8, <1>10, <2>1 DEF GroupRuns
  <2> QED BY <1>8, <2>1, <2>2, <2>3
<1>14. now' \in 0 .. MaxTime
  BY <1>1, PerfmonBoundsAssumption DEF PerfmonInv
<1> QED BY <1>1, <1>7, <1>9, <1>11, <1>12, <1>13, <1>14 DEF PerfmonInv, LibInv, OffAfterFinalize, y

\* An event on the CPU of one of the threads, seen by a counter of a running
\* group: the counter and the history move together.
LEMMA EventRuns ==
  ASSUME NEW q, CpuOK(q), NEW es \in EventSets, GroupConfigured(q, es), NEW c \in DOMAIN es, NEW e, NEW r, NEW lock,
         NEW k \in Nat, CounterRuns(q, c, r, lock, k), r.startData \in Nat, q.count[c] + 1 < Size(c),
         NEW hit \in BOOLEAN, NEW p, p = IF hit THEN EventOn(q, e) ELSE q,
         NEW m, m = IF hit /\ es[c] = e /\ (c \in Power => lock) THEN k + 1 ELSE k
  PROVE  CounterRuns(p, c, r, lock, m)
<1>1. c \in Counters /\ (c \in Power => es[c] = Joule) /\ q.count[c] \in Nat /\ (c \in Core => c \notin Power)
  BY EventSet, CountersAssumption DEF CpuOK, Cpu
<1>2. CASE ~hit
  BY <1>2
<1>3. CASE hit
  <2>1. p = EventOn(q, e)
    BY <1>3
  <2>2. /\ p.enabled = q.enabled
        /\ ~Counts(q, c, e) => p.count[c] = q.count[c]
        /\ Counts(q, c, e) => p.count[c] = q.count[c] + 1
    BY <1>1, <2>1, EventCpu
  <2>3. CASE c \in Core
    <3>1. Counts(q, c, e) <=> es[c] = e
      BY <1>1, <2>3 DEF CounterRuns, Counts, GroupConfigured
    <3> QED BY <1>1, <1>3, <2>2, <2>3, <3>1 DEF CounterRuns
  <2>4. CASE c \in Power
    <3>1. Counts(q, c, e) <=> es[c] = e
      BY <1>1, <2>4 DEF Counts
    <3>2. c \notin Core
      BY <1>1, <2>4
    <3> QED BY <1>1, <1>3, <2>2, <2>4, <3>1, <3>2 DEF CounterRuns
  <2> QED BY <1>1, <2>3, <2>4 DEF Counters
<1> QED BY <1>2, <1>3

\* Event
LEMMA EventStep ==
  ASSUME PerfmonInv, NEW th \in Threads, NEW e \in Flags, Event(th, e)
  PROVE  PerfmonInv'
<1> DEFINE hit == Where(th, e)
           tab == [g \in DOMAIN groupSet.groups |-> Witness(groupSet.groups[g], hit, e)]
           n == happened
           x == Now
           y == Now'
<1>1. n < MaxEvents /\ happened' = n + 1 /\ UNCHANGED <<perfmon_initialized, now>>
      /\ groupSet' = [groupSet EXCEPT !.groups = tab]
      /\ cpu' = [u \in Threads |-> IF u \in hit THEN EventOn(cpu[u], e) ELSE cpu[u]]
  BY DEF Event
<1>2. LibInv(x, n) /\ LibType(x) /\ UsedInv(x) /\ ConfigInv(x) /\ CountInv(x, n) /\ SetOK(groupSet)
  BY DEF PerfmonInv, LibInv, LibType, Now
<1>3. x.gs = groupSet /\ x.cpu = cpu /\ y.gs = groupSet' /\ y.cpu = cpu'
  BY DEF Now
<1>4. DOMAIN groupSet.groups = 0 .. groupSet.numberOfActiveGroups - 1
  <2> DEFINE f == groupSet.groups
             D == 0 .. groupSet.numberOfActiveGroups - 1
  <2>1. f = [g \in D |-> f[g]]
    BY <1>2 DEF SetOK
  <2> HIDE DEF f, D
  <2>2. DOMAIN f = D
    BY <2>1
  <2> QED BY <2>2 DEF f, D
<1> HIDE DEF hit
<1>5. ASSUME NEW g \in 0 .. groupSet.numberOfActiveGroups - 1
      PROVE  LET G == tab[g]
                 grp == groupSet.groups[g]
             IN /\ GroupOK(G) /\ G.state = grp.state /\ G.events = grp.events /\ G.counters = grp.counters
                /\ G.measured = grp.measured /\ (grp.state # "START" => G.truth = grp.truth)
                /\ grp.state = "START" => \A u \in Threads, c \in DOMAIN grp.events :
                     G.truth[u][c] = IF u \in hit /\ grp.events[c] = e /\ (c \in Power => HaveLock(u))
                                     THEN grp.truth[u][c] + 1 ELSE grp.truth[u][c]
  <2>1. tab[g] = Witness(groupSet.groups[g], hit, e) /\ GroupOK(groupSet.groups[g])
    BY <1>2, <1>4 DEF SetOK
  <2> QED BY <2>1, WitnessG
<1>6. tab = [g \in DOMAIN groupSet.groups |-> tab[g]]
  OBVIOUS
<1> HIDE DEF tab
<1>7. /\ SetOK(groupSet') /\ groupSet'.numberOfActiveGroups = groupSet.numberOfActiveGroups
      /\ groupSet'.activeGroup = groupSet.activeGroup /\ groupSet'.groups = tab
  BY <1>1, <1>2, <1>5, <1>6, MapGroups
<1>8. /\ Added(y) = Added(x) /\ y.gs.activeGroup = x.gs.activeGroup
      /\ \A g \in Added(x) :
           /\ Group(y, g).state = Group(x, g).state /\ Group(y, g).events = Group(x, g).events
           /\ Group(y, g).counters = Group(x, g).counters /\ Group(y, g).measured = Group(x, g).measured
           /\ Group(x, g).state # "START" => Group(y, g).truth = Group(x, g).truth
           /\ Group(x, g).state = "START" => \A u \in Threads, c \in DOMAIN Group(x, g).events :
                Group(y, g).truth[u][c] =
                  IF u \in hit /\ Group(x, g).events[c] = e /\ (c \in Power => HaveLock(u))
                  THEN Group(x, g).truth[u][c] + 1 ELSE Group(x, g).truth[u][c]
  BY <1>3, <1>5, <1>7 DEF Added, Group
<1>9. ASSUME NEW u \in Threads
      PROVE  /\ y.cpu[u] = (IF u \in hit THEN EventOn(x.cpu[u], e) ELSE x.cpu[u]) /\ CpuOK(x.cpu[u])
             /\ CpuOK(y.cpu[u]) /\ y.cpu[u].ctrl = x.cpu[u].ctrl /\ y.cpu[u].currentConfig = x.cpu[u].currentConfig
             /\ y.cpu[u].enabled = x.cpu[u].enabled
             /\ (\A c \in Counters : x.cpu[u].count[c] + 1 < Size(c)) =>
                  /\ y.cpu[u].status = x.cpu[u].status
                  /\ \A c \in Counters : y.cpu[u].count[c] \in {x.cpu[u].count[c], x.cpu[u].count[c] + 1}
  <2>1. y.cpu[u] = (IF u \in hit THEN EventOn(x.cpu[u], e) ELSE x.cpu[u]) /\ CpuOK(x.cpu[u])
    BY <1>1, <1>2, <1>3 DEF LibType
  <2> HIDE DEF x, y
  <2>2. CASE u \in hit
    <3>1. y.cpu[u] = EventOn(x.cpu[u], e)
      BY <2>1, <2>2
    <3> DEFINE q == x.cpu[u]
               p == y.cpu[u]
    <3>2. p = EventOn(q, e) /\ CpuOK(q)
      BY <2>1, <3>1
    <3> HIDE DEF p, q
    <3>3. /\ CpuOK(p) /\ p.ctrl = q.ctrl /\ p.currentConfig = q.currentConfig /\ p.enabled = q.enabled
          /\ \A c \in Counters : ~Counts(q, c, e) => p.count[c] = q.count[c]
          /\ \A c \in Counters : Counts(q, c, e) /\ q.count[c] + 1 < Size(c) => p.count[c] = q.count[c] + 1
          /\ (\A c \in Counters : q.count[c] + 1 < Size(c)) => p.status = q.status
      BY <3>2, EventCpu
    <3>4. (\A c \in Counters : q.count[c] + 1 < Size(c)) =>
             /\ p.status = q.status
             /\ \A c \in Counters : p.count[c] \in {q.count[c], q.count[c] + 1}
      BY <3>3
    <3> QED BY <2>1, <3>3, <3>4 DEF p, q
  <2>3. CASE u \notin hit
    BY <2>1, <2>3
  <2> QED BY <2>2, <2>3
<1>10. LibType(y)
  <2>1. y.cpu = [t \in Threads |-> y.cpu[t]]
    BY <1>1, <1>3
  <2> QED BY <1>3, <1>7, <1>9, <2>1 DEF LibType
<1>11. n \in Nat /\ MaxEvents \in Nat /\ n < MaxEvents
  BY <1>1, PerfmonBoundsAssumption DEF PerfmonInv
<1> HIDE DEF x, y, n
<1>12. x.gs.activeGroup >= 0 => x.gs.activeGroup \in Added(x)
  BY <1>2, ActiveAdded
<1>13. UsedInv(y)
  BY <1>2, <1>8, <1>9 DEF UsedInv
<1>14. ConfigInv(y)
  <2> SUFFICES ASSUME FixedAlike, NEW t \in Threads
               PROVE  /\ CpuConfigured(y.cpu[t])
                      /\ y.gs.activeGroup >= 0 => GroupConfigured(y.cpu[t], Group(y, y.gs.activeGroup).events)
    BY DEF ConfigInv
  <2>1. CpuConfigured(x.cpu[t]) /\ (x.gs.activeGroup >= 0 => GroupConfigured(x.cpu[t], Group(x, x.gs.activeGroup).events))
    BY <1>2 DEF ConfigInv
  <2>2. CpuConfigured(y.cpu[t])
    BY <1>9, <2>1 DEF CpuConfigured
  <2> QED BY <1>8, <1>9, <1>12, <2>1, <2>2 DEF GroupConfigured
<1>15. CountInv(y, n + 1)
  <2> SUFFICES ASSUME FixedAlike, NoWrap, ~Restarts
               PROVE  /\ \A t \in Threads : CpuCounts(y.cpu[t], n + 1)
                      /\ \A g \in Added(y) : GroupSane(Group(y, g), y.cpu) /\ GroupDone(Group(y, g), n + 1)
                      /\ y.gs.activeGroup >= 0 => GroupRuns(Group(y, y.gs.activeGroup), y.cpu)
    BY DEF CountInv
  <2>1. /\ \A t \in Threads : CpuCounts(x.cpu[t], n)
        /\ \A g \in Added(x) : GroupSane(Group(x, g), x.cpu) /\ GroupDone(Group(x, g), n)
        /\ x.gs.activeGroup >= 0 => GroupRuns(Group(x, x.gs.activeGroup), x.cpu)
    BY <1>2 DEF CountInv
  <2>2. ASSUME NEW t \in Threads, NEW c \in Counters
        PROVE  x.cpu[t].count[c] \in Nat /\ x.cpu[t].count[c] <= n /\ x.cpu[t].count[c] + 1 < Size(c)
    <3>1. x.cpu[t].count[c] \in Nat /\ x.cpu[t].count[c] <= n
      BY <1>9, <2>1 DEF CpuCounts, CpuOK, Cpu
    <3> DEFINE k == x.cpu[t].count[c]
    <3>2. k \in Nat /\ k <= n /\ n + 1 <= MaxEvents /\ MaxEvents < Size(c)
      BY <1>11, <3>1 DEF NoWrap, Size
    <3> HIDE DEF k
    <3>3. k + 1 < Size(c)
      BY <1>11, <3>2, Sizes
    <3> QED BY <3>1, <3>3 DEF k
  <2>3. ASSUME NEW t \in Threads
        PROVE  /\ y.cpu[t].status = {}
               /\ \A c \in Counters : /\ y.cpu[t].count[c] \in Nat /\ y.cpu[t].count[c] <= n + 1
                                      /\ x.cpu[t].count[c] <= y.cpu[t].count[c]
    <3>1. y.cpu[t].status = x.cpu[t].status
          /\ \A c \in Counters : y.cpu[t].count[c] \in {x.cpu[t].count[c], x.cpu[t].count[c] + 1}
      BY <1>9, <2>2
    <3>2. x.cpu[t].status = {}
      BY <2>1 DEF CpuCounts
    <3> QED BY <1>11, <2>2, <3>1, <3>2
  <2>4. \A t \in Threads : CpuCounts(y.cpu[t], n + 1)
    BY <2>3 DEF CpuCounts
  <2>5. ASSUME NEW g \in Added(x) PROVE GroupSane(Group(y, g), y.cpu)
    <3> DEFINE grp == Group(x, g)
    <3>1. ASSUME NEW t \in Threads, NEW c \in DOMAIN grp.events
          PROVE  CounterSane(y.cpu[t], c, grp.counters[t][c], HaveLock(t))
      <4>1. CounterSane(x.cpu[t], c, grp.counters[t][c], HaveLock(t))
        BY <2>1 DEF GroupSane
      <4>2. c \in Counters /\ grp.counters[t][c].counterData \in Nat
        BY <1>2, AddedGroup, GroupFields DEF PerfmonCounter
      <4> QED BY <2>2, <2>3, <4>1, <4>2 DEF CounterSane
    <3> QED BY <1>8, <3>1 DEF GroupSane
  <2>6. ASSUME NEW g \in Added(x) PROVE GroupDone(Group(y, g), n + 1)
    <3> DEFINE grp == Group(x, g)
    <3>1. GroupDone(grp, n) /\ GroupOK(grp)
      BY <1>2, <2>1, AddedGroup
    <3>2. ASSUME NEW t \in Threads, NEW c \in DOMAIN grp.events, grp.measured
          PROVE  CounterDone(grp.counters[t][c], n + 1, grp.truth[t][c])
      <4>1. CounterDone(grp.counters[t][c], n, grp.truth[t][c])
        BY <3>1, <3>2 DEF GroupDone
      <4>2. grp.truth[t][c] \in Nat
        BY <3>1, GroupFields
      <4> QED BY <1>11, <4>1, <4>2 DEF CounterDone
    <3>3. grp.measured => grp.state = "SETUP" /\ Group(y, g).truth = grp.truth
      BY <1>8, <3>1 DEF GroupDone
    <3> QED BY <1>8, <3>2, <3>3 DEF GroupDone
  <2>7. ASSUME x.gs.activeGroup >= 0 PROVE GroupRuns(Group(y, x.gs.activeGroup), y.cpu)
    <3> DEFINE a == x.gs.activeGroup
               grp == Group(x, a)
               es == grp.events
    <3>1. a \in Added(x) /\ GroupOK(grp) /\ es \in EventSets /\ GroupRuns(grp, x.cpu)
      BY <1>2, <1>12, <2>1, <2>7, AddedGroup
    <3>2. ASSUME grp.state = "START", NEW t \in Threads, NEW c \in DOMAIN es
          PROVE  CounterRuns(y.cpu[t], c, grp.counters[t][c], HaveLock(t), Group(y, a).truth[t][c])
      <4> DEFINE r == grp.counters[t][c]
                 k == grp.truth[t][c]
                 m == Group(y, a).truth[t][c]
                 q == x.cpu[t]
                 p == y.cpu[t]
                 b == t \in hit
                 lock == HaveLock(t)
      <4>1. c \in Counters /\ r.startData \in Nat /\ k \in Nat
        BY <3>1, GroupFields DEF PerfmonCounter
      <4>2. CpuOK(q) /\ GroupConfigured(q, es) /\ q.count[c] + 1 < Size(c) /\ CounterRuns(q, c, r, lock, k)
        BY <1>2, <1>9, <2>2, <2>7, <3>1, <3>2, <4>1 DEF ConfigInv, GroupRuns
      <4>3. b \in BOOLEAN /\ p = (IF b THEN EventOn(q, e) ELSE q)
        BY <1>9
      <4>4. m = IF b /\ es[c] = e /\ (c \in Power => lock) THEN k + 1 ELSE k
        BY <1>8, <3>1, <3>2
      <4> HIDE DEF r, k, m, q, p, b, lock, es
      <4>5. CounterRuns(p, c, r, lock, m)
        BY <3>1, <3>2, <4>1, <4>2, <4>3, <4>4, EventRuns
      <4> QED BY <4>5 DEF p, r, lock, m
    <3> QED BY <1>8, <3>1, <3>2 DEF GroupRuns
  <2> QED BY <1>8, <2>4, <2>5, <2>6, <2>7
<1>16. happened' \in 0 .. MaxEvents /\ happened' = n + 1
  BY <1>1, <1>11 DEF n
<1> QED BY <1>1, <1>7, <1>9, <1>10, <1>13, <1>14, <1>15, <1>16, <1>3 DEF PerfmonInv, LibInv, OffAfterFinalize, y, x

\* Every step preserves the invariant.
LEMMA InvStep == PerfmonInv /\ [Next]_vars => PerfmonInv'
<1> SUFFICES ASSUME PerfmonInv, [Next]_vars PROVE PerfmonInv'
  OBVIOUS
<1>1. CASE perfmon_init
  BY <1>1, InitStep
<1>2. CASE perfmon_finalize
  BY <1>2, FinalizeStep
<1>3. ASSUME NEW es \in EventSets, NEW garbage \in 0 .. MaxTime, perfmon_addEventSet(es, garbage) PROVE PerfmonInv'
  BY <1>3, AddStep
<1>4. ASSUME NEW g \in Groups, perfmon_setupCounters(g) \/ perfmon_switchActiveGroup(g) PROVE PerfmonInv'
  BY <1>4, SetupStep, SwitchStep
<1>5. CASE perfmon_startCounters \/ perfmon_stopCounters
  BY <1>5, StartStep, StopStep
<1>6. ASSUME NEW g \in Groups, NEW ts, perfmon_readCounters(g, ts) PROVE PerfmonInv'
  BY <1>6, ReadStep
<1>7. ASSUME NEW t \in Threads, perfmon_readCountersCpu(t) PROVE PerfmonInv'
  BY <1>7, ReadStep
<1>8. ASSUME NEW g \in Groups, NEW t \in Threads, NEW c \in Counters, perfmon_getResult(g, t, c) PROVE PerfmonInv'
  BY <1>8, ResultStep
<1>9. ASSUME NEW t \in Threads, NEW e \in Flags, Event(t, e) PROVE PerfmonInv'
  BY <1>9, EventStep
<1>10. CASE Tick
  BY <1>10, TickStep
<1>11. CASE UNCHANGED vars
  <2>1. Now' = Now /\ UNCHANGED <<perfmon_initialized, groupSet, cpu, now, happened>>
    BY <1>11 DEF vars, Now
  <2> QED BY <2>1 DEF PerfmonInv, OffAfterFinalize
<1> QED BY <1>1, <1>2, <1>3, <1>4, <1>5, <1>6, <1>7, <1>8, <1>9, <1>10, <1>11 DEF Next

\* A call that changes one group keeps the times right if it does for that
\* group.
LEMMA TimeCall ==
  ASSUME TimeInv, LibType(Now), NEW y, Becomes(y), now' = now, NEW g \in Added(Now), NEW G, Replaced(Now, y, g, G),
         ~MaySwitch /\ ~SetupAnytime /\ TimeOK(groupSet.groups[g], now) => TimeOK(G, now)
  PROVE  TimeInv'
<1> SUFFICES ASSUME ~MaySwitch, ~SetupAnytime, NEW h \in AddedGroups' PROVE TimeOK(groupSet'.groups[h], now')
  BY DEF TimeInv
<1>1. Now.gs = groupSet /\ groupSet' = y.gs
  BY DEF Now, Becomes
<1>2. h \in AddedGroups /\ Added(Now) = AddedGroups
  BY <1>1 DEF Replaced, AddedGroups, Added
<1>3. TimeOK(groupSet.groups[h], now) /\ TimeOK(groupSet.groups[g], now)
  BY <1>2 DEF TimeInv
<1>4. groupSet'.groups[h] = IF h = g THEN G ELSE groupSet.groups[h]
  BY <1>1, <1>2 DEF Replaced, Group
<1>5. TimeOK(groupSet'.groups[h], now')
  BY <1>3, <1>4
<1> QED BY <1>5

\* Every step preserves the times.
LEMMA TimeStep == PerfmonInv /\ TimeInv /\ [Next]_vars => TimeInv'
<1> SUFFICES ASSUME PerfmonInv, TimeInv, [Next]_vars, ~MaySwitch, ~SetupAnytime PROVE TimeInv'
  BY DEF TimeInv
<1>0. /\ LibInv(Now, happened) /\ LibType(Now) /\ now \in 0 .. MaxTime /\ happened \in 0 .. MaxEvents /\ happened \in Nat
      /\ Now.gs = groupSet /\ Now.cpu = cpu /\ Now.gs.activeGroup = Active /\ Added(Now) = AddedGroups
      /\ \A g : Group(Now, g) = groupSet.groups[g]
      /\ \A g \in Groups : g < groupSet.numberOfActiveGroups => g \in Added(Now)
      /\ Active >= 0 => Active \in Added(Now)
  BY CallFacts DEF LibInv, Added, AddedGroups
<1>a. \A g \in Added(Now) : TimeOK(groupSet.groups[g], now) /\ GroupOK(groupSet.groups[g])
  BY <1>0, AddedGroup DEF TimeInv
<1>b. \A t \in Threads : CpuOK(cpu[t])
  BY <1>0 DEF LibType
<1>1. CASE perfmon_init \/ perfmon_finalize
  <2>1. AddedGroups' = {}
    BY <1>1 DEF perfmon_init, perfmon_finalize, NoGroups, AddedGroups
  <2> QED BY <2>1 DEF TimeInv
<1>2. ASSUME NEW es \in EventSets, NEW garbage \in 0 .. MaxTime, perfmon_addEventSet(es, garbage) PROVE TimeInv'
  <2> DEFINE n == groupSet.numberOfActiveGroups
             fresh == NewGroup(es, garbage)
             tab == [g \in 0 .. n |-> IF g < n THEN groupSet.groups[g] ELSE fresh]
  <2>1. TimeOK(fresh, now)
    BY DEF NewGroup, TimeOK
  <2>2. n \in Nat /\ now' = now
    BY <1>0, <1>2, ActiveAdded DEF perfmon_addEventSet
  <2>3. groupSet \in [numberOfGroups : Nat, numberOfActiveGroups : 0 .. MaxGroups, activeGroup : Int, groups : {groupSet.groups}]
    BY <1>0 DEF LibType, SetOK
  <2>4. \/ groupSet'.numberOfActiveGroups = n /\ groupSet'.groups = groupSet.groups
        \/ groupSet'.numberOfActiveGroups = n + 1 /\ groupSet'.groups = tab
    <3> HIDE DEF fresh
    <3> QED BY <1>2, <2>3 DEF perfmon_addEventSet, fresh
  <2> HIDE DEF fresh
  <2>5. ASSUME NEW g \in AddedGroups' PROVE TimeOK(groupSet'.groups[g], now)
    <3>1. CASE groupSet'.numberOfActiveGroups = n /\ groupSet'.groups = groupSet.groups
      BY <1>0, <1>a, <3>1 DEF AddedGroups
    <3>2. CASE groupSet'.numberOfActiveGroups = n + 1 /\ groupSet'.groups = tab
      <4>1. g \in 0 .. n
        BY <2>2, <3>2 DEF AddedGroups
      <4>2. g < n => g \in Added(Now)
        BY <1>0, <2>2, <4>1 DEF AddedGroups
      <4> QED BY <1>a, <2>1, <3>2, <4>1, <4>2
    <3> QED BY <2>4, <3>1, <3>2
  <2> QED BY <2>2, <2>5 DEF TimeInv
<1>3. ASSUME NEW g \in Groups, perfmon_setupCounters(g) PROVE TimeInv'
  <2> DEFINE y == Setup(Now, g)
             grp == groupSet.groups[g]
             G == SetupGroup(grp)
  <2>1. g \in Added(Now) /\ ~Running(g) /\ Becomes(y) /\ now' = now
    BY <1>0, <1>3 DEF perfmon_setupCounters, AddedGroups
  <2>2. Replaced(Now, y, g, G)
    BY <1>0, <2>1, SetupLib DEF Replaced, LibInv
  <2>3. G.state = "SETUP" /\ G.runTime = grp.runTime /\ G.ran = grp.ran
    BY <1>a, <2>1, SetupG
  <2>4. TimeOK(grp, now) => TimeOK(G, now)
    BY <2>1, <2>3 DEF TimeOK, Running
  <2> HIDE DEF y, G
  <2> QED BY <1>0, <2>1, <2>2, <2>4, TimeCall
<1>4. CASE perfmon_startCounters
  <2> DEFINE g == Active
             y == Start(Now, g)
             grp == groupSet.groups[g]
             G == StartGroup(grp, cpu)
  <2>1. g \in Added(Now) /\ Becomes(y) /\ now' = now /\ grp.state = "SETUP" /\ (Restarts \/ Prepared(g))
    BY <1>0, <1>4 DEF perfmon_startCounters
  <2>2. ~Restarts => \A t \in Threads : \A c \in DOMAIN Group(Now, g).events : Group(Now, g).counters[t][c].init
    BY <1>0, <2>1 DEF Prepared
  <2>3. Replaced(Now, y, g, G)
    <3>1. Replaced(Now, y, g, StartGroup(Group(Now, g), Now.cpu))
      BY <1>0, <2>1, <2>2, StartLib
    <3> QED BY <1>0, <3>1
  <2>4. G.state = "START" /\ G.runTime = grp.runTime /\ G.ran = grp.ran /\ G.timer.start = now /\ grp.runTime \in Nat
    BY <1>0, <1>a, <1>b, <2>1, StartG, GroupFields
  <2>5. TimeOK(grp, now) => TimeOK(G, now)
    BY <1>0, <2>1, <2>4 DEF TimeOK
  <2> HIDE DEF y, G, g
  <2> QED BY <1>0, <2>1, <2>3, <2>5, TimeCall
<1>5. CASE perfmon_stopCounters
  <2> DEFINE g == Active
             y == Stop(Now, g)
             grp == groupSet.groups[g]
             G == StopGroup(grp, cpu)
  <2>1. g \in Added(Now) /\ Becomes(y) /\ now' = now /\ grp.state = "START" /\ Group(Now, g).state = "START"
    BY <1>0, <1>5 DEF perfmon_stopCounters, Running
  <2>2. Replaced(Now, y, g, G)
    <3>1. Replaced(Now, y, g, StopGroup(Group(Now, g), Now.cpu))
      BY <1>0, <2>1, StopLib
    <3> QED BY <1>0, <3>1
  <2>3. /\ G.state = "SETUP" /\ G.ran = grp.ran /\ grp.runTime \in Nat /\ grp.timer.start \in 0 .. MaxTime
        /\ G.runTime = grp.runTime + IF now <= grp.timer.start THEN 0 ELSE now - grp.timer.start
    BY <1>0, <1>a, <1>b, <2>1, StopG, GroupFields
  <2>4. TimeOK(grp, now) => TimeOK(G, now)
    BY <1>0, <2>1, <2>3, PerfmonBoundsAssumption DEF TimeOK
  <2> HIDE DEF y, G, g
  <2> QED BY <1>0, <2>1, <2>2, <2>4, TimeCall
<1>6. ASSUME NEW g \in Added(Now), NEW ts, Becomes(Read(Now, g, ts)), now' = now PROVE TimeInv'
  <2> DEFINE y == Read(Now, g, ts)
             grp == groupSet.groups[g]
             G == ReadGroup(grp, cpu, ts)
  <2>1. Replaced(Now, y, g, G)
    <3>1. Replaced(Now, y, g, ReadGroup(Group(Now, g), Now.cpu, ts))
      BY <1>0, <1>6, ReadLib
    <3> QED BY <1>0, <3>1
  <2>2. G.state = grp.state /\ G.ran = grp.ran /\ G.runTime = grp.runTime /\ G.timer = grp.timer
    BY <1>a, <1>b, ReadG
  <2>3. TimeOK(grp, now) => TimeOK(G, now)
    BY <2>2 DEF TimeOK
  <2> HIDE DEF y, G
  <2> QED BY <1>0, <1>6, <2>1, <2>3, TimeCall DEF y
<1>7. ASSUME NEW g \in Groups, NEW t \in Threads, NEW c, perfmon_getResult(g, t, c) PROVE TimeInv'
  <2> DEFINE y == [gs |-> groupSet', cpu |-> cpu']
             grp == groupSet.groups[g]
             G == EvaluatedGroup(grp, t, c)
  <2>1. g \in Added(Now) /\ c \in DOMAIN grp.events /\ groupSet' = WithGroup(groupSet, g, G) /\ now' = now /\ cpu' = cpu
    BY <1>0, <1>7 DEF perfmon_getResult
  <2>2. GroupOK(G) /\ G.state = grp.state /\ G.ran = grp.ran /\ G.runTime = grp.runTime /\ G.timer = grp.timer
    BY <1>a, <2>1, EvaluatedG
  <2>3. TimeOK(grp, now) => TimeOK(G, now)
    BY <2>2 DEF TimeOK
  <2> HIDE DEF G
  <2>4. y.gs = WithGroup(Now.gs, g, G) /\ y.cpu = Now.cpu /\ Becomes(y)
    BY <1>0, <2>1 DEF Becomes
  <2>5. y.cpu = [u \in Threads |-> y.cpu[u]] /\ \A u \in Threads : CpuOK(y.cpu[u])
    BY <1>0, <2>4 DEF LibType
  <2> HIDE DEF y
  <2>6. Replaced(Now, y, g, G)
    BY <1>0, <2>1, <2>2, <2>4, <2>5, ReplaceType
  <2> QED BY <1>0, <2>1, <2>3, <2>4, <2>6, TimeCall
<1>8. ASSUME NEW g \in Groups, perfmon_switchActiveGroup(g) PROVE TimeInv'
  BY <1>8 DEF perfmon_switchActiveGroup
<1>c. /\ groupSet \in [numberOfGroups : Nat, numberOfActiveGroups : 0 .. MaxGroups, activeGroup : Int, groups : {groupSet.groups}]
      /\ DOMAIN groupSet.groups = AddedGroups
  <2> DEFINE f == groupSet.groups
             D == 0 .. groupSet.numberOfActiveGroups - 1
  <2>1. f = [g \in D |-> f[g]]
    BY <1>0 DEF LibType, SetOK
  <2>2. groupSet \in [numberOfGroups : Nat, numberOfActiveGroups : 0 .. MaxGroups, activeGroup : Int, groups : {groupSet.groups}]
    BY <1>0 DEF LibType, SetOK
  <2> HIDE DEF f, D
  <2>3. DOMAIN f = D
    BY <2>1
  <2> QED BY <2>2, <2>3 DEF f, D, AddedGroups
<1>9. ASSUME NEW th \in Threads, NEW e \in Flags, Event(th, e) PROVE TimeInv'
  <2> DEFINE hit == Where(th, e)
             tab == [g \in DOMAIN groupSet.groups |-> Witness(groupSet.groups[g], hit, e)]
  <2>1. groupSet' = [groupSet EXCEPT !.groups = tab] /\ now' = now
    BY <1>9 DEF Event
  <2> HIDE DEF hit
  <2>2. ASSUME NEW g \in AddedGroups PROVE TimeOK(tab[g], now)
    <3> DEFINE grp == groupSet.groups[g]
               G == Witness(grp, hit, e)
    <3>1. GroupOK(grp) /\ TimeOK(grp, now) /\ tab[g] = G
      BY <1>0, <1>a, <1>c
    <3>2. G.state = grp.state /\ G.ran = grp.ran /\ G.runTime = grp.runTime /\ G.timer = grp.timer
      BY <3>1, WitnessG
    <3> HIDE DEF G
    <3> QED BY <3>1, <3>2 DEF TimeOK
  <2> HIDE DEF tab
  <2>3. groupSet'.groups = tab /\ AddedGroups' = AddedGroups
    BY <1>c, <2>1 DEF AddedGroups
  <2> QED BY <2>1, <2>2, <2>3 DEF TimeInv
<1>10. CASE Tick
  <2> DEFINE tab == [g \in DOMAIN groupSet.groups |-> Timed(groupSet.groups[g])]
  <2>1. groupSet' = [groupSet EXCEPT !.groups = tab] /\ now' = now + 1
    BY <1>10 DEF Tick
  <2>2. ASSUME NEW g \in AddedGroups PROVE TimeOK(tab[g], now + 1)
    <3> DEFINE grp == groupSet.groups[g]
               G == Timed(grp)
    <3>1. GroupOK(grp) /\ TimeOK(grp, now) /\ tab[g] = G
      BY <1>0, <1>a, <1>c
    <3>2. G.state = grp.state /\ G.ran = (IF grp.state = "START" THEN grp.ran + 1 ELSE grp.ran)
          /\ G.runTime = grp.runTime /\ G.timer = grp.timer
      BY <3>1, TimedG
    <3>3. now \in Int /\ grp.ran \in Nat /\ grp.runTime \in Nat /\ grp.timer.start \in Int
      BY <1>0, <3>1, GroupFields, PerfmonBoundsAssumption
    <3> HIDE DEF G
    <3> QED BY <3>1, <3>2, <3>3 DEF TimeOK
  <2> HIDE DEF tab
  <2>3. groupSet'.groups = tab /\ AddedGroups' = AddedGroups
    BY <1>c, <2>1 DEF AddedGroups
  <2> QED BY <2>1, <2>2, <2>3 DEF TimeInv
<1>11. CASE UNCHANGED vars
  BY <1>11 DEF vars, TimeInv, AddedGroups
<1>12. ASSUME NEW g \in Groups, NEW ts, perfmon_readCounters(g, ts) PROVE TimeInv'
  BY <1>0, <1>6, <1>12 DEF perfmon_readCounters
<1>13. ASSUME NEW t \in Threads, perfmon_readCountersCpu(t) PROVE TimeInv'
  BY <1>0, <1>6, <1>13 DEF perfmon_readCountersCpu
<1> QED BY <1>1, <1>2, <1>3, <1>4, <1>5, <1>7, <1>8, <1>9, <1>10, <1>11, <1>12, <1>13 DEF Next

-----------------------------------------------------------------------------
(* Counters that overflow *)

\* Hypotheses of the theorem about overflows: the program sets a group up before
\* each start, while no other runs, and reads a CPU only while its group runs;
\* and no counter overflows twice between a start and the stop that follows.
OneAtATime == FixedAlike /\ ~Restarts /\ ~SetupAnytime /\ ~ReadsIdle
OverOnce ==
    \A g \in AddedGroups : Running(g) =>
        \A t \in Threads, c \in DOMAIN groupSet.groups[g].events : Reached(g, t, c) < 2 * Size(c)

\* A counter that was started at 0 or above and has counted up to v since: it
\* has overflowed if v is no less than its size, and that was noticed at most
\* once (asking for the result meanwhile uses the overflow up).
Overflowing(r, v, value, size) ==
    \/ v < size /\ value = v /\ r.overflows = 0 /\ r.counterData <= value
    \/ v >= size /\ value = v - size /\ (r.overflows = 0 \/ (r.overflows = 1 /\ r.counterData <= value))
\* a counter of a running group, and one that was stopped
WrapRuns(q, c, r, lock, k) ==
    /\ r.init /\ r.fullData = 0
    /\ c \in Core => r.startData = 0 /\ c \in q.enabled
    /\ c \in Power /\ ~lock => r.startData = 0 /\ r.counterData = 0 /\ r.overflows = 0 /\ k = 0
    /\ (c \in Power => lock) => Overflowing(r, r.startData + k, q.count[c], Size(c))
WrapDone(c, r, k) == ~r.init /\ (r.startData + k < Size(c) => r.counterData = r.startData + k /\ r.fullData = k)
\* The groups: no overflow is left over once a group is stopped.
GroupWraps(grp, cpus) ==
    \A t \in Threads, c \in DOMAIN grp.events :
        /\ grp.state = "START" => WrapRuns(cpus[t], c, grp.counters[t][c], HaveLock(t), grp.truth[t][c])
        /\ grp.state # "START" => grp.counters[t][c].overflows = 0
        /\ grp.measured => grp.state = "SETUP" /\ WrapDone(c, grp.counters[t][c], grp.truth[t][c])
NoneRunning(x) == \A g \in Added(x) : Group(x, g).state # "START"
WrapInv(x) ==
    OneAtATime => \A g \in Added(x) : /\ GroupWraps(Group(x, g), x.cpu)
                                      /\ Group(x, g).state = "START" => g = x.gs.activeGroup

\* What an operation on group g has to show.
LEMMA WrapKeeps ==
  ASSUME NEW x, WrapInv(x), NEW g \in Added(x), NEW G, NEW y, Replaced(x, y, g, G),
         OneAtATime => /\ GroupWraps(G, y.cpu) /\ (G.state = "START" => g = y.gs.activeGroup)
                       /\ \/ \A h \in Added(x) : h # g => Group(x, h).state # "START"
                          \/ y.cpu = x.cpu /\ y.gs.activeGroup = x.gs.activeGroup
  PROVE  WrapInv(y)
<1> SUFFICES ASSUME OneAtATime, NEW h \in Added(x)
             PROVE  GroupWraps(Group(y, h), y.cpu) /\ (Group(y, h).state = "START" => h = y.gs.activeGroup)
  BY DEF WrapInv, Replaced, Added
<1>1. CASE h = g
  BY <1>1 DEF Replaced
<1>2. CASE h # g
  <2>1. Group(y, h) = Group(x, h) /\ GroupWraps(Group(x, h), x.cpu) /\ (Group(x, h).state = "START" => h = x.gs.activeGroup)
    BY <1>2 DEF Replaced, WrapInv
  <2> QED BY <1>2, <2>1 DEF GroupWraps
<1> QED BY <1>1, <1>2

\* Setup
LEMMA WrapSetup ==
  ASSUME NEW x, NEW n \in Nat, LibInv(x, n), WrapInv(x), OneAtATime => NoneRunning(x), NEW g \in Added(x), NEW y, y = Setup(x, g)
  PROVE  WrapInv(y) /\ (OneAtATime => NoneRunning(y))
<1> DEFINE G == SetupGroup(Group(x, g))
<1>1. GroupOK(Group(x, g))
  BY AddedGroup DEF LibInv
<1>2. Replaced(x, y, g, G)
  BY SetupLib DEF Replaced, LibInv
<1>3. /\ G.state = "SETUP" /\ G.events = Group(x, g).events /\ ~G.measured
      /\ \A t \in Threads, c \in DOMAIN G.events : G.counters[t][c].overflows = Group(x, g).counters[t][c].overflows
  BY <1>1, SetupG
<1> HIDE DEF G
<1>4. OneAtATime => GroupWraps(G, y.cpu)
  BY <1>3 DEF GroupWraps, WrapInv, NoneRunning
<1>5. WrapInv(y)
  BY <1>2, <1>3, <1>4, WrapKeeps DEF NoneRunning
<1> QED BY <1>2, <1>3, <1>5 DEF NoneRunning, Replaced, Added

\* Start: a counter begins below its size, without an overflow.
LEMMA WrapStart ==
  ASSUME NEW x, NEW n \in Nat, LibInv(x, n), WrapInv(x), OneAtATime => NoneRunning(x), now \in 0 .. MaxTime,
         NEW g \in Added(x), x.gs.activeGroup = g,
         ~Restarts => \A t \in Threads : \A c \in DOMAIN Group(x, g).events : Group(x, g).counters[t][c].init,
         NEW y, y = Start(x, g)
  PROVE  WrapInv(y)
<1> DEFINE grp == Group(x, g)
           G == StartGroup(grp, x.cpu)
           es == grp.events
<1>1. GroupOK(grp) /\ es \in EventSets /\ \A t \in Threads : CpuOK(x.cpu[t])
  BY AddedGroup DEF LibInv, LibType
<1>2. /\ G.state = "START" /\ G.events = es /\ ~G.measured
      /\ \A t \in Threads, c \in DOMAIN es :
           G.truth[t][c] = 0 /\ G.counters[t][c] = StartedCounter(x.cpu[t], c, grp.counters[t][c], HaveLock(t))
  BY <1>1, StartG
<1>3. Replaced(x, y, g, G) /\ y.gs.activeGroup = g
  BY StartLib
<1>4. y.cpu = [t \in Threads |-> perfmon_startCountersThread(x.cpu[t], es, grp.counters[t])]
  BY DEF Start
<1> HIDE DEF G
<1>5. ASSUME OneAtATime, NEW t \in Threads, NEW c \in DOMAIN es
      PROVE  WrapRuns(y.cpu[t], c, G.counters[t][c], HaveLock(t), 0)
  <2> DEFINE r == grp.counters[t][c]
             s == G.counters[t][c]
             cs == grp.counters[t]
             q == x.cpu[t]
             p == y.cpu[t]
  <2>1. CounterOK(c, r) /\ c \in Counters /\ r.init /\ s = StartedCounter(q, c, r, HaveLock(t)) /\ r.overflows = 0
    BY <1>1, <1>2, <1>5, GroupFields DEF OneAtATime, WrapInv, GroupWraps, NoneRunning
  <2>2. CpuOK(q) /\ p = perfmon_startCountersThread(q, es, cs) /\ cs[c] = r
    BY <1>1, <1>4
  <2> HIDE DEF r, s, cs, q, p
  <2>3. /\ s.overflows = 0 /\ s.init /\ s.counterData = 0 /\ s.fullData = 0
        /\ s.startData = IF c \in Power /\ HaveLock(t) THEN q.count[c] ELSE 0
    BY <2>1, <2>2, StartCounter
  <2>4. /\ p.count[c] = IF c \in DOMAIN es \cap Core /\ cs[c].init THEN 0 ELSE q.count[c]
        /\ c \in Core => c \in p.enabled
    BY <1>1, <2>1, <2>2, StartCpu
  <2>5. q.count[c] \in Nat /\ q.count[c] < Size(c) /\ Size(c) \in Nat \ {0} /\ (c \in Core <=> c \notin Power)
    BY <2>1, <2>2, Sizes, CountersAssumption DEF CpuOK, Cpu, Counters
  <2>6. WrapRuns(p, c, s, HaveLock(t), 0)
    <3>1. CASE c \in Power
      BY <2>3, <2>4, <2>5, <3>1 DEF WrapRuns, Overflowing
    <3>2. CASE c \notin Power
      <4>1. s.startData = 0 /\ p.count[c] = 0
        BY <2>1, <2>2, <2>3, <2>4, <2>5, <3>2
      <4> QED BY <2>3, <2>4, <2>5, <3>2, <4>1 DEF WrapRuns, Overflowing
    <3> QED BY <3>1, <3>2
  <2> QED BY <2>6 DEF p, s
<1>6. OneAtATime => GroupWraps(G, y.cpu)
  BY <1>2, <1>5 DEF GroupWraps
<1> QED BY <1>3, <1>6, WrapKeeps DEF NoneRunning

\* Reading a counter of a running group notices an overflow, at most once.
LEMMA WrapSample ==
  ASSUME NEW q, CpuOK(q), NEW c \in Counters, NEW r, CounterOK(c, r), NEW lock, NEW k \in Nat, WrapRuns(q, c, r, lock, k),
         NEW s, s = SampledCounter(q, c, r, lock)
  PROVE  /\ WrapRuns(q, c, s, lock, k) /\ s.overflows \in {0, 1} /\ s.startData = r.startData
         /\ r.startData + k < Size(c) => s.overflows = 0 /\ s.counterData = r.startData + k
<1>1. /\ s.init = r.init /\ s.startData = r.startData /\ s.fullData = r.fullData
      /\ ~r.init \/ (c \in Power /\ ~lock) => s = r
      /\ r.init /\ (c \in Power => lock) => s.counterData = q.count[c]
      /\ s.overflows \in {r.overflows, r.overflows + 1}
      /\ ~(q.count[c] < r.counterData /\ (c \in Power \/ c \in q.status)) => s.overflows = r.overflows
  BY SampleCounter
<1>2. /\ q.count[c] \in Nat /\ q.count[c] < Size(c) /\ Size(c) \in Nat /\ r.startData \in Nat /\ r.counterData \in Nat
      /\ r.overflows \in Nat
  BY Sizes DEF CpuOK, Cpu, CounterOK, PerfmonCounter
<1>3. CASE c \in Power /\ ~lock
  BY <1>1, <1>2, <1>3 DEF WrapRuns
<1>4. CASE c \in Power => lock
  <2>1. s.counterData = q.count[c]
    BY <1>1, <1>4 DEF WrapRuns
  <2>2. CASE r.startData + k < Size(c)
    BY <1>1, <1>2, <1>4, <2>1, <2>2 DEF WrapRuns, Overflowing
  <2>3. CASE r.startData + k >= Size(c)
    <3>1. q.count[c] = r.startData + k - Size(c) /\ s.overflows \in {0, 1}
      BY <1>1, <1>2, <1>4, <2>3 DEF WrapRuns, Overflowing
    <3> QED BY <1>1, <1>2, <1>4, <2>1, <2>3, <3>1 DEF WrapRuns, Overflowing
  <2> QED BY <1>2, <2>2, <2>3
<1> QED BY <1>3, <1>4

\* Stop: the result of a counter that did not overflow is right, and no
\* overflow is left over.
LEMMA WrapStop ==
  ASSUME NEW x, NEW n \in 0 .. MaxEvents, LibInv(x, n), WrapInv(x), now \in 0 .. MaxTime, NEW g \in Added(x), x.gs.activeGroup = g,
         Group(x, g).state = "START", NEW y, y = Stop(x, g)
  PROVE  WrapInv(y) /\ (OneAtATime => NoneRunning(y))
<1> DEFINE grp == Group(x, g)
           G == StopGroup(grp, x.cpu)
           es == grp.events
<1>1. GroupOK(grp) /\ es \in EventSets /\ \A t \in Threads : CpuOK(x.cpu[t])
  BY AddedGroup DEF LibInv, LibType
<1>2. /\ G.state = "SETUP" /\ G.events = es /\ G.truth = grp.truth
      /\ \A t \in Threads, c \in DOMAIN es :
           G.counters[t][c] = Aggregated(c, StoppedCounter(x.cpu[t], c, grp.counters[t][c], HaveLock(t)))
  BY <1>1, StopG
<1>3. Replaced(x, y, g, G)
  BY StopLib
<1> HIDE DEF G
<1>4. ASSUME OneAtATime, NEW t \in Threads, NEW c \in DOMAIN es
      PROVE  G.counters[t][c].overflows = 0 /\ WrapDone(c, G.counters[t][c], G.truth[t][c])
  <2> DEFINE r == grp.counters[t][c]
             s == G.counters[t][c]
             q == x.cpu[t]
             u == SampledCounter(q, c, r, HaveLock(t))
             k == grp.truth[t][c]
  <2>1. /\ CounterOK(c, r) /\ c \in Counters /\ s = Aggregated(c, StoppedCounter(q, c, r, HaveLock(t)))
        /\ G.truth[t][c] = k /\ k \in Nat /\ CpuOK(q)
    BY <1>1, <1>2, GroupFields
  <2>2. WrapRuns(q, c, r, HaveLock(t), k)
    BY <1>4 DEF WrapInv, GroupWraps
  <2> HIDE DEF r, s, q, u, k
  <2>3. /\ u.overflows \in {0, 1} /\ u.startData = r.startData
        /\ r.startData + k < Size(c) => u.overflows = 0 /\ u.counterData = r.startData + k
    BY <2>1, <2>2, WrapSample DEF u
  <2>4. /\ ~s.init /\ s.startData = r.startData /\ s.counterData = u.counterData
        /\ u.overflows > 0 => s.overflows = u.overflows - 1
        /\ u.overflows = 0 => s.overflows = 0 /\ s.fullData = r.fullData + ((u.counterData - r.startData) % Word)
    BY <2>1, StopCounter DEF u
  <2>5. s.overflows = 0
    BY <2>3, <2>4
  <2>6. ASSUME s.startData + k < Size(c) PROVE s.counterData = s.startData + k /\ s.fullData = k
    <3>1. /\ u.counterData - r.startData = k /\ s.counterData = r.startData + k /\ r.fullData = 0
          /\ s.fullData = r.fullData + ((u.counterData - r.startData) % Word)
          /\ r.startData \in Nat
      BY <2>1, <2>2, <2>3, <2>4, <2>6 DEF WrapRuns, CounterOK, PerfmonCounter
    <3>2. k < Size(c) /\ Size(c) \in Nat
      BY <2>1, <2>4, <2>6, <3>1, Sizes
    <3>3. Word \in Nat /\ Size(c) <= Word
      <4>1. 1 \in Nat /\ CoreSize \in Nat /\ PowerSize \in Nat /\ 1 <= CoreSize /\ 1 <= PowerSize
        BY SizeAssumption
      <4>2. CoreSize * PowerSize \in Nat /\ CoreSize * 1 <= CoreSize * PowerSize /\ PowerSize * 1 <= PowerSize * CoreSize
        BY <4>1, MulMono
      <4> QED BY <4>1, <4>2 DEF Word, Size
    <3>4. k % Word = k
      BY <2>1, <3>2, <3>3, SmallMod
    <3>5. (u.counterData - r.startData) % Word = k
      BY <3>1, <3>4
    <3>6. s.fullData = 0 + k
      BY <3>1, <3>5
    <3>7. s.fullData = k
      BY <2>1, <3>6
    <3>8. s.counterData = s.startData + k
      BY <2>3, <2>4, <2>6
    <3> QED BY <3>7, <3>8
  <2> QED BY <2>1, <2>4, <2>5, <2>6 DEF WrapDone, s, k
<1>5. OneAtATime => GroupWraps(G, y.cpu)
  BY <1>2, <1>4 DEF GroupWraps
<1>6. OneAtATime => \A h \in Added(x) : h # g => Group(x, h).state # "START"
  BY DEF WrapInv
<1> HIDE DEF grp, es
<1>7. WrapInv(y)
  BY <1>2, <1>3, <1>5, <1>6, WrapKeeps
<1> QED BY <1>2, <1>3, <1>6, <1>7 DEF NoneRunning, Replaced, Added

\* Read, of a running group
LEMMA WrapRead ==
  ASSUME NEW x, NEW n \in Nat, LibInv(x, n), WrapInv(x), NEW g \in Added(x), OneAtATime => Group(x, g).state = "START",
         NEW ts, NEW y, y = Read(x, g, ts)
  PROVE  WrapInv(y)
<1> DEFINE grp == Group(x, g)
           G == ReadGroup(grp, x.cpu, ts)
           es == grp.events
<1>1. GroupOK(grp) /\ es \in EventSets /\ \A t \in Threads : CpuOK(x.cpu[t])
  BY AddedGroup DEF LibInv, LibType
<1>2. /\ G.state = grp.state /\ G.events = es /\ G.truth = grp.truth /\ G.measured = grp.measured
      /\ \A t \in Threads, c \in DOMAIN es :
           G.counters[t][c] \in {SampledCounter(x.cpu[t], c, grp.counters[t][c], HaveLock(t)), grp.counters[t][c]}
  BY <1>1, ReadG
<1>3. Replaced(x, y, g, G) /\ y.gs.activeGroup = x.gs.activeGroup
  BY ReadLib
<1>4. y.cpu = [t \in Threads |-> IF t \in ts THEN perfmon_readCountersThread(x.cpu[t], es, grp.counters[t]) ELSE x.cpu[t]]
  BY DEF Read
<1> HIDE DEF G
<1>5. ASSUME NEW t \in Threads PROVE y.cpu[t].enabled = x.cpu[t].enabled /\ y.cpu[t].count = x.cpu[t].count
  <2> DEFINE cs == grp.counters[t]
  <2>1. CpuOK(x.cpu[t]) /\ (y.cpu[t] = x.cpu[t] \/ y.cpu[t] = perfmon_readCountersThread(x.cpu[t], es, cs))
    BY <1>1, <1>4
  <2> HIDE DEF cs, es, grp
  <2> QED BY <2>1, ReadsCpu
<1>6. ASSUME OneAtATime, NEW t \in Threads, NEW c \in DOMAIN es
      PROVE  WrapRuns(y.cpu[t], c, G.counters[t][c], HaveLock(t), G.truth[t][c]) /\ ~grp.measured
  <2> DEFINE r == grp.counters[t][c]
             s == G.counters[t][c]
             q == x.cpu[t]
             u == SampledCounter(q, c, r, HaveLock(t))
             k == grp.truth[t][c]
  <2>1. CounterOK(c, r) /\ c \in Counters /\ s \in {u, r} /\ G.truth[t][c] = k /\ k \in Nat /\ CpuOK(q)
    BY <1>1, <1>2, GroupFields
  <2>2. WrapRuns(q, c, r, HaveLock(t), k) /\ ~grp.measured
    BY <1>6 DEF WrapInv, GroupWraps
  <2>3. WrapRuns(q, c, u, HaveLock(t), k)
    <3> HIDE DEF r, q, k
    <3> QED BY <2>1, <2>2, WrapSample
  <2> HIDE DEF r, s, q, u, k
  <2>4. WrapRuns(q, c, s, HaveLock(t), k)
    BY <2>1, <2>2, <2>3
  <2>5. WrapRuns(y.cpu[t], c, s, HaveLock(t), k)
    BY <1>5, <2>4 DEF WrapRuns, q
  <2> QED BY <2>1, <2>2, <2>5 DEF s
<1>7. OneAtATime => GroupWraps(G, y.cpu)
  BY <1>2, <1>6 DEF GroupWraps
<1>8. OneAtATime => G.state = "START" /\ g = x.gs.activeGroup /\ \A h \in Added(x) : h # g => Group(x, h).state # "START"
  BY <1>2 DEF WrapInv
<1> QED BY <1>3, <1>7, <1>8, WrapKeeps

\* The operations that touch no CPU, and at most use up an overflow.
WrapQuiet(grp, G) ==
    /\ GroupOK(G) /\ G.events = grp.events /\ G.truth = grp.truth /\ G.state = grp.state /\ G.measured = grp.measured
    /\ \A t \in Threads, c \in DOMAIN grp.events :
         /\ G.counters[t][c].overflows \in {grp.counters[t][c].overflows, grp.counters[t][c].overflows - 1}
         /\ G.counters[t][c].fullData = grp.counters[t][c].fullData
         /\ G.counters[t][c].startData = grp.counters[t][c].startData
         /\ G.counters[t][c].counterData = grp.counters[t][c].counterData
         /\ ~grp.counters[t][c].init => ~G.counters[t][c].init
         /\ grp.state = "START" /\ grp.counters[t][c].init => G.counters[t][c].init

\* They keep what was counted.
LEMMA WrapQuietKeeps ==
  ASSUME NEW x, LibType(x), WrapInv(x), NEW g \in Added(x), NEW G, WrapQuiet(Group(x, g), G),
         NEW y, y.gs = WithGroup(x.gs, g, G), y.cpu = x.cpu
  PROVE  WrapInv(y) /\ Replaced(x, y, g, G) /\ y.gs.activeGroup = x.gs.activeGroup
<1> DEFINE grp == Group(x, g)
<1>1. Replaced(x, y, g, G) /\ y.gs.activeGroup = x.gs.activeGroup
  BY ReplaceType DEF LibType, WrapQuiet
<1>2. ASSUME OneAtATime PROVE GroupWraps(G, x.cpu) /\ (G.state = "START" => g = x.gs.activeGroup)
  <2>1. GroupWraps(grp, x.cpu) /\ (grp.state = "START" => g = x.gs.activeGroup)
    BY <1>2 DEF WrapInv
  <2>2. ASSUME NEW t \in Threads, NEW c \in DOMAIN grp.events
        PROVE  LET s == G.counters[t][c] IN
               /\ grp.state = "START" => WrapRuns(x.cpu[t], c, s, HaveLock(t), grp.truth[t][c])
               /\ grp.state # "START" => s.overflows = 0
               /\ grp.measured => grp.state = "SETUP" /\ WrapDone(c, s, grp.truth[t][c])
    <3> DEFINE r == grp.counters[t][c]
               s == G.counters[t][c]
               k == grp.truth[t][c]
               q == x.cpu[t]
    <3>1. /\ s.overflows \in {r.overflows, r.overflows - 1} /\ s.fullData = r.fullData
          /\ s.startData = r.startData /\ s.counterData = r.counterData
          /\ ~r.init => ~s.init
          /\ grp.state = "START" /\ r.init => s.init
      BY DEF WrapQuiet
    <3>2. s.overflows \in Nat
      BY GroupFields DEF WrapQuiet, PerfmonCounter
    <3>3. /\ grp.state = "START" => WrapRuns(q, c, r, HaveLock(t), k)
          /\ grp.state # "START" => r.overflows = 0
          /\ grp.measured => grp.state = "SETUP" /\ WrapDone(c, r, k)
      BY <2>1 DEF GroupWraps
    <3> HIDE DEF r, s, k, q
    <3>4. (r.overflows = 0 => s.overflows = 0) /\ (r.overflows = 1 => s.overflows \in {0, 1})
      BY <3>1, <3>2
    <3>5. grp.state = "START" => WrapRuns(q, c, s, HaveLock(t), k)
      BY <3>1, <3>3, <3>4 DEF WrapRuns, Overflowing
    <3>6. grp.measured => WrapDone(c, s, k)
      BY <3>1, <3>3 DEF WrapDone
    <3> QED BY <3>3, <3>4, <3>5, <3>6 DEF s, k, q
  <2> QED BY <2>1, <2>2 DEF GroupWraps, WrapQuiet
<1>3. WrapInv(y)
  BY <1>1, <1>2, WrapKeeps
<1> QED BY <1>1, <1>3

\* A thread leaves the active group
LEMMA WrapLeave ==
  ASSUME NEW x, NEW n \in 0 .. MaxEvents, LibInv(x, n), WrapInv(x), now \in 0 .. MaxTime, x.gs.activeGroup >= 0,
         NEW t, NEW y, y = LeaveGroup(x, t)
  PROVE  LibInv(y, n) /\ Added(y) = Added(x) /\ WrapInv(y) /\ (OneAtATime => NoneRunning(y))
<1> DEFINE old == x.gs.activeGroup
           grp == Group(x, old)
           state == grp.state
           G == StopTimer(grp)
           timed == [gs |-> WithGroup(x.gs, old, G), cpu |-> x.cpu]
           stopped == IF state = "START" THEN Stop(timed, old) ELSE timed
           cleared == IF state = "SETUP"
                      THEN [gs |-> WithGroup(stopped.gs, old, ClearedGroup(Group(stopped, old), t)), cpu |-> stopped.cpu]
                      ELSE stopped
<1>0. n \in Nat
  BY PerfmonBoundsAssumption
<1>1. LibType(x) /\ old \in Added(x)
  BY ActiveAdded DEF LibInv
<1>2. GroupOK(grp)
  BY <1>1, AddedGroup
<1>3. /\ GroupOK(G) /\ G.state = state /\ G.events = grp.events /\ G.counters = grp.counters
      /\ G.truth = grp.truth /\ G.measured = grp.measured
  BY <1>2, StopTimerG
<1>4. y = cleared
  BY DEF LeaveGroup
<1> HIDE DEF G
<1>5. timed.gs = WithGroup(x.gs, old, G) /\ timed.cpu = x.cpu
  OBVIOUS
<1> HIDE DEF grp, old, timed
<1>6. LibInv(timed, n) /\ Replaced(x, timed, old, G) /\ timed.gs.activeGroup = old /\ WrapInv(timed)
  <2>1. Harmless(Group(x, old), G) /\ WrapQuiet(Group(x, old), G)
    BY <1>3 DEF Harmless, WrapQuiet, grp
  <2> QED BY <1>0, <1>1, <1>5, <2>1, QuietLib, WrapQuietKeeps DEF old
<1>7. Added(timed) = Added(x) /\ Group(timed, old) = G /\ old \in Added(timed)
  BY <1>1, <1>6 DEF Replaced, Added
<1>8. /\ LibInv(stopped, n) /\ Added(stopped) = Added(x) /\ stopped.gs.activeGroup = old /\ WrapInv(stopped)
      /\ OneAtATime => NoneRunning(stopped)
  <2>1. CASE state = "START"
    <3>1. stopped = Stop(timed, old)
      BY <2>1
    <3>2. Group(timed, old).state = "START"
      BY <1>3, <1>7, <2>1
    <3> HIDE DEF stopped
    <3>3. LibInv(stopped, n) /\ Added(stopped) = Added(x) /\ stopped.gs.activeGroup = old
      BY <1>6, <1>7, <3>1, <3>2, StopLib DEF Replaced, Added
    <3>4. WrapInv(stopped) /\ (OneAtATime => NoneRunning(stopped))
      BY <1>6, <1>7, <3>1, <3>2, WrapStop
    <3> QED BY <3>3, <3>4
  <2>2. CASE state # "START"
    <3>1. OneAtATime => NoneRunning(timed)
      BY <1>3, <1>6, <1>7, <2>2 DEF WrapInv, NoneRunning
    <3> QED BY <1>6, <1>7, <2>2, <3>1
  <2> QED BY <2>1, <2>2
<1>9. LibInv(cleared, n) /\ Added(cleared) = Added(x) /\ WrapInv(cleared) /\ (OneAtATime => NoneRunning(cleared))
  <2>1. CASE state = "SETUP"
    <3> DEFINE C == ClearedGroup(G, t)
    <3>1. stopped = timed /\ cleared.gs = WithGroup(timed.gs, old, C) /\ cleared.cpu = timed.cpu
      BY <1>7, <2>1
    <3>2. /\ GroupOK(C) /\ C.state = G.state /\ C.events = G.events /\ C.truth = G.truth /\ C.measured = G.measured
          /\ \A u \in Threads, c \in DOMAIN G.events :
              /\ ~G.counters[u][c].init => ~C.counters[u][c].init
              /\ C.counters[u][c].overflows = G.counters[u][c].overflows
              /\ C.counters[u][c].fullData = G.counters[u][c].fullData
              /\ C.counters[u][c].startData = G.counters[u][c].startData
              /\ C.counters[u][c].counterData = G.counters[u][c].counterData
      BY <1>3, ClearedG
    <3>3. G.state # "START"
      BY <1>3, <2>1
    <3>4. OneAtATime => NoneRunning(timed)
      BY <1>8, <3>1
    <3> HIDE DEF C, cleared, stopped
    <3>5. LibInv(cleared, n) /\ Replaced(timed, cleared, old, C) /\ WrapInv(cleared)
      <4>1. Harmless(G, C) /\ WrapQuiet(G, C)
        BY <3>2, <3>3 DEF Harmless, WrapQuiet
      <4>2. LibType(timed)
        BY <1>6 DEF LibInv
      <4> QED BY <1>0, <1>6, <1>7, <3>1, <4>1, <4>2, QuietLib, WrapQuietKeeps
    <3>6. OneAtATime => NoneRunning(cleared)
      BY <1>7, <3>2, <3>4, <3>5 DEF NoneRunning, Replaced, Added
    <3> QED BY <1>7, <3>5, <3>6 DEF Replaced, Added
  <2>2. CASE state # "SETUP"
    <3>1. cleared = stopped
      BY <2>2
    <3> QED BY <1>8, <3>1
  <2> QED BY <2>1, <2>2
<1> QED BY <1>4, <1>9

\* One turn of the loop that switches groups
LEMMA WrapSwitchThread ==
  ASSUME NEW x, NEW n \in 0 .. MaxEvents, LibInv(x, n), WrapInv(x), now \in 0 .. MaxTime, x.gs.activeGroup >= 0,
         NEW g \in Added(x), NEW t, NEW y, y = SwitchThread(x, t, g)
  PROVE  WrapInv(y)
<1> DEFINE cleared == LeaveGroup(x, t)
           state == Group(x, x.gs.activeGroup).state
           set == Setup(cleared, g)
<1>0. n \in Nat
  BY PerfmonBoundsAssumption
<1>1. y = IF state = "START" THEN Start(set, g) ELSE set
  BY DEF SwitchThread
<1>2. LibInv(cleared, n) /\ Added(cleared) = Added(x) /\ WrapInv(cleared) /\ (OneAtATime => NoneRunning(cleared))
  BY WrapLeave
<1> HIDE DEF cleared, state
<1>3. /\ LibInv(set, n) /\ set.gs.activeGroup = g /\ Added(set) = Added(x) /\ Group(set, g) = SetupGroup(Group(cleared, g))
      /\ WrapInv(set) /\ (OneAtATime => NoneRunning(set))
  <2>1. /\ LibInv(set, n) /\ set.gs.activeGroup = g /\ Group(set, g) = SetupGroup(Group(cleared, g))
        /\ set.gs.numberOfActiveGroups = cleared.gs.numberOfActiveGroups
    BY <1>0, <1>2, SetupLib
  <2>2. WrapInv(set) /\ (OneAtATime => NoneRunning(set))
    BY <1>0, <1>2, WrapSetup
  <2> QED BY <1>2, <2>1, <2>2 DEF Added
<1>4. GroupOK(Group(cleared, g))
  BY <1>2, AddedGroup DEF LibInv
<1>5. \A u \in Threads : \A c \in DOMAIN Group(set, g).events : Group(set, g).counters[u][c].init
  BY <1>3, <1>4, SetupG
<1> HIDE DEF set
<1>6. CASE state = "START"
  <2>1. y = Start(set, g)
    BY <1>1, <1>6
  <2> QED BY <1>0, <1>3, <1>5, <2>1, WrapStart
<1> QED BY <1>1, <1>3, <1>6

\* perfmon_switchActiveGroup, all turns
LEMMA WrapSwitch ==
  ASSUME NEW x, NEW n \in 0 .. MaxEvents, LibInv(x, n), WrapInv(x), now \in 0 .. MaxTime, x.gs.activeGroup >= 0,
         NEW g \in Added(x)
  PROVE  WrapInv(Switch(x, g))
<1> DEFINE N == NumThreads
<1>1. N \in Nat /\ N > 0
  BY ThreadsAssumption
<1>2. PICK turn : /\ Switch(x, g) = turn[N]
                  /\ \A i \in 0 .. N : turn[i] = IF i = 0 THEN x ELSE SwitchThread(turn[i - 1], i - 1, g)
  BY SwitchTurns
<1>3. ASSUME NEW i \in 0 .. N PROVE turn[i] = IF i = 0 THEN x ELSE SwitchThread(turn[i - 1], i - 1, g)
  BY <1>2
<1> DEFINE P(m) == LibInv(turn[m], n) /\ WrapInv(turn[m]) /\ Added(turn[m]) = Added(x) /\ turn[m].gs.activeGroup >= 0
           T == {m \in 0 .. N : ~P(m)}
<1>4. T = {}
  <2> SUFFICES ASSUME T # {} PROVE FALSE
    OBVIOUS
  <2>1. T \subseteq Nat
    OBVIOUS
  <2>2. PICK m \in T : \A k \in T : m <= k
    BY <2>1, LeastNatural
  <2>3. m # 0
    <3>1. turn[0] = x
      BY <1>1, <1>3
    <3>2. P(0)
      BY <3>1
    <3> QED BY <2>2, <3>2
  <2>4. m - 1 \in 0 .. N /\ m \in 0 .. N /\ m - 1 \notin T
    BY <1>1, <2>2, <2>3
  <2> DEFINE z == turn[m - 1]
  <2>5. LibInv(z, n) /\ WrapInv(z) /\ Added(z) = Added(x) /\ z.gs.activeGroup >= 0
    BY <2>4
  <2>6. turn[m] = SwitchThread(z, m - 1, g)
    BY <1>3, <2>3, <2>4
  <2>7. g \in Nat
    BY ActiveAdded DEF LibInv, Added
  <2> HIDE DEF z, P
  <2>8. LibInv(turn[m], n) /\ turn[m].gs.activeGroup = g /\ Added(turn[m]) = Added(z)
    BY <2>5, <2>6, SwitchThreadLib
  <2>9. WrapInv(turn[m])
    BY <2>5, <2>6, WrapSwitchThread
  <2> QED BY <2>2, <2>5, <2>7, <2>8, <2>9 DEF P
<1>5. P(N)
  BY <1>1, <1>4
<1> QED BY <1>2, <1>5

\* The invariant of the library state in a state of the program
Wraps == WrapInv(Now)

\* Only the two fields of a library state matter.
LEMMA WrapCall ==
  ASSUME NEW y, WrapInv(y), Becomes(y)
  PROVE  Wraps'
<1> DEFINE z == Now'
<1>1. z.gs = y.gs /\ z.cpu = y.cpu
  BY DEF Becomes, Now
<1> HIDE DEF z
<1>2. WrapInv(z)
  BY <1>1 DEF WrapInv, Added, Group
<1> QED BY <1>2 DEF z, Wraps

\* perfmon_addEventSet: a new group has no counts.
LEMMA WrapAdd ==
  ASSUME PerfmonInv, Wraps, NEW es \in EventSets, NEW garbage \in 0 .. MaxTime, perfmon_addEventSet(es, garbage)
  PROVE  Wraps'
<1> DEFINE n == groupSet.numberOfActiveGroups
           fresh == NewGroup(es, garbage)
           tab == [g \in 0 .. n |-> IF g < n THEN groupSet.groups[g] ELSE fresh]
           act == IF n = 0 THEN -1 ELSE groupSet.activeGroup
           x == Now
           y == Now'
<1>1. /\ LibType(x) /\ x.gs = groupSet /\ x.cpu = cpu /\ WrapInv(x) /\ y.gs = groupSet' /\ y.cpu = cpu
      /\ cpu' = cpu /\ n \in Nat
  BY CallFacts, ActiveAdded DEF LibInv, Now, Wraps, perfmon_addEventSet
<1>2. groupSet \in [numberOfGroups : Nat, numberOfActiveGroups : 0 .. MaxGroups, activeGroup : Int, groups : {groupSet.groups}]
  BY <1>1 DEF LibType, SetOK
<1>3. /\ fresh.state = "NONE" /\ fresh.events = es /\ ~fresh.measured
      /\ \A t \in Threads, c \in DOMAIN es : fresh.counters[t][c] = NewCounter
  BY FreshGroup
<1>4. /\ groupSet'.activeGroup = act
      /\ \/ groupSet'.numberOfActiveGroups = n /\ groupSet'.groups = groupSet.groups
         \/ groupSet'.numberOfActiveGroups = n + 1 /\ groupSet'.groups = tab
  <2> HIDE DEF fresh
  <2> QED BY <1>2 DEF perfmon_addEventSet, fresh
<1>5. GroupWraps(fresh, y.cpu)
  BY <1>3 DEF GroupWraps, NewCounter
<1> HIDE DEF fresh
<1>6. ASSUME NEW g \in 0 .. y.gs.numberOfActiveGroups - 1
      PROVE  (g \in Added(x) /\ Group(y, g) = Group(x, g) /\ n # 0) \/ Group(y, g) = fresh
  <2>1. CASE groupSet'.numberOfActiveGroups = n /\ groupSet'.groups = groupSet.groups
    BY <1>1, <2>1 DEF Added, Group
  <2>2. CASE groupSet'.numberOfActiveGroups = n + 1 /\ groupSet'.groups = tab
    <3>1. g \in 0 .. n /\ Group(y, g) = IF g < n THEN groupSet.groups[g] ELSE fresh
      BY <1>1, <2>2 DEF Group
    <3>2. g < n => g \in Added(x) /\ Group(x, g) = groupSet.groups[g] /\ n # 0
      BY <1>1, <3>1 DEF Added, Group
    <3> QED BY <3>1, <3>2
  <2> QED BY <1>4, <2>1, <2>2
<1>7. n # 0 => y.gs.activeGroup = x.gs.activeGroup
  BY <1>1, <1>4
<1>8. y.cpu = x.cpu
  BY <1>1
<1> HIDE DEF x, y, n
<1>9. WrapInv(y)
  <2> SUFFICES ASSUME OneAtATime, NEW g \in 0 .. y.gs.numberOfActiveGroups - 1
               PROVE  GroupWraps(Group(y, g), y.cpu) /\ (Group(y, g).state = "START" => g = y.gs.activeGroup)
    BY DEF WrapInv, Added
  <2>1. CASE Group(y, g) = fresh
    BY <1>3, <1>5, <2>1
  <2>2. CASE g \in Added(x) /\ Group(y, g) = Group(x, g) /\ n # 0
    BY <1>1, <1>7, <1>8, <2>2 DEF WrapInv
  <2> QED BY <1>6, <2>1, <2>2
<1> QED BY <1>9 DEF y, Wraps

\* An event, seen by a counter of a running group
LEMMA WrapEventRuns ==
  ASSUME NEW q, CpuOK(q), NEW es \in EventSets, GroupConfigured(q, es), NEW c \in DOMAIN es, NEW e, NEW r, CounterOK(c, r),
         NEW lock \in BOOLEAN, NEW k \in Nat, WrapRuns(q, c, r, lock, k),
         NEW hit \in BOOLEAN, NEW p, p = IF hit THEN EventOn(q, e) ELSE q,
         NEW m, m = IF hit /\ es[c] = e /\ (c \in Power => lock) THEN k + 1 ELSE k, r.startData + m < 2 * Size(c)
  PROVE  WrapRuns(p, c, r, lock, m)
<1>1. /\ c \in Counters /\ (c \in Power => es[c] = Joule) /\ q.count[c] \in Nat /\ (c \in Core <=> c \notin Power)
      /\ q.count[c] < Size(c) /\ Size(c) \in Nat \ {0} /\ r.startData \in Nat /\ r.counterData \in Nat /\ r.overflows \in Nat
  BY EventSet, CountersAssumption, Sizes DEF CpuOK, Cpu, CounterOK, PerfmonCounter, Counters
<1>2. CASE ~hit
  BY <1>2
<1>3. CASE hit
  <2>1. p = EventOn(q, e)
    BY <1>3
  <2>2. /\ p.enabled = q.enabled
        /\ ~Counts(q, c, e) => p.count[c] = q.count[c]
        /\ Counts(q, c, e) /\ q.count[c] + 1 < Size(c) => p.count[c] = q.count[c] + 1
        /\ Counts(q, c, e) /\ q.count[c] + 1 = Size(c) => p.count[c] = 0
    BY <1>1, <2>1, EventCpu
  <2>3. Counts(q, c, e) <=> es[c] = e
    BY <1>1 DEF WrapRuns, Counts, GroupConfigured
  <2>4. CASE c \in Power /\ ~lock
    BY <1>1, <2>2, <2>4 DEF WrapRuns
  <2>5. CASE c \in Power => lock
    <3> DEFINE v == r.startData + k
               a == q.count[c]
               b == p.count[c]
    <3>1. CASE es[c] # e
      BY <1>1, <2>2, <2>3, <3>1 DEF WrapRuns
    <3>2. CASE es[c] = e
      <4>1. m = k + 1 /\ r.startData + m = v + 1 /\ v \in Nat /\ v + 1 < 2 * Size(c)
        BY <1>1, <1>3, <2>5, <3>2
      <4>2. Overflowing(r, v, a, Size(c)) /\ r.init /\ r.fullData = 0 /\ (c \in Core => r.startData = 0 /\ c \in q.enabled)
        BY <2>5 DEF WrapRuns
      <4>3. (a + 1 < Size(c) => b = a + 1) /\ (a + 1 = Size(c) => b = 0)
        BY <2>2, <2>3, <3>2
      <4>4. a \in Nat /\ a < Size(c) /\ Size(c) \in Nat \ {0} /\ r.counterData \in Nat
        BY <1>1
      <4> HIDE DEF v, a, b
      <4>5. Overflowing(r, v + 1, b, Size(c))
        BY <4>1, <4>2, <4>3, <4>4 DEF Overflowing
      <4>6. c \in Core => r.startData = 0 /\ c \in p.enabled
        BY <2>2, <4>2
      <4> QED BY <2>5, <4>1, <4>2, <4>5, <4>6 DEF WrapRuns, b
    <3> QED BY <3>1, <3>2
  <2> QED BY <2>4, <2>5
<1> QED BY <1>2, <1>3

\* An event keeps the invariant, as long as no counter overflows twice.
LEMMA WrapEvent ==
  ASSUME PerfmonInv, Wraps, OverOnce', NEW th \in Threads, NEW e \in Flags, Event(th, e)
  PROVE  Wraps'
<1> DEFINE hit == Where(th, e)
           tab == [g \in DOMAIN groupSet.groups |-> Witness(groupSet.groups[g], hit, e)]
           x == Now
           y == Now'
<1>1. /\ groupSet' = [groupSet EXCEPT !.groups = tab]
      /\ cpu' = [u \in Threads |-> IF u \in hit THEN EventOn(cpu[u], e) ELSE cpu[u]]
  BY DEF Event
<1>2. /\ LibType(x) /\ ConfigInv(x) /\ WrapInv(x) /\ x.gs = groupSet /\ x.cpu = cpu /\ y.gs = groupSet' /\ y.cpu = cpu'
      /\ Added(x) = AddedGroups /\ \A g : Group(x, g) = groupSet.groups[g]
  BY CallFacts DEF LibInv, Now, Wraps, Added, AddedGroups
<1>3. /\ DOMAIN groupSet.groups = AddedGroups
      /\ groupSet \in [numberOfGroups : Nat, numberOfActiveGroups : 0 .. MaxGroups, activeGroup : Int, groups : {groupSet.groups}]
  <2> DEFINE f == groupSet.groups
             D == 0 .. groupSet.numberOfActiveGroups - 1
  <2>1. f = [g \in D |-> f[g]]
    BY <1>2 DEF LibType, SetOK
  <2>2. groupSet \in [numberOfGroups : Nat, numberOfActiveGroups : 0 .. MaxGroups, activeGroup : Int, groups : {groupSet.groups}]
    BY <1>2 DEF LibType, SetOK
  <2> HIDE DEF f, D
  <2>3. DOMAIN f = D
    BY <2>1
  <2> QED BY <2>2, <2>3 DEF f, D, AddedGroups
<1>4. \A g \in AddedGroups : tab[g] = Witness(groupSet.groups[g], hit, e)
  BY <1>3
<1> HIDE DEF tab, hit
<1>5. /\ groupSet'.groups = tab /\ groupSet'.activeGroup = groupSet.activeGroup /\ AddedGroups' = AddedGroups
      /\ Added(y) = AddedGroups /\ \A g : Group(y, g) = tab[g]
  BY <1>1, <1>2, <1>3 DEF Added, AddedGroups, Group
<1>6. ASSUME OneAtATime, NEW g \in AddedGroups
      PROVE  GroupWraps(tab[g], cpu') /\ (tab[g].state = "START" => g = groupSet.activeGroup)
  <2> DEFINE grp == groupSet.groups[g]
             G == tab[g]
             es == grp.events
  <2>1. GroupOK(grp) /\ GroupWraps(grp, cpu) /\ (grp.state = "START" => g = groupSet.activeGroup)
    BY <1>2, <1>6, AddedGroup DEF WrapInv
  <2>2. /\ G.state = grp.state /\ G.events = es /\ G.counters = grp.counters /\ G.measured = grp.measured
        /\ grp.state # "START" => G.truth = grp.truth
        /\ grp.state = "START" => \A u \in Threads, c \in DOMAIN es :
             G.truth[u][c] = IF u \in hit /\ es[c] = e /\ (c \in Power => HaveLock(u))
                             THEN grp.truth[u][c] + 1 ELSE grp.truth[u][c]
    BY <1>4, <2>1, WitnessG
  <2>3. CASE grp.state # "START"
    BY <2>1, <2>2, <2>3 DEF GroupWraps
  <2>4. ASSUME grp.state = "START", NEW t \in Threads, NEW c \in DOMAIN es
        PROVE  WrapRuns(cpu'[t], c, G.counters[t][c], HaveLock(t), G.truth[t][c]) /\ ~G.measured
    <3> DEFINE q == cpu[t]
               p == cpu'[t]
               r == grp.counters[t][c]
               k == grp.truth[t][c]
               m == G.truth[t][c]
               h == t \in hit
               lock == HaveLock(t)
    <3>1. CpuOK(q) /\ es \in EventSets /\ CounterOK(c, r) /\ k \in Nat /\ G.counters[t][c] = r
      BY <1>2, <2>1, <2>2, GroupFields DEF LibType, GroupOK
    <3>2. GroupConfigured(q, es)
      <4>1. groupSet.activeGroup >= 0 /\ groupSet.activeGroup = g
        BY <2>1, <2>4, <1>2, ActiveAdded DEF AddedGroups
      <4> QED BY <1>2, <1>6, <4>1 DEF ConfigInv, OneAtATime
    <3>3. WrapRuns(q, c, r, lock, k) /\ ~grp.measured
      BY <2>1, <2>4 DEF GroupWraps
    <3>4. p = IF h THEN EventOn(q, e) ELSE q
      BY <1>1
    <3>5. m = IF h /\ es[c] = e /\ (c \in Power => lock) THEN k + 1 ELSE k
      BY <2>2, <2>4
    <3>6. r.startData + m < 2 * Size(c)
      <4>1. groupSet'.groups[g] = G /\ g \in AddedGroups'
        BY <1>5
      <4>2. Running(g)' /\ c \in DOMAIN groupSet'.groups[g].events
        BY <2>2, <2>4, <4>1 DEF Running
      <4>3. groupSet'.groups[g].counters[t][c].startData + groupSet'.groups[g].truth[t][c] < 2 * Size(c)
        BY <4>1, <4>2 DEF OverOnce, Reached, Size
      <4> QED BY <3>1, <4>1, <4>3
    <3>7. h \in BOOLEAN /\ lock \in BOOLEAN
      BY DEF HaveLock
    <3> HIDE DEF q, p, r, k, m, h, lock, es, grp, G
    <3>8. WrapRuns(p, c, r, lock, m)
      BY <3>1, <3>2, <3>3, <3>4, <3>5, <3>6, <3>7, WrapEventRuns
    <3> QED BY <2>2, <3>1, <3>3, <3>8 DEF p, m, lock, r
  <2>5. CASE grp.state = "START"
    BY <2>1, <2>2, <2>4, <2>5 DEF GroupWraps
  <2> QED BY <2>3, <2>5
<1>7. \A g \in Added(y) : g \in AddedGroups /\ Group(y, g) = tab[g]
  BY <1>5
<1>8. y.cpu = cpu' /\ y.gs.activeGroup = groupSet.activeGroup
  BY <1>2, <1>5
<1> HIDE DEF x, y
<1>9. WrapInv(y)
  BY <1>6, <1>7, <1>8 DEF WrapInv
<1> QED BY <1>9 DEF y, Wraps

\* A tick changes no count.
LEMMA WrapTick ==
  ASSUME PerfmonInv, Wraps, Tick
  PROVE  Wraps'
<1> DEFINE tab == [g \in DOMAIN groupSet.groups |-> Timed(groupSet.groups[g])]
           x == Now
           y == Now'
<1>1. groupSet' = [groupSet EXCEPT !.groups = tab] /\ cpu' = cpu
  BY DEF Tick
<1>2. /\ LibType(x) /\ WrapInv(x) /\ x.gs = groupSet /\ x.cpu = cpu /\ y.gs = groupSet' /\ y.cpu = cpu'
      /\ Added(x) = AddedGroups /\ \A g : Group(x, g) = groupSet.groups[g]
  BY CallFacts DEF LibInv, Now, Wraps, Added, AddedGroups
<1>3. /\ DOMAIN groupSet.groups = AddedGroups
      /\ groupSet \in [numberOfGroups : Nat, numberOfActiveGroups : 0 .. MaxGroups, activeGroup : Int, groups : {groupSet.groups}]
  <2> DEFINE f == groupSet.groups
             D == 0 .. groupSet.numberOfActiveGroups - 1
  <2>1. f = [g \in D |-> f[g]]
    BY <1>2 DEF LibType, SetOK
  <2>2. groupSet \in [numberOfGroups : Nat, numberOfActiveGroups : 0 .. MaxGroups, activeGroup : Int, groups : {groupSet.groups}]
    BY <1>2 DEF LibType, SetOK
  <2> HIDE DEF f, D
  <2>3. DOMAIN f = D
    BY <2>1
  <2> QED BY <2>2, <2>3 DEF f, D, AddedGroups
<1>4. \A g \in AddedGroups : tab[g] = Timed(groupSet.groups[g])
  BY <1>3
<1> HIDE DEF tab
<1>5. /\ groupSet'.groups = tab /\ groupSet'.activeGroup = groupSet.activeGroup
      /\ Added(y) = AddedGroups /\ \A g : Group(y, g) = tab[g]
  BY <1>1, <1>2, <1>3 DEF Added, AddedGroups, Group
<1>6. ASSUME OneAtATime, NEW g \in AddedGroups
      PROVE  GroupWraps(tab[g], cpu) /\ (tab[g].state = "START" => g = groupSet.activeGroup)
  <2> DEFINE grp == groupSet.groups[g]
             G == tab[g]
  <2>1. GroupOK(grp) /\ GroupWraps(grp, cpu) /\ (grp.state = "START" => g = groupSet.activeGroup)
    BY <1>2, <1>6, AddedGroup DEF WrapInv
  <2>2. /\ G.state = grp.state /\ G.events = grp.events /\ G.counters = grp.counters /\ G.measured = grp.measured
        /\ G.truth = grp.truth
    BY <1>4, <2>1, TimedG
  <2> QED BY <2>1, <2>2 DEF GroupWraps
<1>7. \A g \in Added(y) : g \in AddedGroups /\ Group(y, g) = tab[g]
  BY <1>5
<1>8. y.cpu = cpu /\ y.gs.activeGroup = groupSet.activeGroup
  BY <1>1, <1>2, <1>5
<1> HIDE DEF x, y
<1>9. WrapInv(y)
  BY <1>6, <1>7, <1>8 DEF WrapInv
<1> QED BY <1>9 DEF y, Wraps

\* Every step keeps the invariant, as long as no counter overflows twice.
LEMMA WrapStep == PerfmonInv /\ Wraps /\ OverOnce' /\ [Next]_vars => Wraps'
<1> SUFFICES ASSUME PerfmonInv, Wraps, OverOnce', [Next]_vars PROVE Wraps'
  OBVIOUS
<1>0. /\ LibInv(Now, happened) /\ LibType(Now) /\ WrapInv(Now) /\ now \in 0 .. MaxTime /\ happened \in 0 .. MaxEvents
      /\ happened \in Nat /\ Now.gs = groupSet /\ Now.cpu = cpu /\ Now.gs.activeGroup = Active
      /\ \A g : Group(Now, g) = groupSet.groups[g]
      /\ \A g \in Groups : g < groupSet.numberOfActiveGroups => g \in Added(Now)
      /\ Active >= 0 => Active \in Added(Now)
  BY CallFacts DEF LibInv, Wraps
<1>1. CASE perfmon_init \/ perfmon_finalize
  <2> DEFINE y == Now'
  <2>1. y.gs = NoGroups
    BY <1>1 DEF perfmon_init, perfmon_finalize, Now
  <2> HIDE DEF y
  <2>2. WrapInv(y)
    BY <2>1 DEF WrapInv, Added, NoGroups
  <2> QED BY <2>2 DEF y, Wraps
<1>2. ASSUME NEW es \in EventSets, NEW garbage \in 0 .. MaxTime, perfmon_addEventSet(es, garbage) PROVE Wraps'
  BY <1>2, WrapAdd
<1>3. ASSUME NEW g \in Groups, perfmon_setupCounters(g) PROVE Wraps'
  <2>1. g \in Added(Now) /\ Becomes(Setup(Now, g)) /\ (SetupAnytime \/ NoneRunning(Now))
    BY <1>0, <1>3 DEF perfmon_setupCounters, NoneRunning, Added, Running
  <2>2. WrapInv(Setup(Now, g))
    BY <1>0, <2>1, WrapSetup DEF OneAtATime
  <2> QED BY <2>1, <2>2, WrapCall
<1>4. CASE perfmon_startCounters
  <2> DEFINE g == Active
  <2>1. g \in Added(Now) /\ Becomes(Start(Now, g)) /\ Group(Now, g).state = "SETUP" /\ (Restarts \/ Prepared(g))
    BY <1>0, <1>4 DEF perfmon_startCounters
  <2>2. ~Restarts => \A t \in Threads : \A c \in DOMAIN Group(Now, g).events : Group(Now, g).counters[t][c].init
    BY <1>0, <2>1 DEF Prepared
  <2>3. OneAtATime => NoneRunning(Now)
    BY <1>0, <2>1 DEF WrapInv, NoneRunning
  <2>4. WrapInv(Start(Now, g))
    BY <1>0, <2>1, <2>2, <2>3, WrapStart
  <2> QED BY <2>1, <2>4, WrapCall
<1>5. CASE perfmon_stopCounters
  <2> DEFINE g == Active
  <2>1. g \in Added(Now) /\ Becomes(Stop(Now, g)) /\ Group(Now, g).state = "START"
    BY <1>0, <1>5 DEF perfmon_stopCounters, Running
  <2>2. WrapInv(Stop(Now, g))
    BY <1>0, <2>1, WrapStop
  <2> QED BY <2>1, <2>2, WrapCall
<1>6. ASSUME NEW g \in Added(Now), NEW ts, Becomes(Read(Now, g, ts)), OneAtATime => Running(g) PROVE Wraps'
  <2>1. WrapInv(Read(Now, g, ts))
    BY <1>0, <1>6, WrapRead DEF Running
  <2> QED BY <1>6, <2>1, WrapCall
<1>7. ASSUME NEW g \in Groups, NEW t \in Threads, NEW c, perfmon_getResult(g, t, c) PROVE Wraps'
  <2> DEFINE y == [gs |-> groupSet', cpu |-> cpu']
             grp == groupSet.groups[g]
             G == EvaluatedGroup(grp, t, c)
  <2>1. g \in Added(Now) /\ c \in DOMAIN grp.events /\ groupSet' = WithGroup(groupSet, g, G) /\ cpu' = cpu
    BY <1>0, <1>7 DEF perfmon_getResult
  <2>2. GroupOK(grp) /\ grp = Group(Now, g)
    BY <1>0, <2>1, AddedGroup
  <2>3. WrapQuiet(grp, G)
    <3>1. /\ GroupOK(G) /\ G.events = grp.events /\ G.truth = grp.truth /\ G.state = grp.state /\ G.measured = grp.measured
          /\ \A u \in Threads, b \in DOMAIN grp.events :
               G.counters[u][b] \in {grp.counters[u][b], AfterResult(grp.counters[u][b])}
      BY <2>1, <2>2, EvaluatedG
    <3>2. ASSUME NEW u \in Threads, NEW b \in DOMAIN grp.events
          PROVE  LET r == grp.counters[u][b]
                     s == G.counters[u][b]
                 IN s.overflows \in {r.overflows, r.overflows - 1} /\ s.init = r.init /\ s.fullData = r.fullData
                    /\ s.startData = r.startData /\ s.counterData = r.counterData
      <4>1. CounterOK(b, grp.counters[u][b])
        BY <2>2 DEF GroupOK
      <4> HIDE DEF grp, G
      <4> QED BY <3>1, <4>1, ResultCounter
    <3> HIDE DEF grp, G
    <3> QED BY <3>1, <3>2 DEF WrapQuiet
  <2>4. y.gs = WithGroup(Now.gs, g, G) /\ y.cpu = Now.cpu /\ Becomes(y)
    BY <1>0, <2>1 DEF Becomes
  <2> HIDE DEF G, grp, y
  <2>5. WrapInv(y)
    BY <1>0, <2>1, <2>2, <2>3, <2>4, WrapQuietKeeps
  <2> QED BY <2>4, <2>5, WrapCall
<1>8. ASSUME NEW g \in Groups, perfmon_switchActiveGroup(g) PROVE Wraps'
  <2>1. CASE g < groupSet.numberOfActiveGroups
    <3>1. g \in Added(Now) /\ Active >= 0 /\ Becomes(Switch(Now, g))
      BY <1>0, <1>8, <2>1 DEF perfmon_switchActiveGroup
    <3>2. WrapInv(Switch(Now, g))
      BY <1>0, <3>1, WrapSwitch
    <3> QED BY <3>1, <3>2, WrapCall
  <2>2. CASE ~(g < groupSet.numberOfActiveGroups)
    <3>1. Active >= 0 /\ Becomes(LeaveGroup(Now, 0))
      BY <1>8, <2>2 DEF perfmon_switchActiveGroup
    <3>2. WrapInv(LeaveGroup(Now, 0))
      BY <1>0, <3>1, WrapLeave
    <3> QED BY <3>1, <3>2, WrapCall
  <2> QED BY <2>1, <2>2
<1>9. ASSUME NEW t \in Threads, NEW e \in Flags, Event(t, e) PROVE Wraps'
  BY <1>9, WrapEvent
<1>10. CASE Tick
  BY <1>10, WrapTick
<1>11. CASE UNCHANGED vars
  BY <1>11 DEF vars, Wraps, Now
<1>12. ASSUME NEW g \in Groups, NEW ts, perfmon_readCounters(g, ts) PROVE Wraps'
  BY <1>0, <1>6, <1>12 DEF perfmon_readCounters
<1>13. ASSUME NEW t \in Threads, perfmon_readCountersCpu(t) PROVE Wraps'
  BY <1>0, <1>6, <1>13 DEF perfmon_readCountersCpu, OneAtATime
<1> QED BY <1>1, <1>2, <1>3, <1>4, <1>5, <1>7, <1>8, <1>9, <1>10, <1>11, <1>12, <1>13 DEF Next

-----------------------------------------------------------------------------
(* Theorems *)

\* The invariant holds whatever the application does (perfmon.c).
THEOREM PerfmonInvariant == Spec => []PerfmonInv
  BY InitHolds, InvStep, PTL DEF Spec

\* Types and the bounds of the group list, for every program that uses perfmon.c.
THEOREM PerfmonTyped == Spec => []TypeOK
<1>1. PerfmonInv => TypeOK
  <2> SUFFICES ASSUME PerfmonInv PROVE TypeOK
    OBVIOUS
  <2>1. /\ LibType(Now) /\ now \in 0 .. MaxTime /\ Now.gs = groupSet /\ Now.cpu = cpu /\ Added(Now) = AddedGroups
        /\ \A g : Group(Now, g) = groupSet.groups[g]
    BY CallFacts DEF LibInv, Added, AddedGroups
  <2>2. SetOK(groupSet) /\ cpu = [t \in Threads |-> cpu[t]] /\ \A t \in Threads : CpuOK(cpu[t])
    BY <2>1 DEF LibType
  <2>3. cpu \in [Threads -> Cpu]
    BY <2>2 DEF CpuOK
  <2>4. /\ groupSet.numberOfActiveGroups \in 0 .. MaxGroups /\ groupSet.numberOfActiveGroups <= groupSet.numberOfGroups
        /\ groupSet.activeGroup \in AddedGroups \cup {-1}
    BY <2>2, PerfmonBoundsAssumption DEF SetOK, AddedGroups
  <2>5. DOMAIN groupSet.groups = AddedGroups
    <3> DEFINE f == groupSet.groups
               D == AddedGroups
    <3>1. f = [g \in D |-> f[g]]
      BY <2>2 DEF SetOK, AddedGroups
    <3> HIDE DEF f, D
    <3>2. DOMAIN f = D
      BY <3>1
    <3> QED BY <3>2 DEF f, D
  <2>6. ASSUME NEW g \in AddedGroups
        PROVE  LET grp == groupSet.groups[g] IN
               /\ grp.state \in {"NONE", "SETUP", "START"}
               /\ grp.events \in EventSets /\ grp.runTime \in Nat /\ grp.rdtscTime \in Nat
               /\ grp.timer \in [start : 0 .. MaxTime, stop : 0 .. MaxTime]
               /\ grp.counters \in [Threads -> [DOMAIN grp.events -> PerfmonCounter]]
    <3> DEFINE grp == groupSet.groups[g]
    <3>1. grp.events \in EventSets /\ grp \in GroupRecord(grp.events)
      BY <2>1, AddedGroup DEF GroupOK
    <3> HIDE DEF grp
    <3>2. /\ grp.state \in {"NONE", "SETUP", "START"}
          /\ grp.runTime \in Nat /\ grp.rdtscTime \in Nat
          /\ grp.timer \in [start : 0 .. MaxTime, stop : 0 .. MaxTime]
          /\ grp.counters \in [Threads -> [DOMAIN grp.events -> PerfmonCounter]]
      BY <3>1 DEF GroupRecord
    <3> QED BY <3>1, <3>2 DEF grp
  <2> QED BY <2>1, <2>3, <2>4, <2>5, <2>6 DEF TypeOK, PerfmonInv
<1> QED BY <1>1, PerfmonInvariant, PTL

\* perfmon_finalize turns off every counter that any sequence of calls has
\* configured or enabled on any CPU.
THEOREM OffWhenFinalized == Spec => []OffAfterFinalize
<1>1. PerfmonInv => OffAfterFinalize
  BY DEF PerfmonInv
<1> QED BY <1>1, PerfmonInvariant, PTL

\* The active group is configured on every CPU, for event sets that use the
\* fixed counters alike (perfmon_setupCountersThread and currentConfig).
THEOREM ActiveGroupConfigured ==
  ASSUME FixedAlike
  PROVE  Spec => []ActiveConfigured
<1>1. PerfmonInv => ActiveConfigured
  <2> SUFFICES ASSUME PerfmonInv, Active >= 0, NEW t \in Threads, NEW c \in DOMAIN groupSet.groups[Active].events \cap Core
               PROVE  cpu[t].ctrl[c] = groupSet.groups[Active].events[c]
    BY DEF ActiveConfigured
  <2>1. GroupConfigured(cpu[t], groupSet.groups[Active].events)
    BY CallFacts DEF LibInv, ConfigInv
  <2> QED BY <2>1 DEF GroupConfigured
<1> QED BY <1>1, PerfmonInvariant, PTL

\* A measured result is the number of events between start and stop
\* (perfmon_getResult): for any number of groups, CPUs and earlier cycles, with
\* energy counters shared by a package, groups switched and set up at any time,
\* if groups are set up before each start, the fixed counters are used alike,
\* and fewer events happen than a counter holds.
THEOREM ResultsAreCounts ==
  ASSUME FixedAlike, NoWrap, ~Restarts
  PROVE  Spec => []ResultOfLastCycle
<1>1. PerfmonInv => ResultOfLastCycle
  <2> SUFFICES ASSUME PerfmonInv, NEW g \in AddedGroups, Completed(g), NEW t \in Threads,
                      NEW c \in DOMAIN groupSet.groups[g].events
               PROVE  ResultOf(c, groupSet.groups[g].counters[t][c]) = groupSet.groups[g].truth[t][c]
    BY DEF ResultOfLastCycle
  <2> DEFINE grp == groupSet.groups[g]
             r == grp.counters[t][c]
             k == grp.truth[t][c]
  <2>1. /\ LibType(Now) /\ CountInv(Now, happened) /\ Added(Now) = AddedGroups /\ Group(Now, g) = grp
        /\ happened \in 0 .. MaxEvents /\ Now.cpu = cpu
    BY CallFacts DEF LibInv, Added, AddedGroups
  <2>2. GroupOK(grp) /\ GroupDone(grp, happened) /\ GroupSane(grp, cpu)
    BY <2>1, AddedGroup DEF CountInv
  <2>3. CounterDone(r, happened, k) /\ r.overflows = 0
    BY <2>2 DEF GroupDone, Completed, GroupSane, CounterSane
  <2>4. k \in Nat /\ r.startData \in Nat
    BY <2>2, GroupFields DEF PerfmonCounter
  <2> HIDE DEF r, k
  <2>5. CASE r.fullData # 0
    BY <2>3, <2>5 DEF ResultOf, CounterDone, r, k
  <2>6. CASE r.fullData = 0
    <3>1. k = 0 /\ r.counterData - r.startData = 0
      BY <2>3, <2>4, <2>6 DEF CounterDone
    <3>2. Word \in Nat \ {0}
      BY SizeAssumption DEF Word
    <3>3. 0 % Word = 0
      BY <3>2, SmallMod
    <3>4. calculateResult(c, r) = 0
      BY <2>3, <3>1, <3>3 DEF calculateResult
    <3> QED BY <2>6, <3>1, <3>4 DEF ResultOf, r, k
  <2> QED BY <2>5, <2>6
<1> QED BY <1>1, PerfmonInvariant, PTL

\* An overflow spoils no other result: with no more than one overflow of a
\* counter between a start and the stop that follows, every counter that did
\* not overflow in the last cycle has the right result (perfmon_getResult),
\* though it and others have overflowed in earlier ones, been read and been
\* asked for results in between.
THEOREM ResultsSurviveOverflow ==
  ASSUME OneAtATime
  PROVE  Spec /\ []OverOnce => []ResultOfLastCycle
<1>1. PerfmonInv /\ Wraps => ResultOfLastCycle
  <2> SUFFICES ASSUME PerfmonInv, Wraps, NEW g \in AddedGroups, Completed(g), NEW t \in Threads,
                      NEW c \in DOMAIN groupSet.groups[g].events, Reached(g, t, c) < Size(c)
               PROVE  ResultOf(c, groupSet.groups[g].counters[t][c]) = groupSet.groups[g].truth[t][c]
    BY DEF ResultOfLastCycle
  <2> DEFINE grp == groupSet.groups[g]
             r == grp.counters[t][c]
             k == grp.truth[t][c]
  <2>1. LibType(Now) /\ WrapInv(Now) /\ Added(Now) = AddedGroups /\ Group(Now, g) = grp
    BY CallFacts DEF LibInv, Added, AddedGroups, Wraps
  <2>2. GroupOK(grp) /\ GroupWraps(grp, Now.cpu)
    BY <2>1, AddedGroup DEF WrapInv
  <2>3. r.counterData = r.startData + k /\ r.fullData = k /\ r.overflows = 0
    BY <2>2 DEF GroupWraps, WrapDone, Completed, Reached
  <2>4. k \in Nat /\ r.startData \in Nat
    BY <2>2, GroupFields DEF PerfmonCounter
  <2> HIDE DEF r, k
  <2>5. CASE r.fullData # 0
    BY <2>3, <2>5 DEF ResultOf, r, k
  <2>6. CASE r.fullData = 0
    <3>1. k = 0 /\ r.counterData - r.startData = 0
      BY <2>3, <2>4, <2>6
    <3>2. Word \in Nat \ {0}
      BY SizeAssumption DEF Word
    <3>3. 0 % Word = 0
      BY <3>2, SmallMod
    <3>4. calculateResult(c, r) = 0
      BY <2>3, <3>1, <3>3 DEF calculateResult
    <3> QED BY <2>6, <3>1, <3>4 DEF ResultOf, r, k
  <2> QED BY <2>5, <2>6
<1>2. Init => Wraps
  BY DEF Init, Wraps, WrapInv, Now, Added, NoGroups
<1> QED BY <1>1, <1>2, WrapStep, PerfmonInvariant, PTL DEF Spec

\* The run time of a group is the time it was measured, for a program that
\* sets up groups only while none is running and does not switch them.
THEOREM TimesAreMeasured ==
  ASSUME ~MaySwitch, ~SetupAnytime
  PROVE  Spec => []RunTimeIsMeasured
<1>1. Init => TimeInv
  BY DEF Init, TimeInv, AddedGroups, NoGroups
<1>2. TimeInv => RunTimeIsMeasured
  BY DEF TimeInv, TimeOK, RunTimeIsMeasured, Running
<1> QED BY <1>1, <1>2, TimeStep, PerfmonInvariant, PTL DEF Spec
=============================================================================
