-------------------------------- MODULE Arch --------------------------------
(***************************************************************************)
(* The architecture layers at work: the calls the perfmon module makes of  *)
(* them, for every processor in turn, while events happen.  A behaviour is *)
(* about one unit: a processor and one type of box.  Two event sets use    *)
(* the same counters with different events and filters.                    *)
(***************************************************************************)
EXTENDS ArchSandybridge, ArchIvybridge, ArchHaswell, ArchBroadwell, ArchEX, ArchIntel, ArchAmd

CONSTANTS
    Units,      \* pairs <<processor, type of box>>
    MaxTicks    \* events a counter sees in one cycle of start and stop

Of(cpu, boxes) == {cpu} \X boxes

\* The types of counters in the processors' register maps
\* (includes/perfmon_<name>_counters.h)
EPBoxes == {"POWER", "MBOX", "MBOXFIX", "CBOX", "UBOX", "UBOXFIX", "BBOX", "WBOX", "WBOX0FIX", "PBOX"}
ClientBoxes == {"CORE", "CBOX", "UBOX", "UBOXFIX"}
EXBoxes == {"CORE", "MBOX", "BBOX", "SBOX", "RBOX", "CBOX", "WBOX", "WBOXFIX", "UBOX"}
AllUnits ==
    Of("sandybridgeEP", EPBoxes \cup {"CORE", "SBOX", "RBOX"}) \cup Of("sandybridge", ClientBoxes)
    \cup Of("ivybridgeEP", EPBoxes \cup {"CORE", "SBOX", "RBOX", "IBOX"}) \cup Of("ivybridge", ClientBoxes)
    \cup Of("haswellEP", EPBoxes \cup {"CORE", "SBOX", "RBOX", "QBOX", "IBOX"})
    \cup Of("haswell", ClientBoxes)
    \cup Of("broadwelld", (EPBoxes \ {"MBOXFIX"}) \cup {"CORE", "IBOX"})
    \cup Of("broadwell", {"CORE", "POWER"})
    \cup Of("nehalemEX", EXBoxes) \cup Of("westmereEX", EXBoxes)
    \cup Of("core2", {"CORE"}) \cup Of("silvermont", {"CORE", "POWER"}) \cup Of("pm", {"CORE"})
    \cup Of("phi", {"CORE", "SWAPPED"}) \cup Of("nehalem", {"CORE", "UNCORE", "UNCOREFIX"})
    \cup Of("k10", {"CORE"}) \cup Of("interlagos", {"CORE", "UNCORE"})
    \cup Of("kabini", {"CORE", "UNCORE", "CBOX"})

ASSUME UnitsAssumption == Units \subseteq AllUnits /\ MaxTicks \in Nat

VARIABLES
    unit,       \* the processor and the type of box
    filters,    \* the filter each event set asks for
    m,          \* the machine
    phase,      \* "idle", "setup", "running", "stopped"
    active,     \* the event set set up last
    seen,       \* events of the active event set since its start
    sampled,    \* ... when the counters were read last
    result      \* what the threadCounter records say then

vars == <<unit, filters, m, phase, active, seen, sampled, result>>

Groups == {1, 2}
Cpu == unit[1]
Box == unit[2]

EP == Cpu \in {"sandybridgeEP", "ivybridgeEP", "haswellEP", "broadwelld"}
Family ==
    CASE Cpu = "sandybridgeEP" -> "sandybridge"
      [] Cpu = "ivybridgeEP"   -> "ivybridge"
      [] Cpu = "haswellEP"     -> "haswell"
      [] Cpu = "broadwelld"    -> "broadwell"
      [] OTHER                 -> Cpu

\* units for the counters of the core; in SWAPPED the list of events names
\* them in the reverse order
CoreUnits == {"CORE", "SWAPPED"}
WithoutFixed == {"pm", "phi", "k10", "interlagos", "kabini"}
\* types with one counter per box
SingleTypes ==
    FreeTypes \cup {"UBOXFIX", "MBOXFIX", "WBOXFIX", "UNCOREFIX"}
    \cup IF Cpu \in {"nehalemEX", "westmereEX"} THEN {"UBOX"} ELSE {}
AllCounters ==
    IF Box \in CoreUnits THEN {<<"PMC", 0>>, IF Cpu \in WithoutFixed THEN <<"PMC", 1>> ELSE <<"FIXED", 0>>}
    ELSE {<<Box, n>> : n \in IF Box \in SingleTypes THEN {0} ELSE {0, 1}}

\* boxes with filter or match registers
FilterTypes ==
    CASE Cpu \in {"sandybridgeEP", "ivybridgeEP"} -> {"CBOX", "BBOX", "WBOX", "SBOX"}
      [] Cpu = "haswellEP"                        -> {"CBOX", "BBOX", "WBOX", "QBOX"}
      [] Cpu = "broadwelld"                       -> {"CBOX", "BBOX", "WBOX"}
      [] Cpu \in {"nehalemEX", "westmereEX"}      -> {"MBOX", "BBOX", "SBOX"}
      [] Cpu = "nehalem"                          -> {"UNCORE"}
      [] OTHER                                    -> {}

Free == <<0, <<"free", 0>>>>
\* the event that event set g counts with counter c; fixed counters have one
Event(g, c) ==
    <<IF Type(c) \in {"FIXED", "UBOXFIX", "MBOXFIX", "WBOXFIX", "UNCOREFIX"} THEN 1 ELSE g, c>>
EventSet(g) ==
    [id |-> g,
     ev |-> [c \in AllCounters |->
               [flags |-> Event(g, c), filter |-> IF Type(c) = Box THEN filters[g] ELSE {}]],
     pos |-> [c \in AllCounters |-> IF Box = "SWAPPED" THEN 1 - c[2] ELSE c[2]]]

Locs == UNION {LocsOf(t, AllCounters) : t \in Threads}
CounterAt(l) == <<l[2], l[3]>>

\* the threads in the order of their numbers, of which the first has the lock
PerThread(f(_, _), y) ==
    LET after[n \in 0 .. NumThreads] == IF n = 0 THEN y ELSE f(after[n - 1], n)
    IN after[NumThreads]

perfmon_setupCountersThread(y, t, es) ==
    CASE Family = "pm"             -> perfmon_setupCounterThread_pm(y, t, es)
      [] Family = "core2"          -> perfmon_setupCounterThread_core2(y, t, es)
      [] Family = "silvermont"     -> perfmon_setupCountersThread_silvermont(y, t, es)
      [] Family = "nehalemEX"      -> perfmon_setupCounterThread_nehalemEX(y, t, es)
      [] Family = "westmereEX"     -> perfmon_setupCounterThread_westmereEX(y, t, es)
      [] Family = "nehalem"        -> perfmon_setupCounterThread_nehalem(y, t, es)
      [] Family = "ivybridge"      -> perfmon_setupCounterThread_ivybridge(y, t, es, EP)
      [] Family = "haswell"        -> perfmon_setupCounterThread_haswell(y, t, es, EP)
      [] Family = "sandybridge"    -> perfmon_setupCounterThread_sandybridge(y, t, es, EP)
      [] Family = "broadwell"      -> perfmon_setupCounterThread_broadwell(y, t, es)
      [] Family = "phi"            -> perfmon_setupCounterThread_phi(y, t, es)
      [] Family = "k10"            -> perfmon_setupCounterThread_k10(y, t, es)
      [] Family = "interlagos"     -> perfmon_setupCounterThread_interlagos(y, t, es)
      [] Family = "kabini"         -> perfmon_setupCounterThread_kabini(y, t, es)

perfmon_startCountersThread(y, t, es) ==
    CASE Family = "pm"             -> perfmon_startCountersThread_pm(y, t, es)
      [] Family = "core2"          -> perfmon_startCountersThread_core2(y, t, es)
      [] Family = "silvermont"     -> perfmon_startCountersThread_silvermont(y, t, es)
      [] Family = "nehalemEX"      -> perfmon_startCountersThread_nehalemEX(y, t, es)
      [] Family = "westmereEX"     -> perfmon_startCountersThread_westmereEX(y, t, es)
      [] Family = "nehalem"        -> perfmon_startCountersThread_nehalem(y, t, es)
      [] Family = "ivybridge"      -> perfmon_startCountersThread_ivybridge(y, t, es, EP)
      [] Family = "haswell"        -> perfmon_startCountersThread_haswell(y, t, es)
      [] Family = "sandybridge"    -> perfmon_startCountersThread_sandybridge(y, t, es, EP)
      [] Family = "broadwell"      -> perfmon_startCountersThread_broadwell(y, t, es)
      [] Family = "phi"            -> perfmon_startCountersThread_phi(y, t, es)
      [] Family = "k10"            -> perfmon_startCountersThread_k10(y, t, es)
      [] Family = "interlagos"     -> perfmon_startCountersThread_interlagos(y, t, es)
      [] Family = "kabini"         -> perfmon_startCountersThread_kabini(y, t, es)

perfmon_stopCountersThread(y, t, es) ==
    CASE Family = "pm"             -> perfmon_stopCountersThread_pm(y, t, es)
      [] Family = "core2"          -> perfmon_stopCountersThread_core2(y, t, es)
      [] Family = "silvermont"     -> perfmon_stopCountersThread_silvermont(y, t, es)
      [] Family = "nehalemEX"      -> perfmon_stopCountersThread_nehalemEX(y, t, es)
      [] Family = "westmereEX"     -> perfmon_stopCountersThread_westmereEX(y, t, es)
      [] Family = "nehalem"        -> perfmon_stopCountersThread_nehalem(y, t, es)
      [] Family = "ivybridge"      -> perfmon_stopCountersThread_ivybridge(y, t, es, EP)
      [] Family = "haswell"        -> perfmon_stopCountersThread_haswell(y, t, es, EP)
      [] Family = "sandybridge"    -> perfmon_stopCountersThread_sandybridge(y, t, es, EP)
      [] Family = "broadwell"      -> perfmon_stopCountersThread_broadwell(y, t, es)
      [] Family = "phi"            -> perfmon_stopCountersThread_phi(y, t, es)
      [] Family = "k10"            -> perfmon_stopCountersThread_k10(y, t, es)
      [] Family = "interlagos"     -> perfmon_stopCountersThread_interlagos(y, t, es)
      [] Family = "kabini"         -> perfmon_stopCountersThread_kabini(y, t, es)

perfmon_readCountersThread(y, t, es) ==
    CASE Family = "pm"             -> perfmon_readCountersThread_pm(y, t, es)
      [] Family = "core2"          -> perfmon_readCountersThread_core2(y, t, es)
      [] Family = "silvermont"     -> perfmon_readCountersThread_silvermont(y, t, es)
      [] Family = "nehalemEX"      -> perfmon_readCountersThread_nehalemEX(y, t, es)
      [] Family = "westmereEX"     -> perfmon_readCountersThread_westmereEX(y, t, es)
      [] Family = "nehalem"        -> perfmon_readCountersThread_nehalem(y, t, es)
      [] Family = "ivybridge"      -> perfmon_readCountersThread_ivybridge(y, t, es, EP)
      [] Family = "haswell"        -> perfmon_readCountersThread_haswell(y, t, es, EP)
      [] Family = "sandybridge"    -> perfmon_readCountersThread_sandybridge(y, t, es, EP)
      [] Family = "broadwell"      -> perfmon_readCountersThread_broadwell(y, t, es)
      [] Family = "phi"            -> perfmon_readCountersThread_phi(y, t, es)
      [] Family = "k10"            -> perfmon_readCountersThread_k10(y, t, es)
      [] Family = "interlagos"     -> perfmon_readCountersThread_interlagos(y, t, es)
      [] Family = "kabini"         -> perfmon_readCountersThread_kabini(y, t, es)

perfmon_finalizeCountersThread(y, t, es) ==
    CASE Family = "pm"             -> perfmon_finalizeCountersThread_pm(y, t, es)
      [] Family = "core2"          -> perfmon_finalizeCountersThread_core2(y, t, es)
      [] Family = "silvermont"     -> perfmon_finalizeCountersThread_silvermont(y, t, es)
      [] Family = "nehalemEX"      -> perfmon_finalizeCountersThread_nehalemEX(y, t, es)
      [] Family = "westmereEX"     -> perfmon_finalizeCountersThread_westmereEX(y, t, es)
      [] Family = "nehalem"        -> perfmon_finalizeCountersThread_nehalem(y, t, es)
      [] Family = "ivybridge"      -> perfmon_finalizeCountersThread_ivybridge(y, t, es)
      [] Family = "haswell"        -> perfmon_finalizeCountersThread_haswell(y, t, es)
      [] Family = "sandybridge"    -> perfmon_finalizeCountersThread_sandybridge(y, t, es, EP)
      [] Family = "broadwell"      -> perfmon_finalizeCountersThread_broadwell(y, t, es)
      [] Family = "phi"            -> perfmon_finalizeCountersThread_phi(y, t, es)
      [] Family = "k10"            -> perfmon_finalizeCountersThread_k10(y, t, es)
      [] Family = "interlagos"     -> perfmon_finalizeCountersThread_interlagos(y, t, es)
      [] Family = "kabini"         -> perfmon_finalizeCountersThread_kabini(y, t, es)

-----------------------------------------------------------------------------
NoConfig == [t \in Threads |-> [c \in AllCounters |-> Off]]
NoCounters == [g \in Groups |-> [t \in Threads |-> [c \in AllCounters |-> NewCounter]]]
NoEvents == [c \in AllCounters |-> 0]
NoResult == [t \in Threads |-> NoEvents]

Init ==
    /\ unit \in Units
    /\ filters \in [Groups -> IF Box \in FilterTypes THEN {{}, {"match"}} ELSE {{}}]
    /\ \E shl \in IF Family \in {"core2", "ivybridge"} /\ Box = "CORE" THEN BOOLEAN ELSE {TRUE} :
       m = [shl |-> shl,
            ctl |-> [l \in Locs |-> IF l[2] \in FreeTypes THEN Free ELSE Off],
            on |-> [l \in Locs |-> l[1] = 0], cnt |-> [l \in Locs |-> 0],
            ovf |-> {}, govf |-> {}, filter |-> [b \in {Box} |-> {}],
            cfg |-> NoConfig, tc |-> NoCounters]
    /\ phase = "idle" /\ active = 1
    /\ seen = NoEvents /\ sampled = NoEvents /\ result = NoResult

SetupCounters(g) ==
    /\ phase # "running"
    /\ m' = PerThread(LAMBDA y, t : perfmon_setupCountersThread(y, t, EventSet(g)), m)
    /\ phase' = "setup" /\ active' = g
    /\ seen' = NoEvents /\ sampled' = NoEvents /\ result' = NoResult
    /\ UNCHANGED <<unit, filters>>

StartCounters ==
    /\ phase = "setup"
    /\ m' = PerThread(LAMBDA y, t : perfmon_startCountersThread(y, t, EventSet(active)), m)
    /\ phase' = "running"
    /\ UNCHANGED <<unit, filters, active, seen, sampled, result>>

\* events since start, according to a threadCounter record
Position(ctr) == ctr.overflows * Size + ctr.counterData - ctr.startData
Positions(y) == [t \in Threads |-> [c \in AllCounters |-> Position(y.tc[active][t][c])]]

ReadCounters ==
    /\ phase = "running"
    /\ m' = PerThread(LAMBDA y, t : perfmon_readCountersThread(y, t, EventSet(active)), m)
    /\ sampled' = seen /\ result' = Positions(m')
    /\ UNCHANGED <<unit, filters, phase, active, seen>>

\* calculateResult uses up an overflow of every counter
UsedUp(r) == [r EXCEPT !.overflows = IF @ > 0 THEN @ - 1 ELSE @]
Evaluated(y) ==
    [y EXCEPT !.tc[active] = [t \in Threads |-> [c \in AllCounters |-> UsedUp(@[t][c])]]]
StopCounters ==
    /\ phase = "running"
    /\ LET y == PerThread(LAMBDA z, t : perfmon_stopCountersThread(z, t, EventSet(active)), m)
       IN m' = Evaluated(y) /\ result' = Positions(y)
    /\ phase' = "stopped" /\ sampled' = seen
    /\ UNCHANGED <<unit, filters, active, seen>>

FinalizeCounters ==
    /\ phase # "running"
    /\ LET group(y, g) == PerThread(LAMBDA z, t : perfmon_finalizeCountersThread(z, t, EventSet(g)), y)
       IN m' = [group(group(m, 1), 2) EXCEPT !.cfg = NoConfig, !.tc = NoCounters]
    /\ phase' = "idle"
    /\ seen' = NoEvents /\ sampled' = NoEvents /\ result' = NoResult
    /\ UNCHANGED <<unit, filters, active>>

-----------------------------------------------------------------------------
(* The hardware: event <<g, c>> happens. *)

Hits(g, c) ==
    {l \in Locs : /\ CounterAt(l) = c /\ m.on[l] /\ m.ctl[l] \in {Free, Event(g, c)}
                  /\ Type(c) = Box => m.filter[Box] = filters[g]}

\* No counter advances by its width between two reads: the register says no more.
Tick(g, c) ==
    LET hit == Hits(g, c)
        wrap == {l \in hit : m.cnt[l] = Size - 1}
        counted == phase = "running" /\ (Event(g, c) = Event(active, c) \/ Type(c) \in FreeTypes)
    IN /\ phase \in {"setup", "running"}
       /\ counted => seen[c] < MaxTicks /\ seen[c] - sampled[c] < Size - 1
       /\ m' = [m EXCEPT !.cnt = [l \in Locs |-> IF l \in hit THEN (@[l] + 1) % Size ELSE @[l]],
                         !.ovf = @ \cup wrap,
                         !.govf = @ \cup {l[2] : l \in {k \in wrap : k[1] = 0}}]
       /\ seen' = IF counted THEN [seen EXCEPT ![c] = @ + 1] ELSE seen
       /\ UNCHANGED <<unit, filters, phase, active, sampled, result>>

Next ==
    \/ \E g \in Groups : SetupCounters(g)
    \/ StartCounters \/ ReadCounters \/ StopCounters \/ FinalizeCounters
    \/ \E g \in Groups, c \in AllCounters : Tick(g, c)

Spec == Init /\ [][Next]_vars

-----------------------------------------------------------------------------
Mine(t) == IF HaveLock(t) THEN AllCounters ELSE CoreOf(AllCounters)
Counting(l) == l[2] \notin FreeTypes /\ m.on[l] /\ m.ctl[l] # Off

\* Types of the registers of the unit and of the library's records.
TypeOK ==
    /\ unit \in Units
    /\ phase \in {"idle", "setup", "running", "stopped"} /\ active \in Groups
    /\ m.cnt \in [Locs -> 0 .. Size - 1]
    /\ \A l \in Locs : m.ctl[l] \in {Off, Free} \cup {Event(g, CounterAt(l)) : g \in Groups}
    /\ m.ovf \subseteq Locs /\ m.govf \subseteq {Box}
    /\ m.filter[Box] \in {{}, {"match"}}
    /\ \A t \in Threads, c \in AllCounters : m.cfg[t][c] \in {Off} \cup {Event(g, c) : g \in Groups}
    /\ \A g \in Groups, t \in Threads, c \in AllCounters :
          m.tc[g][t][c].overflows \in Nat

(***************************************************************************)
(* The units for which the code does not keep what the properties below    *)
(* say, by the reason; README.md gives the lines.                          *)
(***************************************************************************)
\* A filter is not set, is cleared before the counters start, is added to the
\* one of the last event set, or outlives its event set.  With no filter in
\* any event, these units are right.
FilterNotKept ==
    Of("sandybridgeEP", {"CBOX", "SBOX", "BBOX"}) \cup Of("haswellEP", {"CBOX", "QBOX"})
    \cup Of("nehalemEX", {"MBOX", "BBOX", "SBOX"}) \cup Of("nehalem", {"UNCORE"})
FilterNotCleared ==
    Of("sandybridgeEP", {"CBOX", "SBOX", "BBOX", "WBOX"}) \cup Of("haswellEP", {"BBOX"})
    \cup Of("broadwelld", {"CBOX", "BBOX", "WBOX"}) \cup Of("ivybridgeEP", {"CBOX", "BBOX", "WBOX"})
    \cup Of("westmereEX", {"MBOX", "BBOX", "SBOX"}) \cup Of("nehalem", {"UNCORE"})
NoFilter == \A g \in Groups : filters[g] = {}

\* Stop deselects the events while currentConfig goes on naming them
Deselected ==
    Of("ivybridgeEP", {"MBOX", "MBOXFIX", "SBOX", "RBOX", "PBOX", "IBOX", "CBOX", "BBOX", "WBOX"})
    \cup Of("westmereEX", {"CORE", "MBOX", "BBOX", "SBOX", "RBOX", "CBOX", "WBOX", "UBOX"})
    \cup Of("sandybridgeEP", {"WBOX"}) \cup Of("silvermont", {"CORE"})
\* Read, or start, leaves the counters stopped
Halted == Of("sandybridge", {"CBOX"}) \cup Of("pm", {"CORE"})
\* The value stored is not the one read
Misread ==
    Of("broadwelld", {"MBOX", "UBOX", "UBOXFIX", "WBOX0FIX", "PBOX", "IBOX", "CBOX", "BBOX", "WBOX"})
    \cup Of("sandybridgeEP", {"UBOX", "UBOXFIX"}) \cup Of("sandybridge", {"UBOX", "UBOXFIX"})
    \cup Of("haswell", {"CBOX", "UBOX", "UBOXFIX"}) \cup Of("ivybridgeEP", {"WBOX0FIX"})
    \cup Of("phi", {"SWAPPED"}) \cup Of("westmereEX", {"WBOXFIX"}) \cup Of("interlagos", {"UNCORE"})
\* An overflow is not noticed, or an older one is taken for it
OverflowLost ==
    Of("haswellEP", {"MBOX", "MBOXFIX", "UBOX", "BBOX", "WBOX", "RBOX", "PBOX", "QBOX", "IBOX"})
    \cup Of("ivybridgeEP", {"CORE", "UBOX"}) \cup Of("ivybridge", {"CORE", "CBOX", "UBOX", "UBOXFIX"})
    \cup Of("nehalemEX", {"WBOXFIX"}) \cup Of("core2", {"CORE"}) \cup Of("interlagos", {"CORE"})
\* The box is not frozen
NotFrozen ==
    Of("sandybridgeEP", {"MBOX", "MBOXFIX", "RBOX", "PBOX", "SBOX", "BBOX", "UBOX", "UBOXFIX"})
    \cup Of("haswell", {"CBOX", "UBOX", "UBOXFIX"})
\* Finalize clears the control registers of no counter that was stopped
KeepsSelection ==
    Of("ivybridgeEP", {"CORE", "CBOX", "BBOX", "WBOX", "UBOX", "UBOXFIX"})
    \cup Of("ivybridge", {"CORE", "CBOX", "UBOX", "UBOXFIX"})

\* What a read or a stop stores for a counter, its overflows included, is the
\* number of events of the active event set since start, exactly; where an
\* overflow can be lost, up to multiples of the counter's width.  The threads
\* that do not hold the lock of the package report nothing for its counters,
\* so that no event is counted twice (perfmon_{start,read,stop}CountersThread_*).
ResultIsCount ==
    unit \notin Deselected \cup Halted \cup Misread /\ (unit \in FilterNotKept => NoFilter) =>
        \A t \in Threads, c \in AllCounters :
            IF c \notin Mine(t) THEN result[t][c] = 0
            ELSE IF Type(c) \in FreeTypes \/ unit \in OverflowLost
                 THEN (result[t][c] - sampled[c]) % Size = 0
            ELSE result[t][c] = sampled[c]

\* While an event set runs, every counter of it is enabled and selects the
\* event and the filter of this set, not those left by the set that ran
\* before: currentConfig, by which setup skips writes, is never ahead of the
\* registers (perfmon_setupCounterThread_*).
SelectedAsWanted ==
    phase = "running" /\ unit \notin Deselected \cup Halted /\ (unit \in FilterNotKept => NoFilter) =>
        \A t \in Threads : \A c \in Mine(t) \ FreeOf(AllCounters) :
            /\ Counting(Loc(t, c)) /\ m.ctl[Loc(t, c)] = Event(active, c)
            /\ Type(c) = Box => m.filter[Box] = filters[active]

\* After a stop nothing counts any more, on any CPU of the package
\* (perfmon_stopCountersThread_*).
QuietWhenStopped ==
    phase = "stopped" /\ unit \notin NotFrozen => \A l \in Locs : ~Counting(l)

\* After finalize the hardware is as it was found: no event selected and no
\* filter set, on any CPU (perfmon_finalizeCountersThread_*).
CleanWhenFinalized ==
    phase = "idle" /\ unit \notin KeepsSelection =>
        /\ \A l \in Locs : m.ctl[l] \in {Off, Free}
        /\ unit \notin FilterNotCleared => m.filter[Box] = {}

\* Reading the counters of a running event set does not disturb them: what was
\* enabled, selected and filtered still is (perfmon_readCountersThread_*).
ReadKeepsCounting ==
    [][ReadCounters /\ unit \notin Halted =>
         m'.on = m.on /\ m'.ctl = m.ctl /\ m'.cnt = m.cnt /\ m'.filter = m.filter]_vars
=============================================================================
