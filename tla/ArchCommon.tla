----------------------------- MODULE ArchCommon -----------------------------
(***************************************************************************)
(* What the architecture layers includes/perfmon_*.h have in common: the   *)
(* registers they program and the steps their functions are made of.       *)
(*                                                                         *)
(* A counter is a pair <<type, n>>: the type is the box it belongs to.     *)
(* FIXED and PMC counters exist once per CPU; all others belong to the     *)
(* package and are programmed by the thread that holds the socket lock.    *)
(* A register location is <<CPU, type, n>>, with CPU 0 for the package.    *)
(*                                                                         *)
(* The machine m is a record:                                              *)
(*   ctl    the event a control register selects                           *)
(*   on     whether the counter is enabled and its box not frozen          *)
(*   cnt    the counter register                                           *)
(*   ovf    the overflow bits of the core's and the boxes' status registers*)
(*   govf   the overflow bits of the boxes in the package's status register*)
(*   filter the filter or match register of a box: a set of constraints    *)
(*   cfg    currentConfig[cpu][index], the driver's copy of ctl            *)
(*   tc     threadCounter of each event set, thread and counter            *)
(*   shl    whether a shift by more than the width of its operand takes the *)
(*          count modulo the width (undefined in C), or else yields 0      *)
(* An event set es has an id, the events ev of its counters, and their     *)
(* positions pos in the list of events; an event is [flags, filter].       *)
(* A counter is in an event set only if its device exists                  *)
(* (getIndexAndType), so HPMcheck holds for every one met here.            *)
(***************************************************************************)
EXTENDS Integers, FiniteSetsExt

CONSTANTS NumThreads, Size

ASSUME ArchAssumption == NumThreads \in Nat \ {0} /\ Size \in Nat \ {0}

Threads == 1 .. NumThreads
\* the selection of a cleared control register; an event is a pair <<event set, counter>>
Off == <<0, <<"off", 0>>>>

Type(c) == c[1]
CoreTypes == {"FIXED", "PMC"}
\* counters that never stop and cannot be written
FreeTypes == {"POWER", "WBOX0FIX"}

\* the thread initialised first on the package acquires its lock
HaveLock(t) == t = 1

Loc(t, c) == <<IF Type(c) \in CoreTypes THEN t ELSE 0, c[1], c[2]>>
LocsOf(t, cs) == {Loc(t, c) : c \in cs}

CountersOf(es) == DOMAIN es.ev
OfTypes(cs, types) == {c \in cs : Type(c) \in types}
CoreOf(cs) == OfTypes(cs, CoreTypes)
FreeOf(cs) == OfTypes(cs, FreeTypes)
UncoreOf(cs) == cs \ (CoreOf(cs) \cup FreeOf(cs))
\* the boxes programmed by this thread
Boxes(t, cs) == IF HaveLock(t) THEN UncoreOf(cs) ELSE {}

\* regTypeMask has a type above the four per-CPU ones
UsesPackage(es) == \E c \in CountersOf(es) : Type(c) \notin CoreTypes \cup {"POWER"}
\* the control register of the fixed counters is one
FixedLocs(m, t, cs) ==
    IF OfTypes(cs, {"FIXED"}) = {} THEN {} ELSE {l \in DOMAIN m.on : l[1] = t /\ l[2] = "FIXED"}

Put(f, S, v) == [k \in DOMAIN f |-> IF k \in S THEN v ELSE f[k]]

-----------------------------------------------------------------------------
(* Steps on the control registers *)

Freeze(m, L) == [m EXCEPT !.on = Put(@, L, FALSE)]
Unfreeze(m, L) == [m EXCEPT !.on = Put(@, L, TRUE)]
Zero(m, L) == [m EXCEPT !.cnt = Put(@, L, 0)]
ClearStatus(m, L) == [m EXCEPT !.ovf = @ \ L]
Deselect(m, L) == [m EXCEPT !.ctl = Put(@, L, Off)]
SetFilter(m, c, f) == [m EXCEPT !.filter[Type(c)] = f]
PackageLocs(m) == {l \in DOMAIN m.on : l[1] = 0 /\ l[2] \notin FreeTypes}

\* MSR_PERF_GLOBAL_CTRL of a CPU enables exactly these counters
GlobalCtrl(m, t, cs) ==
    [m EXCEPT !.on = [l \in DOMAIN @ |-> IF l[1] = t THEN l \in LocsOf(t, cs) ELSE @[l]]]
\* ... is written only if the event set uses core counters
GlobalCtrlIf(m, t, es, cs) == IF CoreOf(CountersOf(es)) = {} THEN m ELSE GlobalCtrl(m, t, cs)

\* a control register is written if the flags differ from currentConfig
Configure(m, t, c, flags) ==
    IF m.cfg[t][c] = flags THEN m
    ELSE [m EXCEPT !.ctl[Loc(t, c)] = flags, !.cfg[t][c] = flags]
\* the value written has the enable bit clear
ConfigureDisabled(m, t, c, flags) ==
    IF m.cfg[t][c] = flags THEN m ELSE Freeze(Configure(m, t, c, flags), {Loc(t, c)})
\* a control register of the package is written by the lock holder
ConfigureBox(m, t, c, flags) == IF HaveLock(t) THEN Configure(m, t, c, flags) ELSE m

\* the control register shared by the fixed counters is written with the
\* fields of those whose flags differ, if any does
ConfigureFixed(m, t, es) ==
    LET fixed == OfTypes(CountersOf(es), {"FIXED"})
        changed == {c \in fixed : m.cfg[t][c] # es.ev[c].flags}
    IN IF changed = {} THEN m
       ELSE [m EXCEPT
               !.ctl = [l \in DOMAIN @ |->
                          IF l \in LocsOf(t, changed) THEN es.ev[<<l[2], l[3]>>].flags
                          ELSE IF l[1] = t /\ l[2] = "FIXED" THEN Off ELSE @[l]],
               !.cfg[t] = [c \in DOMAIN @ |-> IF c \in changed THEN es.ev[c].flags ELSE @[c]]]

-----------------------------------------------------------------------------
(* Steps on the threadCounter records *)

NewCounter == [init |-> FALSE, startData |-> 0, counterData |-> 0, overflows |-> 0]

SetInit(m, t, es, cs, b) ==
    [m EXCEPT !.tc[es.id][t] =
        [c \in DOMAIN @ |-> IF c \in cs THEN [@[c] EXCEPT !.init = b] ELSE @[c]]]
InitOf(m, t, es) == {c \in CountersOf(es) : m.tc[es.id][t][c].init}

\* startData, counterData and fullData are reset; overflows is not
ResetData(m, t, es, cs) ==
    [m EXCEPT !.tc[es.id][t] = [c \in DOMAIN @ |->
        IF c \in cs THEN [@[c] EXCEPT !.startData = 0, !.counterData = 0] ELSE @[c]]]
NoteStart(m, t, es, cs) ==
    [m EXCEPT !.tc[es.id][t] = [c \in DOMAIN @ |->
        IF c \in cs THEN [@[c] EXCEPT !.startData = m.cnt[Loc(t, c)]] ELSE @[c]]]
\* what every start does first: free running counters are noted by the lock holder
BeginData(m, t, es, cs) ==
    NoteStart(ResetData(m, t, es, cs), t, es, IF HaveLock(t) THEN FreeOf(cs) ELSE {})
ClearData(m, t, es, cs) ==
    [m EXCEPT !.tc[es.id][t] = [c \in DOMAIN @ |->
        IF c \in cs THEN [@[c] EXCEPT !.counterData = 0] ELSE @[c]]]

WrappedOrEqual(m, t, es, c) == m.cnt[Loc(t, c)] <= m.tc[es.id][t][c].counterData
Wrapped(m, t, es, c) == m.cnt[Loc(t, c)] < m.tc[es.id][t][c].counterData

\* what a counter record becomes when its register is read
Sampled(r, value, overflow) ==
    [r EXCEPT !.counterData = value, !.overflows = IF overflow THEN @ + 1 ELSE @]
\* counters are read; a value below the last one is an overflow if confirmed
Sample(m, t, es, cs, confirmed) ==
    [m EXCEPT !.tc[es.id][t] = [c \in DOMAIN @ |->
        IF c \in cs
        THEN Sampled(@[c], m.cnt[Loc(t, c)], Wrapped(m, t, es, c) /\ Loc(t, c) \in confirmed)
        ELSE @[c]]]
SamplePlain(m, t, es, cs) == Sample(m, t, es, cs, DOMAIN m.cnt)
\* ... by the status register, whose bit is cleared
SampleStatus(m, t, es, cs) ==
    ClearStatus(Sample(m, t, es, cs, m.ovf), {Loc(t, c) : c \in {d \in cs : Wrapped(m, t, es, d)}})
\* A counter of a box: the overflow is looked up in the package's status
\* register, which has one bit for the box, if viaGlobal, and then in the status
\* register of the box, if it has one.  The bits found are cleared.
SampleBox(m, t, es, c, viaGlobal, hasStatus) ==
    LET local == hasStatus /\ (viaGlobal => Type(c) \in m.govf)
        read == Sample(m, t, es, {c}, IF local THEN m.ovf ELSE {})
    IN IF ~Wrapped(m, t, es, c) THEN read
       ELSE [read EXCEPT !.govf = IF viaGlobal THEN @ \ {Type(c)} ELSE @,
                         !.ovf = IF local THEN @ \ {Loc(t, c)} ELSE @]
\* free running counters are read by the lock holder
SampleFree(m, t, es, cs) == IF HaveLock(t) THEN SamplePlain(m, t, es, FreeOf(cs)) ELSE m
=============================================================================
