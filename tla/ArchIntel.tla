------------------------------ MODULE ArchIntel ------------------------------
(***************************************************************************)
(* The smaller architecture layers for Intel processors: core2 (Core 2 and *)
(* Atom), silvermont, pm (Pentium M), phi (Xeon Phi) and nehalem (Nehalem  *)
(* and Westmere), from includes/perfmon_<name>.h.                          *)
(***************************************************************************)
EXTENDS ArchCommon

\* MSR_PERF_GLOBAL_CTRL is written, then the status bits are cleared
EnableThenClear(m, t, es, cs) ==
    IF CoreOf(CountersOf(es)) = {} THEN m
    ELSE ClearStatus(GlobalCtrl(m, t, CoreOf(cs)), LocsOf(t, CoreOf(cs)))
\* the control registers of all counters of the event set are cleared
ClearSelections(m, t, es) ==
    LET cs == CountersOf(es)
    IN Deselect(m, LocsOf(t, CoreOf(cs) \cup Boxes(t, cs)) \cup FixedLocs(m, t, cs))
EnabledCoreSavedLate(m, t, es) == {}
EnabledCore(m, t, es) == {c \in CoreOf(CountersOf(es)) : m.on[Loc(t, c)]}

-----------------------------------------------------------------------------
(* Core 2 *)

core2_fixed_setup(m, t, es) == ConfigureFixed(m, t, es)
core2_pmc_setup(m, t, c, e) == IF Type(c) = "PMC" THEN Configure(m, t, c, e.flags) ELSE m

perfmon_setupCounterThread_core2(m, t, es) ==
    LET step(c, y) == core2_pmc_setup(y, t, c, es.ev[c])
        pmc == FoldSet(step, GlobalCtrlIf(m, t, es, {}), CountersOf(es))
    IN SetInit(core2_fixed_setup(pmc, t, es), t, es, CountersOf(es), TRUE)

perfmon_startCountersThread_core2(m, t, es) ==
    LET init == InitOf(m, t, es)
    IN EnableThenClear(Zero(ResetData(m, t, es, init), LocsOf(t, init)), t, es, init)

perfmon_stopCountersThread_core2(m, t, es) ==
    SampleStatus(GlobalCtrlIf(m, t, es, {}), t, es, InitOf(m, t, es))

\* the bit of a FIXED counter is 1 shifted by index - 32, a negative number;
\* where the count is taken modulo 64 that is the bit index + 32
perfmon_readCountersThread_core2(m, t, es) ==
    LET init == InitOf(m, t, es)
        frozen == GlobalCtrlIf(m, t, es, {})
        seen == IF m.shl THEN init ELSE OfTypes(init, {"PMC"})
        read == Sample(SampleStatus(frozen, t, es, seen), t, es, init \ seen, {})
    IN GlobalCtrlIf(read, t, es, EnabledCore(m, t, es))

perfmon_finalizeCountersThread_core2(m, t, es) ==
    LET core == ClearStatus(ClearSelections(m, t, es), LocsOf(t, CoreOf(CountersOf(es))))
    IN SetInit(GlobalCtrl(core, t, {}), t, es, CountersOf(es), FALSE)

-----------------------------------------------------------------------------
(* Silvermont *)

svm_fixed_setup(m, t, es) == ConfigureFixed(m, t, es)
svm_pmc_setup(m, t, c, e) == IF Type(c) = "PMC" THEN Configure(m, t, c, e.flags) ELSE m

\* MSR_PERF_FIXED_CTR_CTRL is cleared first; svm_fixed_setup yields the
\* fields of the counters whose flags differ from currentConfig only
perfmon_setupCountersThread_silvermont(m, t, es) ==
    LET step(c, y) == svm_pmc_setup(y, t, c, es.ev[c])
        cleared == IF CoreOf(CountersOf(es)) = {} THEN m
                   ELSE Deselect(GlobalCtrl(m, t, {}), {l \in DOMAIN m.ctl : l[1] = t /\ l[2] = "FIXED"})
    IN SetInit(svm_fixed_setup(FoldSet(step, cleared, CountersOf(es)), t, es), t, es, CountersOf(es), TRUE)

perfmon_startCountersThread_silvermont(m, t, es) ==
    LET init == InitOf(m, t, es)
        zeroed == Zero(BeginData(m, t, es, init), LocsOf(t, CoreOf(init)))
    IN GlobalCtrlIf(ClearStatus(zeroed, LocsOf(t, CoreOf(init))), t, es, CoreOf(init))

svm_read(m, t, es, cs) ==
    LET read == SampleFree(SampleStatus(m, t, es, CoreOf(cs)), t, es, cs)
    IN IF HaveLock(t) THEN read ELSE ClearData(read, t, es, FreeOf(cs))
perfmon_stopCountersThread_silvermont(m, t, es) ==
    svm_read(GlobalCtrlIf(m, t, es, {}), t, es, InitOf(m, t, es))
perfmon_readCountersThread_silvermont(m, t, es) ==
    GlobalCtrlIf(svm_read(GlobalCtrlIf(m, t, es, {}), t, es, InitOf(m, t, es)), t, es, EnabledCore(m, t, es))

perfmon_finalizeCountersThread_silvermont(m, t, es) ==
    LET off == GlobalCtrl(ClearSelections(m, t, es), t, {})
    IN SetInit(ClearStatus(off, LocsOf(t, CoreOf(CountersOf(es)))), t, es, CountersOf(es), FALSE)

-----------------------------------------------------------------------------
(* Pentium M: only PERFEVTSEL0 has an enable bit, for both counters. *)

Both(m, t) == {l \in DOMAIN m.on : l[1] = t}
pm_pmc_setup(m, t, c, e) ==
    IF m.cfg[t][c] # e.flags /\ c = <<"PMC", 0>> THEN Freeze(Configure(m, t, c, e.flags), Both(m, t))
    ELSE Configure(m, t, c, e.flags)

perfmon_setupCounterThread_pm(m, t, es) ==
    LET step(c, y) == pm_pmc_setup(y, t, c, es.ev[c])
    IN SetInit(FoldSet(step, m, CountersOf(es)), t, es, CountersOf(es), TRUE)
perfmon_startCountersThread_pm(m, t, es) ==
    LET init == InitOf(m, t, es)
    IN Unfreeze(Zero(ResetData(m, t, es, init), LocsOf(t, init)), Both(m, t))
perfmon_stopCountersThread_pm(m, t, es) ==
    SamplePlain(Freeze(m, Both(m, t)), t, es, InitOf(m, t, es))
\* the value written back at the end has the enable bit masked out, too
perfmon_readCountersThread_pm(m, t, es) ==
    SamplePlain(Freeze(m, Both(m, t)), t, es, InitOf(m, t, es))
perfmon_finalizeCountersThread_pm(m, t, es) ==
    SetInit(Freeze(ClearSelections(m, t, es), Both(m, t)), t, es, CountersOf(es), FALSE)

-----------------------------------------------------------------------------
(* Xeon Phi *)

phi_pmc_setup(m, t, c, e) == Configure(m, t, c, e.flags)
perfmon_setupCounterThread_phi(m, t, es) ==
    LET step(c, y) == phi_pmc_setup(y, t, c, es.ev[c])
    IN SetInit(FoldSet(step, m, CountersOf(es)), t, es, CountersOf(es), TRUE)
perfmon_startCountersThread_phi(m, t, es) ==
    LET init == InitOf(m, t, es)
        zeroed == Zero(ResetData(GlobalCtrl(m, t, {}), t, es, init), LocsOf(t, init))
    IN ClearStatus(GlobalCtrl(zeroed, t, init), LocsOf(t, init))
perfmon_stopCountersThread_phi(m, t, es) ==
    SampleStatus(GlobalCtrl(m, t, {}), t, es, InitOf(m, t, es))

\* counter_map is indexed by the position of the event, not by its counter
AtPosition(t, es, c) == <<t, "PMC", es.pos[c]>>
perfmon_readCountersThread_phi(m, t, es) ==
    LET value(c) == m.cnt[AtPosition(t, es, c)]
        wrapped(c) == value(c) < m.tc[es.id][t][c].counterData
        init == InitOf(m, t, es)
    IN [m EXCEPT
          !.tc[es.id][t] = [c \in DOMAIN @ |->
              IF c \in init THEN Sampled(@[c], value(c), wrapped(c) /\ Loc(t, c) \in m.ovf) ELSE @[c]],
          !.ovf = @ \ {Loc(t, c) : c \in {d \in init : wrapped(d)}}]
perfmon_finalizeCountersThread_phi(m, t, es) ==
    LET cs == CountersOf(es)
    IN ClearStatus(GlobalCtrl(Deselect(m, {AtPosition(t, es, c) : c \in cs}), t, {}), LocsOf(t, cs))

-----------------------------------------------------------------------------
(* Nehalem.  UNCOREFIX is the last of the uncore counters, a fixed one. *)

neh_fixed_setup(m, t, es) == ConfigureFixed(m, t, es)
neh_pmc_setup(m, t, c, e) == Configure(m, t, c, e.flags)
\* the match register is written if there is something to match
neh_uncore_setup(m, t, c, e) ==
    IF ~HaveLock(t) THEN m
    ELSE Configure(IF e.filter = {} THEN m ELSE SetFilter(m, c, e.filter), t, c, e.flags)
neh_box_setup(m, t, c, e) ==
    CASE Type(c) = "PMC"       -> neh_pmc_setup(m, t, c, e)
      [] Type(c) = "UNCORE"    -> neh_uncore_setup(m, t, c, e)
      [] Type(c) = "UNCOREFIX" -> IF HaveLock(t) THEN [m EXCEPT !.ctl[Loc(t, c)] = e.flags] ELSE m
      [] OTHER                 -> m

\* MSR_UNCORE_PERF_GLOBAL_CTRL enables exactly these counters
UncoreCtrl(m, t, es, L) ==
    IF HaveLock(t) /\ UsesPackage(es) THEN Unfreeze(Freeze(m, PackageLocs(m)), L) ELSE m

perfmon_setupCounterThread_nehalem(m, t, es) ==
    LET step(c, y) == neh_box_setup(y, t, c, es.ev[c])
        frozen == UncoreCtrl(GlobalCtrlIf(m, t, es, {}), t, es, {})
    IN SetInit(neh_fixed_setup(FoldSet(step, frozen, CountersOf(es)), t, es), t, es, CountersOf(es), TRUE)

perfmon_startCountersThread_nehalem(m, t, es) ==
    LET init == InitOf(m, t, es)
        boxes == LocsOf(t, Boxes(t, init))
        zeroed == Zero(ResetData(m, t, es, init), LocsOf(t, CoreOf(init)) \cup boxes)
        uncore == IF boxes = {} THEN zeroed ELSE UncoreCtrl(zeroed, t, es, boxes)
    IN IF CoreOf(init) = {} THEN uncore ELSE EnableThenClear(uncore, t, es, init)

neh_read(m, t, es, cs) ==
    ClearData(SampleStatus(m, t, es, CoreOf(cs) \cup Boxes(t, cs)), t, es, cs \ (CoreOf(cs) \cup Boxes(t, cs)))
perfmon_stopCountersThread_nehalemNoUncore(m, t, es) ==
    neh_read(GlobalCtrlIf(m, t, es, {}), t, es, InitOf(m, t, es))
perfmon_stopCountersThread_nehalem(m, t, es) ==
    neh_read(UncoreCtrl(GlobalCtrlIf(m, t, es, {}), t, es, {}), t, es, InitOf(m, t, es))
perfmon_readCountersThread_nehalem(m, t, es) ==
    LET running == {l \in PackageLocs(m) : m.on[l]}
        read == neh_read(UncoreCtrl(GlobalCtrlIf(m, t, es, {}), t, es, {}), t, es, InitOf(m, t, es))
    IN UncoreCtrl(GlobalCtrlIf(read, t, es, EnabledCore(m, t, es)), t, es, running)

\* MSR_UNCORE_ADDR_OPCODE_MATCH is cleared for a PMC event, not for an uncore one
perfmon_finalizeCountersThread_nehalem(m, t, es) ==
    LET init == InitOf(m, t, es)
        cleared == Deselect(m, LocsOf(t, CoreOf(init) \cup Boxes(t, init)) \cup FixedLocs(m, t, init))
        core == GlobalCtrlIf(ClearStatus(cleared, LocsOf(t, CoreOf(init))), t, es, {})
    IN SetInit(UncoreCtrl(core, t, es, {}), t, es, init, FALSE)
=============================================================================
