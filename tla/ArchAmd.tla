------------------------------- MODULE ArchAmd -------------------------------
(***************************************************************************)
(* The architecture layers for AMD processors: k10 (K8 and K10),           *)
(* interlagos and kabini, from includes/perfmon_<name>.h.  Every counter   *)
(* has an enable bit in its own control register, and there is no global   *)
(* register and no status register.                                        *)
(***************************************************************************)
EXTENDS ArchCommon

\* what this thread programs: its core counters, and those of the package if
\* it holds the lock (for the caches of Kabini, the lock of the tile)
Own(t, cs) == CoreOf(cs) \cup Boxes(t, cs)

\* the counters are zeroed and the enable bits set
EnableEach(m, t, es) ==
    LET init == InitOf(m, t, es)
        L == LocsOf(t, Own(t, init))
    IN Unfreeze(Zero(ResetData(m, t, es, init), L), L)
DisableEach(m, t, cs) == Freeze(m, LocsOf(t, Own(t, cs)))
ClearEach(m, t, cs) == Deselect(DisableEach(m, t, cs), LocsOf(t, Own(t, cs)))

-----------------------------------------------------------------------------
k10_pmc_setup(m, t, c, e) == ConfigureDisabled(m, t, c, e.flags)
perfmon_setupCounterThread_k10OneFlags(m, t, es) ==
    LET step(c, y) == k10_pmc_setup(y, t, c, es.ev[CHOOSE d \in CountersOf(es) : TRUE])
    IN SetInit(FoldSet(step, m, CountersOf(es)), t, es, CountersOf(es), TRUE)
perfmon_setupCounterThread_k10(m, t, es) ==
    LET step(c, y) == k10_pmc_setup(y, t, c, es.ev[c])
    IN SetInit(FoldSet(step, m, CountersOf(es)), t, es, CountersOf(es), TRUE)
perfmon_startCountersThread_k10(m, t, es) == EnableEach(m, t, es)
perfmon_stopCountersThread_k10(m, t, es) ==
    LET init == InitOf(m, t, es) IN SamplePlain(DisableEach(m, t, init), t, es, init)
perfmon_readCountersThread_k10(m, t, es) == SamplePlain(m, t, es, InitOf(m, t, es))
perfmon_finalizeCountersThread_k10(m, t, es) ==
    SetInit(ClearEach(m, t, CountersOf(es)), t, es, CountersOf(es), FALSE)

-----------------------------------------------------------------------------
ilg_pmc_setup(m, t, c, e) == ConfigureDisabled(m, t, c, e.flags)
ilg_uncore_setup(m, t, c, e) == IF HaveLock(t) THEN ConfigureDisabled(m, t, c, e.flags) ELSE m
perfmon_setupCounterThread_interlagos(m, t, es) ==
    LET step(c, y) == IF Type(c) = "PMC" THEN ilg_pmc_setup(y, t, c, es.ev[c])
                      ELSE ilg_uncore_setup(y, t, c, es.ev[c])
    IN SetInit(FoldSet(step, m, CountersOf(es)), t, es, CountersOf(es), TRUE)
perfmon_startCountersThread_interlagos(m, t, es) == EnableEach(m, t, es)
\* no overflow is ever looked for; stop stores 0 for the counters of others
perfmon_stopCountersThread_interlagos(m, t, es) ==
    LET init == InitOf(m, t, es)
    IN ClearData(Sample(DisableEach(m, t, init), t, es, Own(t, init), {}), t, es, init \ Own(t, init))
\* read takes the uncore counters on every CPU
perfmon_readCountersThread_interlagos(m, t, es) == Sample(m, t, es, InitOf(m, t, es), {})
perfmon_finalizeCountersThread_interlagos(m, t, es) ==
    SetInit(ClearEach(m, t, CountersOf(es)), t, es, CountersOf(es), FALSE)

-----------------------------------------------------------------------------
k16_pmc_setup(m, t, c, e) == ConfigureDisabled(m, t, c, e.flags)
k16_uncore_setup(m, t, c, e) == IF HaveLock(t) THEN ConfigureDisabled(m, t, c, e.flags) ELSE m
k16_cache_setup(m, t, c, e) == IF HaveLock(t) THEN ConfigureDisabled(m, t, c, e.flags) ELSE m
perfmon_setupCounterThread_kabini(m, t, es) ==
    LET step(c, y) == CASE Type(c) = "PMC"    -> k16_pmc_setup(y, t, c, es.ev[c])
                        [] Type(c) = "UNCORE" -> k16_uncore_setup(y, t, c, es.ev[c])
                        [] Type(c) = "CBOX"   -> k16_cache_setup(y, t, c, es.ev[c])
    IN SetInit(FoldSet(step, m, CountersOf(es)), t, es, CountersOf(es), TRUE)
perfmon_startCountersThread_kabini(m, t, es) == EnableEach(m, t, es)
perfmon_stopCountersThread_kabini(m, t, es) ==
    LET init == InitOf(m, t, es) IN SamplePlain(DisableEach(m, t, init), t, es, Own(t, init))
perfmon_readCountersThread_kabini(m, t, es) == SamplePlain(m, t, es, Own(t, InitOf(m, t, es)))
perfmon_finalizeCountersThread_kabini(m, t, es) ==
    SetInit(ClearEach(m, t, CountersOf(es)), t, es, Own(t, CountersOf(es)), FALSE)
=============================================================================
