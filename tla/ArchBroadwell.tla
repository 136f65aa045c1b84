---------------------------- MODULE ArchBroadwell ----------------------------
(***************************************************************************)
(* includes/perfmon_broadwell.h: Intel Broadwell, whose client variant has *)
(* core and energy counters only, and Broadwell D.                         *)
(***************************************************************************)
EXTENDS ArchCommon

bdw_fixed_setup(m, t, es) == ConfigureFixed(m, t, es)
bdw_pmc_setup(m, t, c, e) == Configure(m, t, c, e.flags)
bdw_ubox_setup(m, t, c, e) == ConfigureBox(m, t, c, e.flags)
bdw_mbox_setup(m, t, c, e) == ConfigureBox(m, t, c, e.flags)
bdw_mboxfix_setup(m, t, c, e) == ConfigureBox(m, t, c, e.flags)
bdw_ibox_setup(m, t, c, e) == ConfigureBox(m, t, c, e.flags)
bdw_pbox_setup(m, t, c, e) == ConfigureBox(m, t, c, e.flags)
\* filter registers are set, or cleared if there is no option
FilteredSetup(m, t, c, e) ==
    IF HaveLock(t) THEN Configure(SetFilter(m, c, e.filter), t, c, e.flags) ELSE m
bdw_cbox_setup(m, t, c, e) == FilteredSetup(m, t, c, e)
bdw_wbox_setup(m, t, c, e) == FilteredSetup(m, t, c, e)
bdw_bbox_setup(m, t, c, e) == FilteredSetup(m, t, c, e)

bdw_box_setup(m, t, c, e) ==
    CASE Type(c) = "PMC"     -> bdw_pmc_setup(m, t, c, e)
      [] Type(c) = "UBOX"    -> bdw_ubox_setup(m, t, c, e)
      [] Type(c) = "CBOX"    -> bdw_cbox_setup(m, t, c, e)
      [] Type(c) = "WBOX"    -> bdw_wbox_setup(m, t, c, e)
      [] Type(c) = "BBOX"    -> bdw_bbox_setup(m, t, c, e)
      [] Type(c) = "MBOX"    -> bdw_mbox_setup(m, t, c, e)
      [] Type(c) = "MBOXFIX" -> bdw_mboxfix_setup(m, t, c, e)
      [] Type(c) = "IBOX"    -> bdw_ibox_setup(m, t, c, e)
      [] Type(c) = "PBOX"    -> bdw_pbox_setup(m, t, c, e)
      [] Type(c) = "UBOXFIX" -> IF HaveLock(t) THEN [m EXCEPT !.ctl[Loc(t, c)] = e.flags] ELSE m
      [] OTHER               -> m

BDW_FREEZE_UNCORE(m, t, es) ==
    IF HaveLock(t) /\ UsesPackage(es) THEN Freeze(m, PackageLocs(m)) ELSE m
BDW_UNFREEZE_UNCORE(m, t, es) ==
    IF HaveLock(t) /\ UsesPackage(es) THEN Unfreeze(m, PackageLocs(m)) ELSE m
BDW_UNFREEZE_UNCORE_AND_RESET_CTR(m, t, es) ==
    BDW_UNFREEZE_UNCORE(Zero(m, LocsOf(t, Boxes(t, CountersOf(es)))), t, es)

perfmon_setupCounterThread_broadwell(m, t, es) ==
    LET step(c, y) == bdw_box_setup(y, t, c, es.ev[c])
        core == IF CoreOf(CountersOf(es)) = {} THEN m
                ELSE ClearStatus(GlobalCtrl(m, t, {}), {l \in m.ovf : l[1] = t})
        frozen == BDW_FREEZE_UNCORE(core, t, es)
    IN SetInit(bdw_fixed_setup(FoldSet(step, frozen, CountersOf(es)), t, es), t, es, CountersOf(es), TRUE)

perfmon_startCountersThread_broadwell(m, t, es) ==
    LET init == InitOf(m, t, es)
        zeroed == BDW_UNFREEZE_UNCORE_AND_RESET_CTR(
                      Zero(BeginData(m, t, es, init), LocsOf(t, CoreOf(init))), t, es)
    IN IF CoreOf(CountersOf(es)) = {} THEN zeroed
       ELSE GlobalCtrl(ClearStatus(zeroed, LocsOf(t, CoreOf(init))), t, CoreOf(init))

\* What bdw_uncore_read stores is overwritten by the 0 that counter_result
\* still holds; for the core and energy counters it holds the value read.
bdw_uncore_read(m, t, es, cs, clear) ==
    IF clear THEN Zero(m, LocsOf(t, Boxes(t, cs))) ELSE m
bdw_read(m, t, es, cs, clear) ==
    LET power == IF HaveLock(t) THEN OfTypes(cs, {"POWER"}) ELSE {}
        core == SamplePlain(SampleStatus(m, t, es, CoreOf(cs)), t, es, power)
    IN ClearData(bdw_uncore_read(core, t, es, cs, clear), t, es, cs \ (CoreOf(cs) \cup power))

perfmon_stopCountersThread_broadwell(m, t, es) ==
    LET init == InitOf(m, t, es)
        frozen == BDW_FREEZE_UNCORE(GlobalCtrlIf(m, t, es, {}), t, es)
    IN SetInit(bdw_read(frozen, t, es, init, TRUE), t, es, init, FALSE)

perfmon_readCountersThread_broadwell(m, t, es) ==
    LET enabled == {c \in CoreOf(CountersOf(es)) : m.on[Loc(t, c)]}
        frozen == BDW_FREEZE_UNCORE(GlobalCtrlIf(m, t, es, {}), t, es)
        read == bdw_read(frozen, t, es, InitOf(m, t, es), FALSE)
    IN GlobalCtrlIf(BDW_UNFREEZE_UNCORE(read, t, es), t, es, enabled)

\* control registers are cleared, filters are not
perfmon_finalizeCountersThread_broadwell(m, t, es) ==
    LET cs == CountersOf(es)
        cleared == Deselect(m, LocsOf(t, CoreOf(cs) \cup Boxes(t, cs)) \cup FixedLocs(m, t, cs))
    IN SetInit(GlobalCtrlIf(ClearStatus(cleared, LocsOf(t, CoreOf(cs))), t, es, {}), t, es, cs, FALSE)
=============================================================================
