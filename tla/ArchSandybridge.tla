--------------------------- MODULE ArchSandybridge ---------------------------
(***************************************************************************)
(* includes/perfmon_sandybridge.h: Intel Sandy Bridge (client) and Sandy   *)
(* Bridge EP.  On EP every box has its own control register; the client's  *)
(* uncore has one global control register.                                 *)
(***************************************************************************)
EXTENDS ArchCommon

snb_fixed_setup(m, t, es) == ConfigureFixed(m, t, es)
snb_pmc_setup(m, t, c, e) == Configure(m, t, c, e.flags)
snb_mbox_setup(m, t, c, e) == ConfigureBox(m, t, c, e.flags)
snb_rbox_setup(m, t, c, e) == ConfigureBox(m, t, c, e.flags)
snb_pbox_setup(m, t, c, e) == ConfigureBox(m, t, c, e.flags)
snb_cbox_setup(m, t, c, e) == ConfigureBox(m, t, c, e.flags)

\* filter and match registers are written if the event has such an option
\* and keep their value otherwise
WithFilterOption(m, t, c, e) ==
    IF HaveLock(t) /\ e.filter # {} THEN SetFilter(m, c, e.filter) ELSE m
snbep_cbox_setup(m, t, c, e) == ConfigureBox(WithFilterOption(m, t, c, e), t, c, e.flags)
snb_bbox_setup(m, t, c, e) == ConfigureBox(WithFilterOption(m, t, c, e), t, c, e.flags)
snb_wbox_setup(m, t, c, e) == ConfigureBox(WithFilterOption(m, t, c, e), t, c, e.flags)
snb_sbox_setup(m, t, c, e) == ConfigureBox(WithFilterOption(m, t, c, e), t, c, e.flags)

\* the flags have the reset bit and not the enable bit
snb_ubox_setup(m, t, c, e) ==
    IF ~HaveLock(t) \/ m.cfg[t][c] = e.flags THEN m
    ELSE Zero(Freeze(Configure(m, t, c, e.flags), {Loc(t, c)}), {Loc(t, c)})

snb_box_setup(m, t, c, e, ep) ==
    CASE Type(c) = "PMC"     -> snb_pmc_setup(m, t, c, e)
      [] Type(c) = "MBOX"    -> snb_mbox_setup(m, t, c, e)
      [] Type(c) = "CBOX"    -> IF ep THEN snbep_cbox_setup(m, t, c, e) ELSE snb_cbox_setup(m, t, c, e)
      [] Type(c) = "UBOX"    -> snb_ubox_setup(m, t, c, e)
      [] Type(c) = "UBOXFIX" -> Unfreeze([m EXCEPT !.ctl[Loc(t, c)] = e.flags], {Loc(t, c)})
      [] Type(c) = "SBOX"    -> snb_sbox_setup(m, t, c, e)
      [] Type(c) = "BBOX"    -> snb_bbox_setup(m, t, c, e)
      [] Type(c) = "WBOX"    -> snb_wbox_setup(m, t, c, e)
      [] Type(c) = "RBOX"    -> snb_rbox_setup(m, t, c, e)
      [] Type(c) = "PBOX"    -> snb_pbox_setup(m, t, c, e)
      [] OTHER               -> m

\* SNB_FREEZE_BOX acts on the MSR boxes.  SNB_FREEZE_PCI_BOX requires
\* HPMcheck to fail, so it never acts on a device that exists.
SNB_FREEZE_BOX(m, t, es) == Freeze(m, LocsOf(t, OfTypes(Boxes(t, CountersOf(es)), {"CBOX", "WBOX"})))
SNB_FREEZE_AND_RESET_CTL_BOX(m, t, es) ==
    LET L == LocsOf(t, OfTypes(Boxes(t, CountersOf(es)), {"WBOX"})) IN Deselect(Freeze(m, L), L)
SNB_FREEZE_MBOXFIX(m, t, es) == Deselect(m, LocsOf(t, OfTypes(Boxes(t, CountersOf(es)), {"MBOXFIX"})))

\* MSR_UNC_PERF_GLOBAL_CTRL of the client is written without lock
snb_freeze(m, t, es, ep) ==
    IF ep THEN SNB_FREEZE_MBOXFIX(SNB_FREEZE_BOX(m, t, es), t, es) ELSE Freeze(m, PackageLocs(m))

\* MSR_PERF_GLOBAL_OVF_CTRL is written with 0, which clears no status bit
perfmon_setupCounterThread_sandybridge(m, t, es, ep) ==
    LET step(c, y) == snb_box_setup(y, t, c, es.ev[c], ep)
        frozen == snb_freeze(GlobalCtrlIf(m, t, es, {}), t, es, ep)
    IN SetInit(snb_fixed_setup(FoldSet(step, frozen, CountersOf(es)), t, es), t, es, CountersOf(es), TRUE)

\* SNB_UNFREEZE_BOX and SNB_UNFREEZE_PCI_BOX, with and without
\* _AND_RESET_CTR, and SNB_UNFREEZE_MBOXFIX, which writes the control register
SNB_UNFREEZE_BOX(m, t, es) ==
    LET boxes == Boxes(t, CountersOf(es))
        fix == OfTypes(boxes, {"MBOXFIX"})
        L == LocsOf(t, boxes \ OfTypes(boxes, {"UBOX", "UBOXFIX"}))
        y == Unfreeze(m, L)
    IN [y EXCEPT !.ctl = [l \in DOMAIN @ |->
            IF l \in LocsOf(t, fix) THEN es.ev[<<l[2], l[3]>>].flags ELSE @[l]]]

\* Counters are zeroed by their box or one by one.  UBOX counters are reset
\* and enabled in their own control registers; the WBOX filter that setup has
\* written is cleared.  The client's uncore is to be unfrozen by
\* MSR_UNC_U_PMON_GLOBAL_CTL, which is not the register that froze it.
perfmon_startCountersThread_sandybridge(m, t, es, ep) ==
    LET init == InitOf(m, t, es)
        boxes == OfTypes(Boxes(t, init), {"MBOX", "CBOX", "UBOX", "BBOX"})
        ubox == LocsOf(t, OfTypes(Boxes(t, init), {"UBOX", "UBOXFIX"}))
        onebyone == LocsOf(t, CoreOf(init) \cup boxes \cup OfTypes(init, {"UBOXFIX"}))
        bybox == LocsOf(t, OfTypes(Boxes(t, CountersOf(es)), {"CBOX", "SBOX", "WBOX", "RBOX", "PBOX", "MBOXFIX"}))
        zeroed == Unfreeze(Zero(BeginData(m, t, es, init), onebyone \cup (IF ep THEN bybox ELSE {})), ubox)
        filtered == IF OfTypes(Boxes(t, init), {"WBOX"}) = {} THEN zeroed
                    ELSE [zeroed EXCEPT !.filter["WBOX"] = {}]
        core == GlobalCtrlIf(filtered, t, es, CoreOf(init))
    IN IF ep THEN SNB_UNFREEZE_BOX(core, t, es) ELSE core

\* SNB_READ_BOX, SNB_READ_PCI_BOX, SNB_CHECK_OVERFLOW; a thread without the
\* lock stores 0, except for the types in unlocked
snb_read(m, t, es, cs, unlocked) ==
    LET mine == IF HaveLock(t) THEN UncoreOf(cs) \cup FreeOf(cs) ELSE OfTypes(cs, unlocked)
    IN ClearData(SamplePlain(SampleStatus(m, t, es, CoreOf(cs)), t, es, mine),
                 t, es, cs \ (mine \cup CoreOf(cs)))

\* UBOX counters are read by every thread; MBOX*FIX is not frozen
perfmon_stopCountersThread_sandybridge(m, t, es, ep) ==
    LET core == GlobalCtrlIf(m, t, es, {})
        frozen == IF ep THEN SNB_FREEZE_AND_RESET_CTL_BOX(SNB_FREEZE_BOX(core, t, es), t, es)
                  ELSE Freeze(core, PackageLocs(m))
    IN snb_read(frozen, t, es, InitOf(m, t, es), {"UBOX", "UBOXFIX"})

\* MSR_PERF_GLOBAL_CTRL is saved and restored
perfmon_readCountersThread_sandybridge(m, t, es, ep) ==
    LET enabled == {c \in CoreOf(CountersOf(es)) : m.on[Loc(t, c)]}
        frozen == snb_freeze(GlobalCtrlIf(m, t, es, {}), t, es, ep)
        read == snb_read(frozen, t, es, InitOf(m, t, es), {})
        running == IF ep THEN SNB_UNFREEZE_BOX(read, t, es) ELSE Unfreeze(read, PackageLocs(m))
    IN GlobalCtrlIf(running, t, es, enabled)

\* control registers of initialised counters are cleared, filters are not
perfmon_finalizeCountersThread_sandybridge(m, t, es, ep) ==
    LET init == InitOf(m, t, es)
        cleared == Deselect(m, LocsOf(t, CoreOf(init) \cup Boxes(t, init)) \cup FixedLocs(m, t, init))
    IN SetInit(GlobalCtrlIf(ClearStatus(cleared, LocsOf(t, CoreOf(init))), t, es, {}), t, es, init, FALSE)
=============================================================================
