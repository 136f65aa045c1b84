---------------------------- MODULE ArchIvybridge ----------------------------
(***************************************************************************)
(* includes/perfmon_ivybridge.h: Intel Ivy Bridge (client) and Ivy Bridge  *)
(* EP.  The boxes are frozen and unfrozen together, through the global     *)
(* control register of the package; the control registers of the boxes are *)
(* used to reset their counters or their control registers.                *)
(***************************************************************************)
EXTENDS ArchCommon

ivb_fixed_setup(m, t, es) == ConfigureFixed(m, t, es)
ivb_pmc_setup(m, t, c, e) == Configure(m, t, c, e.flags)
ivb_pci_box_setup(m, t, c, e) == ConfigureBox(m, t, c, e.flags)
ivb_mboxfix_setup(m, t, c, e) == ConfigureBox(m, t, c, e.flags)
\* match and mask values are written to the counters' device, not to the
\* device of the match registers
ivb_sbox_setup(m, t, c, e) == ConfigureBox(m, t, c, e.flags)
ivb_cbox_setup(m, t, c, e) == ConfigureBox(m, t, c, e.flags)
ivb_uboxfix_setup(m, t, c, e) == ConfigureBox(m, t, c, e.flags)
ivb_ibox_setup(m, t, c, e) == ConfigureBox(m, t, c, e.flags)

\* filter and match registers are written if the event has such an option
\* and keep their value otherwise
FilterIfOption(m, t, c, e) ==
    IF HaveLock(t) /\ e.filter # {} THEN SetFilter(m, c, e.filter) ELSE m
ivb_bbox_setup(m, t, c, e) == ConfigureBox(FilterIfOption(m, t, c, e), t, c, e.flags)
ivbep_cbox_setup(m, t, c, e) == ConfigureBox(FilterIfOption(m, t, c, e), t, c, e.flags)
ivb_wbox_setup(m, t, c, e) == ConfigureBox(FilterIfOption(m, t, c, e), t, c, e.flags)

\* the flags of EP have the reset bit: the counter is zeroed when they are written
ivb_ubox_setup(m, t, c, e, ep) ==
    IF ep /\ HaveLock(t) /\ m.cfg[t][c] # e.flags
    THEN Zero(Configure(m, t, c, e.flags), {Loc(t, c)})
    ELSE ConfigureBox(m, t, c, e.flags)

ivb_box_setup(m, t, c, e, ep) ==
    CASE Type(c) = "PMC"     -> ivb_pmc_setup(m, t, c, e)
      [] Type(c) \in {"MBOX", "RBOX", "PBOX"} -> ivb_pci_box_setup(m, t, c, e)
      [] Type(c) = "MBOXFIX" -> ivb_mboxfix_setup(m, t, c, e)
      [] Type(c) = "SBOX"    -> ivb_sbox_setup(m, t, c, e)
      [] Type(c) = "BBOX"    -> ivb_bbox_setup(m, t, c, e)
      [] Type(c) = "CBOX"    -> IF ep THEN ivbep_cbox_setup(m, t, c, e) ELSE ivb_cbox_setup(m, t, c, e)
      [] Type(c) = "UBOX"    -> ivb_ubox_setup(m, t, c, e, ep)
      [] Type(c) = "UBOXFIX" -> ivb_uboxfix_setup(m, t, c, e)
      [] Type(c) = "WBOX"    -> ivb_wbox_setup(m, t, c, e)
      [] Type(c) = "IBOX"    -> ivb_ibox_setup(m, t, c, e)
      [] OTHER               -> m

\* boxes with a control register of their own (box_map[j].ctrlRegister); on
\* the client that register is the global one, which the flags do not enable
WithBoxControl(cs, ep) == {c \in UncoreOf(cs) : ep /\ Type(c) \notin {"UBOX", "UBOXFIX"}}

ivb_uncore_freeze(m, t, es, clearCtl, ep) ==
    LET frozen == Freeze(m, PackageLocs(m))
    IN IF ~HaveLock(t) \/ ~UsesPackage(es) THEN m
       ELSE IF clearCtl THEN Deselect(frozen, LocsOf(t, WithBoxControl(CountersOf(es), ep)))
       ELSE frozen

ivb_uncore_unfreeze(m, t, es, clearCtr, ep) ==
    LET zeroed == IF clearCtr THEN Zero(m, LocsOf(t, WithBoxControl(CountersOf(es), ep))) ELSE m
    IN IF ~HaveLock(t) \/ ~UsesPackage(es) THEN m ELSE Unfreeze(zeroed, PackageLocs(m))

perfmon_setupCounterThread_ivybridge(m, t, es, ep) ==
    LET step(c, y) == ivb_box_setup(y, t, c, es.ev[c], ep)
        frozen == ivb_uncore_freeze(GlobalCtrlIf(m, t, es, {}), t, es, FALSE, ep)
    IN SetInit(ivb_fixed_setup(FoldSet(step, frozen, CountersOf(es)), t, es), t, es, CountersOf(es), TRUE)

\* there is no case for the free running WBOX counters
perfmon_startCountersThread_ivybridge(m, t, es, ep) ==
    LET init == InitOf(m, t, es)
        noted == NoteStart(ResetData(m, t, es, init), t, es,
                           IF HaveLock(t) THEN OfTypes(init, {"POWER"}) ELSE {})
        zeroed == Zero(noted, LocsOf(t, CoreOf(init)))
        running == ivb_uncore_unfreeze(zeroed, t, es, TRUE, ep)
    IN IF CoreOf(CountersOf(es)) = {} THEN running
       ELSE ClearStatus(GlobalCtrl(running, t, CoreOf(init)), LocsOf(t, CoreOf(init)))

\* The boxes' counters, then their overflow: box_map[type].ovflOffset is -1
\* for IBOX; CBOX and MBOX*FIX have no status register.  The global status
\* register read is the one of EP: on the client that fails.
ivb_uncore_read(m, t, es, c, clear, ep) ==
    LET read == IF ep THEN SampleBox(m, t, es, c, Type(c) # "IBOX", Type(c) \notin {"CBOX", "MBOXFIX"})
                ELSE Sample(m, t, es, {c}, {})
    IN IF clear THEN Zero(read, {Loc(t, c)}) ELSE read

\* Status bits are tested, not cleared.  The bit of a FIXED counter is an int
\* shifted by 32 and more.
CoreConfirmed(m) ==
    LET pmc == {l \in m.ovf : l[2] = "PMC"}
    IN pmc \cup IF m.shl THEN {<<l[1], "FIXED", l[3]>> : l \in pmc} ELSE {}
\* counters without a case, and those of others, store 0
ivb_read(m, t, es, cs, clear, ep) ==
    LET boxes == Boxes(t, cs)
        power == IF HaveLock(t) THEN OfTypes(cs, {"POWER"}) ELSE {}
        step(c, y) == ivb_uncore_read(y, t, es, c, clear, ep)
        core == SamplePlain(Sample(m, t, es, CoreOf(cs), CoreConfirmed(m)), t, es, power)
    IN ClearData(FoldSet(step, core, boxes), t, es, cs \ (CoreOf(cs) \cup boxes \cup power))

\* stop resets the control registers of the boxes, not currentConfig
perfmon_stopCountersThread_ivybridge(m, t, es, ep) ==
    LET frozen == ivb_uncore_freeze(GlobalCtrlIf(m, t, es, {}), t, es, TRUE, ep)
    IN SetInit(ivb_read(frozen, t, es, InitOf(m, t, es), TRUE, ep), t, es, CountersOf(es), FALSE)

perfmon_readCountersThread_ivybridge(m, t, es, ep) ==
    LET enabled == {c \in CoreOf(CountersOf(es)) : m.on[Loc(t, c)]}
        frozen == ivb_uncore_freeze(GlobalCtrlIf(m, t, es, {}), t, es, FALSE, ep)
        read == ivb_read(frozen, t, es, InitOf(m, t, es), FALSE, ep)
    IN GlobalCtrlIf(ivb_uncore_unfreeze(read, t, es, FALSE, ep), t, es, enabled)

\* only counters still initialised, which stop has ended, are cleared
perfmon_finalizeCountersThread_ivybridge(m, t, es) ==
    LET init == InitOf(m, t, es)
        mine == LocsOf(t, CoreOf(init) \cup Boxes(t, init))
        cleared == Zero(Deselect(m, mine \cup FixedLocs(m, t, init)), mine)
    IN SetInit(GlobalCtrlIf(ClearStatus(cleared, LocsOf(t, CoreOf(init))), t, es, {}), t, es, init, FALSE)
=============================================================================
