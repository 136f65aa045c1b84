----------------------------- MODULE ArchHaswell -----------------------------
(***************************************************************************)
(* includes/perfmon_haswell.h: Intel Haswell (client) and Haswell EP.  The *)
(* boxes of EP are frozen and unfrozen together by the global control      *)
(* register of the package, and an overflow is looked up in its global     *)
(* status register before the status register of the box.                  *)
(***************************************************************************)
EXTENDS ArchCommon

hasep_fixed_setup(m, t, es) == ConfigureFixed(m, t, es)
hasep_pmc_setup(m, t, c, e) == Configure(m, t, c, e.flags)
has_cbox_setup(m, t, c, e) == ConfigureBox(m, t, c, e.flags)
hasep_ubox_setup(m, t, c, e) == ConfigureBox(m, t, c, e.flags)
hasep_sbox_setup(m, t, c, e) == ConfigureBox(m, t, c, e.flags)
hasep_mbox_setup(m, t, c, e) == ConfigureBox(m, t, c, e.flags)
hasep_ibox_setup(m, t, c, e) == ConfigureBox(m, t, c, e.flags)
hasep_pbox_setup(m, t, c, e) == ConfigureBox(m, t, c, e.flags)
hasep_rbox_setup(m, t, c, e) == ConfigureBox(m, t, c, e.flags)
\* match and mask values are written to the counters' device; the registers
\* that match are those of filterdev, which is only tested
hasep_qbox_setup(m, t, c, e) == ConfigureBox(m, t, c, e.flags)

\* every option adds its bits to what is in the filter registers
hasep_cbox_setup(m, t, c, e) ==
    IF ~HaveLock(t) THEN m
    ELSE Configure([m EXCEPT !.filter["CBOX"] = @ \cup e.filter], t, c, e.flags)

hasep_wbox_setupOption(m, t, c, e) ==
    IF ~HaveLock(t) THEN m
    ELSE Configure(IF e.filter = {} THEN m ELSE SetFilter(m, c, e.filter), t, c, e.flags)
\* a register for which there is no option is cleared
hasep_wbox_setup(m, t, c, e) ==
    IF HaveLock(t) THEN Configure(SetFilter(m, c, e.filter), t, c, e.flags) ELSE m
hasep_bbox_setup(m, t, c, e) ==
    IF HaveLock(t) THEN Configure(SetFilter(m, c, e.filter), t, c, e.flags) ELSE m

hasep_box_setup(m, t, c, e, ep) ==
    CASE Type(c) = "PMC"     -> hasep_pmc_setup(m, t, c, e)
      [] Type(c) = "CBOX"    -> IF ep THEN hasep_cbox_setup(m, t, c, e) ELSE has_cbox_setup(m, t, c, e)
      [] Type(c) = "UBOX"    -> hasep_ubox_setup(m, t, c, e)
      [] Type(c) = "SBOX"    -> hasep_sbox_setup(m, t, c, e)
      [] Type(c) = "BBOX"    -> hasep_bbox_setup(m, t, c, e)
      [] Type(c) = "WBOX"    -> hasep_wbox_setup(m, t, c, e)
      [] Type(c) = "MBOX"    -> hasep_mbox_setup(m, t, c, e)
      [] Type(c) = "PBOX"    -> hasep_pbox_setup(m, t, c, e)
      [] Type(c) = "RBOX"    -> hasep_rbox_setup(m, t, c, e)
      [] Type(c) = "QBOX"    -> hasep_qbox_setup(m, t, c, e)
      [] Type(c) = "IBOX"    -> hasep_ibox_setup(m, t, c, e)
      [] Type(c) \in {"UBOXFIX", "MBOXFIX"} ->
             IF HaveLock(t) THEN [m EXCEPT !.ctl[Loc(t, c)] = e.flags] ELSE m
      [] OTHER               -> m

\* The client's macro writes the register only if bit 29 is already clear.
HASEP_FREEZE_UNCORE(m, t, es, ep) ==
    IF HaveLock(t) /\ UsesPackage(es) /\ ep THEN Freeze(m, PackageLocs(m)) ELSE m
HASEP_UNFREEZE_UNCORE(m, t, es) ==
    IF HaveLock(t) /\ UsesPackage(es) THEN Unfreeze(m, PackageLocs(m)) ELSE m
HASEP_UNFREEZE_UNCORE_AND_RESET_CTR(m, t, es) ==
    HASEP_UNFREEZE_UNCORE(Zero(m, LocsOf(t, Boxes(t, CountersOf(es)))), t, es)

perfmon_setupCounterThread_haswell(m, t, es, ep) ==
    LET step(c, y) == hasep_box_setup(y, t, c, es.ev[c], ep)
        core == IF CoreOf(CountersOf(es)) = {} THEN m
                ELSE ClearStatus(GlobalCtrl(m, t, {}), {l \in m.ovf : l[1] = t})
        frozen == HASEP_FREEZE_UNCORE(core, t, es, ep)
    IN SetInit(hasep_fixed_setup(FoldSet(step, frozen, CountersOf(es)), t, es), t, es, CountersOf(es), TRUE)

perfmon_startCountersThread_haswell(m, t, es) ==
    LET init == InitOf(m, t, es)
        zeroed == HASEP_UNFREEZE_UNCORE_AND_RESET_CTR(
                      Zero(BeginData(m, t, es, init), LocsOf(t, CoreOf(init))), t, es)
    IN IF CoreOf(CountersOf(es)) = {} THEN zeroed
       ELSE GlobalCtrl(ClearStatus(zeroed, LocsOf(t, CoreOf(init))), t, CoreOf(init))

\* box_map[type].ovflOffset is -1: only the status register of the box
LocalOnly == {"CBOX", "SBOX"}

\* The global status register read is the one of EP.  On the client that
\* fails, and the function returns before it stores the value.
has_uncore_read(m, t, es, c, clear, ep) ==
    IF ~HaveLock(t) THEN m
    ELSE LET lost == ~ep /\ Wrapped(m, t, es, c)
             read == IF lost THEN m
                     ELSE SampleBox(m, t, es, c, Type(c) \notin LocalOnly, Type(c) \notin {"MBOXFIX", "IBOX"})
         IN IF clear THEN Zero(read, {Loc(t, c)}) ELSE read

\* HASEP_CHECK_CORE_OVERFLOW: status bit confirmed and cleared
HASEP_READ(m, t, es, cs, clear, ep) ==
    LET step(c, y) == has_uncore_read(y, t, es, c, clear, ep)
    IN FoldSet(step, SampleFree(SampleStatus(m, t, es, CoreOf(cs)), t, es, cs), UncoreOf(cs))

\* stop leaves the counters uninitialised
perfmon_stopCountersThread_haswell(m, t, es, ep) ==
    LET init == InitOf(m, t, es)
        frozen == HASEP_FREEZE_UNCORE(GlobalCtrlIf(m, t, es, {}), t, es, ep)
    IN SetInit(HASEP_READ(frozen, t, es, init, TRUE, ep), t, es, init, FALSE)

perfmon_readCountersThread_haswell(m, t, es, ep) ==
    LET enabled == {c \in CoreOf(CountersOf(es)) : m.on[Loc(t, c)]}
        frozen == HASEP_FREEZE_UNCORE(GlobalCtrlIf(m, t, es, {}), t, es, ep)
        read == HASEP_READ(frozen, t, es, InitOf(m, t, es), FALSE, ep)
    IN GlobalCtrlIf(HASEP_UNFREEZE_UNCORE(read, t, es), t, es, enabled)

FilterRegistersNoWbox == {"CBOX"}
\* box_map names filter registers for these types; they are cleared too
FilterRegisters == {"CBOX", "WBOX"}
perfmon_finalizeCountersThread_haswell(m, t, es) ==
    LET cs == CountersOf(es)
        boxes == Boxes(t, cs)
        cleared == Deselect(m, LocsOf(t, CoreOf(cs) \cup boxes) \cup FixedLocs(m, t, cs))
        unfiltered == [cleared EXCEPT !.filter =
                          Put(@, {Type(c) : c \in OfTypes(boxes, FilterRegisters)}, {})]
        core == GlobalCtrlIf(ClearStatus(unfiltered, LocsOf(t, CoreOf(cs))), t, es, {})
    IN SetInit(core, t, es, cs, FALSE)
=============================================================================
