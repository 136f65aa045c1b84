------------------------------- MODULE ArchEX -------------------------------
(***************************************************************************)
(* includes/perfmon_nehalemEX.h and perfmon_westmereEX.h: Intel Nehalem EX *)
(* and Westmere EX.  The boxes have control and status registers of their  *)
(* own below a global control register of the package.  The fixed counter  *)
(* of the WBOX, WBOXFIX here, is an ordinary counter of these processors.  *)
(* The sub-registers of MBOX and RBOX, cleared and rewritten by every      *)
(* setup, are part of the event a control register selects.                *)
(***************************************************************************)
EXTENDS ArchCommon

\* match registers are written if the event has such an option
MatchIfOption(m, t, c, e) ==
    IF HaveLock(t) /\ e.filter # {} THEN SetFilter(m, c, e.filter) ELSE m
MatchedSetup(m, t, c, e) == ConfigureBox(MatchIfOption(m, t, c, e), t, c, e.flags)
\* a control register written without regard to currentConfig
Overwrite(m, t, c, e) == IF HaveLock(t) THEN [m EXCEPT !.ctl[Loc(t, c)] = e.flags] ELSE m

nex_fixed_setup(m, t, es) == ConfigureFixed(m, t, es)
nex_pmc_setup(m, t, c, e) == Configure(m, t, c, e.flags)
nex_mbox_setup(m, t, c, e) == MatchedSetup(m, t, c, e)
nex_bbox_setup(m, t, c, e) == MatchedSetup(m, t, c, e)
nex_sbox_setup(m, t, c, e) == MatchedSetup(m, t, c, e)
nex_rbox_setup(m, t, c, e) == ConfigureBox(m, t, c, e.flags)
nex_cbox_setup(m, t, c, e) == ConfigureBox(m, t, c, e.flags)
nex_wbox_setup(m, t, c, e) == ConfigureBox(m, t, c, e.flags)

nex_box_setup(m, t, c, e) ==
    CASE Type(c) = "PMC"  -> nex_pmc_setup(m, t, c, e)
      [] Type(c) = "MBOX" -> nex_mbox_setup(m, t, c, e)
      [] Type(c) = "BBOX" -> nex_bbox_setup(m, t, c, e)
      [] Type(c) = "SBOX" -> nex_sbox_setup(m, t, c, e)
      [] Type(c) = "RBOX" -> nex_rbox_setup(m, t, c, e)
      [] Type(c) = "CBOX" -> nex_cbox_setup(m, t, c, e)
      [] Type(c) = "WBOX" -> nex_wbox_setup(m, t, c, e)
      [] Type(c) \in {"WBOXFIX", "UBOX"} -> Overwrite(m, t, c, e)
      [] OTHER            -> m

NEX_FREEZE_UNCORE(m, t, es) ==
    IF HaveLock(t) /\ UsesPackage(es) THEN Freeze(m, PackageLocs(m)) ELSE m
NEX_UNFREEZE_UNCORE(m, t, es) ==
    IF HaveLock(t) /\ UsesPackage(es) THEN Unfreeze(m, PackageLocs(m)) ELSE m
NEX_RESET_ALL_UNCORE_COUNTERS(m, t, es) ==
    IF HaveLock(t) /\ UsesPackage(es) THEN Zero(m, PackageLocs(m)) ELSE m

perfmon_setupCounterThread_nehalemEX(m, t, es) ==
    LET step(c, y) == nex_box_setup(y, t, c, es.ev[c])
        frozen == NEX_FREEZE_UNCORE(GlobalCtrlIf(m, t, es, {}), t, es)
    IN SetInit(nex_fixed_setup(FoldSet(step, frozen, CountersOf(es)), t, es), t, es, CountersOf(es), TRUE)

\* NEX_UNFREEZE_BOX enables the counters of a box and clears their status
perfmon_startCountersThread_nehalemEX(m, t, es) ==
    LET init == InitOf(m, t, es)
        reset == ResetData(NEX_RESET_ALL_UNCORE_COUNTERS(m, t, es), t, es, init)
        zeroed == Zero(reset, LocsOf(t, CoreOf(init)))
        boxes == ClearStatus(zeroed, LocsOf(t, Boxes(t, init)))
        running == NEX_UNFREEZE_UNCORE(boxes, t, es)
    IN IF CoreOf(CountersOf(es)) = {} THEN running
       ELSE ClearStatus(GlobalCtrl(running, t, CoreOf(init)), LocsOf(t, CoreOf(init)))

\* the fixed counter of the WBOX looks at the status bit of counter WBOX0
StatusBit(l) == IF l[2] = "WBOXFIX" THEN <<l[1], "WBOX", 0>> ELSE l
Confirmed(m) == {l \in DOMAIN m.cnt : StatusBit(l) \in m.ovf}
AcknowledgeBoxes(m, t, es, cs) ==
    ClearStatus(Sample(m, t, es, cs, Confirmed(m)),
                {StatusBit(Loc(t, c)) : c \in {d \in cs : Wrapped(m, t, es, d)}})

\* NEX_CHECK_OVERFLOW acknowledges a core's bit in the status register, which
\* cannot be written; a thread without the lock stores 0 for the boxes
nex_read(m, t, es, cs) ==
    LET core == Sample(m, t, es, CoreOf(cs), m.ovf)
    IN ClearData(AcknowledgeBoxes(core, t, es, Boxes(t, cs)), t, es, cs \ (CoreOf(cs) \cup Boxes(t, cs)))

perfmon_stopCountersThread_nehalemEX(m, t, es) ==
    nex_read(NEX_FREEZE_UNCORE(GlobalCtrlIf(m, t, es, {}), t, es), t, es, InitOf(m, t, es))

\* the core counters go on counting while they are read
perfmon_readCountersThread_nehalemEX(m, t, es) ==
    NEX_UNFREEZE_UNCORE(nex_read(NEX_FREEZE_UNCORE(m, t, es), t, es, InitOf(m, t, es)), t, es)

\* the match registers are cleared with the events that use them
perfmon_finalizeCountersThread_nehalemEX(m, t, es) ==
    LET cs == CountersOf(es)
        cleared == Deselect(m, LocsOf(t, CoreOf(cs) \cup Boxes(t, cs)) \cup FixedLocs(m, t, cs))
        unmatched == [cleared EXCEPT !.filter =
            Put(@, {Type(c) : c \in OfTypes(Boxes(t, cs), {"MBOX", "SBOX", "BBOX"})}, {})]
        core == GlobalCtrlIf(ClearStatus(unmatched, LocsOf(t, CoreOf(cs))), t, es, {})
    IN SetInit(NEX_FREEZE_UNCORE(core, t, es), t, es, cs, FALSE)

-----------------------------------------------------------------------------
(* Westmere EX *)

wex_fixed_setup(m, t, es) == ConfigureFixed(m, t, es)
wex_pmc_setup(m, t, c, e) == Configure(m, t, c, e.flags)
wex_mbox_setup(m, t, c, e) == MatchedSetup(m, t, c, e)
wex_bbox_setup(m, t, c, e) == MatchedSetup(m, t, c, e)
wex_sbox_setup(m, t, c, e) == MatchedSetup(m, t, c, e)
wex_rbox_setup(m, t, c, e) == ConfigureBox(m, t, c, e.flags)
wex_cbox_setup(m, t, c, e) == ConfigureBox(m, t, c, e.flags)
wex_wbox_setup(m, t, c, e) == ConfigureBox(m, t, c, e.flags)
wex_ubox_setup(m, t, c, e) == ConfigureBox(m, t, c, e.flags)

\* the case for UBOX falls through to the one for SBOX; the flags are the same
wex_box_setup(m, t, c, e) ==
    CASE Type(c) = "PMC"     -> wex_pmc_setup(m, t, c, e)
      [] Type(c) = "MBOX"    -> wex_mbox_setup(m, t, c, e)
      [] Type(c) = "BBOX"    -> wex_bbox_setup(m, t, c, e)
      [] Type(c) = "SBOX"    -> wex_sbox_setup(m, t, c, e)
      [] Type(c) = "RBOX"    -> wex_rbox_setup(m, t, c, e)
      [] Type(c) = "CBOX"    -> wex_cbox_setup(m, t, c, e)
      [] Type(c) = "WBOX"    -> wex_wbox_setup(m, t, c, e)
      [] Type(c) = "UBOX"    -> wex_sbox_setup(wex_ubox_setup(m, t, c, e), t, c, e)
      [] Type(c) = "WBOXFIX" -> Overwrite(m, t, c, e)
      [] OTHER               -> m

\* FREEZE_FLAG_CLEAR_CTL clears the control registers of all events of the
\* set, those of this CPU's core included, and leaves currentConfig alone
wex_uncore_freeze(m, t, es, clearCtl) ==
    LET frozen == IF UsesPackage(es) THEN Freeze(m, PackageLocs(m)) ELSE m
    IN IF ~HaveLock(t) THEN m
       ELSE IF clearCtl THEN Deselect(frozen, LocsOf(t, CountersOf(es)) \cup FixedLocs(m, t, CountersOf(es)))
       ELSE frozen
\* FREEZE_FLAG_CLEAR_CTR sets the bits of the number 29 instead of bit 29,
\* which would reset the counters
wex_uncore_unfreeze(m, t, es) ==
    IF HaveLock(t) /\ UsesPackage(es) THEN Unfreeze(m, PackageLocs(m)) ELSE m

\* the boxes' own control registers are written here, their status cleared
perfmon_setupCounterThread_westmereEX(m, t, es) ==
    LET step(c, y) == wex_box_setup(y, t, c, es.ev[c])
        frozen == wex_uncore_freeze(GlobalCtrlIf(m, t, es, {}), t, es, FALSE)
        boxes == ClearStatus(FoldSet(step, frozen, CountersOf(es)), LocsOf(t, Boxes(t, CountersOf(es))))
    IN SetInit(wex_fixed_setup(boxes, t, es), t, es, CountersOf(es), TRUE)

perfmon_startCountersThread_westmereEX(m, t, es) ==
    LET init == InitOf(m, t, es)
        zeroed == Zero(ResetData(m, t, es, init), LocsOf(t, CoreOf(init)))
        running == wex_uncore_unfreeze(zeroed, t, es)
    IN IF CoreOf(CountersOf(es)) = {} THEN running
       ELSE ClearStatus(GlobalCtrl(running, t, CoreOf(init)), LocsOf(t, CoreOf(init)))

\* WEX_CHECK_UNCORE_OVERFLOW: the status register of UBOX is the global one,
\* whose bit is cleared before it is tested again
WEX_CHECK_UNCORE_OVERFLOW(m, t, es, c) ==
    IF Type(c) = "WBOXFIX" THEN AcknowledgeBoxes(m, t, es, {c})
    ELSE SampleBox(m, t, es, c, Type(c) \in {"SBOX", "WBOX", "UBOX"}, Type(c) # "UBOX")
wex_read(m, t, es, cs, box(_, _)) ==
    LET core == SampleStatus(m, t, es, CoreOf(cs))
    IN ClearData(FoldSet(box, core, Boxes(t, cs)), t, es, cs \ (CoreOf(cs) \cup Boxes(t, cs)))

\* stop tests the bit numbered by the counter's index in the register map
perfmon_stopCountersThread_westmereEX(m, t, es) ==
    LET frozen == wex_uncore_freeze(GlobalCtrlIf(m, t, es, {}), t, es, TRUE)
        box(c, y) == Sample(y, t, es, {c}, {})
    IN wex_read(frozen, t, es, InitOf(m, t, es), box)

perfmon_readCountersThread_westmereEX(m, t, es) ==
    LET enabled == {c \in CoreOf(CountersOf(es)) : m.on[Loc(t, c)]}
        frozen == wex_uncore_freeze(GlobalCtrlIf(m, t, es, {}), t, es, FALSE)
        box(c, y) == WEX_CHECK_UNCORE_OVERFLOW(y, t, es, c)
        read == wex_read(frozen, t, es, InitOf(m, t, es), box)
    IN GlobalCtrlIf(wex_uncore_unfreeze(read, t, es), t, es, enabled)

\* the match registers keep their values
perfmon_finalizeCountersThread_westmereEX(m, t, es) ==
    LET cs == CountersOf(es)
        cleared == Deselect(m, LocsOf(t, CoreOf(cs) \cup Boxes(t, cs)) \cup FixedLocs(m, t, cs))
        core == GlobalCtrlIf(ClearStatus(cleared, LocsOf(t, CoreOf(cs))), t, es, {})
    IN SetInit(wex_uncore_freeze(core, t, es, FALSE), t, es, cs, FALSE)
=============================================================================
