------------------------------ MODULE Skylake ------------------------------
(***************************************************************************)
(* The architecture layer of the perfmon module, for Intel Skylake         *)
(* (includes/perfmon_skylake.h), and the counting hardware it programs.    *)
(*                                                                         *)
(* A CPU is a record: the counters enabled in PERF_GLOBAL_CTRL, the event  *)
(* each control register or control field selects, the counter registers,  *)
(* the overflow bits of PERF_GLOBAL_STATUS, and currentConfig, the         *)
(* driver's copy of the control registers.  An event set is a function     *)
(* from the counters it uses to the flags (event and options) it wants.    *)
(* The functions of the layer take a CPU and the PerfmonCounter records of *)
(* one thread and return them changed.                                     *)
(***************************************************************************)
EXTENDS Integers, FiniteSets

CONSTANTS
    Fixed,      \* fixed-purpose counters: all share one control register
    Pmc,        \* programmable counters: one control register each
    Power,      \* RAPL energy counters: never stop, cannot be written
    Flags,      \* event selections
    Joule,      \* the event the energy counters count
    CoreSize,   \* 2^regWidth of fixed and programmable counters (2^48)
    PowerSize   \* 2^regWidth of energy counters (2^32)

Core == Fixed \cup Pmc
Counters == Core \cup Power

ASSUME CountersAssumption ==
    Fixed \cap Pmc = {} /\ Core \cap Power = {}
ASSUME SizeAssumption == CoreSize \in Nat \ {0} /\ PowerSize \in Nat \ {0}
ASSUME JouleAssumption == Power # {} => Joule \in Flags

Off == "off"
ASSUME OffAssumption == Off \notin Flags

\* perfmon_getMaxCounterValue: regWidth ones
Size(c) == IF c \in Power THEN PowerSize ELSE CoreSize
perfmon_getMaxCounterValue(c) == Size(c) - 1

Cpu == [enabled : SUBSET Core, status : SUBSET Core, ctrl : [Core -> Flags \cup {Off}],
        currentConfig : [Core -> Flags \cup {Off}], count : [Counters -> Nat]]

IdleCpu == [enabled |-> {}, status |-> {}, ctrl |-> [c \in Core |-> Off],
            currentConfig |-> [c \in Core |-> Off], count |-> [c \in Counters |-> 0]]

-----------------------------------------------------------------------------
(* The hardware: an event happens on a CPU. *)

Counts(cpu, c, e) == IF c \in Power THEN e = Joule ELSE c \in cpu.enabled /\ cpu.ctrl[c] = e

EventOn(cpu, e) ==
    LET hit == {c \in Counters : Counts(cpu, c, e)}
        wraps == {c \in hit : cpu.count[c] = perfmon_getMaxCounterValue(c)}
    IN [cpu EXCEPT !.count = [c \in Counters |-> IF c \in hit THEN (cpu.count[c] + 1) % Size(c)
                                                              ELSE cpu.count[c]],
                   !.status = @ \cup (wraps \cap Core)]

-----------------------------------------------------------------------------
(* The driver.  es: event set; cs: the thread's PerfmonCounter records. *)

UsesCore(es) == DOMAIN es \cap Core # {}

\* variant: a register that was ever configured is not written again
skl_setupNeverTwice(cpu, es) ==
    LET changed == {c \in DOMAIN es \cap Core : cpu.currentConfig[c] = Off}
    IN [cpu EXCEPT
          !.currentConfig = [c \in Core |-> IF c \in changed THEN es[c] ELSE cpu.currentConfig[c]],
          !.ctrl = [c \in Core |-> IF c \in changed THEN es[c] ELSE cpu.ctrl[c]]]

\* Control registers are written only if the wanted flags differ from
\* currentConfig.  All fixed counters share a register, which is written with
\* the fields of the changed ones only.
skl_setup(cpu, es) ==
    LET changed == {c \in DOMAIN es \cap Core : cpu.currentConfig[c] # es[c]}
        fixed_flags == changed \cap Fixed
    IN [cpu EXCEPT
          !.currentConfig = [c \in Core |-> IF c \in changed THEN es[c] ELSE cpu.currentConfig[c]],
          !.ctrl = [c \in Core |-> IF c \in changed THEN es[c]
                                   ELSE IF c \in Fixed /\ fixed_flags # {} THEN Off
                                   ELSE cpu.ctrl[c]]]

perfmon_setupCounterThread(cpu, es) ==
    LET frozen == IF UsesCore(es) THEN [cpu EXCEPT !.enabled = {}, !.status = {}] ELSE cpu
    IN skl_setup(frozen, es)

\* Only counters whose init flag is set are zeroed and enabled.
perfmon_startCountersThread(cpu, es, cs) ==
    LET on == {c \in DOMAIN es \cap Core : cs[c].init}
        zeroed == [cpu EXCEPT !.count = [c \in Counters |-> IF c \in on THEN 0 ELSE cpu.count[c]]]
    IN IF UsesCore(es) THEN [zeroed EXCEPT !.enabled = on, !.status = @ \ on] ELSE zeroed

\* variant: the position of an energy counter is not noted
StartedCounterAtZero(cpu, c, ctr, haveLock) ==
    IF ~ctr.init THEN ctr ELSE [ctr EXCEPT !.startData = 0, !.counterData = 0, !.fullData = 0]
\* variant: the result of the cycle before is kept
StartedCounterAccumulates(cpu, c, ctr, haveLock) ==
    IF ~ctr.init THEN ctr
    ELSE [ctr EXCEPT !.startData = IF c \in Power /\ haveLock THEN cpu.count[c] ELSE 0,
                     !.counterData = 0]

\* Energy counters cannot be zeroed: the thread that holds the socket lock
\* notes where they are.  The overflows are left as they were.
StartedCounter(cpu, c, ctr, haveLock) ==
    IF ~ctr.init THEN ctr
    ELSE [ctr EXCEPT !.startData = IF c \in Power /\ haveLock THEN cpu.count[c] ELSE 0,
                     !.counterData = 0, !.fullData = 0]

\* Reading a counter: a value below the last one read is an overflow, if the
\* status register confirms it.
SampledCounter(cpu, c, ctr, haveLock) ==
    LET wrapped == cpu.count[c] < ctr.counterData
        confirmed == c \in Power \/ c \in cpu.status
    IN IF ~ctr.init \/ (c \in Power /\ ~haveLock) THEN ctr
       ELSE [ctr EXCEPT !.counterData = cpu.count[c],
                        !.overflows = IF wrapped /\ confirmed THEN @ + 1 ELSE @]

Acknowledged(cpu, es, cs) ==
    {c \in DOMAIN es \cap Core : cs[c].init /\ cpu.count[c] < cs[c].counterData}

\* freezes the counters and leaves them frozen
perfmon_stopCountersThread(cpu, es, cs) ==
    [cpu EXCEPT !.enabled = IF UsesCore(es) THEN {} ELSE @, !.status = @ \ Acknowledged(cpu, es, cs)]
StoppedCounter(cpu, c, ctr, haveLock) ==
    [SampledCounter(cpu, c, ctr, haveLock) EXCEPT !.init = FALSE]

\* PERF_GLOBAL_CTRL is saved, cleared and restored around the reads
perfmon_readCountersThread(cpu, es, cs) ==
    [cpu EXCEPT !.status = @ \ Acknowledged(cpu, es, cs)]

\* variant: the fixed counters' register is forgotten
FinalizePmcOnly(cpu, es) ==
    LET used == DOMAIN es \cap Core
    IN [cpu EXCEPT !.ctrl = [c \in Core |-> IF c \in used \cap Pmc THEN Off ELSE cpu.ctrl[c]],
                   !.enabled = IF used # {} THEN {} ELSE @,
                   !.status = @ \ used]

\* clears the control registers the event set has used
perfmon_finalizeCountersThread(cpu, es) ==
    LET used == DOMAIN es \cap Core
        clear == (used \cap Pmc) \cup (IF used \cap Fixed # {} THEN Fixed ELSE {})
    IN [cpu EXCEPT !.ctrl = [c \in Core |-> IF c \in clear THEN Off ELSE cpu.ctrl[c]],
                   !.enabled = IF used # {} THEN {} ELSE @,
                   !.status = @ \ used]
=============================================================================
