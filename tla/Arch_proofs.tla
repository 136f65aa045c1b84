---------------------------- MODULE Arch_proofs ----------------------------
(***************************************************************************)
(* Proofs about the architecture layers, for every processor, type of box, *)
(* number of threads and width of the counters.                            *)
(*                                                                         *)
(* Each function of a layer keeps a contract that names no processor:      *)
(* SetupDone, StartDone, ReadDone, StopDone and FinalizeDone say what one  *)
(* thread's call does to the machine.  A section per header shows that its *)
(* five functions keep the five contracts; the calls of the threads, one   *)
(* after the other, add up to SetupTo, StartTo, ...; and these keep the    *)
(* invariant ArchInv, from which the properties of module Arch follow.     *)
(***************************************************************************)
EXTENDS Arch, NatLemmas

-----------------------------------------------------------------------------
(* Machines, and what the steps of ArchCommon do to them. *)

Filters == {{}, {"match"}}
SelsOf(c) == IF Type(c) \in FreeTypes THEN {Free} ELSE {Off, Event(1, c), Event(2, c)}
Sels == UNION {SelsOf(c) : c \in AllCounters}
Ctls == {f \in [Locs -> Sels] : \A l \in Locs : f[l] \in SelsOf(CounterAt(l))}
Cfgs == {f \in [AllCounters -> Sels \cup {Off}] : \A c \in AllCounters : f[c] \in (SelsOf(c) \ {Free}) \cup {Off}}
Counters == [init : BOOLEAN, startData : Nat, counterData : Nat, overflows : Nat]
Machines ==
    [shl : BOOLEAN, ctl : Ctls, on : [Locs -> BOOLEAN], cnt : [Locs -> 0 .. Size - 1],
     ovf : SUBSET Locs, govf : SUBSET {Box}, filter : [{Box} -> Filters],
     cfg : [Threads -> Cfgs],
     tc : [Groups -> [Threads -> [AllCounters -> Counters]]]]

\* the locations that are enabled, the counters that are initialised
On(y) == {l \in Locs : y.on[l]}
Inits(y, g, t) == {c \in AllCounters : y.tc[g][t][c].init}
Programmable(L) == \A l \in L : l[2] \notin FreeTypes

\* Counters are pairs, locations are triples.
LEMMA CounterIs ==
  ASSUME NEW c \in AllCounters
  PROVE  c = <<c[1], c[2]>> /\ c[2] \in {0, 1}
  BY DEF AllCounters

\* The location of a counter says which counter it is, and every location is one of a counter.
LEMMA LocIs ==
  /\ \A t \in Threads, c \in AllCounters :
        Loc(t, c) \in Locs /\ CounterAt(Loc(t, c)) = c /\ Loc(t, c)[2] = Type(c)
  /\ \A l \in Locs : /\ CounterAt(l) \in AllCounters /\ l[2] = Type(CounterAt(l))
                      /\ \E t \in Threads : l = Loc(t, CounterAt(l))
<1>1. ASSUME NEW t \in Threads, NEW c \in AllCounters
      PROVE  Loc(t, c) \in Locs /\ CounterAt(Loc(t, c)) = c /\ Loc(t, c)[2] = Type(c)
  BY CounterIs DEF Locs, LocsOf, Loc, CounterAt, Type
<1>2. \A l \in Locs : \E t \in Threads, c \in AllCounters : l = Loc(t, c)
  BY DEF Locs, LocsOf
<1> QED BY <1>1, <1>2

\* The fields of a machine.
LEMMA Fields ==
  ASSUME NEW y \in Machines
  PROVE  /\ y.shl \in BOOLEAN
         /\ y.ctl \in [Locs -> Sels] /\ \A l \in Locs : y.ctl[l] \in SelsOf(CounterAt(l))
         /\ y.on \in [Locs -> BOOLEAN] /\ y.cnt \in [Locs -> 0 .. Size - 1] /\ y.ovf \subseteq Locs /\ y.govf \subseteq {Box}
         /\ y.filter \in [{Box} -> Filters] /\ y.cfg \in [Threads -> Cfgs]
         /\ y.tc \in [Groups -> [Threads -> [AllCounters -> Counters]]]
  BY DEF Machines, Ctls

\* One field of a machine is replaced.
LEMMA PutCtl ==
  ASSUME NEW y \in Machines, NEW f \in [Locs -> Sels], \A l \in Locs : f[l] \in SelsOf(CounterAt(l))
  PROVE  LET z == [y EXCEPT !.ctl = f] IN
         /\ z \in Machines /\ z.ctl = f
         /\ z.shl = y.shl /\ z.on = y.on /\ z.cnt = y.cnt /\ z.ovf = y.ovf
         /\ z.govf = y.govf /\ z.filter = y.filter /\ z.cfg = y.cfg /\ z.tc = y.tc
  BY DEF Machines, Ctls

\* ... the enable bits.
LEMMA PutOn ==
  ASSUME NEW y \in Machines, NEW f \in [Locs -> BOOLEAN]
  PROVE  LET z == [y EXCEPT !.on = f] IN
         /\ z \in Machines /\ z.on = f /\ On(z) = {l \in Locs : f[l]}
         /\ z.shl = y.shl /\ z.ctl = y.ctl /\ z.cnt = y.cnt /\ z.ovf = y.ovf
         /\ z.govf = y.govf /\ z.filter = y.filter /\ z.cfg = y.cfg /\ z.tc = y.tc
  BY DEF Machines, On

\* What freezing does to a machine: the locations no longer count.
LEMMA FreezeIs ==
  ASSUME NEW y \in Machines, NEW L
  PROVE  LET z == Freeze(y, L) IN
         /\ z \in Machines /\ On(z) = On(y) \ L
         /\ z.shl = y.shl /\ z.ctl = y.ctl /\ z.cnt = y.cnt /\ z.ovf = y.ovf
         /\ z.govf = y.govf /\ z.filter = y.filter /\ z.cfg = y.cfg /\ z.tc = y.tc
<1> DEFINE f == Put(y.on, L, FALSE)
<1>1. y.on \in [Locs -> BOOLEAN]
  BY Fields
<1>2. f \in [Locs -> BOOLEAN] /\ {l \in Locs : f[l]} = On(y) \ L
  BY <1>1 DEF Put, On
<1>3. Freeze(y, L) = [y EXCEPT !.on = f]
  BY DEF Freeze
<1> HIDE DEF f
<1> QED BY <1>2, <1>3, PutOn

\* Unfreezing: the locations count again.
LEMMA UnfreezeIs ==
  ASSUME NEW y \in Machines, NEW L
  PROVE  LET z == Unfreeze(y, L) IN
         /\ z \in Machines /\ On(z) = On(y) \cup (L \cap Locs)
         /\ z.shl = y.shl /\ z.ctl = y.ctl /\ z.cnt = y.cnt /\ z.ovf = y.ovf
         /\ z.govf = y.govf /\ z.filter = y.filter /\ z.cfg = y.cfg /\ z.tc = y.tc
<1> DEFINE f == Put(y.on, L, TRUE)
<1>1. y.on \in [Locs -> BOOLEAN]
  BY Fields
<1>2. f \in [Locs -> BOOLEAN] /\ {l \in Locs : f[l]} = On(y) \cup (L \cap Locs)
  BY <1>1 DEF Put, On
<1>3. Unfreeze(y, L) = [y EXCEPT !.on = f]
  BY DEF Unfreeze
<1> HIDE DEF f
<1> QED BY <1>2, <1>3, PutOn

\* Writing the global control register of a CPU: its counters named count, and no other of it.
LEMMA GlobalCtrlIs ==
  ASSUME NEW y \in Machines, NEW t, NEW cs
  PROVE  LET z == GlobalCtrl(y, t, cs) IN
         /\ z \in Machines /\ On(z) = {l \in Locs : IF l[1] = t THEN l \in LocsOf(t, cs) ELSE l \in On(y)}
         /\ z.shl = y.shl /\ z.ctl = y.ctl /\ z.cnt = y.cnt /\ z.ovf = y.ovf
         /\ z.govf = y.govf /\ z.filter = y.filter /\ z.cfg = y.cfg /\ z.tc = y.tc
<1> DEFINE f == [l \in Locs |-> IF l[1] = t THEN l \in LocsOf(t, cs) ELSE y.on[l]]
<1>1. y.on \in [Locs -> BOOLEAN]
  BY Fields
<1>2. f \in [Locs -> BOOLEAN]
  <2>1. ASSUME NEW l \in Locs
        PROVE  (IF l[1] = t THEN l \in LocsOf(t, cs) ELSE y.on[l]) \in BOOLEAN
    <3>1. y.on[l] \in BOOLEAN
      BY <1>1
    <3>2. (l \in LocsOf(t, cs)) \in BOOLEAN
      OBVIOUS
    <3>3. CASE l[1] = t
      BY <3>2, <3>3, Zenon
    <3>4. CASE l[1] # t
      BY <3>1, <3>4, Zenon
    <3> QED BY <3>3, <3>4
  <2> QED BY <2>1, Zenon
<1>3. {l \in Locs : f[l]} = {l \in Locs : IF l[1] = t THEN l \in LocsOf(t, cs) ELSE l \in On(y)}
  BY DEF On
<1>4. GlobalCtrl(y, t, cs) = [y EXCEPT !.on = f]
  <2>1. DOMAIN y.on = Locs
    BY <1>1
  <2> QED BY <2>1, Zenon DEF GlobalCtrl
<1> HIDE DEF f
<1> QED BY <1>2, <1>3, <1>4, PutOn

\* Clearing counter registers.
LEMMA ZeroIs ==
  ASSUME NEW y \in Machines, NEW L
  PROVE  LET z == Zero(y, L) IN
         /\ z \in Machines /\ \A l \in Locs : z.cnt[l] = IF l \in L THEN 0 ELSE y.cnt[l]
         /\ z.shl = y.shl /\ z.ctl = y.ctl /\ z.on = y.on /\ z.ovf = y.ovf
         /\ z.govf = y.govf /\ z.filter = y.filter /\ z.cfg = y.cfg /\ z.tc = y.tc
<1>1. 0 \in 0 .. Size - 1
  BY ArchAssumption
<1>2. y.cnt \in [Locs -> 0 .. Size - 1]
  BY Fields
<1>3. Put(y.cnt, L, 0) \in [Locs -> 0 .. Size - 1] /\ \A l \in Locs : Put(y.cnt, L, 0)[l] = IF l \in L THEN 0 ELSE y.cnt[l]
  BY <1>1, <1>2 DEF Put
<1> QED BY <1>3 DEF Zero, Machines

\* Clearing control registers.
LEMMA DeselectIs ==
  ASSUME NEW y \in Machines, NEW L, Programmable(L)
  PROVE  LET z == Deselect(y, L) IN
         /\ z \in Machines /\ \A l \in Locs : z.ctl[l] = IF l \in L THEN Off ELSE y.ctl[l]
         /\ z.shl = y.shl /\ z.on = y.on /\ z.cnt = y.cnt /\ z.ovf = y.ovf
         /\ z.govf = y.govf /\ z.filter = y.filter /\ z.cfg = y.cfg /\ z.tc = y.tc
<1> DEFINE f == Put(y.ctl, L, Off)
<1>1. y.ctl \in [Locs -> Sels] /\ \A l \in Locs : y.ctl[l] \in SelsOf(CounterAt(l))
  BY Fields
<1>2. \A l \in Locs : f[l] = IF l \in L THEN Off ELSE y.ctl[l]
  BY <1>1 DEF Put
<1>3. \A l \in Locs : f[l] \in SelsOf(CounterAt(l))
  BY <1>1, <1>2 DEF SelsOf, CounterAt, Type, Programmable
<1>4. f \in [Locs -> Sels]
  <2>1. f = [l \in Locs |-> f[l]]
    BY <1>1 DEF Put
  <2>2. \A l \in Locs : CounterAt(l) \in AllCounters
    BY LocIs
  <2> QED BY <1>3, <2>1, <2>2 DEF Sels
<1>5. Deselect(y, L) = [y EXCEPT !.ctl = f]
  BY DEF Deselect
<1> HIDE DEF f
<1> QED BY <1>2, <1>3, <1>4, <1>5, PutCtl

\* Acknowledging overflow bits.
LEMMA ClearStatusIs ==
  ASSUME NEW y \in Machines, NEW L
  PROVE  LET z == ClearStatus(y, L) IN
         /\ z \in Machines /\ z.ovf = y.ovf \ L
         /\ z.shl = y.shl /\ z.ctl = y.ctl /\ z.on = y.on /\ z.cnt = y.cnt
         /\ z.govf = y.govf /\ z.filter = y.filter /\ z.cfg = y.cfg /\ z.tc = y.tc
  BY DEF ClearStatus, Machines

\* The event sets.
LEMMA EventSetIs ==
  ASSUME NEW g \in Groups, filters \in [Groups -> Filters]
  PROVE  /\ EventSet(g).id = g /\ CountersOf(EventSet(g)) = AllCounters
         /\ \A c \in AllCounters :
              /\ EventSet(g).ev[c].flags = Event(g, c)
              /\ EventSet(g).ev[c].filter = (IF Type(c) = Box THEN filters[g] ELSE {})
              /\ EventSet(g).ev[c].filter \in Filters
              /\ EventSet(g).pos[c] = IF Box = "SWAPPED" THEN 1 - c[2] ELSE c[2]
              /\ Event(g, c) \in SelsOf(c) \cup {Event(1, c), Event(2, c)} /\ Event(g, c) # Off /\ Event(g, c) # Free
              /\ Type(c) \notin FreeTypes => Event(g, c) \in SelsOf(c)
  BY DEF EventSet, CountersOf, Groups, Event, SelsOf, Off, Free, Filters

\* The copy of the control registers of one thread is replaced.
LEMMA PutCfg ==
  ASSUME NEW y \in Machines, NEW t \in Threads, NEW f \in Cfgs
  PROVE  LET z == [y EXCEPT !.cfg[t] = f] IN
         /\ z \in Machines /\ z.cfg[t] = f /\ \A u \in Threads \ {t} : z.cfg[u] = y.cfg[u]
         /\ z.shl = y.shl /\ z.ctl = y.ctl /\ z.on = y.on /\ z.cnt = y.cnt
         /\ z.ovf = y.ovf /\ z.govf = y.govf /\ z.filter = y.filter /\ z.tc = y.tc
<1> DEFINE F == [y.cfg EXCEPT ![t] = f]
<1>1. y.cfg \in [Threads -> Cfgs]
  BY Fields
<1>2. F \in [Threads -> Cfgs] /\ F[t] = f /\ \A u \in Threads \ {t} : F[u] = y.cfg[u]
  BY <1>1
<1>3. [y EXCEPT !.cfg[t] = f] = [y EXCEPT !.cfg = F]
  OBVIOUS
<1> HIDE DEF F
<1> QED BY <1>2, <1>3 DEF Machines

\* A control register is written.
LEMMA WriteIs ==
  ASSUME NEW y \in Machines, NEW t \in Threads, NEW c \in AllCounters, NEW flags \in SelsOf(c)
  PROVE  LET z == [y EXCEPT !.ctl[Loc(t, c)] = flags] IN
         /\ z \in Machines /\ \A l \in Locs : z.ctl[l] = IF l = Loc(t, c) THEN flags ELSE y.ctl[l]
         /\ z.shl = y.shl /\ z.on = y.on /\ z.cnt = y.cnt /\ z.ovf = y.ovf
         /\ z.govf = y.govf /\ z.filter = y.filter /\ z.cfg = y.cfg /\ z.tc = y.tc
<1> DEFINE f == [y.ctl EXCEPT ![Loc(t, c)] = flags]
<1>1. y.ctl \in [Locs -> Sels] /\ \A l \in Locs : y.ctl[l] \in SelsOf(CounterAt(l))
  BY Fields
<1>2. Loc(t, c) \in Locs /\ CounterAt(Loc(t, c)) = c /\ flags \in Sels
  BY LocIs DEF Sels
<1>3. f \in [Locs -> Sels] /\ \A l \in Locs : f[l] = IF l = Loc(t, c) THEN flags ELSE y.ctl[l]
  BY <1>1, <1>2
<1>4. \A l \in Locs : f[l] \in SelsOf(CounterAt(l))
  BY <1>1, <1>2, <1>3
<1> DEFINE z == [y EXCEPT !.ctl[Loc(t, c)] = flags]
<1>5. z = [y EXCEPT !.ctl = f]
  OBVIOUS
<1> HIDE DEF f, z
<1>6. /\ z \in Machines /\ z.ctl = f
      /\ z.shl = y.shl /\ z.on = y.on /\ z.cnt = y.cnt /\ z.ovf = y.ovf
      /\ z.govf = y.govf /\ z.filter = y.filter /\ z.cfg = y.cfg /\ z.tc = y.tc
  BY <1>3, <1>4, <1>5, PutCtl
<1>7. \A l \in Locs : z.ctl[l] = IF l = Loc(t, c) THEN flags ELSE y.ctl[l]
  BY <1>3, <1>6
<1> QED BY <1>6, <1>7 DEF z

\* Setup of one counter: the register is written unless currentConfig names the event already.
LEMMA ConfigureIs ==
  ASSUME NEW y \in Machines, NEW t \in Threads, NEW c \in AllCounters, NEW flags \in SelsOf(c) \ {Free}
  PROVE  LET z == Configure(y, t, c, flags) IN
         /\ z \in Machines
         /\ \A l \in Locs : z.ctl[l] = IF l = Loc(t, c) /\ y.cfg[t][c] # flags THEN flags ELSE y.ctl[l]
         /\ \A u \in Threads \ {t} : z.cfg[u] = y.cfg[u]
         /\ \A d \in AllCounters : z.cfg[t][d] = IF d = c THEN flags ELSE y.cfg[t][d]
         /\ z.shl = y.shl /\ z.on = y.on /\ z.cnt = y.cnt /\ z.ovf = y.ovf
         /\ z.govf = y.govf /\ z.filter = y.filter /\ z.tc = y.tc
<1>1. CASE y.cfg[t][c] = flags
  BY <1>1 DEF Configure
<1>2. CASE y.cfg[t][c] # flags
  <2> DEFINE w == [y EXCEPT !.ctl[Loc(t, c)] = flags]
             f == [y.cfg[t] EXCEPT ![c] = flags]
             z == [w EXCEPT !.cfg[t] = f]
  <2>1. /\ w \in Machines /\ \A l \in Locs : w.ctl[l] = IF l = Loc(t, c) THEN flags ELSE y.ctl[l]
        /\ w.shl = y.shl /\ w.on = y.on /\ w.cnt = y.cnt /\ w.ovf = y.ovf
        /\ w.govf = y.govf /\ w.filter = y.filter /\ w.cfg = y.cfg /\ w.tc = y.tc
    BY WriteIs
  <2>2. y.cfg[t] \in Cfgs
    BY Fields
  <2>3. f \in Cfgs /\ \A d \in AllCounters : f[d] = IF d = c THEN flags ELSE y.cfg[t][d]
    <3>1. f \in [AllCounters -> Sels \cup {Off}]
      BY <2>2 DEF Cfgs, Sels
    <3>2. \A d \in AllCounters : f[d] = IF d = c THEN flags ELSE y.cfg[t][d]
      BY <2>2 DEF Cfgs
    <3> QED BY <2>2, <3>1, <3>2 DEF Cfgs
  <2>4. Configure(y, t, c, flags) = z
    <3>1. Configure(y, t, c, flags) = [y EXCEPT !.ctl[Loc(t, c)] = flags, !.cfg[t][c] = flags]
      BY <1>2 DEF Configure
    <3>2. DOMAIN y.cfg = Threads
      BY Fields
    <3> QED BY <2>1, <3>1, <3>2
  <2> HIDE DEF w, f
  <2>5. /\ z \in Machines /\ z.cfg[t] = f /\ \A u \in Threads \ {t} : z.cfg[u] = w.cfg[u]
        /\ z.shl = w.shl /\ z.ctl = w.ctl /\ z.on = w.on /\ z.cnt = w.cnt
        /\ z.ovf = w.ovf /\ z.govf = w.govf /\ z.filter = w.filter /\ z.tc = w.tc
    BY <2>1, <2>3, PutCfg
  <2> HIDE DEF z
  <2> QED BY <1>2, <2>1, <2>3, <2>4, <2>5
<1> QED BY <1>1, <1>2

IsCore == Box \in CoreUnits
IsFree == Box \in FreeTypes
IsBox == ~IsCore /\ ~IsFree

\* The type of a unit is that of a box, of free counters or of a core.
LEMMA UnitTypes ==
  ASSUME unit \in AllUnits
  PROVE  /\ Box \notin {"FIXED", "PMC"}
         /\ ~(IsCore /\ IsFree)
  BY DEF AllUnits, Of, EPBoxes, ClientBoxes, EXBoxes, Box, IsCore, IsFree, CoreUnits, FreeTypes

\* The core of a processor: every CPU has its own registers.
LEMMA CoreUnit ==
  ASSUME unit \in AllUnits, IsCore
  PROVE  /\ \A c \in AllCounters : /\ Type(c) \in CoreTypes /\ Type(c) \notin FreeTypes /\ Type(c) # Box
                                   /\ Type(c) = "FIXED" <=> c = <<"FIXED", 0>>
                                   /\ Type(c) = "PMC" <=> c # <<"FIXED", 0>>
         /\ \A cs \in SUBSET AllCounters : CoreOf(cs) = cs /\ FreeOf(cs) = {} /\ UncoreOf(cs) = {}
         /\ \A t \in Threads, c \in AllCounters : Loc(t, c) = <<t, c[1], c[2]>> /\ Loc(t, c)[1] = t
         /\ \A l \in Locs : l[1] \in Threads /\ l[2] \notin FreeTypes /\ l = Loc(l[1], CounterAt(l))
         /\ \A t \in Threads : LocsOf(t, AllCounters) = {l \in Locs : l[1] = t}
<1>1. \A c \in AllCounters : Type(c) \in CoreTypes /\ (Type(c) = "FIXED" <=> c = <<"FIXED", 0>>)
  BY DEF IsCore, AllCounters, CoreTypes, Type
<1>2. \A c \in AllCounters : /\ Type(c) \in CoreTypes /\ Type(c) \notin FreeTypes /\ Type(c) # Box
                             /\ Type(c) = "PMC" <=> c # <<"FIXED", 0>>
  BY <1>1, UnitTypes DEF CoreTypes, FreeTypes
<1>3. \A cs \in SUBSET AllCounters : CoreOf(cs) = cs /\ FreeOf(cs) = {}
  BY <1>2 DEF CoreOf, FreeOf, OfTypes
<1>4. \A cs \in SUBSET AllCounters : UncoreOf(cs) = {}
  BY <1>3 DEF UncoreOf
<1>5. \A t \in Threads, c \in AllCounters : Loc(t, c) = <<t, c[1], c[2]>> /\ Loc(t, c)[1] = t
  BY <1>1 DEF Loc
<1>6. \A l \in Locs : l[1] \in Threads /\ l[2] \notin FreeTypes /\ l = Loc(l[1], CounterAt(l))
  BY <1>2, <1>5, LocIs
<1>7. \A t \in Threads : LocsOf(t, AllCounters) = {l \in Locs : l[1] = t}
  <2>1. ASSUME NEW t \in Threads, NEW l \in LocsOf(t, AllCounters) PROVE l \in Locs /\ l[1] = t
    BY <1>5, LocIs DEF LocsOf
  <2>2. ASSUME NEW l \in Locs PROVE l \in LocsOf(l[1], AllCounters)
    BY <1>6, LocIs DEF LocsOf
  <2> QED BY <2>1, <2>2
<1> QED BY <1>1, <1>2, <1>3, <1>4, <1>5, <1>6, <1>7

\* A box of the package with counters that are programmed.
LEMMA BoxUnit ==
  ASSUME unit \in AllUnits, IsBox
  PROVE  /\ \A c \in AllCounters : Type(c) = Box /\ Type(c) \notin FreeTypes /\ Type(c) \notin CoreTypes
         /\ \A cs \in SUBSET AllCounters : CoreOf(cs) = {} /\ FreeOf(cs) = {} /\ UncoreOf(cs) = cs
         /\ \A cs \in SUBSET AllCounters : \A T : OfTypes(cs, T) = IF Box \in T THEN cs ELSE {}
         /\ \A t \in Threads, c \in AllCounters : Loc(t, c) = <<0, c[1], c[2]>>
         /\ \A l \in Locs : l[1] = 0 /\ l[2] = Box /\ l[2] \notin FreeTypes /\ \A t \in Threads : l = Loc(t, CounterAt(l))
         /\ \A t \in Threads : LocsOf(t, AllCounters) = Locs
<1>1. \A c \in AllCounters : Type(c) = Box
  BY DEF IsBox, IsCore, AllCounters, Type
<1>2. Box \notin FreeTypes /\ Box \notin CoreTypes
  BY UnitTypes DEF IsBox, IsFree, CoreTypes
<1>3. \A cs \in SUBSET AllCounters : CoreOf(cs) = {} /\ FreeOf(cs) = {}
  BY <1>1, <1>2 DEF CoreOf, FreeOf, OfTypes
<1>4. \A cs \in SUBSET AllCounters : UncoreOf(cs) = cs
  BY <1>3 DEF UncoreOf
<1>5. \A cs \in SUBSET AllCounters : \A T : OfTypes(cs, T) = IF Box \in T THEN cs ELSE {}
  BY <1>1 DEF OfTypes
<1>6. \A t \in Threads, c \in AllCounters : Loc(t, c) = <<0, c[1], c[2]>>
  BY <1>1, <1>2 DEF Loc
<1>7. \A l \in Locs : l[1] = 0 /\ l[2] = Box /\ l[2] \notin FreeTypes /\ \A t \in Threads : l = Loc(t, CounterAt(l))
  BY <1>1, <1>2, <1>6, LocIs
<1>8. \A t \in Threads : LocsOf(t, AllCounters) = Locs
  BY <1>7, LocIs DEF LocsOf
<1> QED BY <1>1, <1>2, <1>3, <1>4, <1>5, <1>6, <1>7, <1>8

\* Counters that run freely.
LEMMA FreeUnit ==
  ASSUME unit \in AllUnits, IsFree
  PROVE  /\ \A c \in AllCounters : c = <<Box, 0>> /\ Type(c) = Box /\ Type(c) \in FreeTypes /\ Type(c) \notin CoreTypes
         /\ \A cs \in SUBSET AllCounters : CoreOf(cs) = {} /\ FreeOf(cs) = cs /\ UncoreOf(cs) = {}
         /\ \A cs \in SUBSET AllCounters : \A T : OfTypes(cs, T) = IF Box \in T THEN cs ELSE {}
         /\ \A t \in Threads, c \in AllCounters : Loc(t, c) = <<0, Box, 0>>
         /\ Locs = {<<0, Box, 0>>}
<1>1. AllCounters = {<<Box, 0>>}
  BY UnitTypes DEF IsFree, IsCore, AllCounters, SingleTypes
<1>2. \A c \in AllCounters : c = <<Box, 0>> /\ Type(c) = Box /\ Type(c) \in FreeTypes /\ Type(c) \notin CoreTypes
  BY <1>1, UnitTypes DEF IsFree, Type, CoreTypes
<1>3. \A cs \in SUBSET AllCounters : CoreOf(cs) = {} /\ FreeOf(cs) = cs
  BY <1>2 DEF CoreOf, FreeOf, OfTypes
<1>4. \A cs \in SUBSET AllCounters : UncoreOf(cs) = {}
  BY <1>3 DEF UncoreOf
<1>5. \A cs \in SUBSET AllCounters : \A T : OfTypes(cs, T) = IF Box \in T THEN cs ELSE {}
  BY <1>2 DEF OfTypes
<1>6. \A t \in Threads, c \in AllCounters : Loc(t, c) = <<0, Box, 0>>
  BY <1>2 DEF Loc
<1>7. 1 \in Threads
  BY ArchAssumption DEF Threads
<1>8. Locs = {<<0, Box, 0>>}
  BY <1>1, <1>6, <1>7 DEF Locs, LocsOf
<1> QED BY <1>2, <1>3, <1>4, <1>5, <1>6, <1>8

\* A box has one fixed counter at most: the register of the fixed counters
\* is written as any other.
LEMMA ConfigureFixedIs ==
  ASSUME NEW y \in Machines, NEW t \in Threads, NEW g \in Groups, filters \in [Groups -> Filters],
         unit \in AllUnits
  PROVE  LET z == ConfigureFixed(y, t, EventSet(g)) IN
         /\ z \in Machines
         /\ \A l \in Locs : z.ctl[l] = IF l = Loc(t, <<"FIXED", 0>>) /\ <<"FIXED", 0>> \in AllCounters
                                          /\ y.cfg[t][<<"FIXED", 0>>] # Event(g, <<"FIXED", 0>>)
                                       THEN Event(g, <<"FIXED", 0>>) ELSE y.ctl[l]
         /\ \A u \in Threads \ {t} : z.cfg[u] = y.cfg[u]
         /\ \A d \in AllCounters : z.cfg[t][d] = IF d = <<"FIXED", 0>> THEN Event(g, d) ELSE y.cfg[t][d]
         /\ z.shl = y.shl /\ z.on = y.on /\ z.cnt = y.cnt /\ z.ovf = y.ovf
         /\ z.govf = y.govf /\ z.filter = y.filter /\ z.tc = y.tc
<1> DEFINE fx == <<"FIXED", 0>>
           es == EventSet(g)
           fixed == OfTypes(CountersOf(es), {"FIXED"})
           changed == {c \in fixed : y.cfg[t][c] # es.ev[c].flags}
<1>1. CountersOf(es) = AllCounters /\ \A c \in AllCounters : es.ev[c].flags = Event(g, c)
  BY EventSetIs
<1>2. \A c \in AllCounters : Type(c) = "FIXED" <=> c = fx
  BY CoreUnit, BoxUnit, FreeUnit, UnitTypes DEF IsBox, Type
<1>3. fixed = {fx} \cap AllCounters
  BY <1>1, <1>2 DEF OfTypes
<1>4. CASE fx \in AllCounters /\ y.cfg[t][fx] # Event(g, fx)
  <2>1. changed = {fx} /\ es.ev[fx].flags = Event(g, fx) /\ Event(g, fx) \in SelsOf(fx) \ {Free}
    BY <1>1, <1>3, <1>4, EventSetIs DEF FreeTypes, Type
  <2>2. IsCore
    BY <1>4, BoxUnit, FreeUnit, UnitTypes DEF IsBox, Type
  <2>3. Loc(t, fx) = <<t, "FIXED", 0>> /\ LocsOf(t, changed) = {Loc(t, fx)} /\ Loc(t, fx) \in Locs
    BY <1>4, <2>1, <2>2, CoreUnit, LocIs DEF LocsOf
  <2>4. \A l \in Locs : l[1] = t /\ l[2] = "FIXED" => l = Loc(t, fx)
    BY <2>2, CoreUnit, LocIs
  <2> DEFINE f == [l \in Locs |-> IF l = Loc(t, fx) THEN Event(g, fx) ELSE y.ctl[l]]
             h == [d \in AllCounters |-> IF d = fx THEN Event(g, fx) ELSE y.cfg[t][d]]
  <2>5. DOMAIN y.ctl = Locs /\ DOMAIN y.cfg = Threads /\ DOMAIN y.cfg[t] = AllCounters
    BY Fields DEF Cfgs
  <2>6. [l \in DOMAIN y.ctl |-> IF l \in LocsOf(t, changed) THEN es.ev[<<l[2], l[3]>>].flags
                                ELSE IF l[1] = t /\ l[2] = "FIXED" THEN Off ELSE y.ctl[l]] = f
    BY <2>1, <2>3, <2>4, <2>5
  <2>7. [c \in DOMAIN y.cfg[t] |-> IF c \in changed THEN es.ev[c].flags ELSE y.cfg[t][c]] = h
    BY <2>1, <2>5
  <2> DEFINE w == [y EXCEPT !.ctl = f]
  <2>8. ConfigureFixed(y, t, es) = [w EXCEPT !.cfg[t] = h]
    <3> HIDE DEF f, h
    <3>1. changed # {}
      BY <2>1
    <3> QED BY <2>6, <2>7, <3>1 DEF ConfigureFixed
  <2>9. f \in [Locs -> Sels] /\ \A l \in Locs : f[l] \in SelsOf(CounterAt(l))
    <3>1. CounterAt(Loc(t, fx)) = fx /\ Event(g, fx) \in Sels
      BY <1>4, <2>1, LocIs DEF Sels
    <3> QED BY <2>1, <3>1, Fields
  <2>10. h \in Cfgs
    <3>1. y.cfg[t] \in Cfgs
      BY Fields
    <3>2. h \in [AllCounters -> Sels \cup {Off}]
      BY <1>4, <2>1, <3>1 DEF Cfgs, Sels
    <3> QED BY <2>1, <3>1, <3>2 DEF Cfgs
  <2>11. (\A l \in Locs : f[l] = IF l = Loc(t, fx) THEN Event(g, fx) ELSE y.ctl[l])
         /\ (\A d \in AllCounters : h[d] = IF d = fx THEN Event(g, fx) ELSE y.cfg[t][d])
    OBVIOUS
  <2> HIDE DEF f, h
  <2>12. /\ w \in Machines /\ w.ctl = f
         /\ w.shl = y.shl /\ w.on = y.on /\ w.cnt = y.cnt /\ w.ovf = y.ovf
         /\ w.govf = y.govf /\ w.filter = y.filter /\ w.cfg = y.cfg /\ w.tc = y.tc
    BY <2>9, PutCtl
  <2> DEFINE z == [w EXCEPT !.cfg[t] = h]
  <2> HIDE DEF w
  <2>13. /\ z \in Machines /\ z.cfg[t] = h /\ \A u \in Threads \ {t} : z.cfg[u] = w.cfg[u]
         /\ z.shl = w.shl /\ z.ctl = w.ctl /\ z.on = w.on /\ z.cnt = w.cnt
         /\ z.ovf = w.ovf /\ z.govf = w.govf /\ z.filter = w.filter /\ z.tc = w.tc
    BY <2>10, <2>12, PutCfg
  <2>14. ConfigureFixed(y, t, es) = z
    BY <2>8
  <2> HIDE DEF z
  <2> QED BY <1>4, <2>11, <2>12, <2>13, <2>14
<1>5. CASE ~(fx \in AllCounters /\ y.cfg[t][fx] # Event(g, fx))
  <2>1. changed = {}
    BY <1>1, <1>3, <1>5
  <2>2. ConfigureFixed(y, t, es) = y
    BY <2>1 DEF ConfigureFixed
  <2> QED BY <1>5, <2>2
<1> QED BY <1>4, <1>5
\* The records of one thread and event set are replaced.
Others(y, z, t, g) == \A h \in Groups, u \in Threads : h # g \/ u # t => z.tc[h][u] = y.tc[h][u]

\* One thread's records for one event set are put in place of the old ones.
LEMMA PutRecords ==
  ASSUME NEW y \in Machines, NEW t \in Threads, NEW g \in Groups, NEW R \in [AllCounters -> Counters]
  PROVE  LET z == [y EXCEPT !.tc[g][t] = R] IN
         /\ z \in Machines /\ z.tc[g][t] = R /\ Others(y, z, t, g)
         /\ z.shl = y.shl /\ z.ctl = y.ctl /\ z.on = y.on /\ z.cnt = y.cnt
         /\ z.ovf = y.ovf /\ z.govf = y.govf /\ z.filter = y.filter /\ z.cfg = y.cfg
<1> DEFINE f == [y.tc EXCEPT ![g] = [y.tc[g] EXCEPT ![t] = R]]
<1>1. y.tc \in [Groups -> [Threads -> [AllCounters -> Counters]]]
  BY Fields
<1>2. f \in [Groups -> [Threads -> [AllCounters -> Counters]]] /\ f[g][t] = R
      /\ \A h \in Groups, u \in Threads : h # g \/ u # t => f[h][u] = y.tc[h][u]
  BY <1>1
<1>3. [y EXCEPT !.tc[g][t] = R] = [y EXCEPT !.tc = f]
  OBVIOUS
<1> HIDE DEF f
<1> QED BY <1>2, <1>3 DEF Machines, Others

\* counters are marked as initialised, or not
Marked(y, t, g, cs) == SetInit(y, t, EventSet(g), cs, TRUE)
Unmarked(y, t, g, cs) == SetInit(y, t, EventSet(g), cs, FALSE)

\* Counters are marked as initialised.
LEMMA InitSet ==
  ASSUME NEW y \in Machines, NEW t \in Threads, NEW g \in Groups, NEW cs, filters \in [Groups -> Filters]
  PROVE  LET z == Marked(y, t, g, cs) IN
         /\ z \in Machines /\ Others(y, z, t, g)
         /\ \A c \in AllCounters : /\ z.tc[g][t][c].startData = y.tc[g][t][c].startData
                                   /\ z.tc[g][t][c].counterData = y.tc[g][t][c].counterData
                                   /\ z.tc[g][t][c].overflows = y.tc[g][t][c].overflows
         /\ Inits(z, g, t) = Inits(y, g, t) \cup (cs \cap AllCounters)
         /\ z.shl = y.shl /\ z.ctl = y.ctl /\ z.on = y.on /\ z.cnt = y.cnt
         /\ z.ovf = y.ovf /\ z.govf = y.govf /\ z.filter = y.filter /\ z.cfg = y.cfg
<1> DEFINE R == [c \in AllCounters |-> IF c \in cs THEN [y.tc[g][t][c] EXCEPT !.init = TRUE] ELSE y.tc[g][t][c]]
           z == Marked(y, t, g, cs)
<1>1. y.tc[g][t] \in [AllCounters -> Counters]
  BY Fields
<1>2. R \in [AllCounters -> Counters]
  BY <1>1 DEF Counters
<1>3. \A c \in AllCounters : /\ R[c].startData = y.tc[g][t][c].startData
                             /\ R[c].counterData = y.tc[g][t][c].counterData
                             /\ R[c].overflows = y.tc[g][t][c].overflows
  BY <1>1 DEF Counters
<1>4. {c \in AllCounters : R[c].init} = Inits(y, g, t) \cup (cs \cap AllCounters)
  BY <1>1 DEF Counters, Inits
<1>5. z = [y EXCEPT !.tc[g][t] = R]
  <2>1. DOMAIN y.tc[g][t] = AllCounters /\ EventSet(g).id = g
    BY <1>1, EventSetIs
  <2> QED BY <2>1, Zenon DEF SetInit, Marked, Unmarked
<1> HIDE DEF R, z
<1>6. /\ z \in Machines /\ z.tc[g][t] = R /\ Others(y, z, t, g)
      /\ z.shl = y.shl /\ z.ctl = y.ctl /\ z.on = y.on /\ z.cnt = y.cnt
      /\ z.ovf = y.ovf /\ z.govf = y.govf /\ z.filter = y.filter /\ z.cfg = y.cfg
  BY <1>2, <1>5, PutRecords
<1>7. Inits(z, g, t) = {c \in AllCounters : R[c].init}
  BY <1>6, Zenon DEF Inits
<1> QED BY <1>3, <1>4, <1>6, <1>7 DEF z

\* Counters are marked as not initialised.
LEMMA InitUnset ==
  ASSUME NEW y \in Machines, NEW t \in Threads, NEW g \in Groups, NEW cs, filters \in [Groups -> Filters]
  PROVE  LET z == Unmarked(y, t, g, cs) IN
         /\ z \in Machines /\ Others(y, z, t, g)
         /\ \A c \in AllCounters : /\ z.tc[g][t][c].startData = y.tc[g][t][c].startData
                                   /\ z.tc[g][t][c].counterData = y.tc[g][t][c].counterData
                                   /\ z.tc[g][t][c].overflows = y.tc[g][t][c].overflows
         /\ Inits(z, g, t) = Inits(y, g, t) \ cs
         /\ z.shl = y.shl /\ z.ctl = y.ctl /\ z.on = y.on /\ z.cnt = y.cnt
         /\ z.ovf = y.ovf /\ z.govf = y.govf /\ z.filter = y.filter /\ z.cfg = y.cfg
<1> DEFINE R == [c \in AllCounters |-> IF c \in cs THEN [y.tc[g][t][c] EXCEPT !.init = FALSE] ELSE y.tc[g][t][c]]
           z == Unmarked(y, t, g, cs)
<1>1. y.tc[g][t] \in [AllCounters -> Counters]
  BY Fields
<1>2. R \in [AllCounters -> Counters]
  BY <1>1 DEF Counters
<1>3. \A c \in AllCounters : /\ R[c].startData = y.tc[g][t][c].startData
                             /\ R[c].counterData = y.tc[g][t][c].counterData
                             /\ R[c].overflows = y.tc[g][t][c].overflows
  BY <1>1 DEF Counters
<1>4. {c \in AllCounters : R[c].init} = Inits(y, g, t) \ cs
  BY <1>1 DEF Counters, Inits
<1>5. z = [y EXCEPT !.tc[g][t] = R]
  <2>1. DOMAIN y.tc[g][t] = AllCounters /\ EventSet(g).id = g
    BY <1>1, EventSetIs
  <2> QED BY <2>1, Zenon DEF SetInit, Marked, Unmarked
<1> HIDE DEF R, z
<1>6. /\ z \in Machines /\ z.tc[g][t] = R /\ Others(y, z, t, g)
      /\ z.shl = y.shl /\ z.ctl = y.ctl /\ z.on = y.on /\ z.cnt = y.cnt
      /\ z.ovf = y.ovf /\ z.govf = y.govf /\ z.filter = y.filter /\ z.cfg = y.cfg
  BY <1>2, <1>5, PutRecords
<1>7. Inits(z, g, t) = {c \in AllCounters : R[c].init}
  BY <1>6, Zenon DEF Inits
<1> QED BY <1>3, <1>4, <1>6, <1>7 DEF z

\* the counter register is below the value read last
Fell(y, g, t, c) == y.cnt[Loc(t, c)] < y.tc[g][t][c].counterData

\* The values of start and of the last read are reset.
LEMMA ResetDataIs ==
  ASSUME NEW y \in Machines, NEW t \in Threads, NEW g \in Groups, NEW cs, filters \in [Groups -> Filters]
  PROVE  LET z == ResetData(y, t, EventSet(g), cs) IN
         /\ z \in Machines /\ Others(y, z, t, g) /\ Inits(z, g, t) = Inits(y, g, t)
         /\ \A c \in AllCounters : /\ z.tc[g][t][c].startData = IF c \in cs THEN 0 ELSE y.tc[g][t][c].startData
                                   /\ z.tc[g][t][c].counterData = IF c \in cs THEN 0 ELSE y.tc[g][t][c].counterData
                                   /\ z.tc[g][t][c].overflows = y.tc[g][t][c].overflows
         /\ z.shl = y.shl /\ z.ctl = y.ctl /\ z.on = y.on /\ z.cnt = y.cnt
         /\ z.ovf = y.ovf /\ z.govf = y.govf /\ z.filter = y.filter /\ z.cfg = y.cfg
<1> DEFINE R == [c \in AllCounters |-> IF c \in cs THEN [y.tc[g][t][c] EXCEPT !.startData = 0, !.counterData = 0] ELSE y.tc[g][t][c]]
           z == ResetData(y, t, EventSet(g), cs)
<1>1. y.tc[g][t] \in [AllCounters -> Counters] /\ EventSet(g).id = g
  BY Fields, EventSetIs
<1>2. y.cnt \in [Locs -> 0 .. Size - 1] /\ \A c \in AllCounters : Loc(t, c) \in Locs
  BY Fields, LocIs
<1>3. R \in [AllCounters -> Counters]
  BY <1>1, <1>2, ArchAssumption DEF Counters
<1>4. \A c \in AllCounters : /\ R[c].startData = IF c \in cs THEN 0 ELSE y.tc[g][t][c].startData
                             /\ R[c].counterData = IF c \in cs THEN 0 ELSE y.tc[g][t][c].counterData
                             /\ R[c].overflows = y.tc[g][t][c].overflows
  BY <1>1, <1>2 DEF Counters
<1>5. {c \in AllCounters : R[c].init} = Inits(y, g, t)
  BY <1>1 DEF Counters, Inits
<1>6. z = [y EXCEPT !.tc[g][t] = R]
  <2>1. DOMAIN y.tc[g][t] = AllCounters
    BY <1>1
  <2> QED BY <1>1, <2>1, Zenon DEF ResetData
<1> HIDE DEF R, z
<1>7. /\ z \in Machines /\ z.tc[g][t] = R /\ Others(y, z, t, g)
      /\ z.shl = y.shl /\ z.ctl = y.ctl /\ z.on = y.on /\ z.cnt = y.cnt
      /\ z.ovf = y.ovf /\ z.govf = y.govf /\ z.filter = y.filter /\ z.cfg = y.cfg
  BY <1>3, <1>6, PutRecords
<1>8. Inits(z, g, t) = {c \in AllCounters : R[c].init}
  BY <1>7, Zenon DEF Inits
<1> QED BY <1>4, <1>5, <1>7, <1>8 DEF z

\* The values at start are stored.
LEMMA NoteStartIs ==
  ASSUME NEW y \in Machines, NEW t \in Threads, NEW g \in Groups, NEW cs, filters \in [Groups -> Filters]
  PROVE  LET z == NoteStart(y, t, EventSet(g), cs) IN
         /\ z \in Machines /\ Others(y, z, t, g) /\ Inits(z, g, t) = Inits(y, g, t)
         /\ \A c \in AllCounters : /\ z.tc[g][t][c].startData = IF c \in cs THEN y.cnt[Loc(t, c)] ELSE y.tc[g][t][c].startData
                                   /\ z.tc[g][t][c].counterData = y.tc[g][t][c].counterData
                                   /\ z.tc[g][t][c].overflows = y.tc[g][t][c].overflows
         /\ z.shl = y.shl /\ z.ctl = y.ctl /\ z.on = y.on /\ z.cnt = y.cnt
         /\ z.ovf = y.ovf /\ z.govf = y.govf /\ z.filter = y.filter /\ z.cfg = y.cfg
<1> DEFINE R == [c \in AllCounters |-> IF c \in cs THEN [y.tc[g][t][c] EXCEPT !.startData = y.cnt[Loc(t, c)]] ELSE y.tc[g][t][c]]
           z == NoteStart(y, t, EventSet(g), cs)
<1>1. y.tc[g][t] \in [AllCounters -> Counters] /\ EventSet(g).id = g
  BY Fields, EventSetIs
<1>2. y.cnt \in [Locs -> 0 .. Size - 1] /\ \A c \in AllCounters : Loc(t, c) \in Locs
  BY Fields, LocIs
<1>3. R \in [AllCounters -> Counters]
  BY <1>1, <1>2, ArchAssumption DEF Counters
<1>4. \A c \in AllCounters : /\ R[c].startData = IF c \in cs THEN y.cnt[Loc(t, c)] ELSE y.tc[g][t][c].startData
                             /\ R[c].counterData = y.tc[g][t][c].counterData
                             /\ R[c].overflows = y.tc[g][t][c].overflows
  BY <1>1, <1>2 DEF Counters
<1>5. {c \in AllCounters : R[c].init} = Inits(y, g, t)
  BY <1>1 DEF Counters, Inits
<1>6. z = [y EXCEPT !.tc[g][t] = R]
  <2>1. DOMAIN y.tc[g][t] = AllCounters
    BY <1>1
  <2> QED BY <1>1, <2>1, Zenon DEF NoteStart
<1> HIDE DEF R, z
<1>7. /\ z \in Machines /\ z.tc[g][t] = R /\ Others(y, z, t, g)
      /\ z.shl = y.shl /\ z.ctl = y.ctl /\ z.on = y.on /\ z.cnt = y.cnt
      /\ z.ovf = y.ovf /\ z.govf = y.govf /\ z.filter = y.filter /\ z.cfg = y.cfg
  BY <1>3, <1>6, PutRecords
<1>8. Inits(z, g, t) = {c \in AllCounters : R[c].init}
  BY <1>7, Zenon DEF Inits
<1> QED BY <1>4, <1>5, <1>7, <1>8 DEF z

\* The values of the last read are reset.
LEMMA ClearDataIs ==
  ASSUME NEW y \in Machines, NEW t \in Threads, NEW g \in Groups, NEW cs, filters \in [Groups -> Filters]
  PROVE  LET z == ClearData(y, t, EventSet(g), cs) IN
         /\ z \in Machines /\ Others(y, z, t, g) /\ Inits(z, g, t) = Inits(y, g, t)
         /\ \A c \in AllCounters : /\ z.tc[g][t][c].startData = y.tc[g][t][c].startData
                                   /\ z.tc[g][t][c].counterData = IF c \in cs THEN 0 ELSE y.tc[g][t][c].counterData
                                   /\ z.tc[g][t][c].overflows = y.tc[g][t][c].overflows
         /\ z.shl = y.shl /\ z.ctl = y.ctl /\ z.on = y.on /\ z.cnt = y.cnt
         /\ z.ovf = y.ovf /\ z.govf = y.govf /\ z.filter = y.filter /\ z.cfg = y.cfg
<1> DEFINE R == [c \in AllCounters |-> IF c \in cs THEN [y.tc[g][t][c] EXCEPT !.counterData = 0] ELSE y.tc[g][t][c]]
           z == ClearData(y, t, EventSet(g), cs)
<1>1. y.tc[g][t] \in [AllCounters -> Counters] /\ EventSet(g).id = g
  BY Fields, EventSetIs
<1>2. y.cnt \in [Locs -> 0 .. Size - 1] /\ \A c \in AllCounters : Loc(t, c) \in Locs
  BY Fields, LocIs
<1>3. R \in [AllCounters -> Counters]
  BY <1>1, <1>2, ArchAssumption DEF Counters
<1>4. \A c \in AllCounters : /\ R[c].startData = y.tc[g][t][c].startData
                             /\ R[c].counterData = IF c \in cs THEN 0 ELSE y.tc[g][t][c].counterData
                             /\ R[c].overflows = y.tc[g][t][c].overflows
  BY <1>1, <1>2 DEF Counters
<1>5. {c \in AllCounters : R[c].init} = Inits(y, g, t)
  BY <1>1 DEF Counters, Inits
<1>6. z = [y EXCEPT !.tc[g][t] = R]
  <2>1. DOMAIN y.tc[g][t] = AllCounters
    BY <1>1
  <2> QED BY <1>1, <2>1, Zenon DEF ClearData
<1> HIDE DEF R, z
<1>7. /\ z \in Machines /\ z.tc[g][t] = R /\ Others(y, z, t, g)
      /\ z.shl = y.shl /\ z.ctl = y.ctl /\ z.on = y.on /\ z.cnt = y.cnt
      /\ z.ovf = y.ovf /\ z.govf = y.govf /\ z.filter = y.filter /\ z.cfg = y.cfg
  BY <1>3, <1>6, PutRecords
<1>8. Inits(z, g, t) = {c \in AllCounters : R[c].init}
  BY <1>7, Zenon DEF Inits
<1> QED BY <1>4, <1>5, <1>7, <1>8 DEF z

\* A record after a read: the value and one more overflow if it fell.
LEMMA SampledIs ==
  ASSUME NEW r \in Counters, NEW a \in Nat, NEW p
  PROVE  LET q == Sampled(r, a, p) IN
         /\ q \in Counters /\ q.init = r.init /\ q.startData = r.startData /\ q.counterData = a
         /\ q.overflows = IF p THEN r.overflows + 1 ELSE r.overflows
<1> DEFINE n == IF p THEN r.overflows + 1 ELSE r.overflows
<1>1. r.overflows \in Nat
  BY DEF Counters
<1>2. n \in Nat
  BY <1>1
<1>3. Sampled(r, a, p) = [r EXCEPT !.counterData = a, !.overflows = n]
  BY DEF Counters, Sampled
<1> HIDE DEF n
<1>4. LET q == [r EXCEPT !.counterData = a, !.overflows = n] IN
         /\ q \in Counters /\ q.init = r.init /\ q.startData = r.startData /\ q.counterData = a
         /\ q.overflows = n
  BY <1>2 DEF Counters
<1> QED BY <1>3, <1>4 DEF n

\* Counters are read: the value is stored, an overflow counted, and nothing else changes.
LEMMA SampleIs ==
  ASSUME NEW y \in Machines, NEW t \in Threads, NEW g \in Groups, NEW cs, NEW confirmed, filters \in [Groups -> Filters]
  PROVE  LET z == Sample(y, t, EventSet(g), cs, confirmed) IN
         /\ z \in Machines /\ Others(y, z, t, g) /\ Inits(z, g, t) = Inits(y, g, t)
         /\ \A c \in AllCounters : /\ z.tc[g][t][c].startData = y.tc[g][t][c].startData
                                   /\ z.tc[g][t][c].counterData = IF c \in cs THEN y.cnt[Loc(t, c)] ELSE y.tc[g][t][c].counterData
                                   /\ z.tc[g][t][c].overflows = IF c \in cs /\ Fell(y, g, t, c) /\ Loc(t, c) \in confirmed
                                                                   THEN y.tc[g][t][c].overflows + 1 ELSE y.tc[g][t][c].overflows
         /\ z.shl = y.shl /\ z.ctl = y.ctl /\ z.on = y.on /\ z.cnt = y.cnt
         /\ z.ovf = y.ovf /\ z.govf = y.govf /\ z.filter = y.filter /\ z.cfg = y.cfg
<1> DEFINE R == [c \in AllCounters |-> IF c \in cs
                    THEN Sampled(y.tc[g][t][c], y.cnt[Loc(t, c)], Fell(y, g, t, c) /\ Loc(t, c) \in confirmed)
                    ELSE y.tc[g][t][c]]
           z == Sample(y, t, EventSet(g), cs, confirmed)
<1>1. y.tc[g][t] \in [AllCounters -> Counters] /\ EventSet(g).id = g
  BY Fields, EventSetIs
<1>2. y.cnt \in [Locs -> 0 .. Size - 1] /\ \A c \in AllCounters : Loc(t, c) \in Locs
  BY Fields, LocIs
<1>3. ASSUME NEW c \in AllCounters
      PROVE  /\ R[c] \in Counters /\ R[c].init = y.tc[g][t][c].init
             /\ R[c].startData = y.tc[g][t][c].startData
             /\ R[c].counterData = IF c \in cs THEN y.cnt[Loc(t, c)] ELSE y.tc[g][t][c].counterData
             /\ R[c].overflows = IF c \in cs /\ Fell(y, g, t, c) /\ Loc(t, c) \in confirmed
                                 THEN y.tc[g][t][c].overflows + 1 ELSE y.tc[g][t][c].overflows
  <2> DEFINE p == Fell(y, g, t, c) /\ Loc(t, c) \in confirmed
             r == y.tc[g][t][c]
             a == y.cnt[Loc(t, c)]
  <2>1. r \in Counters /\ a \in Nat
    BY <1>1, <1>2, ArchAssumption
  <2>2. R[c] = IF c \in cs THEN Sampled(r, a, p) ELSE r
    OBVIOUS
  <2> HIDE DEF p, R, r, a
  <2>3. /\ R[c] \in Counters /\ R[c].init = r.init /\ R[c].startData = r.startData
        /\ R[c].counterData = (IF c \in cs THEN a ELSE r.counterData)
        /\ R[c].overflows = IF c \in cs /\ p THEN r.overflows + 1 ELSE r.overflows
    <3>1. CASE c \in cs
      BY <2>1, <2>2, <3>1, SampledIs
    <3>2. CASE c \notin cs
      BY <2>1, <2>2, <3>2
    <3> QED BY <3>1, <3>2
  <2> QED BY <2>3 DEF p, r, a
<1>4. R \in [AllCounters -> Counters]
  <2>1. R = [c \in AllCounters |-> R[c]]
    OBVIOUS
  <2> HIDE DEF R
  <2> QED BY <1>3, <2>1
<1>5. {c \in AllCounters : R[c].init} = Inits(y, g, t)
  <2> HIDE DEF R
  <2> QED BY <1>3, Zenon DEF Inits
<1>6. z = [y EXCEPT !.tc[g][t] = R]
  <2>1. DOMAIN y.tc[g][t] = AllCounters
    BY <1>1
  <2>2. \A c \in AllCounters : Wrapped(y, t, EventSet(g), c) = Fell(y, g, t, c)
    BY <1>1, Zenon DEF Wrapped, Fell
  <2> QED BY <1>1, <2>1, Zenon DEF Sample, Wrapped, Fell
<1> HIDE DEF R, z
<1>7. /\ z \in Machines /\ z.tc[g][t] = R /\ Others(y, z, t, g)
      /\ z.shl = y.shl /\ z.ctl = y.ctl /\ z.on = y.on /\ z.cnt = y.cnt
      /\ z.ovf = y.ovf /\ z.govf = y.govf /\ z.filter = y.filter /\ z.cfg = y.cfg
  BY <1>4, <1>6, PutRecords
<1>8. Inits(z, g, t) = {c \in AllCounters : R[c].init}
  BY <1>7, Zenon DEF Inits
<1> QED BY <1>3, <1>5, <1>7, <1>8 DEF z

-----------------------------------------------------------------------------
(* What a thread does to a machine, whatever the processor. *)

\* the counters a thread programs and their locations
Owned(t) == Mine(t) \ FreeOf(AllCounters)
Held(t) == LocsOf(t, Owned(t))
CoreHeld(t) == IF IsCore THEN Held(t) ELSE {}
BoxHeld(t) == IF IsCore THEN {} ELSE Held(t)
Programmed == {l \in Locs : l[2] \notin FreeTypes}

\* boxes whose control register is written without regard to currentConfig
Direct ==
    Of("sandybridgeEP", {"UBOXFIX", "MBOXFIX"}) \cup Of("sandybridge", {"UBOXFIX"})
    \cup Of("haswellEP", {"UBOXFIX", "MBOXFIX"}) \cup Of("haswell", {"UBOXFIX"})
    \cup Of("broadwelld", {"UBOXFIX"}) \cup Of("nehalemEX", {"WBOXFIX", "UBOX"})
    \cup Of("westmereEX", {"WBOXFIX"}) \cup Of("nehalem", {"UNCOREFIX"})
\* the control register is written by start, not by setup
LateUnit == unit \in Of("sandybridgeEP", {"MBOXFIX"})
\* setup leaves the filter registers as the event set wants them
FilterSet == Of("haswellEP", {"BBOX", "WBOX"}) \cup Of("broadwelld", {"CBOX", "BBOX", "WBOX"})
\* setup writes no filter register, although the events have filters
NeverFiltered == Of("haswellEP", {"QBOX"}) \cup Of("ivybridgeEP", {"SBOX"})
\* finalize clears the filter registers
FilterCleared == Of("haswellEP", {"CBOX", "WBOX"}) \cup Of("nehalemEX", {"MBOX", "BBOX", "SBOX"})
\* finalize clears the registers of initialised counters only
ByInit == Family \in {"sandybridge", "ivybridge", "nehalem"}

\* currentConfig names what the control register selects, if it names anything
AgreesAt(y, t, c) ==
    IF unit \in Direct THEN y.cfg[t][c] = Off
    ELSE y.cfg[t][c] # Off => y.ctl[Loc(t, c)] = y.cfg[t][c]

\* What thread t does to a machine y for the counters S of event set g: setup,
SetsUp(y, z, t, g, S) ==
    /\ z \in Machines
    /\ z.shl = y.shl /\ z.tc = y.tc
    /\ \A u \in Threads \ {t} : z.cfg[u] = y.cfg[u]
    /\ \A d \in AllCounters \ S : z.cfg[t][d] = y.cfg[t][d]
    /\ \A l \in Locs \ LocsOf(t, S \cap Owned(t)) :
          z.ctl[l] = y.ctl[l] \/ (unit \in Direct /\ z.ctl[l] = Event(g, CounterAt(l)))
    /\ unit \notin Deselected =>
          \A c \in S \cap Owned(t) : AgreesAt(y, t, c) =>
              AgreesAt(z, t, c) /\ (~LateUnit => z.ctl[Loc(t, c)] = Event(g, c))
    /\ \/ z.filter = y.filter
       \/ /\ HaveLock(t) /\ IsBox /\ unit \notin NeverFiltered
          /\ z.filter[Box] \in {filters[g], y.filter[Box] \cup filters[g]}
    /\ HaveLock(t) /\ unit \in FilterSet /\ S # {} => z.filter[Box] = filters[g]

SetupDone(y, z, t, g) ==
    /\ z \in Machines
    /\ Others(y, z, t, g) /\ Inits(z, g, t) = AllCounters
    /\ \A u \in Threads \ {t} : z.cfg[u] = y.cfg[u]
    /\ \A l \in Locs \ Held(t) :
          z.ctl[l] = y.ctl[l] \/ (unit \in Direct /\ z.ctl[l] = Event(g, CounterAt(l)))
    /\ unit \notin Deselected =>
          \A c \in Owned(t) : AgreesAt(y, t, c) =>
              AgreesAt(z, t, c) /\ (~LateUnit => z.ctl[Loc(t, c)] = Event(g, c))
    /\ \/ z.filter = y.filter
       \/ /\ HaveLock(t) /\ IsBox /\ unit \notin NeverFiltered
          /\ z.filter[Box] \in {filters[g], y.filter[Box] \cup filters[g]}
    /\ HaveLock(t) /\ unit \in FilterSet => z.filter[Box] = filters[g]

\* start,
StartDone(y, z, t, g) ==
    /\ z \in Machines
    /\ Others(y, z, t, g) /\ Inits(z, g, t) = AllCounters
    /\ z.cfg = y.cfg
    /\ \A l \in Locs : z.ctl[l] = y.ctl[l] \/ (LateUnit /\ z.ctl[l] = Event(g, CounterAt(l)))
    /\ LateUnit => \A l \in Held(t) : z.ctl[l] = Event(g, CounterAt(l))
    /\ z.filter = y.filter \/ (IsBox /\ unit \in Deselected /\ z.filter[Box] = {})
    /\ unit \notin Halted => On(y) \cup Held(t) \subseteq On(z)

\* read,
ReadDone(y, z, t, g) ==
    /\ z \in Machines
    /\ Others(y, z, t, g) /\ Inits(z, g, t) = AllCounters
    /\ z.ctl = y.ctl /\ z.cnt = y.cnt /\ z.filter = y.filter /\ z.cfg = y.cfg
    /\ unit \notin Halted => On(z) = On(y)

\* stop,
StopDone(y, z, t, g) ==
    /\ z \in Machines
    /\ Others(y, z, t, g)
    /\ z.cfg = y.cfg /\ z.filter = y.filter
    /\ \A l \in Locs : z.ctl[l] = y.ctl[l] \/ (unit \in Deselected \cup Direct /\ z.ctl[l] = Off)
    /\ On(z) \subseteq On(y)
    /\ unit \notin NotFrozen => \A l \in Held(t) : l \notin On(z) \/ z.ctl[l] = Off
    /\ ByInit /\ unit \notin KeepsSelection =>
          \A c \in Owned(t) : c \in Inits(z, g, t) \/ z.ctl[Loc(t, c)] = Off

\* and finalize.
NoFilters == [b \in {Box} |-> {}]
FinalizeDone(y, z, t, g) ==
    /\ z \in Machines
    /\ Others(y, z, t, g)
    /\ \A l \in Locs : z.ctl[l] \in {y.ctl[l], Off}
    /\ unit \notin KeepsSelection =>
          \A c \in Owned(t) : (ByInit => c \in Inits(y, g, t)) => z.ctl[Loc(t, c)] = Off
    /\ z.filter = y.filter \/ z.filter = NoFilters
    /\ HaveLock(t) /\ unit \in FilterCleared => z.filter[Box] = {}

-----------------------------------------------------------------------------
(* The registers a thread programs. *)

UnitOk == unit \in AllUnits /\ filters \in [Groups -> Filters]

\* Every counter of a unit is of one kind; thread t owns those of its core,
\* and the first thread those of the package.
LEMMA OwnedIs ==
  ASSUME UnitOk, NEW t \in Threads
  PROVE  /\ Owned(t) = IF IsCore \/ (IsBox /\ t = 1) THEN AllCounters ELSE {}
         /\ \A cs \in SUBSET AllCounters :
               /\ CoreOf(cs) \cup Boxes(t, cs) = cs \cap Owned(t)
               /\ CoreOf(cs) = IF IsCore THEN cs ELSE {}
               /\ Boxes(t, cs) = IF IsBox /\ t = 1 THEN cs ELSE {}
               /\ UncoreOf(cs) = IF IsBox THEN cs ELSE {}
               /\ FreeOf(cs) = IF IsFree THEN cs ELSE {}
         /\ \A c \in Owned(t) : Loc(t, c) \in Held(t) /\ Type(c) \notin FreeTypes
<1>1. CASE IsCore
  BY <1>1, CoreUnit, UnitTypes DEF UnitOk, Owned, Mine, Held, LocsOf, Boxes, IsBox
<1>2. CASE IsBox
  BY <1>2, BoxUnit DEF UnitOk, Owned, Mine, Held, LocsOf, Boxes, IsBox, HaveLock
<1>3. CASE IsFree
  BY <1>3, FreeUnit, UnitTypes DEF UnitOk, Owned, Mine, Held, LocsOf, Boxes, IsBox, HaveLock
<1> QED BY <1>1, <1>2, <1>3 DEF IsBox

\* A unit is a core, a box or one of free counters, with at most two counters.
LEMMA KindIs ==
  ASSUME UnitOk
  PROVE  /\ IsCore \/ IsBox \/ IsFree
         /\ ~(IsCore /\ IsBox) /\ ~(IsCore /\ IsFree) /\ ~(IsBox /\ IsFree)
         /\ AllCounters # {} /\ CoreOf(AllCounters) = {} <=> ~IsCore
         /\ Box \notin {"FIXED", "PMC"}
         /\ \E a, b \in AllCounters : AllCounters = {a, b}
<1>1. \E a, b \in AllCounters : AllCounters = {a, b}
  <2>1. CASE IsCore
    BY <2>1 DEF AllCounters, IsCore
  <2>2. CASE ~IsCore
    <3>1. CASE Box \in SingleTypes
      <4>1. AllCounters = {<<Box, 0>>}
        BY <2>2, <3>1 DEF AllCounters, IsCore
      <4> QED BY <4>1
    <3>2. CASE Box \notin SingleTypes
      <4>1. AllCounters = {<<Box, 0>>, <<Box, 1>>}
        BY <2>2, <3>2 DEF AllCounters, IsCore
      <4> QED BY <4>1
    <3> QED BY <3>1, <3>2
  <2> QED BY <2>1, <2>2
<1>2. CoreOf(AllCounters) = {} <=> ~IsCore
  <2>1. CASE IsCore
    BY <1>1, <2>1, CoreUnit DEF UnitOk
  <2>2. CASE IsBox
    BY <2>2, BoxUnit DEF UnitOk, IsBox
  <2>3. CASE IsFree
    BY <2>3, FreeUnit, UnitTypes DEF UnitOk
  <2> QED BY <2>1, <2>2, <2>3 DEF IsBox
<1> QED BY <1>1, <1>2, UnitTypes DEF IsBox, UnitOk

\* The registers a thread programs: those of its CPU, or those of the package, and no other thread's.
LEMMA HeldIs ==
  ASSUME UnitOk, NEW t \in Threads
  PROVE  /\ Held(t) \subseteq Programmed /\ Programmed \subseteq Locs
         /\ LocsOf(t, CoreOf(AllCounters)) = CoreHeld(t) /\ LocsOf(t, Boxes(t, AllCounters)) = BoxHeld(t)
         /\ \A cs \in SUBSET AllCounters : LocsOf(t, cs \cap Owned(t)) \subseteq Held(t)
         /\ CoreHeld(t) = {l \in Locs : l[1] = t}
         /\ BoxHeld(t) = IF IsBox /\ t = 1 THEN Locs ELSE {}
         /\ Held(t) = CoreHeld(t) \cup BoxHeld(t)
         /\ \A l \in Held(t) : CounterAt(l) \in Owned(t) /\ l = Loc(t, CounterAt(l))
         /\ \A u \in Threads, l \in Held(t) : u # t => l \notin Held(u)
<1>1. CASE IsCore
  <2>1. LocsOf(t, AllCounters) = {l \in Locs : l[1] = t} /\ Owned(t) = AllCounters
    BY <1>1, CoreUnit, OwnedIs DEF UnitOk
  <2>2. \A u \in Threads : Held(u) = {l \in Locs : l[1] = u}
    BY <1>1, CoreUnit, OwnedIs DEF UnitOk, Held
  <2>3. \A l \in Locs : l[2] \notin FreeTypes /\ CounterAt(l) \in AllCounters /\ l = Loc(l[1], CounterAt(l))
    BY <1>1, CoreUnit, LocIs DEF UnitOk
  <2>4. CoreOf(AllCounters) = AllCounters /\ Boxes(t, AllCounters) = {}
    BY <1>1, OwnedIs, KindIs
  <2>5. \A cs \in SUBSET AllCounters : LocsOf(t, cs \cap Owned(t)) \subseteq Held(t)
    BY DEF LocsOf, Held
  <2>6. LocsOf(t, Boxes(t, AllCounters)) = {} /\ ~IsBox
    BY <1>1, <2>4 DEF LocsOf, IsBox
  <2>7. Held(t) \subseteq Programmed /\ Programmed \subseteq Locs
    BY <2>2, <2>3 DEF Programmed
  <2>8. \A l \in Held(t) : CounterAt(l) \in Owned(t) /\ l = Loc(t, CounterAt(l))
    BY <2>1, <2>2, <2>3
  <2>9. LocsOf(t, CoreOf(AllCounters)) = {l \in Locs : l[1] = t}
    BY <2>1, <2>4
  <2>10. CoreHeld(t) = Held(t) /\ BoxHeld(t) = {}
    BY <1>1 DEF CoreHeld, BoxHeld
  <2>11. \A u \in Threads, l \in Held(t) : u # t => l \notin Held(u)
    BY <2>2
  <2> QED BY <2>2, <2>5, <2>6, <2>7, <2>8, <2>9, <2>10, <2>11
<1>2. CASE IsBox
  <2>1. \A u \in Threads : LocsOf(u, AllCounters) = Locs
    BY <1>2, BoxUnit DEF UnitOk
  <2>2. \A u \in Threads : Owned(u) = IF u = 1 THEN AllCounters ELSE {}
    BY <1>2, OwnedIs DEF IsBox
  <2>3. \A u \in Threads : Held(u) = IF u = 1 THEN Locs ELSE {}
    BY <2>1, <2>2 DEF Held, LocsOf
  <2>4. \A l \in Locs : l[1] = 0 /\ l[2] \notin FreeTypes /\ CounterAt(l) \in AllCounters /\ l = Loc(t, CounterAt(l))
    BY <1>2, BoxUnit, LocIs DEF UnitOk
  <2>5. CoreOf(AllCounters) = {} /\ Boxes(t, AllCounters) = IF t = 1 THEN AllCounters ELSE {}
    BY <1>2, OwnedIs DEF IsBox
  <2>6. \A cs \in SUBSET AllCounters : LocsOf(t, cs \cap Owned(t)) \subseteq Held(t)
    BY DEF LocsOf, Held
  <2>7. LocsOf(t, CoreOf(AllCounters)) = {} /\ LocsOf(t, Boxes(t, AllCounters)) = IF t = 1 THEN Locs ELSE {}
    BY <2>1, <2>5 DEF LocsOf
  <2>8. ~IsCore /\ {l \in Locs : l[1] = t} = {}
    BY <1>2, <2>4 DEF IsBox, Threads
  <2>9. Held(t) \subseteq Programmed /\ Programmed \subseteq Locs
    BY <2>3, <2>4 DEF Programmed
  <2>10. \A l \in Held(t) : CounterAt(l) \in Owned(t) /\ l = Loc(t, CounterAt(l))
    BY <2>2, <2>3, <2>4
  <2> QED BY <1>2, <2>3, <2>6, <2>7, <2>8, <2>9, <2>10 DEF CoreHeld, BoxHeld
<1>3. CASE IsFree
  <2>1. Locs = {<<0, Box, 0>>} /\ Box \in FreeTypes
    BY <1>3, FreeUnit DEF UnitOk, IsFree
  <2>2. \A u \in Threads : Owned(u) = {} /\ Held(u) = {}
    BY <1>3, OwnedIs, KindIs DEF Held, LocsOf
  <2>3. CoreOf(AllCounters) = {} /\ Boxes(t, AllCounters) = {} /\ ~IsCore /\ ~IsBox
    BY <1>3, OwnedIs, KindIs
  <2>4. {l \in Locs : l[1] = t} = {}
    BY <2>1 DEF Threads
  <2>5. LocsOf(t, CoreOf(AllCounters)) = {} /\ LocsOf(t, Boxes(t, AllCounters)) = {}
        /\ \A cs \in SUBSET AllCounters : LocsOf(t, cs \cap Owned(t)) = {}
    BY <2>2, <2>3 DEF LocsOf
  <2> QED BY <2>2, <2>3, <2>4, <2>5 DEF CoreHeld, BoxHeld, Programmed
<1> QED BY <1>1, <1>2, <1>3, KindIs

\* Some thread programs every register that can be programmed.
LEMMA AllHeld ==
  ASSUME UnitOk, NEW l \in Programmed
  PROVE  \E t \in Threads : l \in Held(t)
<1>1. CASE IsCore
  <2>1. l[1] \in Threads
    BY <1>1, CoreUnit DEF UnitOk, Programmed
  <2> QED BY <2>1, HeldIs DEF Programmed
<1>2. CASE IsBox
  BY <1>2, HeldIs, ArchAssumption DEF Programmed, Threads
<1>3. CASE IsFree
  BY <1>3, FreeUnit DEF UnitOk, Programmed, IsFree
<1> QED BY <1>1, <1>2, <1>3, KindIs

\* The registers of the package.
LEMMA PackageIs ==
  ASSUME UnitOk, NEW y \in Machines, NEW g \in Groups
  PROVE  /\ PackageLocs(y) = IF IsBox THEN Locs ELSE {}
         /\ IsCore => ~UsesPackage(EventSet(g))
         /\ IsBox => UsesPackage(EventSet(g))
         /\ \A t \in Threads : FixedLocs(y, t, AllCounters) \subseteq CoreHeld(t)
         /\ \A t \in Threads, cs \in SUBSET AllCounters : FixedLocs(y, t, cs) \subseteq CoreHeld(t)
<1>1. DOMAIN y.on = Locs /\ CountersOf(EventSet(g)) = AllCounters
  BY Fields, EventSetIs DEF UnitOk
<1>2. \A t \in Threads, cs \in SUBSET AllCounters : FixedLocs(y, t, cs) \subseteq CoreHeld(t)
  BY <1>1, HeldIs DEF FixedLocs
<1>3. CASE IsCore
  <2>1. \A l \in Locs : l[1] # 0
    BY <1>3, CoreUnit DEF UnitOk, Threads
  <2>2. PackageLocs(y) = {} /\ ~IsBox
    BY <1>1, <1>3, <2>1 DEF PackageLocs, IsBox
  <2>3. ~UsesPackage(EventSet(g))
    BY <1>1, <1>3, CoreUnit DEF UnitOk, UsesPackage
  <2> QED BY <1>2, <1>3, <2>2, <2>3
<1>4. CASE IsBox
  <2>1. \A l \in Locs : l[1] = 0 /\ l[2] \notin FreeTypes
    BY <1>4, BoxUnit DEF UnitOk
  <2>2. PackageLocs(y) = Locs /\ ~IsCore
    BY <1>1, <1>4, <2>1 DEF PackageLocs, IsBox
  <2>3. UsesPackage(EventSet(g))
    BY <1>1, <1>4, BoxUnit, KindIs DEF UnitOk, UsesPackage, FreeTypes
  <2> QED BY <1>2, <1>4, <2>2, <2>3
<1>5. CASE IsFree
  <2>1. \A l \in Locs : l[2] \in FreeTypes
    BY <1>5, FreeUnit DEF UnitOk, IsFree
  <2>2. PackageLocs(y) = {}
    BY <1>1, <2>1 DEF PackageLocs
  <2> QED BY <1>2, <1>5, <2>2, KindIs
<1> QED BY <1>3, <1>4, <1>5, KindIs

\* The global control register of a CPU has the bits of the counters this thread programs.
LEMMA CoreCtrlIs ==
  ASSUME UnitOk, NEW y \in Machines, NEW t \in Threads, NEW cs, cs \subseteq CoreOf(AllCounters)
  PROVE  LET z == GlobalCtrl(y, t, cs) IN
         /\ z \in Machines /\ On(z) = (On(y) \ CoreHeld(t)) \cup LocsOf(t, cs)
         /\ z.shl = y.shl /\ z.ctl = y.ctl /\ z.cnt = y.cnt /\ z.ovf = y.ovf
         /\ z.govf = y.govf /\ z.filter = y.filter /\ z.cfg = y.cfg /\ z.tc = y.tc
<1>1. CoreHeld(t) = {l \in Locs : l[1] = t} /\ On(y) \subseteq Locs
  BY HeldIs DEF On
<1>2. LocsOf(t, cs) \subseteq CoreHeld(t)
  BY HeldIs DEF LocsOf
<1> DEFINE z == GlobalCtrl(y, t, cs)
<1>3. /\ z \in Machines /\ On(z) = {l \in Locs : IF l[1] = t THEN l \in LocsOf(t, cs) ELSE l \in On(y)}
      /\ z.shl = y.shl /\ z.ctl = y.ctl /\ z.cnt = y.cnt /\ z.ovf = y.ovf
      /\ z.govf = y.govf /\ z.filter = y.filter /\ z.cfg = y.cfg /\ z.tc = y.tc
  BY GlobalCtrlIs
<1> HIDE DEF z
<1>4. On(z) = (On(y) \ CoreHeld(t)) \cup LocsOf(t, cs)
  BY <1>1, <1>2, <1>3
<1> QED BY <1>3, <1>4 DEF z

\* The same where it is written only for event sets with core counters.
LEMMA GlobalCtrlIfIs ==
  ASSUME UnitOk, NEW y \in Machines, NEW t \in Threads, NEW g \in Groups, NEW cs, cs \subseteq CoreOf(AllCounters)
  PROVE  LET z == GlobalCtrlIf(y, t, EventSet(g), cs) IN
         /\ z \in Machines /\ On(z) = (On(y) \ CoreHeld(t)) \cup LocsOf(t, cs)
         /\ z.shl = y.shl /\ z.ctl = y.ctl /\ z.cnt = y.cnt /\ z.ovf = y.ovf
         /\ z.govf = y.govf /\ z.filter = y.filter /\ z.cfg = y.cfg /\ z.tc = y.tc
<1>1. CountersOf(EventSet(g)) = AllCounters
  BY EventSetIs DEF UnitOk
<1>2. CASE CoreOf(AllCounters) = {}
  <2>1. GlobalCtrlIf(y, t, EventSet(g), cs) = y
    BY <1>1, <1>2 DEF GlobalCtrlIf
  <2>2. CoreHeld(t) = {} /\ LocsOf(t, cs) = {}
    BY <1>2, KindIs DEF CoreHeld, LocsOf
  <2> QED BY <2>1, <2>2
<1>3. CASE CoreOf(AllCounters) # {}
  <2>1. GlobalCtrlIf(y, t, EventSet(g), cs) = GlobalCtrl(y, t, cs)
    BY <1>1, <1>3 DEF GlobalCtrlIf
  <2> QED BY <2>1, CoreCtrlIs
<1> QED BY <1>2, <1>3

\* Stop of the core counters.
LEMMA CoreOff ==
  ASSUME UnitOk, NEW y \in Machines, NEW t \in Threads, NEW g \in Groups
  PROVE  LET z == GlobalCtrlIf(y, t, EventSet(g), {}) IN
         /\ z \in Machines /\ On(z) = On(y) \ CoreHeld(t)
         /\ z.shl = y.shl /\ z.ctl = y.ctl /\ z.cnt = y.cnt /\ z.ovf = y.ovf
         /\ z.govf = y.govf /\ z.filter = y.filter /\ z.cfg = y.cfg /\ z.tc = y.tc
<1>1. LocsOf(t, {}) = {}
  BY DEF LocsOf
<1> QED BY <1>1, GlobalCtrlIfIs

\* Start of the core counters.
LEMMA CoreOn ==
  ASSUME UnitOk, NEW y \in Machines, NEW t \in Threads, NEW g \in Groups
  PROVE  LET z == GlobalCtrlIf(y, t, EventSet(g), CoreOf(AllCounters)) IN
         /\ z \in Machines /\ On(z) = On(y) \cup CoreHeld(t)
         /\ z.shl = y.shl /\ z.ctl = y.ctl /\ z.cnt = y.cnt /\ z.ovf = y.ovf
         /\ z.govf = y.govf /\ z.filter = y.filter /\ z.cfg = y.cfg /\ z.tc = y.tc
<1>1. LocsOf(t, CoreOf(AllCounters)) = CoreHeld(t)
  BY HeldIs
<1> DEFINE z == GlobalCtrlIf(y, t, EventSet(g), CoreOf(AllCounters))
<1>2. /\ z \in Machines /\ On(z) = (On(y) \ CoreHeld(t)) \cup LocsOf(t, CoreOf(AllCounters))
      /\ z.shl = y.shl /\ z.ctl = y.ctl /\ z.cnt = y.cnt /\ z.ovf = y.ovf
      /\ z.govf = y.govf /\ z.filter = y.filter /\ z.cfg = y.cfg /\ z.tc = y.tc
  BY GlobalCtrlIfIs
<1> HIDE DEF z
<1> QED BY <1>1, <1>2 DEF z

\* the core counters that were enabled on machine w
LEMMA CoreBack ==
  ASSUME UnitOk, NEW w \in Machines, NEW y \in Machines, NEW t \in Threads, NEW g \in Groups
  PROVE  LET z == GlobalCtrlIf(y, t, EventSet(g), {c \in CoreOf(AllCounters) : w.on[Loc(t, c)]}) IN
         /\ z \in Machines /\ On(z) = (On(y) \ CoreHeld(t)) \cup (On(w) \cap CoreHeld(t))
         /\ z.shl = y.shl /\ z.ctl = y.ctl /\ z.cnt = y.cnt /\ z.ovf = y.ovf
         /\ z.govf = y.govf /\ z.filter = y.filter /\ z.cfg = y.cfg /\ z.tc = y.tc
<1> DEFINE E == {c \in CoreOf(AllCounters) : w.on[Loc(t, c)]}
<1>1. LocsOf(t, E) = On(w) \cap CoreHeld(t)
  <2>1. ASSUME NEW c \in E PROVE Loc(t, c) \in On(w) \cap CoreHeld(t)
    <3>1. c \in AllCounters /\ Loc(t, c) \in Locs
      BY LocIs DEF CoreOf, OfTypes
    <3>2. Loc(t, c) \in CoreHeld(t)
      BY HeldIs DEF LocsOf
    <3> QED BY <3>1, <3>2 DEF On
  <2>2. ASSUME NEW l \in On(w) \cap CoreHeld(t) PROVE l \in LocsOf(t, E)
    <3>1. PICK c \in CoreOf(AllCounters) : l = Loc(t, c)
      BY HeldIs DEF LocsOf
    <3>2. c \in E
      BY <3>1, Zenon DEF On
    <3> QED BY <3>1, <3>2 DEF LocsOf
  <2> QED BY <2>1, <2>2 DEF LocsOf
<1>2. E \subseteq CoreOf(AllCounters)
  OBVIOUS
<1> HIDE DEF E
<1> DEFINE z == GlobalCtrlIf(y, t, EventSet(g), E)
<1>3. /\ z \in Machines /\ On(z) = (On(y) \ CoreHeld(t)) \cup LocsOf(t, E)
      /\ z.shl = y.shl /\ z.ctl = y.ctl /\ z.cnt = y.cnt /\ z.ovf = y.ovf
      /\ z.govf = y.govf /\ z.filter = y.filter /\ z.cfg = y.cfg /\ z.tc = y.tc
  BY <1>2, GlobalCtrlIfIs
<1> HIDE DEF z
<1> QED BY <1>1, <1>3 DEF z, E

\* the package is frozen and unfrozen by the holder of its lock
LEMMA PackageOff ==
  ASSUME UnitOk, NEW y \in Machines, NEW t \in Threads, NEW g \in Groups
  PROVE  LET z == IF HaveLock(t) /\ UsesPackage(EventSet(g)) THEN Freeze(y, PackageLocs(y)) ELSE y IN
         /\ z \in Machines /\ On(z) = On(y) \ BoxHeld(t)
         /\ z.shl = y.shl /\ z.ctl = y.ctl /\ z.cnt = y.cnt /\ z.ovf = y.ovf
         /\ z.govf = y.govf /\ z.filter = y.filter /\ z.cfg = y.cfg /\ z.tc = y.tc
<1>1. BoxHeld(t) = IF IsBox /\ HaveLock(t) THEN PackageLocs(y) ELSE {}
  BY HeldIs, PackageIs DEF HaveLock
<1>2. CASE IsBox /\ HaveLock(t)
  BY <1>1, <1>2, FreezeIs, PackageIs
<1>3. CASE IsFree
  BY <1>1, <1>3, FreezeIs, PackageIs, KindIs
<1>4. CASE ~HaveLock(t) \/ IsCore
  BY <1>1, <1>4, PackageIs, KindIs
<1> QED BY <1>2, <1>3, <1>4, KindIs

\* Start of the boxes of the package.
LEMMA PackageOn ==
  ASSUME UnitOk, NEW y \in Machines, NEW t \in Threads, NEW g \in Groups
  PROVE  LET z == IF HaveLock(t) /\ UsesPackage(EventSet(g)) THEN Unfreeze(y, PackageLocs(y)) ELSE y IN
         /\ z \in Machines /\ On(z) = On(y) \cup BoxHeld(t)
         /\ z.shl = y.shl /\ z.ctl = y.ctl /\ z.cnt = y.cnt /\ z.ovf = y.ovf
         /\ z.govf = y.govf /\ z.filter = y.filter /\ z.cfg = y.cfg /\ z.tc = y.tc
<1>1. BoxHeld(t) = IF IsBox /\ HaveLock(t) THEN PackageLocs(y) \cap Locs ELSE {}
  BY HeldIs, PackageIs DEF HaveLock
<1>2. CASE IsBox /\ HaveLock(t)
  BY <1>1, <1>2, UnfreezeIs, PackageIs
<1>3. CASE IsFree
  <2>1. PackageLocs(y) = {}
    BY <1>3, PackageIs, KindIs
  <2> QED BY <1>1, <1>3, <2>1, UnfreezeIs, KindIs
<1>4. CASE ~HaveLock(t) \/ IsCore
  BY <1>1, <1>4, PackageIs, KindIs
<1> QED BY <1>2, <1>3, <1>4, KindIs

-----------------------------------------------------------------------------
(* Steps of read: only records change. *)

\* Thread t notes something in its records of event set g,
Stores(y, z, t, g) ==
    /\ z \in Machines /\ Others(y, z, t, g) /\ Inits(z, g, t) = Inits(y, g, t)
    /\ z.shl = y.shl /\ z.ctl = y.ctl /\ z.on = y.on /\ z.filter = y.filter
    /\ z.cfg = y.cfg
\* and leaves the counters alone.
Reads(y, z, t, g) == Stores(y, z, t, g) /\ z.cnt = y.cnt

\* Two such steps are one.
LEMMA StoresBoth ==
  ASSUME NEW y, NEW w, NEW z, NEW t, NEW g
  PROVE  /\ Stores(y, w, t, g) /\ Stores(w, z, t, g) => Stores(y, z, t, g)
         /\ Reads(y, w, t, g) /\ Reads(w, z, t, g) => Reads(y, z, t, g)
  BY DEF Stores, Reads, Others

\* No step is one.
LEMMA StoresNothing ==
  ASSUME NEW y \in Machines, NEW t, NEW g
  PROVE  Reads(y, y, t, g)
  BY DEF Stores, Reads, Others

\* The steps on records and status registers are of this kind.
LEMMA Noting ==
  ASSUME UnitOk, NEW y \in Machines, NEW t \in Threads, NEW g \in Groups, NEW cs, NEW L
  PROVE  /\ Reads(y, ResetData(y, t, EventSet(g), cs), t, g)
         /\ Reads(y, NoteStart(y, t, EventSet(g), cs), t, g)
         /\ Reads(y, ClearData(y, t, EventSet(g), cs), t, g)
         /\ Reads(y, Sample(y, t, EventSet(g), cs, L), t, g)
         /\ Reads(y, ClearStatus(y, L), t, g)
         /\ Stores(y, Zero(y, L), t, g)
<1> USE DEF UnitOk
<1>1. Reads(y, ResetData(y, t, EventSet(g), cs), t, g)
  BY ResetDataIs DEF Stores, Reads
<1>2. Reads(y, NoteStart(y, t, EventSet(g), cs), t, g)
  BY NoteStartIs DEF Stores, Reads
<1>3. Reads(y, ClearData(y, t, EventSet(g), cs), t, g)
  BY ClearDataIs DEF Stores, Reads
<1>4. Reads(y, Sample(y, t, EventSet(g), cs, L), t, g)
  BY SampleIs DEF Stores, Reads
<1>5. Reads(y, ClearStatus(y, L), t, g)
  BY ClearStatusIs DEF Stores, Reads, Others, Inits
<1>6. Stores(y, Zero(y, L), t, g)
  BY ZeroIs DEF Stores, Others, Inits
<1> QED BY <1>1, <1>2, <1>3, <1>4, <1>5, <1>6

\* So is the step that begins a measurement,
LEMMA BeginNotes ==
  ASSUME UnitOk, NEW y \in Machines, NEW t \in Threads, NEW g \in Groups, NEW cs
  PROVE  Reads(y, BeginData(y, t, EventSet(g), cs), t, g)
<1> DEFINE w == ResetData(y, t, EventSet(g), cs)
<1>1. Reads(y, w, t, g)
  BY Noting
<1>2. BeginData(y, t, EventSet(g), cs) = NoteStart(w, t, EventSet(g), IF HaveLock(t) THEN FreeOf(cs) ELSE {})
  BY DEF BeginData
<1> HIDE DEF w
<1>3. Reads(w, NoteStart(w, t, EventSet(g), IF HaveLock(t) THEN FreeOf(cs) ELSE {}), t, g)
  BY <1>1, Noting DEF Reads, Stores
<1> QED BY <1>1, <1>2, <1>3, StoresBoth

\* the ones that read counters,
LEMMA Sampling ==
  ASSUME UnitOk, NEW y \in Machines, NEW t \in Threads, NEW g \in Groups, NEW cs
  PROVE  /\ Reads(y, SamplePlain(y, t, EventSet(g), cs), t, g)
         /\ Reads(y, SampleStatus(y, t, EventSet(g), cs), t, g)
         /\ Reads(y, SampleFree(y, t, EventSet(g), cs), t, g)
         /\ Reads(y, AcknowledgeBoxes(y, t, EventSet(g), cs), t, g)
<1>1. ASSUME NEW ds PROVE Reads(y, SamplePlain(y, t, EventSet(g), ds), t, g)
  BY Noting DEF SamplePlain
<1>2. ASSUME NEW L, NEW K PROVE Reads(y, ClearStatus(Sample(y, t, EventSet(g), cs, L), K), t, g)
  <2> DEFINE w == Sample(y, t, EventSet(g), cs, L)
  <2>1. Reads(y, w, t, g)
    BY Noting
  <2> HIDE DEF w
  <2>2. Reads(w, ClearStatus(w, K), t, g)
    BY <2>1, Noting DEF Reads, Stores
  <2>3. Reads(y, ClearStatus(w, K), t, g)
    BY <2>1, <2>2, StoresBoth
  <2> QED BY <2>3 DEF w
<1>3. Reads(y, SampleFree(y, t, EventSet(g), cs), t, g)
  BY <1>1, StoresNothing DEF SampleFree
<1> QED BY <1>1, <1>2, <1>3 DEF SampleStatus, AcknowledgeBoxes

\* and the one that reads a counter of a box.
LEMMA SamplingBox ==
  ASSUME UnitOk, NEW y \in Machines, NEW t \in Threads, NEW g \in Groups, NEW c, NEW viaGlobal, NEW hasStatus
  PROVE  Reads(y, SampleBox(y, t, EventSet(g), c, viaGlobal, hasStatus), t, g)
<1> DEFINE local == hasStatus /\ (viaGlobal => Type(c) \in y.govf)
           r == Sample(y, t, EventSet(g), {c}, IF local THEN y.ovf ELSE {})
           go == IF viaGlobal THEN r.govf \ {Type(c)} ELSE r.govf
           o == IF local THEN r.ovf \ {Loc(t, c)} ELSE r.ovf
           z == [r EXCEPT !.govf = go, !.ovf = o]
<1>1. SampleBox(y, t, EventSet(g), c, viaGlobal, hasStatus) = IF ~Wrapped(y, t, EventSet(g), c) THEN r ELSE z
  BY DEF SampleBox
<1>2. Reads(y, r, t, g)
  BY Noting
<1> HIDE DEF local, r
<1>3. r \in Machines
  BY <1>2 DEF Reads, Stores
<1>4. go \in SUBSET {Box} /\ o \in SUBSET Locs
  BY <1>3, Fields
<1> HIDE DEF go, o
<1>5. Reads(r, z, t, g)
  <2>1. /\ z \in Machines
        /\ z.shl = r.shl /\ z.ctl = r.ctl /\ z.on = r.on /\ z.cnt = r.cnt
        /\ z.filter = r.filter /\ z.cfg = r.cfg /\ z.tc = r.tc
    BY <1>3, <1>4 DEF Machines
  <2> HIDE DEF z
  <2>2. Others(r, z, t, g) /\ Inits(z, g, t) = Inits(r, g, t)
    BY <2>1 DEF Others, Inits
  <2> QED BY <2>1, <2>2 DEF Reads, Stores
<1> HIDE DEF z
<1> QED BY <1>1, <1>2, <1>5, StoresBoth

\* setting up

fx == <<"FIXED", 0>>

\* A step that changes no selection sets up no counter.
LEMMA SetsUpFrame ==
  ASSUME NEW y \in Machines, NEW z \in Machines, NEW t, NEW g,
         z.shl = y.shl, z.tc = y.tc, z.cfg = y.cfg, z.ctl = y.ctl, z.filter = y.filter
  PROVE  SetsUp(y, z, t, g, {})
  BY DEF SetsUp

\* Counters set up one after the other are both set up.
LEMMA SetsUpBoth ==
  ASSUME UnitOk, NEW y \in Machines, NEW w, NEW z, NEW t \in Threads, NEW g \in Groups,
         NEW S \in SUBSET AllCounters, NEW T \in SUBSET AllCounters,
         SetsUp(y, w, t, g, S), SetsUp(w, z, t, g, T)
  PROVE  SetsUp(y, z, t, g, S \cup T)
<1>1. \A d \in AllCounters \ (S \cup T) : z.cfg[t][d] = y.cfg[t][d]
  BY DEF SetsUp
<1>2. ASSUME NEW l \in Locs \ LocsOf(t, (S \cup T) \cap Owned(t))
      PROVE  z.ctl[l] = y.ctl[l] \/ (unit \in Direct /\ z.ctl[l] = Event(g, CounterAt(l)))
  <2>1. l \in Locs \ LocsOf(t, S \cap Owned(t)) /\ l \in Locs \ LocsOf(t, T \cap Owned(t))
    BY DEF LocsOf
  <2> QED BY <2>1 DEF SetsUp
<1>3. ASSUME unit \notin Deselected, NEW c \in (S \cup T) \cap Owned(t), AgreesAt(y, t, c)
      PROVE  AgreesAt(z, t, c) /\ (~LateUnit => z.ctl[Loc(t, c)] = Event(g, c))
  <2>1. c \in AllCounters /\ Loc(t, c) \in Locs /\ CounterAt(Loc(t, c)) = c
    BY LocIs
  <2>2. ASSUME NEW R \in SUBSET AllCounters, c \notin R PROVE Loc(t, c) \notin LocsOf(t, R \cap Owned(t))
    BY <2>1, <2>2, LocIs DEF LocsOf
  <2>3. CASE c \in T /\ c \in S
    BY <1>3, <2>3 DEF SetsUp
  <2>4. CASE c \in T /\ c \notin S
    <3>1. w.cfg[t][c] = y.cfg[t][c] /\ (w.ctl[Loc(t, c)] = y.ctl[Loc(t, c)] \/ unit \in Direct)
      BY <2>1, <2>2, <2>4 DEF SetsUp
    <3>2. AgreesAt(w, t, c)
      BY <1>3, <3>1 DEF AgreesAt
    <3> QED BY <1>3, <2>4, <3>2 DEF SetsUp
  <2>5. CASE c \notin T
    <3>1. AgreesAt(w, t, c) /\ (~LateUnit => w.ctl[Loc(t, c)] = Event(g, c))
      BY <1>3, <2>5 DEF SetsUp
    <3>2. z.cfg[t][c] = w.cfg[t][c]
          /\ (z.ctl[Loc(t, c)] = w.ctl[Loc(t, c)] \/ (unit \in Direct /\ z.ctl[Loc(t, c)] = Event(g, c)))
      BY <2>1, <2>2, <2>5 DEF SetsUp
    <3> QED BY <3>1, <3>2 DEF AgreesAt
  <2> QED BY <2>3, <2>4, <2>5
<1>4. \/ z.filter = y.filter
      \/ /\ HaveLock(t) /\ IsBox /\ unit \notin NeverFiltered
         /\ z.filter[Box] \in {filters[g], y.filter[Box] \cup filters[g]}
  BY DEF SetsUp
<1>5. HaveLock(t) /\ unit \in FilterSet /\ S \cup T # {} => z.filter[Box] = filters[g]
  <2> SUFFICES ASSUME HaveLock(t), unit \in FilterSet, S \cup T # {} PROVE z.filter[Box] = filters[g]
    OBVIOUS
  <2>1. CASE T # {}
    BY <2>1 DEF SetsUp
  <2>2. CASE T = {}
    <3>1. w.filter[Box] = filters[g]
      BY <2>2 DEF SetsUp
    <3> QED BY <3>1 DEF SetsUp
  <2> QED BY <2>1, <2>2
<1>6. /\ z \in Machines
      /\ z.shl = y.shl /\ z.tc = y.tc
      /\ \A u \in Threads \ {t} : z.cfg[u] = y.cfg[u]
  BY DEF SetsUp
<1> QED BY <1>1, <1>2, <1>3, <1>4, <1>5, <1>6 DEF SetsUp

\* the counters of an event set are set up in some order
LEMMA FoldSetsUp ==
  ASSUME UnitOk, NEW y \in Machines, NEW t \in Threads, NEW g \in Groups, NEW h,
         h[{}] = y,
         \A s \in SUBSET AllCounters : s # {} =>
            \E c \in s : h[s \ {c}] \in Machines => SetsUp(h[s \ {c}], h[s], t, g, {c} \ {fx})
  PROVE  SetsUp(y, h[AllCounters], t, g, AllCounters \ {fx})
<1>1. ASSUME NEW c \in AllCounters PROVE SetsUp(y, h[{c}], t, g, {c} \ {fx})
  <2>1. PICK d \in {c} : h[{c} \ {d}] \in Machines => SetsUp(h[{c} \ {d}], h[{c}], t, g, {d} \ {fx})
    OBVIOUS
  <2>2. d = c /\ {c} \ {d} = {}
    OBVIOUS
  <2> QED BY <2>1, <2>2
<1>2. PICK a \in AllCounters, b \in AllCounters : AllCounters = {a, b}
  BY KindIs
<1>3. PICK c \in AllCounters :
        h[AllCounters \ {c}] \in Machines => SetsUp(h[AllCounters \ {c}], h[AllCounters], t, g, {c} \ {fx})
  BY <1>2
<1>4. CASE AllCounters \ {c} = {}
  BY <1>3, <1>4
<1>5. CASE AllCounters \ {c} # {}
  <2>1. PICK d \in AllCounters : AllCounters \ {c} = {d}
    BY <1>2, <1>5
  <2>2. SetsUp(y, h[{d}], t, g, {d} \ {fx})
    BY <1>1
  <2>3. h[{d}] \in Machines
    BY <2>2 DEF SetsUp
  <2>4. SetsUp(h[{d}], h[AllCounters], t, g, {c} \ {fx})
    BY <1>3, <2>1, <2>3
  <2>5. SetsUp(y, h[AllCounters], t, g, ({d} \ {fx}) \cup ({c} \ {fx}))
    BY <2>2, <2>4, SetsUpBoth
  <2>6. ({d} \ {fx}) \cup ({c} \ {fx}) = AllCounters \ {fx}
    BY <2>1
  <2> QED BY <2>5, <2>6
<1> QED BY <1>4, <1>5

-----------------------------------------------------------------------------
(* Steps of setup: one counter is configured. *)

\* how an event is configured
LEMMA EventIs ==
  ASSUME UnitOk, NEW g \in Groups, NEW c \in AllCounters
  PROVE  /\ EventSet(g).ev[c].flags = Event(g, c)
         /\ EventSet(g).ev[c].filter = (IF IsBox THEN filters[g] ELSE IF IsFree THEN filters[g] ELSE {})
         /\ c \notin {d \in AllCounters : Type(d) \in FreeTypes} => Event(g, c) \in SelsOf(c)
<1>1. Type(c) = Box <=> ~IsCore
  BY KindIs, CoreUnit, BoxUnit, FreeUnit DEF UnitOk
<1> QED BY <1>1, KindIs, EventSetIs DEF UnitOk

\* A counter of a thread is set up by configuring it: currentConfig and the register name the event
\* after it.
LEMMA ConfigureSets ==
  ASSUME UnitOk, NEW y \in Machines, NEW t \in Threads, NEW g \in Groups, NEW c \in Owned(t), unit \notin Direct,
         HaveLock(t) /\ unit \in FilterSet => y.filter[Box] = filters[g]
  PROVE  SetsUp(y, Configure(y, t, c, Event(g, c)), t, g, {c})
<1> DEFINE z == Configure(y, t, c, Event(g, c))
<1>1. c \in AllCounters /\ Type(c) \notin FreeTypes /\ Event(g, c) \in SelsOf(c) \ {Free} /\ Event(g, c) # Off
  BY OwnedIs, EventSetIs DEF Owned, Mine, UnitOk
<1>2. /\ z \in Machines
      /\ \A l \in Locs : z.ctl[l] = IF l = Loc(t, c) /\ y.cfg[t][c] # Event(g, c) THEN Event(g, c) ELSE y.ctl[l]
      /\ \A u \in Threads \ {t} : z.cfg[u] = y.cfg[u]
      /\ \A d \in AllCounters : z.cfg[t][d] = IF d = c THEN Event(g, c) ELSE y.cfg[t][d]
      /\ z.shl = y.shl /\ z.on = y.on /\ z.cnt = y.cnt /\ z.ovf = y.ovf
      /\ z.govf = y.govf /\ z.filter = y.filter /\ z.tc = y.tc
  BY <1>1, ConfigureIs
<1> HIDE DEF z
<1>3. LocsOf(t, {c} \cap Owned(t)) = {Loc(t, c)} /\ Loc(t, c) \in Locs
  BY <1>1, LocIs DEF LocsOf
<1>4. ASSUME AgreesAt(y, t, c) PROVE AgreesAt(z, t, c) /\ z.ctl[Loc(t, c)] = Event(g, c)
  BY <1>1, <1>2, <1>3, <1>4 DEF AgreesAt
<1>5. SetsUp(y, z, t, g, {c})
  BY <1>2, <1>3, <1>4 DEF SetsUp
<1> QED BY <1>5 DEF z

\* a counter that this thread does not program
LEMMA SkipSets ==
  ASSUME UnitOk, NEW y \in Machines, NEW t \in Threads, NEW g \in Groups, NEW c \in AllCounters,
         c \notin Owned(t) \/ LateUnit, ~(HaveLock(t) /\ unit \in FilterSet)
  PROVE  SetsUp(y, y, t, g, {c})
<1>1. LateUnit => unit \in Direct
  BY DEF LateUnit, Direct, Of
<1>2. unit \notin Deselected => \A d \in {c} \cap Owned(t) : AgreesAt(y, t, d) =>
        AgreesAt(y, t, d) /\ (~LateUnit => y.ctl[Loc(t, d)] = Event(g, d))
  OBVIOUS
<1> QED BY <1>2 DEF SetsUp

\* Nothing is done for a box without the socket lock.
LEMMA LockSkips ==
  ASSUME UnitOk, NEW y \in Machines, NEW t \in Threads, NEW g \in Groups, NEW c \in AllCounters,
         IsBox, ~HaveLock(t)
  PROVE  SetsUp(y, y, t, g, {c})
  BY SkipSets, OwnedIs, KindIs DEF HaveLock

\* A counter of a box is set up by the thread with the lock.
LEMMA BoxSets ==
  ASSUME UnitOk, NEW y \in Machines, NEW t \in Threads, NEW g \in Groups, NEW c \in AllCounters, unit \notin Direct,
         IsBox, unit \notin FilterSet
  PROVE  SetsUp(y, ConfigureBox(y, t, c, Event(g, c)), t, g, {c})
<1>1. CASE HaveLock(t)
  <2>1. c \in Owned(t)
    BY <1>1, OwnedIs DEF HaveLock
  <2> QED BY <1>1, <2>1, ConfigureSets DEF ConfigureBox
<1>2. CASE ~HaveLock(t)
  BY <1>2, LockSkips DEF ConfigureBox
<1> QED BY <1>1, <1>2

\* A control register is written without regard to currentConfig.
LEMMA WriteSets ==
  ASSUME UnitOk, NEW y \in Machines, NEW t \in Threads, NEW g \in Groups, NEW c \in AllCounters,
         IsBox, unit \in Direct, unit \notin FilterSet
  PROVE  SetsUp(y, [y EXCEPT !.ctl[Loc(t, c)] = Event(g, c)], t, g, {c})
<1> DEFINE z == [y EXCEPT !.ctl[Loc(t, c)] = Event(g, c)]
<1>1. Event(g, c) \in SelsOf(c) /\ Type(c) \notin FreeTypes
  BY EventSetIs, BoxUnit DEF UnitOk
<1>2. /\ z \in Machines /\ \A l \in Locs : z.ctl[l] = IF l = Loc(t, c) THEN Event(g, c) ELSE y.ctl[l]
      /\ z.shl = y.shl /\ z.on = y.on /\ z.cnt = y.cnt /\ z.ovf = y.ovf
      /\ z.govf = y.govf /\ z.filter = y.filter /\ z.cfg = y.cfg /\ z.tc = y.tc
  BY <1>1, WriteIs
<1> HIDE DEF z
<1>3. Loc(t, c) \in Locs /\ CounterAt(Loc(t, c)) = c
  BY LocIs
<1>4. ASSUME NEW l \in Locs PROVE z.ctl[l] = y.ctl[l] \/ z.ctl[l] = Event(g, CounterAt(l))
  BY <1>2, <1>3
<1>5. SetsUp(y, z, t, g, {c})
  BY <1>2, <1>3, <1>4 DEF SetsUp, AgreesAt
<1> QED BY <1>5 DEF z

\* The same for a counter of the package.
LEMMA LockWriteSets ==
  ASSUME UnitOk, NEW y \in Machines, NEW t \in Threads, NEW g \in Groups, NEW c \in AllCounters,
         IsBox, unit \in Direct, unit \notin FilterSet
  PROVE  SetsUp(y, IF HaveLock(t) THEN [y EXCEPT !.ctl[Loc(t, c)] = Event(g, c)] ELSE y, t, g, {c})
  BY WriteSets, LockSkips

\* A filter register is written.
LEMMA FilterIs ==
  ASSUME UnitOk, NEW y \in Machines, NEW c \in AllCounters, NEW f \in Filters, IsBox
  PROVE  LET z == SetFilter(y, c, f) IN
         /\ z \in Machines /\ z.filter[Box] = f
         /\ z.shl = y.shl /\ z.ctl = y.ctl /\ z.on = y.on /\ z.cnt = y.cnt
         /\ z.ovf = y.ovf /\ z.govf = y.govf /\ z.cfg = y.cfg /\ z.tc = y.tc
<1> DEFINE F == [y.filter EXCEPT ![Type(c)] = f]
<1>1. Type(c) = Box /\ y.filter \in [{Box} -> Filters]
  BY BoxUnit, Fields DEF UnitOk
<1>2. F \in [{Box} -> Filters] /\ F[Box] = f
  BY <1>1
<1>3. SetFilter(y, c, f) = [y EXCEPT !.filter = F]
  BY DEF SetFilter
<1> HIDE DEF F
<1> QED BY <1>2, <1>3 DEF Machines

\* Writing the filter register sets up no counter and leaves the filter given.
LEMMA FilterSets ==
  ASSUME UnitOk, NEW y \in Machines, NEW t \in Threads, NEW g \in Groups, NEW c \in AllCounters, NEW f \in Filters,
         IsBox, HaveLock(t), unit \notin NeverFiltered, f \in {filters[g], y.filter[Box] \cup filters[g]}
  PROVE  SetsUp(y, SetFilter(y, c, f), t, g, {}) /\ SetFilter(y, c, f).filter[Box] = f
<1> DEFINE z == SetFilter(y, c, f)
<1>1. /\ z \in Machines /\ z.filter[Box] = f
      /\ z.shl = y.shl /\ z.ctl = y.ctl /\ z.on = y.on /\ z.cnt = y.cnt
      /\ z.ovf = y.ovf /\ z.govf = y.govf /\ z.cfg = y.cfg /\ z.tc = y.tc
  BY FilterIs
<1> HIDE DEF z
<1>2. SetsUp(y, z, t, g, {})
  BY <1>1 DEF SetsUp
<1> QED BY <1>1, <1>2 DEF z

\* ... by the event's option, if it has one,
LEMMA OptionSets ==
  ASSUME UnitOk, NEW y \in Machines, NEW t \in Threads, NEW g \in Groups, NEW c \in AllCounters,
         IsBox, unit \notin NeverFiltered, unit \notin Direct, unit \notin FilterSet
  PROVE  LET e == EventSet(g).ev[c]
             w == IF HaveLock(t) /\ e.filter # {} THEN SetFilter(y, c, e.filter) ELSE y
         IN SetsUp(y, ConfigureBox(w, t, c, Event(g, c)), t, g, {c})
<1> DEFINE e == EventSet(g).ev[c]
           w == IF HaveLock(t) /\ e.filter # {} THEN SetFilter(y, c, e.filter) ELSE y
<1>1. e.filter = filters[g] /\ filters[g] \in Filters
  BY EventIs DEF UnitOk
<1> HIDE DEF e
<1>2. SetsUp(y, w, t, g, {})
  BY <1>1, FilterSets, SetsUpFrame
<1> HIDE DEF w
<1>3. w \in Machines
  BY <1>2 DEF SetsUp
<1>4. SetsUp(w, ConfigureBox(w, t, c, Event(g, c)), t, g, {c})
  BY <1>3, BoxSets
<1>5. SetsUp(y, ConfigureBox(w, t, c, Event(g, c)), t, g, {} \cup {c})
  BY <1>2, <1>4, SetsUpBoth
<1> QED BY <1>5 DEF w, e

\* ... or with every event.
LEMMA AlwaysSets ==
  ASSUME UnitOk, NEW y \in Machines, NEW t \in Threads, NEW g \in Groups, NEW c \in AllCounters, NEW f,
         IsBox, unit \notin NeverFiltered, unit \notin Direct,
         f = filters[g] \/ (unit \notin FilterSet /\ f = y.filter[Box] \cup filters[g])
  PROVE  SetsUp(y, IF HaveLock(t) THEN Configure(SetFilter(y, c, f), t, c, Event(g, c)) ELSE y, t, g, {c})
<1>1. CASE HaveLock(t)
  <2>1. f \in Filters
    BY Fields DEF UnitOk, Filters
  <2> DEFINE w == SetFilter(y, c, f)
  <2>2. SetsUp(y, w, t, g, {}) /\ w.filter[Box] = f
    BY <1>1, <2>1, FilterSets
  <2> HIDE DEF w
  <2>3. w \in Machines
    BY <2>2 DEF SetsUp
  <2>4. c \in Owned(t)
    BY <1>1, OwnedIs DEF HaveLock
  <2>5. SetsUp(w, Configure(w, t, c, Event(g, c)), t, g, {c})
    BY <2>2, <2>3, <2>4, ConfigureSets
  <2>6. SetsUp(y, Configure(w, t, c, Event(g, c)), t, g, {} \cup {c})
    BY <2>2, <2>5, SetsUpBoth
  <2> QED BY <1>1, <2>6 DEF w
<1>2. CASE ~HaveLock(t)
  BY <1>2, LockSkips
<1> QED BY <1>1, <1>2

\* Steps that stop a counter, or zero it, do not matter here.
LEMMA SetsUpThen ==
  ASSUME UnitOk, NEW y \in Machines, NEW w, NEW t \in Threads, NEW g \in Groups, NEW S \in SUBSET AllCounters,
         SetsUp(y, w, t, g, S), NEW L
  PROVE  /\ SetsUp(y, Freeze(w, L), t, g, S) /\ SetsUp(y, Unfreeze(w, L), t, g, S)
         /\ SetsUp(y, Zero(w, L), t, g, S) /\ SetsUp(y, ClearStatus(w, L), t, g, S)
<1>1. w \in Machines
  BY DEF SetsUp
<1>2. ASSUME NEW z, SetsUp(w, z, t, g, {}) PROVE SetsUp(y, z, t, g, S)
  <2>1. SetsUp(y, z, t, g, S \cup {})
    BY <1>2, SetsUpBoth
  <2> QED BY <2>1
<1>3. SetsUp(w, Freeze(w, L), t, g, {})
  BY <1>1, FreezeIs, SetsUpFrame
<1>4. SetsUp(w, Unfreeze(w, L), t, g, {})
  BY <1>1, UnfreezeIs, SetsUpFrame
<1>5. SetsUp(w, Zero(w, L), t, g, {})
  BY <1>1, ZeroIs, SetsUpFrame
<1>6. SetsUp(w, ClearStatus(w, L), t, g, {})
  BY <1>1, ClearStatusIs, SetsUpFrame
<1> QED BY <1>2, <1>3, <1>4, <1>5, <1>6

\* The fixed counters of a thread are set up together.
LEMMA FixedSets ==
  ASSUME UnitOk, NEW w \in Machines, NEW t \in Threads, NEW g \in Groups
  PROVE  SetsUp(w, ConfigureFixed(w, t, EventSet(g)), t, g, AllCounters \cap {fx})
<1> DEFINE S == AllCounters \cap {fx}
           z == ConfigureFixed(w, t, EventSet(g))
<1>1. /\ z \in Machines
      /\ \A l \in Locs : z.ctl[l] = IF l = Loc(t, fx) /\ fx \in AllCounters /\ w.cfg[t][fx] # Event(g, fx)
                                    THEN Event(g, fx) ELSE w.ctl[l]
      /\ \A u \in Threads \ {t} : z.cfg[u] = w.cfg[u]
      /\ \A d \in AllCounters : z.cfg[t][d] = IF d = fx THEN Event(g, d) ELSE w.cfg[t][d]
      /\ z.shl = w.shl /\ z.on = w.on /\ z.cnt = w.cnt /\ z.ovf = w.ovf
      /\ z.govf = w.govf /\ z.filter = w.filter /\ z.tc = w.tc
  BY ConfigureFixedIs DEF UnitOk, fx
<1> HIDE DEF z
<1>2. fx \in AllCounters => fx \in Owned(t) /\ IsCore /\ unit \notin Direct /\ unit \notin FilterSet /\ Event(g, fx) # Off
  <2>1. ASSUME fx \in AllCounters PROVE IsCore
    BY <2>1, KindIs, BoxUnit, FreeUnit DEF UnitOk, fx, Type
  <2>2. IsCore => unit \notin Direct /\ unit \notin FilterSet
    BY DEF IsCore, CoreUnits, Direct, FilterSet, Of, Box
  <2> QED BY <2>1, <2>2, OwnedIs, EventSetIs DEF UnitOk
<1>3. CASE fx \in AllCounters
  <2>1. S = {fx} /\ S \cap Owned(t) = {fx} /\ LocsOf(t, {fx}) = {Loc(t, fx)} /\ Loc(t, fx) \in Locs
    BY <1>2, <1>3, LocIs DEF LocsOf
  <2>2. AgreesAt(w, t, fx) => AgreesAt(z, t, fx) /\ z.ctl[Loc(t, fx)] = Event(g, fx)
    BY <1>1, <1>2, <1>3, <2>1 DEF AgreesAt
  <2> HIDE DEF S
  <2>3. SetsUp(w, z, t, g, S)
    BY <1>1, <1>2, <1>3, <2>1, <2>2 DEF SetsUp
  <2> QED BY <2>3 DEF S, z
<1>4. CASE fx \notin AllCounters
  <2>1. S = {}
    BY <1>4
  <2> HIDE DEF S
  <2>2. SetsUp(w, z, t, g, S)
    BY <1>1, <1>4, <2>1 DEF SetsUp
  <2> QED BY <2>2 DEF S, z
<1> QED BY <1>3, <1>4

\* The fixed counters come last, and every counter is marked as initialised.
LEMMA SetupEnds ==
  ASSUME UnitOk, NEW y \in Machines, NEW w, NEW t \in Threads, NEW g \in Groups, NEW z,
         \/ SetsUp(y, w, t, g, AllCounters) /\ z = w
         \/ SetsUp(y, w, t, g, AllCounters \ {fx}) /\ z = ConfigureFixed(w, t, EventSet(g))
  PROVE  SetupDone(y, Marked(z, t, g, AllCounters), t, g)
<1>1. SetsUp(y, z, t, g, AllCounters)
  <2>1. CASE SetsUp(y, w, t, g, AllCounters \ {fx}) /\ z = ConfigureFixed(w, t, EventSet(g))
    <3>1. w \in Machines
      BY <2>1 DEF SetsUp
    <3>2. SetsUp(w, z, t, g, AllCounters \cap {fx})
      BY <2>1, <3>1, FixedSets
    <3>3. SetsUp(y, z, t, g, (AllCounters \ {fx}) \cup (AllCounters \cap {fx}))
      BY <2>1, <3>2, SetsUpBoth
    <3>4. (AllCounters \ {fx}) \cup (AllCounters \cap {fx}) = AllCounters
      OBVIOUS
    <3> QED BY <3>3, <3>4
  <2> QED BY <2>1
<1> DEFINE v == Marked(z, t, g, AllCounters)
<1>2. z \in Machines
  BY <1>1 DEF SetsUp
<1>3. /\ v \in Machines /\ Others(z, v, t, g)
      /\ Inits(v, g, t) = Inits(z, g, t) \cup (AllCounters \cap AllCounters)
      /\ v.shl = z.shl /\ v.ctl = z.ctl /\ v.on = z.on /\ v.cnt = z.cnt
      /\ v.ovf = z.ovf /\ v.govf = z.govf /\ v.filter = z.filter /\ v.cfg = z.cfg
  BY <1>2, InitSet DEF UnitOk
<1> HIDE DEF v
<1>4. Inits(v, g, t) = AllCounters
  BY <1>3 DEF Inits
<1>5. AllCounters \cap Owned(t) = Owned(t) /\ AllCounters # {}
  BY OwnedIs, KindIs
<1>6. Others(y, v, t, g)
  BY <1>1, <1>3 DEF Others, SetsUp
<1>7. SetupDone(y, v, t, g)
  BY SMTT(30), <1>1, <1>3, <1>4, <1>5, <1>6 DEF SetupDone, SetsUp, Held, AgreesAt
<1> QED BY <1>7 DEF v

-----------------------------------------------------------------------------
(* Steps of start, stop and finalize. *)

\* Thread t changes no selection, and not which of its counters are initialised.
Keeps(y, z, t, g) ==
    /\ z \in Machines /\ Others(y, z, t, g) /\ Inits(z, g, t) = Inits(y, g, t)
    /\ z.ctl = y.ctl /\ z.filter = y.filter /\ z.cfg = y.cfg

\* The counters that were initialised for an event set.
LEMMA InitOfIs ==
  ASSUME UnitOk, NEW y \in Machines, NEW t, NEW g \in Groups
  PROVE  InitOf(y, t, EventSet(g)) = Inits(y, g, t) /\ CountersOf(EventSet(g)) = AllCounters
<1>1. CountersOf(EventSet(g)) = AllCounters /\ EventSet(g).id = g
  BY EventSetIs DEF UnitOk
<1> QED BY <1>1, Zenon DEF InitOf, Inits

\* No step is such a change.
LEMMA KeepsNothing ==
  ASSUME NEW y \in Machines, NEW t, NEW g
  PROVE  Keeps(y, y, t, g)
  BY DEF Keeps, Others

\* A step on the records is one.
LEMMA KeepsStores ==
  ASSUME NEW y, NEW w, NEW z, NEW t, NEW g, Keeps(y, w, t, g), Stores(w, z, t, g)
  PROVE  Keeps(y, z, t, g) /\ On(z) = On(w)
  BY DEF Keeps, Stores, Others, On

\* A step of read is one, and enables nothing.
LEMMA KeepsReads ==
  ASSUME NEW y, NEW w, NEW z, NEW t, NEW g, Keeps(y, w, t, g), Reads(w, z, t, g)
  PROVE  Keeps(y, z, t, g) /\ On(z) = On(w) /\ z.cnt = w.cnt
  BY KeepsStores DEF Reads

\* Steps on the enable bits are such changes.
LEMMA KeepsOn ==
  ASSUME NEW y, NEW w, NEW z, NEW t, NEW g, Keeps(y, w, t, g), z \in Machines,
         z.shl = w.shl, z.ctl = w.ctl, z.cnt = w.cnt, z.ovf = w.ovf, z.govf = w.govf,
         z.filter = w.filter, z.cfg = w.cfg, z.tc = w.tc
  PROVE  Keeps(y, z, t, g)
  BY DEF Keeps, Others, Inits

\* Freezing is one.
LEMMA KeepsFreeze ==
  ASSUME UnitOk, NEW y, NEW w, NEW t \in Threads, NEW g \in Groups, Keeps(y, w, t, g), NEW L
  PROVE  LET z == Freeze(w, L) IN
         Keeps(y, z, t, g) /\ z.cnt = w.cnt /\ On(z) = On(w) \ L
<1>1. w \in Machines
  BY DEF Keeps
<1> DEFINE z == Freeze(w, L)
<1>2. /\ z \in Machines /\ On(z) = On(w) \ L
      /\ z.shl = w.shl /\ z.ctl = w.ctl /\ z.cnt = w.cnt /\ z.ovf = w.ovf
      /\ z.govf = w.govf /\ z.filter = w.filter /\ z.cfg = w.cfg /\ z.tc = w.tc
  BY <1>1, FreezeIs
<1> HIDE DEF z
<1>3. Keeps(y, z, t, g)
  BY <1>2, KeepsOn
<1> QED BY <1>2, <1>3 DEF z

\* Unfreezing is one.
LEMMA KeepsUnfreeze ==
  ASSUME UnitOk, NEW y, NEW w, NEW t \in Threads, NEW g \in Groups, Keeps(y, w, t, g), NEW L
  PROVE  LET z == Unfreeze(w, L) IN
         Keeps(y, z, t, g) /\ z.cnt = w.cnt /\ On(z) = On(w) \cup (L \cap Locs)
<1>1. w \in Machines
  BY DEF Keeps
<1> DEFINE z == Unfreeze(w, L)
<1>2. /\ z \in Machines /\ On(z) = On(w) \cup (L \cap Locs)
      /\ z.shl = w.shl /\ z.ctl = w.ctl /\ z.cnt = w.cnt /\ z.ovf = w.ovf
      /\ z.govf = w.govf /\ z.filter = w.filter /\ z.cfg = w.cfg /\ z.tc = w.tc
  BY <1>1, UnfreezeIs
<1> HIDE DEF z
<1>3. Keeps(y, z, t, g)
  BY <1>2, KeepsOn
<1> QED BY <1>2, <1>3 DEF z

\* Stopping the core is one.
LEMMA KeepsCoreOff ==
  ASSUME UnitOk, NEW y, NEW w, NEW t \in Threads, NEW g \in Groups, Keeps(y, w, t, g)
  PROVE  LET z == GlobalCtrlIf(w, t, EventSet(g), {}) IN
         Keeps(y, z, t, g) /\ z.cnt = w.cnt /\ On(z) = On(w) \ CoreHeld(t)
<1>1. w \in Machines
  BY DEF Keeps
<1> DEFINE z == GlobalCtrlIf(w, t, EventSet(g), {})
<1>2. /\ z \in Machines /\ On(z) = On(w) \ CoreHeld(t)
      /\ z.shl = w.shl /\ z.ctl = w.ctl /\ z.cnt = w.cnt /\ z.ovf = w.ovf
      /\ z.govf = w.govf /\ z.filter = w.filter /\ z.cfg = w.cfg /\ z.tc = w.tc
  BY <1>1, CoreOff
<1> HIDE DEF z
<1>3. Keeps(y, z, t, g)
  BY <1>2, KeepsOn
<1> QED BY <1>2, <1>3 DEF z

\* Starting the core is one.
LEMMA KeepsCoreOn ==
  ASSUME UnitOk, NEW y, NEW w, NEW t \in Threads, NEW g \in Groups, Keeps(y, w, t, g)
  PROVE  LET z == GlobalCtrlIf(w, t, EventSet(g), CoreOf(AllCounters)) IN
         Keeps(y, z, t, g) /\ z.cnt = w.cnt /\ On(z) = On(w) \cup CoreHeld(t)
<1>1. w \in Machines
  BY DEF Keeps
<1> DEFINE z == GlobalCtrlIf(w, t, EventSet(g), CoreOf(AllCounters))
<1>2. /\ z \in Machines /\ On(z) = On(w) \cup CoreHeld(t)
      /\ z.shl = w.shl /\ z.ctl = w.ctl /\ z.cnt = w.cnt /\ z.ovf = w.ovf
      /\ z.govf = w.govf /\ z.filter = w.filter /\ z.cfg = w.cfg /\ z.tc = w.tc
  BY <1>1, CoreOn
<1> HIDE DEF z
<1>3. Keeps(y, z, t, g)
  BY <1>2, KeepsOn
<1> QED BY <1>2, <1>3 DEF z
\* the core counters of t that are enabled
RunningCore(y, t) == {c \in CoreOf(AllCounters) : y.on[Loc(t, c)]}

\* Starting what ran in the core before is one.
LEMMA KeepsCoreBack ==
  ASSUME UnitOk, NEW y, NEW w, NEW t \in Threads, NEW g \in Groups, Keeps(y, w, t, g), NEW x \in Machines,
         NEW E, E = RunningCore(x, t)
  PROVE  LET z == GlobalCtrlIf(w, t, EventSet(g), E) IN
         Keeps(y, z, t, g) /\ z.cnt = w.cnt /\ On(z) = (On(w) \ CoreHeld(t)) \cup (On(x) \cap CoreHeld(t))
<1>1. w \in Machines
  BY DEF Keeps
<1> DEFINE z == GlobalCtrlIf(w, t, EventSet(g), {c \in CoreOf(AllCounters) : x.on[Loc(t, c)]})
<1>2. /\ z \in Machines /\ On(z) = (On(w) \ CoreHeld(t)) \cup (On(x) \cap CoreHeld(t))
      /\ z.shl = w.shl /\ z.ctl = w.ctl /\ z.cnt = w.cnt /\ z.ovf = w.ovf
      /\ z.govf = w.govf /\ z.filter = w.filter /\ z.cfg = w.cfg /\ z.tc = w.tc
  BY <1>1, CoreBack
<1>4. z = GlobalCtrlIf(w, t, EventSet(g), E)
  BY DEF RunningCore
<1> HIDE DEF z
<1>3. Keeps(y, z, t, g)
  BY <1>2, KeepsOn
<1> QED BY <1>2, <1>3, <1>4

\* Stopping the package is one.
LEMMA KeepsPackageOff ==
  ASSUME UnitOk, NEW y, NEW w, NEW t \in Threads, NEW g \in Groups, Keeps(y, w, t, g)
  PROVE  LET z == IF HaveLock(t) /\ UsesPackage(EventSet(g)) THEN Freeze(w, PackageLocs(w)) ELSE w IN
         Keeps(y, z, t, g) /\ z.cnt = w.cnt /\ On(z) = On(w) \ BoxHeld(t)
<1>1. w \in Machines
  BY DEF Keeps
<1> DEFINE z == IF HaveLock(t) /\ UsesPackage(EventSet(g)) THEN Freeze(w, PackageLocs(w)) ELSE w
<1>2. /\ z \in Machines /\ On(z) = On(w) \ BoxHeld(t)
      /\ z.shl = w.shl /\ z.ctl = w.ctl /\ z.cnt = w.cnt /\ z.ovf = w.ovf
      /\ z.govf = w.govf /\ z.filter = w.filter /\ z.cfg = w.cfg /\ z.tc = w.tc
  BY <1>1, PackageOff
<1> HIDE DEF z
<1>3. Keeps(y, z, t, g)
  BY <1>2, KeepsOn
<1> QED BY <1>2, <1>3 DEF z

\* Starting the package is one.
LEMMA KeepsPackageOn ==
  ASSUME UnitOk, NEW y, NEW w, NEW t \in Threads, NEW g \in Groups, Keeps(y, w, t, g)
  PROVE  LET z == IF HaveLock(t) /\ UsesPackage(EventSet(g)) THEN Unfreeze(w, PackageLocs(w)) ELSE w IN
         Keeps(y, z, t, g) /\ z.cnt = w.cnt /\ On(z) = On(w) \cup BoxHeld(t)
<1>1. w \in Machines
  BY DEF Keeps
<1> DEFINE z == IF HaveLock(t) /\ UsesPackage(EventSet(g)) THEN Unfreeze(w, PackageLocs(w)) ELSE w
<1>2. /\ z \in Machines /\ On(z) = On(w) \cup BoxHeld(t)
      /\ z.shl = w.shl /\ z.ctl = w.ctl /\ z.cnt = w.cnt /\ z.ovf = w.ovf
      /\ z.govf = w.govf /\ z.filter = w.filter /\ z.cfg = w.cfg /\ z.tc = w.tc
  BY <1>1, PackageOn
<1> HIDE DEF z
<1>3. Keeps(y, z, t, g)
  BY <1>2, KeepsOn
<1> QED BY <1>2, <1>3 DEF z

\* The core counters are enabled, their status cleared before or after.
LEMMA KeepsCoreStart ==
  ASSUME UnitOk, NEW y, NEW w, NEW t \in Threads, NEW g \in Groups, Keeps(y, w, t, g), NEW L, NEW z,
         z = (IF CoreOf(AllCounters) = {} THEN w ELSE ClearStatus(GlobalCtrl(w, t, CoreOf(AllCounters)), L))
            \/ z = (IF CoreOf(AllCounters) = {} THEN w ELSE GlobalCtrl(ClearStatus(w, L), t, CoreOf(AllCounters)))
  PROVE  Keeps(y, z, t, g) /\ z.cnt = w.cnt /\ On(z) = On(w) \cup CoreHeld(t)
<1>1. w \in Machines /\ LocsOf(t, CoreOf(AllCounters)) = CoreHeld(t)
  BY HeldIs DEF Keeps
<1>2. CASE CoreOf(AllCounters) = {}
  BY <1>1, <1>2, KindIs DEF CoreHeld
<1>3. ASSUME NEW x, Keeps(y, x, t, g)
      PROVE  LET v == GlobalCtrl(x, t, CoreOf(AllCounters)) IN
             Keeps(y, v, t, g) /\ v.cnt = x.cnt /\ On(v) = On(x) \cup CoreHeld(t)
  <2> DEFINE v == GlobalCtrl(x, t, CoreOf(AllCounters))
  <2>1. x \in Machines
    BY <1>3 DEF Keeps
  <2>2. /\ v \in Machines /\ On(v) = (On(x) \ CoreHeld(t)) \cup LocsOf(t, CoreOf(AllCounters))
        /\ v.shl = x.shl /\ v.ctl = x.ctl /\ v.cnt = x.cnt /\ v.ovf = x.ovf
        /\ v.govf = x.govf /\ v.filter = x.filter /\ v.cfg = x.cfg /\ v.tc = x.tc
    BY <2>1, CoreCtrlIs
  <2> HIDE DEF v
  <2>3. Keeps(y, v, t, g) /\ On(v) = On(x) \cup CoreHeld(t)
    BY <1>1, <1>3, <2>2, KeepsOn
  <2> QED BY <2>2, <2>3 DEF v
<1>4. ASSUME NEW x, Keeps(y, x, t, g)
      PROVE  LET v == ClearStatus(x, L) IN
             Keeps(y, v, t, g) /\ v.cnt = x.cnt /\ On(v) = On(x)
  BY <1>4, Noting, KeepsReads DEF Keeps
<1>5. CASE CoreOf(AllCounters) # {}
  <2>1. CASE z = ClearStatus(GlobalCtrl(w, t, CoreOf(AllCounters)), L)
    <3> DEFINE v == GlobalCtrl(w, t, CoreOf(AllCounters))
    <3>1. Keeps(y, v, t, g) /\ v.cnt = w.cnt /\ On(v) = On(w) \cup CoreHeld(t)
      BY <1>3
    <3>2. z = ClearStatus(v, L)
      BY <2>1
    <3> HIDE DEF v
    <3> QED BY <1>4, <3>1, <3>2
  <2>2. CASE z = GlobalCtrl(ClearStatus(w, L), t, CoreOf(AllCounters))
    <3> DEFINE v == ClearStatus(w, L)
    <3>1. Keeps(y, v, t, g) /\ v.cnt = w.cnt /\ On(v) = On(w)
      BY <1>4
    <3>2. z = GlobalCtrl(v, t, CoreOf(AllCounters))
      BY <2>2
    <3> HIDE DEF v
    <3> QED BY <1>3, <3>1, <3>2
  <2> QED BY <1>5, <2>1, <2>2
<1> QED BY <1>2, <1>5

\* the counters of the boxes are read in some order
LEMMA FoldStores ==
  ASSUME UnitOk, NEW y, NEW base, NEW t \in Threads, NEW g \in Groups, NEW h, NEW S \in SUBSET AllCounters, NEW clear,
         h[{}] = base, Reads(y, base, t, g),
         \A s \in SUBSET S : s # {} =>
            \E c \in s : h[s \ {c}] \in Machines =>
                Stores(h[s \ {c}], h[s], t, g) /\ (~clear => Reads(h[s \ {c}], h[s], t, g))
  PROVE  Stores(y, h[S], t, g) /\ (~clear => Reads(y, h[S], t, g))
<1> DEFINE P == {s \in SUBSET S : Stores(y, h[s], t, g) /\ (~clear => Reads(y, h[s], t, g))}
<1>1. {} \in P
  BY DEF Reads
<1>2. ASSUME NEW s \in SUBSET S, NEW c \in s, s \ {c} \in P,
             h[s \ {c}] \in Machines =>
                Stores(h[s \ {c}], h[s], t, g) /\ (~clear => Reads(h[s \ {c}], h[s], t, g))
      PROVE  s \in P
  <2>1. h[s \ {c}] \in Machines
    BY <1>2 DEF Stores
  <2> QED BY <1>2, <2>1, StoresBoth
<1>3. ASSUME NEW c \in S PROVE {c} \in P
  <2>1. PICK d \in {c} : h[{c} \ {d}] \in Machines =>
           Stores(h[{c} \ {d}], h[{c}], t, g) /\ (~clear => Reads(h[{c} \ {d}], h[{c}], t, g))
    OBVIOUS
  <2>2. d = c /\ {c} \ {d} = {} /\ {c} \in SUBSET S
    OBVIOUS
  <2> HIDE DEF P
  <2> QED BY <1>1, <1>2, <2>1, <2>2
<1> HIDE DEF P
<1>4. ASSUME S = {} PROVE S \in P
  BY <1>1, <1>4
<1>5. ASSUME S # {} PROVE S \in P
  <2>1. PICK c \in S : h[S \ {c}] \in Machines =>
                Stores(h[S \ {c}], h[S], t, g) /\ (~clear => Reads(h[S \ {c}], h[S], t, g))
    BY <1>5
  <2>2. S \ {c} = {} \/ \E d \in S : S \ {c} = {d}
    BY KindIs
  <2>3. S \ {c} \in P
    BY <1>1, <1>3, <2>2
  <2> QED BY <1>2, <2>1, <2>3
<1>6. S \in P
  BY <1>4, <1>5
<1> QED BY <1>6 DEF P

\* Such changes make a start, once the thread's counters are enabled,
LEMMA StartEnds ==
  ASSUME UnitOk, NEW y \in Machines, NEW z, NEW t \in Threads, NEW g \in Groups,
         Inits(y, g, t) = AllCounters, Keeps(y, z, t, g), ~LateUnit,
         unit \notin Halted => On(y) \cup CoreHeld(t) \cup BoxHeld(t) \subseteq On(z)
  PROVE  StartDone(y, z, t, g)
  BY HeldIs DEF StartDone, Keeps

\* a read, once what was enabled is enabled again,
LEMMA ReadEnds ==
  ASSUME UnitOk, NEW y \in Machines, NEW z, NEW t \in Threads, NEW g \in Groups,
         Inits(y, g, t) = AllCounters, Keeps(y, z, t, g), z.cnt = y.cnt,
         unit \notin Halted => On(z) = On(y)
  PROVE  ReadDone(y, z, t, g)
  BY DEF ReadDone, Keeps

\* and a stop, once the thread's counters are not enabled.
LEMMA StopEnds ==
  ASSUME UnitOk, NEW y \in Machines, NEW w, NEW z, NEW t \in Threads, NEW g \in Groups, NEW cs,
         Inits(y, g, t) = AllCounters, Keeps(y, w, t, g), On(w) \subseteq On(y),
         unit \notin NotFrozen => On(w) \cap (CoreHeld(t) \cup BoxHeld(t)) = {},
         z = w \/ (~(ByInit /\ unit \notin KeepsSelection) /\ z = Unmarked(w, t, g, cs))
  PROVE  StopDone(y, z, t, g)
<1>1. Held(t) = CoreHeld(t) \cup BoxHeld(t) /\ \A c \in Owned(t) : c \in AllCounters
  BY HeldIs, OwnedIs
<1>2. CASE z = w
  BY <1>1, <1>2 DEF StopDone, Keeps
<1>3. CASE ~(ByInit /\ unit \notin KeepsSelection) /\ z = Unmarked(w, t, g, cs)
  <2>1. w \in Machines
    BY DEF Keeps
  <2>2. /\ z \in Machines /\ Others(w, z, t, g)
        /\ z.shl = w.shl /\ z.ctl = w.ctl /\ z.on = w.on /\ z.cnt = w.cnt
        /\ z.ovf = w.ovf /\ z.govf = w.govf /\ z.filter = w.filter /\ z.cfg = w.cfg
    BY <1>3, <2>1, InitUnset DEF UnitOk
  <2>3. On(z) = On(w) /\ Others(y, z, t, g)
    BY <2>2 DEF On, Others, Keeps
  <2> QED BY <1>1, <1>3, <2>2, <2>3 DEF StopDone, Keeps
<1> QED BY <1>2, <1>3

\* Thread t clears the control registers at L and the filter registers become f.
Clears(y, z, t, g, L, f) ==
    /\ z \in Machines /\ Others(y, z, t, g)
    /\ \A l \in Locs : z.ctl[l] = IF l \in L THEN Off ELSE y.ctl[l]
    /\ z.filter = f

\* Finalize clears control registers first.
LEMMA ClearsFirst ==
  ASSUME UnitOk, NEW y \in Machines, NEW t, NEW g, NEW L, Programmable(L)
  PROVE  Clears(y, Deselect(y, L), t, g, L, y.filter)
  BY DeselectIs DEF Clears, Others

\* What it does then, to enable bits, counters, status and records, brings no selection back.
LEMMA ClearsThen ==
  ASSUME UnitOk, NEW y \in Machines, NEW w, NEW t \in Threads, NEW g \in Groups, NEW L, NEW f, Clears(y, w, t, g, L, f),
         NEW K, NEW cs
  PROVE  /\ Clears(y, Freeze(w, K), t, g, L, f)
         /\ Clears(y, Zero(w, K), t, g, L, f)
         /\ Clears(y, ClearStatus(w, K), t, g, L, f)
         /\ Clears(y, Unmarked(w, t, g, cs), t, g, L, f)
         /\ Clears(y, GlobalCtrlIf(w, t, EventSet(g), {}), t, g, L, f)
         /\ Clears(y, GlobalCtrl(w, t, {}), t, g, L, f)
         /\ Clears(y, IF HaveLock(t) /\ UsesPackage(EventSet(g)) THEN Freeze(w, PackageLocs(w)) ELSE w, t, g, L, f)
<1>1. w \in Machines
  BY DEF Clears
<1>2. ASSUME NEW P PROVE Clears(y, Freeze(w, P), t, g, L, f)
  BY <1>1, FreezeIs DEF Clears, Others
<1>3. Clears(y, Zero(w, K), t, g, L, f)
  BY <1>1, ZeroIs DEF Clears, Others
<1>4. Clears(y, ClearStatus(w, K), t, g, L, f)
  BY <1>1, ClearStatusIs DEF Clears, Others
<1>5. Clears(y, Unmarked(w, t, g, cs), t, g, L, f)
  BY <1>1, InitUnset DEF Clears, Others, UnitOk
<1>6. Clears(y, GlobalCtrlIf(w, t, EventSet(g), {}), t, g, L, f)
  BY <1>1, CoreOff DEF Clears, Others
<1>7. Clears(y, GlobalCtrl(w, t, {}), t, g, L, f)
  BY <1>1, GlobalCtrlIs DEF Clears, Others
<1> QED BY <1>2, <1>3, <1>4, <1>5, <1>6, <1>7

\* what finalize clears
LEMMA ClearsHeld ==
  ASSUME UnitOk, NEW y \in Machines, NEW t \in Threads, NEW g \in Groups, NEW cs \in SUBSET AllCounters
  PROVE  LET L == LocsOf(t, CoreOf(cs) \cup Boxes(t, cs)) IN
         /\ Programmable(L) /\ Programmable(L \cup FixedLocs(y, t, cs))
         /\ L = LocsOf(t, cs \cap Owned(t)) /\ (cs = AllCounters => L = Held(t))
<1>1. CoreOf(cs) \cup Boxes(t, cs) = cs \cap Owned(t) /\ (cs = AllCounters => cs \cap Owned(t) = Owned(t))
  BY OwnedIs
<1>2. LocsOf(t, cs \cap Owned(t)) \subseteq Programmed /\ FixedLocs(y, t, cs) \subseteq Programmed
  BY HeldIs, PackageIs DEF CoreHeld
<1> QED BY <1>1, <1>2 DEF Held, Programmable, Programmed

\* Finalize is done when the registers of the initialised counters are cleared,
LEMMA FinalizeEnds ==
  ASSUME UnitOk, NEW y \in Machines, NEW z, NEW t \in Threads, NEW g \in Groups, NEW L, NEW f, Clears(y, z, t, g, L, f),
         unit \notin KeepsSelection => \A c \in Owned(t) : (ByInit => c \in Inits(y, g, t)) => Loc(t, c) \in L,
         f = y.filter \/ f = NoFilters, HaveLock(t) /\ unit \in FilterCleared => f[Box] = {}
  PROVE  FinalizeDone(y, z, t, g)
<1>1. \A c \in Owned(t) : Loc(t, c) \in Locs
  BY LocIs DEF Owned, Mine, CoreOf, OfTypes
<1>2. \A l \in Locs : z.ctl[l] \in {y.ctl[l], Off}
  BY DEF Clears
<1>3. unit \notin KeepsSelection =>
        \A c \in Owned(t) : (ByInit => c \in Inits(y, g, t)) => z.ctl[Loc(t, c)] = Off
  BY <1>1 DEF Clears
<1> QED BY <1>2, <1>3 DEF FinalizeDone, Clears

\* or those of all counters of the thread.
LEMMA FinalizesAll ==
  ASSUME UnitOk, NEW y \in Machines, NEW z, NEW t \in Threads, NEW g \in Groups, NEW L, NEW f, Clears(y, z, t, g, L, f),
         Held(t) \subseteq L,
         f = y.filter \/ f = NoFilters, HaveLock(t) /\ unit \in FilterCleared => f[Box] = {}
  PROVE  FinalizeDone(y, z, t, g)
  BY FinalizeEnds, OwnedIs

-----------------------------------------------------------------------------
(* One counter of a core, of a free running unit, of a box. *)

\* What setup does to one counter, by its kind: a core counter,
LEMMA CoreStep ==
  ASSUME UnitOk, NEW y \in Machines, NEW t \in Threads, NEW g \in Groups, NEW c \in AllCounters, NEW z, IsCore,
         Type(c) = "PMC" => z = Configure(y, t, c, Event(g, c)), Type(c) # "PMC" => z = y
  PROVE  SetsUp(y, z, t, g, {c} \ {fx})
<1>1. unit \notin Direct /\ unit \notin FilterSet
  BY DEF IsCore, CoreUnits, Direct, FilterSet, Of, Box
<1>2. c \in Owned(t) /\ (c = fx <=> Type(c) # "PMC")
  BY CoreUnit, OwnedIs DEF UnitOk, fx
<1>3. CASE c = fx
  BY <1>2, <1>3, SetsUpFrame
<1>4. CASE c # fx
  <2>1. z = Configure(y, t, c, Event(g, c)) /\ {c} \ {fx} = {c}
    BY <1>2, <1>4
  <2> QED BY <1>1, <1>2, <2>1, ConfigureSets
<1> QED BY <1>3, <1>4

\* a free running one,
LEMMA FreeStep ==
  ASSUME UnitOk, NEW y \in Machines, NEW t \in Threads, NEW g \in Groups, NEW c \in AllCounters, IsFree
  PROVE  SetsUp(y, y, t, g, {c} \ {fx}) /\ Type(c) \in FreeTypes /\ Type(c) \notin {"PMC", "FIXED"}
<1>1. Type(c) \in FreeTypes /\ c \notin Owned(t) /\ {c} \ {fx} = {c}
  BY FreeUnit, OwnedIs, KindIs DEF UnitOk, fx, Type, FreeTypes
<1>2. unit \notin FilterSet
  BY DEF IsFree, FreeTypes, FilterSet, Of, Box
<1> QED BY <1>1, <1>2, SkipSets DEF FreeTypes

\* and one of a box.
LEMMA BoxStep ==
  ASSUME UnitOk, NEW c \in AllCounters, IsBox
  PROVE  Type(c) = Box /\ {c} \ {fx} = {c} /\ Box \notin {"PMC", "FIXED", "CORE", "SWAPPED", "POWER", "WBOX0FIX"}
<1> QED BY BoxUnit, KindIs DEF UnitOk, fx, Type, IsBox, IsCore, IsFree, CoreUnits, FreeTypes

\* A unit of the core programs no package register.
LEMMA CoreHasNoBox ==
  ASSUME UnitOk, NEW t \in Threads
  PROVE  /\ IsCore => BoxHeld(t) = {} /\ CoreHeld(t) = Held(t) /\ FreeOf(AllCounters) = {}
         /\ ~IsCore => CoreHeld(t) = {} /\ CoreOf(AllCounters) = {}
         /\ ~IsBox => BoxHeld(t) = {} /\ UncoreOf(AllCounters) = {}
         /\ IsFree => Held(t) = {} /\ Programmed = {}
BY HeldIs, OwnedIs, KindIs, AllHeld, FreeUnit DEF LocsOf, UnitOk, BoxHeld, CoreHeld

\* Some filter registers are cleared besides.
ClearsToo(y, z, t, g, L, f) ==
    /\ Clears(y, z, t, g, L, f)
    /\ f = y.filter \/ f = NoFilters
    /\ HaveLock(t) /\ unit \in FilterCleared => f[Box] = {}

\* It may clear filter registers.
LEMMA ClearsFilter ==
  ASSUME UnitOk, NEW y \in Machines, NEW w, NEW t \in Threads, NEW g \in Groups, NEW L, Clears(y, w, t, g, L, y.filter),
         NEW T, HaveLock(t) /\ unit \in FilterCleared => Box \in T, NEW f, f = Put(w.filter, T, {}),
         NEW z, z = [w EXCEPT !.filter = f]
  PROVE  ClearsToo(y, z, t, g, L, f)
<1>1. w \in Machines /\ w.filter = y.filter /\ w.filter \in [{Box} -> Filters]
  BY Fields DEF Clears
<1>2. f \in [{Box} -> Filters] /\ f = [b \in {Box} |-> IF Box \in T THEN {} ELSE y.filter[Box]]
  BY <1>1 DEF Put, Filters
<1>3. y.filter = [b \in {Box} |-> y.filter[Box]]
  BY <1>1
<1>4. Clears(y, z, t, g, L, f)
  BY <1>1, <1>2 DEF Clears, Machines, Others
<1> QED BY <1>2, <1>3, <1>4 DEF NoFilters, ClearsToo

\* A type of box is among those of the counters in use.
LEMMA BoxOfTypes ==
  ASSUME UnitOk, NEW t \in Threads, IsBox, HaveLock(t), NEW R, Box \in R
  PROVE  Box \in {Type(d) : d \in OfTypes(Boxes(t, AllCounters), R)}
<1>1. PICK d \in AllCounters : TRUE
  BY KindIs
<1>2. Type(d) = Box /\ d \in OfTypes(Boxes(t, AllCounters), R)
  BY <1>1, BoxUnit, OwnedIs DEF HaveLock, OfTypes, UnitOk
<1> QED BY <1>2

\* Processors whose core has no fixed counter.
LEMMA NoFixed ==
  ASSUME UnitOk, Cpu \in WithoutFixed \/ ~IsCore
  PROVE  AllCounters \ {fx} = AllCounters
BY KindIs, BoxUnit, FreeUnit DEF UnitOk, AllCounters, IsCore, fx, CoreTypes, Type

\* A stop that also clears control registers.
LEMMA StopEndsOff ==
  ASSUME UnitOk, NEW y \in Machines, NEW b, NEW d, NEW w, NEW z, NEW t \in Threads, NEW g \in Groups, NEW cs,
         Keeps(y, b, t, g), NEW L, Programmable(L), d = Deselect(b, L) \/ (L = {} /\ d = b), Stores(d, w, t, g),
         unit \in Deselected \cup Direct \/ L = {}, On(b) \subseteq On(y),
         ByInit /\ unit \notin KeepsSelection => Held(t) \subseteq L \/ (z = w /\ Inits(y, g, t) = AllCounters),
         unit \notin NotFrozen => \A l \in Held(t) : l \notin On(b) \/ l \in L,
         z = w \/ z = Unmarked(w, t, g, cs)
  PROVE  StopDone(y, z, t, g)
<1>1. b \in Machines
  BY DEF Keeps
<1>2. /\ d \in Machines /\ \A l \in Locs : d.ctl[l] = IF l \in L THEN Off ELSE y.ctl[l]
      /\ Others(y, d, t, g) /\ d.cfg = y.cfg /\ d.filter = y.filter /\ On(d) = On(b)
  BY <1>1, DeselectIs DEF Keeps, Others, On
<1>3. /\ w \in Machines /\ \A l \in Locs : w.ctl[l] = IF l \in L THEN Off ELSE y.ctl[l]
      /\ Others(y, w, t, g) /\ w.cfg = y.cfg /\ w.filter = y.filter /\ On(w) = On(b)
  BY <1>2 DEF Stores, Others, On
<1>4. /\ z \in Machines /\ \A l \in Locs : z.ctl[l] = IF l \in L THEN Off ELSE y.ctl[l]
      /\ Others(y, z, t, g) /\ z.cfg = y.cfg /\ z.filter = y.filter /\ On(z) = On(b)
  <2>1. CASE z = w
    BY <1>3, <2>1
  <2>2. CASE z = Unmarked(w, t, g, cs)
    <3>1. /\ z \in Machines /\ Others(w, z, t, g)
          /\ z.ctl = w.ctl /\ z.cfg = w.cfg /\ z.filter = w.filter /\ z.on = w.on
      BY <1>3, <2>2, InitUnset DEF UnitOk
    <3> QED BY <1>3, <3>1 DEF Others, On
  <2> QED BY <2>1, <2>2
<1>5. \A c \in Owned(t) : Loc(t, c) \in Held(t) /\ Loc(t, c) \in Locs /\ c \in AllCounters
  BY OwnedIs, HeldIs DEF Programmed
<1>6. Inits(w, g, t) = Inits(y, g, t)
  <2>1. Inits(d, g, t) = Inits(b, g, t)
    BY <1>1, DeselectIs DEF Inits
  <2> QED BY <2>1 DEF Stores, Keeps
<1> QED BY <1>4, <1>5, <1>6, HeldIs DEF StopDone, Programmed

\* The registers of a thread's counters are cleared, after some steps that keep the selections.
LEMMA ClearsFrom ==
  ASSUME UnitOk, NEW y \in Machines, NEW w, NEW t \in Threads, NEW g \in Groups, NEW L, Keeps(y, w, t, g), Programmable(L)
  PROVE  Clears(y, Deselect(w, L), t, g, L, y.filter)
<1>1. w \in Machines
  BY DEF Keeps
<1>2. LET z == Deselect(w, L) IN
      /\ z \in Machines /\ \A l \in Locs : z.ctl[l] = IF l \in L THEN Off ELSE w.ctl[l]
      /\ z.shl = w.shl /\ z.on = w.on /\ z.cnt = w.cnt /\ z.ovf = w.ovf
      /\ z.govf = w.govf /\ z.filter = w.filter /\ z.cfg = w.cfg /\ z.tc = w.tc
  BY <1>1, DeselectIs
<1> QED BY <1>2 DEF Clears, Keeps, Others

\* A counter whose control register also enables it.
LEMMA DisabledSets ==
  ASSUME UnitOk, NEW y \in Machines, NEW t \in Threads, NEW g \in Groups, NEW c \in Owned(t), unit \notin Direct,
         unit \notin FilterSet
  PROVE  SetsUp(y, ConfigureDisabled(y, t, c, Event(g, c)), t, g, {c})
<1>1. SetsUp(y, Configure(y, t, c, Event(g, c)), t, g, {c})
  BY ConfigureSets
<1>2. {c} \in SUBSET AllCounters
  BY DEF Owned, Mine, CoreOf, OfTypes
<1>3. SetsUp(y, Freeze(Configure(y, t, c, Event(g, c)), {Loc(t, c)}), t, g, {c})
  BY <1>1, <1>2, SetsUpThen
<1>4. y.cfg[t][c] = Event(g, c) => Configure(y, t, c, Event(g, c)) = y
  BY DEF Configure
<1> QED BY <1>1, <1>3, <1>4 DEF ConfigureDisabled

-----------------------------------------------------------------------------
(* perfmon_haswell.h. *)

\* What is said of the units of haswell.
LEMMA HaswellUnits ==
  ASSUME UnitOk, Family = "haswell"
  PROVE  /\ Cpu \in {"haswellEP", "haswell"} /\ (EP <=> Cpu = "haswellEP")
         /\ IsBox => Box \in {"MBOX", "MBOXFIX", "CBOX", "UBOX", "UBOXFIX", "BBOX", "WBOX", "PBOX", "SBOX", "RBOX", "QBOX", "IBOX"}
         /\ IsBox /\ ~EP => Box \in {"CBOX", "UBOX", "UBOXFIX"}
         /\ unit \in Direct <=> Box \in {"UBOXFIX", "MBOXFIX"}
         /\ unit \in FilterSet <=> EP /\ Box \in {"BBOX", "WBOX"}
         /\ unit \in NeverFiltered <=> EP /\ Box = "QBOX"
         /\ unit \in FilterCleared <=> EP /\ Box \in {"CBOX", "WBOX"}
         /\ ~LateUnit /\ ~ByInit /\ unit \notin Halted /\ unit \notin Deselected /\ unit \notin KeepsSelection
         /\ IsBox /\ ~EP => unit \in NotFrozen
<1>1. Cpu \in {"haswellEP", "haswell"} /\ (EP <=> Cpu = "haswellEP") /\ ~ByInit
  BY DEF UnitOk, Family, AllUnits, Of, Cpu, EP, ByInit
<1>2. unit = <<Cpu, Box>> /\ Box \in EPBoxes \cup ClientBoxes \cup {"CORE", "SBOX", "RBOX", "QBOX", "IBOX"}
      /\ (~EP => Box \in ClientBoxes)
  BY <1>1 DEF UnitOk, AllUnits, Of, Cpu, Box
<1>3. ~LateUnit /\ unit \notin Halted /\ unit \notin Deselected /\ unit \notin KeepsSelection
  BY <1>1, <1>2 DEF Of, LateUnit, Halted, Deselected, KeepsSelection
<1>4. /\ unit \in Direct <=> Box \in {"UBOXFIX", "MBOXFIX"}
      /\ unit \in FilterSet <=> EP /\ Box \in {"BBOX", "WBOX"}
      /\ unit \in NeverFiltered <=> EP /\ Box = "QBOX"
      /\ unit \in FilterCleared <=> EP /\ Box \in {"CBOX", "WBOX"}
  BY <1>1, <1>2 DEF Of, EPBoxes, ClientBoxes, Direct, FilterSet, NeverFiltered, FilterCleared
<1>5. IsBox => Box \in {"MBOX", "MBOXFIX", "CBOX", "UBOX", "UBOXFIX", "BBOX", "WBOX", "PBOX", "SBOX", "RBOX", "QBOX", "IBOX"}
      /\ (~EP => Box \in {"CBOX", "UBOX", "UBOXFIX"} /\ unit \in NotFrozen)
  BY <1>1, <1>2 DEF Of, EPBoxes, ClientBoxes, NotFrozen, IsBox, IsCore, IsFree, CoreUnits, FreeTypes
<1> QED BY <1>1, <1>3, <1>4, <1>5

\* perfmon_setupCounterThread_haswell sets up one counter.
LEMMA HaswellStep ==
  ASSUME UnitOk, Family = "haswell", NEW t \in Threads, NEW g \in Groups, NEW c \in AllCounters, NEW y \in Machines
  PROVE  SetsUp(y, hasep_box_setup(y, t, c, EventSet(g).ev[c], EP), t, g, {c} \ {fx})
<1> DEFINE e == EventSet(g).ev[c]
           z == hasep_box_setup(y, t, c, e, EP)
<1>1. e.flags = Event(g, c) /\ (IsBox => e.filter = filters[g])
  BY EventIs
<1>u. /\ unit \in Direct <=> Box \in {"UBOXFIX", "MBOXFIX"}
      /\ unit \in FilterSet <=> EP /\ Box \in {"BBOX", "WBOX"}
      /\ unit \in NeverFiltered <=> EP /\ Box = "QBOX"
      /\ ~EP => Box \notin {"BBOX", "WBOX"} \/ ~IsBox
  BY HaswellUnits
<1> SUFFICES SetsUp(y, z, t, g, {c} \ {fx})
  OBVIOUS
<1> HIDE DEF e, z
<1>2. CASE IsCore
  <2>1. unit \notin Direct /\ unit \notin FilterSet /\ c \in Owned(t) /\ (c = fx <=> Type(c) # "PMC") /\ (c = fx => Type(c) = "FIXED")
    BY <1>2, <1>u, CoreUnit, OwnedIs DEF UnitOk, IsCore, CoreUnits, fx
  <2>2. CASE c = fx
    <3>1. z = y
      BY <2>1, <2>2 DEF z, hasep_box_setup
    <3> QED BY <2>2, <3>1, SetsUpFrame
  <2>3. CASE c # fx
    <3>1. z = Configure(y, t, c, Event(g, c))
      BY <1>1, <2>1, <2>3 DEF z, hasep_box_setup, hasep_pmc_setup
    <3>2. {c} \ {fx} = {c}
      BY <2>3
    <3> QED BY <2>1, <3>1, <3>2, ConfigureSets
  <2> QED BY <2>2, <2>3
<1>3. CASE IsBox
  <2>1. Type(c) = Box /\ {c} \ {fx} = {c}
    BY <1>3, BoxUnit, KindIs DEF UnitOk, fx, Type
  <2>2. CASE Box \in {"UBOX", "SBOX", "MBOX", "PBOX", "RBOX", "QBOX", "IBOX"} \/ (Box = "CBOX" /\ ~EP)
    <3>1. z = ConfigureBox(y, t, c, Event(g, c))
      BY <1>1, <2>1, <2>2 DEF z, hasep_box_setup, has_cbox_setup, hasep_ubox_setup, hasep_sbox_setup, hasep_mbox_setup,
           hasep_pbox_setup, hasep_rbox_setup, hasep_qbox_setup, hasep_ibox_setup
    <3> QED BY <1>u, <1>3, <2>1, <2>2, <3>1, BoxSets
  <2>3. CASE Box = "CBOX" /\ EP
    <3>1. z = IF HaveLock(t) THEN Configure([y EXCEPT !.filter["CBOX"] = y.filter["CBOX"] \cup e.filter], t, c, e.flags) ELSE y
      BY <2>1, <2>3 DEF z, hasep_box_setup, hasep_cbox_setup
    <3>2. z = IF HaveLock(t) THEN Configure(SetFilter(y, c, y.filter[Box] \cup filters[g]), t, c, Event(g, c)) ELSE y
      BY <1>1, <1>3, <2>1, <2>3, <3>1 DEF SetFilter
    <3>3. PICK f : f = y.filter[Box] \cup filters[g]
      OBVIOUS
    <3>4. SetsUp(y, IF HaveLock(t) THEN Configure(SetFilter(y, c, f), t, c, Event(g, c)) ELSE y, t, g, {c})
      BY <1>u, <1>3, <2>3, <3>3, AlwaysSets
    <3> QED BY <2>1, <3>2, <3>3, <3>4
  <2>4. CASE Box \in {"BBOX", "WBOX"}
    <3>1. z = IF HaveLock(t) THEN Configure(SetFilter(y, c, filters[g]), t, c, Event(g, c)) ELSE y
      BY <1>1, <1>3, <2>1, <2>4 DEF z, hasep_box_setup, hasep_wbox_setup, hasep_bbox_setup
    <3> QED BY <1>u, <1>3, <2>1, <2>4, <3>1, AlwaysSets
  <2>5. CASE Box \in {"UBOXFIX", "MBOXFIX"}
    <3>1. z = IF HaveLock(t) THEN [y EXCEPT !.ctl[Loc(t, c)] = Event(g, c)] ELSE y
      BY <1>1, <2>1, <2>5 DEF z, hasep_box_setup
    <3> QED BY <1>u, <1>3, <2>1, <2>5, <3>1, LockWriteSets
  <2> QED BY <1>3, <2>2, <2>3, <2>4, <2>5, HaswellUnits
<1>4. CASE IsFree
  <2>1. Type(c) \in FreeTypes /\ c \notin Owned(t) /\ {c} \ {fx} = {c} /\ unit \notin FilterSet
    BY <1>4, <1>u, FreeUnit, OwnedIs, KindIs DEF UnitOk, fx, Type, FreeTypes, IsFree
  <2>2. z = y
    BY <2>1 DEF z, hasep_box_setup, FreeTypes
  <2> QED BY <2>1, <2>2, SkipSets
<1> QED BY <1>2, <1>3, <1>4, KindIs

\* perfmon_setupCounterThread_haswell keeps the contract of setup.
LEMMA HaswellSetup ==
  ASSUME UnitOk, Family = "haswell", NEW t \in Threads, NEW g \in Groups, NEW y \in Machines
  PROVE  SetupDone(y, perfmon_setupCounterThread_haswell(y, t, EventSet(g), EP), t, g)
<1> DEFINE es == EventSet(g)
           core == IF CoreOf(CountersOf(es)) = {} THEN y
                   ELSE ClearStatus(GlobalCtrl(y, t, {}), {l \in y.ovf : l[1] = t})
           frozen == HASEP_FREEZE_UNCORE(core, t, es, EP)
           st(c, w) == hasep_box_setup(w, t, c, es.ev[c], EP)
           pick(s) == CHOOSE x \in s : TRUE
           G == [s \in SUBSET AllCounters |->
                   IF s = {} THEN frozen
                   ELSE IF s \ {pick(s)} = {} THEN st(pick(s), frozen)
                   ELSE st(pick(s), st(pick(s \ {pick(s)}), frozen))]
           Eqn(h) == h = [s \in SUBSET AllCounters |-> IF s = {} THEN frozen ELSE st(pick(s), h[s \ {pick(s)}])]
           iter == CHOOSE h : Eqn(h)
           w == FoldSet(LAMBDA c, x : hasep_box_setup(x, t, c, es.ev[c], EP), frozen, AllCounters)
<1>0. CountersOf(es) = AllCounters
  BY EventSetIs DEF UnitOk
<1>1. SetsUp(y, core, t, g, {})
  <2>1. SetsUp(y, GlobalCtrl(y, t, {}), t, g, {})
    BY GlobalCtrlIs, SetsUpFrame
  <2> QED BY <2>1, SetsUpThen, SetsUpFrame
<1> HIDE DEF core
<1>2. SetsUp(y, frozen, t, g, {})
  BY <1>1, SetsUpThen DEF HASEP_FREEZE_UNCORE
<1>3. frozen \in Machines
  BY <1>2 DEF SetsUp
<1>4. perfmon_setupCounterThread_haswell(y, t, es, EP) = Marked(ConfigureFixed(w, t, es), t, g, AllCounters)
  BY <1>0 DEF perfmon_setupCounterThread_haswell, hasep_fixed_setup, Marked, core
<1> HIDE DEF frozen
<1>5. \A s \in SUBSET AllCounters : s # {} => pick(s) \in s /\ s \ {pick(s)} \in SUBSET AllCounters
  OBVIOUS
<1>6. ASSUME NEW s \in SUBSET AllCounters, s # {}, NEW p \in s, s \ {p} # {}, NEW q \in s \ {p} PROVE (s \ {p}) \ {q} = {}
  BY <1>6, KindIs
<1>7. Eqn(G)
  <2> HIDE DEF st, pick
  <2>1. ASSUME NEW s \in SUBSET AllCounters, s # {} PROVE G[s] = st(pick(s), G[s \ {pick(s)}])
    <3>1. pick(s) \in s /\ s \ {pick(s)} \in SUBSET AllCounters
      BY <1>5, <2>1
    <3>2. CASE s \ {pick(s)} = {}
      BY <2>1, <3>2
    <3>3. CASE s \ {pick(s)} # {}
      <4>1. (s \ {pick(s)}) \ {pick(s \ {pick(s)})} = {}
        BY <1>5, <1>6, <2>1, <3>1, <3>3
      <4>2. G[s \ {pick(s)}] = st(pick(s \ {pick(s)}), frozen)
        BY <3>1, <3>3, <4>1
      <4> QED BY <2>1, <3>3, <4>2
    <3> QED BY <3>2, <3>3
  <2> QED BY <2>1
<1>8. Eqn(iter)
  <2> HIDE DEF G, Eqn
  <2> QED BY <1>7, Zenon
<1>9. w = iter[AllCounters]
  <2> HIDE DEF es
  <2> QED BY DEF FoldSet, MapThenFoldSet
<1>10. ASSUME NEW c \in AllCounters, NEW x \in Machines PROVE SetsUp(x, st(c, x), t, g, {c} \ {fx})
  BY HaswellStep
<1> HIDE DEF st, pick, iter, w
<1>11. SetsUp(frozen, iter[AllCounters], t, g, AllCounters \ {fx})
  <2>1. iter[{}] = frozen
    BY <1>8
  <2>2. ASSUME NEW s \in SUBSET AllCounters, s # {}
        PROVE  \E c \in s : iter[s \ {c}] \in Machines => SetsUp(iter[s \ {c}], iter[s], t, g, {c} \ {fx})
    <3>1. pick(s) \in s /\ pick(s) \in AllCounters /\ iter[s] = st(pick(s), iter[s \ {pick(s)}])
      BY <1>5, <1>8, <2>2
    <3> QED BY <1>10, <3>1
  <2> QED BY <1>3, <2>1, <2>2, FoldSetsUp
<1>12. SetsUp(y, w, t, g, {} \cup (AllCounters \ {fx}))
  BY <1>2, <1>9, <1>11, SetsUpBoth
<1>13. SetupDone(y, Marked(ConfigureFixed(w, t, es), t, g, AllCounters), t, g)
  BY <1>12, SetupEnds
<1> QED BY <1>4, <1>13

\* perfmon_startCountersThread_haswell keeps the contract of start.
LEMMA HaswellStart ==
  ASSUME UnitOk, Family = "haswell", NEW t \in Threads, NEW g \in Groups, NEW y \in Machines, Inits(y, g, t) = AllCounters
  PROVE  StartDone(y, perfmon_startCountersThread_haswell(y, t, EventSet(g)), t, g)
<1> DEFINE es == EventSet(g)
           a == BeginData(y, t, es, AllCounters)
           b == Zero(a, LocsOf(t, CoreOf(AllCounters)))
           c == Zero(b, LocsOf(t, Boxes(t, AllCounters)))
           d == IF HaveLock(t) /\ UsesPackage(es) THEN Unfreeze(c, PackageLocs(c)) ELSE c
           z == IF CoreOf(AllCounters) = {} THEN d
                ELSE GlobalCtrl(ClearStatus(d, LocsOf(t, CoreOf(AllCounters))), t, CoreOf(AllCounters))
<1>1. InitOf(y, t, es) = AllCounters /\ CountersOf(es) = AllCounters
  BY InitOfIs
<1>2. z = perfmon_startCountersThread_haswell(y, t, es)
  BY <1>1 DEF perfmon_startCountersThread_haswell, HASEP_UNFREEZE_UNCORE_AND_RESET_CTR, HASEP_UNFREEZE_UNCORE
<1>3. Keeps(y, a, t, g) /\ On(a) = On(y)
  BY BeginNotes, KeepsNothing, KeepsReads
<1> HIDE DEF a
<1>4. Keeps(y, b, t, g) /\ On(b) = On(y)
  BY <1>3, Noting, KeepsStores DEF Keeps
<1> HIDE DEF b
<1>5. Keeps(y, c, t, g) /\ On(c) = On(y)
  BY <1>4, Noting, KeepsStores DEF Keeps
<1> HIDE DEF c
<1>6. Keeps(y, d, t, g) /\ On(d) = On(y) \cup BoxHeld(t)
  BY <1>5, KeepsPackageOn
<1> HIDE DEF d
<1>7. Keeps(y, z, t, g) /\ On(z) = On(d) \cup CoreHeld(t)
  <2>1. PICK L : L = LocsOf(t, CoreOf(AllCounters))
    OBVIOUS
  <2>2. z = IF CoreOf(AllCounters) = {} THEN d ELSE GlobalCtrl(ClearStatus(d, L), t, CoreOf(AllCounters))
    BY <2>1
  <2> HIDE DEF z
  <2> QED BY <1>6, <2>2, KeepsCoreStart
<1> HIDE DEF z
<1>8. StartDone(y, z, t, g)
  BY <1>6, <1>7, StartEnds, HaswellUnits
<1> QED BY <1>2, <1>8

\* One counter of a box is read.
LEMMA HaswellBox ==
  ASSUME UnitOk, Family = "haswell", NEW t \in Threads, NEW g \in Groups, NEW y \in Machines, NEW c, NEW clear
  PROVE  LET z == has_uncore_read(y, t, EventSet(g), c, clear, EP)
         IN Stores(y, z, t, g) /\ (~clear => Reads(y, z, t, g))
<1> DEFINE es == EventSet(g)
           r == IF ~EP /\ Wrapped(y, t, es, c) THEN y
                ELSE SampleBox(y, t, es, c, Type(c) \notin LocalOnly, Type(c) \notin {"MBOXFIX", "IBOX"})
           z == has_uncore_read(y, t, es, c, clear, EP)
<1>1. z = IF ~HaveLock(t) THEN y ELSE IF clear THEN Zero(r, {Loc(t, c)}) ELSE r
  BY DEF has_uncore_read
<1>2. Reads(y, r, t, g)
  BY SamplingBox, StoresNothing
<1> HIDE DEF r, z
<1>3. Stores(r, Zero(r, {Loc(t, c)}), t, g)
  BY <1>2, Noting DEF Reads, Stores
<1>4. Stores(y, z, t, g) /\ (~clear => Reads(y, z, t, g))
  BY <1>1, <1>2, <1>3, StoresNothing, StoresBoth DEF Reads
<1> QED BY <1>4 DEF z

\* HASEP_READ only changes records, and clears counters where asked.
LEMMA HaswellReads ==
  ASSUME UnitOk, Family = "haswell", NEW t \in Threads, NEW g \in Groups, NEW y \in Machines, NEW clear
  PROVE  LET z == HASEP_READ(y, t, EventSet(g), AllCounters, clear, EP)
         IN Stores(y, z, t, g) /\ (~clear => Reads(y, z, t, g))
<1> DEFINE es == EventSet(g)
           v == SampleStatus(y, t, es, CoreOf(AllCounters))
           base == SampleFree(v, t, es, AllCounters)
           S == UncoreOf(AllCounters)
           st(c, w) == has_uncore_read(w, t, es, c, clear, EP)
           pick(s) == CHOOSE x \in s : TRUE
           G == [s \in SUBSET S |->
                   IF s = {} THEN base
                   ELSE IF s \ {pick(s)} = {} THEN st(pick(s), base)
                   ELSE st(pick(s), st(pick(s \ {pick(s)}), base))]
           Eqn(h) == h = [s \in SUBSET S |-> IF s = {} THEN base ELSE st(pick(s), h[s \ {pick(s)}])]
           iter == CHOOSE h : Eqn(h)
           w == FoldSet(LAMBDA c, x : has_uncore_read(x, t, es, c, clear, EP), base, S)
<1>1. S = IF IsBox THEN AllCounters ELSE {}
  BY OwnedIs
<1>2. Reads(y, v, t, g)
  BY Sampling
<1>4. HASEP_READ(y, t, es, AllCounters, clear, EP) = w
  BY DEF HASEP_READ
<1> HIDE DEF v
<1>3. Reads(y, base, t, g)
  <2>1. Reads(v, base, t, g)
    BY <1>2, Sampling DEF Reads, Stores
  <2> QED BY <1>2, <2>1, StoresBoth
<1> HIDE DEF base, S
<1>5. \A s \in SUBSET S : s # {} => pick(s) \in s /\ s \ {pick(s)} \in SUBSET S
  OBVIOUS
<1>6. ASSUME NEW s \in SUBSET S, s # {}, NEW p \in s, s \ {p} # {}, NEW q \in s \ {p} PROVE (s \ {p}) \ {q} = {}
  BY <1>1, <1>6, KindIs
<1>7. Eqn(G)
  <2> HIDE DEF st, pick
  <2>1. ASSUME NEW s \in SUBSET S, s # {} PROVE G[s] = st(pick(s), G[s \ {pick(s)}])
    <3>1. pick(s) \in s /\ s \ {pick(s)} \in SUBSET S
      BY <1>5, <2>1
    <3>2. CASE s \ {pick(s)} = {}
      BY <2>1, <3>2
    <3>3. CASE s \ {pick(s)} # {}
      <4>1. (s \ {pick(s)}) \ {pick(s \ {pick(s)})} = {}
        BY <1>5, <1>6, <2>1, <3>1, <3>3
      <4>2. G[s \ {pick(s)}] = st(pick(s \ {pick(s)}), base)
        BY <3>1, <3>3, <4>1
      <4> QED BY <2>1, <3>3, <4>2
    <3> QED BY <3>2, <3>3
  <2> QED BY <2>1
<1>8. Eqn(iter)
  <2> HIDE DEF G, Eqn
  <2> QED BY <1>7, Zenon
<1>9. w = iter[S]
  <2> HIDE DEF es
  <2> QED BY DEF FoldSet, MapThenFoldSet
<1>10. ASSUME NEW c, NEW x \in Machines PROVE Stores(x, st(c, x), t, g) /\ (~clear => Reads(x, st(c, x), t, g))
  BY HaswellBox
<1> HIDE DEF st, pick, iter, w
<1>11. Stores(y, iter[S], t, g) /\ (~clear => Reads(y, iter[S], t, g))
  <2>1. iter[{}] = base
    BY <1>8
  <2>2. ASSUME NEW s \in SUBSET S, s # {}
        PROVE  \E c \in s : iter[s \ {c}] \in Machines =>
                  Stores(iter[s \ {c}], iter[s], t, g) /\ (~clear => Reads(iter[s \ {c}], iter[s], t, g))
    <3>1. pick(s) \in s /\ iter[s] = st(pick(s), iter[s \ {pick(s)}])
      BY <1>5, <1>8, <2>2
    <3> QED BY <1>10, <3>1
  <2> QED BY <1>1, <1>3, <2>1, <2>2, FoldStores
<1> QED BY <1>4, <1>9, <1>11

\* The boxes of EP are frozen; the client's are not.
LEMMA HaswellFrozen ==
  ASSUME UnitOk, Family = "haswell", NEW t \in Threads, NEW g \in Groups, NEW y \in Machines
  PROVE  LET z == HASEP_FREEZE_UNCORE(GlobalCtrlIf(y, t, EventSet(g), {}), t, EventSet(g), EP) IN
         /\ Keeps(y, z, t, g) /\ z.cnt = y.cnt
         /\ On(z) = (On(y) \ CoreHeld(t)) \ BoxHeld(t) \/ (On(z) = On(y) \ CoreHeld(t) /\ unit \in NotFrozen)
<1> DEFINE a == GlobalCtrlIf(y, t, EventSet(g), {})
           b == IF HaveLock(t) /\ UsesPackage(EventSet(g)) THEN Freeze(a, PackageLocs(a)) ELSE a
           z == HASEP_FREEZE_UNCORE(a, t, EventSet(g), EP)
<1>0. Keeps(y, y, t, g)
  BY KeepsNothing
<1>1. Keeps(y, a, t, g) /\ a.cnt = y.cnt /\ On(a) = On(y) \ CoreHeld(t)
  BY <1>0, KeepsCoreOff
<1>2. EP => z = b
  BY DEF HASEP_FREEZE_UNCORE
<1>3. ~EP => z = a
  BY DEF HASEP_FREEZE_UNCORE
<1> HIDE DEF a, z
<1>4. Keeps(y, b, t, g) /\ b.cnt = a.cnt /\ On(b) = On(a) \ BoxHeld(t)
  BY <1>1, KeepsPackageOff
<1> HIDE DEF b
<1>5. ~EP => unit \in NotFrozen \/ BoxHeld(t) = {}
  BY HaswellUnits, HeldIs
<1>6. /\ Keeps(y, z, t, g) /\ z.cnt = y.cnt
      /\ On(z) = (On(y) \ CoreHeld(t)) \ BoxHeld(t) \/ (On(z) = On(y) \ CoreHeld(t) /\ unit \in NotFrozen)
  BY <1>1, <1>2, <1>3, <1>4, <1>5
<1> QED BY <1>6 DEF z, a

\* perfmon_stopCountersThread_haswell keeps the contract of stop.
LEMMA HaswellStop ==
  ASSUME UnitOk, Family = "haswell", NEW t \in Threads, NEW g \in Groups, NEW y \in Machines, Inits(y, g, t) = AllCounters
  PROVE  StopDone(y, perfmon_stopCountersThread_haswell(y, t, EventSet(g), EP), t, g)
<1> DEFINE es == EventSet(g)
           frozen == HASEP_FREEZE_UNCORE(GlobalCtrlIf(y, t, es, {}), t, es, EP)
           w == HASEP_READ(frozen, t, es, AllCounters, TRUE, EP)
           z == perfmon_stopCountersThread_haswell(y, t, es, EP)
<1>1. InitOf(y, t, es) = AllCounters /\ CountersOf(es) = AllCounters
  BY InitOfIs
<1>2. z = Unmarked(w, t, g, AllCounters)
  BY <1>1 DEF perfmon_stopCountersThread_haswell, Unmarked
<1>3. Keeps(y, frozen, t, g) /\ On(frozen) \subseteq On(y)
      /\ (unit \notin NotFrozen => On(frozen) \cap (CoreHeld(t) \cup BoxHeld(t)) = {})
  BY HaswellFrozen
<1> HIDE DEF frozen, z
<1>4. Stores(frozen, w, t, g)
  BY <1>3, HaswellReads DEF Keeps
<1> HIDE DEF w
<1>5. Keeps(y, w, t, g) /\ On(w) = On(frozen)
  BY <1>3, <1>4, KeepsStores
<1>6. StopDone(y, z, t, g)
  BY <1>2, <1>3, <1>5, StopEnds, HaswellUnits
<1> QED BY <1>6 DEF z

\* perfmon_readCountersThread_haswell keeps the contract of read.
LEMMA HaswellRead ==
  ASSUME UnitOk, Family = "haswell", NEW t \in Threads, NEW g \in Groups, NEW y \in Machines, Inits(y, g, t) = AllCounters,
         Programmed \subseteq On(y)
  PROVE  ReadDone(y, perfmon_readCountersThread_haswell(y, t, EventSet(g), EP), t, g)
<1> DEFINE es == EventSet(g)
           frozen == HASEP_FREEZE_UNCORE(GlobalCtrlIf(y, t, es, {}), t, es, EP)
           r == HASEP_READ(frozen, t, es, AllCounters, FALSE, EP)
           d == IF HaveLock(t) /\ UsesPackage(es) THEN Unfreeze(r, PackageLocs(r)) ELSE r
           E == {c \in CoreOf(AllCounters) : y.on[Loc(t, c)]}
           z == GlobalCtrlIf(d, t, es, E)
<1>1. InitOf(y, t, es) = AllCounters /\ CountersOf(es) = AllCounters
  BY InitOfIs
<1>2. z = perfmon_readCountersThread_haswell(y, t, es, EP)
  BY <1>1 DEF perfmon_readCountersThread_haswell, HASEP_UNFREEZE_UNCORE
<1>3. Keeps(y, frozen, t, g) /\ frozen.cnt = y.cnt
      /\ On(frozen) \cup CoreHeld(t) \cup BoxHeld(t) = On(y) \cup CoreHeld(t) \cup BoxHeld(t)
  BY HaswellFrozen
<1> HIDE DEF frozen
<1>4. Reads(frozen, r, t, g)
  <2>1. PICK no : no = FALSE
    OBVIOUS
  <2>2. Reads(frozen, HASEP_READ(frozen, t, es, AllCounters, no, EP), t, g)
    BY <1>3, <2>1, HaswellReads DEF Keeps
  <2> QED BY <2>1, <2>2
<1> HIDE DEF r
<1>5. Keeps(y, r, t, g) /\ On(r) = On(frozen) /\ r.cnt = y.cnt
  BY <1>3, <1>4, KeepsReads
<1>6. Keeps(y, d, t, g) /\ On(d) = On(r) \cup BoxHeld(t) /\ d.cnt = y.cnt
  BY <1>5, KeepsPackageOn
<1>e. E = RunningCore(y, t)
  BY DEF RunningCore
<1> HIDE DEF d, E
<1>7. Keeps(y, z, t, g) /\ On(z) = (On(d) \ CoreHeld(t)) \cup (On(y) \cap CoreHeld(t)) /\ z.cnt = y.cnt
  <2>1. z = GlobalCtrlIf(d, t, EventSet(g), E)
    OBVIOUS
  <2> HIDE DEF z, es
  <2>2. Keeps(y, GlobalCtrlIf(d, t, EventSet(g), E), t, g)
        /\ On(GlobalCtrlIf(d, t, EventSet(g), E)) = (On(d) \ CoreHeld(t)) \cup (On(y) \cap CoreHeld(t))
        /\ GlobalCtrlIf(d, t, EventSet(g), E).cnt = d.cnt
    BY <1>6, <1>e, KeepsCoreBack
  <2> QED BY <1>6, <2>1, <2>2
<1> HIDE DEF z
<1>8. CoreHeld(t) \subseteq On(y) /\ BoxHeld(t) \subseteq On(y)
  BY HeldIs
<1>9. On(z) = On(y)
  BY <1>3, <1>5, <1>6, <1>7, <1>8
<1>10. ReadDone(y, z, t, g)
  BY <1>7, <1>9, ReadEnds
<1> QED BY <1>2, <1>10

\* perfmon_finalizeCountersThread_haswell keeps the contract of finalize.
LEMMA HaswellFinalize ==
  ASSUME UnitOk, Family = "haswell", NEW t \in Threads, NEW g \in Groups, NEW y \in Machines
  PROVE  FinalizeDone(y, perfmon_finalizeCountersThread_haswell(y, t, EventSet(g)), t, g)
<1> DEFINE es == EventSet(g)
           L == LocsOf(t, CoreOf(AllCounters) \cup Boxes(t, AllCounters)) \cup FixedLocs(y, t, AllCounters)
           a == Deselect(y, L)
           f == Put(a.filter, {Type(c) : c \in OfTypes(Boxes(t, AllCounters), FilterRegisters)}, {})
           b == [a EXCEPT !.filter = f]
           c == GlobalCtrlIf(ClearStatus(b, LocsOf(t, CoreOf(AllCounters))), t, es, {})
           z == perfmon_finalizeCountersThread_haswell(y, t, es)
<1>1. CountersOf(es) = AllCounters
  BY InitOfIs
<1>2. z = Unmarked(c, t, g, AllCounters)
  BY <1>1 DEF perfmon_finalizeCountersThread_haswell, Unmarked
<1>3. Programmable(L) /\ Held(t) \subseteq L
  BY ClearsHeld
<1> HIDE DEF L
<1>4. Clears(y, a, t, g, L, y.filter)
  BY <1>3, ClearsFirst
<1> HIDE DEF a
<1>5. a \in Machines /\ a.filter = y.filter /\ a.filter \in [{Box} -> Filters]
  BY <1>4, Fields DEF Clears
<1>6. /\ f \in [{Box} -> Filters] /\ (f = y.filter \/ f = NoFilters)
      /\ HaveLock(t) /\ unit \in FilterCleared => f[Box] = {}
  <2> DEFINE T == {Type(d) : d \in OfTypes(Boxes(t, AllCounters), FilterRegisters)}
  <2>1. f \in [{Box} -> Filters] /\ f = [k \in {Box} |-> IF Box \in T THEN {} ELSE y.filter[Box]]
    BY <1>5 DEF Put, Filters
  <2>2. HaveLock(t) /\ unit \in FilterCleared => Box \in T
    <3> SUFFICES ASSUME HaveLock(t), unit \in FilterCleared PROVE Box \in T
      OBVIOUS
    <3>1. Box \in {"CBOX", "WBOX"} /\ IsBox
      BY HaswellUnits DEF IsBox, IsCore, IsFree, CoreUnits, FreeTypes
    <3>2. PICK d \in AllCounters : TRUE
      BY KindIs
    <3>3. Type(d) = Box /\ d \in OfTypes(Boxes(t, AllCounters), FilterRegisters)
      BY <3>1, BoxUnit, OwnedIs DEF HaveLock, OfTypes, FilterRegisters, UnitOk
    <3> QED BY <3>3
  <2> HIDE DEF T, f
  <2>3. y.filter = [k \in {Box} |-> y.filter[Box]]
    BY <1>5
  <2> QED BY <2>1, <2>2, <2>3 DEF NoFilters
<1> HIDE DEF f
<1>7. Clears(y, b, t, g, L, f)
  BY <1>4, <1>6 DEF Clears, Machines, Others
<1> HIDE DEF b, z
<1>8. Clears(y, c, t, g, L, f)
  <2> DEFINE d == ClearStatus(b, LocsOf(t, CoreOf(AllCounters)))
  <2>1. Clears(y, d, t, g, L, f)
    BY <1>7, ClearsThen
  <2> HIDE DEF d
  <2>2. Clears(y, GlobalCtrlIf(d, t, EventSet(g), {}), t, g, L, f)
    BY <2>1, ClearsThen
  <2> QED BY <2>2 DEF d
<1> HIDE DEF c
<1>9. Clears(y, z, t, g, L, f)
  BY <1>2, <1>8, ClearsThen
<1>10. FinalizeDone(y, z, t, g)
  BY <1>3, <1>6, <1>9, FinalizesAll
<1> QED BY <1>10 DEF z

-----------------------------------------------------------------------------
(* perfmon_pm.h. *)

\* What is said of the units of pm.
LEMMA PmUnits ==
  ASSUME UnitOk, Family = "pm"
  PROVE  /\ IsCore /\ ~IsFree /\ ~IsBox /\ ~LateUnit /\ ~ByInit /\ Cpu \in WithoutFixed
         /\ unit \notin Direct /\ unit \notin NeverFiltered /\ unit \notin FilterSet /\ unit \notin FilterCleared
         /\ unit \in Halted /\ unit \notin Deselected /\ unit \notin KeepsSelection /\ unit \notin NotFrozen
<1>1. Cpu = "pm" /\ ~ByInit
  BY DEF UnitOk, Family, AllUnits, Of, Cpu, ByInit
<1>2. unit = <<Cpu, Box>> /\ Box = "CORE"
  BY <1>1 DEF UnitOk, AllUnits, Of, Cpu, Box
<1>3. unit \notin Direct /\ ~LateUnit /\ unit \in Halted /\ unit \notin Deselected /\ unit \notin KeepsSelection /\ unit \notin NotFrozen
      /\ unit \notin NeverFiltered /\ unit \notin FilterSet /\ unit \notin FilterCleared
  BY <1>1, <1>2 DEF Of, LateUnit, Direct, Halted, Deselected, KeepsSelection, NotFrozen, NeverFiltered, FilterSet, FilterCleared
<1> QED BY <1>1, <1>2, <1>3 DEF IsFree, IsCore, IsBox, FreeTypes, CoreUnits, WithoutFixed

\* PERFEVTSEL0 has the enable bit of both counters of the CPU.
LEMMA BothIs ==
  ASSUME UnitOk, NEW y \in Machines, NEW t \in Threads
  PROVE  Both(y, t) = CoreHeld(t) \/ ~IsCore
<1>1. DOMAIN y.on = Locs
  BY Fields
<1>2. CoreHeld(t) = {l \in Locs : l[1] = t} \/ ~IsCore
  BY HeldIs
<1> QED BY <1>1, <1>2 DEF Both

\* perfmon_setupCounterThread_pm sets up one counter.
LEMMA PmStep ==
  ASSUME UnitOk, Family = "pm", NEW t \in Threads, NEW g \in Groups, NEW c \in AllCounters, NEW y \in Machines
  PROVE  SetsUp(y, pm_pmc_setup(y, t, c, EventSet(g).ev[c]), t, g, {c} \ {fx})
<1> DEFINE v == Configure(y, t, c, Event(g, c))
<1>1. {c} \ {fx} = {c} /\ EventSet(g).ev[c].flags = Event(g, c)
  BY PmUnits, NoFixed, EventIs
<1>2. c \in Owned(t)
  BY PmUnits, OwnedIs
<1>3. SetsUp(y, v, t, g, {c})
  BY <1>2, PmUnits, ConfigureSets
<1> HIDE DEF v
<1>4. SetsUp(y, Freeze(v, Both(y, t)), t, g, {c})
  BY <1>3, SetsUpThen
<1>5. \/ pm_pmc_setup(y, t, c, EventSet(g).ev[c]) = v
      \/ pm_pmc_setup(y, t, c, EventSet(g).ev[c]) = Freeze(v, Both(y, t))
  BY <1>1 DEF pm_pmc_setup, v
<1> QED BY <1>1, <1>3, <1>4, <1>5

\* perfmon_setupCounterThread_pm keeps the contract of setup.
LEMMA PmSetup ==
  ASSUME UnitOk, Family = "pm", NEW t \in Threads, NEW g \in Groups, NEW y \in Machines
  PROVE  SetupDone(y, perfmon_setupCounterThread_pm(y, t, EventSet(g)), t, g)
<1> DEFINE es == EventSet(g)
           base == y
           st(c, w) == pm_pmc_setup(w, t, c, es.ev[c])
           pick(s) == CHOOSE x \in s : TRUE
           G == [s \in SUBSET AllCounters |->
                   IF s = {} THEN base
                   ELSE IF s \ {pick(s)} = {} THEN st(pick(s), base)
                   ELSE st(pick(s), st(pick(s \ {pick(s)}), base))]
           Eqn(h) == h = [s \in SUBSET AllCounters |-> IF s = {} THEN base ELSE st(pick(s), h[s \ {pick(s)}])]
           iter == CHOOSE h : Eqn(h)
           w == FoldSet(LAMBDA c, x : pm_pmc_setup(x, t, c, es.ev[c]), base, AllCounters)
<1>0. CountersOf(es) = AllCounters
  BY EventSetIs DEF UnitOk
<1>1. SetsUp(y, base, t, g, {})
  BY SetsUpFrame
<1>2. base \in Machines
  BY <1>1 DEF SetsUp
<1>3. perfmon_setupCounterThread_pm(y, t, es) = Marked(w, t, g, AllCounters)
  BY <1>0 DEF perfmon_setupCounterThread_pm, Marked
<1> HIDE DEF base
<1>4. \A s \in SUBSET AllCounters : s # {} => pick(s) \in s /\ s \ {pick(s)} \in SUBSET AllCounters
  OBVIOUS
<1>5. ASSUME NEW s \in SUBSET AllCounters, s # {}, NEW p \in s, s \ {p} # {}, NEW q \in s \ {p} PROVE (s \ {p}) \ {q} = {}
  BY <1>5, KindIs
<1>6. Eqn(G)
  <2> HIDE DEF st, pick
  <2>1. ASSUME NEW s \in SUBSET AllCounters, s # {} PROVE G[s] = st(pick(s), G[s \ {pick(s)}])
    <3>1. pick(s) \in s /\ s \ {pick(s)} \in SUBSET AllCounters
      BY <1>4, <2>1
    <3>2. CASE s \ {pick(s)} = {}
      BY <2>1, <3>2
    <3>3. CASE s \ {pick(s)} # {}
      <4>1. (s \ {pick(s)}) \ {pick(s \ {pick(s)})} = {}
        BY <1>4, <1>5, <2>1, <3>1, <3>3
      <4>2. G[s \ {pick(s)}] = st(pick(s \ {pick(s)}), base)
        BY <3>1, <3>3, <4>1
      <4> QED BY <2>1, <3>3, <4>2
    <3> QED BY <3>2, <3>3
  <2> QED BY <2>1
<1>7. Eqn(iter)
  <2> HIDE DEF G, Eqn
  <2> QED BY <1>6, Zenon
<1>8. w = iter[AllCounters]
  <2> HIDE DEF es
  <2> QED BY DEF FoldSet, MapThenFoldSet
<1>9. ASSUME NEW c \in AllCounters, NEW x \in Machines PROVE SetsUp(x, st(c, x), t, g, {c} \ {fx})
  BY PmStep
<1> HIDE DEF st, pick, iter, w
<1>10. SetsUp(base, iter[AllCounters], t, g, AllCounters \ {fx})
  <2>1. iter[{}] = base
    BY <1>7
  <2>2. ASSUME NEW s \in SUBSET AllCounters, s # {}
        PROVE  \E c \in s : iter[s \ {c}] \in Machines => SetsUp(iter[s \ {c}], iter[s], t, g, {c} \ {fx})
    <3>1. pick(s) \in s /\ pick(s) \in AllCounters /\ iter[s] = st(pick(s), iter[s \ {pick(s)}])
      BY <1>4, <1>7, <2>2
    <3> QED BY <1>9, <3>1
  <2> QED BY <1>2, <2>1, <2>2, FoldSetsUp
<1>11. SetsUp(y, w, t, g, {} \cup (AllCounters \ {fx}))
  BY <1>1, <1>8, <1>10, SetsUpBoth
<1>12. SetupDone(y, Marked(w, t, g, AllCounters), t, g)
  <2>1. AllCounters \ {fx} = AllCounters
    BY NoFixed, PmUnits
  <2> QED BY <1>11, <2>1, SetupEnds
<1> QED BY <1>3, <1>12

\* perfmon_startCountersThread_pm keeps the contract of start.
LEMMA PmStart ==
  ASSUME UnitOk, Family = "pm", NEW t \in Threads, NEW g \in Groups, NEW y \in Machines, Inits(y, g, t) = AllCounters
  PROVE  StartDone(y, perfmon_startCountersThread_pm(y, t, EventSet(g)), t, g)
<1> DEFINE es == EventSet(g)
           a == ResetData(y, t, es, AllCounters)
           b == Zero(a, LocsOf(t, AllCounters))
           z == Unfreeze(b, Both(y, t))
<1>1. InitOf(y, t, es) = AllCounters /\ CountersOf(es) = AllCounters
  BY InitOfIs
<1>2. z = perfmon_startCountersThread_pm(y, t, es)
  BY <1>1 DEF perfmon_startCountersThread_pm
<1>3. Keeps(y, a, t, g) /\ On(a) = On(y)
  <2>0. Keeps(y, y, t, g)
    BY KeepsNothing
  <2>1. Stores(y, a, t, g)
    BY Noting DEF Reads
  <2> QED BY <2>0, <2>1, KeepsStores
<1> HIDE DEF a
<1>4. Keeps(y, b, t, g) /\ On(b) = On(a)
  <2>1. Stores(a, b, t, g)
    BY <1>3, Noting DEF Keeps, Reads
  <2> QED BY <1>3, <2>1, KeepsStores
<1> HIDE DEF b
<1>5. Keeps(y, z, t, g) /\ On(z) = On(b) \cup (Both(y, t) \cap Locs)
  <2>1. PICK L : L = Both(y, t)
    OBVIOUS
  <2>2. z = Unfreeze(b, L)
    BY <2>1
  <2> HIDE DEF z
  <2>3. Keeps(y, Unfreeze(b, L), t, g) /\ On(Unfreeze(b, L)) = On(b) \cup (L \cap Locs) /\ Unfreeze(b, L).cnt = b.cnt
    BY <1>4, KeepsUnfreeze
  <2> QED BY <1>4, <2>1, <2>2, <2>3
<1> HIDE DEF z
<1>6. StartDone(y, z, t, g)
  BY <1>3, <1>4, <1>5, StartEnds, PmUnits, CoreHasNoBox
<1> QED BY <1>2, <1>6

\* perfmon_stopCountersThread_pm keeps the contract of stop.
LEMMA PmStop ==
  ASSUME UnitOk, Family = "pm", NEW t \in Threads, NEW g \in Groups, NEW y \in Machines, Inits(y, g, t) = AllCounters
  PROVE  StopDone(y, perfmon_stopCountersThread_pm(y, t, EventSet(g)), t, g)
<1> DEFINE es == EventSet(g)
           a == Freeze(y, Both(y, t))
           z == SamplePlain(a, t, es, AllCounters)
<1>1. InitOf(y, t, es) = AllCounters /\ CountersOf(es) = AllCounters
  BY InitOfIs
<1>2. z = perfmon_stopCountersThread_pm(y, t, es)
  BY <1>1 DEF perfmon_stopCountersThread_pm
<1>3. Keeps(y, a, t, g) /\ On(a) = On(y) \ Both(y, t)
  <2>0. Keeps(y, y, t, g)
    BY KeepsNothing
  <2>1. PICK L : L = Both(y, t)
    OBVIOUS
  <2>2. a = Freeze(y, L)
    BY <2>1
  <2> HIDE DEF a
  <2>3. Keeps(y, Freeze(y, L), t, g) /\ On(Freeze(y, L)) = On(y) \ L /\ Freeze(y, L).cnt = y.cnt
    BY <2>0, KeepsFreeze
  <2> QED BY <2>0, <2>1, <2>2, <2>3
<1> HIDE DEF a
<1>4. Keeps(y, z, t, g) /\ On(z) = On(a)
  <2>1. Stores(a, z, t, g)
    BY <1>3, Sampling DEF Keeps, Reads
  <2> QED BY <1>3, <2>1, KeepsStores
<1> HIDE DEF z
<1>5. StopDone(y, z, t, g)
  BY <1>3, <1>4, BothIs, StopEnds, PmUnits, CoreHasNoBox
<1> QED BY <1>2, <1>5

\* perfmon_readCountersThread_pm keeps the contract of read.
LEMMA PmRead ==
  ASSUME UnitOk, Family = "pm", NEW t \in Threads, NEW g \in Groups, NEW y \in Machines, Inits(y, g, t) = AllCounters
  PROVE  ReadDone(y, perfmon_readCountersThread_pm(y, t, EventSet(g)), t, g)
<1> DEFINE es == EventSet(g)
           a == Freeze(y, Both(y, t))
           z == SamplePlain(a, t, es, AllCounters)
<1>1. InitOf(y, t, es) = AllCounters /\ CountersOf(es) = AllCounters
  BY InitOfIs
<1>2. z = perfmon_readCountersThread_pm(y, t, es)
  BY <1>1 DEF perfmon_readCountersThread_pm
<1>3. Keeps(y, a, t, g) /\ On(a) = On(y) \ Both(y, t) /\ a.cnt = y.cnt
  <2>0. Keeps(y, y, t, g)
    BY KeepsNothing
  <2>1. PICK L : L = Both(y, t)
    OBVIOUS
  <2>2. a = Freeze(y, L)
    BY <2>1
  <2> HIDE DEF a
  <2>3. Keeps(y, Freeze(y, L), t, g) /\ On(Freeze(y, L)) = On(y) \ L /\ Freeze(y, L).cnt = y.cnt
    BY <2>0, KeepsFreeze
  <2> QED BY <2>0, <2>1, <2>2, <2>3
<1> HIDE DEF a
<1>4. Keeps(y, z, t, g) /\ On(z) = On(a) /\ z.cnt = y.cnt
  <2>1. Reads(a, z, t, g)
    BY <1>3, Sampling DEF Keeps
  <2> QED BY <1>3, <2>1, KeepsReads
<1> HIDE DEF z
<1>5. unit \notin Halted => On(z) = On(y)
  BY <1>3, <1>4, PmUnits
<1>6. ReadDone(y, z, t, g)
  BY <1>4, <1>5, ReadEnds
<1> QED BY <1>2, <1>6

\* perfmon_finalizeCountersThread_pm keeps the contract of finalize.
LEMMA PmFinalize ==
  ASSUME UnitOk, Family = "pm", NEW t \in Threads, NEW g \in Groups, NEW y \in Machines
  PROVE  FinalizeDone(y, perfmon_finalizeCountersThread_pm(y, t, EventSet(g)), t, g)
<1> DEFINE es == EventSet(g)
           L == LocsOf(t, CoreOf(AllCounters) \cup Boxes(t, AllCounters)) \cup FixedLocs(y, t, AllCounters)
           a == Deselect(y, L)
           c == Freeze(a, Both(y, t))
           z == perfmon_finalizeCountersThread_pm(y, t, es)
<1>1. CountersOf(es) = AllCounters
  BY InitOfIs
<1>2. z = Unmarked(c, t, g, AllCounters)
  BY <1>1 DEF perfmon_finalizeCountersThread_pm, ClearSelections, Unmarked
<1>3. Programmable(L) /\ Held(t) \subseteq L
  BY ClearsHeld
<1> HIDE DEF L, z
<1>4. Clears(y, a, t, g, L, y.filter)
  BY <1>3, ClearsFirst
<1> HIDE DEF a
<1>5. Clears(y, c, t, g, L, y.filter)
  BY <1>4, ClearsThen
<1> HIDE DEF c
<1>6. Clears(y, z, t, g, L, y.filter)
  BY <1>2, <1>5, ClearsThen
<1>7. FinalizeDone(y, z, t, g)
  BY <1>3, <1>6, FinalizesAll, PmUnits
<1> QED BY <1>7 DEF z

-----------------------------------------------------------------------------
(* perfmon_core2.h. *)

\* What is said of the units of core2.
LEMMA Core2Units ==
  ASSUME UnitOk, Family = "core2"
  PROVE  /\ IsCore /\ ~IsFree /\ ~IsBox /\ ~LateUnit /\ ~ByInit
         /\ unit \notin Direct /\ unit \notin NeverFiltered /\ unit \notin FilterSet /\ unit \notin FilterCleared
         /\ unit \notin Halted /\ unit \notin Deselected /\ unit \notin KeepsSelection /\ unit \notin NotFrozen
<1>1. Cpu = "core2" /\ ~ByInit
  BY DEF UnitOk, Family, AllUnits, Of, Cpu, ByInit
<1>2. unit = <<Cpu, Box>> /\ Box = "CORE"
  BY <1>1 DEF UnitOk, AllUnits, Of, Cpu, Box
<1>3. unit \notin Direct /\ ~LateUnit /\ unit \notin Halted /\ unit \notin Deselected /\ unit \notin KeepsSelection /\ unit \notin NotFrozen
      /\ unit \notin NeverFiltered /\ unit \notin FilterSet /\ unit \notin FilterCleared
  BY <1>1, <1>2 DEF Of, LateUnit, Direct, Halted, Deselected, KeepsSelection, NotFrozen, NeverFiltered, FilterSet, FilterCleared
<1> QED BY <1>1, <1>2, <1>3 DEF IsFree, IsCore, IsBox, FreeTypes, CoreUnits

\* perfmon_setupCounterThread_core2 sets up one counter.
LEMMA Core2Step ==
  ASSUME UnitOk, Family = "core2", NEW t \in Threads, NEW g \in Groups, NEW c \in AllCounters, NEW y \in Machines
  PROVE  SetsUp(y, core2_pmc_setup(y, t, c, EventSet(g).ev[c]), t, g, {c} \ {fx})
BY Core2Units, EventIs, CoreStep DEF core2_pmc_setup

\* perfmon_setupCounterThread_core2 keeps the contract of setup.
LEMMA Core2Setup ==
  ASSUME UnitOk, Family = "core2", NEW t \in Threads, NEW g \in Groups, NEW y \in Machines
  PROVE  SetupDone(y, perfmon_setupCounterThread_core2(y, t, EventSet(g)), t, g)
<1> DEFINE es == EventSet(g)
           base == GlobalCtrlIf(y, t, es, {})
           st(c, w) == core2_pmc_setup(w, t, c, es.ev[c])
           pick(s) == CHOOSE x \in s : TRUE
           G == [s \in SUBSET AllCounters |->
                   IF s = {} THEN base
                   ELSE IF s \ {pick(s)} = {} THEN st(pick(s), base)
                   ELSE st(pick(s), st(pick(s \ {pick(s)}), base))]
           Eqn(h) == h = [s \in SUBSET AllCounters |-> IF s = {} THEN base ELSE st(pick(s), h[s \ {pick(s)}])]
           iter == CHOOSE h : Eqn(h)
           w == FoldSet(LAMBDA c, x : core2_pmc_setup(x, t, c, es.ev[c]), base, AllCounters)
<1>0. CountersOf(es) = AllCounters
  BY EventSetIs DEF UnitOk
<1>1. SetsUp(y, base, t, g, {})
  BY CoreOff, SetsUpFrame
<1>2. base \in Machines
  BY <1>1 DEF SetsUp
<1>3. perfmon_setupCounterThread_core2(y, t, es) = Marked(ConfigureFixed(w, t, es), t, g, AllCounters)
  BY <1>0 DEF perfmon_setupCounterThread_core2, core2_fixed_setup, Marked
<1> HIDE DEF base
<1>4. \A s \in SUBSET AllCounters : s # {} => pick(s) \in s /\ s \ {pick(s)} \in SUBSET AllCounters
  OBVIOUS
<1>5. ASSUME NEW s \in SUBSET AllCounters, s # {}, NEW p \in s, s \ {p} # {}, NEW q \in s \ {p} PROVE (s \ {p}) \ {q} = {}
  BY <1>5, KindIs
<1>6. Eqn(G)
  <2> HIDE DEF st, pick
  <2>1. ASSUME NEW s \in SUBSET AllCounters, s # {} PROVE G[s] = st(pick(s), G[s \ {pick(s)}])
    <3>1. pick(s) \in s /\ s \ {pick(s)} \in SUBSET AllCounters
      BY <1>4, <2>1
    <3>2. CASE s \ {pick(s)} = {}
      BY <2>1, <3>2
    <3>3. CASE s \ {pick(s)} # {}
      <4>1. (s \ {pick(s)}) \ {pick(s \ {pick(s)})} = {}
        BY <1>4, <1>5, <2>1, <3>1, <3>3
      <4>2. G[s \ {pick(s)}] = st(pick(s \ {pick(s)}), base)
        BY <3>1, <3>3, <4>1
      <4> QED BY <2>1, <3>3, <4>2
    <3> QED BY <3>2, <3>3
  <2> QED BY <2>1
<1>7. Eqn(iter)
  <2> HIDE DEF G, Eqn
  <2> QED BY <1>6, Zenon
<1>8. w = iter[AllCounters]
  <2> HIDE DEF es
  <2> QED BY DEF FoldSet, MapThenFoldSet
<1>9. ASSUME NEW c \in AllCounters, NEW x \in Machines PROVE SetsUp(x, st(c, x), t, g, {c} \ {fx})
  BY Core2Step
<1> HIDE DEF st, pick, iter, w
<1>10. SetsUp(base, iter[AllCounters], t, g, AllCounters \ {fx})
  <2>1. iter[{}] = base
    BY <1>7
  <2>2. ASSUME NEW s \in SUBSET AllCounters, s # {}
        PROVE  \E c \in s : iter[s \ {c}] \in Machines => SetsUp(iter[s \ {c}], iter[s], t, g, {c} \ {fx})
    <3>1. pick(s) \in s /\ pick(s) \in AllCounters /\ iter[s] = st(pick(s), iter[s \ {pick(s)}])
      BY <1>4, <1>7, <2>2
    <3> QED BY <1>9, <3>1
  <2> QED BY <1>2, <2>1, <2>2, FoldSetsUp
<1>11. SetsUp(y, w, t, g, {} \cup (AllCounters \ {fx}))
  BY <1>1, <1>8, <1>10, SetsUpBoth
<1>12. SetupDone(y, Marked(ConfigureFixed(w, t, es), t, g, AllCounters), t, g)
  BY <1>11, SetupEnds
<1> QED BY <1>3, <1>12

\* perfmon_startCountersThread_core2 keeps the contract of start.
LEMMA Core2Start ==
  ASSUME UnitOk, Family = "core2", NEW t \in Threads, NEW g \in Groups, NEW y \in Machines, Inits(y, g, t) = AllCounters
  PROVE  StartDone(y, perfmon_startCountersThread_core2(y, t, EventSet(g)), t, g)
<1> DEFINE es == EventSet(g)
           a == ResetData(y, t, es, AllCounters)
           b == Zero(a, LocsOf(t, AllCounters))
           z == IF CoreOf(AllCounters) = {} THEN b ELSE ClearStatus(GlobalCtrl(b, t, CoreOf(AllCounters)), LocsOf(t, CoreOf(AllCounters)))
<1>1. InitOf(y, t, es) = AllCounters /\ CountersOf(es) = AllCounters
  BY InitOfIs
<1>2. z = perfmon_startCountersThread_core2(y, t, es)
  BY <1>1 DEF perfmon_startCountersThread_core2, EnableThenClear
<1>3. Keeps(y, a, t, g) /\ On(a) = On(y)
  <2>0. Keeps(y, y, t, g)
    BY KeepsNothing
  <2>1. Stores(y, a, t, g)
    BY Noting DEF Reads
  <2> QED BY <2>0, <2>1, KeepsStores
<1> HIDE DEF a
<1>4. Keeps(y, b, t, g) /\ On(b) = On(a)
  <2>1. Stores(a, b, t, g)
    BY <1>3, Noting DEF Keeps, Reads
  <2> QED BY <1>3, <2>1, KeepsStores
<1> HIDE DEF b
<1>5. Keeps(y, z, t, g) /\ On(z) = On(b) \cup CoreHeld(t)
  <2>1. PICK L : L = LocsOf(t, CoreOf(AllCounters))
    OBVIOUS
  <2>2. z = IF CoreOf(AllCounters) = {} THEN b ELSE ClearStatus(GlobalCtrl(b, t, CoreOf(AllCounters)), L)
    BY <2>1
  <2> HIDE DEF z
  <2> QED BY <1>4, <2>2, KeepsCoreStart
<1> HIDE DEF z
<1>6. StartDone(y, z, t, g)
  BY <1>3, <1>4, <1>5, StartEnds, Core2Units, CoreHasNoBox
<1> QED BY <1>2, <1>6

\* perfmon_stopCountersThread_core2 keeps the contract of stop.
LEMMA Core2Stop ==
  ASSUME UnitOk, Family = "core2", NEW t \in Threads, NEW g \in Groups, NEW y \in Machines, Inits(y, g, t) = AllCounters
  PROVE  StopDone(y, perfmon_stopCountersThread_core2(y, t, EventSet(g)), t, g)
<1> DEFINE es == EventSet(g)
           a == GlobalCtrlIf(y, t, es, {})
           z == SampleStatus(a, t, es, AllCounters)
<1>1. InitOf(y, t, es) = AllCounters /\ CountersOf(es) = AllCounters
  BY InitOfIs
<1>2. z = perfmon_stopCountersThread_core2(y, t, es)
  BY <1>1 DEF perfmon_stopCountersThread_core2
<1>3. Keeps(y, a, t, g) /\ On(a) = On(y) \ CoreHeld(t)
  <2>0. Keeps(y, y, t, g)
    BY KeepsNothing
  <2> QED BY <2>0, KeepsCoreOff
<1> HIDE DEF a
<1>4. Keeps(y, z, t, g) /\ On(z) = On(a)
  <2>1. Stores(a, z, t, g)
    BY <1>3, Sampling DEF Keeps, Reads
  <2> QED BY <1>3, <2>1, KeepsStores
<1> HIDE DEF z
<1>5. StopDone(y, z, t, g)
  BY <1>3, <1>4, StopEnds, Core2Units, CoreHasNoBox
<1> QED BY <1>2, <1>5

\* perfmon_readCountersThread_core2 keeps the contract of read.
LEMMA Core2Read ==
  ASSUME UnitOk, Family = "core2", NEW t \in Threads, NEW g \in Groups, NEW y \in Machines, Inits(y, g, t) = AllCounters,
         Programmed \subseteq On(y)
  PROVE  ReadDone(y, perfmon_readCountersThread_core2(y, t, EventSet(g)), t, g)
<1> DEFINE es == EventSet(g)
           a == GlobalCtrlIf(y, t, es, {})
           b == SampleStatus(a, t, es, IF y.shl THEN AllCounters ELSE OfTypes(AllCounters, {"PMC"}))
           c == Sample(b, t, es, AllCounters \ (IF y.shl THEN AllCounters ELSE OfTypes(AllCounters, {"PMC"})), {})
           z == GlobalCtrlIf(c, t, es, RunningCore(y, t))
<1>1. InitOf(y, t, es) = AllCounters /\ CountersOf(es) = AllCounters
  BY InitOfIs
<1>2. z = perfmon_readCountersThread_core2(y, t, es)
  BY <1>1 DEF perfmon_readCountersThread_core2, EnabledCore, RunningCore
<1>3. Keeps(y, a, t, g) /\ On(a) = On(y) \ CoreHeld(t) /\ a.cnt = y.cnt
  <2>0. Keeps(y, y, t, g)
    BY KeepsNothing
  <2> QED BY <2>0, KeepsCoreOff
<1> HIDE DEF a
<1>4. Keeps(y, b, t, g) /\ On(b) = On(a) /\ b.cnt = y.cnt
  <2>1. Reads(a, b, t, g)
    BY <1>3, Sampling DEF Keeps
  <2> QED BY <1>3, <2>1, KeepsReads
<1> HIDE DEF b
<1>5. Keeps(y, c, t, g) /\ On(c) = On(b) /\ c.cnt = y.cnt
  <2>1. Reads(b, c, t, g)
    BY <1>4, Noting DEF Keeps, Reads
  <2> QED BY <1>4, <2>1, KeepsReads
<1> HIDE DEF c
<1>6. Keeps(y, z, t, g) /\ On(z) = (On(c) \ CoreHeld(t)) \cup (On(y) \cap CoreHeld(t)) /\ z.cnt = y.cnt
  BY <1>5, KeepsCoreBack
<1> HIDE DEF z
<1>7. On(z) = On(y)
  BY <1>3, <1>4, <1>5, <1>6, HeldIs, CoreHasNoBox
<1>8. ReadDone(y, z, t, g)
  BY <1>6, <1>7, ReadEnds
<1> QED BY <1>2, <1>8

\* perfmon_finalizeCountersThread_core2 keeps the contract of finalize.
LEMMA Core2Finalize ==
  ASSUME UnitOk, Family = "core2", NEW t \in Threads, NEW g \in Groups, NEW y \in Machines
  PROVE  FinalizeDone(y, perfmon_finalizeCountersThread_core2(y, t, EventSet(g)), t, g)
<1> DEFINE es == EventSet(g)
           L == LocsOf(t, CoreOf(AllCounters) \cup Boxes(t, AllCounters)) \cup FixedLocs(y, t, AllCounters)
           a == Deselect(y, L)
           c == ClearStatus(a, LocsOf(t, CoreOf(AllCounters)))
           d == GlobalCtrl(c, t, {})
           z == perfmon_finalizeCountersThread_core2(y, t, es)
<1>1. CountersOf(es) = AllCounters
  BY InitOfIs
<1>2. z = Unmarked(d, t, g, AllCounters)
  BY <1>1 DEF perfmon_finalizeCountersThread_core2, ClearSelections, Unmarked
<1>3. Programmable(L) /\ Held(t) \subseteq L
  BY ClearsHeld
<1> HIDE DEF L, z
<1>4. Clears(y, a, t, g, L, y.filter)
  BY <1>3, ClearsFirst
<1> HIDE DEF a
<1>5. Clears(y, c, t, g, L, y.filter)
  BY <1>4, ClearsThen
<1> HIDE DEF c
<1>6. Clears(y, d, t, g, L, y.filter)
  BY <1>5, ClearsThen
<1> HIDE DEF d
<1>7. Clears(y, z, t, g, L, y.filter)
  BY <1>2, <1>6, ClearsThen
<1>8. FinalizeDone(y, z, t, g)
  BY <1>3, <1>7, FinalizesAll, Core2Units
<1> QED BY <1>8 DEF z

-----------------------------------------------------------------------------
(* perfmon_silvermont.h. *)

\* What is said of the units of silvermont.
LEMMA SilvermontUnits ==
  ASSUME UnitOk, Family = "silvermont"
  PROVE  /\ IsCore \/ IsFree
         /\ IsCore => unit \in Deselected
         /\ ~IsBox /\ ~LateUnit /\ ~ByInit
         /\ unit \notin Direct /\ unit \notin NeverFiltered /\ unit \notin FilterSet /\ unit \notin FilterCleared
         /\ unit \notin Halted /\ unit \notin KeepsSelection /\ unit \notin NotFrozen
<1>1. Cpu = "silvermont" /\ ~ByInit
  BY DEF UnitOk, Family, AllUnits, Of, Cpu, ByInit
<1>2. unit = <<Cpu, Box>> /\ Box \in {"CORE", "POWER"}
  BY <1>1 DEF UnitOk, AllUnits, Of, Cpu, Box
<1>3. unit \notin Direct /\ ~LateUnit /\ unit \notin Halted /\ (Box = "CORE" => unit \in Deselected) /\ unit \notin KeepsSelection /\ unit \notin NotFrozen
      /\ unit \notin NeverFiltered /\ unit \notin FilterSet /\ unit \notin FilterCleared
  BY <1>1, <1>2 DEF Of, LateUnit, Direct, Halted, Deselected, KeepsSelection, NotFrozen, NeverFiltered, FilterSet, FilterCleared
<1> QED BY <1>1, <1>2, <1>3 DEF IsFree, IsCore, IsBox, FreeTypes, CoreUnits

\* perfmon_setupCounterThread_silvermont sets up one counter.
LEMMA SilvermontStep ==
  ASSUME UnitOk, Family = "silvermont", NEW t \in Threads, NEW g \in Groups, NEW c \in AllCounters, NEW y \in Machines
  PROVE  SetsUp(y, svm_pmc_setup(y, t, c, EventSet(g).ev[c]), t, g, {c} \ {fx})
<1>1. CASE IsCore
  BY <1>1, EventIs, CoreStep DEF svm_pmc_setup
<1>2. CASE IsFree
  BY <1>2, FreeStep DEF svm_pmc_setup
<1> QED BY <1>1, <1>2, SilvermontUnits

\* MSR_PERF_FIXED_CTR_CTRL is cleared, which selects no event.
LEMMA SilvermontCleared ==
  ASSUME UnitOk, Family = "silvermont", NEW t \in Threads, NEW g \in Groups, NEW y \in Machines, NEW z,
         z = IF CoreOf(AllCounters) = {} THEN y
             ELSE Deselect(GlobalCtrl(y, t, {}), {l \in DOMAIN y.ctl : l[1] = t /\ l[2] = "FIXED"})
  PROVE  SetsUp(y, z, t, g, AllCounters \cap {fx})
<1>1. CASE CoreOf(AllCounters) = {}
  <2>1. AllCounters \cap {fx} = {}
    BY <1>1, KindIs, NoFixed
  <2> QED BY <1>1, <2>1, SetsUpFrame
<1>2. CASE CoreOf(AllCounters) # {}
  <2> DEFINE w == GlobalCtrl(y, t, {})
             L == {l \in DOMAIN y.ctl : l[1] = t /\ l[2] = "FIXED"}
  <2>1. IsCore /\ unit \in Deselected
    BY <1>2, KindIs, SilvermontUnits
  <2>2. w \in Machines /\ z = Deselect(w, L)
        /\ w.shl = y.shl /\ w.tc = y.tc /\ w.cfg = y.cfg /\ w.ctl = y.ctl /\ w.filter = y.filter
    BY <1>2, GlobalCtrlIs
  <2>3. L \subseteq Locs /\ Programmable(L) /\ L \subseteq LocsOf(t, (AllCounters \cap {fx}) \cap Owned(t))
    <3>1. DOMAIN y.ctl = Locs
      BY Fields
    <3>2. ASSUME NEW l \in Locs, l[1] = t, l[2] = "FIXED" PROVE l = Loc(t, fx) /\ fx \in AllCounters /\ fx \in Owned(t)
      <4>1. l = Loc(t, CounterAt(l)) /\ CounterAt(l) \in AllCounters /\ Type(CounterAt(l)) = "FIXED"
        BY <2>1, <3>2, CoreUnit, LocIs DEF UnitOk
      <4>2. CounterAt(l) = fx
        BY <2>1, <4>1, CoreUnit DEF UnitOk, fx
      <4> QED BY <2>1, <4>1, <4>2, OwnedIs
    <3> QED BY <3>1, <3>2 DEF Programmable, FreeTypes, LocsOf
  <2> HIDE DEF w, L
  <2>4. z \in Machines /\ (\A l \in Locs : z.ctl[l] = IF l \in L THEN Off ELSE w.ctl[l])
        /\ z.shl = w.shl /\ z.tc = w.tc /\ z.cfg = w.cfg /\ z.filter = w.filter
    <3>1. LET v == Deselect(w, L) IN v \in Machines /\ (\A l \in Locs : v.ctl[l] = IF l \in L THEN Off ELSE w.ctl[l])
             /\ v.shl = w.shl /\ v.tc = w.tc /\ v.cfg = w.cfg /\ v.filter = w.filter
      BY <2>2, <2>3, DeselectIs
    <3> QED BY <2>2, <3>1
  <2>5. \A l \in Locs \ LocsOf(t, (AllCounters \cap {fx}) \cap Owned(t)) : z.ctl[l] = y.ctl[l]
    BY <2>2, <2>3, <2>4
  <2> QED BY <2>1, <2>2, <2>4, <2>5, SilvermontUnits DEF SetsUp
<1> QED BY <1>1, <1>2

\* perfmon_setupCountersThread_silvermont keeps the contract of setup.
LEMMA SilvermontSetup ==
  ASSUME UnitOk, Family = "silvermont", NEW t \in Threads, NEW g \in Groups, NEW y \in Machines
  PROVE  SetupDone(y, perfmon_setupCountersThread_silvermont(y, t, EventSet(g)), t, g)
<1> DEFINE es == EventSet(g)
           base == IF CoreOf(AllCounters) = {} THEN y
                   ELSE Deselect(GlobalCtrl(y, t, {}), {l \in DOMAIN y.ctl : l[1] = t /\ l[2] = "FIXED"})
           st(c, w) == svm_pmc_setup(w, t, c, es.ev[c])
           pick(s) == CHOOSE x \in s : TRUE
           G == [s \in SUBSET AllCounters |->
                   IF s = {} THEN base
                   ELSE IF s \ {pick(s)} = {} THEN st(pick(s), base)
                   ELSE st(pick(s), st(pick(s \ {pick(s)}), base))]
           Eqn(h) == h = [s \in SUBSET AllCounters |-> IF s = {} THEN base ELSE st(pick(s), h[s \ {pick(s)}])]
           iter == CHOOSE h : Eqn(h)
           w == FoldSet(LAMBDA c, x : svm_pmc_setup(x, t, c, es.ev[c]), base, AllCounters)
<1>0. CountersOf(es) = AllCounters
  BY EventSetIs DEF UnitOk
<1>1. SetsUp(y, base, t, g, AllCounters \cap {fx})
  BY SilvermontCleared
<1>2. base \in Machines
  BY <1>1 DEF SetsUp
<1>3. perfmon_setupCountersThread_silvermont(y, t, es) = Marked(ConfigureFixed(w, t, es), t, g, AllCounters)
  BY <1>0 DEF perfmon_setupCountersThread_silvermont, svm_fixed_setup, Marked
<1> HIDE DEF base
<1>4. \A s \in SUBSET AllCounters : s # {} => pick(s) \in s /\ s \ {pick(s)} \in SUBSET AllCounters
  OBVIOUS
<1>5. ASSUME NEW s \in SUBSET AllCounters, s # {}, NEW p \in s, s \ {p} # {}, NEW q \in s \ {p} PROVE (s \ {p}) \ {q} = {}
  BY <1>5, KindIs
<1>6. Eqn(G)
  <2> HIDE DEF st, pick
  <2>1. ASSUME NEW s \in SUBSET AllCounters, s # {} PROVE G[s] = st(pick(s), G[s \ {pick(s)}])
    <3>1. pick(s) \in s /\ s \ {pick(s)} \in SUBSET AllCounters
      BY <1>4, <2>1
    <3>2. CASE s \ {pick(s)} = {}
      BY <2>1, <3>2
    <3>3. CASE s \ {pick(s)} # {}
      <4>1. (s \ {pick(s)}) \ {pick(s \ {pick(s)})} = {}
        BY <1>4, <1>5, <2>1, <3>1, <3>3
      <4>2. G[s \ {pick(s)}] = st(pick(s \ {pick(s)}), base)
        BY <3>1, <3>3, <4>1
      <4> QED BY <2>1, <3>3, <4>2
    <3> QED BY <3>2, <3>3
  <2> QED BY <2>1
<1>7. Eqn(iter)
  <2> HIDE DEF G, Eqn
  <2> QED BY <1>6, Zenon
<1>8. w = iter[AllCounters]
  <2> HIDE DEF es
  <2> QED BY DEF FoldSet, MapThenFoldSet
<1>9. ASSUME NEW c \in AllCounters, NEW x \in Machines PROVE SetsUp(x, st(c, x), t, g, {c} \ {fx})
  BY SilvermontStep
<1> HIDE DEF st, pick, iter, w
<1>10. SetsUp(base, iter[AllCounters], t, g, AllCounters \ {fx})
  <2>1. iter[{}] = base
    BY <1>7
  <2>2. ASSUME NEW s \in SUBSET AllCounters, s # {}
        PROVE  \E c \in s : iter[s \ {c}] \in Machines => SetsUp(iter[s \ {c}], iter[s], t, g, {c} \ {fx})
    <3>1. pick(s) \in s /\ pick(s) \in AllCounters /\ iter[s] = st(pick(s), iter[s \ {pick(s)}])
      BY <1>4, <1>7, <2>2
    <3> QED BY <1>9, <3>1
  <2> QED BY <1>2, <2>1, <2>2, FoldSetsUp
<1>11. SetsUp(y, w, t, g, (AllCounters \cap {fx}) \cup (AllCounters \ {fx}))
  BY <1>1, <1>8, <1>10, SetsUpBoth
<1> DEFINE v == ConfigureFixed(w, t, es)
<1>12. SetsUp(w, v, t, g, AllCounters \cap {fx})
  BY <1>11, FixedSets DEF SetsUp
<1> HIDE DEF v
<1>13. SetsUp(y, v, t, g, AllCounters)
  <2>1. SetsUp(y, v, t, g, ((AllCounters \cap {fx}) \cup (AllCounters \ {fx})) \cup (AllCounters \cap {fx}))
    BY <1>11, <1>12, SetsUpBoth
  <2>2. ((AllCounters \cap {fx}) \cup (AllCounters \ {fx})) \cup (AllCounters \cap {fx}) = AllCounters
    OBVIOUS
  <2> QED BY <2>1, <2>2
<1>14. SetupDone(y, Marked(v, t, g, AllCounters), t, g)
  BY <1>13, SetupEnds
<1> QED BY <1>3, <1>14 DEF v

\* perfmon_startCountersThread_silvermont keeps the contract of start.
LEMMA SilvermontStart ==
  ASSUME UnitOk, Family = "silvermont", NEW t \in Threads, NEW g \in Groups, NEW y \in Machines, Inits(y, g, t) = AllCounters
  PROVE  StartDone(y, perfmon_startCountersThread_silvermont(y, t, EventSet(g)), t, g)
<1> DEFINE es == EventSet(g)
           a == BeginData(y, t, es, AllCounters)
           b == Zero(a, LocsOf(t, CoreOf(AllCounters)))
           c == ClearStatus(b, LocsOf(t, CoreOf(AllCounters)))
           z == GlobalCtrlIf(c, t, es, CoreOf(AllCounters))
<1>1. InitOf(y, t, es) = AllCounters /\ CountersOf(es) = AllCounters
  BY InitOfIs
<1>2. z = perfmon_startCountersThread_silvermont(y, t, es)
  BY <1>1 DEF perfmon_startCountersThread_silvermont
<1>3. Keeps(y, a, t, g) /\ On(a) = On(y)
  <2>0. Keeps(y, y, t, g)
    BY KeepsNothing
  <2>1. Stores(y, a, t, g)
    BY BeginNotes DEF Reads
  <2> QED BY <2>0, <2>1, KeepsStores
<1> HIDE DEF a
<1>4. Keeps(y, b, t, g) /\ On(b) = On(a)
  <2>1. Stores(a, b, t, g)
    BY <1>3, Noting DEF Keeps, Reads
  <2> QED BY <1>3, <2>1, KeepsStores
<1> HIDE DEF b
<1>5. Keeps(y, c, t, g) /\ On(c) = On(b)
  <2>1. Stores(b, c, t, g)
    BY <1>4, Noting DEF Keeps, Reads
  <2> QED BY <1>4, <2>1, KeepsStores
<1> HIDE DEF c
<1>6. Keeps(y, z, t, g) /\ On(z) = On(c) \cup CoreHeld(t)
  BY <1>5, KeepsCoreOn
<1> HIDE DEF z
<1>7. StartDone(y, z, t, g)
  BY <1>3, <1>4, <1>5, <1>6, StartEnds, SilvermontUnits, CoreHasNoBox
<1> QED BY <1>2, <1>7

\* The read of all counters only changes records.
LEMMA SilvermontReads ==
  ASSUME UnitOk, NEW t \in Threads, NEW g \in Groups, NEW y \in Machines
  PROVE  Reads(y, svm_read(y, t, EventSet(g), AllCounters), t, g)
<1> DEFINE es == EventSet(g)
           a == SampleStatus(y, t, es, CoreOf(AllCounters))
           b == SampleFree(a, t, es, AllCounters)
           z == svm_read(y, t, es, AllCounters)
<1>1. Reads(y, a, t, g)
  BY Sampling
<1>2. z = IF HaveLock(t) THEN b ELSE ClearData(b, t, es, FreeOf(AllCounters))
  BY DEF svm_read
<1> HIDE DEF z, a
<1>3. Reads(a, b, t, g)
  BY <1>1, Sampling DEF Reads, Stores
<1> HIDE DEF b
<1>4. Reads(b, z, t, g)
  BY <1>2, <1>3, Noting, StoresNothing DEF Reads, Stores
<1>5. Reads(y, z, t, g)
  BY <1>1, <1>3, <1>4, StoresBoth
<1> QED BY <1>5 DEF z

\* perfmon_stopCountersThread_silvermont keeps the contract of stop.
LEMMA SilvermontStop ==
  ASSUME UnitOk, Family = "silvermont", NEW t \in Threads, NEW g \in Groups, NEW y \in Machines, Inits(y, g, t) = AllCounters
  PROVE  StopDone(y, perfmon_stopCountersThread_silvermont(y, t, EventSet(g)), t, g)
<1> DEFINE es == EventSet(g)
           a == GlobalCtrlIf(y, t, es, {})
           z == svm_read(a, t, es, AllCounters)
<1>1. InitOf(y, t, es) = AllCounters /\ CountersOf(es) = AllCounters
  BY InitOfIs
<1>2. z = perfmon_stopCountersThread_silvermont(y, t, es)
  BY <1>1 DEF perfmon_stopCountersThread_silvermont
<1>3. Keeps(y, a, t, g) /\ On(a) = On(y) \ CoreHeld(t)
  <2>0. Keeps(y, y, t, g)
    BY KeepsNothing
  <2> QED BY <2>0, KeepsCoreOff
<1> HIDE DEF a
<1>4. Keeps(y, z, t, g) /\ On(z) = On(a)
  <2>1. Stores(a, z, t, g)
    BY <1>3, SilvermontReads DEF Keeps, Reads
  <2> QED BY <1>3, <2>1, KeepsStores
<1> HIDE DEF z
<1>5. StopDone(y, z, t, g)
  BY <1>3, <1>4, StopEnds, SilvermontUnits, CoreHasNoBox
<1> QED BY <1>2, <1>5

\* perfmon_readCountersThread_silvermont keeps the contract of read.
LEMMA SilvermontRead ==
  ASSUME UnitOk, Family = "silvermont", NEW t \in Threads, NEW g \in Groups, NEW y \in Machines, Inits(y, g, t) = AllCounters,
         Programmed \subseteq On(y)
  PROVE  ReadDone(y, perfmon_readCountersThread_silvermont(y, t, EventSet(g)), t, g)
<1> DEFINE es == EventSet(g)
           a == GlobalCtrlIf(y, t, es, {})
           b == svm_read(a, t, es, AllCounters)
           z == GlobalCtrlIf(b, t, es, RunningCore(y, t))
<1>1. InitOf(y, t, es) = AllCounters /\ CountersOf(es) = AllCounters
  BY InitOfIs
<1>2. z = perfmon_readCountersThread_silvermont(y, t, es)
  BY <1>1 DEF perfmon_readCountersThread_silvermont, EnabledCore, RunningCore
<1>3. Keeps(y, a, t, g) /\ On(a) = On(y) \ CoreHeld(t) /\ a.cnt = y.cnt
  <2>0. Keeps(y, y, t, g)
    BY KeepsNothing
  <2> QED BY <2>0, KeepsCoreOff
<1> HIDE DEF a
<1>4. Keeps(y, b, t, g) /\ On(b) = On(a) /\ b.cnt = y.cnt
  <2>1. Reads(a, b, t, g)
    BY <1>3, SilvermontReads DEF Keeps
  <2> QED BY <1>3, <2>1, KeepsReads
<1> HIDE DEF b
<1>5. Keeps(y, z, t, g) /\ On(z) = (On(b) \ CoreHeld(t)) \cup (On(y) \cap CoreHeld(t)) /\ z.cnt = y.cnt
  BY <1>4, KeepsCoreBack
<1> HIDE DEF z
<1>6. On(z) = On(y)
  BY <1>3, <1>4, <1>5, HeldIs, CoreHasNoBox
<1>7. ReadDone(y, z, t, g)
  BY <1>5, <1>6, ReadEnds
<1> QED BY <1>2, <1>7

\* perfmon_finalizeCountersThread_silvermont keeps the contract of finalize.
LEMMA SilvermontFinalize ==
  ASSUME UnitOk, Family = "silvermont", NEW t \in Threads, NEW g \in Groups, NEW y \in Machines
  PROVE  FinalizeDone(y, perfmon_finalizeCountersThread_silvermont(y, t, EventSet(g)), t, g)
<1> DEFINE es == EventSet(g)
           L == LocsOf(t, CoreOf(AllCounters) \cup Boxes(t, AllCounters)) \cup FixedLocs(y, t, AllCounters)
           a == Deselect(y, L)
           c == GlobalCtrl(a, t, {})
           d == ClearStatus(c, LocsOf(t, CoreOf(AllCounters)))
           z == perfmon_finalizeCountersThread_silvermont(y, t, es)
<1>1. CountersOf(es) = AllCounters
  BY InitOfIs
<1>2. z = Unmarked(d, t, g, AllCounters)
  BY <1>1 DEF perfmon_finalizeCountersThread_silvermont, ClearSelections, Unmarked
<1>3. Programmable(L) /\ Held(t) \subseteq L
  BY ClearsHeld
<1> HIDE DEF L, z
<1>4. Clears(y, a, t, g, L, y.filter)
  BY <1>3, ClearsFirst
<1> HIDE DEF a
<1>5. Clears(y, c, t, g, L, y.filter)
  BY <1>4, ClearsThen
<1> HIDE DEF c
<1>6. Clears(y, d, t, g, L, y.filter)
  BY <1>5, ClearsThen
<1> HIDE DEF d
<1>7. Clears(y, z, t, g, L, y.filter)
  BY <1>2, <1>6, ClearsThen
<1>8. FinalizeDone(y, z, t, g)
  BY <1>3, <1>7, FinalizesAll, SilvermontUnits
<1> QED BY <1>8 DEF z

-----------------------------------------------------------------------------
(* perfmon_nehalem.h. *)

\* What is said of the units of nehalem.
LEMMA NehalemUnits ==
  ASSUME UnitOk, Family = "nehalem"
  PROVE  /\ Box \in {"CORE", "UNCORE", "UNCOREFIX"} /\ ~IsFree /\ ~LateUnit /\ ByInit
         /\ unit \in Direct <=> Box = "UNCOREFIX"
         /\ unit \notin NeverFiltered /\ unit \notin FilterSet /\ unit \notin FilterCleared
         /\ unit \notin Halted /\ unit \notin Deselected /\ unit \notin KeepsSelection /\ unit \notin NotFrozen
<1>1. Cpu = "nehalem" /\ ByInit
  BY DEF UnitOk, Family, AllUnits, Of, Cpu, ByInit
<1>2. unit = <<Cpu, Box>> /\ Box \in {"CORE", "UNCORE", "UNCOREFIX"}
  BY <1>1 DEF UnitOk, AllUnits, Of, Cpu, Box
<1>3. ~LateUnit /\ unit \notin Halted /\ unit \notin Deselected /\ unit \notin KeepsSelection /\ unit \notin NotFrozen
      /\ unit \notin NeverFiltered /\ unit \notin FilterSet /\ unit \notin FilterCleared
  BY <1>1, <1>2 DEF Of, LateUnit, Halted, Deselected, KeepsSelection, NotFrozen, NeverFiltered, FilterSet, FilterCleared
<1>4. unit \in Direct <=> Box = "UNCOREFIX"
  BY <1>1, <1>2 DEF Of, Direct
<1> QED BY <1>1, <1>2, <1>3, <1>4 DEF IsFree, FreeTypes

\* perfmon_setupCounterThread_nehalem sets up one counter.
LEMMA NehalemStep ==
  ASSUME UnitOk, Family = "nehalem", NEW t \in Threads, NEW g \in Groups, NEW c \in AllCounters, NEW y \in Machines
  PROVE  SetsUp(y, neh_box_setup(y, t, c, EventSet(g).ev[c]), t, g, {c} \ {fx})
<1> DEFINE e == EventSet(g).ev[c]
           z == neh_box_setup(y, t, c, e)
<1>1. e.flags = Event(g, c)
  BY EventIs
<1>2. unit \notin FilterSet /\ unit \notin NeverFiltered /\ (unit \in Direct <=> Box = "UNCOREFIX")
  BY NehalemUnits
<1> SUFFICES SetsUp(y, z, t, g, {c} \ {fx})
  OBVIOUS
<1> HIDE DEF z
<1>3. CASE IsCore
  <2>1. (Type(c) = "PMC" => z = Configure(y, t, c, Event(g, c))) /\ (Type(c) # "PMC" => z = y)
    BY <1>1, <1>3, CoreUnit DEF UnitOk, z, neh_box_setup, neh_pmc_setup, CoreTypes
  <2> QED BY <1>3, <2>1, CoreStep
<1>4. CASE IsBox
  <2>1. Type(c) = Box /\ {c} \ {fx} = {c}
    BY <1>4, BoxStep
  <2>3. CASE Box = "UNCORE"
    <3> DEFINE w == IF HaveLock(t) /\ e.filter # {} THEN SetFilter(y, c, e.filter) ELSE y
    <3>1. z = ConfigureBox(w, t, c, Event(g, c)) \/ (~HaveLock(t) /\ z = y)
      BY <1>1, <2>1, <2>3 DEF z, neh_box_setup, neh_uncore_setup, ConfigureBox
    <3>2. SetsUp(y, ConfigureBox(w, t, c, Event(g, c)), t, g, {c})
      BY <1>2, <1>4, <2>3, OptionSets
    <3> HIDE DEF w
    <3> QED BY <1>4, <2>1, <3>1, <3>2, LockSkips
  <2>4. CASE Box = "UNCOREFIX"
    <3>1. z = IF HaveLock(t) THEN [y EXCEPT !.ctl[Loc(t, c)] = Event(g, c)] ELSE y
      BY <1>1, <2>1, <2>4 DEF z, neh_box_setup
    <3> QED BY <1>2, <1>4, <2>1, <2>4, <3>1, LockWriteSets
  <2> QED BY <1>4, <2>3, <2>4, NehalemUnits DEF IsBox, IsCore, CoreUnits
<1> QED BY <1>3, <1>4, NehalemUnits, KindIs

\* MSR_UNCORE_PERF_GLOBAL_CTRL is written by the holder of the lock.
UncoreAs(y, w, z, t, g, L) ==
    Keeps(y, z, t, g) /\ z.cnt = w.cnt /\ On(z) = (On(w) \ BoxHeld(t)) \cup (L \cap BoxHeld(t))

\* The write of the uncore's global control register.
LEMMA KeepsUncoreCtrl ==
  ASSUME UnitOk, ~IsFree, NEW y, NEW w, NEW t \in Threads, NEW g \in Groups, Keeps(y, w, t, g), NEW L, NEW z, z = UncoreCtrl(w, t, EventSet(g), L)
  PROVE  UncoreAs(y, w, z, t, g, L)
<1> DEFINE K == PackageLocs(w)
           v == Freeze(w, K)
<1>1. w \in Machines
  BY DEF Keeps
<1>2. /\ K = IF IsBox THEN Locs ELSE {}
      /\ IsCore => ~UsesPackage(EventSet(g))
      /\ IsBox => UsesPackage(EventSet(g))
  BY <1>1, PackageIs
<1>3. BoxHeld(t) = IF IsBox /\ t = 1 THEN Locs ELSE {}
  BY HeldIs
<1>4. On(w) \subseteq Locs
  BY DEF On
<1> DEFINE u == Unfreeze(v, L)
<1>5. z = IF HaveLock(t) /\ UsesPackage(EventSet(g)) THEN u ELSE w
  BY DEF UncoreCtrl
<1> HIDE DEF K
<1>6. Keeps(y, v, t, g) /\ v.cnt = w.cnt /\ On(v) = On(w) \ K
  BY KeepsFreeze
<1> HIDE DEF v
<1>7. Keeps(y, u, t, g) /\ u.cnt = v.cnt /\ On(u) = On(v) \cup (L \cap Locs)
  BY <1>6, KeepsUnfreeze
<1> HIDE DEF u
<1>8. Keeps(y, z, t, g) /\ z.cnt = w.cnt
  BY <1>5, <1>6, <1>7
<1>9. On(z) = (On(w) \ BoxHeld(t)) \cup (L \cap BoxHeld(t))
  <2>1. CASE IsBox /\ t = 1
    <3>1. z = u /\ K = Locs /\ BoxHeld(t) = Locs
      BY <1>2, <1>3, <1>5, <2>1 DEF HaveLock
    <3> QED BY <1>4, <1>6, <1>7, <3>1
  <2>2. CASE ~(IsBox /\ t = 1)
    <3>1. BoxHeld(t) = {}
      BY <1>3, <2>2
    <3>2. CASE z = w
      BY <3>1, <3>2
    <3>3. CASE z # w
      <4>1. ~IsBox /\ UsesPackage(EventSet(g)) /\ z = u
        BY <1>5, <2>2, <3>3 DEF HaveLock
      <4> QED BY <1>2, <4>1, KindIs
    <3> QED BY <3>2, <3>3
  <2> QED BY <2>1, <2>2
<1> QED BY <1>8, <1>9 DEF UncoreAs

\* perfmon_setupCounterThread_nehalem keeps the contract of setup.
LEMMA NehalemSetup ==
  ASSUME UnitOk, Family = "nehalem", NEW t \in Threads, NEW g \in Groups, NEW y \in Machines
  PROVE  SetupDone(y, perfmon_setupCounterThread_nehalem(y, t, EventSet(g)), t, g)
<1> DEFINE es == EventSet(g)
           core == GlobalCtrlIf(y, t, es, {})
           base == UncoreCtrl(core, t, es, {})
           st(c, w) == neh_box_setup(w, t, c, es.ev[c])
           pick(s) == CHOOSE x \in s : TRUE
           G == [s \in SUBSET AllCounters |->
                   IF s = {} THEN base
                   ELSE IF s \ {pick(s)} = {} THEN st(pick(s), base)
                   ELSE st(pick(s), st(pick(s \ {pick(s)}), base))]
           Eqn(h) == h = [s \in SUBSET AllCounters |-> IF s = {} THEN base ELSE st(pick(s), h[s \ {pick(s)}])]
           iter == CHOOSE h : Eqn(h)
           w == FoldSet(LAMBDA c, x : neh_box_setup(x, t, c, es.ev[c]), base, AllCounters)
<1>0. CountersOf(es) = AllCounters
  BY EventSetIs DEF UnitOk
<1>1. SetsUp(y, base, t, g, {})
  <2>1. SetsUp(y, core, t, g, {})
    BY CoreOff, SetsUpFrame
  <2> HIDE DEF core
  <2>2. PICK K : K = PackageLocs(core)
    OBVIOUS
  <2>3. SetsUp(y, Freeze(core, K), t, g, {})
    BY <2>1, SetsUpThen
  <2>4. SetsUp(y, Unfreeze(Freeze(core, K), {}), t, g, {})
    BY <2>3, SetsUpThen
  <2> QED BY <2>1, <2>2, <2>4 DEF UncoreCtrl
<1>2. base \in Machines
  BY <1>1 DEF SetsUp
<1>3. perfmon_setupCounterThread_nehalem(y, t, es) = Marked(ConfigureFixed(w, t, es), t, g, AllCounters)
  BY <1>0 DEF perfmon_setupCounterThread_nehalem, neh_fixed_setup, Marked
<1> HIDE DEF base
<1>4. \A s \in SUBSET AllCounters : s # {} => pick(s) \in s /\ s \ {pick(s)} \in SUBSET AllCounters
  OBVIOUS
<1>5. ASSUME NEW s \in SUBSET AllCounters, s # {}, NEW p \in s, s \ {p} # {}, NEW q \in s \ {p} PROVE (s \ {p}) \ {q} = {}
  BY <1>5, KindIs
<1>6. Eqn(G)
  <2> HIDE DEF st, pick
  <2>1. ASSUME NEW s \in SUBSET AllCounters, s # {} PROVE G[s] = st(pick(s), G[s \ {pick(s)}])
    <3>1. pick(s) \in s /\ s \ {pick(s)} \in SUBSET AllCounters
      BY <1>4, <2>1
    <3>2. CASE s \ {pick(s)} = {}
      BY <2>1, <3>2
    <3>3. CASE s \ {pick(s)} # {}
      <4>1. (s \ {pick(s)}) \ {pick(s \ {pick(s)})} = {}
        BY <1>4, <1>5, <2>1, <3>1, <3>3
      <4>2. G[s \ {pick(s)}] = st(pick(s \ {pick(s)}), base)
        BY <3>1, <3>3, <4>1
      <4> QED BY <2>1, <3>3, <4>2
    <3> QED BY <3>2, <3>3
  <2> QED BY <2>1
<1>7. Eqn(iter)
  <2> HIDE DEF G, Eqn
  <2> QED BY <1>6, Zenon
<1>8. w = iter[AllCounters]
  <2> HIDE DEF es
  <2> QED BY DEF FoldSet, MapThenFoldSet
<1>9. ASSUME NEW c \in AllCounters, NEW x \in Machines PROVE SetsUp(x, st(c, x), t, g, {c} \ {fx})
  BY NehalemStep
<1> HIDE DEF st, pick, iter, w
<1>10. SetsUp(base, iter[AllCounters], t, g, AllCounters \ {fx})
  <2>1. iter[{}] = base
    BY <1>7
  <2>2. ASSUME NEW s \in SUBSET AllCounters, s # {}
        PROVE  \E c \in s : iter[s \ {c}] \in Machines => SetsUp(iter[s \ {c}], iter[s], t, g, {c} \ {fx})
    <3>1. pick(s) \in s /\ pick(s) \in AllCounters /\ iter[s] = st(pick(s), iter[s \ {pick(s)}])
      BY <1>4, <1>7, <2>2
    <3> QED BY <1>9, <3>1
  <2> QED BY <1>2, <2>1, <2>2, FoldSetsUp
<1>11. SetsUp(y, w, t, g, {} \cup (AllCounters \ {fx}))
  BY <1>1, <1>8, <1>10, SetsUpBoth
<1>12. SetupDone(y, Marked(ConfigureFixed(w, t, es), t, g, AllCounters), t, g)
  BY <1>11, SetupEnds
<1> QED BY <1>3, <1>12

\* It enables the counters of the package, or those that were enabled before.
LEMMA KeepsUncoreOn ==
  ASSUME UnitOk, ~IsFree, NEW y, NEW w, NEW t \in Threads, NEW g \in Groups, Keeps(y, w, t, g)
  PROVE  LET z == IF LocsOf(t, Boxes(t, AllCounters)) = {} THEN w ELSE UncoreCtrl(w, t, EventSet(g), LocsOf(t, Boxes(t, AllCounters))) IN
         Keeps(y, z, t, g) /\ z.cnt = w.cnt /\ On(z) = On(w) \cup BoxHeld(t)
<1>1. PICK L : L = LocsOf(t, Boxes(t, AllCounters))
  OBVIOUS
<1>2. L = BoxHeld(t)
  BY <1>1, HeldIs
<1> DEFINE z == UncoreCtrl(w, t, EventSet(g), L)
<1>3. Keeps(y, z, t, g) /\ z.cnt = w.cnt /\ On(z) = (On(w) \ BoxHeld(t)) \cup (L \cap BoxHeld(t))
  <2>1. UncoreAs(y, w, z, t, g, L)
    BY KeepsUncoreCtrl
  <2> HIDE DEF z
  <2> QED BY <2>1 DEF UncoreAs
<1> HIDE DEF z
<1>4. On(z) = On(w) \cup BoxHeld(t)
  BY <1>2, <1>3
<1>5. L = {} => BoxHeld(t) = {} /\ On(w) = On(w) \cup BoxHeld(t)
  BY <1>2
<1> QED BY <1>1, <1>3, <1>4, <1>5 DEF z

\* Stop of the uncore.
LEMMA KeepsUncoreOff ==
  ASSUME UnitOk, ~IsFree, NEW y, NEW w, NEW t \in Threads, NEW g \in Groups, Keeps(y, w, t, g)
  PROVE  LET z == UncoreCtrl(w, t, EventSet(g), {}) IN
         Keeps(y, z, t, g) /\ z.cnt = w.cnt /\ On(z) = On(w) \ BoxHeld(t)
<1> DEFINE z == UncoreCtrl(w, t, EventSet(g), {})
<1>3. Keeps(y, z, t, g) /\ z.cnt = w.cnt /\ On(z) = (On(w) \ BoxHeld(t)) \cup ({} \cap BoxHeld(t))
  <2>1. UncoreAs(y, w, z, t, g, {})
    BY KeepsUncoreCtrl
  <2> HIDE DEF z
  <2> QED BY <2>1 DEF UncoreAs
<1> HIDE DEF z
<1>4. On(z) = On(w) \ BoxHeld(t)
  BY <1>3
<1> QED BY <1>3, <1>4 DEF z

\* Start of what ran in the uncore before.
LEMMA KeepsUncoreBack ==
  ASSUME UnitOk, ~IsFree, NEW y \in Machines, NEW w, NEW t \in Threads, NEW g \in Groups, Keeps(y, w, t, g)
  PROVE  LET z == UncoreCtrl(w, t, EventSet(g), {l \in PackageLocs(y) : y.on[l]}) IN
         Keeps(y, z, t, g) /\ z.cnt = w.cnt /\ On(z) = (On(w) \ BoxHeld(t)) \cup (On(y) \cap BoxHeld(t))
<1>1. PICK L : L = {l \in PackageLocs(y) : y.on[l]}
  OBVIOUS
<1>2. L \cap BoxHeld(t) = On(y) \cap BoxHeld(t)
  BY <1>1, PackageIs, HeldIs DEF On
<1> DEFINE z == UncoreCtrl(w, t, EventSet(g), L)
<1>3. Keeps(y, z, t, g) /\ z.cnt = w.cnt /\ On(z) = (On(w) \ BoxHeld(t)) \cup (L \cap BoxHeld(t))
  <2>1. UncoreAs(y, w, z, t, g, L)
    BY KeepsUncoreCtrl
  <2> HIDE DEF z
  <2> QED BY <2>1 DEF UncoreAs
<1> HIDE DEF z
<1>4. On(z) = (On(w) \ BoxHeld(t)) \cup (On(y) \cap BoxHeld(t))
  BY <1>2, <1>3
<1> QED BY <1>1, <1>3, <1>4 DEF z

\* neh_read only changes records.
LEMMA NehalemReads ==
  ASSUME UnitOk, NEW t \in Threads, NEW g \in Groups, NEW y \in Machines
  PROVE  Reads(y, neh_read(y, t, EventSet(g), AllCounters), t, g)
<1> DEFINE es == EventSet(g)
           a == SampleStatus(y, t, es, CoreOf(AllCounters) \cup Boxes(t, AllCounters))
           z == neh_read(y, t, es, AllCounters)
<1>1. Reads(y, a, t, g)
  BY Sampling
<1>2. z = ClearData(a, t, es, AllCounters \ (CoreOf(AllCounters) \cup Boxes(t, AllCounters)))
  BY DEF neh_read
<1> HIDE DEF z, a
<1>3. Reads(a, z, t, g)
  BY <1>1, <1>2, Noting DEF Reads, Stores
<1>5. Reads(y, z, t, g)
  BY <1>1, <1>3, StoresBoth
<1> QED BY <1>5 DEF z

\* Finalize stops the uncore.
LEMMA ClearsUncore ==
  ASSUME UnitOk, ~IsFree, NEW y \in Machines, NEW w, NEW t \in Threads, NEW g \in Groups, NEW L, NEW f, Clears(y, w, t, g, L, f)
  PROVE  Clears(y, UncoreCtrl(w, t, EventSet(g), {}), t, g, L, f)
<1> DEFINE z == UncoreCtrl(w, t, EventSet(g), {})
<1>1. w \in Machines
  BY DEF Clears
<1>2. UncoreAs(w, w, z, t, g, {})
  BY <1>1, KeepsNothing, KeepsUncoreCtrl
<1> HIDE DEF z
<1>3. Clears(y, z, t, g, L, f)
  BY <1>2 DEF UncoreAs, Clears, Keeps, Others
<1> QED BY <1>3 DEF z

\* perfmon_startCountersThread_nehalem keeps the contract of start.
LEMMA NehalemStart ==
  ASSUME UnitOk, Family = "nehalem", NEW t \in Threads, NEW g \in Groups, NEW y \in Machines, Inits(y, g, t) = AllCounters
  PROVE  StartDone(y, perfmon_startCountersThread_nehalem(y, t, EventSet(g)), t, g)
<1> DEFINE es == EventSet(g)
           a == ResetData(y, t, es, AllCounters)
           b == Zero(a, LocsOf(t, CoreOf(AllCounters)) \cup LocsOf(t, Boxes(t, AllCounters)))
           c == IF LocsOf(t, Boxes(t, AllCounters)) = {} THEN b ELSE UncoreCtrl(b, t, es, LocsOf(t, Boxes(t, AllCounters)))
           z == IF CoreOf(AllCounters) = {} THEN c ELSE ClearStatus(GlobalCtrl(c, t, CoreOf(AllCounters)), LocsOf(t, CoreOf(AllCounters)))
<1>1. InitOf(y, t, es) = AllCounters /\ CountersOf(es) = AllCounters
  BY InitOfIs
<1>2. z = perfmon_startCountersThread_nehalem(y, t, es)
  BY <1>1 DEF perfmon_startCountersThread_nehalem, EnableThenClear
<1>3. Keeps(y, a, t, g) /\ On(a) = On(y)
  <2>0. Keeps(y, y, t, g)
    BY KeepsNothing
  <2>1. Stores(y, a, t, g)
    BY Noting DEF Reads
  <2> QED BY <2>0, <2>1, KeepsStores
<1> HIDE DEF a
<1>4. Keeps(y, b, t, g) /\ On(b) = On(a)
  <2>1. Stores(a, b, t, g)
    BY <1>3, Noting DEF Keeps, Reads
  <2> QED BY <1>3, <2>1, KeepsStores
<1> HIDE DEF b
<1>5. Keeps(y, c, t, g) /\ On(c) = On(b) \cup BoxHeld(t)
  BY <1>4, KeepsUncoreOn, NehalemUnits
<1> HIDE DEF c
<1>6. Keeps(y, z, t, g) /\ On(z) = On(c) \cup CoreHeld(t)
  <2>1. PICK L : L = LocsOf(t, CoreOf(AllCounters))
    OBVIOUS
  <2>2. z = IF CoreOf(AllCounters) = {} THEN c ELSE ClearStatus(GlobalCtrl(c, t, CoreOf(AllCounters)), L)
    BY <2>1
  <2> HIDE DEF z
  <2> QED BY <1>5, <2>2, KeepsCoreStart
<1> HIDE DEF z
<1>7. StartDone(y, z, t, g)
  BY <1>3, <1>4, <1>5, <1>6, StartEnds, NehalemUnits, CoreHasNoBox
<1> QED BY <1>2, <1>7

\* perfmon_stopCountersThread_nehalem keeps the contract of stop.
LEMMA NehalemStop ==
  ASSUME UnitOk, Family = "nehalem", NEW t \in Threads, NEW g \in Groups, NEW y \in Machines, Inits(y, g, t) = AllCounters
  PROVE  StopDone(y, perfmon_stopCountersThread_nehalem(y, t, EventSet(g)), t, g)
<1> DEFINE es == EventSet(g)
           a == GlobalCtrlIf(y, t, es, {})
           b == UncoreCtrl(a, t, es, {})
           z == neh_read(b, t, es, AllCounters)
<1>1. InitOf(y, t, es) = AllCounters /\ CountersOf(es) = AllCounters
  BY InitOfIs
<1>2. z = perfmon_stopCountersThread_nehalem(y, t, es)
  BY <1>1 DEF perfmon_stopCountersThread_nehalem
<1>3. Keeps(y, a, t, g) /\ On(a) = On(y) \ CoreHeld(t)
  <2>0. Keeps(y, y, t, g)
    BY KeepsNothing
  <2> QED BY <2>0, KeepsCoreOff
<1> HIDE DEF a
<1>4. Keeps(y, b, t, g) /\ On(b) = On(a) \ BoxHeld(t)
  BY <1>3, KeepsUncoreOff, NehalemUnits
<1> HIDE DEF b
<1>5. Keeps(y, z, t, g) /\ On(z) = On(b)
  <2>1. Stores(b, z, t, g)
    BY <1>4, NehalemReads DEF Keeps, Reads
  <2> QED BY <1>4, <2>1, KeepsStores
<1> HIDE DEF z
<1>6. StopDone(y, z, t, g)
  BY <1>3, <1>4, <1>5, StopEnds, NehalemUnits, CoreHasNoBox
<1> QED BY <1>2, <1>6

\* perfmon_readCountersThread_nehalem keeps the contract of read.
LEMMA NehalemRead ==
  ASSUME UnitOk, Family = "nehalem", NEW t \in Threads, NEW g \in Groups, NEW y \in Machines, Inits(y, g, t) = AllCounters,
         Programmed \subseteq On(y)
  PROVE  ReadDone(y, perfmon_readCountersThread_nehalem(y, t, EventSet(g)), t, g)
<1> DEFINE es == EventSet(g)
           a == GlobalCtrlIf(y, t, es, {})
           b == UncoreCtrl(a, t, es, {})
           c == neh_read(b, t, es, AllCounters)
           d == GlobalCtrlIf(c, t, es, RunningCore(y, t))
           z == UncoreCtrl(d, t, es, {l \in PackageLocs(y) : y.on[l]})
<1>1. InitOf(y, t, es) = AllCounters /\ CountersOf(es) = AllCounters
  BY InitOfIs
<1>2. z = perfmon_readCountersThread_nehalem(y, t, es)
  BY <1>1 DEF perfmon_readCountersThread_nehalem, EnabledCore, RunningCore
<1>3. Keeps(y, a, t, g) /\ On(a) = On(y) \ CoreHeld(t) /\ a.cnt = y.cnt
  <2>0. Keeps(y, y, t, g)
    BY KeepsNothing
  <2> QED BY <2>0, KeepsCoreOff
<1> HIDE DEF a
<1>4. Keeps(y, b, t, g) /\ On(b) = On(a) \ BoxHeld(t) /\ b.cnt = y.cnt
  BY <1>3, KeepsUncoreOff, NehalemUnits
<1> HIDE DEF b
<1>5. Keeps(y, c, t, g) /\ On(c) = On(b) /\ c.cnt = y.cnt
  <2>1. Reads(b, c, t, g)
    BY <1>4, NehalemReads DEF Keeps
  <2> QED BY <1>4, <2>1, KeepsReads
<1> HIDE DEF c
<1>6. Keeps(y, d, t, g) /\ On(d) = (On(c) \ CoreHeld(t)) \cup (On(y) \cap CoreHeld(t)) /\ d.cnt = y.cnt
  BY <1>5, KeepsCoreBack
<1> HIDE DEF d
<1>7. Keeps(y, z, t, g) /\ On(z) = (On(d) \ BoxHeld(t)) \cup (On(y) \cap BoxHeld(t)) /\ z.cnt = y.cnt
  BY <1>6, KeepsUncoreBack, NehalemUnits
<1> HIDE DEF z
<1>8. On(z) = On(y)
  BY <1>3, <1>4, <1>5, <1>6, <1>7, HeldIs, CoreHasNoBox
<1>9. ReadDone(y, z, t, g)
  BY <1>7, <1>8, ReadEnds
<1> QED BY <1>2, <1>9

\* perfmon_finalizeCountersThread_nehalem keeps the contract of finalize.
LEMMA NehalemFinalize ==
  ASSUME UnitOk, Family = "nehalem", NEW t \in Threads, NEW g \in Groups, NEW y \in Machines
  PROVE  FinalizeDone(y, perfmon_finalizeCountersThread_nehalem(y, t, EventSet(g)), t, g)
<1> DEFINE es == EventSet(g)
           L == LocsOf(t, CoreOf(Inits(y, g, t)) \cup Boxes(t, Inits(y, g, t))) \cup FixedLocs(y, t, Inits(y, g, t))
           a == Deselect(y, L)
           c == ClearStatus(a, LocsOf(t, CoreOf(Inits(y, g, t))))
           d == GlobalCtrlIf(c, t, es, {})
           e == UncoreCtrl(d, t, es, {})
           z == perfmon_finalizeCountersThread_nehalem(y, t, es)
<1>1. CountersOf(es) = AllCounters /\ InitOf(y, t, es) = Inits(y, g, t)
  BY InitOfIs
<1>2. z = Unmarked(e, t, g, Inits(y, g, t))
  BY <1>1 DEF perfmon_finalizeCountersThread_nehalem, Unmarked
<1>3. Programmable(L) /\ \A k \in Owned(t) : k \in Inits(y, g, t) => Loc(t, k) \in L
  <2>1. PICK i \in SUBSET AllCounters : i = Inits(y, g, t)
    BY DEF Inits
  <2>2. L = LocsOf(t, CoreOf(i) \cup Boxes(t, i)) \cup FixedLocs(y, t, i)
    BY <2>1
  <2> HIDE DEF L
  <2>3. Programmable(L) /\ LocsOf(t, CoreOf(i) \cup Boxes(t, i)) = LocsOf(t, i \cap Owned(t))
    BY <2>2, ClearsHeld
  <2> QED BY <2>1, <2>2, <2>3 DEF LocsOf
<1> HIDE DEF L, z
<1>4. Clears(y, a, t, g, L, y.filter)
  BY <1>3, ClearsFirst
<1> HIDE DEF a
<1>5. Clears(y, c, t, g, L, y.filter)
  BY <1>4, ClearsThen
<1> HIDE DEF c
<1>6. Clears(y, d, t, g, L, y.filter)
  BY <1>5, ClearsThen
<1> HIDE DEF d
<1>7. Clears(y, e, t, g, L, y.filter)
  BY <1>6, ClearsUncore, NehalemUnits
<1> HIDE DEF e
<1>8. Clears(y, z, t, g, L, y.filter)
  BY <1>2, <1>7, ClearsThen
<1>9. FinalizeDone(y, z, t, g)
  BY <1>3, <1>8, FinalizeEnds, NehalemUnits
<1> QED BY <1>9 DEF z

-----------------------------------------------------------------------------
(* perfmon_nehalemEX.h. *)

\* What is said of the units of nehalemEX.
LEMMA NehalemEXUnits ==
  ASSUME UnitOk, Family = "nehalemEX"
  PROVE  /\ Box \in {"CORE", "MBOX", "BBOX", "SBOX", "RBOX", "CBOX", "WBOX", "WBOXFIX", "UBOX"}
         /\ unit \in Direct <=> Box \in {"WBOXFIX", "UBOX"}
         /\ unit \in FilterCleared <=> Box \in {"MBOX", "BBOX", "SBOX"}
         /\ unit \notin NeverFiltered /\ unit \notin FilterSet
         /\ ~LateUnit /\ ~ByInit /\ unit \notin Halted /\ unit \notin Deselected /\ unit \notin KeepsSelection /\ unit \notin NotFrozen
<1>1. Cpu = "nehalemEX" /\ ~ByInit
  BY DEF UnitOk, Family, AllUnits, Of, Cpu, ByInit
<1>2. /\ unit = <<Cpu, Box>> /\ Box \in {"CORE", "MBOX", "BBOX", "SBOX", "RBOX", "CBOX", "WBOX", "WBOXFIX", "UBOX"}
  BY <1>1 DEF UnitOk, AllUnits, Of, Cpu, Box, EXBoxes
<1>3. ~LateUnit /\ unit \notin Halted /\ unit \notin Deselected /\ unit \notin KeepsSelection /\ unit \notin NotFrozen
      /\ unit \notin NeverFiltered /\ unit \notin FilterSet
  BY <1>1, <1>2 DEF Of, LateUnit, Halted, Deselected, KeepsSelection, NotFrozen, NeverFiltered, FilterSet
<1>4. (unit \in Direct <=> Box \in {"WBOXFIX", "UBOX"}) /\ (unit \in FilterCleared <=> Box \in {"MBOX", "BBOX", "SBOX"})
  BY <1>1, <1>2 DEF Of, Direct, FilterCleared
<1> QED BY <1>1, <1>2, <1>3, <1>4

\* perfmon_setupCounterThread_nehalemEX sets up one counter.
LEMMA NehalemEXStep ==
  ASSUME UnitOk, Family = "nehalemEX", NEW t \in Threads, NEW g \in Groups, NEW c \in AllCounters, NEW y \in Machines
  PROVE  SetsUp(y, nex_box_setup(y, t, c, EventSet(g).ev[c]), t, g, {c} \ {fx})
<1> DEFINE e == EventSet(g).ev[c]
           z == nex_box_setup(y, t, c, e)
<1>1. e.flags = Event(g, c)
  BY EventIs
<1>2. /\ unit \in Direct <=> Box \in {"WBOXFIX", "UBOX"}
      /\ unit \notin FilterSet /\ unit \notin NeverFiltered
  BY NehalemEXUnits
<1> SUFFICES SetsUp(y, z, t, g, {c} \ {fx})
  OBVIOUS
<1> HIDE DEF z
<1>3. CASE IsCore
  <2>1. (Type(c) = "PMC" => z = Configure(y, t, c, Event(g, c))) /\ (Type(c) # "PMC" => z = y)
    BY <1>1, <1>3, CoreUnit DEF UnitOk, z, nex_box_setup, nex_pmc_setup, CoreTypes
  <2> QED BY <1>3, <2>1, CoreStep
<1>4. CASE IsBox
  <2>1. Type(c) = Box /\ {c} \ {fx} = {c}
    BY <1>4, BoxStep
  <2>2. CASE Box \in {"RBOX", "CBOX", "WBOX"}
    <3>1. z = ConfigureBox(y, t, c, Event(g, c))
      BY <1>1, <2>1, <2>2 DEF z, nex_box_setup, nex_rbox_setup, nex_cbox_setup, nex_wbox_setup
    <3> QED BY <1>2, <1>4, <2>1, <2>2, <3>1, BoxSets
  <2>3. CASE Box \in {"MBOX", "BBOX", "SBOX"}
    <3> DEFINE w == IF HaveLock(t) /\ e.filter # {} THEN SetFilter(y, c, e.filter) ELSE y
    <3>1. z = ConfigureBox(w, t, c, Event(g, c))
      BY <1>1, <2>1, <2>3 DEF z, nex_box_setup, nex_mbox_setup, nex_bbox_setup, nex_sbox_setup, MatchedSetup, MatchIfOption
    <3>2. SetsUp(y, ConfigureBox(w, t, c, Event(g, c)), t, g, {c})
      BY <1>2, <1>4, <2>3, OptionSets
    <3> QED BY <2>1, <3>1, <3>2
  <2>4. CASE Box \in {"WBOXFIX", "UBOX"}
    <3>1. z = IF HaveLock(t) THEN [y EXCEPT !.ctl[Loc(t, c)] = Event(g, c)] ELSE y
      BY <1>1, <2>1, <2>4 DEF z, nex_box_setup, Overwrite
    <3> QED BY <1>2, <1>4, <2>1, <2>4, <3>1, LockWriteSets
  <2> QED BY <1>4, <2>2, <2>3, <2>4, NehalemEXUnits DEF IsBox, IsCore, CoreUnits
<1>5. ~IsFree
  BY NehalemEXUnits DEF IsFree, FreeTypes
<1> QED BY <1>3, <1>4, <1>5, KindIs

\* perfmon_setupCounterThread_nehalemEX keeps the contract of setup.
LEMMA NehalemEXSetup ==
  ASSUME UnitOk, Family = "nehalemEX", NEW t \in Threads, NEW g \in Groups, NEW y \in Machines
  PROVE  SetupDone(y, perfmon_setupCounterThread_nehalemEX(y, t, EventSet(g)), t, g)
<1> DEFINE es == EventSet(g)
           core == GlobalCtrlIf(y, t, es, {})
           base == NEX_FREEZE_UNCORE(core, t, es)
           st(c, w) == nex_box_setup(w, t, c, es.ev[c])
           pick(s) == CHOOSE x \in s : TRUE
           G == [s \in SUBSET AllCounters |->
                   IF s = {} THEN base
                   ELSE IF s \ {pick(s)} = {} THEN st(pick(s), base)
                   ELSE st(pick(s), st(pick(s \ {pick(s)}), base))]
           Eqn(h) == h = [s \in SUBSET AllCounters |-> IF s = {} THEN base ELSE st(pick(s), h[s \ {pick(s)}])]
           iter == CHOOSE h : Eqn(h)
           w == FoldSet(LAMBDA c, x : nex_box_setup(x, t, c, es.ev[c]), base, AllCounters)
<1>0. CountersOf(es) = AllCounters
  BY EventSetIs DEF UnitOk
<1>1. SetsUp(y, base, t, g, {})
  <2>1. SetsUp(y, core, t, g, {})
    BY CoreOff, SetsUpFrame
  <2> HIDE DEF core
  <2> QED BY <2>1, SetsUpThen DEF NEX_FREEZE_UNCORE
<1>2. base \in Machines
  BY <1>1 DEF SetsUp
<1>3. perfmon_setupCounterThread_nehalemEX(y, t, es) = Marked(ConfigureFixed(w, t, es), t, g, AllCounters)
  BY <1>0 DEF perfmon_setupCounterThread_nehalemEX, nex_fixed_setup, Marked
<1> HIDE DEF base
<1>4. \A s \in SUBSET AllCounters : s # {} => pick(s) \in s /\ s \ {pick(s)} \in SUBSET AllCounters
  OBVIOUS
<1>5. ASSUME NEW s \in SUBSET AllCounters, s # {}, NEW p \in s, s \ {p} # {}, NEW q \in s \ {p} PROVE (s \ {p}) \ {q} = {}
  BY <1>5, KindIs
<1>6. Eqn(G)
  <2> HIDE DEF st, pick
  <2>1. ASSUME NEW s \in SUBSET AllCounters, s # {} PROVE G[s] = st(pick(s), G[s \ {pick(s)}])
    <3>1. pick(s) \in s /\ s \ {pick(s)} \in SUBSET AllCounters
      BY <1>4, <2>1
    <3>2. CASE s \ {pick(s)} = {}
      BY <2>1, <3>2
    <3>3. CASE s \ {pick(s)} # {}
      <4>1. (s \ {pick(s)}) \ {pick(s \ {pick(s)})} = {}
        BY <1>4, <1>5, <2>1, <3>1, <3>3
      <4>2. G[s \ {pick(s)}] = st(pick(s \ {pick(s)}), base)
        BY <3>1, <3>3, <4>1
      <4> QED BY <2>1, <3>3, <4>2
    <3> QED BY <3>2, <3>3
  <2> QED BY <2>1
<1>7. Eqn(iter)
  <2> HIDE DEF G, Eqn
  <2> QED BY <1>6, Zenon
<1>8. w = iter[AllCounters]
  <2> HIDE DEF es
  <2> QED BY DEF FoldSet, MapThenFoldSet
<1>9. ASSUME NEW c \in AllCounters, NEW x \in Machines PROVE SetsUp(x, st(c, x), t, g, {c} \ {fx})
  BY NehalemEXStep
<1> HIDE DEF st, pick, iter, w
<1>10. SetsUp(base, iter[AllCounters], t, g, AllCounters \ {fx})
  <2>1. iter[{}] = base
    BY <1>7
  <2>2. ASSUME NEW s \in SUBSET AllCounters, s # {}
        PROVE  \E c \in s : iter[s \ {c}] \in Machines => SetsUp(iter[s \ {c}], iter[s], t, g, {c} \ {fx})
    <3>1. pick(s) \in s /\ pick(s) \in AllCounters /\ iter[s] = st(pick(s), iter[s \ {pick(s)}])
      BY <1>4, <1>7, <2>2
    <3> QED BY <1>9, <3>1
  <2> QED BY <1>2, <2>1, <2>2, FoldSetsUp
<1>11. SetsUp(y, w, t, g, {} \cup (AllCounters \ {fx}))
  BY <1>1, <1>8, <1>10, SetsUpBoth
<1>12. SetupDone(y, Marked(ConfigureFixed(w, t, es), t, g, AllCounters), t, g)
  BY <1>11, SetupEnds
<1> QED BY <1>3, <1>12

\* perfmon_startCountersThread_nehalemEX keeps the contract of start.
LEMMA NehalemEXStart ==
  ASSUME UnitOk, Family = "nehalemEX", NEW t \in Threads, NEW g \in Groups, NEW y \in Machines, Inits(y, g, t) = AllCounters
  PROVE  StartDone(y, perfmon_startCountersThread_nehalemEX(y, t, EventSet(g)), t, g)
<1> DEFINE es == EventSet(g)
           a == IF HaveLock(t) /\ UsesPackage(es) THEN Zero(y, PackageLocs(y)) ELSE y
           b == ResetData(a, t, es, AllCounters)
           c == Zero(b, LocsOf(t, CoreOf(AllCounters)))
           d == ClearStatus(c, LocsOf(t, Boxes(t, AllCounters)))
           e == IF HaveLock(t) /\ UsesPackage(es) THEN Unfreeze(d, PackageLocs(d)) ELSE d
           z == IF CoreOf(AllCounters) = {} THEN e ELSE ClearStatus(GlobalCtrl(e, t, CoreOf(AllCounters)), LocsOf(t, CoreOf(AllCounters)))
<1>1. InitOf(y, t, es) = AllCounters /\ CountersOf(es) = AllCounters
  BY InitOfIs
<1>2. z = perfmon_startCountersThread_nehalemEX(y, t, es)
  BY <1>1 DEF perfmon_startCountersThread_nehalemEX, NEX_RESET_ALL_UNCORE_COUNTERS, NEX_UNFREEZE_UNCORE
<1>3. Keeps(y, a, t, g) /\ On(a) = On(y)
  <2>0. Keeps(y, y, t, g)
    BY KeepsNothing
  <2>1. Stores(y, a, t, g)
    BY Noting, StoresNothing DEF Reads
  <2> QED BY <2>0, <2>1, KeepsStores
<1> HIDE DEF a
<1>4. Keeps(y, b, t, g) /\ On(b) = On(a)
  <2>1. Stores(a, b, t, g)
    BY <1>3, Noting DEF Keeps, Reads
  <2> QED BY <1>3, <2>1, KeepsStores
<1> HIDE DEF b
<1>5. Keeps(y, c, t, g) /\ On(c) = On(b)
  <2>1. Stores(b, c, t, g)
    BY <1>4, Noting DEF Keeps, Reads
  <2> QED BY <1>4, <2>1, KeepsStores
<1> HIDE DEF c
<1>6. Keeps(y, d, t, g) /\ On(d) = On(c)
  <2>1. Stores(c, d, t, g)
    BY <1>5, Noting DEF Keeps, Reads
  <2> QED BY <1>5, <2>1, KeepsStores
<1> HIDE DEF d
<1>7. Keeps(y, e, t, g) /\ On(e) = On(d) \cup BoxHeld(t)
  BY <1>6, KeepsPackageOn
<1> HIDE DEF e
<1>8. Keeps(y, z, t, g) /\ On(z) = On(e) \cup CoreHeld(t)
  <2>1. PICK L : L = LocsOf(t, CoreOf(AllCounters))
    OBVIOUS
  <2>2. z = IF CoreOf(AllCounters) = {} THEN e ELSE ClearStatus(GlobalCtrl(e, t, CoreOf(AllCounters)), L)
    BY <2>1
  <2> HIDE DEF z
  <2> QED BY <1>7, <2>2, KeepsCoreStart
<1> HIDE DEF z
<1>9. StartDone(y, z, t, g)
  BY <1>3, <1>4, <1>5, <1>6, <1>7, <1>8, StartEnds, NehalemEXUnits, CoreHasNoBox
<1> QED BY <1>2, <1>9

\* The read of all counters only changes records.
LEMMA NehalemEXReads ==
  ASSUME UnitOk, NEW t \in Threads, NEW g \in Groups, NEW y \in Machines
  PROVE  Reads(y, nex_read(y, t, EventSet(g), AllCounters), t, g)
<1> DEFINE es == EventSet(g)
           a == Sample(y, t, es, CoreOf(AllCounters), y.ovf)
           b == AcknowledgeBoxes(a, t, es, Boxes(t, AllCounters))
           z == nex_read(y, t, es, AllCounters)
<1>1. Reads(y, a, t, g)
  BY Noting
<1>2. z = ClearData(b, t, es, AllCounters \ (CoreOf(AllCounters) \cup Boxes(t, AllCounters)))
  BY DEF nex_read
<1> HIDE DEF z, a
<1>3. Reads(a, b, t, g)
  BY <1>1, Sampling DEF Reads, Stores
<1> HIDE DEF b
<1>4. Reads(b, z, t, g)
  BY <1>2, <1>3, Noting DEF Reads, Stores
<1>5. Reads(y, z, t, g)
  BY <1>1, <1>3, <1>4, StoresBoth
<1> QED BY <1>5 DEF z

\* perfmon_stopCountersThread_nehalemEX keeps the contract of stop.
LEMMA NehalemEXStop ==
  ASSUME UnitOk, Family = "nehalemEX", NEW t \in Threads, NEW g \in Groups, NEW y \in Machines, Inits(y, g, t) = AllCounters
  PROVE  StopDone(y, perfmon_stopCountersThread_nehalemEX(y, t, EventSet(g)), t, g)
<1> DEFINE es == EventSet(g)
           a == GlobalCtrlIf(y, t, es, {})
           b == IF HaveLock(t) /\ UsesPackage(es) THEN Freeze(a, PackageLocs(a)) ELSE a
           z == nex_read(b, t, es, AllCounters)
<1>1. InitOf(y, t, es) = AllCounters /\ CountersOf(es) = AllCounters
  BY InitOfIs
<1>2. z = perfmon_stopCountersThread_nehalemEX(y, t, es)
  BY <1>1 DEF perfmon_stopCountersThread_nehalemEX, NEX_FREEZE_UNCORE
<1>3. Keeps(y, a, t, g) /\ On(a) = On(y) \ CoreHeld(t)
  <2>0. Keeps(y, y, t, g)
    BY KeepsNothing
  <2> QED BY <2>0, KeepsCoreOff
<1> HIDE DEF a
<1>4. Keeps(y, b, t, g) /\ On(b) = On(a) \ BoxHeld(t)
  BY <1>3, KeepsPackageOff
<1> HIDE DEF b
<1>5. Keeps(y, z, t, g) /\ On(z) = On(b)
  <2>1. Stores(b, z, t, g)
    BY <1>4, NehalemEXReads DEF Keeps, Reads
  <2> QED BY <1>4, <2>1, KeepsStores
<1> HIDE DEF z
<1>6. StopDone(y, z, t, g)
  BY <1>3, <1>4, <1>5, StopEnds, NehalemEXUnits, CoreHasNoBox
<1> QED BY <1>2, <1>6

\* perfmon_readCountersThread_nehalemEX keeps the contract of read.
LEMMA NehalemEXRead ==
  ASSUME UnitOk, Family = "nehalemEX", NEW t \in Threads, NEW g \in Groups, NEW y \in Machines, Inits(y, g, t) = AllCounters,
         Programmed \subseteq On(y)
  PROVE  ReadDone(y, perfmon_readCountersThread_nehalemEX(y, t, EventSet(g)), t, g)
<1> DEFINE es == EventSet(g)
           a == IF HaveLock(t) /\ UsesPackage(es) THEN Freeze(y, PackageLocs(y)) ELSE y
           b == nex_read(a, t, es, AllCounters)
           z == IF HaveLock(t) /\ UsesPackage(es) THEN Unfreeze(b, PackageLocs(b)) ELSE b
<1>1. InitOf(y, t, es) = AllCounters /\ CountersOf(es) = AllCounters
  BY InitOfIs
<1>2. z = perfmon_readCountersThread_nehalemEX(y, t, es)
  BY <1>1 DEF perfmon_readCountersThread_nehalemEX, NEX_FREEZE_UNCORE, NEX_UNFREEZE_UNCORE
<1>3. Keeps(y, a, t, g) /\ On(a) = On(y) \ BoxHeld(t) /\ a.cnt = y.cnt
  <2>0. Keeps(y, y, t, g)
    BY KeepsNothing
  <2> QED BY <2>0, KeepsPackageOff
<1> HIDE DEF a
<1>4. Keeps(y, b, t, g) /\ On(b) = On(a) /\ b.cnt = y.cnt
  <2>1. Reads(a, b, t, g)
    BY <1>3, NehalemEXReads DEF Keeps
  <2> QED BY <1>3, <2>1, KeepsReads
<1> HIDE DEF b
<1>5. Keeps(y, z, t, g) /\ On(z) = On(b) \cup BoxHeld(t) /\ z.cnt = y.cnt
  BY <1>4, KeepsPackageOn
<1> HIDE DEF z
<1>6. On(z) = On(y)
  BY <1>3, <1>4, <1>5, HeldIs, CoreHasNoBox
<1>7. ReadDone(y, z, t, g)
  BY <1>5, <1>6, ReadEnds
<1> QED BY <1>2, <1>7

\* perfmon_finalizeCountersThread_nehalemEX keeps the contract of finalize.
LEMMA NehalemEXFinalize ==
  ASSUME UnitOk, Family = "nehalemEX", NEW t \in Threads, NEW g \in Groups, NEW y \in Machines
  PROVE  FinalizeDone(y, perfmon_finalizeCountersThread_nehalemEX(y, t, EventSet(g)), t, g)
<1> DEFINE es == EventSet(g)
           L == LocsOf(t, CoreOf(AllCounters) \cup Boxes(t, AllCounters)) \cup FixedLocs(y, t, AllCounters)
           a == Deselect(y, L)
           T == {Type(c) : c \in OfTypes(Boxes(t, AllCounters), {"MBOX", "SBOX", "BBOX"})}
           f == Put(a.filter, T, {})
           b == [a EXCEPT !.filter = f]
           c == ClearStatus(b, LocsOf(t, CoreOf(AllCounters)))
           d == GlobalCtrlIf(c, t, es, {})
           e == IF HaveLock(t) /\ UsesPackage(es) THEN Freeze(d, PackageLocs(d)) ELSE d
           z == perfmon_finalizeCountersThread_nehalemEX(y, t, es)
<1>1. CountersOf(es) = AllCounters
  BY InitOfIs
<1>2. z = Unmarked(e, t, g, AllCounters)
  BY <1>1 DEF perfmon_finalizeCountersThread_nehalemEX, NEX_FREEZE_UNCORE, Unmarked
<1>3. Programmable(L) /\ Held(t) \subseteq L
  BY ClearsHeld
<1> HIDE DEF L, z
<1>4. Clears(y, a, t, g, L, y.filter)
  BY <1>3, ClearsFirst
<1> HIDE DEF a
<1>5. /\ Clears(y, b, t, g, L, f) /\ (f = y.filter \/ f = NoFilters)
      /\ HaveLock(t) /\ unit \in FilterCleared => f[Box] = {}
  <2>1. HaveLock(t) /\ unit \in FilterCleared => Box \in T
    BY NehalemEXUnits, BoxOfTypes DEF FilterRegisters, IsBox, IsCore, IsFree, CoreUnits, FreeTypes
  <2>2. f = Put(a.filter, T, {}) /\ b = [a EXCEPT !.filter = f]
    OBVIOUS
  <2> HIDE DEF T, f, b
  <2>3. ClearsToo(y, b, t, g, L, f)
    BY <1>4, <2>1, <2>2, ClearsFilter
  <2> QED BY <2>3 DEF ClearsToo
<1> HIDE DEF f, b
<1>6. Clears(y, c, t, g, L, f)
  BY <1>5, ClearsThen
<1> HIDE DEF c
<1>7. Clears(y, d, t, g, L, f)
  BY <1>6, ClearsThen
<1> HIDE DEF d
<1>8. Clears(y, e, t, g, L, f)
  BY <1>7, ClearsThen
<1> HIDE DEF e
<1>9. Clears(y, z, t, g, L, f)
  BY <1>2, <1>8, ClearsThen
<1>10. FinalizeDone(y, z, t, g)
  BY <1>3, <1>5, <1>9, FinalizesAll, NehalemEXUnits
<1> QED BY <1>10 DEF z

-----------------------------------------------------------------------------
(* perfmon_westmereEX.h. *)

\* What is said of the units of westmereEX.
LEMMA WestmereEXUnits ==
  ASSUME UnitOk, Family = "westmereEX"
  PROVE  /\ Box \in {"CORE", "MBOX", "BBOX", "SBOX", "RBOX", "CBOX", "WBOX", "WBOXFIX", "UBOX"}
         /\ unit \in Direct <=> Box = "WBOXFIX"
         /\ unit \in Deselected \cup Direct
         /\ unit \notin NeverFiltered /\ unit \notin FilterSet /\ unit \notin FilterCleared
         /\ ~LateUnit /\ ~ByInit /\ unit \notin Halted /\ unit \notin KeepsSelection /\ unit \notin NotFrozen
<1>1. Cpu = "westmereEX" /\ ~ByInit
  BY DEF UnitOk, Family, AllUnits, Of, Cpu, ByInit
<1>2. /\ unit = <<Cpu, Box>> /\ Box \in {"CORE", "MBOX", "BBOX", "SBOX", "RBOX", "CBOX", "WBOX", "WBOXFIX", "UBOX"}
  BY <1>1 DEF UnitOk, AllUnits, Of, Cpu, Box, EXBoxes
<1>3. ~LateUnit /\ unit \notin Halted /\ unit \notin KeepsSelection /\ unit \notin NotFrozen
      /\ unit \notin NeverFiltered /\ unit \notin FilterSet /\ unit \notin FilterCleared
  BY <1>1, <1>2 DEF Of, LateUnit, Halted, KeepsSelection, NotFrozen, NeverFiltered, FilterSet, FilterCleared
<1>4. (unit \in Direct <=> Box = "WBOXFIX") /\ unit \in Deselected \cup Direct
  BY <1>1, <1>2 DEF Of, Direct, Deselected
<1> QED BY <1>1, <1>2, <1>3, <1>4

\* perfmon_setupCounterThread_westmereEX sets up one counter.
LEMMA WestmereEXStep ==
  ASSUME UnitOk, Family = "westmereEX", NEW t \in Threads, NEW g \in Groups, NEW c \in AllCounters, NEW y \in Machines
  PROVE  SetsUp(y, wex_box_setup(y, t, c, EventSet(g).ev[c]), t, g, {c} \ {fx})
<1> DEFINE e == EventSet(g).ev[c]
           z == wex_box_setup(y, t, c, e)
<1>1. e.flags = Event(g, c)
  BY EventIs
<1>2. /\ unit \in Direct <=> Box = "WBOXFIX"
      /\ unit \notin FilterSet /\ unit \notin NeverFiltered
  BY WestmereEXUnits
<1> SUFFICES SetsUp(y, z, t, g, {c} \ {fx})
  OBVIOUS
<1> HIDE DEF z
<1>3. CASE IsCore
  <2>1. (Type(c) = "PMC" => z = Configure(y, t, c, Event(g, c))) /\ (Type(c) # "PMC" => z = y)
    BY <1>1, <1>3, CoreUnit DEF UnitOk, z, wex_box_setup, wex_pmc_setup, CoreTypes
  <2> QED BY <1>3, <2>1, CoreStep
<1>4. CASE IsBox
  <2>1. Type(c) = Box /\ {c} \ {fx} = {c}
    BY <1>4, BoxStep
  <2>2. CASE Box \in {"RBOX", "CBOX", "WBOX"}
    <3>1. z = ConfigureBox(y, t, c, Event(g, c))
      BY <1>1, <2>1, <2>2 DEF z, wex_box_setup, wex_rbox_setup, wex_cbox_setup, wex_wbox_setup
    <3> QED BY <1>2, <1>4, <2>1, <2>2, <3>1, BoxSets
  <2>3. CASE Box \in {"MBOX", "BBOX", "SBOX"}
    <3> DEFINE w == IF HaveLock(t) /\ e.filter # {} THEN SetFilter(y, c, e.filter) ELSE y
    <3>1. z = ConfigureBox(w, t, c, Event(g, c))
      BY <1>1, <2>1, <2>3 DEF z, wex_box_setup, wex_mbox_setup, wex_bbox_setup, wex_sbox_setup, MatchedSetup, MatchIfOption
    <3>2. SetsUp(y, ConfigureBox(w, t, c, Event(g, c)), t, g, {c})
      BY <1>2, <1>4, <2>3, OptionSets
    <3> QED BY <2>1, <3>1, <3>2
  <2>4. CASE Box = "UBOX"
    <3> DEFINE v == ConfigureBox(y, t, c, Event(g, c))
               w == IF HaveLock(t) /\ e.filter # {} THEN SetFilter(v, c, e.filter) ELSE v
    <3>1. z = ConfigureBox(w, t, c, Event(g, c))
      BY <1>1, <2>1, <2>4 DEF z, wex_box_setup, wex_ubox_setup, wex_sbox_setup, MatchedSetup, MatchIfOption
    <3>2. SetsUp(y, v, t, g, {c})
      BY <1>2, <1>4, <2>4, BoxSets
    <3>3. v \in Machines
      BY <3>2 DEF SetsUp
    <3> HIDE DEF v
    <3>4. SetsUp(v, ConfigureBox(w, t, c, Event(g, c)), t, g, {c})
      BY <1>2, <1>4, <2>4, <3>3, OptionSets
    <3> HIDE DEF w
    <3>5. SetsUp(y, z, t, g, {c} \cup {c})
      BY <3>1, <3>2, <3>4, SetsUpBoth
    <3> QED BY <2>1, <3>5
  <2>5. CASE Box = "WBOXFIX"
    <3>1. z = IF HaveLock(t) THEN [y EXCEPT !.ctl[Loc(t, c)] = Event(g, c)] ELSE y
      BY <1>1, <2>1, <2>5 DEF z, wex_box_setup, Overwrite
    <3> QED BY <1>2, <1>4, <2>1, <2>5, <3>1, LockWriteSets
  <2> QED BY <1>4, <2>2, <2>3, <2>4, <2>5, WestmereEXUnits DEF IsBox, IsCore, CoreUnits
<1>5. ~IsFree
  BY WestmereEXUnits DEF IsFree, FreeTypes
<1> QED BY <1>3, <1>4, <1>5, KindIs

\* The freeze of the uncore without clearing.
LEMMA WexFreeze ==
  ASSUME NEW y, NEW t, NEW es
  PROVE  wex_uncore_freeze(y, t, es, FALSE) = IF HaveLock(t) /\ UsesPackage(es) THEN Freeze(y, PackageLocs(y)) ELSE y
BY DEF wex_uncore_freeze

\* perfmon_setupCounterThread_westmereEX keeps the contract of setup.
LEMMA WestmereEXSetup ==
  ASSUME UnitOk, Family = "westmereEX", NEW t \in Threads, NEW g \in Groups, NEW y \in Machines
  PROVE  SetupDone(y, perfmon_setupCounterThread_westmereEX(y, t, EventSet(g)), t, g)
<1> DEFINE es == EventSet(g)
           core == GlobalCtrlIf(y, t, es, {})
           base == IF HaveLock(t) /\ UsesPackage(es) THEN Freeze(core, PackageLocs(core)) ELSE core
           st(c, w) == wex_box_setup(w, t, c, es.ev[c])
           pick(s) == CHOOSE x \in s : TRUE
           G == [s \in SUBSET AllCounters |->
                   IF s = {} THEN base
                   ELSE IF s \ {pick(s)} = {} THEN st(pick(s), base)
                   ELSE st(pick(s), st(pick(s \ {pick(s)}), base))]
           Eqn(h) == h = [s \in SUBSET AllCounters |-> IF s = {} THEN base ELSE st(pick(s), h[s \ {pick(s)}])]
           iter == CHOOSE h : Eqn(h)
           w == FoldSet(LAMBDA c, x : wex_box_setup(x, t, c, es.ev[c]), base, AllCounters)
<1>0. CountersOf(es) = AllCounters
  BY EventSetIs DEF UnitOk
<1>1. SetsUp(y, base, t, g, {})
  <2>1. SetsUp(y, core, t, g, {})
    BY CoreOff, SetsUpFrame
  <2> HIDE DEF core
  <2> QED BY <2>1, SetsUpThen
<1>2. base \in Machines
  BY <1>1 DEF SetsUp
<1>3. perfmon_setupCounterThread_westmereEX(y, t, es) = Marked(ConfigureFixed(ClearStatus(w, LocsOf(t, Boxes(t, AllCounters))), t, es), t, g, AllCounters)
  BY <1>0 DEF perfmon_setupCounterThread_westmereEX, wex_fixed_setup, wex_uncore_freeze, Marked
<1> HIDE DEF base
<1>4. \A s \in SUBSET AllCounters : s # {} => pick(s) \in s /\ s \ {pick(s)} \in SUBSET AllCounters
  OBVIOUS
<1>5. ASSUME NEW s \in SUBSET AllCounters, s # {}, NEW p \in s, s \ {p} # {}, NEW q \in s \ {p} PROVE (s \ {p}) \ {q} = {}
  BY <1>5, KindIs
<1>6. Eqn(G)
  <2> HIDE DEF st, pick
  <2>1. ASSUME NEW s \in SUBSET AllCounters, s # {} PROVE G[s] = st(pick(s), G[s \ {pick(s)}])
    <3>1. pick(s) \in s /\ s \ {pick(s)} \in SUBSET AllCounters
      BY <1>4, <2>1
    <3>2. CASE s \ {pick(s)} = {}
      BY <2>1, <3>2
    <3>3. CASE s \ {pick(s)} # {}
      <4>1. (s \ {pick(s)}) \ {pick(s \ {pick(s)})} = {}
        BY <1>4, <1>5, <2>1, <3>1, <3>3
      <4>2. G[s \ {pick(s)}] = st(pick(s \ {pick(s)}), base)
        BY <3>1, <3>3, <4>1
      <4> QED BY <2>1, <3>3, <4>2
    <3> QED BY <3>2, <3>3
  <2> QED BY <2>1
<1>7. Eqn(iter)
  <2> HIDE DEF G, Eqn
  <2> QED BY <1>6, Zenon
<1>8. w = iter[AllCounters]
  <2> HIDE DEF es
  <2> QED BY DEF FoldSet, MapThenFoldSet
<1>9. ASSUME NEW c \in AllCounters, NEW x \in Machines PROVE SetsUp(x, st(c, x), t, g, {c} \ {fx})
  BY WestmereEXStep
<1> HIDE DEF st, pick, iter, w
<1>10. SetsUp(base, iter[AllCounters], t, g, AllCounters \ {fx})
  <2>1. iter[{}] = base
    BY <1>7
  <2>2. ASSUME NEW s \in SUBSET AllCounters, s # {}
        PROVE  \E c \in s : iter[s \ {c}] \in Machines => SetsUp(iter[s \ {c}], iter[s], t, g, {c} \ {fx})
    <3>1. pick(s) \in s /\ pick(s) \in AllCounters /\ iter[s] = st(pick(s), iter[s \ {pick(s)}])
      BY <1>4, <1>7, <2>2
    <3> QED BY <1>9, <3>1
  <2> QED BY <1>2, <2>1, <2>2, FoldSetsUp
<1>11. SetsUp(y, w, t, g, {} \cup (AllCounters \ {fx}))
  BY <1>1, <1>8, <1>10, SetsUpBoth
<1>12. SetupDone(y, Marked(ConfigureFixed(ClearStatus(w, LocsOf(t, Boxes(t, AllCounters))), t, es), t, g, AllCounters), t, g)
  <2> DEFINE v == ClearStatus(w, LocsOf(t, Boxes(t, AllCounters)))
  <2>1. SetsUp(y, v, t, g, AllCounters \ {fx})
    BY <1>11, SetsUpThen
  <2> HIDE DEF v
  <2>2. SetupDone(y, Marked(ConfigureFixed(v, t, EventSet(g)), t, g, AllCounters), t, g)
    BY <2>1, SetupEnds
  <2> QED BY <2>2 DEF v
<1> QED BY <1>3, <1>12

\* perfmon_startCountersThread_westmereEX keeps the contract of start.
LEMMA WestmereEXStart ==
  ASSUME UnitOk, Family = "westmereEX", NEW t \in Threads, NEW g \in Groups, NEW y \in Machines, Inits(y, g, t) = AllCounters
  PROVE  StartDone(y, perfmon_startCountersThread_westmereEX(y, t, EventSet(g)), t, g)
<1> DEFINE es == EventSet(g)
           a == ResetData(y, t, es, AllCounters)
           b == Zero(a, LocsOf(t, CoreOf(AllCounters)))
           c == IF HaveLock(t) /\ UsesPackage(es) THEN Unfreeze(b, PackageLocs(b)) ELSE b
           z == IF CoreOf(AllCounters) = {} THEN c ELSE ClearStatus(GlobalCtrl(c, t, CoreOf(AllCounters)), LocsOf(t, CoreOf(AllCounters)))
<1>1. InitOf(y, t, es) = AllCounters /\ CountersOf(es) = AllCounters
  BY InitOfIs
<1>2. z = perfmon_startCountersThread_westmereEX(y, t, es)
  BY <1>1 DEF perfmon_startCountersThread_westmereEX, wex_uncore_unfreeze
<1>3. Keeps(y, a, t, g) /\ On(a) = On(y)
  <2>0. Keeps(y, y, t, g)
    BY KeepsNothing
  <2>1. Stores(y, a, t, g)
    BY Noting DEF Reads
  <2> QED BY <2>0, <2>1, KeepsStores
<1> HIDE DEF a
<1>4. Keeps(y, b, t, g) /\ On(b) = On(a)
  <2>1. Stores(a, b, t, g)
    BY <1>3, Noting DEF Keeps, Reads
  <2> QED BY <1>3, <2>1, KeepsStores
<1> HIDE DEF b
<1>5. Keeps(y, c, t, g) /\ On(c) = On(b) \cup BoxHeld(t)
  BY <1>4, KeepsPackageOn
<1> HIDE DEF c
<1>6. Keeps(y, z, t, g) /\ On(z) = On(c) \cup CoreHeld(t)
  <2>1. PICK L : L = LocsOf(t, CoreOf(AllCounters))
    OBVIOUS
  <2>2. z = IF CoreOf(AllCounters) = {} THEN c ELSE ClearStatus(GlobalCtrl(c, t, CoreOf(AllCounters)), L)
    BY <2>1
  <2> HIDE DEF z
  <2> QED BY <1>5, <2>2, KeepsCoreStart
<1> HIDE DEF z
<1>7. StartDone(y, z, t, g)
  BY <1>3, <1>4, <1>5, <1>6, StartEnds, WestmereEXUnits, CoreHasNoBox
<1> QED BY <1>2, <1>7

WexSampled(y, t, g) == FoldSet(LAMBDA c, x : Sample(x, t, EventSet(g), {c}, {}), y, Boxes(t, AllCounters))

\* The read of all counters only changes records.
LEMMA WexSampling ==
  ASSUME UnitOk, NEW t \in Threads, NEW g \in Groups, NEW y \in Machines
  PROVE  Reads(y, WexSampled(y, t, g), t, g)
<1> DEFINE es == EventSet(g)
           S == Boxes(t, AllCounters)
           st(c, w) == Sample(w, t, es, {c}, {})
           pick(s) == CHOOSE x \in s : TRUE
           G == [s \in SUBSET S |->
                   IF s = {} THEN y
                   ELSE IF s \ {pick(s)} = {} THEN st(pick(s), y)
                   ELSE st(pick(s), st(pick(s \ {pick(s)}), y))]
           Eqn(h) == h = [s \in SUBSET S |-> IF s = {} THEN y ELSE st(pick(s), h[s \ {pick(s)}])]
           iter == CHOOSE h : Eqn(h)
           w == FoldSet(LAMBDA c, x : Sample(x, t, es, {c}, {}), y, S)
<1>0. S \subseteq AllCounters
  BY OwnedIs DEF Boxes, UncoreOf
<1>3. WexSampled(y, t, g) = w
  BY DEF WexSampled
<1> HIDE DEF S
<1>4. \A s \in SUBSET S : s # {} => pick(s) \in s /\ s \ {pick(s)} \in SUBSET S
  OBVIOUS
<1>5. ASSUME NEW s \in SUBSET S, s # {}, NEW p \in s, s \ {p} # {}, NEW q \in s \ {p} PROVE (s \ {p}) \ {q} = {}
  BY <1>5, <1>0, KindIs
<1>6. Eqn(G)
  <2> HIDE DEF st, pick
  <2>1. ASSUME NEW s \in SUBSET S, s # {} PROVE G[s] = st(pick(s), G[s \ {pick(s)}])
    <3>1. pick(s) \in s /\ s \ {pick(s)} \in SUBSET S
      BY <1>4, <2>1
    <3>2. CASE s \ {pick(s)} = {}
      BY <2>1, <3>2
    <3>3. CASE s \ {pick(s)} # {}
      <4>1. (s \ {pick(s)}) \ {pick(s \ {pick(s)})} = {}
        BY <1>4, <1>5, <2>1, <3>1, <3>3
      <4>2. G[s \ {pick(s)}] = st(pick(s \ {pick(s)}), y)
        BY <3>1, <3>3, <4>1
      <4> QED BY <2>1, <3>3, <4>2
    <3> QED BY <3>2, <3>3
  <2> QED BY <2>1
<1>7. Eqn(iter)
  <2> HIDE DEF G, Eqn
  <2> QED BY <1>6, Zenon
<1>8. w = iter[S]
  <2> HIDE DEF es
  <2> QED BY DEF FoldSet, MapThenFoldSet
<1>9. ASSUME NEW c \in AllCounters, NEW x \in Machines PROVE Reads(x, st(c, x), t, g)
  BY Noting
<1> HIDE DEF st, pick, iter, w
<1>10. Reads(y, iter[S], t, g)
  <2>1. iter[{}] = y /\ Reads(y, y, t, g)
    BY <1>7, StoresNothing
  <2>2. PICK all : all = FALSE
    OBVIOUS
  <2>3. ASSUME NEW s \in SUBSET S, s # {}
        PROVE  \E c \in s : iter[s \ {c}] \in Machines =>
                  Stores(iter[s \ {c}], iter[s], t, g) /\ (~all => Reads(iter[s \ {c}], iter[s], t, g))
    <3>1. pick(s) \in s /\ iter[s] = st(pick(s), iter[s \ {pick(s)}])
      BY <1>4, <1>7, <2>3
    <3>2. pick(s) \in AllCounters
      BY <1>0, <3>1
    <3>3. iter[s \ {pick(s)}] \in Machines =>
             Stores(iter[s \ {pick(s)}], iter[s], t, g) /\ (~all => Reads(iter[s \ {pick(s)}], iter[s], t, g))
      BY <1>9, <2>2, <3>1, <3>2 DEF Reads
    <3> QED BY <3>1, <3>3
  <2>4. Stores(y, iter[S], t, g) /\ (~all => Reads(y, iter[S], t, g))
    BY <1>0, <2>1, <2>3, FoldStores
  <2> QED BY <2>2, <2>4
<1> QED BY <1>3, <1>8, <1>10

WexChecked(y, t, g) == FoldSet(LAMBDA c, x : WEX_CHECK_UNCORE_OVERFLOW(x, t, EventSet(g), c), y, Boxes(t, AllCounters))

\* So does the check for overflows.
LEMMA WexChecking ==
  ASSUME UnitOk, NEW t \in Threads, NEW g \in Groups, NEW y \in Machines
  PROVE  Reads(y, WexChecked(y, t, g), t, g)
<1> DEFINE es == EventSet(g)
           S == Boxes(t, AllCounters)
           st(c, w) == WEX_CHECK_UNCORE_OVERFLOW(w, t, es, c)
           pick(s) == CHOOSE x \in s : TRUE
           G == [s \in SUBSET S |->
                   IF s = {} THEN y
                   ELSE IF s \ {pick(s)} = {} THEN st(pick(s), y)
                   ELSE st(pick(s), st(pick(s \ {pick(s)}), y))]
           Eqn(h) == h = [s \in SUBSET S |-> IF s = {} THEN y ELSE st(pick(s), h[s \ {pick(s)}])]
           iter == CHOOSE h : Eqn(h)
           w == FoldSet(LAMBDA c, x : WEX_CHECK_UNCORE_OVERFLOW(x, t, es, c), y, S)
<1>0. S \subseteq AllCounters
  BY OwnedIs DEF Boxes, UncoreOf
<1>3. WexChecked(y, t, g) = w
  BY DEF WexChecked
<1> HIDE DEF S
<1>4. \A s \in SUBSET S : s # {} => pick(s) \in s /\ s \ {pick(s)} \in SUBSET S
  OBVIOUS
<1>5. ASSUME NEW s \in SUBSET S, s # {}, NEW p \in s, s \ {p} # {}, NEW q \in s \ {p} PROVE (s \ {p}) \ {q} = {}
  BY <1>5, <1>0, KindIs
<1>6. Eqn(G)
  <2> HIDE DEF st, pick
  <2>1. ASSUME NEW s \in SUBSET S, s # {} PROVE G[s] = st(pick(s), G[s \ {pick(s)}])
    <3>1. pick(s) \in s /\ s \ {pick(s)} \in SUBSET S
      BY <1>4, <2>1
    <3>2. CASE s \ {pick(s)} = {}
      BY <2>1, <3>2
    <3>3. CASE s \ {pick(s)} # {}
      <4>1. (s \ {pick(s)}) \ {pick(s \ {pick(s)})} = {}
        BY <1>4, <1>5, <2>1, <3>1, <3>3
      <4>2. G[s \ {pick(s)}] = st(pick(s \ {pick(s)}), y)
        BY <3>1, <3>3, <4>1
      <4> QED BY <2>1, <3>3, <4>2
    <3> QED BY <3>2, <3>3
  <2> QED BY <2>1
<1>7. Eqn(iter)
  <2> HIDE DEF G, Eqn
  <2> QED BY <1>6, Zenon
<1>8. w = iter[S]
  <2> HIDE DEF es
  <2> QED BY DEF FoldSet, MapThenFoldSet
<1>9. ASSUME NEW c \in AllCounters, NEW x \in Machines PROVE Reads(x, st(c, x), t, g)
  BY Sampling, SamplingBox DEF WEX_CHECK_UNCORE_OVERFLOW
<1> HIDE DEF st, pick, iter, w
<1>10. Reads(y, iter[S], t, g)
  <2>1. iter[{}] = y /\ Reads(y, y, t, g)
    BY <1>7, StoresNothing
  <2>2. PICK all : all = FALSE
    OBVIOUS
  <2>3. ASSUME NEW s \in SUBSET S, s # {}
        PROVE  \E c \in s : iter[s \ {c}] \in Machines =>
                  Stores(iter[s \ {c}], iter[s], t, g) /\ (~all => Reads(iter[s \ {c}], iter[s], t, g))
    <3>1. pick(s) \in s /\ iter[s] = st(pick(s), iter[s \ {pick(s)}])
      BY <1>4, <1>7, <2>3
    <3>2. pick(s) \in AllCounters
      BY <1>0, <3>1
    <3>3. iter[s \ {pick(s)}] \in Machines =>
             Stores(iter[s \ {pick(s)}], iter[s], t, g) /\ (~all => Reads(iter[s \ {pick(s)}], iter[s], t, g))
      BY <1>9, <2>2, <3>1, <3>2 DEF Reads
    <3> QED BY <3>1, <3>3
  <2>4. Stores(y, iter[S], t, g) /\ (~all => Reads(y, iter[S], t, g))
    BY <1>0, <2>1, <2>3, FoldStores
  <2> QED BY <2>2, <2>4
<1> QED BY <1>3, <1>8, <1>10

\* What is read before and after the boxes.
LEMMA WexReads ==
  ASSUME UnitOk, NEW t \in Threads, NEW g \in Groups, NEW y \in Machines, NEW cs
  PROVE  LET a == SampleStatus(y, t, EventSet(g), CoreOf(AllCounters)) IN
         /\ Reads(y, ClearData(WexSampled(a, t, g), t, EventSet(g), cs), t, g)
         /\ Reads(y, ClearData(WexChecked(a, t, g), t, EventSet(g), cs), t, g)
<1> DEFINE a == SampleStatus(y, t, EventSet(g), CoreOf(AllCounters))
           b == WexSampled(a, t, g)
           c == WexChecked(a, t, g)
<1>1. Reads(y, a, t, g)
  BY Sampling
<1> HIDE DEF a
<1>2. Reads(a, b, t, g) /\ Reads(a, c, t, g)
  BY <1>1, WexSampling, WexChecking DEF Reads, Stores
<1> HIDE DEF b, c
<1>3. Reads(b, ClearData(b, t, EventSet(g), cs), t, g) /\ Reads(c, ClearData(c, t, EventSet(g), cs), t, g)
  BY <1>2, Noting DEF Reads, Stores
<1>4. Reads(y, ClearData(b, t, EventSet(g), cs), t, g) /\ Reads(y, ClearData(c, t, EventSet(g), cs), t, g)
  BY <1>1, <1>2, <1>3, StoresBoth
<1> QED BY <1>4 DEF a, b, c

\* perfmon_stopCountersThread_westmereEX keeps the contract of stop.
LEMMA WestmereEXStop ==
  ASSUME UnitOk, Family = "westmereEX", NEW t \in Threads, NEW g \in Groups, NEW y \in Machines, Inits(y, g, t) = AllCounters
  PROVE  StopDone(y, perfmon_stopCountersThread_westmereEX(y, t, EventSet(g)), t, g)
<1> DEFINE es == EventSet(g)
           a == GlobalCtrlIf(y, t, es, {})
           b == IF HaveLock(t) /\ UsesPackage(es) THEN Freeze(a, PackageLocs(a)) ELSE a
           L == LocsOf(t, AllCounters) \cup FixedLocs(a, t, AllCounters)
           d == IF HaveLock(t) THEN Deselect(b, L) ELSE b
           v == SampleStatus(d, t, es, CoreOf(AllCounters))
           z == ClearData(WexSampled(v, t, g), t, es, AllCounters \ (CoreOf(AllCounters) \cup Boxes(t, AllCounters)))
<1>1. InitOf(y, t, es) = AllCounters /\ CountersOf(es) = AllCounters
  BY InitOfIs
<1>2. z = perfmon_stopCountersThread_westmereEX(y, t, es)
  <2>1. wex_uncore_freeze(a, t, es, TRUE) = d
    BY <1>1 DEF wex_uncore_freeze
  <2> QED BY <1>1, <2>1 DEF perfmon_stopCountersThread_westmereEX, wex_read, WexSampled
<1>3. Keeps(y, a, t, g) /\ On(a) = On(y) \ CoreHeld(t)
  <2>1. Keeps(y, y, t, g)
    BY KeepsNothing
  <2> QED BY <2>1, KeepsCoreOff
<1>4. a \in Machines
  BY <1>3 DEF Keeps
<1>5. HaveLock(t) => Programmable(L)
  <2>1. FixedLocs(a, t, AllCounters) \subseteq CoreHeld(t)
    <3> HIDE DEF a
    <3> QED BY <1>4, PackageIs
  <2>2. HaveLock(t) => LocsOf(t, AllCounters) = LocsOf(t, AllCounters \cap Owned(t))
    BY OwnedIs, KindIs, WestmereEXUnits DEF HaveLock, IsFree, FreeTypes
  <2>3. LocsOf(t, AllCounters \cap Owned(t)) \subseteq Held(t) /\ CoreHeld(t) \subseteq Held(t) /\ Held(t) \subseteq Programmed
    BY ZenonT(40), HeldIs
  <2> QED BY <2>1, <2>2, <2>3 DEF Programmable, Programmed
<1> HIDE DEF a, L
<1>6. Keeps(y, b, t, g) /\ On(b) = On(a) \ BoxHeld(t)
  BY <1>3, KeepsPackageOff
<1> HIDE DEF b
<1>7. d \in Machines
  <2>1. b \in Machines
    BY <1>6 DEF Keeps
  <2> QED BY <1>5, <2>1, DeselectIs
<1>8. Reads(d, z, t, g)
  <2> HIDE DEF d
  <2>1. PICK cs : cs = AllCounters \ (CoreOf(AllCounters) \cup Boxes(t, AllCounters))
    OBVIOUS
  <2>2. Reads(d, ClearData(WexSampled(v, t, g), t, EventSet(g), cs), t, g)
    BY <1>7, WexReads
  <2> QED BY <2>1, <2>2
<1> HIDE DEF v, z
<1>9. On(b) \subseteq On(y) /\ On(b) \cap Held(t) = {}
  BY <1>3, <1>6, HeldIs
<1>10. StopDone(y, z, t, g)
  <2>1. CASE HaveLock(t)
    <3>1. d = Deselect(b, L) /\ Stores(d, z, t, g)
      BY <1>8, <2>1 DEF Reads
    <3> HIDE DEF d
    <3>2. unit \in Deselected \cup Direct /\ ~(ByInit /\ unit \notin KeepsSelection)
      BY WestmereEXUnits
    <3>3. unit \notin NotFrozen => \A l \in Held(t) : l \notin On(b) \/ l \in L
      BY <1>9
    <3> QED BY <1>5, <1>6, <1>9, <2>1, <3>1, <3>2, <3>3, StopEndsOff
  <2>2. CASE ~HaveLock(t)
    <3>1. Reads(b, z, t, g)
      BY <1>8, <2>2
    <3>2. Keeps(y, z, t, g) /\ On(z) = On(b)
      BY <1>6, <3>1, KeepsStores DEF Reads
    <3> QED BY <1>9, <3>2, StopEnds, HeldIs
  <2> QED BY <2>1, <2>2
<1> QED BY <1>2, <1>10

\* perfmon_readCountersThread_westmereEX keeps the contract of read.
LEMMA WestmereEXRead ==
  ASSUME UnitOk, Family = "westmereEX", NEW t \in Threads, NEW g \in Groups, NEW y \in Machines, Inits(y, g, t) = AllCounters,
         Programmed \subseteq On(y)
  PROVE  ReadDone(y, perfmon_readCountersThread_westmereEX(y, t, EventSet(g)), t, g)
<1> DEFINE es == EventSet(g)
           a == GlobalCtrlIf(y, t, es, {})
           b == IF HaveLock(t) /\ UsesPackage(es) THEN Freeze(a, PackageLocs(a)) ELSE a
           c == ClearData(WexChecked(SampleStatus(b, t, es, CoreOf(AllCounters)), t, g), t, es,
                          AllCounters \ (CoreOf(AllCounters) \cup Boxes(t, AllCounters)))
           d == IF HaveLock(t) /\ UsesPackage(es) THEN Unfreeze(c, PackageLocs(c)) ELSE c
           z == GlobalCtrlIf(d, t, es, RunningCore(y, t))
<1>1. InitOf(y, t, es) = AllCounters /\ CountersOf(es) = AllCounters
  BY InitOfIs
<1>2. z = perfmon_readCountersThread_westmereEX(y, t, es)
  BY <1>1 DEF perfmon_readCountersThread_westmereEX, wex_read, WexChecked, wex_uncore_freeze, wex_uncore_unfreeze, RunningCore
<1>3. Keeps(y, a, t, g) /\ On(a) = On(y) \ CoreHeld(t) /\ a.cnt = y.cnt
  <2>0. Keeps(y, y, t, g)
    BY KeepsNothing
  <2> QED BY <2>0, KeepsCoreOff
<1> HIDE DEF a
<1>4. Keeps(y, b, t, g) /\ On(b) = On(a) \ BoxHeld(t) /\ b.cnt = y.cnt
  BY <1>3, KeepsPackageOff
<1> HIDE DEF b
<1>5. Keeps(y, c, t, g) /\ On(c) = On(b) /\ c.cnt = y.cnt
  <2>1. Reads(b, c, t, g)
    <3>1. PICK cs : cs = AllCounters \ (CoreOf(AllCounters) \cup Boxes(t, AllCounters))
      OBVIOUS
    <3>2. Reads(b, ClearData(WexChecked(SampleStatus(b, t, EventSet(g), CoreOf(AllCounters)), t, g), t, EventSet(g), cs), t, g)
      BY <1>4, WexReads DEF Keeps
    <3> QED BY <3>1, <3>2
  <2> QED BY <1>4, <2>1, KeepsReads
<1> HIDE DEF c
<1>6. Keeps(y, d, t, g) /\ On(d) = On(c) \cup BoxHeld(t) /\ d.cnt = y.cnt
  BY <1>5, KeepsPackageOn
<1> HIDE DEF d
<1>7. Keeps(y, z, t, g) /\ On(z) = (On(d) \ CoreHeld(t)) \cup (On(y) \cap CoreHeld(t)) /\ z.cnt = y.cnt
  BY <1>6, KeepsCoreBack
<1> HIDE DEF z
<1>8. On(z) = On(y)
  BY <1>3, <1>4, <1>5, <1>6, <1>7, HeldIs, CoreHasNoBox
<1>9. ReadDone(y, z, t, g)
  BY <1>7, <1>8, ReadEnds
<1> QED BY <1>2, <1>9

\* perfmon_finalizeCountersThread_westmereEX keeps the contract of finalize.
LEMMA WestmereEXFinalize ==
  ASSUME UnitOk, Family = "westmereEX", NEW t \in Threads, NEW g \in Groups, NEW y \in Machines
  PROVE  FinalizeDone(y, perfmon_finalizeCountersThread_westmereEX(y, t, EventSet(g)), t, g)
<1> DEFINE es == EventSet(g)
           L == LocsOf(t, CoreOf(AllCounters) \cup Boxes(t, AllCounters)) \cup FixedLocs(y, t, AllCounters)
           a == Deselect(y, L)
           c == ClearStatus(a, LocsOf(t, CoreOf(AllCounters)))
           d == GlobalCtrlIf(c, t, es, {})
           e == IF HaveLock(t) /\ UsesPackage(es) THEN Freeze(d, PackageLocs(d)) ELSE d
           z == perfmon_finalizeCountersThread_westmereEX(y, t, es)
<1>1. CountersOf(es) = AllCounters
  BY InitOfIs
<1>2. z = Unmarked(e, t, g, AllCounters)
  BY <1>1 DEF perfmon_finalizeCountersThread_westmereEX, wex_uncore_freeze, Unmarked
<1>3. Programmable(L) /\ Held(t) \subseteq L
  BY ClearsHeld
<1> HIDE DEF L, z
<1>4. Clears(y, a, t, g, L, y.filter)
  BY <1>3, ClearsFirst
<1> HIDE DEF a
<1>5. Clears(y, c, t, g, L, y.filter)
  BY <1>4, ClearsThen
<1> HIDE DEF c
<1>6. Clears(y, d, t, g, L, y.filter)
  BY <1>5, ClearsThen
<1> HIDE DEF d
<1>7. Clears(y, e, t, g, L, y.filter)
  BY <1>6, ClearsThen
<1> HIDE DEF e
<1>8. Clears(y, z, t, g, L, y.filter)
  BY <1>2, <1>7, ClearsThen
<1>9. FinalizeDone(y, z, t, g)
  BY <1>3, <1>8, FinalizesAll, WestmereEXUnits
<1> QED BY <1>9 DEF z

-----------------------------------------------------------------------------
(* perfmon_sandybridge.h. *)

\* What is said of the units of sandybridge.
LEMMA SandybridgeUnits ==
  ASSUME UnitOk, Family = "sandybridge"
  PROVE  /\ Cpu \in {"sandybridgeEP", "sandybridge"} /\ (EP <=> Cpu = "sandybridgeEP") /\ ByInit
         /\ IsBox => Box \in {"MBOX", "MBOXFIX", "CBOX", "UBOX", "UBOXFIX", "BBOX", "WBOX", "PBOX", "SBOX", "RBOX"}
         /\ IsBox /\ ~EP => Box \in {"CBOX", "UBOX", "UBOXFIX"}
         /\ LateUnit <=> Box = "MBOXFIX"
         /\ unit \in Direct <=> Box \in {"UBOXFIX", "MBOXFIX"}
         /\ unit \notin FilterSet /\ unit \notin FilterCleared /\ unit \notin NeverFiltered /\ unit \notin KeepsSelection
         /\ Box = "WBOX" => EP /\ unit \in Deselected
         /\ unit \in Halted <=> ~EP /\ Box = "CBOX"
         /\ unit \in NotFrozen <=> EP /\ IsBox /\ Box \notin {"CBOX", "WBOX"}
         /\ Box = "MBOXFIX" => EP
<1>1. Cpu \in {"sandybridgeEP", "sandybridge"} /\ (EP <=> Cpu = "sandybridgeEP") /\ ByInit
  BY DEF UnitOk, Family, AllUnits, Of, Cpu, EP, ByInit
<1>2. unit = <<Cpu, Box>> /\ Box \in EPBoxes \cup ClientBoxes \cup {"CORE", "SBOX", "RBOX"}
      /\ (~EP => Box \in ClientBoxes)
  BY <1>1 DEF UnitOk, AllUnits, Of, Cpu, Box
<1>3. unit \notin FilterSet /\ unit \notin FilterCleared /\ unit \notin NeverFiltered /\ unit \notin KeepsSelection
  BY <1>1, <1>2 DEF Of, FilterSet, FilterCleared, NeverFiltered, KeepsSelection
<1>4. IsBox => Box \in {"MBOX", "MBOXFIX", "CBOX", "UBOX", "UBOXFIX", "BBOX", "WBOX", "PBOX", "SBOX", "RBOX"}
      /\ (~EP => Box \in {"CBOX", "UBOX", "UBOXFIX"})
  BY <1>1, <1>2 DEF Of, EPBoxes, ClientBoxes, IsBox, IsCore, IsFree, CoreUnits, FreeTypes
<1>5. /\ LateUnit <=> Box = "MBOXFIX"
      /\ unit \in Direct <=> Box \in {"UBOXFIX", "MBOXFIX"}
      /\ Box = "MBOXFIX" => EP
  BY <1>1, <1>2 DEF Of, EPBoxes, ClientBoxes, LateUnit, Direct
<1>6. /\ Box = "WBOX" => EP /\ unit \in Deselected
      /\ unit \in Halted <=> ~EP /\ Box = "CBOX"
  BY <1>1, <1>2 DEF Of, EPBoxes, ClientBoxes, Deselected, Halted
<1>7. unit \in NotFrozen <=> EP /\ IsBox /\ Box \notin {"CBOX", "WBOX"}
  BY <1>1, <1>2 DEF Of, EPBoxes, ClientBoxes, NotFrozen, IsBox, IsCore, IsFree, CoreUnits, FreeTypes
<1> QED BY <1>1, <1>3, <1>4, <1>5, <1>6, <1>7

\* perfmon_setupCounterThread_sandybridge sets up one counter.
LEMMA SandybridgeStep ==
  ASSUME UnitOk, Family = "sandybridge", NEW t \in Threads, NEW g \in Groups, NEW c \in AllCounters, NEW y \in Machines
  PROVE  SetsUp(y, snb_box_setup(y, t, c, EventSet(g).ev[c], EP), t, g, {c} \ {fx})
<1> DEFINE e == EventSet(g).ev[c]
           z == snb_box_setup(y, t, c, e, EP)
<1>1. e.flags = Event(g, c)
  BY EventIs
<1>2. /\ unit \in Direct <=> Box \in {"UBOXFIX", "MBOXFIX"}
      /\ LateUnit <=> Box = "MBOXFIX"
      /\ unit \notin FilterSet /\ unit \notin NeverFiltered
  BY SandybridgeUnits
<1> SUFFICES SetsUp(y, z, t, g, {c} \ {fx})
  OBVIOUS
<1> HIDE DEF z
<1>3. CASE IsCore
  <2>1. (Type(c) = "PMC" => z = Configure(y, t, c, Event(g, c))) /\ (Type(c) # "PMC" => z = y)
    BY <1>1, <1>3, CoreUnit DEF UnitOk, z, snb_box_setup, snb_pmc_setup, CoreTypes
  <2> QED BY <1>3, <2>1, CoreStep
<1>4. CASE IsBox
  <2>1. Type(c) = Box /\ {c} \ {fx} = {c}
    BY <1>4, BoxStep
  <2>2. CASE Box \in {"MBOX", "RBOX", "PBOX"} \/ (Box = "CBOX" /\ ~EP)
    <3>1. z = ConfigureBox(y, t, c, Event(g, c))
      BY <1>1, <2>1, <2>2 DEF z, snb_box_setup, snb_mbox_setup, snb_rbox_setup, snb_pbox_setup, snb_cbox_setup
    <3> QED BY <1>2, <1>4, <2>1, <2>2, <3>1, BoxSets
  <2>3. CASE Box \in {"BBOX", "WBOX", "SBOX"} \/ (Box = "CBOX" /\ EP)
    <3> DEFINE w == IF HaveLock(t) /\ e.filter # {} THEN SetFilter(y, c, e.filter) ELSE y
    <3>1. z = ConfigureBox(w, t, c, Event(g, c))
      BY <1>1, <2>1, <2>3 DEF z, snb_box_setup, snb_bbox_setup, snb_wbox_setup, snb_sbox_setup, snbep_cbox_setup, WithFilterOption
    <3>2. SetsUp(y, ConfigureBox(w, t, c, Event(g, c)), t, g, {c})
      BY <1>2, <1>4, <2>3, OptionSets
    <3> HIDE DEF w
    <3> QED BY <2>1, <3>1, <3>2
  <2>4. CASE Box = "UBOX"
    <3> DEFINE v == ConfigureBox(y, t, c, Event(g, c))
               u == Freeze(v, {Loc(t, c)})
    <3>1. z = v \/ z = Zero(u, {Loc(t, c)})
      BY <1>1, <2>1, <2>4 DEF z, snb_box_setup, snb_ubox_setup, ConfigureBox, Configure
    <3>2. SetsUp(y, v, t, g, {c})
      BY <1>2, <1>4, <2>1, <2>4, BoxSets
    <3> HIDE DEF v
    <3>3. SetsUp(y, u, t, g, {c})
      BY <3>2, SetsUpThen
    <3> HIDE DEF u
    <3>4. SetsUp(y, Zero(u, {Loc(t, c)}), t, g, {c})
      BY <3>3, SetsUpThen
    <3> QED BY <2>1, <3>1, <3>2, <3>4
  <2>5. CASE Box = "UBOXFIX"
    <3> DEFINE v == [y EXCEPT !.ctl[Loc(t, c)] = Event(g, c)]
    <3>1. z = Unfreeze(v, {Loc(t, c)})
      BY <1>1, <2>1, <2>5 DEF z, snb_box_setup
    <3>2. SetsUp(y, v, t, g, {c})
      BY <1>2, <1>4, <2>5, WriteSets
    <3> HIDE DEF v
    <3>3. SetsUp(y, Unfreeze(v, {Loc(t, c)}), t, g, {c})
      BY <3>2, SetsUpThen
    <3> QED BY <2>1, <3>1, <3>3
  <2>6. CASE Box = "MBOXFIX"
    <3>1. z = y
      BY <2>1, <2>6 DEF z, snb_box_setup
    <3> QED BY <1>2, <2>1, <2>6, <3>1, SkipSets
  <2> QED BY <1>4, <2>2, <2>3, <2>4, <2>5, <2>6, SandybridgeUnits
<1>5. CASE IsFree
  <2>1. z = y
    BY <1>5, FreeStep DEF z, snb_box_setup, FreeTypes
  <2> QED BY <1>5, <2>1, FreeStep
<1> QED BY <1>3, <1>4, <1>5, KindIs

\* The locations of some boxes, as the macros name them.
LEMMA SnbBoxes ==
  ASSUME UnitOk, NEW t \in Threads, NEW g \in Groups, NEW R
  PROVE  /\ LocsOf(t, OfTypes(Boxes(t, CountersOf(EventSet(g))), R)) = IF IsBox /\ t = 1 /\ Box \in R THEN Locs ELSE {}
         /\ LocsOf(t, Boxes(t, CountersOf(EventSet(g))) \ OfTypes(Boxes(t, CountersOf(EventSet(g))), R))
               = IF IsBox /\ t = 1 /\ Box \notin R THEN Locs ELSE {}
         /\ CountersOf(EventSet(g)) = AllCounters
<1>1. CountersOf(EventSet(g)) = AllCounters
  BY EventSetIs DEF UnitOk
<1>2. Boxes(t, AllCounters) = IF IsBox /\ t = 1 THEN AllCounters ELSE {}
  BY OwnedIs
<1>3. LocsOf(t, {}) = {}
  BY DEF LocsOf
<1>4. CASE IsBox /\ t = 1
  <2>1. OfTypes(AllCounters, R) = IF Box \in R THEN AllCounters ELSE {}
    BY <1>4, BoxUnit DEF UnitOk
  <2>2. LocsOf(t, AllCounters) = Locs
    BY <1>4, BoxUnit DEF UnitOk
  <2> QED BY <1>1, <1>2, <1>3, <1>4, <2>1, <2>2
<1>5. CASE ~(IsBox /\ t = 1)
  <2>1. OfTypes({}, R) = {}
    BY DEF OfTypes
  <2> QED BY <1>1, <1>2, <1>3, <1>5, <2>1
<1> QED BY <1>4, <1>5

\* What freezing the boxes does: MBOXFIX is deselected instead.
LEMMA SnbFreezes ==
  ASSUME UnitOk, Family = "sandybridge", NEW y \in Machines, NEW t \in Threads, NEW g \in Groups, NEW z,
         z = snb_freeze(y, t, EventSet(g), EP)
  PROVE  /\ z \in Machines
         /\ z.cnt = y.cnt /\ z.shl = y.shl /\ z.tc = y.tc /\ z.cfg = y.cfg /\ z.filter = y.filter
         /\ ~EP => On(z) = IF IsBox THEN On(y) \ Locs ELSE On(y)
         /\ EP => On(z) = On(y) \ (IF IsBox /\ t = 1 /\ Box \in {"CBOX", "WBOX"} THEN Locs ELSE {})
         /\ \A l \in Locs : z.ctl[l] = IF LateUnit /\ t = 1 THEN Off ELSE y.ctl[l]
<1>1. PICK K : K = LocsOf(t, OfTypes(Boxes(t, CountersOf(EventSet(g))), {"CBOX", "WBOX"}))
  OBVIOUS
<1>2. PICK L : L = LocsOf(t, OfTypes(Boxes(t, CountersOf(EventSet(g))), {"MBOXFIX"}))
  OBVIOUS
<1>3. /\ K = IF IsBox /\ t = 1 /\ Box \in {"CBOX", "WBOX"} THEN Locs ELSE {}
      /\ L = IF IsBox /\ t = 1 /\ Box \in {"MBOXFIX"} THEN Locs ELSE {}
  BY <1>1, <1>2, SnbBoxes
<1>4. LateUnit <=> IsBox /\ Box \in {"MBOXFIX"}
  BY SandybridgeUnits DEF IsBox, IsCore, IsFree, CoreUnits, FreeTypes
<1>5. CASE EP
  <2> DEFINE v == Freeze(y, K)
  <2>1. z = Deselect(v, L)
    BY <1>1, <1>2, <1>5 DEF snb_freeze, SNB_FREEZE_BOX, SNB_FREEZE_MBOXFIX
  <2>2. /\ v \in Machines /\ On(v) = On(y) \ K
        /\ v.shl = y.shl /\ v.ctl = y.ctl /\ v.cnt = y.cnt /\ v.ovf = y.ovf
        /\ v.govf = y.govf /\ v.filter = y.filter /\ v.cfg = y.cfg /\ v.tc = y.tc
    BY FreezeIs
  <2> HIDE DEF v
  <2>3. Programmable(L)
    BY <1>3, BoxUnit DEF UnitOk, Programmable
  <2>4. /\ z \in Machines /\ \A l \in Locs : z.ctl[l] = IF l \in L THEN Off ELSE v.ctl[l]
        /\ z.shl = v.shl /\ z.on = v.on /\ z.cnt = v.cnt /\ z.ovf = v.ovf
        /\ z.govf = v.govf /\ z.filter = v.filter /\ z.cfg = v.cfg /\ z.tc = v.tc
    BY <2>1, <2>2, <2>3, DeselectIs
  <2>5. On(z) = On(v)
    BY <2>4 DEF On
  <2>6. \A l \in Locs : z.ctl[l] = IF LateUnit /\ t = 1 THEN Off ELSE y.ctl[l]
    BY <1>3, <1>4, <2>2, <2>4
  <2> QED BY <1>3, <1>5, <2>2, <2>4, <2>5, <2>6
<1>6. CASE ~EP
  <2>1. PICK P : P = PackageLocs(y)
    OBVIOUS
  <2>2. P = IF IsBox THEN Locs ELSE {}
    BY <2>1, PackageIs
  <2>3. z = Freeze(y, P)
    BY <1>6, <2>1 DEF snb_freeze
  <2>4. /\ z \in Machines /\ On(z) = On(y) \ P
        /\ z.shl = y.shl /\ z.ctl = y.ctl /\ z.cnt = y.cnt /\ z.ovf = y.ovf
        /\ z.govf = y.govf /\ z.filter = y.filter /\ z.cfg = y.cfg /\ z.tc = y.tc
    BY <2>3, FreezeIs
  <2> QED BY <1>4, <1>6, <2>2, <2>4, SandybridgeUnits
<1> QED BY <1>5, <1>6

\* The freeze at the start of setup changes no selection, but that of MBOXFIX.
LEMMA SnbFreezeSets ==
  ASSUME UnitOk, Family = "sandybridge", NEW y \in Machines, NEW t \in Threads, NEW g \in Groups
  PROVE  SetsUp(y, snb_freeze(GlobalCtrlIf(y, t, EventSet(g), {}), t, EventSet(g), EP), t, g, IF LateUnit THEN AllCounters ELSE {})
<1> DEFINE core == GlobalCtrlIf(y, t, EventSet(g), {})
           z == snb_freeze(core, t, EventSet(g), EP)
           S == IF LateUnit THEN AllCounters ELSE {}
<1>1. /\ core \in Machines
      /\ core.shl = y.shl /\ core.ctl = y.ctl /\ core.cnt = y.cnt /\ core.ovf = y.ovf
      /\ core.govf = y.govf /\ core.filter = y.filter /\ core.cfg = y.cfg
      /\ core.tc = y.tc
  BY CoreOff
<1> HIDE DEF core
<1>2. /\ z \in Machines
      /\ z.shl = core.shl /\ z.tc = core.tc /\ z.cfg = core.cfg /\ z.filter = core.filter
      /\ \A l \in Locs : z.ctl[l] = IF LateUnit /\ t = 1 THEN Off ELSE core.ctl[l]
  BY <1>1, SnbFreezes
<1> HIDE DEF z
<1>3. /\ LateUnit => unit \in Direct /\ IsBox
      /\ unit \notin FilterSet
  BY SandybridgeUnits DEF IsBox, IsCore, IsFree, CoreUnits, FreeTypes
<1>4. \A l \in Locs \ LocsOf(t, S \cap Owned(t)) : z.ctl[l] = y.ctl[l]
  <2>1. CASE LateUnit /\ t = 1
    <3>1. AllCounters \cap Owned(t) = AllCounters /\ LocsOf(t, AllCounters) = Locs
      BY <1>3, <2>1, OwnedIs, BoxUnit DEF UnitOk
    <3> QED BY <2>1, <3>1
  <2>2. CASE ~(LateUnit /\ t = 1)
    BY <1>1, <1>2, <2>2
  <2> QED BY <2>1, <2>2
<1>5. \A c \in S \cap Owned(t) : AgreesAt(y, t, c) => AgreesAt(z, t, c) /\ LateUnit
  BY <1>1, <1>2, <1>3 DEF AgreesAt
<1>6. SetsUp(y, z, t, g, S)
  <2> HIDE DEF S
  <2> QED BY <1>1, <1>2, <1>3, <1>4, <1>5 DEF SetsUp
<1> QED BY <1>6 DEF z, core

\* perfmon_setupCounterThread_sandybridge keeps the contract of setup.
LEMMA SandybridgeSetup ==
  ASSUME UnitOk, Family = "sandybridge", NEW t \in Threads, NEW g \in Groups, NEW y \in Machines
  PROVE  SetupDone(y, perfmon_setupCounterThread_sandybridge(y, t, EventSet(g), EP), t, g)
<1> DEFINE es == EventSet(g)
           S == IF LateUnit THEN AllCounters ELSE {}
           base == snb_freeze(GlobalCtrlIf(y, t, es, {}), t, es, EP)
           st(c, w) == snb_box_setup(w, t, c, es.ev[c], EP)
           pick(s) == CHOOSE x \in s : TRUE
           G == [s \in SUBSET AllCounters |->
                   IF s = {} THEN base
                   ELSE IF s \ {pick(s)} = {} THEN st(pick(s), base)
                   ELSE st(pick(s), st(pick(s \ {pick(s)}), base))]
           Eqn(h) == h = [s \in SUBSET AllCounters |-> IF s = {} THEN base ELSE st(pick(s), h[s \ {pick(s)}])]
           iter == CHOOSE h : Eqn(h)
           w == FoldSet(LAMBDA c, x : snb_box_setup(x, t, c, es.ev[c], EP), base, AllCounters)
<1>0. CountersOf(es) = AllCounters
  BY EventSetIs DEF UnitOk
<1>1. SetsUp(y, base, t, g, S)
  BY SnbFreezeSets
<1>2. base \in Machines
  BY <1>1 DEF SetsUp
<1>3. perfmon_setupCounterThread_sandybridge(y, t, es, EP) = Marked(ConfigureFixed(w, t, es), t, g, AllCounters)
  BY <1>0 DEF perfmon_setupCounterThread_sandybridge, snb_fixed_setup, Marked
<1> HIDE DEF base
<1>4. \A s \in SUBSET AllCounters : s # {} => pick(s) \in s /\ s \ {pick(s)} \in SUBSET AllCounters
  OBVIOUS
<1>5. ASSUME NEW s \in SUBSET AllCounters, s # {}, NEW p \in s, s \ {p} # {}, NEW q \in s \ {p} PROVE (s \ {p}) \ {q} = {}
  BY <1>5, KindIs
<1>6. Eqn(G)
  <2> HIDE DEF st, pick
  <2>1. ASSUME NEW s \in SUBSET AllCounters, s # {} PROVE G[s] = st(pick(s), G[s \ {pick(s)}])
    <3>1. pick(s) \in s /\ s \ {pick(s)} \in SUBSET AllCounters
      BY <1>4, <2>1
    <3>2. CASE s \ {pick(s)} = {}
      BY <2>1, <3>2
    <3>3. CASE s \ {pick(s)} # {}
      <4>1. (s \ {pick(s)}) \ {pick(s \ {pick(s)})} = {}
        BY <1>4, <1>5, <2>1, <3>1, <3>3
      <4>2. G[s \ {pick(s)}] = st(pick(s \ {pick(s)}), base)
        BY <3>1, <3>3, <4>1
      <4> QED BY <2>1, <3>3, <4>2
    <3> QED BY <3>2, <3>3
  <2> QED BY <2>1
<1>7. Eqn(iter)
  <2> HIDE DEF G, Eqn
  <2> QED BY <1>6, Zenon
<1>8. w = iter[AllCounters]
  <2> HIDE DEF es
  <2> QED BY DEF FoldSet, MapThenFoldSet
<1>9. ASSUME NEW c \in AllCounters, NEW x \in Machines PROVE SetsUp(x, st(c, x), t, g, {c} \ {fx})
  BY SandybridgeStep
<1> HIDE DEF st, pick, iter, w
<1>10. SetsUp(base, iter[AllCounters], t, g, AllCounters \ {fx})
  <2>1. iter[{}] = base
    BY <1>7
  <2>2. ASSUME NEW s \in SUBSET AllCounters, s # {}
        PROVE  \E c \in s : iter[s \ {c}] \in Machines => SetsUp(iter[s \ {c}], iter[s], t, g, {c} \ {fx})
    <3>1. pick(s) \in s /\ pick(s) \in AllCounters /\ iter[s] = st(pick(s), iter[s \ {pick(s)}])
      BY <1>4, <1>7, <2>2
    <3> QED BY <1>9, <3>1
  <2> QED BY <1>2, <2>1, <2>2, FoldSetsUp
<1>11. SetsUp(y, w, t, g, S \cup (AllCounters \ {fx}))
  BY <1>1, <1>8, <1>10, SetsUpBoth
<1>12. S \cup (AllCounters \ {fx}) = AllCounters \ {fx}
  BY NoFixed, SandybridgeUnits DEF IsCore, CoreUnits
<1>13. SetupDone(y, Marked(ConfigureFixed(w, t, es), t, g, AllCounters), t, g)
  BY <1>11, <1>12, SetupEnds
<1> QED BY <1>3, <1>13

\* What unfreezing the boxes does: MBOXFIX is selected instead.
LEMMA SnbUnfreezeIs ==
  ASSUME UnitOk, Family = "sandybridge", NEW w \in Machines, NEW t \in Threads, NEW g \in Groups, NEW z,
         z = SNB_UNFREEZE_BOX(w, t, EventSet(g))
  PROVE  /\ z \in Machines
         /\ z.shl = w.shl /\ z.cnt = w.cnt /\ z.ovf = w.ovf /\ z.govf = w.govf
         /\ z.filter = w.filter /\ z.cfg = w.cfg /\ z.tc = w.tc
         /\ On(z) = On(w) \cup (IF IsBox /\ t = 1 /\ Box \notin {"UBOX", "UBOXFIX"} THEN Locs ELSE {})
         /\ \A l \in Locs : z.ctl[l] = IF LateUnit /\ t = 1 THEN Event(g, CounterAt(l)) ELSE w.ctl[l]
<1>1. PICK F : F = LocsOf(t, OfTypes(Boxes(t, CountersOf(EventSet(g))), {"MBOXFIX"}))
  OBVIOUS
<1>2. PICK L : L = LocsOf(t, Boxes(t, CountersOf(EventSet(g))) \ OfTypes(Boxes(t, CountersOf(EventSet(g))), {"UBOX", "UBOXFIX"}))
  OBVIOUS
<1>3. /\ F = IF IsBox /\ t = 1 /\ Box \in {"MBOXFIX"} THEN Locs ELSE {}
      /\ L = IF IsBox /\ t = 1 /\ Box \notin {"UBOX", "UBOXFIX"} THEN Locs ELSE {}
  BY <1>1, <1>2, SnbBoxes
<1>4. LateUnit <=> IsBox /\ Box \in {"MBOXFIX"}
  BY SandybridgeUnits DEF IsBox, IsCore, IsFree, CoreUnits, FreeTypes
<1> DEFINE y == Unfreeze(w, L)
           k == [l \in Locs |-> IF l \in F THEN EventSet(g).ev[CounterAt(l)].flags ELSE y.ctl[l]]
<1>5. /\ y \in Machines /\ On(y) = On(w) \cup (L \cap Locs)
      /\ y.shl = w.shl /\ y.ctl = w.ctl /\ y.cnt = w.cnt /\ y.ovf = w.ovf
      /\ y.govf = w.govf /\ y.filter = w.filter /\ y.cfg = w.cfg /\ y.tc = w.tc
  BY UnfreezeIs
<1>6. y.ctl \in [Locs -> Sels] /\ \A l \in Locs : y.ctl[l] \in SelsOf(CounterAt(l))
  BY <1>5, Fields
<1>7. z = [y EXCEPT !.ctl = k]
  <2>1. DOMAIN y.ctl = Locs
    BY <1>6
  <2> QED BY <1>1, <1>2, <2>1, Zenon DEF SNB_UNFREEZE_BOX, CounterAt
<1> HIDE DEF y
<1>8. ASSUME NEW l \in Locs
      PROVE  k[l] = (IF LateUnit /\ t = 1 THEN Event(g, CounterAt(l)) ELSE w.ctl[l]) /\ k[l] \in SelsOf(CounterAt(l))
  <2>1. CounterAt(l) \in AllCounters
    BY LocIs
  <2>2. IsBox => Event(g, CounterAt(l)) \in SelsOf(CounterAt(l))
    BY <2>1, BoxUnit, EventSetIs DEF UnitOk
  <2>3. EventSet(g).ev[CounterAt(l)].flags = Event(g, CounterAt(l))
    BY <2>1, EventIs
  <2>4. l \in F <=> LateUnit /\ t = 1
    BY <1>3, <1>4
  <2>5. k[l] = IF LateUnit /\ t = 1 THEN Event(g, CounterAt(l)) ELSE w.ctl[l]
    BY <1>5, <2>3, <2>4
  <2> QED BY <1>4, <1>5, <1>6, <2>2, <2>5
<1>9. k \in [Locs -> Sels]
  BY <1>8, LocIs DEF Sels
<1> HIDE DEF k
<1>10. /\ z \in Machines /\ z.ctl = k
       /\ z.shl = y.shl /\ z.on = y.on /\ z.cnt = y.cnt /\ z.ovf = y.ovf
       /\ z.govf = y.govf /\ z.filter = y.filter /\ z.cfg = y.cfg /\ z.tc = y.tc
  BY <1>7, <1>5, <1>8, <1>9, PutCtl
<1>11. On(z) = On(w) \cup (IF IsBox /\ t = 1 /\ Box \notin {"UBOX", "UBOXFIX"} THEN Locs ELSE {})
  <2>1. On(z) = On(y)
    BY <1>10 DEF On
  <2> QED BY <1>3, <1>5, <2>1
<1> QED BY <1>5, <1>8, <1>10, <1>11

\* perfmon_startCountersThread_sandybridge keeps the contract of start.
LEMMA SandybridgeStart ==
  ASSUME UnitOk, Family = "sandybridge", NEW t \in Threads, NEW g \in Groups, NEW y \in Machines, Inits(y, g, t) = AllCounters
  PROVE  StartDone(y, perfmon_startCountersThread_sandybridge(y, t, EventSet(g), EP), t, g)
<1> DEFINE es == EventSet(g)
           cs == Boxes(t, AllCounters)
           K == LocsOf(t, CoreOf(AllCounters) \cup OfTypes(cs, {"MBOX", "CBOX", "UBOX", "BBOX"}) \cup OfTypes(AllCounters, {"UBOXFIX"}))
                \cup (IF EP THEN LocsOf(t, OfTypes(Boxes(t, CountersOf(es)), {"CBOX", "SBOX", "WBOX", "RBOX", "PBOX", "MBOXFIX"})) ELSE {})
           U == LocsOf(t, OfTypes(cs, {"UBOX", "UBOXFIX"}))
           a == BeginData(y, t, es, AllCounters)
           b == Zero(a, K)
           c == Unfreeze(b, U)
           F == [c.filter EXCEPT !["WBOX"] = {}]
           d == IF OfTypes(cs, {"WBOX"}) = {} THEN c ELSE [c EXCEPT !.filter = F]
           e == GlobalCtrlIf(d, t, es, CoreOf(AllCounters))
           z == IF EP THEN SNB_UNFREEZE_BOX(e, t, es) ELSE e
<1>1. InitOf(y, t, es) = AllCounters /\ CountersOf(es) = AllCounters
  BY InitOfIs
<1>2. z = perfmon_startCountersThread_sandybridge(y, t, es, EP)
  <2>1. [c EXCEPT !.filter = F] = [c EXCEPT !.filter["WBOX"] = {}]
    OBVIOUS
  <2>2. d = IF OfTypes(cs, {"WBOX"}) = {} THEN c ELSE [c EXCEPT !.filter["WBOX"] = {}]
    BY <2>1
  <2> HIDE DEF F, d
  <2> QED BY <1>1, <2>2, Zenon DEF perfmon_startCountersThread_sandybridge
<1>3. Keeps(y, a, t, g) /\ On(a) = On(y)
  <2>1. Reads(y, a, t, g)
    BY BeginNotes
  <2>2. Keeps(y, y, t, g)
    BY KeepsNothing
  <2> QED BY <2>1, <2>2, KeepsReads
<1> HIDE DEF a, K
<1>4. Keeps(y, b, t, g) /\ On(b) = On(y)
  <2>1. Stores(a, b, t, g)
    BY <1>3, Noting DEF Keeps
  <2> QED BY <1>3, <2>1, KeepsStores
<1> HIDE DEF b
<1>5. U = IF IsBox /\ t = 1 /\ Box \in {"UBOX", "UBOXFIX"} THEN Locs ELSE {}
  BY <1>1, SnbBoxes
<1> HIDE DEF U
<1>6. Keeps(y, c, t, g) /\ On(c) = On(y) \cup (U \cap Locs)
  <2>1. Keeps(y, Unfreeze(b, U), t, g) /\ On(Unfreeze(b, U)) = On(b) \cup (U \cap Locs) /\ Unfreeze(b, U).cnt = b.cnt
    BY <1>4, KeepsUnfreeze
  <2> QED BY <1>4, <2>1
<1> HIDE DEF c
<1>7. c \in Machines /\ c.filter \in [{Box} -> Filters]
  BY <1>6, Fields DEF Keeps
<1>8. /\ d \in Machines /\ (d.filter = c.filter \/ (IsBox /\ unit \in Deselected /\ d.filter[Box] = {}))
      /\ d.shl = c.shl /\ d.ctl = c.ctl /\ d.on = c.on /\ d.cnt = c.cnt
      /\ d.ovf = c.ovf /\ d.govf = c.govf /\ d.cfg = c.cfg /\ d.tc = c.tc
  <2>1. CASE OfTypes(cs, {"WBOX"}) = {}
    BY <1>7, <2>1
  <2>2. CASE OfTypes(cs, {"WBOX"}) # {}
    <3>1. Box = "WBOX" /\ IsBox
      <4>1. PICK k \in cs : Type(k) = "WBOX"
        BY <2>2 DEF OfTypes
      <4>2. IsBox /\ k \in AllCounters
        BY <4>1, OwnedIs
      <4> QED BY <4>1, <4>2, BoxUnit DEF UnitOk
    <3>2. F \in [{Box} -> Filters] /\ F[Box] = {}
      BY <1>7, <3>1 DEF Filters
    <3>3. unit \in Deselected
      BY <3>1, SandybridgeUnits
    <3> HIDE DEF F
    <3>4. d = [c EXCEPT !.filter = F]
      BY <2>2
    <3> QED BY <1>7, <3>1, <3>2, <3>3, <3>4 DEF Machines
  <2> QED BY <2>1, <2>2
<1> HIDE DEF d
<1>9. /\ e \in Machines /\ On(e) = On(d) \cup CoreHeld(t)
      /\ e.shl = d.shl /\ e.ctl = d.ctl /\ e.cnt = d.cnt /\ e.ovf = d.ovf
      /\ e.govf = d.govf /\ e.filter = d.filter /\ e.cfg = d.cfg /\ e.tc = d.tc
  BY <1>8, CoreOn
<1> HIDE DEF e
<1>10. /\ z \in Machines
       /\ z.shl = e.shl /\ z.cnt = e.cnt /\ z.ovf = e.ovf /\ z.govf = e.govf
       /\ z.filter = e.filter /\ z.cfg = e.cfg /\ z.tc = e.tc
       /\ On(z) = On(e) \cup (IF EP /\ IsBox /\ t = 1 /\ Box \notin {"UBOX", "UBOXFIX"} THEN Locs ELSE {})
       /\ \A l \in Locs : z.ctl[l] = IF LateUnit /\ t = 1 THEN Event(g, CounterAt(l)) ELSE e.ctl[l]
  <2>1. CASE EP
    BY <1>9, <2>1, SnbUnfreezeIs
  <2>2. CASE ~EP
    BY <1>9, <2>2, SandybridgeUnits
  <2> QED BY <2>1, <2>2
<1> HIDE DEF z
<1>11. LateUnit => IsBox /\ EP /\ Box = "MBOXFIX"
  BY SandybridgeUnits DEF IsBox, IsCore, IsFree, CoreUnits, FreeTypes
<1>12. unit \notin Halted => On(y) \cup Held(t) \subseteq On(z)
  <2>1. On(d) = On(c)
    BY <1>8 DEF On
  <2>2. Held(t) = CoreHeld(t) \cup (IF IsBox /\ t = 1 THEN Locs ELSE {})
    BY HeldIs
  <2> QED BY <1>5, <1>6, <1>9, <1>10, <2>1, <2>2, SandybridgeUnits
<1>13. \A l \in Held(t) : l \in Locs /\ (LateUnit => t = 1)
  BY <1>11, HeldIs, KindIs DEF CoreHeld, BoxHeld
<1>14. Others(y, z, t, g) /\ Inits(z, g, t) = AllCounters /\ z.cfg = y.cfg
  BY <1>6, <1>8, <1>9, <1>10 DEF Keeps, Others, Inits
<1>15. z.filter = y.filter \/ (IsBox /\ unit \in Deselected /\ z.filter[Box] = {})
  BY <1>6, <1>8, <1>9, <1>10 DEF Keeps
<1>16. \A l \in Locs : z.ctl[l] = IF LateUnit /\ t = 1 THEN Event(g, CounterAt(l)) ELSE y.ctl[l]
  BY <1>6, <1>8, <1>9, <1>10 DEF Keeps
<1>17. StartDone(y, z, t, g)
  BY <1>10, <1>12, <1>13, <1>14, <1>15, <1>16 DEF StartDone
<1> QED BY <1>2, <1>17

\* The counters are read.
LEMMA SnbReads ==
  ASSUME UnitOk, NEW y \in Machines, NEW t \in Threads, NEW g \in Groups, NEW R, NEW z,
         z = snb_read(y, t, EventSet(g), AllCounters, R)
  PROVE  Reads(y, z, t, g)
<1>1. PICK mine : mine = IF HaveLock(t) THEN UncoreOf(AllCounters) \cup FreeOf(AllCounters) ELSE OfTypes(AllCounters, R)
  OBVIOUS
<1> DEFINE a == SampleStatus(y, t, EventSet(g), CoreOf(AllCounters))
           b == SamplePlain(a, t, EventSet(g), mine)
<1>2. z = ClearData(b, t, EventSet(g), AllCounters \ (mine \cup CoreOf(AllCounters)))
  BY <1>1 DEF snb_read
<1>3. Reads(y, a, t, g)
  BY Sampling
<1> HIDE DEF a
<1>4. Reads(y, b, t, g)
  <2>1. Reads(a, b, t, g)
    BY <1>3, Sampling DEF Reads, Stores
  <2> QED BY <1>3, <2>1, StoresBoth
<1> HIDE DEF b
<1>5. Reads(b, z, t, g)
  BY <1>2, <1>4, Noting DEF Reads, Stores
<1> QED BY <1>4, <1>5, StoresBoth

\* perfmon_readCountersThread_sandybridge keeps the contract of read.
LEMMA SandybridgeRead ==
  ASSUME UnitOk, Family = "sandybridge", NEW t \in Threads, NEW g \in Groups, NEW y \in Machines, Inits(y, g, t) = AllCounters,
         unit \notin Halted => Programmed \subseteq On(y),
         LateUnit => \A l \in Programmed : y.ctl[l] = Event(g, CounterAt(l))
  PROVE  ReadDone(y, perfmon_readCountersThread_sandybridge(y, t, EventSet(g), EP), t, g)
<1> DEFINE es == EventSet(g)
           a == GlobalCtrlIf(y, t, es, {})
           b == snb_freeze(a, t, es, EP)
           c == snb_read(b, t, es, AllCounters, {})
           P == PackageLocs(c)
           d == IF EP THEN SNB_UNFREEZE_BOX(c, t, es) ELSE Unfreeze(c, P)
           z == GlobalCtrlIf(d, t, es, RunningCore(y, t))
<1>1. InitOf(y, t, es) = AllCounters /\ CountersOf(es) = AllCounters
  BY InitOfIs
<1>3. Keeps(y, a, t, g) /\ On(a) = On(y) \ CoreHeld(t) /\ a.cnt = y.cnt
  <2>1. Keeps(y, y, t, g)
    BY KeepsNothing
  <2> QED BY <2>1, KeepsCoreOff
<1>4. /\ b \in Machines
      /\ b.cnt = a.cnt /\ b.shl = a.shl /\ b.tc = a.tc /\ b.cfg = a.cfg /\ b.filter = a.filter
      /\ ~EP => On(b) = IF IsBox THEN On(a) \ Locs ELSE On(a)
      /\ EP => On(b) = On(a) \ (IF IsBox /\ t = 1 /\ Box \in {"CBOX", "WBOX"} THEN Locs ELSE {})
      /\ \A l \in Locs : b.ctl[l] = IF LateUnit /\ t = 1 THEN Off ELSE a.ctl[l]
  <2> HIDE DEF a
  <2> QED BY <1>3, SnbFreezes DEF Keeps
<1>5. /\ c \in Machines /\ Others(b, c, t, g) /\ Inits(c, g, t) = Inits(b, g, t)
      /\ c.shl = b.shl /\ c.ctl = b.ctl /\ c.on = b.on /\ c.cnt = b.cnt
      /\ c.filter = b.filter /\ c.cfg = b.cfg
  <2> HIDE DEF b
  <2>1. Reads(b, c, t, g)
    BY <1>4, SnbReads
  <2> QED BY <2>1 DEF Reads, Stores
<1>2. z = perfmon_readCountersThread_sandybridge(y, t, es, EP)
  <2>1. PackageLocs(c) = PackageLocs(y)
    <3> HIDE DEF c
    <3> QED BY <1>5, PackageIs
  <2> DEFINE v == snb_read(b, t, es, InitOf(y, t, es), {})
             E == {k \in CoreOf(CountersOf(es)) : y.on[Loc(t, k)]}
  <2>2. c = v /\ RunningCore(y, t) = E
    BY <1>1 DEF RunningCore
  <2>3. perfmon_readCountersThread_sandybridge(y, t, es, EP) =
           GlobalCtrlIf(IF EP THEN SNB_UNFREEZE_BOX(v, t, es) ELSE Unfreeze(v, PackageLocs(y)), t, es, E)
    BY DEF perfmon_readCountersThread_sandybridge
  <2>4. d = IF EP THEN SNB_UNFREEZE_BOX(v, t, es) ELSE Unfreeze(v, PackageLocs(y))
    <3> HIDE DEF v, c
    <3> QED BY <2>1, <2>2
  <2> HIDE DEF v, E, d
  <2> QED BY <2>2, <2>3, <2>4
<1> HIDE DEF a, b, c
<1>6. On(c) = On(b)
  BY <1>5 DEF On
<1>7. P = IF IsBox THEN Locs ELSE {}
  BY <1>5, PackageIs
<1> HIDE DEF P
<1>8. /\ d \in Machines
      /\ d.shl = c.shl /\ d.cnt = c.cnt /\ d.ovf = c.ovf /\ d.govf = c.govf
      /\ d.filter = c.filter /\ d.cfg = c.cfg /\ d.tc = c.tc
      /\ EP => On(d) = On(c) \cup (IF IsBox /\ t = 1 /\ Box \notin {"UBOX", "UBOXFIX"} THEN Locs ELSE {})
      /\ ~EP => On(d) = On(c) \cup P
      /\ \A l \in Locs : d.ctl[l] = IF LateUnit /\ t = 1 THEN Event(g, CounterAt(l)) ELSE c.ctl[l]
  <2>1. CASE EP
    BY <1>5, <2>1, SnbUnfreezeIs
  <2>2. CASE ~EP
    <3>1. P \cap Locs = P
      BY <1>7
    <3>2. d = Unfreeze(c, P)
      BY <2>2
    <3> HIDE DEF d
    <3>3. /\ d \in Machines /\ On(d) = On(c) \cup (P \cap Locs)
          /\ d.shl = c.shl /\ d.ctl = c.ctl /\ d.cnt = c.cnt /\ d.ovf = c.ovf
          /\ d.govf = c.govf /\ d.filter = c.filter /\ d.cfg = c.cfg /\ d.tc = c.tc
      BY <1>5, <3>2, UnfreezeIs
    <3> QED BY <2>2, <3>1, <3>3, SandybridgeUnits
  <2> QED BY <2>1, <2>2
<1> HIDE DEF d
<1>9. LateUnit => IsBox /\ Programmed = Locs
  <2>1. LateUnit => IsBox
    BY SandybridgeUnits DEF IsBox, IsCore, IsFree, CoreUnits, FreeTypes
  <2> QED BY <2>1, BoxUnit DEF UnitOk, Programmed
<1>10. d.ctl = y.ctl
  <2>1. y.ctl \in [Locs -> Sels] /\ d.ctl \in [Locs -> Sels]
    BY <1>8, Fields
  <2>2. \A l \in Locs : d.ctl[l] = y.ctl[l]
    BY <1>3, <1>4, <1>5, <1>8, <1>9 DEF Keeps
  <2> QED BY <2>1, <2>2
<1>11. Keeps(y, d, t, g) /\ d.cnt = y.cnt
  BY <1>3, <1>4, <1>5, <1>8, <1>10 DEF Keeps, Others, Inits
<1>12. Keeps(y, z, t, g) /\ z.cnt = y.cnt /\ On(z) = (On(d) \ CoreHeld(t)) \cup (On(y) \cap CoreHeld(t))
  <2>1. PICK E : E = RunningCore(y, t)
    OBVIOUS
  <2>2. z = GlobalCtrlIf(d, t, EventSet(g), E)
    BY <2>1
  <2> HIDE DEF z
  <2>3. LET x == GlobalCtrlIf(d, t, EventSet(g), E) IN
        Keeps(y, x, t, g) /\ x.cnt = d.cnt /\ On(x) = (On(d) \ CoreHeld(t)) \cup (On(y) \cap CoreHeld(t))
    BY <1>11, <2>1, KeepsCoreBack
  <2> QED BY <1>11, <2>2, <2>3
<1> HIDE DEF z
<1>13. unit \notin Halted => On(z) = On(y)
  <2>1. IsBox => CoreHeld(t) = {} /\ Programmed = Locs
    BY KindIs, BoxUnit DEF UnitOk, Programmed, CoreHeld
  <2>2. On(y) \subseteq Locs
    BY DEF On
  <2>3. CASE IsBox
    <3>1. EP /\ unit \notin Halted => On(d) = On(y)
      BY <1>3, <1>4, <1>6, <1>8, <2>1, <2>2, <2>3
    <3>2. ~EP /\ unit \notin Halted => On(d) = On(y)
      BY <1>3, <1>4, <1>6, <1>7, <1>8, <2>1, <2>2, <2>3
    <3> QED BY <1>12, <2>1, <2>3, <3>1, <3>2
  <2>4. CASE ~IsBox
    <3>1. CoreHeld(t) = {l \in Locs : l[1] = t}
      BY HeldIs
    <3>2. ~EP => On(b) = On(a)
      BY <1>4, <2>4
    <3>3. ~EP => On(d) = On(c)
      BY <1>7, <1>8, <2>4
    <3>4. EP => On(d) = On(a)
      BY <1>4, <1>6, <1>8, <2>4
    <3>5. ~EP => On(d) = On(a)
      BY <1>6, <3>2, <3>3
    <3>6. On(d) = On(y) \ CoreHeld(t)
      BY <1>3, <3>4, <3>5
    <3> HIDE DEF d
    <3> QED BY <1>12, <3>6
  <2> QED BY <2>3, <2>4
<1>14. ReadDone(y, z, t, g)
  BY <1>12, <1>13, ReadEnds
<1> QED BY <1>2, <1>14

\* perfmon_stopCountersThread_sandybridge keeps the contract of stop.
LEMMA SandybridgeStop ==
  ASSUME UnitOk, Family = "sandybridge", NEW t \in Threads, NEW g \in Groups, NEW y \in Machines, Inits(y, g, t) = AllCounters
  PROVE  StopDone(y, perfmon_stopCountersThread_sandybridge(y, t, EventSet(g), EP), t, g)
<1> DEFINE es == EventSet(g)
           cs == Boxes(t, CountersOf(es))
           K == IF EP THEN LocsOf(t, OfTypes(cs, {"CBOX", "WBOX"})) ELSE PackageLocs(y)
           L == IF EP THEN LocsOf(t, OfTypes(cs, {"WBOX"})) ELSE {}
           a == GlobalCtrlIf(y, t, es, {})
           v == Freeze(a, K)
           b == Freeze(v, L)
           d == IF EP THEN Deselect(b, L) ELSE b
           u == IF EP THEN d ELSE v
           z == snb_read(u, t, es, AllCounters, {"UBOX", "UBOXFIX"})
<1>1. InitOf(y, t, es) = AllCounters /\ CountersOf(es) = AllCounters
  BY InitOfIs
<1>2. z = perfmon_stopCountersThread_sandybridge(y, t, es, EP)
  <2>1. CASE EP
    <3>1. u = SNB_FREEZE_AND_RESET_CTL_BOX(SNB_FREEZE_BOX(a, t, es), t, es)
      BY <2>1 DEF SNB_FREEZE_AND_RESET_CTL_BOX, SNB_FREEZE_BOX
    <3> HIDE DEF u
    <3> QED BY <1>1, <2>1, <3>1 DEF perfmon_stopCountersThread_sandybridge
  <2>2. CASE ~EP
    <3>1. u = Freeze(a, PackageLocs(y))
      BY <2>2
    <3> HIDE DEF u
    <3> QED BY <1>1, <2>2, <3>1 DEF perfmon_stopCountersThread_sandybridge
  <2> QED BY <2>1, <2>2
<1>3. /\ K = IF IsBox /\ ((EP /\ t = 1 /\ Box \in {"CBOX", "WBOX"}) \/ ~EP) THEN Locs ELSE {}
      /\ L = IF IsBox /\ EP /\ t = 1 /\ Box \in {"WBOX"} THEN Locs ELSE {}
  BY SnbBoxes, PackageIs
<1> HIDE DEF K, L
<1>4. Keeps(y, a, t, g) /\ On(a) = On(y) \ CoreHeld(t) /\ a.cnt = y.cnt
  <2>1. Keeps(y, y, t, g)
    BY KeepsNothing
  <2> QED BY <2>1, KeepsCoreOff
<1> HIDE DEF a
<1>5. Keeps(y, v, t, g) /\ On(v) = On(a) \ K
  <2>1. Keeps(y, Freeze(a, K), t, g) /\ On(Freeze(a, K)) = On(a) \ K /\ Freeze(a, K).cnt = a.cnt
    BY <1>4, KeepsFreeze
  <2> QED BY <2>1
<1> HIDE DEF v
<1>6. Keeps(y, b, t, g) /\ On(b) = On(v) \ L
  <2>1. Keeps(y, Freeze(v, L), t, g) /\ On(Freeze(v, L)) = On(v) \ L /\ Freeze(v, L).cnt = v.cnt
    <3> HIDE DEF b, d, u, z
    <3>1. PICK q : q = v
      OBVIOUS
    <3>2. LET x == Freeze(q, L) IN Keeps(y, x, t, g) /\ x.cnt = q.cnt /\ On(x) = On(q) \ L
      BY <1>5, <3>1, KeepsFreeze
    <3> QED BY <3>1, <3>2
  <2> QED BY <2>1
<1>7. ~EP => b = v
  <2>1. CASE ~EP
    <3>1. L = {}
      BY <1>3, <2>1
    <3>2. v \in Machines
      BY <1>5 DEF Keeps
    <3>3. v.on \in [Locs -> BOOLEAN]
      BY <3>2, Fields
    <3>4. Put(v.on, L, FALSE) = v.on
      BY <3>1, <3>3 DEF Put
    <3>5. Freeze(v, L) = [v EXCEPT !.on = v.on]
      BY <3>4, Zenon DEF Freeze
    <3> QED BY <3>2, <3>5 DEF Machines
  <2> QED BY <2>1
<1> HIDE DEF b
<1>8. d = Deselect(b, L) \/ (L = {} /\ d = b)
  BY <1>3
<1>9. u = d
  BY <1>7
<1> HIDE DEF d, u
<1>10. Programmable(L) /\ L \subseteq Locs
  BY <1>3, BoxUnit DEF UnitOk, Programmable
<1>11. Stores(d, z, t, g)
  <2>1. d \in Machines
    BY <1>6, <1>8, <1>10, DeselectIs DEF Keeps
  <2>2. Reads(d, z, t, g)
    BY <1>9, <2>1, SnbReads
  <2> QED BY <2>2 DEF Reads
<1> HIDE DEF z
<1>12. unit \in Deselected \cup Direct \/ L = {}
  BY <1>3, SandybridgeUnits
<1>13. unit \notin NotFrozen => \A l \in Held(t) : l \notin On(b) \/ l \in L
  <2>1. Held(t) = CoreHeld(t) \cup (IF IsBox /\ t = 1 THEN Locs ELSE {})
    BY HeldIs
  <2>2. unit \notin NotFrozen /\ IsBox /\ t = 1 => K = Locs
    BY <1>3, SandybridgeUnits
  <2> QED BY <1>4, <1>5, <1>6, <2>1, <2>2
<1>14. On(b) \subseteq On(y)
  BY <1>4, <1>5, <1>6
<1>15. StopDone(y, z, t, g)
  BY <1>6, <1>8, <1>10, <1>11, <1>12, <1>13, <1>14, StopEndsOff
<1> QED BY <1>2, <1>15

\* perfmon_finalizeCountersThread_sandybridge keeps the contract of finalize.
LEMMA SandybridgeFinalize ==
  ASSUME UnitOk, Family = "sandybridge", NEW t \in Threads, NEW g \in Groups, NEW y \in Machines
  PROVE  FinalizeDone(y, perfmon_finalizeCountersThread_sandybridge(y, t, EventSet(g), EP), t, g)
<1> DEFINE es == EventSet(g)
           L == LocsOf(t, CoreOf(Inits(y, g, t)) \cup Boxes(t, Inits(y, g, t))) \cup FixedLocs(y, t, Inits(y, g, t))
           a == Deselect(y, L)
           c == ClearStatus(a, LocsOf(t, CoreOf(Inits(y, g, t))))
           d == GlobalCtrlIf(c, t, es, {})
           z == perfmon_finalizeCountersThread_sandybridge(y, t, es, EP)
<1>1. CountersOf(es) = AllCounters /\ InitOf(y, t, es) = Inits(y, g, t)
  BY InitOfIs
<1>2. z = Unmarked(d, t, g, Inits(y, g, t))
  BY <1>1 DEF perfmon_finalizeCountersThread_sandybridge, Unmarked
<1>3. Programmable(L) /\ \A k \in Owned(t) : k \in Inits(y, g, t) => Loc(t, k) \in L
  <2>1. PICK i \in SUBSET AllCounters : i = Inits(y, g, t)
    BY DEF Inits
  <2>2. L = LocsOf(t, CoreOf(i) \cup Boxes(t, i)) \cup FixedLocs(y, t, i)
    BY <2>1
  <2> HIDE DEF L
  <2>3. Programmable(L) /\ LocsOf(t, CoreOf(i) \cup Boxes(t, i)) = LocsOf(t, i \cap Owned(t))
    BY <2>2, ClearsHeld
  <2> QED BY <2>1, <2>2, <2>3 DEF LocsOf
<1> HIDE DEF L, z
<1>4. Clears(y, a, t, g, L, y.filter)
  BY <1>3, ClearsFirst
<1> HIDE DEF a
<1>5. Clears(y, c, t, g, L, y.filter)
  BY <1>4, ClearsThen
<1> HIDE DEF c
<1>6. Clears(y, d, t, g, L, y.filter)
  BY <1>5, ClearsThen
<1> HIDE DEF d
<1>7. Clears(y, z, t, g, L, y.filter)
  BY <1>2, <1>6, ClearsThen
<1>8. FinalizeDone(y, z, t, g)
  BY <1>3, <1>7, FinalizeEnds, SandybridgeUnits
<1> QED BY <1>8 DEF z

-----------------------------------------------------------------------------
(* perfmon_ivybridge.h. *)

\* What is said of the units of ivybridge.
LEMMA IvybridgeUnits ==
  ASSUME UnitOk, Family = "ivybridge"
  PROVE  /\ Cpu \in {"ivybridgeEP", "ivybridge"} /\ (EP <=> Cpu = "ivybridgeEP") /\ ByInit /\ ~LateUnit
         /\ IsBox => Box \in {"MBOX", "MBOXFIX", "CBOX", "UBOX", "UBOXFIX", "BBOX", "WBOX", "PBOX", "SBOX", "RBOX", "IBOX"}
         /\ IsBox /\ ~EP => Box \in {"CBOX", "UBOX", "UBOXFIX"}
         /\ unit \notin Direct /\ unit \notin FilterSet /\ unit \notin FilterCleared /\ unit \notin Halted /\ unit \notin NotFrozen
         /\ unit \in NeverFiltered <=> EP /\ Box = "SBOX"
         /\ IsBox /\ EP /\ Box \notin {"UBOX", "UBOXFIX"} => unit \in Deselected
         /\ IsCore => unit \in KeepsSelection
         /\ IsBox /\ (~EP \/ Box \in {"UBOX", "UBOXFIX"}) => unit \in KeepsSelection
<1>1. Cpu \in {"ivybridgeEP", "ivybridge"} /\ (EP <=> Cpu = "ivybridgeEP") /\ ByInit
  BY DEF UnitOk, Family, AllUnits, Of, Cpu, EP, ByInit
<1>2. unit = <<Cpu, Box>> /\ Box \in EPBoxes \cup ClientBoxes \cup {"CORE", "SBOX", "RBOX", "IBOX"}
      /\ (~EP => Box \in ClientBoxes)
  BY <1>1 DEF UnitOk, AllUnits, Of, Cpu, Box
<1>3. ~LateUnit /\ unit \notin Halted /\ unit \notin Direct /\ unit \notin FilterSet /\ unit \notin FilterCleared /\ unit \notin NotFrozen
  BY <1>1, <1>2 DEF Of, LateUnit, Halted, Direct, FilterSet, FilterCleared, NotFrozen
<1>4. unit \in NeverFiltered <=> EP /\ Box = "SBOX"
  BY <1>1, <1>2 DEF Of, NeverFiltered
<1>5. IsBox => Box \in {"MBOX", "MBOXFIX", "CBOX", "UBOX", "UBOXFIX", "BBOX", "WBOX", "PBOX", "SBOX", "RBOX", "IBOX"}
      /\ (~EP => Box \in {"CBOX", "UBOX", "UBOXFIX"})
  BY <1>1, <1>2 DEF Of, EPBoxes, ClientBoxes, IsBox, IsCore, IsFree, CoreUnits, FreeTypes
<1>6. /\ IsBox /\ EP /\ Box \notin {"UBOX", "UBOXFIX"} => unit \in Deselected
      /\ IsCore => unit \in KeepsSelection
      /\ IsBox /\ (~EP \/ Box \in {"UBOX", "UBOXFIX"}) => unit \in KeepsSelection
  BY <1>1, <1>2, <1>5 DEF Of, EPBoxes, ClientBoxes, Deselected, KeepsSelection, IsCore, CoreUnits
<1> QED BY <1>1, <1>3, <1>4, <1>5, <1>6

\* perfmon_setupCounterThread_ivybridge sets up one counter.
LEMMA IvybridgeStep ==
  ASSUME UnitOk, Family = "ivybridge", NEW t \in Threads, NEW g \in Groups, NEW c \in AllCounters, NEW y \in Machines
  PROVE  SetsUp(y, ivb_box_setup(y, t, c, EventSet(g).ev[c], EP), t, g, {c} \ {fx})
<1> DEFINE e == EventSet(g).ev[c]
           z == ivb_box_setup(y, t, c, e, EP)
<1>1. e.flags = Event(g, c)
  BY EventIs
<1>2. /\ unit \notin Direct /\ unit \notin FilterSet
      /\ unit \in NeverFiltered <=> EP /\ Box = "SBOX"
  BY IvybridgeUnits
<1> SUFFICES SetsUp(y, z, t, g, {c} \ {fx})
  OBVIOUS
<1> HIDE DEF z
<1>3. CASE IsCore
  <2>1. (Type(c) = "PMC" => z = Configure(y, t, c, Event(g, c))) /\ (Type(c) # "PMC" => z = y)
    BY <1>1, <1>3, CoreUnit DEF UnitOk, z, ivb_box_setup, ivb_pmc_setup, CoreTypes
  <2> QED BY <1>3, <2>1, CoreStep
<1>4. CASE IsBox
  <2>1. Type(c) = Box /\ {c} \ {fx} = {c}
    BY <1>4, BoxStep
  <2>2. CASE Box \in {"MBOX", "RBOX", "PBOX", "MBOXFIX", "SBOX", "UBOXFIX", "IBOX"} \/ (Box \in {"CBOX", "UBOX"} /\ ~EP)
    <3>1. z = ConfigureBox(y, t, c, Event(g, c))
      BY <1>1, <2>1, <2>2 DEF z, ivb_box_setup, ivb_pci_box_setup, ivb_mboxfix_setup, ivb_sbox_setup, ivb_uboxfix_setup,
           ivb_ibox_setup, ivb_cbox_setup, ivb_ubox_setup
    <3> QED BY <1>2, <1>4, <2>1, <3>1, BoxSets
  <2>3. CASE Box \in {"BBOX", "WBOX"} \/ (Box = "CBOX" /\ EP)
    <3> DEFINE w == IF HaveLock(t) /\ e.filter # {} THEN SetFilter(y, c, e.filter) ELSE y
    <3>1. z = ConfigureBox(w, t, c, Event(g, c))
      BY <1>1, <2>1, <2>3 DEF z, ivb_box_setup, ivb_bbox_setup, ivb_wbox_setup, ivbep_cbox_setup, FilterIfOption
    <3>2. SetsUp(y, ConfigureBox(w, t, c, Event(g, c)), t, g, {c})
      BY <1>2, <1>4, <2>3, OptionSets
    <3> HIDE DEF w
    <3> QED BY <2>1, <3>1, <3>2
  <2>4. CASE Box = "UBOX" /\ EP
    <3> DEFINE v == ConfigureBox(y, t, c, Event(g, c))
    <3>1. z = v \/ z = Zero(v, {Loc(t, c)})
      BY <1>1, <2>1, <2>4 DEF z, ivb_box_setup, ivb_ubox_setup, ConfigureBox
    <3>2. SetsUp(y, v, t, g, {c})
      BY <1>2, <1>4, <2>1, BoxSets
    <3> HIDE DEF v
    <3>3. SetsUp(y, Zero(v, {Loc(t, c)}), t, g, {c})
      BY <3>2, SetsUpThen
    <3> QED BY <2>1, <3>1, <3>2, <3>3
  <2> QED BY <1>4, <2>2, <2>3, <2>4, IvybridgeUnits
<1>5. CASE IsFree
  <2>1. z = y
    BY <1>5, FreeStep DEF z, ivb_box_setup, FreeTypes
  <2> QED BY <1>5, <2>1, FreeStep
<1> QED BY <1>3, <1>4, <1>5, KindIs

\* The boxes are enabled, the counters of some of them having been zeroed.
LEMMA KeepsPackageReset ==
  ASSUME UnitOk, NEW y, NEW w, NEW t \in Threads, NEW g \in Groups, Keeps(y, w, t, g), NEW K, NEW z,
         z = IF HaveLock(t) /\ UsesPackage(EventSet(g)) THEN Unfreeze(Zero(w, K), PackageLocs(w)) ELSE w
  PROVE  Keeps(y, z, t, g) /\ On(z) = On(w) \cup BoxHeld(t)
<1> DEFINE v == Zero(w, K)
           u == IF HaveLock(t) /\ UsesPackage(EventSet(g)) THEN Unfreeze(v, PackageLocs(v)) ELSE v
<1>1. w \in Machines
  BY DEF Keeps
<1>2. Stores(w, v, t, g)
  BY <1>1, Noting
<1>3. Keeps(y, v, t, g) /\ On(v) = On(w)
  BY <1>2, KeepsStores
<1>4. PackageLocs(v) = PackageLocs(w)
  <2>1. v \in Machines
    BY <1>2 DEF Stores
  <2> HIDE DEF v
  <2> QED BY <1>1, <2>1, PackageIs
<1>5. z = u \/ (z = w /\ ~(HaveLock(t) /\ UsesPackage(EventSet(g))))
  BY <1>4
<1> HIDE DEF v
<1>6. Keeps(y, u, t, g) /\ On(u) = On(v) \cup BoxHeld(t)
  BY <1>3, KeepsPackageOn
<1>7. ~(HaveLock(t) /\ UsesPackage(EventSet(g))) => BoxHeld(t) = {}
  BY <1>1, HeldIs, PackageIs DEF HaveLock
<1> HIDE DEF u
<1> QED BY <1>3, <1>5, <1>6, <1>7

\* perfmon_setupCounterThread_ivybridge keeps the contract of setup.
LEMMA IvybridgeSetup ==
  ASSUME UnitOk, Family = "ivybridge", NEW t \in Threads, NEW g \in Groups, NEW y \in Machines
  PROVE  SetupDone(y, perfmon_setupCounterThread_ivybridge(y, t, EventSet(g), EP), t, g)
<1> DEFINE es == EventSet(g)
           core == GlobalCtrlIf(y, t, es, {})
           base == ivb_uncore_freeze(core, t, es, FALSE, EP)
           st(c, w) == ivb_box_setup(w, t, c, es.ev[c], EP)
           pick(s) == CHOOSE x \in s : TRUE
           G == [s \in SUBSET AllCounters |->
                   IF s = {} THEN base
                   ELSE IF s \ {pick(s)} = {} THEN st(pick(s), base)
                   ELSE st(pick(s), st(pick(s \ {pick(s)}), base))]
           Eqn(h) == h = [s \in SUBSET AllCounters |-> IF s = {} THEN base ELSE st(pick(s), h[s \ {pick(s)}])]
           iter == CHOOSE h : Eqn(h)
           w == FoldSet(LAMBDA c, x : ivb_box_setup(x, t, c, es.ev[c], EP), base, AllCounters)
<1>0. CountersOf(es) = AllCounters
  BY EventSetIs DEF UnitOk
<1>1. SetsUp(y, base, t, g, {})
  <2>1. SetsUp(y, core, t, g, {})
    BY CoreOff, SetsUpFrame
  <2> HIDE DEF core
  <2>2. PICK K : K = PackageLocs(core)
    OBVIOUS
  <2>3. SetsUp(y, Freeze(core, K), t, g, {})
    BY <2>1, SetsUpThen
  <2> QED BY <2>1, <2>2, <2>3 DEF ivb_uncore_freeze
<1>2. base \in Machines
  BY <1>1 DEF SetsUp
<1>3. perfmon_setupCounterThread_ivybridge(y, t, es, EP) = Marked(ConfigureFixed(w, t, es), t, g, AllCounters)
  BY <1>0 DEF perfmon_setupCounterThread_ivybridge, ivb_fixed_setup, Marked
<1> HIDE DEF base
<1>4. \A s \in SUBSET AllCounters : s # {} => pick(s) \in s /\ s \ {pick(s)} \in SUBSET AllCounters
  OBVIOUS
<1>5. ASSUME NEW s \in SUBSET AllCounters, s # {}, NEW p \in s, s \ {p} # {}, NEW q \in s \ {p} PROVE (s \ {p}) \ {q} = {}
  BY <1>5, KindIs
<1>6. Eqn(G)
  <2> HIDE DEF st, pick
  <2>1. ASSUME NEW s \in SUBSET AllCounters, s # {} PROVE G[s] = st(pick(s), G[s \ {pick(s)}])
    <3>1. pick(s) \in s /\ s \ {pick(s)} \in SUBSET AllCounters
      BY <1>4, <2>1
    <3>2. CASE s \ {pick(s)} = {}
      BY <2>1, <3>2
    <3>3. CASE s \ {pick(s)} # {}
      <4>1. (s \ {pick(s)}) \ {pick(s \ {pick(s)})} = {}
        BY <1>4, <1>5, <2>1, <3>1, <3>3
      <4>2. G[s \ {pick(s)}] = st(pick(s \ {pick(s)}), base)
        BY <3>1, <3>3, <4>1
      <4> QED BY <2>1, <3>3, <4>2
    <3> QED BY <3>2, <3>3
  <2> QED BY <2>1
<1>7. Eqn(iter)
  <2> HIDE DEF G, Eqn
  <2> QED BY <1>6, Zenon
<1>8. w = iter[AllCounters]
  <2> HIDE DEF es
  <2> QED BY DEF FoldSet, MapThenFoldSet
<1>9. ASSUME NEW c \in AllCounters, NEW x \in Machines PROVE SetsUp(x, st(c, x), t, g, {c} \ {fx})
  BY IvybridgeStep
<1> HIDE DEF st, pick, iter, w
<1>10. SetsUp(base, iter[AllCounters], t, g, AllCounters \ {fx})
  <2>1. iter[{}] = base
    BY <1>7
  <2>2. ASSUME NEW s \in SUBSET AllCounters, s # {}
        PROVE  \E c \in s : iter[s \ {c}] \in Machines => SetsUp(iter[s \ {c}], iter[s], t, g, {c} \ {fx})
    <3>1. pick(s) \in s /\ pick(s) \in AllCounters /\ iter[s] = st(pick(s), iter[s \ {pick(s)}])
      BY <1>4, <1>7, <2>2
    <3> QED BY <1>9, <3>1
  <2> QED BY <1>2, <2>1, <2>2, FoldSetsUp
<1>11. SetsUp(y, w, t, g, {} \cup (AllCounters \ {fx}))
  BY <1>1, <1>8, <1>10, SetsUpBoth
<1>12. SetupDone(y, Marked(ConfigureFixed(w, t, es), t, g, AllCounters), t, g)
  BY <1>11, SetupEnds
<1> QED BY <1>3, <1>12

\* perfmon_startCountersThread_ivybridge keeps the contract of start.
LEMMA IvybridgeStart ==
  ASSUME UnitOk, Family = "ivybridge", NEW t \in Threads, NEW g \in Groups, NEW y \in Machines, Inits(y, g, t) = AllCounters
  PROVE  StartDone(y, perfmon_startCountersThread_ivybridge(y, t, EventSet(g), EP), t, g)
<1> DEFINE es == EventSet(g)
           a == ResetData(y, t, es, AllCounters)
           b == NoteStart(a, t, es, IF HaveLock(t) THEN OfTypes(AllCounters, {"POWER"}) ELSE {})
           c == Zero(b, LocsOf(t, CoreOf(AllCounters)))
           d == IF HaveLock(t) /\ UsesPackage(es) THEN Unfreeze(Zero(c, LocsOf(t, WithBoxControl(AllCounters, EP))), PackageLocs(c)) ELSE c
           z == IF CoreOf(AllCounters) = {} THEN d ELSE ClearStatus(GlobalCtrl(d, t, CoreOf(AllCounters)), LocsOf(t, CoreOf(AllCounters)))
<1>1. InitOf(y, t, es) = AllCounters /\ CountersOf(es) = AllCounters
  BY InitOfIs
<1>2. z = perfmon_startCountersThread_ivybridge(y, t, es, EP)
  BY <1>1 DEF perfmon_startCountersThread_ivybridge, ivb_uncore_unfreeze
<1>3. Keeps(y, a, t, g) /\ On(a) = On(y)
  <2>0. Keeps(y, y, t, g)
    BY KeepsNothing
  <2>1. Stores(y, a, t, g)
    BY Noting DEF Reads
  <2> QED BY <2>0, <2>1, KeepsStores
<1> HIDE DEF a
<1>4. Keeps(y, b, t, g) /\ On(b) = On(a)
  <2>1. Stores(a, b, t, g)
    BY <1>3, Noting DEF Keeps, Reads
  <2> QED BY <1>3, <2>1, KeepsStores
<1> HIDE DEF b
<1>5. Keeps(y, c, t, g) /\ On(c) = On(b)
  <2>1. Stores(b, c, t, g)
    BY <1>4, Noting DEF Keeps, Reads
  <2> QED BY <1>4, <2>1, KeepsStores
<1> HIDE DEF c
<1>6. Keeps(y, d, t, g) /\ On(d) = On(c) \cup BoxHeld(t)
  <2>1. PICK L : L = LocsOf(t, WithBoxControl(AllCounters, EP))
    OBVIOUS
  <2>2. d = IF HaveLock(t) /\ UsesPackage(es) THEN Unfreeze(Zero(c, L), PackageLocs(c)) ELSE c
    BY <2>1
  <2> HIDE DEF d
  <2> QED BY <1>5, <2>2, KeepsPackageReset
<1> HIDE DEF d
<1>7. Keeps(y, z, t, g) /\ On(z) = On(d) \cup CoreHeld(t)
  <2>1. PICK L : L = LocsOf(t, CoreOf(AllCounters))
    OBVIOUS
  <2>2. z = IF CoreOf(AllCounters) = {} THEN d ELSE ClearStatus(GlobalCtrl(d, t, CoreOf(AllCounters)), L)
    BY <2>1
  <2> HIDE DEF z
  <2> QED BY <1>6, <2>2, KeepsCoreStart
<1> HIDE DEF z
<1>8. StartDone(y, z, t, g)
  BY <1>3, <1>4, <1>5, <1>6, <1>7, StartEnds, IvybridgeUnits, CoreHasNoBox
<1> QED BY <1>2, <1>8

\* One counter of a box is read.
LEMMA IvyBox ==
  ASSUME UnitOk, NEW t \in Threads, NEW g \in Groups, NEW y \in Machines, NEW c, NEW clear
  PROVE  LET z == ivb_uncore_read(y, t, EventSet(g), c, clear, EP)
         IN Stores(y, z, t, g) /\ (~clear => Reads(y, z, t, g))
<1> DEFINE es == EventSet(g)
           r == IF EP THEN SampleBox(y, t, es, c, Type(c) # "IBOX", Type(c) \notin {"CBOX", "MBOXFIX"})
                ELSE Sample(y, t, es, {c}, {})
           z == ivb_uncore_read(y, t, es, c, clear, EP)
<1>1. z = IF clear THEN Zero(r, {Loc(t, c)}) ELSE r
  BY DEF ivb_uncore_read
<1>2. Reads(y, r, t, g)
  BY SamplingBox, Noting
<1> HIDE DEF r, z
<1>3. Stores(r, Zero(r, {Loc(t, c)}), t, g)
  BY <1>2, Noting DEF Reads, Stores
<1>4. Stores(y, z, t, g) /\ (~clear => Reads(y, z, t, g))
  BY <1>1, <1>2, <1>3, StoresNothing, StoresBoth DEF Reads
<1> QED BY <1>4 DEF z

IvyBoxesRead(y, t, g, clear) == FoldSet(LAMBDA c, x : ivb_uncore_read(x, t, EventSet(g), c, clear, EP), y, Boxes(t, AllCounters))

\* The counters of all boxes are read.
LEMMA IvyBoxes ==
  ASSUME UnitOk, NEW t \in Threads, NEW g \in Groups, NEW y \in Machines, NEW clear
  PROVE  Stores(y, IvyBoxesRead(y, t, g, clear), t, g) /\ (~clear => Reads(y, IvyBoxesRead(y, t, g, clear), t, g))
<1> DEFINE es == EventSet(g)
           S == Boxes(t, AllCounters)
           st(c, w) == ivb_uncore_read(w, t, es, c, clear, EP)
           pick(s) == CHOOSE x \in s : TRUE
           G == [s \in SUBSET S |->
                   IF s = {} THEN y
                   ELSE IF s \ {pick(s)} = {} THEN st(pick(s), y)
                   ELSE st(pick(s), st(pick(s \ {pick(s)}), y))]
           Eqn(h) == h = [s \in SUBSET S |-> IF s = {} THEN y ELSE st(pick(s), h[s \ {pick(s)}])]
           iter == CHOOSE h : Eqn(h)
           w == FoldSet(LAMBDA c, x : ivb_uncore_read(x, t, es, c, clear, EP), y, S)
<1>0. S \subseteq AllCounters
  BY OwnedIs DEF Boxes, UncoreOf
<1>3. IvyBoxesRead(y, t, g, clear) = w
  BY DEF IvyBoxesRead
<1> HIDE DEF S
<1>4. \A s \in SUBSET S : s # {} => pick(s) \in s /\ s \ {pick(s)} \in SUBSET S
  OBVIOUS
<1>5. ASSUME NEW s \in SUBSET S, s # {}, NEW p \in s, s \ {p} # {}, NEW q \in s \ {p} PROVE (s \ {p}) \ {q} = {}
  BY <1>5, <1>0, KindIs
<1>6. Eqn(G)
  <2> HIDE DEF st, pick
  <2>1. ASSUME NEW s \in SUBSET S, s # {} PROVE G[s] = st(pick(s), G[s \ {pick(s)}])
    <3>1. pick(s) \in s /\ s \ {pick(s)} \in SUBSET S
      BY <1>4, <2>1
    <3>2. CASE s \ {pick(s)} = {}
      BY <2>1, <3>2
    <3>3. CASE s \ {pick(s)} # {}
      <4>1. (s \ {pick(s)}) \ {pick(s \ {pick(s)})} = {}
        BY <1>4, <1>5, <2>1, <3>1, <3>3
      <4>2. G[s \ {pick(s)}] = st(pick(s \ {pick(s)}), y)
        BY <3>1, <3>3, <4>1
      <4> QED BY <2>1, <3>3, <4>2
    <3> QED BY <3>2, <3>3
  <2> QED BY <2>1
<1>7. Eqn(iter)
  <2> HIDE DEF G, Eqn
  <2> QED BY <1>6, Zenon
<1>8. w = iter[S]
  <2> HIDE DEF es
  <2> QED BY DEF FoldSet, MapThenFoldSet
<1>9. ASSUME NEW c \in AllCounters, NEW x \in Machines PROVE Stores(x, st(c, x), t, g) /\ (~clear => Reads(x, st(c, x), t, g))
  BY IvyBox
<1> HIDE DEF st, pick, iter, w
<1>10. Stores(y, iter[S], t, g) /\ (~clear => Reads(y, iter[S], t, g))
  <2>1. iter[{}] = y /\ Reads(y, y, t, g)
    BY <1>7, StoresNothing
  <2>2. PICK all : all = clear
    OBVIOUS
  <2>3. ASSUME NEW s \in SUBSET S, s # {}
        PROVE  \E c \in s : iter[s \ {c}] \in Machines =>
                  Stores(iter[s \ {c}], iter[s], t, g) /\ (~all => Reads(iter[s \ {c}], iter[s], t, g))
    <3>1. pick(s) \in s /\ iter[s] = st(pick(s), iter[s \ {pick(s)}])
      BY <1>4, <1>7, <2>3
    <3>2. pick(s) \in AllCounters
      BY <1>0, <3>1
    <3>3. iter[s \ {pick(s)}] \in Machines =>
             Stores(iter[s \ {pick(s)}], iter[s], t, g) /\ (~all => Reads(iter[s \ {pick(s)}], iter[s], t, g))
      BY <1>9, <2>2, <3>1, <3>2 DEF Reads
    <3> QED BY <3>1, <3>3
  <2>4. Stores(y, iter[S], t, g) /\ (~all => Reads(y, iter[S], t, g))
    BY <1>0, <2>1, <2>3, FoldStores
  <2> QED BY <2>2, <2>4
<1> QED BY <1>3, <1>8, <1>10

\* ivb_read only changes records, and clears counters where asked.
LEMMA IvyReads ==
  ASSUME UnitOk, NEW t \in Threads, NEW g \in Groups, NEW y \in Machines, NEW clear
  PROVE  LET z == ivb_read(y, t, EventSet(g), AllCounters, clear, EP)
         IN Stores(y, z, t, g) /\ (~clear => Reads(y, z, t, g))
<1> DEFINE es == EventSet(g)
           power == IF HaveLock(t) THEN OfTypes(AllCounters, {"POWER"}) ELSE {}
           rest == AllCounters \ (CoreOf(AllCounters) \cup Boxes(t, AllCounters) \cup power)
           a == Sample(y, t, es, CoreOf(AllCounters), CoreConfirmed(y))
           b == SamplePlain(a, t, es, power)
           c == IvyBoxesRead(b, t, g, clear)
           z == ivb_read(y, t, es, AllCounters, clear, EP)
<1>1. z = ClearData(c, t, es, rest)
  BY DEF ivb_read, IvyBoxesRead
<1>2. Reads(y, a, t, g)
  BY Noting
<1> HIDE DEF a, z
<1>3. Reads(a, b, t, g)
  BY <1>2, Sampling DEF Reads, Stores
<1> HIDE DEF b
<1>4. Stores(b, c, t, g) /\ (~clear => Reads(b, c, t, g))
  BY <1>3, IvyBoxes DEF Reads, Stores
<1> HIDE DEF c, rest
<1>5. Reads(c, z, t, g)
  BY <1>1, <1>4, Noting DEF Stores
<1>6. Reads(y, b, t, g)
  BY <1>2, <1>3, StoresBoth
<1>7. Stores(y, c, t, g) /\ (~clear => Reads(y, c, t, g))
  BY <1>4, <1>6, StoresBoth DEF Reads
<1>8. Stores(y, z, t, g) /\ (~clear => Reads(y, z, t, g))
  BY <1>5, <1>7, StoresBoth DEF Reads
<1> QED BY <1>8 DEF z

\* ivb_read as the read function calls it.
LEMMA IvyRead ==
  ASSUME UnitOk, NEW t \in Threads, NEW g \in Groups, NEW y \in Machines
  PROVE  Reads(y, ivb_read(y, t, EventSet(g), AllCounters, FALSE, EP), t, g)
<1>1. PICK no : no = FALSE
  OBVIOUS
<1>2. Reads(y, ivb_read(y, t, EventSet(g), AllCounters, no, EP), t, g)
  BY <1>1, IvyReads
<1> QED BY <1>1, <1>2

\* perfmon_stopCountersThread_ivybridge keeps the contract of stop.
LEMMA IvybridgeStop ==
  ASSUME UnitOk, Family = "ivybridge", NEW t \in Threads, NEW g \in Groups, NEW y \in Machines, Inits(y, g, t) = AllCounters
  PROVE  StopDone(y, perfmon_stopCountersThread_ivybridge(y, t, EventSet(g), EP), t, g)
<1> DEFINE es == EventSet(g)
           a == GlobalCtrlIf(y, t, es, {})
           b == IF HaveLock(t) /\ UsesPackage(es) THEN Freeze(a, PackageLocs(a)) ELSE a
           K == LocsOf(t, WithBoxControl(AllCounters, EP))
           L == IF HaveLock(t) /\ UsesPackage(es) THEN K ELSE {}
           d == IF HaveLock(t) /\ UsesPackage(es) THEN Deselect(b, K) ELSE b
           w == ivb_read(d, t, es, AllCounters, TRUE, EP)
           z == perfmon_stopCountersThread_ivybridge(y, t, es, EP)
<1>1. InitOf(y, t, es) = AllCounters /\ CountersOf(es) = AllCounters
  BY InitOfIs
<1>2. z = Unmarked(w, t, g, AllCounters)
  <2>1. d = ivb_uncore_freeze(a, t, es, TRUE, EP)
    BY <1>1 DEF ivb_uncore_freeze
  <2> HIDE DEF d
  <2> QED BY <1>1, <2>1 DEF perfmon_stopCountersThread_ivybridge, Unmarked
<1>3. Keeps(y, a, t, g) /\ On(a) = On(y) \ CoreHeld(t)
  <2>0. Keeps(y, y, t, g)
    BY KeepsNothing
  <2> QED BY <2>0, KeepsCoreOff
<1> HIDE DEF a, z
<1>4. Keeps(y, b, t, g) /\ On(b) = On(a) \ BoxHeld(t)
  BY <1>3, KeepsPackageOff
<1> HIDE DEF b
<1>5. /\ K = IF IsBox /\ EP /\ Box \notin {"UBOX", "UBOXFIX"} THEN LocsOf(t, AllCounters) ELSE {}
  <2>1. UncoreOf(AllCounters) = IF IsBox THEN AllCounters ELSE {}
    BY OwnedIs
  <2>2. IsBox => \A c \in AllCounters : Type(c) = Box
    BY BoxUnit DEF UnitOk
  <2>3. WithBoxControl(AllCounters, EP) = IF IsBox /\ EP /\ Box \notin {"UBOX", "UBOXFIX"} THEN AllCounters ELSE {}
    BY <2>1, <2>2 DEF WithBoxControl
  <2> QED BY <2>3 DEF LocsOf
<1>6. HaveLock(t) /\ IsBox => LocsOf(t, AllCounters) = Held(t) /\ UsesPackage(es)
  BY OwnedIs, PackageIs DEF HaveLock, Held
<1>7. Held(t) \subseteq Programmed /\ (~IsBox \/ ~HaveLock(t) => BoxHeld(t) = {}) /\ Held(t) = CoreHeld(t) \cup BoxHeld(t)
  BY HeldIs DEF HaveLock
<1> HIDE DEF K
<1>8. Programmable(L)
  BY <1>5, <1>6, <1>7 DEF Programmable, Programmed
<1>9. unit \in Deselected \cup Direct \/ L = {}
  BY <1>5, IvybridgeUnits
<1>10. unit \notin KeepsSelection => Held(t) \subseteq L
  BY <1>5, <1>6, <1>7, CoreHasNoBox, IvybridgeUnits
<1>11. d = Deselect(b, L) \/ (L = {} /\ d = b)
  OBVIOUS
<1> HIDE DEF L, d
<1>12. Stores(d, w, t, g)
  <2>1. b \in Machines
    BY <1>4 DEF Keeps
  <2>2. d \in Machines
    BY <1>8, <1>11, <2>1, DeselectIs
  <2>3. PICK yes : yes = TRUE
    OBVIOUS
  <2>4. Stores(d, ivb_read(d, t, EventSet(g), AllCounters, yes, EP), t, g)
    BY <2>2, IvyReads
  <2> QED BY <2>3, <2>4
<1> HIDE DEF w
<1>13. On(b) \subseteq On(y) /\ On(b) \cap Held(t) = {}
  BY <1>3, <1>4, <1>7
<1>14. StopDone(y, z, t, g)
  BY <1>2, <1>4, <1>8, <1>9, <1>10, <1>11, <1>12, <1>13, StopEndsOff
<1> QED BY <1>14 DEF z

\* perfmon_readCountersThread_ivybridge keeps the contract of read.
LEMMA IvybridgeRead ==
  ASSUME UnitOk, Family = "ivybridge", NEW t \in Threads, NEW g \in Groups, NEW y \in Machines, Inits(y, g, t) = AllCounters,
         Programmed \subseteq On(y)
  PROVE  ReadDone(y, perfmon_readCountersThread_ivybridge(y, t, EventSet(g), EP), t, g)
<1> DEFINE es == EventSet(g)
           a == GlobalCtrlIf(y, t, es, {})
           b == IF HaveLock(t) /\ UsesPackage(es) THEN Freeze(a, PackageLocs(a)) ELSE a
           c == ivb_read(b, t, es, AllCounters, FALSE, EP)
           d == IF HaveLock(t) /\ UsesPackage(es) THEN Unfreeze(c, PackageLocs(c)) ELSE c
           z == GlobalCtrlIf(d, t, es, RunningCore(y, t))
<1>1. InitOf(y, t, es) = AllCounters /\ CountersOf(es) = AllCounters
  BY InitOfIs
<1>2. z = perfmon_readCountersThread_ivybridge(y, t, es, EP)
  BY <1>1 DEF perfmon_readCountersThread_ivybridge, ivb_uncore_freeze, ivb_uncore_unfreeze, RunningCore
<1>3. Keeps(y, a, t, g) /\ On(a) = On(y) \ CoreHeld(t) /\ a.cnt = y.cnt
  <2>0. Keeps(y, y, t, g)
    BY KeepsNothing
  <2> QED BY <2>0, KeepsCoreOff
<1> HIDE DEF a
<1>4. Keeps(y, b, t, g) /\ On(b) = On(a) \ BoxHeld(t) /\ b.cnt = y.cnt
  BY <1>3, KeepsPackageOff
<1> HIDE DEF b
<1>5. Keeps(y, c, t, g) /\ On(c) = On(b) /\ c.cnt = y.cnt
  <2>1. Reads(b, c, t, g)
    BY <1>4, IvyRead DEF Keeps
  <2> HIDE DEF c
  <2> QED BY <1>4, <2>1, KeepsReads
<1> HIDE DEF c
<1>6. Keeps(y, d, t, g) /\ On(d) = On(c) \cup BoxHeld(t) /\ d.cnt = y.cnt
  BY <1>5, KeepsPackageOn
<1> HIDE DEF d
<1>7. Keeps(y, z, t, g) /\ On(z) = (On(d) \ CoreHeld(t)) \cup (On(y) \cap CoreHeld(t)) /\ z.cnt = y.cnt
  BY <1>6, KeepsCoreBack
<1> HIDE DEF z
<1>8. On(z) = On(y)
  BY <1>3, <1>4, <1>5, <1>6, <1>7, HeldIs, CoreHasNoBox
<1>9. ReadDone(y, z, t, g)
  BY <1>7, <1>8, ReadEnds
<1> QED BY <1>2, <1>9

\* perfmon_finalizeCountersThread_ivybridge keeps the contract of finalize.
LEMMA IvybridgeFinalize ==
  ASSUME UnitOk, Family = "ivybridge", NEW t \in Threads, NEW g \in Groups, NEW y \in Machines
  PROVE  FinalizeDone(y, perfmon_finalizeCountersThread_ivybridge(y, t, EventSet(g)), t, g)
<1> DEFINE es == EventSet(g)
           L == LocsOf(t, CoreOf(Inits(y, g, t)) \cup Boxes(t, Inits(y, g, t))) \cup FixedLocs(y, t, Inits(y, g, t))
           a == Deselect(y, L)
           b == Zero(a, LocsOf(t, CoreOf(Inits(y, g, t)) \cup Boxes(t, Inits(y, g, t))))
           c == ClearStatus(b, LocsOf(t, CoreOf(Inits(y, g, t))))
           d == GlobalCtrlIf(c, t, es, {})
           z == perfmon_finalizeCountersThread_ivybridge(y, t, es)
<1>1. CountersOf(es) = AllCounters /\ InitOf(y, t, es) = Inits(y, g, t)
  BY InitOfIs
<1>2. z = Unmarked(d, t, g, Inits(y, g, t))
  BY <1>1 DEF perfmon_finalizeCountersThread_ivybridge, Unmarked
<1>3. Programmable(L) /\ \A k \in Owned(t) : k \in Inits(y, g, t) => Loc(t, k) \in L
  <2>1. PICK i \in SUBSET AllCounters : i = Inits(y, g, t)
    BY DEF Inits
  <2>2. L = LocsOf(t, CoreOf(i) \cup Boxes(t, i)) \cup FixedLocs(y, t, i)
    BY <2>1
  <2> HIDE DEF L
  <2>3. Programmable(L) /\ LocsOf(t, CoreOf(i) \cup Boxes(t, i)) = LocsOf(t, i \cap Owned(t))
    BY <2>2, ClearsHeld
  <2> QED BY <2>1, <2>2, <2>3 DEF LocsOf
<1> HIDE DEF L, z
<1>4. Clears(y, a, t, g, L, y.filter)
  BY <1>3, ClearsFirst
<1> HIDE DEF a
<1>5. Clears(y, b, t, g, L, y.filter)
  BY <1>4, ClearsThen
<1> HIDE DEF b
<1>6. Clears(y, c, t, g, L, y.filter)
  BY <1>5, ClearsThen
<1> HIDE DEF c
<1>7. Clears(y, d, t, g, L, y.filter)
  BY <1>6, ClearsThen
<1> HIDE DEF d
<1>8. Clears(y, z, t, g, L, y.filter)
  BY <1>2, <1>7, ClearsThen
<1>9. FinalizeDone(y, z, t, g)
  BY <1>3, <1>8, FinalizeEnds, IvybridgeUnits
<1> QED BY <1>9 DEF z

-----------------------------------------------------------------------------
(* perfmon_broadwell.h. *)

\* What is said of the units of broadwell.
LEMMA BroadwellUnits ==
  ASSUME UnitOk, Family = "broadwell"
  PROVE  /\ IsBox => Box \in {"MBOX", "CBOX", "UBOX", "UBOXFIX", "BBOX", "WBOX", "PBOX", "IBOX"}
         /\ unit \in Direct <=> Box = "UBOXFIX"
         /\ unit \in FilterSet <=> Box \in {"CBOX", "BBOX", "WBOX"}
         /\ unit \notin NeverFiltered /\ unit \notin FilterCleared
         /\ ~LateUnit /\ ~ByInit /\ unit \notin Halted /\ unit \notin Deselected /\ unit \notin KeepsSelection /\ unit \notin NotFrozen
<1>1. Cpu \in {"broadwelld", "broadwell"} /\ ~ByInit
  BY DEF UnitOk, Family, AllUnits, Of, Cpu, ByInit
<1>2. /\ unit = <<Cpu, Box>> /\ Box \in (EPBoxes \ {"MBOXFIX"}) \cup {"CORE", "IBOX"}
      /\ Cpu = "broadwell" => Box \in {"CORE", "POWER"}
  BY <1>1 DEF UnitOk, AllUnits, Of, Cpu, Box, EPBoxes
<1>3. ~LateUnit /\ unit \notin Halted /\ unit \notin Deselected /\ unit \notin KeepsSelection /\ unit \notin NotFrozen
      /\ unit \notin NeverFiltered /\ unit \notin FilterCleared
  BY <1>1, <1>2 DEF Of, LateUnit, Halted, Deselected, KeepsSelection, NotFrozen, NeverFiltered, FilterCleared
<1>4. (unit \in Direct <=> Box = "UBOXFIX") /\ (unit \in FilterSet <=> Box \in {"CBOX", "BBOX", "WBOX"})
  BY <1>1, <1>2 DEF Of, EPBoxes, Direct, FilterSet
<1>5. IsBox => Box \in {"MBOX", "CBOX", "UBOX", "UBOXFIX", "BBOX", "WBOX", "PBOX", "IBOX"}
  BY <1>1, <1>2 DEF EPBoxes, IsBox, IsCore, IsFree, CoreUnits, FreeTypes
<1> QED BY <1>1, <1>3, <1>4, <1>5

\* perfmon_setupCounterThread_broadwell sets up one counter.
LEMMA BroadwellStep ==
  ASSUME UnitOk, Family = "broadwell", NEW t \in Threads, NEW g \in Groups, NEW c \in AllCounters, NEW y \in Machines
  PROVE  SetsUp(y, bdw_box_setup(y, t, c, EventSet(g).ev[c]), t, g, {c} \ {fx})
<1> DEFINE e == EventSet(g).ev[c]
           z == bdw_box_setup(y, t, c, e)
<1>1. e.flags = Event(g, c) /\ (IsBox => e.filter = filters[g])
  BY EventIs
<1>2. /\ unit \in Direct <=> Box = "UBOXFIX"
      /\ unit \in FilterSet <=> Box \in {"CBOX", "BBOX", "WBOX"}
      /\ unit \notin NeverFiltered
  BY BroadwellUnits
<1> SUFFICES SetsUp(y, z, t, g, {c} \ {fx})
  OBVIOUS
<1> HIDE DEF e, z
<1>3. CASE IsCore
  <2>1. (Type(c) = "PMC" => z = Configure(y, t, c, Event(g, c))) /\ (Type(c) # "PMC" => z = y)
    BY <1>1, <1>3, CoreUnit DEF UnitOk, z, bdw_box_setup, bdw_pmc_setup, CoreTypes
  <2> QED BY <1>3, <2>1, CoreStep
<1>4. CASE IsBox
  <2>1. Type(c) = Box /\ {c} \ {fx} = {c}
    BY <1>4, BoxStep
  <2>2. CASE Box \in {"UBOX", "MBOX", "PBOX", "IBOX"}
    <3>1. z = ConfigureBox(y, t, c, Event(g, c))
      BY <1>1, <2>1, <2>2 DEF z, bdw_box_setup, bdw_ubox_setup, bdw_mbox_setup, bdw_pbox_setup, bdw_ibox_setup
    <3> QED BY <1>2, <1>4, <2>1, <2>2, <3>1, BoxSets
  <2>3. CASE Box \in {"CBOX", "BBOX", "WBOX"}
    <3>1. z = IF HaveLock(t) THEN Configure(SetFilter(y, c, filters[g]), t, c, Event(g, c)) ELSE y
      BY <1>1, <1>4, <2>1, <2>3 DEF z, bdw_box_setup, bdw_cbox_setup, bdw_wbox_setup, bdw_bbox_setup, FilteredSetup
    <3> QED BY <1>2, <1>4, <2>1, <2>3, <3>1, AlwaysSets
  <2>4. CASE Box = "UBOXFIX"
    <3>1. z = IF HaveLock(t) THEN [y EXCEPT !.ctl[Loc(t, c)] = Event(g, c)] ELSE y
      BY <1>1, <2>1, <2>4 DEF z, bdw_box_setup
    <3> QED BY <1>2, <1>4, <2>1, <2>4, <3>1, LockWriteSets
  <2> QED BY <1>4, <2>2, <2>3, <2>4, BroadwellUnits
<1>5. CASE IsFree
  <2>1. z = y
    BY <1>5, FreeStep DEF z, bdw_box_setup, FreeTypes
  <2> QED BY <1>5, <2>1, FreeStep
<1> QED BY <1>3, <1>4, <1>5, KindIs

\* perfmon_setupCounterThread_broadwell keeps the contract of setup.
LEMMA BroadwellSetup ==
  ASSUME UnitOk, Family = "broadwell", NEW t \in Threads, NEW g \in Groups, NEW y \in Machines
  PROVE  SetupDone(y, perfmon_setupCounterThread_broadwell(y, t, EventSet(g)), t, g)
<1> DEFINE es == EventSet(g)
           core == IF CoreOf(CountersOf(es)) = {} THEN y
                   ELSE ClearStatus(GlobalCtrl(y, t, {}), {l \in y.ovf : l[1] = t})
           base == BDW_FREEZE_UNCORE(core, t, es)
           st(c, w) == bdw_box_setup(w, t, c, es.ev[c])
           pick(s) == CHOOSE x \in s : TRUE
           G == [s \in SUBSET AllCounters |->
                   IF s = {} THEN base
                   ELSE IF s \ {pick(s)} = {} THEN st(pick(s), base)
                   ELSE st(pick(s), st(pick(s \ {pick(s)}), base))]
           Eqn(h) == h = [s \in SUBSET AllCounters |-> IF s = {} THEN base ELSE st(pick(s), h[s \ {pick(s)}])]
           iter == CHOOSE h : Eqn(h)
           w == FoldSet(LAMBDA c, x : bdw_box_setup(x, t, c, es.ev[c]), base, AllCounters)
<1>0. CountersOf(es) = AllCounters
  BY EventSetIs DEF UnitOk
<1>1. SetsUp(y, base, t, g, {})
  <2>1. SetsUp(y, core, t, g, {})
    <3>1. SetsUp(y, GlobalCtrl(y, t, {}), t, g, {})
      BY GlobalCtrlIs, SetsUpFrame
    <3> QED BY <3>1, SetsUpThen, SetsUpFrame
  <2> HIDE DEF core
  <2> QED BY <2>1, SetsUpThen DEF BDW_FREEZE_UNCORE
<1>2. base \in Machines
  BY <1>1 DEF SetsUp
<1>3. perfmon_setupCounterThread_broadwell(y, t, es) = Marked(ConfigureFixed(w, t, es), t, g, AllCounters)
  BY <1>0 DEF perfmon_setupCounterThread_broadwell, bdw_fixed_setup, Marked
<1> HIDE DEF base
<1>4. \A s \in SUBSET AllCounters : s # {} => pick(s) \in s /\ s \ {pick(s)} \in SUBSET AllCounters
  OBVIOUS
<1>5. ASSUME NEW s \in SUBSET AllCounters, s # {}, NEW p \in s, s \ {p} # {}, NEW q \in s \ {p} PROVE (s \ {p}) \ {q} = {}
  BY <1>5, KindIs
<1>6. Eqn(G)
  <2> HIDE DEF st, pick
  <2>1. ASSUME NEW s \in SUBSET AllCounters, s # {} PROVE G[s] = st(pick(s), G[s \ {pick(s)}])
    <3>1. pick(s) \in s /\ s \ {pick(s)} \in SUBSET AllCounters
      BY <1>4, <2>1
    <3>2. CASE s \ {pick(s)} = {}
      BY <2>1, <3>2
    <3>3. CASE s \ {pick(s)} # {}
      <4>1. (s \ {pick(s)}) \ {pick(s \ {pick(s)})} = {}
        BY <1>4, <1>5, <2>1, <3>1, <3>3
      <4>2. G[s \ {pick(s)}] = st(pick(s \ {pick(s)}), base)
        BY <3>1, <3>3, <4>1
      <4> QED BY <2>1, <3>3, <4>2
    <3> QED BY <3>2, <3>3
  <2> QED BY <2>1
<1>7. Eqn(iter)
  <2> HIDE DEF G, Eqn
  <2> QED BY <1>6, Zenon
<1>8. w = iter[AllCounters]
  <2> HIDE DEF es
  <2> QED BY DEF FoldSet, MapThenFoldSet
<1>9. ASSUME NEW c \in AllCounters, NEW x \in Machines PROVE SetsUp(x, st(c, x), t, g, {c} \ {fx})
  BY BroadwellStep
<1> HIDE DEF st, pick, iter, w
<1>10. SetsUp(base, iter[AllCounters], t, g, AllCounters \ {fx})
  <2>1. iter[{}] = base
    BY <1>7
  <2>2. ASSUME NEW s \in SUBSET AllCounters, s # {}
        PROVE  \E c \in s : iter[s \ {c}] \in Machines => SetsUp(iter[s \ {c}], iter[s], t, g, {c} \ {fx})
    <3>1. pick(s) \in s /\ pick(s) \in AllCounters /\ iter[s] = st(pick(s), iter[s \ {pick(s)}])
      BY <1>4, <1>7, <2>2
    <3> QED BY <1>9, <3>1
  <2> QED BY <1>2, <2>1, <2>2, FoldSetsUp
<1>11. SetsUp(y, w, t, g, {} \cup (AllCounters \ {fx}))
  BY <1>1, <1>8, <1>10, SetsUpBoth
<1>12. SetupDone(y, Marked(ConfigureFixed(w, t, es), t, g, AllCounters), t, g)
  BY <1>11, SetupEnds
<1> QED BY <1>3, <1>12

\* perfmon_startCountersThread_broadwell keeps the contract of start.
LEMMA BroadwellStart ==
  ASSUME UnitOk, Family = "broadwell", NEW t \in Threads, NEW g \in Groups, NEW y \in Machines, Inits(y, g, t) = AllCounters
  PROVE  StartDone(y, perfmon_startCountersThread_broadwell(y, t, EventSet(g)), t, g)
<1> DEFINE es == EventSet(g)
           a == BeginData(y, t, es, AllCounters)
           b == Zero(a, LocsOf(t, CoreOf(AllCounters)))
           c == Zero(b, LocsOf(t, Boxes(t, AllCounters)))
           d == IF HaveLock(t) /\ UsesPackage(es) THEN Unfreeze(c, PackageLocs(c)) ELSE c
           z == IF CoreOf(AllCounters) = {} THEN d
                ELSE GlobalCtrl(ClearStatus(d, LocsOf(t, CoreOf(AllCounters))), t, CoreOf(AllCounters))
<1>1. InitOf(y, t, es) = AllCounters /\ CountersOf(es) = AllCounters
  BY InitOfIs
<1>2. z = perfmon_startCountersThread_broadwell(y, t, es)
  BY <1>1 DEF perfmon_startCountersThread_broadwell, BDW_UNFREEZE_UNCORE_AND_RESET_CTR, BDW_UNFREEZE_UNCORE
<1>3. Keeps(y, a, t, g) /\ On(a) = On(y)
  BY BeginNotes, KeepsNothing, KeepsReads
<1> HIDE DEF a
<1>4. Keeps(y, b, t, g) /\ On(b) = On(y)
  BY <1>3, Noting, KeepsStores DEF Keeps
<1> HIDE DEF b
<1>5. Keeps(y, c, t, g) /\ On(c) = On(y)
  BY <1>4, Noting, KeepsStores DEF Keeps
<1> HIDE DEF c
<1>6. Keeps(y, d, t, g) /\ On(d) = On(y) \cup BoxHeld(t)
  BY <1>5, KeepsPackageOn
<1> HIDE DEF d
<1>7. Keeps(y, z, t, g) /\ On(z) = On(d) \cup CoreHeld(t)
  <2>1. PICK L : L = LocsOf(t, CoreOf(AllCounters))
    OBVIOUS
  <2>2. z = IF CoreOf(AllCounters) = {} THEN d ELSE GlobalCtrl(ClearStatus(d, L), t, CoreOf(AllCounters))
    BY <2>1
  <2> HIDE DEF z
  <2> QED BY <1>6, <2>2, KeepsCoreStart
<1> HIDE DEF z
<1>8. StartDone(y, z, t, g)
  BY <1>6, <1>7, StartEnds, BroadwellUnits
<1> QED BY <1>2, <1>8

\* The read of all counters only changes records.
LEMMA BroadwellReads ==
  ASSUME UnitOk, NEW t \in Threads, NEW g \in Groups, NEW y \in Machines, NEW clear
  PROVE  LET z == bdw_read(y, t, EventSet(g), AllCounters, clear)
         IN Stores(y, z, t, g) /\ (~clear => Reads(y, z, t, g))
<1> DEFINE es == EventSet(g)
           power == IF HaveLock(t) THEN OfTypes(AllCounters, {"POWER"}) ELSE {}
           a == SampleStatus(y, t, es, CoreOf(AllCounters))
           b == SamplePlain(a, t, es, power)
           c == bdw_uncore_read(b, t, es, AllCounters, clear)
           z == bdw_read(y, t, es, AllCounters, clear)
<1>1. Reads(y, a, t, g)
  BY Sampling
<1>2. z = ClearData(c, t, es, AllCounters \ (CoreOf(AllCounters) \cup power))
  BY DEF bdw_read
<1> HIDE DEF z, a
<1>3. Reads(a, b, t, g)
  BY <1>1, Sampling DEF Reads, Stores
<1> HIDE DEF b
<1>4. Stores(b, c, t, g) /\ (~clear => Reads(b, c, t, g))
  BY <1>3, Noting, StoresNothing DEF bdw_uncore_read, Reads, Stores
<1> HIDE DEF c, power
<1>5. Reads(c, z, t, g)
  BY <1>2, <1>4, Noting DEF Reads, Stores
<1>6. Stores(y, z, t, g) /\ (~clear => Reads(y, z, t, g))
  <2>1. Reads(y, b, t, g)
    BY <1>1, <1>3, StoresBoth
  <2>2. Stores(y, c, t, g) /\ (~clear => Reads(y, c, t, g))
    BY <1>4, <2>1, StoresBoth DEF Reads
  <2> QED BY <1>5, <2>2, StoresBoth DEF Reads
<1> QED BY <1>6 DEF z

\* perfmon_stopCountersThread_broadwell keeps the contract of stop.
LEMMA BroadwellStop ==
  ASSUME UnitOk, Family = "broadwell", NEW t \in Threads, NEW g \in Groups, NEW y \in Machines, Inits(y, g, t) = AllCounters
  PROVE  StopDone(y, perfmon_stopCountersThread_broadwell(y, t, EventSet(g)), t, g)
<1> DEFINE es == EventSet(g)
           a == GlobalCtrlIf(y, t, es, {})
           b == IF HaveLock(t) /\ UsesPackage(es) THEN Freeze(a, PackageLocs(a)) ELSE a
           w == bdw_read(b, t, es, AllCounters, TRUE)
           z == perfmon_stopCountersThread_broadwell(y, t, es)
<1>1. InitOf(y, t, es) = AllCounters /\ CountersOf(es) = AllCounters
  BY InitOfIs
<1>2. z = Unmarked(w, t, g, AllCounters)
  BY <1>1 DEF perfmon_stopCountersThread_broadwell, Unmarked, BDW_FREEZE_UNCORE
<1>3. Keeps(y, a, t, g) /\ On(a) = On(y) \ CoreHeld(t)
  <2>1. Keeps(y, y, t, g)
    BY KeepsNothing
  <2> QED BY <2>1, KeepsCoreOff
<1> HIDE DEF a, z
<1>4. Keeps(y, b, t, g) /\ On(b) = On(a) \ BoxHeld(t)
  BY <1>3, KeepsPackageOff
<1> HIDE DEF b
<1>5. Stores(b, w, t, g)
  BY <1>4, BroadwellReads DEF Keeps
<1> HIDE DEF w
<1>6. Keeps(y, w, t, g) /\ On(w) = On(b)
  BY <1>4, <1>5, KeepsStores
<1>7. StopDone(y, z, t, g)
  BY <1>2, <1>3, <1>4, <1>6, StopEnds, BroadwellUnits
<1> QED BY <1>7 DEF z

\* perfmon_readCountersThread_broadwell keeps the contract of read.
LEMMA BroadwellRead ==
  ASSUME UnitOk, Family = "broadwell", NEW t \in Threads, NEW g \in Groups, NEW y \in Machines, Inits(y, g, t) = AllCounters,
         Programmed \subseteq On(y)
  PROVE  ReadDone(y, perfmon_readCountersThread_broadwell(y, t, EventSet(g)), t, g)
<1> DEFINE es == EventSet(g)
           a == GlobalCtrlIf(y, t, es, {})
           b == IF HaveLock(t) /\ UsesPackage(es) THEN Freeze(a, PackageLocs(a)) ELSE a
           r == bdw_read(b, t, es, AllCounters, FALSE)
           d == IF HaveLock(t) /\ UsesPackage(es) THEN Unfreeze(r, PackageLocs(r)) ELSE r
           z == GlobalCtrlIf(d, t, es, RunningCore(y, t))
<1>1. InitOf(y, t, es) = AllCounters /\ CountersOf(es) = AllCounters
  BY InitOfIs
<1>2. z = perfmon_readCountersThread_broadwell(y, t, es)
  BY <1>1 DEF perfmon_readCountersThread_broadwell, BDW_UNFREEZE_UNCORE, BDW_FREEZE_UNCORE, RunningCore
<1>3. Keeps(y, a, t, g) /\ On(a) = On(y) \ CoreHeld(t) /\ a.cnt = y.cnt
  <2>1. Keeps(y, y, t, g)
    BY KeepsNothing
  <2> QED BY <2>1, KeepsCoreOff
<1> HIDE DEF a
<1>4. Keeps(y, b, t, g) /\ On(b) = On(a) \ BoxHeld(t) /\ b.cnt = y.cnt
  BY <1>3, KeepsPackageOff
<1> HIDE DEF b
<1>5. Reads(b, r, t, g)
  <2>1. PICK no : no = FALSE
    OBVIOUS
  <2>2. Reads(b, bdw_read(b, t, es, AllCounters, no), t, g)
    BY <1>4, <2>1, BroadwellReads DEF Keeps
  <2> QED BY <2>1, <2>2
<1> HIDE DEF r
<1>6. Keeps(y, r, t, g) /\ On(r) = On(b) /\ r.cnt = y.cnt
  BY <1>4, <1>5, KeepsReads
<1>7. Keeps(y, d, t, g) /\ On(d) = On(r) \cup BoxHeld(t) /\ d.cnt = y.cnt
  BY <1>6, KeepsPackageOn
<1> HIDE DEF d
<1>8. Keeps(y, z, t, g) /\ On(z) = (On(d) \ CoreHeld(t)) \cup (On(y) \cap CoreHeld(t)) /\ z.cnt = y.cnt
  BY <1>7, KeepsCoreBack
<1> HIDE DEF z
<1>9. On(z) = On(y)
  BY <1>3, <1>4, <1>6, <1>7, <1>8, HeldIs
<1>10. ReadDone(y, z, t, g)
  BY <1>8, <1>9, ReadEnds
<1> QED BY <1>2, <1>10

\* perfmon_finalizeCountersThread_broadwell keeps the contract of finalize.
LEMMA BroadwellFinalize ==
  ASSUME UnitOk, Family = "broadwell", NEW t \in Threads, NEW g \in Groups, NEW y \in Machines
  PROVE  FinalizeDone(y, perfmon_finalizeCountersThread_broadwell(y, t, EventSet(g)), t, g)
<1> DEFINE es == EventSet(g)
           L == LocsOf(t, CoreOf(AllCounters) \cup Boxes(t, AllCounters)) \cup FixedLocs(y, t, AllCounters)
           a == Deselect(y, L)
           b == ClearStatus(a, LocsOf(t, CoreOf(AllCounters)))
           c == GlobalCtrlIf(b, t, es, {})
           z == perfmon_finalizeCountersThread_broadwell(y, t, es)
<1>1. CountersOf(es) = AllCounters
  BY InitOfIs
<1>2. z = Unmarked(c, t, g, AllCounters)
  BY <1>1 DEF perfmon_finalizeCountersThread_broadwell, Unmarked
<1>3. Programmable(L) /\ Held(t) \subseteq L
  BY ClearsHeld
<1> HIDE DEF L, z
<1>4. Clears(y, a, t, g, L, y.filter)
  BY <1>3, ClearsFirst
<1> HIDE DEF a
<1>5. Clears(y, b, t, g, L, y.filter)
  BY <1>4, ClearsThen
<1> HIDE DEF b
<1>6. Clears(y, c, t, g, L, y.filter)
  BY <1>5, ClearsThen
<1> HIDE DEF c
<1>7. Clears(y, z, t, g, L, y.filter)
  BY <1>2, <1>6, ClearsThen
<1>8. FinalizeDone(y, z, t, g)
  BY <1>3, <1>7, FinalizesAll, BroadwellUnits
<1> QED BY <1>8 DEF z

-----------------------------------------------------------------------------
(* perfmon_phi.h. *)

\* What is said of the units of phi.
LEMMA PhiUnits ==
  ASSUME UnitOk, Family = "phi"
  PROVE  /\ IsCore /\ ~IsFree /\ ~IsBox /\ ~LateUnit /\ ~ByInit /\ Cpu \in WithoutFixed
         /\ unit \notin Direct /\ unit \notin NeverFiltered /\ unit \notin FilterSet /\ unit \notin FilterCleared
         /\ unit \notin Halted /\ unit \notin Deselected /\ unit \notin KeepsSelection /\ unit \notin NotFrozen
<1>1. Cpu = "phi" /\ ~ByInit
  BY DEF UnitOk, Family, AllUnits, Of, Cpu, ByInit
<1>2. unit = <<Cpu, Box>> /\ Box \in {"CORE", "SWAPPED"}
  BY <1>1 DEF UnitOk, AllUnits, Of, Cpu, Box
<1>3. unit \notin Direct /\ ~LateUnit /\ unit \notin Halted /\ unit \notin Deselected /\ unit \notin KeepsSelection /\ unit \notin NotFrozen
      /\ unit \notin NeverFiltered /\ unit \notin FilterSet /\ unit \notin FilterCleared
  BY <1>1, <1>2 DEF Of, LateUnit, Direct, Halted, Deselected, KeepsSelection, NotFrozen, NeverFiltered, FilterSet, FilterCleared
<1> QED BY <1>1, <1>2, <1>3 DEF IsFree, IsCore, IsBox, FreeTypes, CoreUnits, WithoutFixed

\* perfmon_setupCounterThread_phi sets up one counter.
LEMMA PhiStep ==
  ASSUME UnitOk, Family = "phi", NEW t \in Threads, NEW g \in Groups, NEW c \in AllCounters, NEW y \in Machines
  PROVE  SetsUp(y, phi_pmc_setup(y, t, c, EventSet(g).ev[c]), t, g, {c} \ {fx})
<1>1. {c} \ {fx} = {c} /\ EventSet(g).ev[c].flags = Event(g, c)
  BY PhiUnits, NoFixed, EventIs
<1>2. c \in Owned(t)
  BY PhiUnits, OwnedIs
<1> QED BY <1>1, <1>2, PhiUnits, ConfigureSets DEF phi_pmc_setup

\* MSR_PERF_GLOBAL_CTRL is written whatever the event set uses.
LEMMA KeepsCtrlOff ==
  ASSUME UnitOk, NEW y, NEW w, NEW t \in Threads, NEW g \in Groups, Keeps(y, w, t, g)
  PROVE  LET z == GlobalCtrl(w, t, {}) IN
         Keeps(y, z, t, g) /\ z.cnt = w.cnt /\ On(z) = On(w) \ CoreHeld(t)
<1> DEFINE z == GlobalCtrl(w, t, {})
<1>1. w \in Machines
  BY DEF Keeps
<1>2. LocsOf(t, {}) = {} /\ {} \subseteq CoreOf(AllCounters)
  BY DEF LocsOf
<1>3. /\ z \in Machines /\ On(z) = (On(w) \ CoreHeld(t)) \cup LocsOf(t, {})
      /\ z.shl = w.shl /\ z.ctl = w.ctl /\ z.cnt = w.cnt /\ z.ovf = w.ovf
      /\ z.govf = w.govf /\ z.filter = w.filter /\ z.cfg = w.cfg /\ z.tc = w.tc
  BY <1>1, <1>2, CoreCtrlIs
<1> HIDE DEF z
<1>4. Keeps(y, z, t, g)
  BY <1>3, KeepsOn
<1> QED BY <1>2, <1>3, <1>4 DEF z

\* The counters of the CPU are enabled.
LEMMA KeepsCtrlOn ==
  ASSUME UnitOk, IsCore, NEW y, NEW w, NEW t \in Threads, NEW g \in Groups, Keeps(y, w, t, g)
  PROVE  LET z == GlobalCtrl(w, t, AllCounters) IN
         Keeps(y, z, t, g) /\ z.cnt = w.cnt /\ On(z) = On(w) \cup CoreHeld(t)
<1> DEFINE z == GlobalCtrl(w, t, AllCounters)
<1>1. w \in Machines
  BY DEF Keeps
<1>2. CoreOf(AllCounters) = AllCounters /\ LocsOf(t, CoreOf(AllCounters)) = CoreHeld(t)
  BY CoreUnit, HeldIs DEF UnitOk
<1>3. /\ z \in Machines /\ On(z) = (On(w) \ CoreHeld(t)) \cup LocsOf(t, AllCounters)
      /\ z.shl = w.shl /\ z.ctl = w.ctl /\ z.cnt = w.cnt /\ z.ovf = w.ovf
      /\ z.govf = w.govf /\ z.filter = w.filter /\ z.cfg = w.cfg /\ z.tc = w.tc
  BY <1>1, <1>2, CoreCtrlIs
<1> HIDE DEF z
<1>4. Keeps(y, z, t, g)
  BY <1>3, KeepsOn
<1> QED BY <1>2, <1>3, <1>4 DEF z

\* The positions of the events are the registers of the thread, in some order.
LEMMA PhiPositions ==
  ASSUME UnitOk, Family = "phi", NEW t \in Threads, NEW g \in Groups
  PROVE  /\ \A c \in AllCounters : AtPosition(t, EventSet(g), c) \in Locs
         /\ {AtPosition(t, EventSet(g), c) : c \in AllCounters} = Held(t)
<1>1. AllCounters = {<<"PMC", 0>>, <<"PMC", 1>>}
  BY PhiUnits DEF AllCounters, IsCore
<1>2. /\ AtPosition(t, EventSet(g), <<"PMC", 0>>) = <<t, "PMC", IF Box = "SWAPPED" THEN 1 ELSE 0>>
      /\ AtPosition(t, EventSet(g), <<"PMC", 1>>) = <<t, "PMC", IF Box = "SWAPPED" THEN 0 ELSE 1>>
  <2>1. EventSet(g).pos[<<"PMC", 0>>] = (IF Box = "SWAPPED" THEN 1 ELSE 0) /\ EventSet(g).pos[<<"PMC", 1>>] = (IF Box = "SWAPPED" THEN 0 ELSE 1)
    BY <1>1, EventSetIs DEF UnitOk
  <2> QED BY <2>1 DEF AtPosition
<1>3. Loc(t, <<"PMC", 0>>) = <<t, "PMC", 0>> /\ Loc(t, <<"PMC", 1>>) = <<t, "PMC", 1>>
  BY DEF Loc, Type, CoreTypes
<1>4. Held(t) = {<<t, "PMC", 0>>, <<t, "PMC", 1>>}
  <2>1. Owned(t) = AllCounters
    BY PhiUnits, OwnedIs
  <2> QED BY <1>1, <1>3, <2>1 DEF Held, LocsOf
<1>5. Held(t) \subseteq Locs
  BY HeldIs
<1> QED BY <1>1, <1>2, <1>4, <1>5

\* perfmon_setupCounterThread_phi keeps the contract of setup.
LEMMA PhiSetup ==
  ASSUME UnitOk, Family = "phi", NEW t \in Threads, NEW g \in Groups, NEW y \in Machines
  PROVE  SetupDone(y, perfmon_setupCounterThread_phi(y, t, EventSet(g)), t, g)
<1> DEFINE es == EventSet(g)
           base == y
           st(c, w) == phi_pmc_setup(w, t, c, es.ev[c])
           pick(s) == CHOOSE x \in s : TRUE
           G == [s \in SUBSET AllCounters |->
                   IF s = {} THEN base
                   ELSE IF s \ {pick(s)} = {} THEN st(pick(s), base)
                   ELSE st(pick(s), st(pick(s \ {pick(s)}), base))]
           Eqn(h) == h = [s \in SUBSET AllCounters |-> IF s = {} THEN base ELSE st(pick(s), h[s \ {pick(s)}])]
           iter == CHOOSE h : Eqn(h)
           w == FoldSet(LAMBDA c, x : phi_pmc_setup(x, t, c, es.ev[c]), base, AllCounters)
<1>0. CountersOf(es) = AllCounters
  BY EventSetIs DEF UnitOk
<1>1. SetsUp(y, base, t, g, {})
  BY SetsUpFrame
<1>2. base \in Machines
  BY <1>1 DEF SetsUp
<1>3. perfmon_setupCounterThread_phi(y, t, es) = Marked(w, t, g, AllCounters)
  BY <1>0 DEF perfmon_setupCounterThread_phi, Marked
<1> HIDE DEF base
<1>4. \A s \in SUBSET AllCounters : s # {} => pick(s) \in s /\ s \ {pick(s)} \in SUBSET AllCounters
  OBVIOUS
<1>5. ASSUME NEW s \in SUBSET AllCounters, s # {}, NEW p \in s, s \ {p} # {}, NEW q \in s \ {p} PROVE (s \ {p}) \ {q} = {}
  BY <1>5, KindIs
<1>6. Eqn(G)
  <2> HIDE DEF st, pick
  <2>1. ASSUME NEW s \in SUBSET AllCounters, s # {} PROVE G[s] = st(pick(s), G[s \ {pick(s)}])
    <3>1. pick(s) \in s /\ s \ {pick(s)} \in SUBSET AllCounters
      BY <1>4, <2>1
    <3>2. CASE s \ {pick(s)} = {}
      BY <2>1, <3>2
    <3>3. CASE s \ {pick(s)} # {}
      <4>1. (s \ {pick(s)}) \ {pick(s \ {pick(s)})} = {}
        BY <1>4, <1>5, <2>1, <3>1, <3>3
      <4>2. G[s \ {pick(s)}] = st(pick(s \ {pick(s)}), base)
        BY <3>1, <3>3, <4>1
      <4> QED BY <2>1, <3>3, <4>2
    <3> QED BY <3>2, <3>3
  <2> QED BY <2>1
<1>7. Eqn(iter)
  <2> HIDE DEF G, Eqn
  <2> QED BY <1>6, Zenon
<1>8. w = iter[AllCounters]
  <2> HIDE DEF es
  <2> QED BY DEF FoldSet, MapThenFoldSet
<1>9. ASSUME NEW c \in AllCounters, NEW x \in Machines PROVE SetsUp(x, st(c, x), t, g, {c} \ {fx})
  BY PhiStep
<1> HIDE DEF st, pick, iter, w
<1>10. SetsUp(base, iter[AllCounters], t, g, AllCounters \ {fx})
  <2>1. iter[{}] = base
    BY <1>7
  <2>2. ASSUME NEW s \in SUBSET AllCounters, s # {}
        PROVE  \E c \in s : iter[s \ {c}] \in Machines => SetsUp(iter[s \ {c}], iter[s], t, g, {c} \ {fx})
    <3>1. pick(s) \in s /\ pick(s) \in AllCounters /\ iter[s] = st(pick(s), iter[s \ {pick(s)}])
      BY <1>4, <1>7, <2>2
    <3> QED BY <1>9, <3>1
  <2> QED BY <1>2, <2>1, <2>2, FoldSetsUp
<1>11. SetsUp(y, w, t, g, {} \cup (AllCounters \ {fx}))
  BY <1>1, <1>8, <1>10, SetsUpBoth
<1>12. SetupDone(y, Marked(w, t, g, AllCounters), t, g)
  <2>1. AllCounters \ {fx} = AllCounters
    BY NoFixed, PhiUnits
  <2> QED BY <1>11, <2>1, SetupEnds
<1> QED BY <1>3, <1>12

\* perfmon_startCountersThread_phi keeps the contract of start.
LEMMA PhiStart ==
  ASSUME UnitOk, Family = "phi", NEW t \in Threads, NEW g \in Groups, NEW y \in Machines, Inits(y, g, t) = AllCounters
  PROVE  StartDone(y, perfmon_startCountersThread_phi(y, t, EventSet(g)), t, g)
<1> DEFINE es == EventSet(g)
           a == GlobalCtrl(y, t, {})
           b == ResetData(a, t, es, AllCounters)
           c == Zero(b, LocsOf(t, AllCounters))
           d == GlobalCtrl(c, t, AllCounters)
           z == ClearStatus(d, LocsOf(t, AllCounters))
<1>1. InitOf(y, t, es) = AllCounters /\ CountersOf(es) = AllCounters
  BY InitOfIs
<1>2. z = perfmon_startCountersThread_phi(y, t, es)
  BY <1>1 DEF perfmon_startCountersThread_phi
<1>3. Keeps(y, a, t, g) /\ On(a) = On(y) \ CoreHeld(t)
  <2>0. Keeps(y, y, t, g)
    BY KeepsNothing
  <2> QED BY <2>0, KeepsCtrlOff
<1> HIDE DEF a
<1>4. Keeps(y, b, t, g) /\ On(b) = On(a)
  <2>1. Stores(a, b, t, g)
    BY <1>3, Noting DEF Keeps, Reads
  <2> QED BY <1>3, <2>1, KeepsStores
<1> HIDE DEF b
<1>5. Keeps(y, c, t, g) /\ On(c) = On(b)
  <2>1. Stores(b, c, t, g)
    BY <1>4, Noting DEF Keeps, Reads
  <2> QED BY <1>4, <2>1, KeepsStores
<1> HIDE DEF c
<1>6. Keeps(y, d, t, g) /\ On(d) = On(c) \cup CoreHeld(t)
  BY <1>5, KeepsCtrlOn, PhiUnits
<1> HIDE DEF d
<1>7. Keeps(y, z, t, g) /\ On(z) = On(d)
  <2>1. Stores(d, z, t, g)
    BY <1>6, Noting DEF Keeps, Reads
  <2> QED BY <1>6, <2>1, KeepsStores
<1> HIDE DEF z
<1>8. StartDone(y, z, t, g)
  BY <1>3, <1>4, <1>5, <1>6, <1>7, StartEnds, PhiUnits, CoreHasNoBox
<1> QED BY <1>2, <1>8

\* perfmon_stopCountersThread_phi keeps the contract of stop.
LEMMA PhiStop ==
  ASSUME UnitOk, Family = "phi", NEW t \in Threads, NEW g \in Groups, NEW y \in Machines, Inits(y, g, t) = AllCounters
  PROVE  StopDone(y, perfmon_stopCountersThread_phi(y, t, EventSet(g)), t, g)
<1> DEFINE es == EventSet(g)
           a == GlobalCtrl(y, t, {})
           z == SampleStatus(a, t, es, AllCounters)
<1>1. InitOf(y, t, es) = AllCounters /\ CountersOf(es) = AllCounters
  BY InitOfIs
<1>2. z = perfmon_stopCountersThread_phi(y, t, es)
  BY <1>1 DEF perfmon_stopCountersThread_phi
<1>3. Keeps(y, a, t, g) /\ On(a) = On(y) \ CoreHeld(t)
  <2>0. Keeps(y, y, t, g)
    BY KeepsNothing
  <2> QED BY <2>0, KeepsCtrlOff
<1> HIDE DEF a
<1>4. Keeps(y, z, t, g) /\ On(z) = On(a)
  <2>1. Stores(a, z, t, g)
    BY <1>3, Sampling DEF Keeps, Reads
  <2> QED BY <1>3, <2>1, KeepsStores
<1> HIDE DEF z
<1>5. StopDone(y, z, t, g)
  BY <1>3, <1>4, StopEnds, PhiUnits, CoreHasNoBox
<1> QED BY <1>2, <1>5

\* perfmon_readCountersThread_phi keeps the contract of read.
LEMMA PhiRead ==
  ASSUME UnitOk, Family = "phi", NEW t \in Threads, NEW g \in Groups, NEW y \in Machines, Inits(y, g, t) = AllCounters
  PROVE  ReadDone(y, perfmon_readCountersThread_phi(y, t, EventSet(g)), t, g)
<1> DEFINE es == EventSet(g)
           value(c) == y.cnt[AtPosition(t, es, c)]
           wrapped(c) == value(c) < y.tc[g][t][c].counterData
           R == [c \in AllCounters |-> Sampled(y.tc[g][t][c], value(c), wrapped(c) /\ Loc(t, c) \in y.ovf)]
           L == {Loc(t, c) : c \in {d \in AllCounters : wrapped(d)}}
           w == [y EXCEPT !.tc[g][t] = R]
           z == ClearStatus(w, L)
<1>1. y.tc[g][t] \in [AllCounters -> Counters] /\ es.id = g /\ InitOf(y, t, es) = AllCounters
  BY Fields, EventSetIs, InitOfIs DEF UnitOk
<1>2. z = perfmon_readCountersThread_phi(y, t, es)
  <2>1. DOMAIN y.tc[g][t] = AllCounters
    BY <1>1
  <2>2. w = [y EXCEPT !.tc[es.id][t] = [c \in DOMAIN @ |->
              IF c \in AllCounters THEN Sampled(@[c], value(c), wrapped(c) /\ Loc(t, c) \in y.ovf) ELSE @[c]]]
    BY <1>1, <2>1
  <2> QED BY ZenonT(40), <1>1, <2>1, <2>2 DEF perfmon_readCountersThread_phi, ClearStatus
<1>3. ASSUME NEW c \in AllCounters PROVE R[c] \in Counters /\ R[c].init = y.tc[g][t][c].init
  <2> DEFINE r == y.tc[g][t][c]
             a == value(c)
             p == wrapped(c) /\ Loc(t, c) \in y.ovf
  <2>1. r \in Counters
    BY <1>1
  <2>2. a \in Nat
    <3>1. AtPosition(t, es, c) \in Locs /\ y.cnt \in [Locs -> 0 .. Size - 1]
      BY PhiPositions, Fields
    <3> QED BY <3>1, ArchAssumption
  <2>3. R[c] = Sampled(r, a, p)
    OBVIOUS
  <2> HIDE DEF R, r, a, p
  <2>4. R[c] \in Counters /\ R[c].init = r.init
    BY <2>1, <2>2, <2>3, SampledIs
  <2> QED BY <2>4 DEF r
<1>4. R \in [AllCounters -> Counters]
  <2>1. R = [c \in AllCounters |-> R[c]]
    OBVIOUS
  <2> HIDE DEF R
  <2> QED BY <1>3, <2>1
<1>5. {c \in AllCounters : R[c].init} = Inits(y, g, t)
  <2> HIDE DEF R
  <2> QED BY <1>3, Zenon DEF Inits
<1> HIDE DEF R, L
<1>6. /\ w \in Machines /\ w.tc[g][t] = R /\ Others(y, w, t, g)
      /\ w.shl = y.shl /\ w.ctl = y.ctl /\ w.on = y.on /\ w.cnt = y.cnt
      /\ w.ovf = y.ovf /\ w.govf = y.govf /\ w.filter = y.filter /\ w.cfg = y.cfg
  BY <1>4, PutRecords
<1> HIDE DEF w
<1>7. Inits(w, g, t) = {c \in AllCounters : R[c].init}
  BY <1>6, Zenon DEF Inits
<1>8. Reads(y, w, t, g)
  BY <1>5, <1>6, <1>7 DEF Reads, Stores, On
<1>9. Reads(w, z, t, g)
  BY <1>6, Noting
<1> HIDE DEF z
<1>10. Reads(y, z, t, g)
  BY <1>8, <1>9, StoresBoth
<1>11. Keeps(y, z, t, g) /\ z.cnt = y.cnt /\ On(z) = On(y)
  BY <1>10, KeepsNothing, KeepsReads
<1>12. ReadDone(y, z, t, g)
  BY <1>11, ReadEnds
<1> QED BY <1>2, <1>12

\* perfmon_finalizeCountersThread_phi keeps the contract of finalize.
LEMMA PhiFinalize ==
  ASSUME UnitOk, Family = "phi", NEW t \in Threads, NEW g \in Groups, NEW y \in Machines
  PROVE  FinalizeDone(y, perfmon_finalizeCountersThread_phi(y, t, EventSet(g)), t, g)
<1> DEFINE es == EventSet(g)
           L == {AtPosition(t, es, c) : c \in AllCounters}
           a == Deselect(y, L)
           c == GlobalCtrl(a, t, {})
           d == ClearStatus(c, LocsOf(t, AllCounters))
           z == perfmon_finalizeCountersThread_phi(y, t, es)
<1>1. CountersOf(es) = AllCounters
  BY InitOfIs
<1>2. z = d
  BY <1>1 DEF perfmon_finalizeCountersThread_phi
<1>3. Programmable(L) /\ Held(t) \subseteq L
  BY PhiPositions, HeldIs DEF Programmable, Programmed
<1> HIDE DEF L, z
<1>4. Clears(y, a, t, g, L, y.filter)
  BY <1>3, ClearsFirst
<1> HIDE DEF a
<1>5. Clears(y, c, t, g, L, y.filter)
  BY <1>4, ClearsThen
<1> HIDE DEF c
<1>6. Clears(y, d, t, g, L, y.filter)
  BY <1>5, ClearsThen
<1> HIDE DEF d
<1>7. Clears(y, z, t, g, L, y.filter)
  BY <1>2, <1>6
<1>8. FinalizeDone(y, z, t, g)
  BY <1>3, <1>7, FinalizesAll, PhiUnits
<1> QED BY <1>8 DEF z

-----------------------------------------------------------------------------
(* perfmon_k10.h, perfmon_interlagos.h, perfmon_kabini.h. *)

\* What holds of the three processors' units.
LEMMA AmdUnits ==
  ASSUME UnitOk, Family \in {"k10", "interlagos", "kabini"}
  PROVE  /\ Box \in {"CORE", "UNCORE", "CBOX"} /\ Cpu \in WithoutFixed
         /\ Family = "k10" => IsCore
         /\ Family = "interlagos" => Box \in {"CORE", "UNCORE"}
         /\ unit \notin Direct /\ unit \notin NeverFiltered /\ unit \notin FilterSet /\ unit \notin FilterCleared
         /\ ~LateUnit /\ ~ByInit /\ unit \notin Halted /\ unit \notin Deselected /\ unit \notin KeepsSelection /\ unit \notin NotFrozen
         /\ ~IsFree /\ (IsCore <=> Box = "CORE")
<1>1. Cpu \in {"k10", "interlagos", "kabini"} /\ ~ByInit /\ Cpu = Family
  BY DEF UnitOk, Family, AllUnits, Of, Cpu, ByInit
<1>2. /\ unit = <<Cpu, Box>> /\ Box \in {"CORE", "UNCORE", "CBOX"}
      /\ Cpu = "k10" => Box = "CORE"
      /\ Cpu = "interlagos" => Box \in {"CORE", "UNCORE"}
  BY <1>1 DEF UnitOk, AllUnits, Of, Cpu, Box
<1>3. unit \notin Direct /\ ~LateUnit /\ unit \notin Halted /\ unit \notin Deselected /\ unit \notin KeepsSelection /\ unit \notin NotFrozen
      /\ unit \notin NeverFiltered /\ unit \notin FilterSet /\ unit \notin FilterCleared
  BY <1>1, <1>2 DEF Of, LateUnit, Direct, Halted, Deselected, KeepsSelection, NotFrozen, NeverFiltered, FilterSet, FilterCleared
<1>4. ~IsFree /\ (IsCore <=> Box = "CORE")
  BY <1>2 DEF IsFree, IsCore, FreeTypes, CoreUnits
<1> QED BY <1>1, <1>2, <1>3, <1>4 DEF WithoutFixed

\* What is said of the units of k10.
LEMMA K10Units ==
  ASSUME UnitOk, Family = "k10"
  PROVE  IsCore /\ ~LateUnit /\ ~ByInit /\ unit \notin Halted /\ unit \notin FilterCleared /\ ~IsFree
BY AmdUnits

\* What is said of the units of interlagos.
LEMMA InterlagosUnits ==
  ASSUME UnitOk, Family = "interlagos"
  PROVE  ~LateUnit /\ ~ByInit /\ unit \notin Halted /\ unit \notin FilterCleared /\ ~IsFree
BY AmdUnits

\* What is said of the units of kabini.
LEMMA KabiniUnits ==
  ASSUME UnitOk, Family = "kabini"
  PROVE  ~LateUnit /\ ~ByInit /\ unit \notin Halted /\ unit \notin FilterCleared /\ ~IsFree
BY AmdUnits

\* The registers a thread programs on AMD's processors.
LEMMA OwnIs ==
  ASSUME UnitOk, NEW t \in Threads
  PROVE  LocsOf(t, Own(t, AllCounters)) = Held(t) /\ Held(t) \subseteq Locs /\ Programmable(Held(t))
<1>1. Own(t, AllCounters) = AllCounters \cap Owned(t)
  BY OwnedIs DEF Own
<1>2. AllCounters \cap Owned(t) = Owned(t)
  BY DEF Owned, Mine, CoreOf, OfTypes
<1> QED BY <1>1, <1>2, HeldIs DEF Held, Programmable, Programmed

\* A counter of the package is set up by the holder of its lock.
LEMMA AmdSets ==
  ASSUME UnitOk, Family \in {"k10", "interlagos", "kabini"}, NEW t \in Threads, NEW g \in Groups, NEW c \in AllCounters, NEW y \in Machines, NEW z,
         \/ z = ConfigureDisabled(y, t, c, Event(g, c)) /\ IsCore
         \/ z = (IF HaveLock(t) THEN ConfigureDisabled(y, t, c, Event(g, c)) ELSE y) /\ IsBox
  PROVE  SetsUp(y, z, t, g, {c} \ {fx})
<1>1. {c} \ {fx} = {c}
  BY AmdUnits, NoFixed
<1>2. unit \notin Direct /\ unit \notin FilterSet
  BY AmdUnits
<1>3. CASE c \in Owned(t)
  <2>1. z = ConfigureDisabled(y, t, c, Event(g, c))
    BY <1>3, OwnedIs, KindIs DEF HaveLock
  <2> QED BY <1>1, <1>2, <1>3, <2>1, DisabledSets
<1>4. CASE c \notin Owned(t)
  <2>1. z = y
    BY <1>4, OwnedIs, KindIs DEF HaveLock
  <2> QED BY <1>1, <1>2, <1>4, <2>1, SkipSets
<1> QED BY <1>3, <1>4

\* perfmon_setupCounterThread_k10 sets up one counter.
LEMMA K10Step ==
  ASSUME UnitOk, Family = "k10", NEW t \in Threads, NEW g \in Groups, NEW c \in AllCounters, NEW y \in Machines
  PROVE  SetsUp(y, k10_pmc_setup(y, t, c, EventSet(g).ev[c]), t, g, {c} \ {fx})
<1> DEFINE es == EventSet(g)
           z == k10_pmc_setup(y, t, c, es.ev[c])
<1>1. es.ev[c].flags = Event(g, c)
  BY EventIs
<1>2. IsCore => Type(c) = "PMC"
  BY AmdUnits, NoFixed, CoreUnit DEF UnitOk, fx
<1>3. IsBox => Type(c) = Box /\ Box \in {"UNCORE", "CBOX"} /\ (Family = "interlagos" => Box = "UNCORE")
  BY AmdUnits, BoxStep
<1>4. \/ z = ConfigureDisabled(y, t, c, Event(g, c)) /\ IsCore
      \/ z = (IF HaveLock(t) THEN ConfigureDisabled(y, t, c, Event(g, c)) ELSE y) /\ IsBox
  BY <1>1, <1>2, <1>3, AmdUnits, KindIs DEF k10_pmc_setup
<1> HIDE DEF z
<1>5. SetsUp(y, z, t, g, {c} \ {fx})
  BY <1>4, AmdSets
<1> QED BY <1>5 DEF z

\* perfmon_setupCounterThread_k10 keeps the contract of setup.
LEMMA K10Setup ==
  ASSUME UnitOk, Family = "k10", NEW t \in Threads, NEW g \in Groups, NEW y \in Machines
  PROVE  SetupDone(y, perfmon_setupCounterThread_k10(y, t, EventSet(g)), t, g)
<1> DEFINE es == EventSet(g)
           base == y
           st(c, w) == k10_pmc_setup(w, t, c, es.ev[c])
           pick(s) == CHOOSE x \in s : TRUE
           G == [s \in SUBSET AllCounters |->
                   IF s = {} THEN base
                   ELSE IF s \ {pick(s)} = {} THEN st(pick(s), base)
                   ELSE st(pick(s), st(pick(s \ {pick(s)}), base))]
           Eqn(h) == h = [s \in SUBSET AllCounters |-> IF s = {} THEN base ELSE st(pick(s), h[s \ {pick(s)}])]
           iter == CHOOSE h : Eqn(h)
           w == FoldSet(LAMBDA c, x : k10_pmc_setup(x, t, c, es.ev[c]), base, AllCounters)
<1>0. CountersOf(es) = AllCounters
  BY EventSetIs DEF UnitOk
<1>1. SetsUp(y, base, t, g, {})
  BY SetsUpFrame
<1>2. base \in Machines
  BY <1>1 DEF SetsUp
<1>3. perfmon_setupCounterThread_k10(y, t, es) = Marked(w, t, g, AllCounters)
  BY <1>0 DEF perfmon_setupCounterThread_k10, Marked
<1> HIDE DEF base
<1>4. \A s \in SUBSET AllCounters : s # {} => pick(s) \in s /\ s \ {pick(s)} \in SUBSET AllCounters
  OBVIOUS
<1>5. ASSUME NEW s \in SUBSET AllCounters, s # {}, NEW p \in s, s \ {p} # {}, NEW q \in s \ {p} PROVE (s \ {p}) \ {q} = {}
  BY <1>5, KindIs
<1>6. Eqn(G)
  <2> HIDE DEF st, pick
  <2>1. ASSUME NEW s \in SUBSET AllCounters, s # {} PROVE G[s] = st(pick(s), G[s \ {pick(s)}])
    <3>1. pick(s) \in s /\ s \ {pick(s)} \in SUBSET AllCounters
      BY <1>4, <2>1
    <3>2. CASE s \ {pick(s)} = {}
      BY <2>1, <3>2
    <3>3. CASE s \ {pick(s)} # {}
      <4>1. (s \ {pick(s)}) \ {pick(s \ {pick(s)})} = {}
        BY <1>4, <1>5, <2>1, <3>1, <3>3
      <4>2. G[s \ {pick(s)}] = st(pick(s \ {pick(s)}), base)
        BY <3>1, <3>3, <4>1
      <4> QED BY <2>1, <3>3, <4>2
    <3> QED BY <3>2, <3>3
  <2> QED BY <2>1
<1>7. Eqn(iter)
  <2> HIDE DEF G, Eqn
  <2> QED BY <1>6, Zenon
<1>8. w = iter[AllCounters]
  <2> HIDE DEF es
  <2> QED BY DEF FoldSet, MapThenFoldSet
<1>9. ASSUME NEW c \in AllCounters, NEW x \in Machines PROVE SetsUp(x, st(c, x), t, g, {c} \ {fx})
  BY K10Step
<1> HIDE DEF st, pick, iter, w
<1>10. SetsUp(base, iter[AllCounters], t, g, AllCounters \ {fx})
  <2>1. iter[{}] = base
    BY <1>7
  <2>2. ASSUME NEW s \in SUBSET AllCounters, s # {}
        PROVE  \E c \in s : iter[s \ {c}] \in Machines => SetsUp(iter[s \ {c}], iter[s], t, g, {c} \ {fx})
    <3>1. pick(s) \in s /\ pick(s) \in AllCounters /\ iter[s] = st(pick(s), iter[s \ {pick(s)}])
      BY <1>4, <1>7, <2>2
    <3> QED BY <1>9, <3>1
  <2> QED BY <1>2, <2>1, <2>2, FoldSetsUp
<1>11. SetsUp(y, w, t, g, {} \cup (AllCounters \ {fx}))
  BY <1>1, <1>8, <1>10, SetsUpBoth
<1>12. SetupDone(y, Marked(w, t, g, AllCounters), t, g)
  <2>1. AllCounters \ {fx} = AllCounters
    BY NoFixed, AmdUnits
  <2> QED BY <1>11, <2>1, SetupEnds
<1> QED BY <1>3, <1>12

\* perfmon_startCountersThread_k10 keeps the contract of start.
LEMMA K10Start ==
  ASSUME UnitOk, Family = "k10", NEW t \in Threads, NEW g \in Groups, NEW y \in Machines, Inits(y, g, t) = AllCounters
  PROVE  StartDone(y, perfmon_startCountersThread_k10(y, t, EventSet(g)), t, g)
<1> DEFINE es == EventSet(g)
           a == ResetData(y, t, es, AllCounters)
           b == Zero(a, LocsOf(t, Own(t, AllCounters)))
           z == Unfreeze(b, LocsOf(t, Own(t, AllCounters)))
<1>1. InitOf(y, t, es) = AllCounters /\ CountersOf(es) = AllCounters
  BY InitOfIs
<1>2. z = perfmon_startCountersThread_k10(y, t, es)
  BY <1>1 DEF perfmon_startCountersThread_k10, EnableEach
<1>3. Keeps(y, a, t, g) /\ On(a) = On(y)
  <2>0. Keeps(y, y, t, g)
    BY KeepsNothing
  <2>1. Stores(y, a, t, g)
    BY Noting DEF Reads
  <2> QED BY <2>0, <2>1, KeepsStores
<1> HIDE DEF a
<1>4. Keeps(y, b, t, g) /\ On(b) = On(a)
  <2>1. Stores(a, b, t, g)
    BY <1>3, Noting DEF Keeps, Reads
  <2> QED BY <1>3, <2>1, KeepsStores
<1> HIDE DEF b
<1>5. Keeps(y, z, t, g) /\ On(z) = On(b) \cup (LocsOf(t, Own(t, AllCounters)) \cap Locs)
  <2>1. PICK L : L = LocsOf(t, Own(t, AllCounters))
    OBVIOUS
  <2>2. z = Unfreeze(b, L)
    BY <2>1
  <2> HIDE DEF z
  <2>3. Keeps(y, Unfreeze(b, L), t, g) /\ On(Unfreeze(b, L)) = On(b) \cup (L \cap Locs) /\ Unfreeze(b, L).cnt = b.cnt
    BY <1>4, KeepsUnfreeze
  <2> QED BY <1>4, <2>1, <2>2, <2>3
<1> HIDE DEF z
<1>6. StartDone(y, z, t, g)
  BY <1>3, <1>4, <1>5, StartEnds, OwnIs, HeldIs, K10Units, CoreHasNoBox
<1> QED BY <1>2, <1>6

\* perfmon_stopCountersThread_k10 keeps the contract of stop.
LEMMA K10Stop ==
  ASSUME UnitOk, Family = "k10", NEW t \in Threads, NEW g \in Groups, NEW y \in Machines, Inits(y, g, t) = AllCounters
  PROVE  StopDone(y, perfmon_stopCountersThread_k10(y, t, EventSet(g)), t, g)
<1> DEFINE es == EventSet(g)
           a == Freeze(y, LocsOf(t, Own(t, AllCounters)))
           z == SamplePlain(a, t, es, AllCounters)
<1>1. InitOf(y, t, es) = AllCounters /\ CountersOf(es) = AllCounters
  BY InitOfIs
<1>2. z = perfmon_stopCountersThread_k10(y, t, es)
  BY <1>1 DEF perfmon_stopCountersThread_k10, DisableEach
<1>3. Keeps(y, a, t, g) /\ On(a) = On(y) \ LocsOf(t, Own(t, AllCounters))
  <2>0. Keeps(y, y, t, g)
    BY KeepsNothing
  <2>1. PICK L : L = LocsOf(t, Own(t, AllCounters))
    OBVIOUS
  <2>2. a = Freeze(y, L)
    BY <2>1
  <2> HIDE DEF a
  <2>3. Keeps(y, Freeze(y, L), t, g) /\ On(Freeze(y, L)) = On(y) \ L /\ Freeze(y, L).cnt = y.cnt
    BY <2>0, KeepsFreeze
  <2> QED BY <2>0, <2>1, <2>2, <2>3
<1> HIDE DEF a
<1>4. Keeps(y, z, t, g) /\ On(z) = On(a)
  <2>1. Stores(a, z, t, g)
    BY <1>3, Sampling DEF Keeps, Reads
  <2> QED BY <1>3, <2>1, KeepsStores
<1> HIDE DEF z
<1>5. StopDone(y, z, t, g)
  BY <1>3, <1>4, StopEnds, OwnIs, HeldIs, K10Units, CoreHasNoBox
<1> QED BY <1>2, <1>5

\* perfmon_readCountersThread_k10 keeps the contract of read.
LEMMA K10Read ==
  ASSUME UnitOk, Family = "k10", NEW t \in Threads, NEW g \in Groups, NEW y \in Machines, Inits(y, g, t) = AllCounters,
         Programmed \subseteq On(y)
  PROVE  ReadDone(y, perfmon_readCountersThread_k10(y, t, EventSet(g)), t, g)
<1> DEFINE es == EventSet(g)
           z == SamplePlain(y, t, es, AllCounters)
<1>1. InitOf(y, t, es) = AllCounters /\ CountersOf(es) = AllCounters
  BY InitOfIs
<1>2. z = perfmon_readCountersThread_k10(y, t, es)
  BY <1>1 DEF perfmon_readCountersThread_k10
<1>3. Keeps(y, z, t, g) /\ On(z) = On(y) /\ z.cnt = y.cnt
  <2>0. Keeps(y, y, t, g)
    BY KeepsNothing
  <2>1. Reads(y, z, t, g)
    BY Noting, Sampling
  <2> QED BY <2>0, <2>1, KeepsReads
<1> HIDE DEF z
<1>4. On(z) = On(y)
  BY <1>3, HeldIs, CoreHasNoBox
<1>5. ReadDone(y, z, t, g)
  BY <1>3, <1>4, ReadEnds
<1> QED BY <1>2, <1>5

\* perfmon_finalizeCountersThread_k10 keeps the contract of finalize.
LEMMA K10Finalize ==
  ASSUME UnitOk, Family = "k10", NEW t \in Threads, NEW g \in Groups, NEW y \in Machines
  PROVE  FinalizeDone(y, perfmon_finalizeCountersThread_k10(y, t, EventSet(g)), t, g)
<1> DEFINE es == EventSet(g)
           a == Freeze(y, LocsOf(t, Own(t, AllCounters)))
           b == Deselect(a, LocsOf(t, Own(t, AllCounters)))
           z == perfmon_finalizeCountersThread_k10(y, t, es)
<1>1. CountersOf(es) = AllCounters
  BY InitOfIs
<1>2. z = Unmarked(b, t, g, AllCounters)
  BY <1>1 DEF perfmon_finalizeCountersThread_k10, ClearEach, DisableEach, Unmarked
<1>3. Keeps(y, a, t, g)
  BY KeepsNothing, KeepsFreeze
<1> HIDE DEF a, z
<1>4. Clears(y, b, t, g, Held(t), y.filter)
  BY <1>3, OwnIs, ClearsFrom
<1> HIDE DEF b
<1>5. Clears(y, z, t, g, Held(t), y.filter)
  BY <1>2, <1>4, ClearsThen
<1>6. FinalizeDone(y, z, t, g)
  BY <1>5, FinalizesAll, K10Units
<1> QED BY <1>6 DEF z

\* perfmon_setupCounterThread_interlagos sets up one counter.
LEMMA InterlagosStep ==
  ASSUME UnitOk, Family = "interlagos", NEW t \in Threads, NEW g \in Groups, NEW c \in AllCounters, NEW y \in Machines
  PROVE  SetsUp(y, IF Type(c) = "PMC" THEN ilg_pmc_setup(y, t, c, EventSet(g).ev[c]) ELSE ilg_uncore_setup(y, t, c, EventSet(g).ev[c]), t, g, {c} \ {fx})
<1> DEFINE es == EventSet(g)
           z == IF Type(c) = "PMC" THEN ilg_pmc_setup(y, t, c, es.ev[c]) ELSE ilg_uncore_setup(y, t, c, es.ev[c])
<1>1. es.ev[c].flags = Event(g, c)
  BY EventIs
<1>2. IsCore => Type(c) = "PMC"
  BY AmdUnits, NoFixed, CoreUnit DEF UnitOk, fx
<1>3. IsBox => Type(c) = Box /\ Box \in {"UNCORE", "CBOX"} /\ (Family = "interlagos" => Box = "UNCORE")
  BY AmdUnits, BoxStep
<1>4. \/ z = ConfigureDisabled(y, t, c, Event(g, c)) /\ IsCore
      \/ z = (IF HaveLock(t) THEN ConfigureDisabled(y, t, c, Event(g, c)) ELSE y) /\ IsBox
  BY <1>1, <1>2, <1>3, AmdUnits, KindIs DEF ilg_pmc_setup, ilg_uncore_setup
<1> HIDE DEF z
<1>5. SetsUp(y, z, t, g, {c} \ {fx})
  BY <1>4, AmdSets
<1> QED BY <1>5 DEF z

\* perfmon_setupCounterThread_interlagos keeps the contract of setup.
LEMMA InterlagosSetup ==
  ASSUME UnitOk, Family = "interlagos", NEW t \in Threads, NEW g \in Groups, NEW y \in Machines
  PROVE  SetupDone(y, perfmon_setupCounterThread_interlagos(y, t, EventSet(g)), t, g)
<1> DEFINE es == EventSet(g)
           base == y
           st(c, w) == IF Type(c) = "PMC" THEN ilg_pmc_setup(w, t, c, es.ev[c]) ELSE ilg_uncore_setup(w, t, c, es.ev[c])
           pick(s) == CHOOSE x \in s : TRUE
           G == [s \in SUBSET AllCounters |->
                   IF s = {} THEN base
                   ELSE IF s \ {pick(s)} = {} THEN st(pick(s), base)
                   ELSE st(pick(s), st(pick(s \ {pick(s)}), base))]
           Eqn(h) == h = [s \in SUBSET AllCounters |-> IF s = {} THEN base ELSE st(pick(s), h[s \ {pick(s)}])]
           iter == CHOOSE h : Eqn(h)
           w == FoldSet(LAMBDA c, x : IF Type(c) = "PMC" THEN ilg_pmc_setup(x, t, c, es.ev[c]) ELSE ilg_uncore_setup(x, t, c, es.ev[c]), base, AllCounters)
<1>0. CountersOf(es) = AllCounters
  BY EventSetIs DEF UnitOk
<1>1. SetsUp(y, base, t, g, {})
  BY SetsUpFrame
<1>2. base \in Machines
  BY <1>1 DEF SetsUp
<1>3. perfmon_setupCounterThread_interlagos(y, t, es) = Marked(w, t, g, AllCounters)
  BY <1>0 DEF perfmon_setupCounterThread_interlagos, Marked
<1> HIDE DEF base
<1>4. \A s \in SUBSET AllCounters : s # {} => pick(s) \in s /\ s \ {pick(s)} \in SUBSET AllCounters
  OBVIOUS
<1>5. ASSUME NEW s \in SUBSET AllCounters, s # {}, NEW p \in s, s \ {p} # {}, NEW q \in s \ {p} PROVE (s \ {p}) \ {q} = {}
  BY <1>5, KindIs
<1>6. Eqn(G)
  <2> HIDE DEF st, pick
  <2>1. ASSUME NEW s \in SUBSET AllCounters, s # {} PROVE G[s] = st(pick(s), G[s \ {pick(s)}])
    <3>1. pick(s) \in s /\ s \ {pick(s)} \in SUBSET AllCounters
      BY <1>4, <2>1
    <3>2. CASE s \ {pick(s)} = {}
      BY <2>1, <3>2
    <3>3. CASE s \ {pick(s)} # {}
      <4>1. (s \ {pick(s)}) \ {pick(s \ {pick(s)})} = {}
        BY <1>4, <1>5, <2>1, <3>1, <3>3
      <4>2. G[s \ {pick(s)}] = st(pick(s \ {pick(s)}), base)
        BY <3>1, <3>3, <4>1
      <4> QED BY <2>1, <3>3, <4>2
    <3> QED BY <3>2, <3>3
  <2> QED BY <2>1
<1>7. Eqn(iter)
  <2> HIDE DEF G, Eqn
  <2> QED BY <1>6, Zenon
<1>8. w = iter[AllCounters]
  <2> HIDE DEF es
  <2> QED BY DEF FoldSet, MapThenFoldSet
<1>9. ASSUME NEW c \in AllCounters, NEW x \in Machines PROVE SetsUp(x, st(c, x), t, g, {c} \ {fx})
  BY InterlagosStep
<1> HIDE DEF st, pick, iter, w
<1>10. SetsUp(base, iter[AllCounters], t, g, AllCounters \ {fx})
  <2>1. iter[{}] = base
    BY <1>7
  <2>2. ASSUME NEW s \in SUBSET AllCounters, s # {}
        PROVE  \E c \in s : iter[s \ {c}] \in Machines => SetsUp(iter[s \ {c}], iter[s], t, g, {c} \ {fx})
    <3>1. pick(s) \in s /\ pick(s) \in AllCounters /\ iter[s] = st(pick(s), iter[s \ {pick(s)}])
      BY <1>4, <1>7, <2>2
    <3> QED BY <1>9, <3>1
  <2> QED BY <1>2, <2>1, <2>2, FoldSetsUp
<1>11. SetsUp(y, w, t, g, {} \cup (AllCounters \ {fx}))
  BY <1>1, <1>8, <1>10, SetsUpBoth
<1>12. SetupDone(y, Marked(w, t, g, AllCounters), t, g)
  <2>1. AllCounters \ {fx} = AllCounters
    BY NoFixed, AmdUnits
  <2> QED BY <1>11, <2>1, SetupEnds
<1> QED BY <1>3, <1>12

\* perfmon_startCountersThread_interlagos keeps the contract of start.
LEMMA InterlagosStart ==
  ASSUME UnitOk, Family = "interlagos", NEW t \in Threads, NEW g \in Groups, NEW y \in Machines, Inits(y, g, t) = AllCounters
  PROVE  StartDone(y, perfmon_startCountersThread_interlagos(y, t, EventSet(g)), t, g)
<1> DEFINE es == EventSet(g)
           a == ResetData(y, t, es, AllCounters)
           b == Zero(a, LocsOf(t, Own(t, AllCounters)))
           z == Unfreeze(b, LocsOf(t, Own(t, AllCounters)))
<1>1. InitOf(y, t, es) = AllCounters /\ CountersOf(es) = AllCounters
  BY InitOfIs
<1>2. z = perfmon_startCountersThread_interlagos(y, t, es)
  BY <1>1 DEF perfmon_startCountersThread_interlagos, EnableEach
<1>3. Keeps(y, a, t, g) /\ On(a) = On(y)
  <2>0. Keeps(y, y, t, g)
    BY KeepsNothing
  <2>1. Stores(y, a, t, g)
    BY Noting DEF Reads
  <2> QED BY <2>0, <2>1, KeepsStores
<1> HIDE DEF a
<1>4. Keeps(y, b, t, g) /\ On(b) = On(a)
  <2>1. Stores(a, b, t, g)
    BY <1>3, Noting DEF Keeps, Reads
  <2> QED BY <1>3, <2>1, KeepsStores
<1> HIDE DEF b
<1>5. Keeps(y, z, t, g) /\ On(z) = On(b) \cup (LocsOf(t, Own(t, AllCounters)) \cap Locs)
  <2>1. PICK L : L = LocsOf(t, Own(t, AllCounters))
    OBVIOUS
  <2>2. z = Unfreeze(b, L)
    BY <2>1
  <2> HIDE DEF z
  <2>3. Keeps(y, Unfreeze(b, L), t, g) /\ On(Unfreeze(b, L)) = On(b) \cup (L \cap Locs) /\ Unfreeze(b, L).cnt = b.cnt
    BY <1>4, KeepsUnfreeze
  <2> QED BY <1>4, <2>1, <2>2, <2>3
<1> HIDE DEF z
<1>6. StartDone(y, z, t, g)
  BY <1>3, <1>4, <1>5, StartEnds, OwnIs, HeldIs, InterlagosUnits, CoreHasNoBox
<1> QED BY <1>2, <1>6

\* perfmon_stopCountersThread_interlagos keeps the contract of stop.
LEMMA InterlagosStop ==
  ASSUME UnitOk, Family = "interlagos", NEW t \in Threads, NEW g \in Groups, NEW y \in Machines, Inits(y, g, t) = AllCounters
  PROVE  StopDone(y, perfmon_stopCountersThread_interlagos(y, t, EventSet(g)), t, g)
<1> DEFINE es == EventSet(g)
           a == Freeze(y, LocsOf(t, Own(t, AllCounters)))
           b == Sample(a, t, es, Own(t, AllCounters), {})
           z == ClearData(b, t, es, AllCounters \ Own(t, AllCounters))
<1>1. InitOf(y, t, es) = AllCounters /\ CountersOf(es) = AllCounters
  BY InitOfIs
<1>2. z = perfmon_stopCountersThread_interlagos(y, t, es)
  BY <1>1 DEF perfmon_stopCountersThread_interlagos, DisableEach
<1>3. Keeps(y, a, t, g) /\ On(a) = On(y) \ LocsOf(t, Own(t, AllCounters))
  <2>0. Keeps(y, y, t, g)
    BY KeepsNothing
  <2>1. PICK L : L = LocsOf(t, Own(t, AllCounters))
    OBVIOUS
  <2>2. a = Freeze(y, L)
    BY <2>1
  <2> HIDE DEF a
  <2>3. Keeps(y, Freeze(y, L), t, g) /\ On(Freeze(y, L)) = On(y) \ L /\ Freeze(y, L).cnt = y.cnt
    BY <2>0, KeepsFreeze
  <2> QED BY <2>0, <2>1, <2>2, <2>3
<1> HIDE DEF a
<1>4. Keeps(y, b, t, g) /\ On(b) = On(a)
  <2>1. Stores(a, b, t, g)
    BY <1>3, Noting DEF Keeps, Reads
  <2> QED BY <1>3, <2>1, KeepsStores
<1> HIDE DEF b
<1>5. Keeps(y, z, t, g) /\ On(z) = On(b)
  <2>1. Stores(b, z, t, g)
    BY <1>4, Noting DEF Keeps, Reads
  <2> QED BY <1>4, <2>1, KeepsStores
<1> HIDE DEF z
<1>6. StopDone(y, z, t, g)
  BY <1>3, <1>4, <1>5, StopEnds, OwnIs, HeldIs, InterlagosUnits, CoreHasNoBox
<1> QED BY <1>2, <1>6

\* perfmon_readCountersThread_interlagos keeps the contract of read.
LEMMA InterlagosRead ==
  ASSUME UnitOk, Family = "interlagos", NEW t \in Threads, NEW g \in Groups, NEW y \in Machines, Inits(y, g, t) = AllCounters,
         Programmed \subseteq On(y)
  PROVE  ReadDone(y, perfmon_readCountersThread_interlagos(y, t, EventSet(g)), t, g)
<1> DEFINE es == EventSet(g)
           z == Sample(y, t, es, AllCounters, {})
<1>1. InitOf(y, t, es) = AllCounters /\ CountersOf(es) = AllCounters
  BY InitOfIs
<1>2. z = perfmon_readCountersThread_interlagos(y, t, es)
  BY <1>1 DEF perfmon_readCountersThread_interlagos
<1>3. Keeps(y, z, t, g) /\ On(z) = On(y) /\ z.cnt = y.cnt
  <2>0. Keeps(y, y, t, g)
    BY KeepsNothing
  <2>1. Reads(y, z, t, g)
    BY Noting, Sampling
  <2> QED BY <2>0, <2>1, KeepsReads
<1> HIDE DEF z
<1>4. On(z) = On(y)
  BY <1>3, HeldIs, CoreHasNoBox
<1>5. ReadDone(y, z, t, g)
  BY <1>3, <1>4, ReadEnds
<1> QED BY <1>2, <1>5

\* perfmon_finalizeCountersThread_interlagos keeps the contract of finalize.
LEMMA InterlagosFinalize ==
  ASSUME UnitOk, Family = "interlagos", NEW t \in Threads, NEW g \in Groups, NEW y \in Machines
  PROVE  FinalizeDone(y, perfmon_finalizeCountersThread_interlagos(y, t, EventSet(g)), t, g)
<1> DEFINE es == EventSet(g)
           a == Freeze(y, LocsOf(t, Own(t, AllCounters)))
           b == Deselect(a, LocsOf(t, Own(t, AllCounters)))
           z == perfmon_finalizeCountersThread_interlagos(y, t, es)
<1>1. CountersOf(es) = AllCounters
  BY InitOfIs
<1>2. z = Unmarked(b, t, g, AllCounters)
  BY <1>1 DEF perfmon_finalizeCountersThread_interlagos, ClearEach, DisableEach, Unmarked
<1>3. Keeps(y, a, t, g)
  BY KeepsNothing, KeepsFreeze
<1> HIDE DEF a, z
<1>4. Clears(y, b, t, g, Held(t), y.filter)
  BY <1>3, OwnIs, ClearsFrom
<1> HIDE DEF b
<1>5. Clears(y, z, t, g, Held(t), y.filter)
  BY <1>2, <1>4, ClearsThen
<1>6. FinalizeDone(y, z, t, g)
  BY <1>5, FinalizesAll, InterlagosUnits
<1> QED BY <1>6 DEF z

\* perfmon_setupCounterThread_kabini sets up one counter.
LEMMA KabiniStep ==
  ASSUME UnitOk, Family = "kabini", NEW t \in Threads, NEW g \in Groups, NEW c \in AllCounters, NEW y \in Machines
  PROVE  SetsUp(y, CASE Type(c) = "PMC" -> k16_pmc_setup(y, t, c, EventSet(g).ev[c])
                 [] Type(c) = "UNCORE" -> k16_uncore_setup(y, t, c, EventSet(g).ev[c])
                 [] Type(c) = "CBOX" -> k16_cache_setup(y, t, c, EventSet(g).ev[c]), t, g, {c} \ {fx})
<1> DEFINE es == EventSet(g)
           z == CASE Type(c) = "PMC" -> k16_pmc_setup(y, t, c, es.ev[c])
                 [] Type(c) = "UNCORE" -> k16_uncore_setup(y, t, c, es.ev[c])
                 [] Type(c) = "CBOX" -> k16_cache_setup(y, t, c, es.ev[c])
<1>1. es.ev[c].flags = Event(g, c)
  BY EventIs
<1>2. IsCore => Type(c) = "PMC"
  BY AmdUnits, NoFixed, CoreUnit DEF UnitOk, fx
<1>3. IsBox => Type(c) = Box /\ Box \in {"UNCORE", "CBOX"} /\ (Family = "interlagos" => Box = "UNCORE")
  BY AmdUnits, BoxStep
<1>4. \/ z = ConfigureDisabled(y, t, c, Event(g, c)) /\ IsCore
      \/ z = (IF HaveLock(t) THEN ConfigureDisabled(y, t, c, Event(g, c)) ELSE y) /\ IsBox
  BY <1>1, <1>2, <1>3, AmdUnits, KindIs DEF k16_pmc_setup, k16_uncore_setup, k16_cache_setup
<1> HIDE DEF z
<1>5. SetsUp(y, z, t, g, {c} \ {fx})
  BY <1>4, AmdSets
<1> QED BY <1>5 DEF z

\* perfmon_setupCounterThread_kabini keeps the contract of setup.
LEMMA KabiniSetup ==
  ASSUME UnitOk, Family = "kabini", NEW t \in Threads, NEW g \in Groups, NEW y \in Machines
  PROVE  SetupDone(y, perfmon_setupCounterThread_kabini(y, t, EventSet(g)), t, g)
<1> DEFINE es == EventSet(g)
           base == y
           st(c, w) == CASE Type(c) = "PMC" -> k16_pmc_setup(w, t, c, es.ev[c])
                 [] Type(c) = "UNCORE" -> k16_uncore_setup(w, t, c, es.ev[c])
                 [] Type(c) = "CBOX" -> k16_cache_setup(w, t, c, es.ev[c])
           pick(s) == CHOOSE x \in s : TRUE
           G == [s \in SUBSET AllCounters |->
                   IF s = {} THEN base
                   ELSE IF s \ {pick(s)} = {} THEN st(pick(s), base)
                   ELSE st(pick(s), st(pick(s \ {pick(s)}), base))]
           Eqn(h) == h = [s \in SUBSET AllCounters |-> IF s = {} THEN base ELSE st(pick(s), h[s \ {pick(s)}])]
           iter == CHOOSE h : Eqn(h)
           w == FoldSet(LAMBDA c, x : CASE Type(c) = "PMC" -> k16_pmc_setup(x, t, c, es.ev[c])
                 [] Type(c) = "UNCORE" -> k16_uncore_setup(x, t, c, es.ev[c])
                 [] Type(c) = "CBOX" -> k16_cache_setup(x, t, c, es.ev[c]), base, AllCounters)
<1>0. CountersOf(es) = AllCounters
  BY EventSetIs DEF UnitOk
<1>1. SetsUp(y, base, t, g, {})
  BY SetsUpFrame
<1>2. base \in Machines
  BY <1>1 DEF SetsUp
<1>3. perfmon_setupCounterThread_kabini(y, t, es) = Marked(w, t, g, AllCounters)
  BY <1>0 DEF perfmon_setupCounterThread_kabini, Marked
<1> HIDE DEF base
<1>4. \A s \in SUBSET AllCounters : s # {} => pick(s) \in s /\ s \ {pick(s)} \in SUBSET AllCounters
  OBVIOUS
<1>5. ASSUME NEW s \in SUBSET AllCounters, s # {}, NEW p \in s, s \ {p} # {}, NEW q \in s \ {p} PROVE (s \ {p}) \ {q} = {}
  BY <1>5, KindIs
<1>6. Eqn(G)
  <2> HIDE DEF st, pick
  <2>1. ASSUME NEW s \in SUBSET AllCounters, s # {} PROVE G[s] = st(pick(s), G[s \ {pick(s)}])
    <3>1. pick(s) \in s /\ s \ {pick(s)} \in SUBSET AllCounters
      BY <1>4, <2>1
    <3>2. CASE s \ {pick(s)} = {}
      BY <2>1, <3>2
    <3>3. CASE s \ {pick(s)} # {}
      <4>1. (s \ {pick(s)}) \ {pick(s \ {pick(s)})} = {}
        BY <1>4, <1>5, <2>1, <3>1, <3>3
      <4>2. G[s \ {pick(s)}] = st(pick(s \ {pick(s)}), base)
        BY <3>1, <3>3, <4>1
      <4> QED BY <2>1, <3>3, <4>2
    <3> QED BY <3>2, <3>3
  <2> QED BY <2>1
<1>7. Eqn(iter)
  <2> HIDE DEF G, Eqn
  <2> QED BY <1>6, Zenon
<1>8. w = iter[AllCounters]
  <2> HIDE DEF es
  <2> QED BY DEF FoldSet, MapThenFoldSet
<1>9. ASSUME NEW c \in AllCounters, NEW x \in Machines PROVE SetsUp(x, st(c, x), t, g, {c} \ {fx})
  BY KabiniStep
<1> HIDE DEF st, pick, iter, w
<1>10. SetsUp(base, iter[AllCounters], t, g, AllCounters \ {fx})
  <2>1. iter[{}] = base
    BY <1>7
  <2>2. ASSUME NEW s \in SUBSET AllCounters, s # {}
        PROVE  \E c \in s : iter[s \ {c}] \in Machines => SetsUp(iter[s \ {c}], iter[s], t, g, {c} \ {fx})
    <3>1. pick(s) \in s /\ pick(s) \in AllCounters /\ iter[s] = st(pick(s), iter[s \ {pick(s)}])
      BY <1>4, <1>7, <2>2
    <3> QED BY <1>9, <3>1
  <2> QED BY <1>2, <2>1, <2>2, FoldSetsUp
<1>11. SetsUp(y, w, t, g, {} \cup (AllCounters \ {fx}))
  BY <1>1, <1>8, <1>10, SetsUpBoth
<1>12. SetupDone(y, Marked(w, t, g, AllCounters), t, g)
  <2>1. AllCounters \ {fx} = AllCounters
    BY NoFixed, AmdUnits
  <2> QED BY <1>11, <2>1, SetupEnds
<1> QED BY <1>3, <1>12

\* perfmon_startCountersThread_kabini keeps the contract of start.
LEMMA KabiniStart ==
  ASSUME UnitOk, Family = "kabini", NEW t \in Threads, NEW g \in Groups, NEW y \in Machines, Inits(y, g, t) = AllCounters
  PROVE  StartDone(y, perfmon_startCountersThread_kabini(y, t, EventSet(g)), t, g)
<1> DEFINE es == EventSet(g)
           a == ResetData(y, t, es, AllCounters)
           b == Zero(a, LocsOf(t, Own(t, AllCounters)))
           z == Unfreeze(b, LocsOf(t, Own(t, AllCounters)))
<1>1. InitOf(y, t, es) = AllCounters /\ CountersOf(es) = AllCounters
  BY InitOfIs
<1>2. z = perfmon_startCountersThread_kabini(y, t, es)
  BY <1>1 DEF perfmon_startCountersThread_kabini, EnableEach
<1>3. Keeps(y, a, t, g) /\ On(a) = On(y)
  <2>0. Keeps(y, y, t, g)
    BY KeepsNothing
  <2>1. Stores(y, a, t, g)
    BY Noting DEF Reads
  <2> QED BY <2>0, <2>1, KeepsStores
<1> HIDE DEF a
<1>4. Keeps(y, b, t, g) /\ On(b) = On(a)
  <2>1. Stores(a, b, t, g)
    BY <1>3, Noting DEF Keeps, Reads
  <2> QED BY <1>3, <2>1, KeepsStores
<1> HIDE DEF b
<1>5. Keeps(y, z, t, g) /\ On(z) = On(b) \cup (LocsOf(t, Own(t, AllCounters)) \cap Locs)
  <2>1. PICK L : L = LocsOf(t, Own(t, AllCounters))
    OBVIOUS
  <2>2. z = Unfreeze(b, L)
    BY <2>1
  <2> HIDE DEF z
  <2>3. Keeps(y, Unfreeze(b, L), t, g) /\ On(Unfreeze(b, L)) = On(b) \cup (L \cap Locs) /\ Unfreeze(b, L).cnt = b.cnt
    BY <1>4, KeepsUnfreeze
  <2> QED BY <1>4, <2>1, <2>2, <2>3
<1> HIDE DEF z
<1>6. StartDone(y, z, t, g)
  BY <1>3, <1>4, <1>5, StartEnds, OwnIs, HeldIs, KabiniUnits, CoreHasNoBox
<1> QED BY <1>2, <1>6

\* perfmon_stopCountersThread_kabini keeps the contract of stop.
LEMMA KabiniStop ==
  ASSUME UnitOk, Family = "kabini", NEW t \in Threads, NEW g \in Groups, NEW y \in Machines, Inits(y, g, t) = AllCounters
  PROVE  StopDone(y, perfmon_stopCountersThread_kabini(y, t, EventSet(g)), t, g)
<1> DEFINE es == EventSet(g)
           a == Freeze(y, LocsOf(t, Own(t, AllCounters)))
           z == SamplePlain(a, t, es, Own(t, AllCounters))
<1>1. InitOf(y, t, es) = AllCounters /\ CountersOf(es) = AllCounters
  BY InitOfIs
<1>2. z = perfmon_stopCountersThread_kabini(y, t, es)
  BY <1>1 DEF perfmon_stopCountersThread_kabini, DisableEach
<1>3. Keeps(y, a, t, g) /\ On(a) = On(y) \ LocsOf(t, Own(t, AllCounters))
  <2>0. Keeps(y, y, t, g)
    BY KeepsNothing
  <2>1. PICK L : L = LocsOf(t, Own(t, AllCounters))
    OBVIOUS
  <2>2. a = Freeze(y, L)
    BY <2>1
  <2> HIDE DEF a
  <2>3. Keeps(y, Freeze(y, L), t, g) /\ On(Freeze(y, L)) = On(y) \ L /\ Freeze(y, L).cnt = y.cnt
    BY <2>0, KeepsFreeze
  <2> QED BY <2>0, <2>1, <2>2, <2>3
<1> HIDE DEF a
<1>4. Keeps(y, z, t, g) /\ On(z) = On(a)
  <2>1. Stores(a, z, t, g)
    BY <1>3, Sampling DEF Keeps, Reads
  <2> QED BY <1>3, <2>1, KeepsStores
<1> HIDE DEF z
<1>5. StopDone(y, z, t, g)
  BY <1>3, <1>4, StopEnds, OwnIs, HeldIs, KabiniUnits, CoreHasNoBox
<1> QED BY <1>2, <1>5

\* perfmon_readCountersThread_kabini keeps the contract of read.
LEMMA KabiniRead ==
  ASSUME UnitOk, Family = "kabini", NEW t \in Threads, NEW g \in Groups, NEW y \in Machines, Inits(y, g, t) = AllCounters,
         Programmed \subseteq On(y)
  PROVE  ReadDone(y, perfmon_readCountersThread_kabini(y, t, EventSet(g)), t, g)
<1> DEFINE es == EventSet(g)
           z == SamplePlain(y, t, es, Own(t, AllCounters))
<1>1. InitOf(y, t, es) = AllCounters /\ CountersOf(es) = AllCounters
  BY InitOfIs
<1>2. z = perfmon_readCountersThread_kabini(y, t, es)
  BY <1>1 DEF perfmon_readCountersThread_kabini
<1>3. Keeps(y, z, t, g) /\ On(z) = On(y) /\ z.cnt = y.cnt
  <2>0. Keeps(y, y, t, g)
    BY KeepsNothing
  <2>1. Reads(y, z, t, g)
    BY Noting, Sampling
  <2> QED BY <2>0, <2>1, KeepsReads
<1> HIDE DEF z
<1>4. On(z) = On(y)
  BY <1>3, HeldIs, CoreHasNoBox
<1>5. ReadDone(y, z, t, g)
  BY <1>3, <1>4, ReadEnds
<1> QED BY <1>2, <1>5

\* perfmon_finalizeCountersThread_kabini keeps the contract of finalize.
LEMMA KabiniFinalize ==
  ASSUME UnitOk, Family = "kabini", NEW t \in Threads, NEW g \in Groups, NEW y \in Machines
  PROVE  FinalizeDone(y, perfmon_finalizeCountersThread_kabini(y, t, EventSet(g)), t, g)
<1> DEFINE es == EventSet(g)
           a == Freeze(y, LocsOf(t, Own(t, AllCounters)))
           b == Deselect(a, LocsOf(t, Own(t, AllCounters)))
           z == perfmon_finalizeCountersThread_kabini(y, t, es)
<1>1. CountersOf(es) = AllCounters
  BY InitOfIs
<1>2. z = Unmarked(b, t, g, Own(t, AllCounters))
  BY <1>1 DEF perfmon_finalizeCountersThread_kabini, ClearEach, DisableEach, Unmarked
<1>3. Keeps(y, a, t, g)
  BY KeepsNothing, KeepsFreeze
<1> HIDE DEF a, z
<1>4. Clears(y, b, t, g, Held(t), y.filter)
  BY <1>3, OwnIs, ClearsFrom
<1> HIDE DEF b
<1>5. Clears(y, z, t, g, Held(t), y.filter)
  BY <1>2, <1>4, ClearsThen
<1>6. FinalizeDone(y, z, t, g)
  BY <1>5, FinalizesAll, KabiniUnits
<1> QED BY <1>6 DEF z

-----------------------------------------------------------------------------
(* The threads, one after the other, on any processor. *)

\* The threads run one after the other.
LEMMA ThreadInduction ==
  ASSUME NEW P, 0 \in P, \A n \in Threads : n - 1 \in P => n \in P
  PROVE  NumThreads \in P
<1> DEFINE S == {n \in 0 .. NumThreads : n \notin P}
<1>1. NumThreads \in Nat \ {0}
  BY ArchAssumption
<1>2. ASSUME S # {} PROVE FALSE
  <2>1. PICK x \in S : \A y \in S : x <= y
    <3>1. S \subseteq Nat
      BY <1>1
    <3> HIDE DEF S
    <3> QED BY <1>2, <3>1, LeastNatural
  <2>2. x \in Threads /\ x - 1 \in 0 .. NumThreads
    BY <1>1, <2>1 DEF Threads
  <2>3. x - 1 \notin S
    BY <1>1, <2>1, <2>2
  <2> QED BY <2>1, <2>2, <2>3
<1> QED BY <1>1, <1>2

SetupThreads(y, g) == PerThread(LAMBDA w, t : perfmon_setupCountersThread(w, t, EventSet(g)), y)

\* The calls of setup, as a sequence of machines.
LEMMA SetupIterates ==
  ASSUME NEW y, NEW g
  PROVE  \E h : /\ h[0] = y /\ \A n \in Threads : h[n] = perfmon_setupCountersThread(h[n - 1], n, EventSet(g))
                /\ SetupThreads(y, g) = h[NumThreads]
<1> DEFINE st(w, n) == perfmon_setupCountersThread(w, n, EventSet(g))
           Eqn(h, k) == h = [n \in 0 .. k |-> IF n = 0 THEN y ELSE st(h[n - 1], n)]
           after == CHOOSE h : Eqn(h, NumThreads)
           P == {k \in 0 .. NumThreads : \E h : Eqn(h, k)}
<1>1. SetupThreads(y, g) = after[NumThreads]
  BY DEF SetupThreads, PerThread
<1>2. NumThreads \in Nat \ {0}
  BY ArchAssumption
<1> HIDE DEF st
<1>3. 0 \in P
  <2> DEFINE h == [n \in 0 .. 0 |-> y]
  <2>1. Eqn(h, 0)
    OBVIOUS
  <2> HIDE DEF h, Eqn
  <2> QED BY <1>2, <2>1
<1>4. ASSUME NEW n \in Threads, n - 1 \in P PROVE n \in P
  <2>1. n \in Nat \ {0} /\ n \in 0 .. NumThreads /\ n - 1 \in Nat
    BY <1>2 DEF Threads
  <2>2. PICK h : Eqn(h, n - 1)
    BY <1>4
  <2> DEFINE k == [i \in 0 .. n |-> IF i = n THEN st(h[n - 1], n) ELSE h[i]]
  <2>3. ASSUME NEW i \in 0 .. n PROVE k[i] = IF i = 0 THEN y ELSE st(k[i - 1], i)
    <3>1. CASE i = n
      BY <2>1, <3>1
    <3>2. CASE i # n
      <4>1. i \in 0 .. n - 1 /\ k[i] = h[i]
        BY <2>1, <3>2
      <4>2. h[i] = IF i = 0 THEN y ELSE st(h[i - 1], i)
        BY <2>2, <4>1
      <4>3. i # 0 => k[i - 1] = h[i - 1]
        BY <2>1, <4>1
      <4> HIDE DEF k
      <4> QED BY <4>1, <4>2, <4>3
    <3> QED BY <3>1, <3>2
  <2>4. Eqn(k, n)
    BY <2>3
  <2> HIDE DEF k, Eqn
  <2> QED BY <2>1, <2>4
<1>5. Eqn(after, NumThreads)
  <2>1. NumThreads \in P
    <3> HIDE DEF P
    <3> QED BY <1>3, <1>4, ThreadInduction
  <2>2. \E h : Eqn(h, NumThreads)
    BY <2>1
  <2> HIDE DEF Eqn
  <2> QED BY <2>2
<1>6. after[0] = y /\ \A n \in Threads : after[n] = st(after[n - 1], n)
  <2> HIDE DEF after
  <2> QED BY <1>2, <1>5 DEF Threads
<1> HIDE DEF after
<1> QED BY <1>1, <1>6 DEF st

StartThreads(y, g) == PerThread(LAMBDA w, t : perfmon_startCountersThread(w, t, EventSet(g)), y)

\* The calls of start, as a sequence of machines.
LEMMA StartIterates ==
  ASSUME NEW y, NEW g
  PROVE  \E h : /\ h[0] = y /\ \A n \in Threads : h[n] = perfmon_startCountersThread(h[n - 1], n, EventSet(g))
                /\ StartThreads(y, g) = h[NumThreads]
<1> DEFINE st(w, n) == perfmon_startCountersThread(w, n, EventSet(g))
           Eqn(h, k) == h = [n \in 0 .. k |-> IF n = 0 THEN y ELSE st(h[n - 1], n)]
           after == CHOOSE h : Eqn(h, NumThreads)
           P == {k \in 0 .. NumThreads : \E h : Eqn(h, k)}
<1>1. StartThreads(y, g) = after[NumThreads]
  BY DEF StartThreads, PerThread
<1>2. NumThreads \in Nat \ {0}
  BY ArchAssumption
<1> HIDE DEF st
<1>3. 0 \in P
  <2> DEFINE h == [n \in 0 .. 0 |-> y]
  <2>1. Eqn(h, 0)
    OBVIOUS
  <2> HIDE DEF h, Eqn
  <2> QED BY <1>2, <2>1
<1>4. ASSUME NEW n \in Threads, n - 1 \in P PROVE n \in P
  <2>1. n \in Nat \ {0} /\ n \in 0 .. NumThreads /\ n - 1 \in Nat
    BY <1>2 DEF Threads
  <2>2. PICK h : Eqn(h, n - 1)
    BY <1>4
  <2> DEFINE k == [i \in 0 .. n |-> IF i = n THEN st(h[n - 1], n) ELSE h[i]]
  <2>3. ASSUME NEW i \in 0 .. n PROVE k[i] = IF i = 0 THEN y ELSE st(k[i - 1], i)
    <3>1. CASE i = n
      BY <2>1, <3>1
    <3>2. CASE i # n
      <4>1. i \in 0 .. n - 1 /\ k[i] = h[i]
        BY <2>1, <3>2
      <4>2. h[i] = IF i = 0 THEN y ELSE st(h[i - 1], i)
        BY <2>2, <4>1
      <4>3. i # 0 => k[i - 1] = h[i - 1]
        BY <2>1, <4>1
      <4> HIDE DEF k
      <4> QED BY <4>1, <4>2, <4>3
    <3> QED BY <3>1, <3>2
  <2>4. Eqn(k, n)
    BY <2>3
  <2> HIDE DEF k, Eqn
  <2> QED BY <2>1, <2>4
<1>5. Eqn(after, NumThreads)
  <2>1. NumThreads \in P
    <3> HIDE DEF P
    <3> QED BY <1>3, <1>4, ThreadInduction
  <2>2. \E h : Eqn(h, NumThreads)
    BY <2>1
  <2> HIDE DEF Eqn
  <2> QED BY <2>2
<1>6. after[0] = y /\ \A n \in Threads : after[n] = st(after[n - 1], n)
  <2> HIDE DEF after
  <2> QED BY <1>2, <1>5 DEF Threads
<1> HIDE DEF after
<1> QED BY <1>1, <1>6 DEF st

ReadThreads(y, g) == PerThread(LAMBDA w, t : perfmon_readCountersThread(w, t, EventSet(g)), y)

\* The calls of read, as a sequence of machines.
LEMMA ReadIterates ==
  ASSUME NEW y, NEW g
  PROVE  \E h : /\ h[0] = y /\ \A n \in Threads : h[n] = perfmon_readCountersThread(h[n - 1], n, EventSet(g))
                /\ ReadThreads(y, g) = h[NumThreads]
<1> DEFINE st(w, n) == perfmon_readCountersThread(w, n, EventSet(g))
           Eqn(h, k) == h = [n \in 0 .. k |-> IF n = 0 THEN y ELSE st(h[n - 1], n)]
           after == CHOOSE h : Eqn(h, NumThreads)
           P == {k \in 0 .. NumThreads : \E h : Eqn(h, k)}
<1>1. ReadThreads(y, g) = after[NumThreads]
  BY DEF ReadThreads, PerThread
<1>2. NumThreads \in Nat \ {0}
  BY ArchAssumption
<1> HIDE DEF st
<1>3. 0 \in P
  <2> DEFINE h == [n \in 0 .. 0 |-> y]
  <2>1. Eqn(h, 0)
    OBVIOUS
  <2> HIDE DEF h, Eqn
  <2> QED BY <1>2, <2>1
<1>4. ASSUME NEW n \in Threads, n - 1 \in P PROVE n \in P
  <2>1. n \in Nat \ {0} /\ n \in 0 .. NumThreads /\ n - 1 \in Nat
    BY <1>2 DEF Threads
  <2>2. PICK h : Eqn(h, n - 1)
    BY <1>4
  <2> DEFINE k == [i \in 0 .. n |-> IF i = n THEN st(h[n - 1], n) ELSE h[i]]
  <2>3. ASSUME NEW i \in 0 .. n PROVE k[i] = IF i = 0 THEN y ELSE st(k[i - 1], i)
    <3>1. CASE i = n
      BY <2>1, <3>1
    <3>2. CASE i # n
      <4>1. i \in 0 .. n - 1 /\ k[i] = h[i]
        BY <2>1, <3>2
      <4>2. h[i] = IF i = 0 THEN y ELSE st(h[i - 1], i)
        BY <2>2, <4>1
      <4>3. i # 0 => k[i - 1] = h[i - 1]
        BY <2>1, <4>1
      <4> HIDE DEF k
      <4> QED BY <4>1, <4>2, <4>3
    <3> QED BY <3>1, <3>2
  <2>4. Eqn(k, n)
    BY <2>3
  <2> HIDE DEF k, Eqn
  <2> QED BY <2>1, <2>4
<1>5. Eqn(after, NumThreads)
  <2>1. NumThreads \in P
    <3> HIDE DEF P
    <3> QED BY <1>3, <1>4, ThreadInduction
  <2>2. \E h : Eqn(h, NumThreads)
    BY <2>1
  <2> HIDE DEF Eqn
  <2> QED BY <2>2
<1>6. after[0] = y /\ \A n \in Threads : after[n] = st(after[n - 1], n)
  <2> HIDE DEF after
  <2> QED BY <1>2, <1>5 DEF Threads
<1> HIDE DEF after
<1> QED BY <1>1, <1>6 DEF st

StopThreads(y, g) == PerThread(LAMBDA w, t : perfmon_stopCountersThread(w, t, EventSet(g)), y)

\* The calls of stop, as a sequence of machines.
LEMMA StopIterates ==
  ASSUME NEW y, NEW g
  PROVE  \E h : /\ h[0] = y /\ \A n \in Threads : h[n] = perfmon_stopCountersThread(h[n - 1], n, EventSet(g))
                /\ StopThreads(y, g) = h[NumThreads]
<1> DEFINE st(w, n) == perfmon_stopCountersThread(w, n, EventSet(g))
           Eqn(h, k) == h = [n \in 0 .. k |-> IF n = 0 THEN y ELSE st(h[n - 1], n)]
           after == CHOOSE h : Eqn(h, NumThreads)
           P == {k \in 0 .. NumThreads : \E h : Eqn(h, k)}
<1>1. StopThreads(y, g) = after[NumThreads]
  BY DEF StopThreads, PerThread
<1>2. NumThreads \in Nat \ {0}
  BY ArchAssumption
<1> HIDE DEF st
<1>3. 0 \in P
  <2> DEFINE h == [n \in 0 .. 0 |-> y]
  <2>1. Eqn(h, 0)
    OBVIOUS
  <2> HIDE DEF h, Eqn
  <2> QED BY <1>2, <2>1
<1>4. ASSUME NEW n \in Threads, n - 1 \in P PROVE n \in P
  <2>1. n \in Nat \ {0} /\ n \in 0 .. NumThreads /\ n - 1 \in Nat
    BY <1>2 DEF Threads
  <2>2. PICK h : Eqn(h, n - 1)
    BY <1>4
  <2> DEFINE k == [i \in 0 .. n |-> IF i = n THEN st(h[n - 1], n) ELSE h[i]]
  <2>3. ASSUME NEW i \in 0 .. n PROVE k[i] = IF i = 0 THEN y ELSE st(k[i - 1], i)
    <3>1. CASE i = n
      BY <2>1, <3>1
    <3>2. CASE i # n
      <4>1. i \in 0 .. n - 1 /\ k[i] = h[i]
        BY <2>1, <3>2
      <4>2. h[i] = IF i = 0 THEN y ELSE st(h[i - 1], i)
        BY <2>2, <4>1
      <4>3. i # 0 => k[i - 1] = h[i - 1]
        BY <2>1, <4>1
      <4> HIDE DEF k
      <4> QED BY <4>1, <4>2, <4>3
    <3> QED BY <3>1, <3>2
  <2>4. Eqn(k, n)
    BY <2>3
  <2> HIDE DEF k, Eqn
  <2> QED BY <2>1, <2>4
<1>5. Eqn(after, NumThreads)
  <2>1. NumThreads \in P
    <3> HIDE DEF P
    <3> QED BY <1>3, <1>4, ThreadInduction
  <2>2. \E h : Eqn(h, NumThreads)
    BY <2>1
  <2> HIDE DEF Eqn
  <2> QED BY <2>2
<1>6. after[0] = y /\ \A n \in Threads : after[n] = st(after[n - 1], n)
  <2> HIDE DEF after
  <2> QED BY <1>2, <1>5 DEF Threads
<1> HIDE DEF after
<1> QED BY <1>1, <1>6 DEF st

FinalizeThreads(y, g) == PerThread(LAMBDA w, t : perfmon_finalizeCountersThread(w, t, EventSet(g)), y)

\* The calls of finalize, as a sequence of machines.
LEMMA FinalizeIterates ==
  ASSUME NEW y, NEW g
  PROVE  \E h : /\ h[0] = y /\ \A n \in Threads : h[n] = perfmon_finalizeCountersThread(h[n - 1], n, EventSet(g))
                /\ FinalizeThreads(y, g) = h[NumThreads]
<1> DEFINE st(w, n) == perfmon_finalizeCountersThread(w, n, EventSet(g))
           Eqn(h, k) == h = [n \in 0 .. k |-> IF n = 0 THEN y ELSE st(h[n - 1], n)]
           after == CHOOSE h : Eqn(h, NumThreads)
           P == {k \in 0 .. NumThreads : \E h : Eqn(h, k)}
<1>1. FinalizeThreads(y, g) = after[NumThreads]
  BY DEF FinalizeThreads, PerThread
<1>2. NumThreads \in Nat \ {0}
  BY ArchAssumption
<1> HIDE DEF st
<1>3. 0 \in P
  <2> DEFINE h == [n \in 0 .. 0 |-> y]
  <2>1. Eqn(h, 0)
    OBVIOUS
  <2> HIDE DEF h, Eqn
  <2> QED BY <1>2, <2>1
<1>4. ASSUME NEW n \in Threads, n - 1 \in P PROVE n \in P
  <2>1. n \in Nat \ {0} /\ n \in 0 .. NumThreads /\ n - 1 \in Nat
    BY <1>2 DEF Threads
  <2>2. PICK h : Eqn(h, n - 1)
    BY <1>4
  <2> DEFINE k == [i \in 0 .. n |-> IF i = n THEN st(h[n - 1], n) ELSE h[i]]
  <2>3. ASSUME NEW i \in 0 .. n PROVE k[i] = IF i = 0 THEN y ELSE st(k[i - 1], i)
    <3>1. CASE i = n
      BY <2>1, <3>1
    <3>2. CASE i # n
      <4>1. i \in 0 .. n - 1 /\ k[i] = h[i]
        BY <2>1, <3>2
      <4>2. h[i] = IF i = 0 THEN y ELSE st(h[i - 1], i)
        BY <2>2, <4>1
      <4>3. i # 0 => k[i - 1] = h[i - 1]
        BY <2>1, <4>1
      <4> HIDE DEF k
      <4> QED BY <4>1, <4>2, <4>3
    <3> QED BY <3>1, <3>2
  <2>4. Eqn(k, n)
    BY <2>3
  <2> HIDE DEF k, Eqn
  <2> QED BY <2>1, <2>4
<1>5. Eqn(after, NumThreads)
  <2>1. NumThreads \in P
    <3> HIDE DEF P
    <3> QED BY <1>3, <1>4, ThreadInduction
  <2>2. \E h : Eqn(h, NumThreads)
    BY <2>1
  <2> HIDE DEF Eqn
  <2> QED BY <2>2
<1>6. after[0] = y /\ \A n \in Threads : after[n] = st(after[n - 1], n)
  <2> HIDE DEF after
  <2> QED BY <1>2, <1>5 DEF Threads
<1> HIDE DEF after
<1> QED BY <1>1, <1>6 DEF st

\* The processors are all known.
LEMMA FamilyIs ==
  ASSUME UnitOk
  PROVE  Family \in {"pm", "core2", "silvermont", "nehalemEX", "westmereEX", "nehalem", "ivybridge", "haswell", "sandybridge", "broadwell", "phi", "k10", "interlagos", "kabini"}
<1>1. Cpu \in {"sandybridgeEP", "sandybridge", "ivybridgeEP", "ivybridge", "haswellEP", "haswell", "broadwelld", "broadwell", "nehalemEX", "westmereEX",
           "core2", "silvermont", "pm", "phi", "nehalem", "k10", "interlagos", "kabini"}
  BY DEF UnitOk, AllUnits, Of, Cpu
<1> QED BY <1>1 DEF Family

\* What setup does on any processor.
LEMMA ThreadSetup ==
  ASSUME UnitOk, NEW t \in Threads, NEW g \in Groups, NEW y \in Machines
  PROVE  SetupDone(y, perfmon_setupCountersThread(y, t, EventSet(g)), t, g)
<1>1. CASE Family = "pm"
  BY <1>1, PmSetup DEF perfmon_setupCountersThread
<1>2. CASE Family = "core2"
  BY <1>2, Core2Setup DEF perfmon_setupCountersThread
<1>3. CASE Family = "silvermont"
  BY <1>3, SilvermontSetup DEF perfmon_setupCountersThread
<1>4. CASE Family = "nehalemEX"
  BY <1>4, NehalemEXSetup DEF perfmon_setupCountersThread
<1>5. CASE Family = "westmereEX"
  BY <1>5, WestmereEXSetup DEF perfmon_setupCountersThread
<1>6. CASE Family = "nehalem"
  BY <1>6, NehalemSetup DEF perfmon_setupCountersThread
<1>7. CASE Family = "ivybridge"
  BY <1>7, IvybridgeSetup DEF perfmon_setupCountersThread
<1>8. CASE Family = "haswell"
  BY <1>8, HaswellSetup DEF perfmon_setupCountersThread
<1>9. CASE Family = "sandybridge"
  BY <1>9, SandybridgeSetup DEF perfmon_setupCountersThread
<1>10. CASE Family = "broadwell"
  BY <1>10, BroadwellSetup DEF perfmon_setupCountersThread
<1>11. CASE Family = "phi"
  BY <1>11, PhiSetup DEF perfmon_setupCountersThread
<1>12. CASE Family = "k10"
  BY <1>12, K10Setup DEF perfmon_setupCountersThread
<1>13. CASE Family = "interlagos"
  BY <1>13, InterlagosSetup DEF perfmon_setupCountersThread
<1>14. CASE Family = "kabini"
  BY <1>14, KabiniSetup DEF perfmon_setupCountersThread
<1> QED BY <1>1, <1>2, <1>3, <1>4, <1>5, <1>6, <1>7, <1>8, <1>9, <1>10, <1>11, <1>12, <1>13, <1>14, FamilyIs

\* What start does on any processor.
LEMMA ThreadStart ==
  ASSUME UnitOk, NEW t \in Threads, NEW g \in Groups, NEW y \in Machines, Inits(y, g, t) = AllCounters
  PROVE  StartDone(y, perfmon_startCountersThread(y, t, EventSet(g)), t, g)
<1>1. CASE Family = "pm"
  BY <1>1, PmStart DEF perfmon_startCountersThread
<1>2. CASE Family = "core2"
  BY <1>2, Core2Start DEF perfmon_startCountersThread
<1>3. CASE Family = "silvermont"
  BY <1>3, SilvermontStart DEF perfmon_startCountersThread
<1>4. CASE Family = "nehalemEX"
  BY <1>4, NehalemEXStart DEF perfmon_startCountersThread
<1>5. CASE Family = "westmereEX"
  BY <1>5, WestmereEXStart DEF perfmon_startCountersThread
<1>6. CASE Family = "nehalem"
  BY <1>6, NehalemStart DEF perfmon_startCountersThread
<1>7. CASE Family = "ivybridge"
  BY <1>7, IvybridgeStart DEF perfmon_startCountersThread
<1>8. CASE Family = "haswell"
  BY <1>8, HaswellStart DEF perfmon_startCountersThread
<1>9. CASE Family = "sandybridge"
  BY <1>9, SandybridgeStart DEF perfmon_startCountersThread
<1>10. CASE Family = "broadwell"
  BY <1>10, BroadwellStart DEF perfmon_startCountersThread
<1>11. CASE Family = "phi"
  BY <1>11, PhiStart DEF perfmon_startCountersThread
<1>12. CASE Family = "k10"
  BY <1>12, K10Start DEF perfmon_startCountersThread
<1>13. CASE Family = "interlagos"
  BY <1>13, InterlagosStart DEF perfmon_startCountersThread
<1>14. CASE Family = "kabini"
  BY <1>14, KabiniStart DEF perfmon_startCountersThread
<1> QED BY <1>1, <1>2, <1>3, <1>4, <1>5, <1>6, <1>7, <1>8, <1>9, <1>10, <1>11, <1>12, <1>13, <1>14, FamilyIs

\* What read does on any processor.
LEMMA ThreadRead ==
  ASSUME UnitOk, NEW t \in Threads, NEW g \in Groups, NEW y \in Machines, Inits(y, g, t) = AllCounters,
         unit \notin Halted => Programmed \subseteq On(y),
         LateUnit => \A l \in Programmed : y.ctl[l] = Event(g, CounterAt(l))
  PROVE  ReadDone(y, perfmon_readCountersThread(y, t, EventSet(g)), t, g)
<1>1. CASE Family = "pm"
  BY <1>1, PmRead DEF perfmon_readCountersThread
<1>2. CASE Family = "core2"
  BY <1>2, Core2Read, Core2Units DEF perfmon_readCountersThread
<1>3. CASE Family = "silvermont"
  BY <1>3, SilvermontRead, SilvermontUnits DEF perfmon_readCountersThread
<1>4. CASE Family = "nehalemEX"
  BY <1>4, NehalemEXRead, NehalemEXUnits DEF perfmon_readCountersThread
<1>5. CASE Family = "westmereEX"
  BY <1>5, WestmereEXRead, WestmereEXUnits DEF perfmon_readCountersThread
<1>6. CASE Family = "nehalem"
  BY <1>6, NehalemRead, NehalemUnits DEF perfmon_readCountersThread
<1>7. CASE Family = "ivybridge"
  BY <1>7, IvybridgeRead, IvybridgeUnits DEF perfmon_readCountersThread
<1>8. CASE Family = "haswell"
  BY <1>8, HaswellRead, HaswellUnits DEF perfmon_readCountersThread
<1>9. CASE Family = "sandybridge"
  BY <1>9, SandybridgeRead DEF perfmon_readCountersThread
<1>10. CASE Family = "broadwell"
  BY <1>10, BroadwellRead, BroadwellUnits DEF perfmon_readCountersThread
<1>11. CASE Family = "phi"
  BY <1>11, PhiRead DEF perfmon_readCountersThread
<1>12. CASE Family = "k10"
  BY <1>12, K10Read, K10Units DEF perfmon_readCountersThread
<1>13. CASE Family = "interlagos"
  BY <1>13, InterlagosRead, InterlagosUnits DEF perfmon_readCountersThread
<1>14. CASE Family = "kabini"
  BY <1>14, KabiniRead, KabiniUnits DEF perfmon_readCountersThread
<1> QED BY <1>1, <1>2, <1>3, <1>4, <1>5, <1>6, <1>7, <1>8, <1>9, <1>10, <1>11, <1>12, <1>13, <1>14, FamilyIs

\* What stop does on any processor.
LEMMA ThreadStop ==
  ASSUME UnitOk, NEW t \in Threads, NEW g \in Groups, NEW y \in Machines, Inits(y, g, t) = AllCounters
  PROVE  StopDone(y, perfmon_stopCountersThread(y, t, EventSet(g)), t, g)
<1>1. CASE Family = "pm"
  BY <1>1, PmStop DEF perfmon_stopCountersThread
<1>2. CASE Family = "core2"
  BY <1>2, Core2Stop DEF perfmon_stopCountersThread
<1>3. CASE Family = "silvermont"
  BY <1>3, SilvermontStop DEF perfmon_stopCountersThread
<1>4. CASE Family = "nehalemEX"
  BY <1>4, NehalemEXStop DEF perfmon_stopCountersThread
<1>5. CASE Family = "westmereEX"
  BY <1>5, WestmereEXStop DEF perfmon_stopCountersThread
<1>6. CASE Family = "nehalem"
  BY <1>6, NehalemStop DEF perfmon_stopCountersThread
<1>7. CASE Family = "ivybridge"
  BY <1>7, IvybridgeStop DEF perfmon_stopCountersThread
<1>8. CASE Family = "haswell"
  BY <1>8, HaswellStop DEF perfmon_stopCountersThread
<1>9. CASE Family = "sandybridge"
  BY <1>9, SandybridgeStop DEF perfmon_stopCountersThread
<1>10. CASE Family = "broadwell"
  BY <1>10, BroadwellStop DEF perfmon_stopCountersThread
<1>11. CASE Family = "phi"
  BY <1>11, PhiStop DEF perfmon_stopCountersThread
<1>12. CASE Family = "k10"
  BY <1>12, K10Stop DEF perfmon_stopCountersThread
<1>13. CASE Family = "interlagos"
  BY <1>13, InterlagosStop DEF perfmon_stopCountersThread
<1>14. CASE Family = "kabini"
  BY <1>14, KabiniStop DEF perfmon_stopCountersThread
<1> QED BY <1>1, <1>2, <1>3, <1>4, <1>5, <1>6, <1>7, <1>8, <1>9, <1>10, <1>11, <1>12, <1>13, <1>14, FamilyIs

\* What finalize does on any processor.
LEMMA ThreadFinalize ==
  ASSUME UnitOk, NEW t \in Threads, NEW g \in Groups, NEW y \in Machines
  PROVE  FinalizeDone(y, perfmon_finalizeCountersThread(y, t, EventSet(g)), t, g)
<1>1. CASE Family = "pm"
  BY <1>1, PmFinalize DEF perfmon_finalizeCountersThread
<1>2. CASE Family = "core2"
  BY <1>2, Core2Finalize DEF perfmon_finalizeCountersThread
<1>3. CASE Family = "silvermont"
  BY <1>3, SilvermontFinalize DEF perfmon_finalizeCountersThread
<1>4. CASE Family = "nehalemEX"
  BY <1>4, NehalemEXFinalize DEF perfmon_finalizeCountersThread
<1>5. CASE Family = "westmereEX"
  BY <1>5, WestmereEXFinalize DEF perfmon_finalizeCountersThread
<1>6. CASE Family = "nehalem"
  BY <1>6, NehalemFinalize DEF perfmon_finalizeCountersThread
<1>7. CASE Family = "ivybridge"
  BY <1>7, IvybridgeFinalize DEF perfmon_finalizeCountersThread
<1>8. CASE Family = "haswell"
  BY <1>8, HaswellFinalize DEF perfmon_finalizeCountersThread
<1>9. CASE Family = "sandybridge"
  BY <1>9, SandybridgeFinalize DEF perfmon_finalizeCountersThread
<1>10. CASE Family = "broadwell"
  BY <1>10, BroadwellFinalize DEF perfmon_finalizeCountersThread
<1>11. CASE Family = "phi"
  BY <1>11, PhiFinalize DEF perfmon_finalizeCountersThread
<1>12. CASE Family = "k10"
  BY <1>12, K10Finalize DEF perfmon_finalizeCountersThread
<1>13. CASE Family = "interlagos"
  BY <1>13, InterlagosFinalize DEF perfmon_finalizeCountersThread
<1>14. CASE Family = "kabini"
  BY <1>14, KabiniFinalize DEF perfmon_finalizeCountersThread
<1> QED BY <1>1, <1>2, <1>3, <1>4, <1>5, <1>6, <1>7, <1>8, <1>9, <1>10, <1>11, <1>12, <1>13, <1>14, FamilyIs

-----------------------------------------------------------------------------
(* What all threads have done. *)

\* What the first n threads have done to the machine y: setup,
SetupTo(y, z, n, g) ==
    /\ z \in Machines
    /\ \A h \in Groups, u \in Threads : h # g \/ u > n => z.tc[h][u] = y.tc[h][u]
    /\ \A u \in Threads : u <= n => Inits(z, g, u) = AllCounters
    /\ \A u \in Threads : u > n => z.cfg[u] = y.cfg[u]
    /\ \A l \in Locs : (\A u \in Threads : u <= n => l \notin Held(u)) =>
          z.ctl[l] = y.ctl[l] \/ (unit \in Direct /\ z.ctl[l] = Event(g, CounterAt(l)))
    /\ unit \notin Deselected =>
          \A u \in Threads : u <= n => \A c \in Owned(u) : AgreesAt(y, u, c) =>
              AgreesAt(z, u, c) /\ (~LateUnit => z.ctl[Loc(u, c)] = Event(g, c))
    /\ \/ z.filter = y.filter
       \/ IsBox /\ unit \notin NeverFiltered /\ z.filter[Box] \in {filters[g], y.filter[Box] \cup filters[g]}
    /\ n > 0 /\ unit \in FilterSet => z.filter[Box] = filters[g]

\* One more thread runs setup.
LEMMA SetupNext ==
  ASSUME UnitOk, NEW n \in Threads, NEW g \in Groups, NEW y \in Machines, NEW w, NEW z,
         SetupTo(y, w, n - 1, g), SetupDone(w, z, n, g)
  PROVE  SetupTo(y, z, n, g)
<1>1. n \in Nat /\ n >= 1 /\ \A u \in Threads : u \in Nat /\ u >= 1 /\ (u <= n <=> u <= n - 1 \/ u = n)
  BY DEF Threads
<1>2. z \in Machines /\ \A h \in Groups, u \in Threads : h # g \/ u > n => z.tc[h][u] = y.tc[h][u]
  BY <1>1 DEF SetupTo, SetupDone, Others
<1>3. ASSUME NEW u \in Threads, u <= n PROVE Inits(z, g, u) = AllCounters
  <2>1. CASE u = n
    BY <2>1 DEF SetupDone
  <2>2. CASE u # n
    <3>1. z.tc[g][u] = w.tc[g][u] /\ Inits(w, g, u) = AllCounters
      BY <1>1, <1>3, <2>2 DEF SetupTo, SetupDone, Others
    <3> QED BY <3>1 DEF Inits
  <2> QED BY <2>1, <2>2
<1>4. \A u \in Threads : u > n => z.cfg[u] = y.cfg[u]
  BY <1>1 DEF SetupTo, SetupDone
<1>5. ASSUME NEW l \in Locs, \A u \in Threads : u <= n => l \notin Held(u)
      PROVE  z.ctl[l] = y.ctl[l] \/ (unit \in Direct /\ z.ctl[l] = Event(g, CounterAt(l)))
  <2>1. l \notin Held(n) /\ \A u \in Threads : u <= n - 1 => l \notin Held(u)
    BY <1>1, <1>5
  <2> QED BY <2>1 DEF SetupTo, SetupDone
<1>6. ASSUME unit \notin Deselected, NEW u \in Threads, u <= n, NEW c \in Owned(u), AgreesAt(y, u, c)
      PROVE  AgreesAt(z, u, c) /\ (~LateUnit => z.ctl[Loc(u, c)] = Event(g, c))
  <2>1. Loc(u, c) \in Held(u) /\ Loc(u, c) \in Locs /\ CounterAt(Loc(u, c)) = c
        /\ \A v \in Threads : v # u => Loc(u, c) \notin Held(v)
    <3>1. c \in AllCounters
      BY DEF Owned, Mine, CoreOf, OfTypes
    <3> QED BY <3>1, OwnedIs, HeldIs, LocIs
  <2>2. CASE u = n
    <3>1. w.cfg[n] = y.cfg[n]
      BY <1>1 DEF SetupTo
    <3>2. w.ctl[Loc(n, c)] = y.ctl[Loc(n, c)] \/ unit \in Direct
      BY <1>1, <2>1, <2>2 DEF SetupTo
    <3>3. AgreesAt(w, n, c)
      BY <1>6, <2>2, <3>1, <3>2 DEF AgreesAt
    <3> QED BY <1>6, <2>2, <3>3 DEF SetupDone
  <2>3. CASE u # n
    <3>1. AgreesAt(w, u, c) /\ (~LateUnit => w.ctl[Loc(u, c)] = Event(g, c))
      BY <1>1, <1>6, <2>3 DEF SetupTo
    <3>2. z.cfg[u] = w.cfg[u]
      BY <2>3 DEF SetupDone
    <3>3. Loc(u, c) \in Locs \ Held(n)
      BY <2>1, <2>3
    <3>4. z.ctl[Loc(u, c)] = w.ctl[Loc(u, c)] \/ (unit \in Direct /\ z.ctl[Loc(u, c)] = Event(g, c))
      BY <2>1, <3>3 DEF SetupDone
    <3> QED BY <3>1, <3>2, <3>4 DEF AgreesAt
  <2> QED BY <2>2, <2>3
<1>7. \/ z.filter = y.filter
      \/ IsBox /\ unit \notin NeverFiltered /\ z.filter[Box] \in {filters[g], y.filter[Box] \cup filters[g]}
  BY DEF SetupTo, SetupDone
<1>8. unit \in FilterSet => z.filter[Box] = filters[g]
  <2>1. CASE n = 1
    BY <2>1 DEF SetupDone, HaveLock
  <2>2. CASE n # 1
    BY <1>1, <2>2 DEF SetupTo, SetupDone, HaveLock
  <2> QED BY <2>1, <2>2
<1> QED BY <1>1, <1>2, <1>3, <1>4, <1>5, <1>6, <1>7, <1>8 DEF SetupTo

\* All threads have run setup.
LEMMA SetupAll ==
  ASSUME UnitOk, NEW g \in Groups, NEW y \in Machines
  PROVE  SetupTo(y, SetupThreads(y, g), NumThreads, g)
<1>1. PICK h : /\ h[0] = y /\ \A n \in Threads : h[n] = perfmon_setupCountersThread(h[n - 1], n, EventSet(g))
               /\ SetupThreads(y, g) = h[NumThreads]
  BY SetupIterates
<1> DEFINE P == {n \in 0 .. NumThreads : SetupTo(y, h[n], n, g)}
<1>2. NumThreads \in Nat \ {0}
  BY ArchAssumption
<1>3. 0 \in P
  <2>1. \A u \in Threads : u > 0 /\ ~(u <= 0)
    BY DEF Threads
  <2>2. SetupTo(y, y, 0, g)
    BY <2>1 DEF SetupTo
  <2> QED BY <1>1, <1>2, <2>2
<1>4. ASSUME NEW n \in Threads, n - 1 \in P PROVE n \in P
  <2>1. SetupTo(y, h[n - 1], n - 1, g) /\ n \in 0 .. NumThreads
    BY <1>2, <1>4 DEF Threads
  <2>2. h[n - 1] \in Machines
    BY <2>1 DEF SetupTo
  <2>4. SetupDone(h[n - 1], h[n], n, g)
    BY <1>1, <2>2, ThreadSetup
  <2>5. SetupTo(y, h[n], n, g)
    BY <2>1, <2>4, SetupNext
  <2> QED BY <2>1, <2>5
<1> HIDE DEF P
<1>5. NumThreads \in P
  BY <1>3, <1>4, ThreadInduction
<1> QED BY <1>1, <1>5 DEF P

\* start,
StartTo(y, z, n, g) ==
    /\ z \in Machines /\ z.cfg = y.cfg
    /\ \A h \in Groups, u \in Threads : h # g => z.tc[h][u] = y.tc[h][u]
    /\ \A u \in Threads : Inits(z, g, u) = AllCounters
    /\ \A l \in Locs : z.ctl[l] = y.ctl[l] \/ (LateUnit /\ z.ctl[l] = Event(g, CounterAt(l)))
    /\ LateUnit => \A u \in Threads : u <= n => \A l \in Held(u) : z.ctl[l] = Event(g, CounterAt(l))
    /\ z.filter = y.filter \/ (IsBox /\ unit \in Deselected /\ z.filter[Box] = {})
    /\ unit \notin Halted => \A u \in Threads : u <= n => Held(u) \subseteq On(z)

\* One more thread runs start.
LEMMA StartNext ==
  ASSUME UnitOk, NEW n \in Threads, NEW g \in Groups, NEW y \in Machines, NEW w, NEW z,
         StartTo(y, w, n - 1, g), StartDone(w, z, n, g)
  PROVE  StartTo(y, z, n, g)
<1>1. \A u \in Threads : u <= n => u <= n - 1 \/ u = n
  BY DEF Threads
<1>2. ASSUME NEW u \in Threads PROVE Inits(z, g, u) = AllCounters
  <2>1. CASE u = n
    BY <2>1 DEF StartDone
  <2>2. CASE u # n
    <3>1. z.tc[g][u] = w.tc[g][u] /\ Inits(w, g, u) = AllCounters
      BY <2>2 DEF StartTo, StartDone, Others
    <3> QED BY <3>1 DEF Inits
  <2> QED BY <2>1, <2>2
<1>3. ASSUME LateUnit, NEW u \in Threads, u <= n, NEW l \in Held(u) PROVE z.ctl[l] = Event(g, CounterAt(l))
  <2>1. l \in Locs
    BY HeldIs
  <2>2. CASE u = n
    BY <1>3, <2>2 DEF StartDone
  <2>3. CASE u # n
    <3>1. w.ctl[l] = Event(g, CounterAt(l))
      BY <1>1, <1>3, <2>3 DEF StartTo
    <3> QED BY <2>1, <3>1 DEF StartDone
  <2> QED BY <2>2, <2>3
<1>4. ASSUME unit \notin Halted, NEW u \in Threads, u <= n PROVE Held(u) \subseteq On(z)
  <2>1. CASE u = n
    BY <1>4, <2>1 DEF StartDone
  <2>2. CASE u # n
    <3>1. Held(u) \subseteq On(w)
      BY <1>1, <1>4, <2>2 DEF StartTo
    <3> QED BY <1>4, <3>1 DEF StartDone
  <2> QED BY <2>1, <2>2
<1>5. \A h \in Groups, u \in Threads : h # g => z.tc[h][u] = y.tc[h][u]
  BY DEF StartTo, StartDone, Others
<1>6. \A l \in Locs : z.ctl[l] = y.ctl[l] \/ (LateUnit /\ z.ctl[l] = Event(g, CounterAt(l)))
  BY DEF StartTo, StartDone
<1>7. z \in Machines /\ z.cfg = y.cfg /\ (z.filter = y.filter \/ (IsBox /\ unit \in Deselected /\ z.filter[Box] = {}))
  BY DEF StartTo, StartDone
<1> QED BY <1>2, <1>3, <1>4, <1>5, <1>6, <1>7 DEF StartTo

\* All threads have run start.
LEMMA StartAll ==
  ASSUME UnitOk, NEW g \in Groups, NEW y \in Machines,
         \A u \in Threads : Inits(y, g, u) = AllCounters
  PROVE  StartTo(y, StartThreads(y, g), NumThreads, g)
<1>1. PICK h : /\ h[0] = y /\ \A n \in Threads : h[n] = perfmon_startCountersThread(h[n - 1], n, EventSet(g))
               /\ StartThreads(y, g) = h[NumThreads]
  BY StartIterates
<1> DEFINE P == {n \in 0 .. NumThreads : StartTo(y, h[n], n, g)}
<1>2. NumThreads \in Nat \ {0}
  BY ArchAssumption
<1>3. 0 \in P
  <2>1. \A u \in Threads : u > 0 /\ ~(u <= 0)
    BY DEF Threads
  <2>2. StartTo(y, y, 0, g)
    BY <2>1 DEF StartTo
  <2> QED BY <1>1, <1>2, <2>2
<1>4. ASSUME NEW n \in Threads, n - 1 \in P PROVE n \in P
  <2>1. StartTo(y, h[n - 1], n - 1, g) /\ n \in 0 .. NumThreads
    BY <1>2, <1>4 DEF Threads
  <2>2. h[n - 1] \in Machines
    BY <2>1 DEF StartTo
  <2>3. Inits(h[n - 1], g, n) = AllCounters
    BY <2>1 DEF StartTo
  <2>4. StartDone(h[n - 1], h[n], n, g)
    BY <1>1, <2>2, <2>3, ThreadStart
  <2>5. StartTo(y, h[n], n, g)
    BY <2>1, <2>4, StartNext
  <2> QED BY <2>1, <2>5
<1> HIDE DEF P
<1>5. NumThreads \in P
  BY <1>3, <1>4, ThreadInduction
<1> QED BY <1>1, <1>5 DEF P

\* read,
ReadTo(y, z, n, g) ==
    /\ z \in Machines
    /\ z.ctl = y.ctl /\ z.cnt = y.cnt /\ z.filter = y.filter /\ z.cfg = y.cfg
    /\ \A h \in Groups, u \in Threads : h # g => z.tc[h][u] = y.tc[h][u]
    /\ \A u \in Threads : Inits(z, g, u) = AllCounters
    /\ unit \notin Halted => On(z) = On(y)

\* One more thread runs read.
LEMMA ReadNext ==
  ASSUME UnitOk, NEW n \in Threads, NEW g \in Groups, NEW y \in Machines, NEW w, NEW z,
         ReadTo(y, w, n - 1, g), ReadDone(w, z, n, g)
  PROVE  ReadTo(y, z, n, g)
<1>1. ASSUME NEW u \in Threads PROVE Inits(z, g, u) = AllCounters
  <2>1. CASE u = n
    BY <2>1 DEF ReadDone
  <2>2. CASE u # n
    <3>1. z.tc[g][u] = w.tc[g][u] /\ Inits(w, g, u) = AllCounters
      BY <2>2 DEF ReadTo, ReadDone, Others
    <3> QED BY <3>1 DEF Inits
  <2> QED BY <2>1, <2>2
<1>2. \A h \in Groups, u \in Threads : h # g => z.tc[h][u] = y.tc[h][u]
  BY DEF ReadTo, ReadDone, Others
<1> QED BY <1>1, <1>2 DEF ReadTo, ReadDone

\* All threads have run read.
LEMMA ReadAll ==
  ASSUME UnitOk, NEW g \in Groups, NEW y \in Machines,
         \A u \in Threads : Inits(y, g, u) = AllCounters,
         unit \notin Halted => Programmed \subseteq On(y),
         LateUnit => \A l \in Programmed : y.ctl[l] = Event(g, CounterAt(l))
  PROVE  ReadTo(y, ReadThreads(y, g), NumThreads, g)
<1>1. PICK h : /\ h[0] = y /\ \A n \in Threads : h[n] = perfmon_readCountersThread(h[n - 1], n, EventSet(g))
               /\ ReadThreads(y, g) = h[NumThreads]
  BY ReadIterates
<1> DEFINE P == {n \in 0 .. NumThreads : ReadTo(y, h[n], n, g)}
<1>2. NumThreads \in Nat \ {0}
  BY ArchAssumption
<1>3. 0 \in P
  <2>1. \A u \in Threads : u > 0 /\ ~(u <= 0)
    BY DEF Threads
  <2>2. ReadTo(y, y, 0, g)
    BY <2>1 DEF ReadTo
  <2> QED BY <1>1, <1>2, <2>2
<1>4. ASSUME NEW n \in Threads, n - 1 \in P PROVE n \in P
  <2>1. ReadTo(y, h[n - 1], n - 1, g) /\ n \in 0 .. NumThreads
    BY <1>2, <1>4 DEF Threads
  <2>2. h[n - 1] \in Machines
    BY <2>1 DEF ReadTo
  <2>3. /\ Inits(h[n - 1], g, n) = AllCounters
        /\ unit \notin Halted => Programmed \subseteq On(h[n - 1])
        /\ LateUnit => \A l \in Programmed : h[n - 1].ctl[l] = Event(g, CounterAt(l))
    BY <2>1 DEF ReadTo
  <2>4. ReadDone(h[n - 1], h[n], n, g)
    BY <1>1, <2>2, <2>3, ThreadRead
  <2>5. ReadTo(y, h[n], n, g)
    BY <2>1, <2>4, ReadNext
  <2> QED BY <2>1, <2>5
<1> HIDE DEF P
<1>5. NumThreads \in P
  BY <1>3, <1>4, ThreadInduction
<1> QED BY <1>1, <1>5 DEF P

\* stop,
StopTo(y, z, n, g) ==
    /\ z \in Machines /\ z.cfg = y.cfg /\ z.filter = y.filter
    /\ \A h \in Groups, u \in Threads : h # g \/ u > n => z.tc[h][u] = y.tc[h][u]
    /\ \A l \in Locs : z.ctl[l] = y.ctl[l] \/ (unit \in Deselected \cup Direct /\ z.ctl[l] = Off)
    /\ On(z) \subseteq On(y)
    /\ unit \notin NotFrozen => \A u \in Threads : u <= n => \A l \in Held(u) : l \notin On(z) \/ z.ctl[l] = Off
    /\ ByInit /\ unit \notin KeepsSelection =>
          \A u \in Threads : u <= n => \A c \in Owned(u) : c \in Inits(z, g, u) \/ z.ctl[Loc(u, c)] = Off

\* One more thread runs stop.
LEMMA StopNext ==
  ASSUME UnitOk, NEW n \in Threads, NEW g \in Groups, NEW y \in Machines, NEW w, NEW z,
         StopTo(y, w, n - 1, g), StopDone(w, z, n, g)
  PROVE  StopTo(y, z, n, g)
<1>1. n \in Nat /\ n >= 1 /\ \A u \in Threads : u \in Nat /\ u >= 1 /\ (u <= n <=> u <= n - 1 \/ u = n)
  BY DEF Threads
<1>2. \A l \in Locs : z.ctl[l] = w.ctl[l] \/ z.ctl[l] = Off
  BY DEF StopDone
<1>3. ASSUME unit \notin NotFrozen, NEW u \in Threads, u <= n, NEW l \in Held(u) PROVE l \notin On(z) \/ z.ctl[l] = Off
  <2>1. l \in Locs
    BY HeldIs
  <2>2. CASE u = n
    BY <1>3, <2>2 DEF StopDone
  <2>3. CASE u # n
    <3>1. l \notin On(w) \/ w.ctl[l] = Off
      BY <1>1, <1>3, <2>3 DEF StopTo
    <3> QED BY <1>2, <2>1, <3>1 DEF StopDone
  <2> QED BY <2>2, <2>3
<1>4. ASSUME ByInit, unit \notin KeepsSelection, NEW u \in Threads, u <= n, NEW c \in Owned(u)
      PROVE  c \in Inits(z, g, u) \/ z.ctl[Loc(u, c)] = Off
  <2>1. Loc(u, c) \in Locs
    BY OwnedIs, HeldIs
  <2>2. CASE u = n
    BY <1>4, <2>2 DEF StopDone
  <2>3. CASE u # n
    <3>1. c \in Inits(w, g, u) \/ w.ctl[Loc(u, c)] = Off
      BY <1>1, <1>4, <2>3 DEF StopTo
    <3>2. z.tc[g][u] = w.tc[g][u]
      BY <2>3 DEF StopDone, Others
    <3>3. Inits(z, g, u) = Inits(w, g, u)
      BY <3>2 DEF Inits
    <3> QED BY <1>2, <2>1, <3>1, <3>3
  <2> QED BY <2>2, <2>3
<1>5. \A h \in Groups, u \in Threads : h # g \/ u > n => z.tc[h][u] = y.tc[h][u]
  BY <1>1 DEF StopTo, StopDone, Others
<1>6. \A l \in Locs : z.ctl[l] = y.ctl[l] \/ (unit \in Deselected \cup Direct /\ z.ctl[l] = Off)
  BY DEF StopTo, StopDone
<1>7. z \in Machines /\ z.cfg = y.cfg /\ z.filter = y.filter /\ On(z) \subseteq On(y)
  BY DEF StopTo, StopDone
<1> QED BY <1>3, <1>4, <1>5, <1>6, <1>7 DEF StopTo

\* All threads have run stop.
LEMMA StopAll ==
  ASSUME UnitOk, NEW g \in Groups, NEW y \in Machines,
         \A u \in Threads : Inits(y, g, u) = AllCounters
  PROVE  StopTo(y, StopThreads(y, g), NumThreads, g)
<1>1. PICK h : /\ h[0] = y /\ \A n \in Threads : h[n] = perfmon_stopCountersThread(h[n - 1], n, EventSet(g))
               /\ StopThreads(y, g) = h[NumThreads]
  BY StopIterates
<1> DEFINE P == {n \in 0 .. NumThreads : StopTo(y, h[n], n, g)}
<1>2. NumThreads \in Nat \ {0}
  BY ArchAssumption
<1>3. 0 \in P
  <2>1. \A u \in Threads : u > 0 /\ ~(u <= 0)
    BY DEF Threads
  <2>2. StopTo(y, y, 0, g)
    BY <2>1 DEF StopTo
  <2> QED BY <1>1, <1>2, <2>2
<1>4. ASSUME NEW n \in Threads, n - 1 \in P PROVE n \in P
  <2>1. StopTo(y, h[n - 1], n - 1, g) /\ n \in 0 .. NumThreads
    BY <1>2, <1>4 DEF Threads
  <2>2. h[n - 1] \in Machines
    BY <2>1 DEF StopTo
  <2>3. Inits(h[n - 1], g, n) = AllCounters
    <3>1. h[n - 1].tc[g][n] = y.tc[g][n]
      BY <2>1 DEF StopTo, Threads
    <3> QED BY <3>1 DEF Inits
  <2>4. StopDone(h[n - 1], h[n], n, g)
    BY <1>1, <2>2, <2>3, ThreadStop
  <2>5. StopTo(y, h[n], n, g)
    BY <2>1, <2>4, StopNext
  <2> QED BY <2>1, <2>5
<1> HIDE DEF P
<1>5. NumThreads \in P
  BY <1>3, <1>4, ThreadInduction
<1> QED BY <1>1, <1>5 DEF P

\* and finalize.
FinalizeTo(y, z, n, g) ==
    /\ z \in Machines
    /\ \A h \in Groups, u \in Threads : h # g \/ u > n => z.tc[h][u] = y.tc[h][u]
    /\ \A l \in Locs : z.ctl[l] \in {y.ctl[l], Off}
    /\ unit \notin KeepsSelection =>
          \A u \in Threads : u <= n => \A c \in Owned(u) : (ByInit => c \in Inits(y, g, u)) => z.ctl[Loc(u, c)] = Off
    /\ z.filter = y.filter \/ z.filter = NoFilters
    /\ n > 0 /\ unit \in FilterCleared => z.filter[Box] = {}

\* One more thread runs finalize.
LEMMA FinalizeNext ==
  ASSUME UnitOk, NEW n \in Threads, NEW g \in Groups, NEW y \in Machines, NEW w, NEW z,
         FinalizeTo(y, w, n - 1, g), FinalizeDone(w, z, n, g)
  PROVE  FinalizeTo(y, z, n, g)
<1>1. n \in Nat /\ n >= 1 /\ \A u \in Threads : u \in Nat /\ u >= 1 /\ (u <= n <=> u <= n - 1 \/ u = n)
  BY DEF Threads
<1>2. \A l \in Locs : z.ctl[l] \in {w.ctl[l], Off} /\ w.ctl[l] \in {y.ctl[l], Off}
  BY DEF FinalizeDone, FinalizeTo
<1>3. ASSUME unit \notin KeepsSelection, NEW u \in Threads, u <= n, NEW c \in Owned(u), ByInit => c \in Inits(y, g, u)
      PROVE  z.ctl[Loc(u, c)] = Off
  <2>1. Loc(u, c) \in Locs
    BY OwnedIs, HeldIs
  <2>2. CASE u = n
    <3>1. w.tc[g][n] = y.tc[g][n]
      BY <1>1 DEF FinalizeTo
    <3>2. Inits(w, g, n) = Inits(y, g, n)
      BY <3>1 DEF Inits
    <3> QED BY <1>3, <2>2, <3>2 DEF FinalizeDone
  <2>3. CASE u # n
    <3>1. w.ctl[Loc(u, c)] = Off
      BY <1>1, <1>3, <2>3 DEF FinalizeTo
    <3> QED BY <1>2, <2>1, <3>1
  <2> QED BY <2>2, <2>3
<1>4. \A h \in Groups, u \in Threads : h # g \/ u > n => z.tc[h][u] = y.tc[h][u]
  BY <1>1 DEF FinalizeTo, FinalizeDone, Others
<1>5. z \in Machines /\ (z.filter = y.filter \/ z.filter = NoFilters)
  BY DEF FinalizeTo, FinalizeDone
<1>6. unit \in FilterCleared => z.filter[Box] = {}
  <2>1. CASE n = 1
    BY <2>1 DEF FinalizeDone, HaveLock
  <2>2. CASE n # 1
    <3>1. unit \in FilterCleared => w.filter[Box] = {}
      BY <1>1, <2>2 DEF FinalizeTo
    <3> QED BY <3>1 DEF FinalizeDone, NoFilters
  <2> QED BY <2>1, <2>2
<1> QED BY <1>1, <1>2, <1>3, <1>4, <1>5, <1>6 DEF FinalizeTo

\* All threads have run finalize.
LEMMA FinalizeAll ==
  ASSUME UnitOk, NEW g \in Groups, NEW y \in Machines
  PROVE  FinalizeTo(y, FinalizeThreads(y, g), NumThreads, g)
<1>1. PICK h : /\ h[0] = y /\ \A n \in Threads : h[n] = perfmon_finalizeCountersThread(h[n - 1], n, EventSet(g))
               /\ FinalizeThreads(y, g) = h[NumThreads]
  BY FinalizeIterates
<1> DEFINE P == {n \in 0 .. NumThreads : FinalizeTo(y, h[n], n, g)}
<1>2. NumThreads \in Nat \ {0}
  BY ArchAssumption
<1>3. 0 \in P
  <2>1. \A u \in Threads : u > 0 /\ ~(u <= 0)
    BY DEF Threads
  <2>2. FinalizeTo(y, y, 0, g)
    BY <2>1 DEF FinalizeTo
  <2> QED BY <1>1, <1>2, <2>2
<1>4. ASSUME NEW n \in Threads, n - 1 \in P PROVE n \in P
  <2>1. FinalizeTo(y, h[n - 1], n - 1, g) /\ n \in 0 .. NumThreads
    BY <1>2, <1>4 DEF Threads
  <2>2. h[n - 1] \in Machines
    BY <2>1 DEF FinalizeTo
  <2>4. FinalizeDone(h[n - 1], h[n], n, g)
    BY <1>1, <2>2, ThreadFinalize
  <2>5. FinalizeTo(y, h[n], n, g)
    BY <2>1, <2>4, FinalizeNext
  <2> QED BY <2>1, <2>5
<1> HIDE DEF P
<1>5. NumThreads \in P
  BY <1>3, <1>4, ThreadInduction
<1> QED BY <1>1, <1>5 DEF P

-----------------------------------------------------------------------------
(* The invariant, and the machine each call leaves. *)

Phases == {"idle", "setup", "running", "stopped"}
Cycle == {"setup", "running"}

\* What holds of a machine y in phase p when event set a was set up last.
\* currentConfig is not ahead of the registers.
Agreeing(y) == unit \notin Deselected => \A t \in Threads : \A c \in Owned(t) : AgreesAt(y, t, c)
Ready(y, p, a) == p \in Cycle => \A t \in Threads : Inits(y, a, t) = AllCounters
Selected(y, p, a) ==
    p \in Cycle /\ unit \notin Deselected /\ (LateUnit => p = "running") =>
        \A t \in Threads : \A c \in Owned(t) : y.ctl[Loc(t, c)] = Event(a, c)
Filtered(y, p, a) == p \in Cycle /\ unit \in FilterSet => y.filter[Box] = filters[a]
Started(y, p, a) ==
    p = "running" => /\ unit \notin Halted => Programmed \subseteq On(y)
                     /\ LateUnit => \A l \in Programmed : y.ctl[l] = Event(a, CounterAt(l))
\* A selection is one of a counter that finalize will clear.
Known(y) ==
    ByInit /\ unit \notin KeepsSelection =>
        \A t \in Threads : \A c \in Owned(t) : y.ctl[Loc(t, c)] # Off => \E g \in Groups : c \in Inits(y, g, t)
Unfiltered(y) == NoFilter \/ unit \in NeverFiltered => y.filter[Box] = {}
Quiet(y, p) == p = "stopped" /\ unit \notin NotFrozen => \A l \in Programmed : l \notin On(y) \/ y.ctl[l] = Off
Clean(y, p) ==
    p = "idle" /\ unit \notin KeepsSelection =>
        /\ \A l \in Programmed : y.ctl[l] = Off
        /\ unit \notin FilterNotCleared => y.filter[Box] = {}
Inv(y, p, a) ==
    /\ y \in Machines /\ p \in Phases /\ a \in Groups
    /\ Agreeing(y) /\ Ready(y, p, a) /\ Selected(y, p, a) /\ Filtered(y, p, a) /\ Started(y, p, a)
    /\ Known(y) /\ Unfiltered(y) /\ Quiet(y, p) /\ Clean(y, p)

\* The unit and its filters, which do not change.
Chosen == unit \in Units /\ filters \in [Groups -> Filters] /\ (Box \notin FilterTypes => NoFilter)
ArchInv == Chosen /\ Inv(m, phase, active)

\* The unit of a behaviour is one of the register maps'.
LEMMA UnitOfChosen ==
  ASSUME Chosen
  PROVE  UnitOk
  BY UnitsAssumption DEF Chosen, UnitOk

\* The boxes with filters, by what is said of them.
LEMMA FilterKinds ==
  ASSUME Chosen
  PROVE  /\ unit \in FilterSet => unit \notin Deselected
         /\ NoFilter \/ unit \in FilterCleared \/ unit \in FilterNotCleared \/ unit \in NeverFiltered
         /\ NoFilter \/ unit \in FilterSet \/ unit \in FilterNotKept \/ unit \in Deselected
<1>1. unit \in AllUnits /\ unit = <<Cpu, Box>>
  BY UnitOfChosen DEF UnitOk, AllUnits, Of, Cpu, Box
<1>2. unit \in FilterSet => unit \notin Deselected
  BY <1>1 DEF FilterSet, Deselected, Of
<1>3. Box \in FilterTypes => unit \in FilterCleared \/ unit \in FilterNotCleared \/ unit \in NeverFiltered
  BY <1>1 DEF FilterTypes, FilterCleared, FilterNotCleared, NeverFiltered, Of
<1>4. Box \in FilterTypes => unit \in FilterSet \/ unit \in FilterNotKept \/ unit \in Deselected
  BY <1>1 DEF FilterTypes, FilterSet, FilterNotKept, Deselected, Of
<1> QED BY <1>2, <1>3, <1>4 DEF Chosen

\* The registers programmed are those of the counters some thread owns.
LEMMA OwnedRegisters ==
  ASSUME UnitOk
  PROVE  /\ \A t \in Threads : \A c \in Owned(t) : Loc(t, c) \in Programmed /\ Loc(t, c) \in Locs
                                                   /\ CounterAt(Loc(t, c)) = c /\ c \in AllCounters
         /\ \A l \in Programmed : l \in Locs /\ \E t \in Threads : l \in Held(t) /\ CounterAt(l) \in Owned(t) /\ l = Loc(t, CounterAt(l))
<1>1. ASSUME NEW t \in Threads, NEW c \in Owned(t)
      PROVE  Loc(t, c) \in Programmed /\ Loc(t, c) \in Locs /\ CounterAt(Loc(t, c)) = c /\ c \in AllCounters
  <2>1. c \in AllCounters
    BY DEF Owned, Mine, CoreOf, OfTypes
  <2> QED BY <2>1, OwnedIs, HeldIs, LocIs
<1>2. ASSUME NEW l \in Programmed
      PROVE  l \in Locs /\ \E t \in Threads : l \in Held(t) /\ CounterAt(l) \in Owned(t) /\ l = Loc(t, CounterAt(l))
  BY AllHeld, HeldIs DEF Programmed
<1> QED BY <1>1, <1>2

\* Setup leads to a machine set up for the event set, whatever was measured before.
LEMMA InvSetup ==
  ASSUME Chosen, NEW y, NEW p, NEW a, Inv(y, p, a), NEW g \in Groups, NEW z, SetupTo(y, z, NumThreads, g)
  PROVE  Inv(z, "setup", g)
<1>1. UnitOk /\ y \in Machines
  BY UnitOfChosen DEF Inv
<1>2. NumThreads > 0 /\ \A u \in Threads : u <= NumThreads
  BY ArchAssumption DEF Threads
<1>3. z \in Machines /\ \A u \in Threads : Inits(z, g, u) = AllCounters
  BY <1>2 DEF SetupTo
<1>4. ASSUME unit \notin Deselected, NEW u \in Threads, NEW c \in Owned(u)
      PROVE  AgreesAt(z, u, c) /\ (~LateUnit => z.ctl[Loc(u, c)] = Event(g, c))
  BY <1>2, <1>4 DEF Inv, Agreeing, SetupTo
<1>5. Filtered(z, "setup", g)
  BY <1>2 DEF SetupTo, Filtered
<1>6. Known(z)
  <2>1. \A t \in Threads : \A c \in Owned(t) : c \in Inits(z, g, t)
    BY <1>1, <1>3, OwnedRegisters
  <2> QED BY <2>1 DEF Known
<1>7. Unfiltered(z)
  <2> SUFFICES ASSUME NoFilter \/ unit \in NeverFiltered PROVE z.filter[Box] = {}
    BY DEF Unfiltered
  <2>1. y.filter[Box] = {}
    BY DEF Inv, Unfiltered
  <2>2. NoFilter => filters[g] = {}
    BY DEF NoFilter
  <2> QED BY <2>1, <2>2 DEF SetupTo
<1>8. Agreeing(z) /\ Ready(z, "setup", g) /\ Selected(z, "setup", g)
  BY <1>3, <1>4 DEF Agreeing, Ready, Selected
<1> QED BY <1>3, <1>5, <1>6, <1>7, <1>8 DEF Inv, Phases, Started, Quiet, Clean

\* Start leads from there to a machine that measures it.
LEMMA InvStart ==
  ASSUME Chosen, NEW y, NEW a, Inv(y, "setup", a), NEW z, StartTo(y, z, NumThreads, a)
  PROVE  Inv(z, "running", a)
<1>1. UnitOk /\ y \in Machines /\ a \in Groups
  BY UnitOfChosen DEF Inv
<1>2. \A u \in Threads : u <= NumThreads
  BY ArchAssumption DEF Threads
<1>3. z \in Machines /\ \A u \in Threads : Inits(z, a, u) = AllCounters
  BY DEF StartTo
<1>4. \A l \in Programmed : LateUnit => z.ctl[l] = Event(a, CounterAt(l))
  BY <1>1, <1>2, OwnedRegisters DEF StartTo
<1>5. unit \notin Halted => Programmed \subseteq On(z)
  BY <1>1, <1>2, OwnedRegisters DEF StartTo
<1>6. LateUnit => unit \in Direct
  BY DEF LateUnit, Direct, Of
<1>7. ASSUME unit \notin Deselected, NEW u \in Threads, NEW c \in Owned(u)
      PROVE  AgreesAt(z, u, c) /\ z.ctl[Loc(u, c)] = Event(a, c)
  <2>1. Loc(u, c) \in Programmed /\ Loc(u, c) \in Locs /\ CounterAt(Loc(u, c)) = c
    BY <1>1, OwnedRegisters
  <2>2. AgreesAt(y, u, c) /\ (~LateUnit => y.ctl[Loc(u, c)] = Event(a, c))
    BY <1>7 DEF Inv, Agreeing, Selected, Cycle
  <2>3. z.cfg = y.cfg /\ (~LateUnit => z.ctl[Loc(u, c)] = y.ctl[Loc(u, c)])
    BY <2>1 DEF StartTo
  <2> QED BY <1>4, <1>6, <2>1, <2>2, <2>3 DEF AgreesAt
<1>8. Filtered(z, "running", a)
  BY FilterKinds DEF Inv, Filtered, StartTo, Cycle
<1>9. Known(z)
  <2>1. \A t \in Threads : \A c \in Owned(t) : c \in Inits(z, a, t)
    BY <1>1, <1>3, OwnedRegisters
  <2> QED BY <1>1, <2>1 DEF Known
<1>10. Unfiltered(z)
  BY DEF Inv, Unfiltered, StartTo
<1>11. Agreeing(z) /\ Ready(z, "running", a) /\ Selected(z, "running", a)
  BY <1>3, <1>7 DEF Agreeing, Ready, Selected
<1> QED BY <1>1, <1>3, <1>4, <1>5, <1>8, <1>9, <1>10, <1>11 DEF Inv, Phases, Started, Quiet, Clean

\* Reading, and the events that happen, change none of this.
LEMMA InvKept ==
  ASSUME Chosen, NEW y, NEW p, NEW a, Inv(y, p, a), NEW z, z \in Machines, z.ctl = y.ctl, z.filter = y.filter, z.cfg = y.cfg,
         unit \notin Halted => On(z) = On(y),
         p # "running" => On(z) = On(y),
         \A t \in Threads, g \in Groups : Inits(z, g, t) = Inits(y, g, t) \/ (g = a /\ Inits(z, g, t) = AllCounters)
  PROVE  Inv(z, p, a)
<1>1. UnitOk /\ y \in Machines /\ a \in Groups /\ p \in Phases
  BY UnitOfChosen DEF Inv
<1>2. Agreeing(z) /\ Selected(z, p, a) /\ Filtered(z, p, a) /\ Started(z, p, a)
  BY DEF Inv, Agreeing, AgreesAt, Selected, Filtered, Started
<1>3. Ready(z, p, a)
  BY <1>1 DEF Inv, Ready
<1>4. Known(z)
  <2> SUFFICES ASSUME ByInit, unit \notin KeepsSelection, NEW t \in Threads, NEW c \in Owned(t), z.ctl[Loc(t, c)] # Off
               PROVE  \E g \in Groups : c \in Inits(z, g, t)
    BY DEF Known
  <2>1. PICK g \in Groups : c \in Inits(y, g, t)
    BY DEF Inv, Known
  <2>2. c \in AllCounters
    BY <1>1, OwnedRegisters
  <2> QED BY <1>1, <2>1, <2>2
<1>5. Unfiltered(z) /\ Quiet(z, p) /\ Clean(z, p)
  BY DEF Inv, Unfiltered, Quiet, Clean
<1> QED BY <1>1, <1>2, <1>3, <1>4, <1>5 DEF Inv

\* Stop leads from there to one at rest.
LEMMA InvStop ==
  ASSUME Chosen, NEW y, NEW a, Inv(y, "running", a), NEW z, StopTo(y, z, NumThreads, a)
  PROVE  Inv(z, "stopped", a)
<1>1. UnitOk /\ y \in Machines /\ a \in Groups
  BY UnitOfChosen DEF Inv
<1>2. \A u \in Threads : u <= NumThreads
  BY ArchAssumption DEF Threads
<1>3. ASSUME unit \notin Deselected, NEW u \in Threads, NEW c \in Owned(u)
      PROVE  AgreesAt(z, u, c)
  <2>1. Loc(u, c) \in Locs
    BY <1>1, OwnedRegisters
  <2>2. AgreesAt(y, u, c)
    BY <1>3 DEF Inv, Agreeing
  <2> QED BY <1>3, <2>1, <2>2 DEF AgreesAt, StopTo
<1>4. Known(z)
  BY <1>1, <1>2 DEF StopTo, Known
<1>5. Unfiltered(z)
  BY DEF Inv, Unfiltered, StopTo
<1>6. Quiet(z, "stopped")
  BY <1>1, <1>2, OwnedRegisters DEF Quiet, StopTo
<1> QED BY <1>1, <1>3, <1>4, <1>5, <1>6 DEF Inv, Phases, Cycle, StopTo, Agreeing, Ready, Selected, Filtered, Started, Clean

\* Both event sets are finalized, and the records cleared.
LEMMA InvFinalize ==
  ASSUME Chosen, NEW y, NEW p, NEW a, Inv(y, p, a), NEW v, FinalizeTo(y, v, NumThreads, 1),
         NEW w, FinalizeTo(v, w, NumThreads, 2), NEW z, z \in Machines,
         z.ctl = w.ctl, z.filter = w.filter, \A t \in Threads, c \in AllCounters : z.cfg[t][c] = Off
  PROVE  Inv(z, "idle", a)
<1>1. UnitOk /\ y \in Machines /\ a \in Groups
  BY UnitOfChosen DEF Inv
<1>2. NumThreads > 0 /\ \A u \in Threads : u <= NumThreads
  BY ArchAssumption DEF Threads
<1>3. Agreeing(z)
  BY <1>1, OwnedRegisters DEF Agreeing, AgreesAt
<1>4. ASSUME unit \notin KeepsSelection, NEW u \in Threads, NEW c \in Owned(u)
      PROVE  z.ctl[Loc(u, c)] = Off
  <2>1. Loc(u, c) \in Locs
    BY <1>1, OwnedRegisters
  <2>2. w.ctl[Loc(u, c)] \in {v.ctl[Loc(u, c)], Off} /\ v.ctl[Loc(u, c)] \in {y.ctl[Loc(u, c)], Off}
    BY <2>1 DEF FinalizeTo
  <2>3. CASE y.ctl[Loc(u, c)] = Off
    BY <2>2, <2>3
  <2>4. CASE y.ctl[Loc(u, c)] # Off
    <3>1. ByInit => c \in Inits(y, 1, u) \/ c \in Inits(y, 2, u)
      BY <1>4, <2>4 DEF Inv, Known, Groups
    <3>2. Inits(v, 2, u) = Inits(y, 2, u)
      BY DEF FinalizeTo, Inits, Groups
    <3>3. (ByInit => c \in Inits(y, 1, u)) => v.ctl[Loc(u, c)] = Off
      BY <1>2, <1>4 DEF FinalizeTo
    <3>4. (ByInit => c \in Inits(v, 2, u)) => w.ctl[Loc(u, c)] = Off
      BY <1>2, <1>4 DEF FinalizeTo
    <3> QED BY <2>2, <3>1, <3>2, <3>3, <3>4
  <2> QED BY <2>3, <2>4
<1>5. Unfiltered(z)
  BY DEF Inv, Unfiltered, FinalizeTo, NoFilters
<1>6. unit \notin FilterNotCleared => z.filter[Box] = {}
  <2>1. unit \in FilterCleared => w.filter[Box] = {}
    BY <1>2 DEF FinalizeTo
  <2> QED BY <1>5, <2>1, FilterKinds DEF Unfiltered
<1>7. Clean(z, "idle")
  <2>1. unit \notin KeepsSelection => \A l \in Programmed : z.ctl[l] = Off
    BY <1>1, <1>4, OwnedRegisters
  <2> QED BY <1>6, <2>1 DEF Clean
<1>8. Known(z)
  BY <1>4 DEF Known
<1> QED BY <1>1, <1>3, <1>5, <1>7, <1>8 DEF Inv, Phases, Cycle, Ready, Selected, Filtered, Started, Quiet

-----------------------------------------------------------------------------
(* The steps of the specification. *)

\* The steps, as what the threads do.
LEMMA StepsAre ==
  /\ \A g \in Groups : SetupCounters(g) => m' = SetupThreads(m, g)
  /\ StartCounters => m' = StartThreads(m, active)
  /\ ReadCounters => m' = ReadThreads(m, active)
  /\ StopCounters => m' = Evaluated(StopThreads(m, active))
  /\ FinalizeCounters => m' = [FinalizeThreads(FinalizeThreads(m, 1), 2) EXCEPT !.cfg = NoConfig, !.tc = NoCounters]
<1>1. ASSUME NEW g \in Groups, SetupCounters(g) PROVE m' = SetupThreads(m, g)
  BY <1>1, Zenon DEF SetupCounters, SetupThreads
<1>2. ASSUME StartCounters PROVE m' = StartThreads(m, active)
  BY <1>2, Zenon DEF StartCounters, StartThreads
<1>3. ASSUME ReadCounters PROVE m' = ReadThreads(m, active)
  BY <1>3, Zenon DEF ReadCounters, ReadThreads
<1>4. ASSUME StopCounters PROVE m' = Evaluated(StopThreads(m, active))
  BY <1>4, Zenon DEF StopCounters, StopThreads
<1>5. ASSUME FinalizeCounters
      PROVE  m' = [FinalizeThreads(FinalizeThreads(m, 1), 2) EXCEPT !.cfg = NoConfig, !.tc = NoCounters]
  BY <1>5, Zenon DEF FinalizeCounters, FinalizeThreads
<1> QED BY <1>1, <1>2, <1>3, <1>4, <1>5

\* The evaluation leaves a record a record.
LEMMA UsedUpIs ==
  ASSUME NEW r \in Counters
  PROVE  UsedUp(r) \in Counters /\ UsedUp(r).init = r.init
<1> DEFINE n == IF r.overflows > 0 THEN r.overflows - 1 ELSE r.overflows
<1>1. n \in Nat
  BY DEF Counters
<1>2. UsedUp(r) = [r EXCEPT !.overflows = n]
  BY DEF UsedUp
<1> HIDE DEF n
<1> QED BY <1>1, <1>2 DEF Counters

\* It changes records only.
LEMMA EvaluatedIs ==
  ASSUME NEW y \in Machines, active \in Groups
  PROVE  LET z == Evaluated(y) IN
         /\ z \in Machines /\ z.ctl = y.ctl /\ z.filter = y.filter /\ z.cfg = y.cfg /\ On(z) = On(y)
         /\ \A t \in Threads, g \in Groups : Inits(z, g, t) = Inits(y, g, t)
<1> DEFINE R == [t \in Threads |-> [c \in AllCounters |-> UsedUp(y.tc[active][t][c])]]
           F == [y.tc EXCEPT ![active] = R]
           z == [y EXCEPT !.tc = F]
<1>1. y.tc \in [Groups -> [Threads -> [AllCounters -> Counters]]]
  BY Fields
<1>2. R \in [Threads -> [AllCounters -> Counters]] /\ \A t \in Threads, c \in AllCounters : R[t][c].init = y.tc[active][t][c].init
  BY <1>1, UsedUpIs
<1>3. Evaluated(y) = z
  BY DEF Evaluated
<1> HIDE DEF R
<1>4. F \in [Groups -> [Threads -> [AllCounters -> Counters]]]
      /\ \A g \in Groups, t \in Threads, c \in AllCounters : F[g][t][c].init = y.tc[g][t][c].init
  BY <1>1, <1>2
<1> HIDE DEF F
<1>5. /\ z \in Machines /\ z.tc = F /\ z.ctl = y.ctl /\ z.filter = y.filter /\ z.cfg = y.cfg /\ z.on = y.on
  BY <1>4 DEF Machines
<1>6. On(z) = On(y)
  BY <1>5 DEF On
<1> HIDE DEF z
<1>7. \A t \in Threads, g \in Groups : Inits(z, g, t) = Inits(y, g, t)
  BY <1>4, <1>5, Zenon DEF Inits
<1> QED BY <1>3, <1>5, <1>6, <1>7

\* The type of a unit's locations.
LEMMA LocTypes ==
  ASSUME UnitOk
  PROVE  \A l \in Locs : l[1] = 0 => l[2] = Box
<1>1. CASE IsCore
  BY <1>1, CoreUnit DEF UnitOk, Threads
<1>2. CASE IsBox
  BY <1>2, BoxUnit DEF UnitOk
<1>3. CASE IsFree
  BY <1>3, FreeUnit DEF UnitOk
<1> QED BY <1>1, <1>2, <1>3 DEF IsBox

\* An event changes counters and status bits only.
LEMMA TickIs ==
  ASSUME UnitOk, m \in Machines, NEW g, NEW c, Tick(g, c)
  PROVE  /\ m' \in Machines
         /\ m'.ctl = m.ctl /\ m'.filter = m.filter /\ m'.cfg = m.cfg /\ m'.tc = m.tc /\ m'.on = m.on
<1> DEFINE hit == Hits(g, c)
           wrap == {l \in hit : m.cnt[l] = Size - 1}
           f == [l \in Locs |-> IF l \in hit THEN (m.cnt[l] + 1) % Size ELSE m.cnt[l]]
           b == {l[2] : l \in {k \in wrap : k[1] = 0}}
<1>1. m' = [m EXCEPT !.cnt = f, !.ovf = m.ovf \cup wrap, !.govf = m.govf \cup b]
  BY DEF Tick
<1>2. m.cnt \in [Locs -> 0 .. Size - 1] /\ m.ovf \subseteq Locs /\ m.govf \subseteq {Box}
  BY Fields
<1>3. wrap \subseteq Locs
  BY DEF Hits
<1>4. b \subseteq {Box}
  BY <1>3, LocTypes
<1>5. f \in [Locs -> 0 .. Size - 1]
  <2>1. ASSUME NEW l \in Locs PROVE (m.cnt[l] + 1) % Size \in 0 .. Size - 1
    BY <1>2, ArchAssumption
  <2> HIDE DEF hit
  <2> QED BY <1>2, <2>1
<1> HIDE DEF f, b, wrap, hit
<1> QED BY <1>1, <1>2, <1>3, <1>4, <1>5 DEF Machines

\* The unit and its filters do not change, and so nothing does that depends on them.
LEMMA Unchanging ==
  ASSUME unit' = unit, filters' = filters, Chosen, Inv(m', phase', active')
  PROVE  ArchInv'
<1>1. Cpu' = Cpu /\ Box' = Box
  BY DEF Cpu, Box
<1>2. AllCounters' = AllCounters /\ FilterTypes' = FilterTypes
  BY <1>1 DEF AllCounters, FilterTypes, SingleTypes
<1>3. Locs' = Locs
  BY <1>2 DEF Locs
<1>4. Programmed' = Programmed /\ NoFilter' = NoFilter /\ Family' = Family
  BY <1>1, <1>3 DEF Programmed, NoFilter, Family
<1>5. \A t \in Threads : Owned(t)' = Owned(t)
  BY <1>2 DEF Owned, Mine
<1>6. Machines' = Machines
  <2>1. Sels' = Sels
    BY <1>2 DEF Sels
  <2>2. Ctls' = Ctls /\ Cfgs' = Cfgs
    BY <1>2, <1>3, <2>1 DEF Ctls, Cfgs
  <2> QED BY <1>1, <1>2, <1>3, <2>2 DEF Machines
<1>7. Chosen'
  BY <1>1, <1>2, <1>4 DEF Chosen
<1>8. LateUnit' = LateUnit /\ ByInit' = ByInit
  BY <1>4 DEF LateUnit, ByInit
<1>9. On(m)' = On(m')
  BY <1>3, Zenon DEF On
<1>10. \A g \in Groups, t \in Threads : Inits(m, g, t)' = Inits(m', g, t)
  BY <1>2, Zenon DEF Inits
<1>11. Agreeing(m)'
  <2>1. ASSUME unit \notin Deselected, NEW t \in Threads, NEW c \in Owned(t)
        PROVE  AgreesAt(m, t, c)'
    <3>1. AgreesAt(m', t, c)
      BY <2>1 DEF Inv, Agreeing
    <3> QED BY <3>1 DEF AgreesAt
  <2> QED BY <1>5, <2>1 DEF Agreeing
<1>12. Ready(m, phase, active)'
  BY <1>2, <1>10 DEF Inv, Ready
<1>13. Selected(m, phase, active)'
  BY <1>5, <1>8 DEF Inv, Selected
<1>14. Filtered(m, phase, active)' /\ Unfiltered(m)'
  BY <1>1, <1>4 DEF Inv, Filtered, Unfiltered
<1>15. Started(m, phase, active)'
  BY <1>4, <1>8, <1>9 DEF Inv, Started
<1>16. Known(m)'
  BY <1>5, <1>8, <1>10 DEF Inv, Known
<1>17. Quiet(m, phase)' /\ Clean(m, phase)'
  BY <1>1, <1>4, <1>9 DEF Inv, Quiet, Clean
<1> QED BY <1>6, <1>7, <1>11, <1>12, <1>13, <1>14, <1>15, <1>16, <1>17 DEF ArchInv, Inv

-----------------------------------------------------------------------------
(* The theorems. *)

\* The machine found by perfmon_init.
LEMMA InitMachine ==
  ASSUME Init
  PROVE  /\ Chosen /\ m \in Machines /\ phase = "idle" /\ active = 1
         /\ \A l \in Locs : m.ctl[l] = IF l[2] \in FreeTypes THEN Free ELSE Off
         /\ \A t \in Threads, c \in AllCounters : m.cfg[t][c] = Off
         /\ m.filter[Box] = {}
<1>1. Chosen
  BY DEF Init, Chosen, Filters, NoFilter
<1> DEFINE ctl == [l \in Locs |-> IF l[2] \in FreeTypes THEN Free ELSE Off]
           on == [l \in Locs |-> l[1] = 0]
           cnt == [l \in Locs |-> 0]
           flt == [b \in {Box} |-> {}]
<1>2. PICK s \in BOOLEAN : m = [shl |-> s, ctl |-> ctl, on |-> on, cnt |-> cnt, ovf |-> {}, govf |-> {}, filter |-> flt,
                                cfg |-> NoConfig, tc |-> NoCounters]
  BY DEF Init
<1>3. ctl \in Ctls
  <2>1. \A l \in Locs : ctl[l] \in SelsOf(CounterAt(l))
    BY LocIs DEF SelsOf
  <2>2. ctl \in [Locs -> Sels]
    BY <2>1, LocIs DEF Sels
  <2> QED BY <2>1, <2>2 DEF Ctls
<1>4. on \in [Locs -> BOOLEAN]
  BY Zenon
<1>5. cnt \in [Locs -> 0 .. Size - 1] /\ flt \in [{Box} -> Filters]
  BY ArchAssumption DEF Filters
<1>6. NoConfig \in [Threads -> Cfgs]
  BY DEF NoConfig, Cfgs
<1>7. NoCounters \in [Groups -> [Threads -> [AllCounters -> Counters]]]
  BY DEF NoCounters, Counters, NewCounter
<1>8. \A l \in Locs : ctl[l] = IF l[2] \in FreeTypes THEN Free ELSE Off
  OBVIOUS
<1>9. flt[Box] = {}
  OBVIOUS
<1> HIDE DEF ctl, on, cnt, flt
<1>10. m \in Machines /\ m.ctl = ctl /\ m.cfg = NoConfig /\ m.filter = flt
  BY <1>2, <1>3, <1>4, <1>5, <1>6, <1>7 DEF Machines
<1> QED BY <1>1, <1>8, <1>9, <1>10 DEF Init, NoConfig

\* It satisfies the invariant.
LEMMA InitInv == Init => ArchInv
<1> SUFFICES ASSUME Init PROVE ArchInv
  OBVIOUS
<1>1. UnitOk
  BY InitMachine, UnitOfChosen
<1>2. \A t \in Threads : \A c \in Owned(t) : m.ctl[Loc(t, c)] = Off /\ m.cfg[t][c] = Off
  BY <1>1, InitMachine, OwnedRegisters DEF Programmed
<1>3. Agreeing(m) /\ Known(m)
  BY <1>2 DEF Agreeing, AgreesAt, Known
<1>4. Clean(m, phase)
  BY InitMachine DEF Clean, Programmed
<1> QED BY <1>3, <1>4, InitMachine
        DEF ArchInv, Inv, Phases, Cycle, Groups, Ready, Selected, Filtered, Started, Unfiltered, Quiet

\* What the steps that change the machine leave.
LEMMA SetupInv ==
  ASSUME ArchInv, NEW g \in Groups, SetupCounters(g)
  PROVE  ArchInv'
<1>1. UnitOk /\ m \in Machines /\ Chosen
  BY UnitOfChosen DEF ArchInv, Inv
<1>2. SetupTo(m, m', NumThreads, g)
  BY <1>1, SetupAll, StepsAre
<1>3. Inv(m', "setup", g)
  BY <1>1, <1>2, InvSetup DEF ArchInv
<1> QED BY <1>1, <1>3, Unchanging DEF SetupCounters

\* StartCounters keeps the invariant.
LEMMA StartInv ==
  ASSUME ArchInv, StartCounters
  PROVE  ArchInv'
<1>1. UnitOk /\ m \in Machines /\ Chosen /\ active \in Groups
  BY UnitOfChosen DEF ArchInv, Inv
<1>2. phase = "setup" /\ \A u \in Threads : Inits(m, active, u) = AllCounters
  BY DEF ArchInv, Inv, StartCounters, Ready, Cycle
<1>3. StartTo(m, m', NumThreads, active)
  BY <1>1, <1>2, StartAll, StepsAre
<1>4. Inv(m', "running", active)
  BY <1>1, <1>2, <1>3, InvStart DEF ArchInv
<1> QED BY <1>1, <1>4, Unchanging DEF StartCounters

\* What ReadCounters does, by the contract of the read functions.
LEMMA ReadIs ==
  ASSUME ArchInv, ReadCounters
  PROVE  UnitOk /\ m \in Machines /\ phase = "running" /\ ReadTo(m, m', NumThreads, active)
<1>1. UnitOk /\ m \in Machines /\ active \in Groups /\ phase = "running"
  BY UnitOfChosen DEF ArchInv, Inv, ReadCounters
<1>2. \A u \in Threads : Inits(m, active, u) = AllCounters
  BY <1>1 DEF ArchInv, Inv, Ready, Cycle
<1>3. unit \notin Halted => Programmed \subseteq On(m)
  BY <1>1 DEF ArchInv, Inv, Started
<1>4. LateUnit => \A l \in Programmed : m.ctl[l] = Event(active, CounterAt(l))
  BY <1>1 DEF ArchInv, Inv, Started
<1>5. ReadTo(m, ReadThreads(m, active), NumThreads, active)
  BY <1>1, <1>2, <1>3, <1>4, ReadAll
<1> QED BY <1>1, <1>5, StepsAre

\* ReadCounters keeps the invariant.
LEMMA ReadInv ==
  ASSUME ArchInv, ReadCounters
  PROVE  ArchInv'
<1>1. UnitOk /\ m \in Machines /\ phase = "running" /\ ReadTo(m, m', NumThreads, active) /\ Chosen /\ Inv(m, phase, active)
  BY ReadIs DEF ArchInv
<1>2. m' \in Machines /\ m'.ctl = m.ctl /\ m'.filter = m.filter /\ m'.cfg = m.cfg /\ (unit \notin Halted => On(m') = On(m))
  BY <1>1 DEF ReadTo
<1>3. \A t \in Threads, g \in Groups : Inits(m', g, t) = Inits(m, g, t) \/ (g = active /\ Inits(m', g, t) = AllCounters)
  BY <1>1 DEF ReadTo, Inits
<1>4. Inv(m', phase, active)
  BY <1>1, <1>2, <1>3, InvKept
<1> QED BY <1>1, <1>4, Unchanging DEF ReadCounters

\* StopCounters keeps the invariant.
LEMMA StopInv ==
  ASSUME ArchInv, StopCounters
  PROVE  ArchInv'
<1>1. UnitOk /\ m \in Machines /\ Chosen /\ active \in Groups /\ phase = "running"
  BY UnitOfChosen DEF ArchInv, Inv, StopCounters
<1>2. \A u \in Threads : Inits(m, active, u) = AllCounters
  BY <1>1 DEF ArchInv, Inv, Ready, Cycle
<1> DEFINE y == StopThreads(m, active)
<1>3. StopTo(m, y, NumThreads, active)
  BY <1>1, <1>2, StopAll
<1>4. m' = Evaluated(y)
  BY StepsAre
<1> HIDE DEF y
<1>5. Inv(y, "stopped", active)
  BY <1>1, <1>3, InvStop DEF ArchInv
<1>6. y \in Machines
  BY <1>5 DEF Inv
<1>7. /\ m' \in Machines /\ m'.ctl = y.ctl /\ m'.filter = y.filter /\ m'.cfg = y.cfg /\ On(m') = On(y)
      /\ \A t \in Threads, g \in Groups : Inits(m', g, t) = Inits(y, g, t)
  BY <1>1, <1>4, <1>6, EvaluatedIs
<1>8. Inv(m', "stopped", active)
  BY <1>1, <1>5, <1>7, InvKept
<1> QED BY <1>1, <1>8, Unchanging DEF StopCounters

\* FinalizeCounters keeps the invariant.
LEMMA FinalizeInv ==
  ASSUME ArchInv, FinalizeCounters
  PROVE  ArchInv'
<1>1. UnitOk /\ m \in Machines /\ Chosen /\ 1 \in Groups /\ 2 \in Groups
  BY UnitOfChosen DEF ArchInv, Inv, Groups
<1> DEFINE v == FinalizeThreads(m, 1)
           w == FinalizeThreads(v, 2)
<1>2. FinalizeTo(m, v, NumThreads, 1)
  BY <1>1, FinalizeAll
<1>3. v \in Machines
  BY <1>2 DEF FinalizeTo
<1> HIDE DEF v
<1>4. FinalizeTo(v, w, NumThreads, 2)
  BY <1>1, <1>3, FinalizeAll
<1>5. w \in Machines
  BY <1>4 DEF FinalizeTo
<1>6. m' = [w EXCEPT !.cfg = NoConfig, !.tc = NoCounters]
  BY StepsAre DEF v
<1> HIDE DEF w
<1>7. NoConfig \in [Threads -> Cfgs] /\ \A t \in Threads, c \in AllCounters : NoConfig[t][c] = Off
  BY DEF NoConfig, Cfgs
<1>8. NoCounters \in [Groups -> [Threads -> [AllCounters -> Counters]]]
  BY DEF NoCounters, Counters, NewCounter
<1>9. m' \in Machines /\ m'.ctl = w.ctl /\ m'.filter = w.filter /\ m'.cfg = NoConfig
  BY <1>5, <1>6, <1>7, <1>8 DEF Machines
<1>10. Inv(m', "idle", active)
  BY <1>1, <1>2, <1>4, <1>7, <1>9, InvFinalize DEF ArchInv
<1> QED BY <1>1, <1>10, Unchanging DEF FinalizeCounters

\* The hardware keeps the invariant.
LEMMA TickInv ==
  ASSUME ArchInv, NEW g \in Groups, NEW c \in AllCounters, Tick(g, c)
  PROVE  ArchInv'
<1>1. UnitOk /\ m \in Machines /\ Chosen /\ Inv(m, phase, active)
  BY UnitOfChosen DEF ArchInv, Inv
<1>2. /\ m' \in Machines
      /\ m'.ctl = m.ctl /\ m'.filter = m.filter /\ m'.cfg = m.cfg /\ m'.tc = m.tc /\ m'.on = m.on
  BY <1>1, TickIs
<1>3. On(m') = On(m) /\ \A t \in Threads, h \in Groups : Inits(m', h, t) = Inits(m, h, t)
  BY <1>2 DEF On, Inits
<1>4. Inv(m', phase, active)
  BY <1>1, <1>2, <1>3, InvKept
<1> QED BY <1>1, <1>4, Unchanging DEF Tick

\* Every step keeps the invariant.
LEMMA NextInv == ArchInv /\ [Next]_vars => ArchInv'
<1> SUFFICES ASSUME ArchInv, [Next]_vars PROVE ArchInv'
  OBVIOUS
<1>1. ASSUME NEW g \in Groups, SetupCounters(g) PROVE ArchInv'
  BY <1>1, SetupInv
<1>2. CASE StartCounters
  BY <1>2, StartInv
<1>3. CASE ReadCounters
  BY <1>3, ReadInv
<1>4. CASE StopCounters
  BY <1>4, StopInv
<1>5. CASE FinalizeCounters
  BY <1>5, FinalizeInv
<1>6. ASSUME NEW g \in Groups, NEW c \in AllCounters, Tick(g, c) PROVE ArchInv'
  BY <1>6, TickInv
<1>7. CASE UNCHANGED vars
  BY <1>7, Unchanging DEF vars, ArchInv
<1> QED BY <1>1, <1>2, <1>3, <1>4, <1>5, <1>6, <1>7 DEF Next

\* ArchInv holds in every reachable state, for every unit of every processor
\* layer (perfmon_{setup,start,read,stop,finalize}Counters*Thread_* of the 14
\* headers includes/perfmon_<name>.h), any number of threads, any width of the
\* counters and any sequence of calls.
THEOREM ArchInvariant == Spec => []ArchInv
<1> QED BY InitInv, NextInv, PTL DEF Spec

\* Registers and records keep their types: control registers and currentConfig
\* name events of the counter they belong to (all functions of the layers).
THEOREM ArchTyped == Spec => []TypeOK
<1>1. ArchInv => TypeOK
  <2> SUFFICES ASSUME ArchInv PROVE TypeOK
    OBVIOUS
  <2>1. m \in Machines /\ unit \in Units /\ phase \in Phases /\ active \in Groups
    BY DEF ArchInv, Inv, Chosen
  <2>2. \A l \in Locs : m.ctl[l] \in {Off, Free} \cup {Event(g, CounterAt(l)) : g \in Groups}
    BY <2>1, Fields DEF SelsOf, Groups
  <2>3. m.cnt \in [Locs -> 0 .. Size - 1] /\ m.ovf \subseteq Locs /\ m.govf \subseteq {Box} /\ m.filter[Box] \in {{}, {"match"}}
    BY <2>1, Fields DEF Filters
  <2>4. \A t \in Threads, c \in AllCounters : m.cfg[t][c] \in {Off} \cup {Event(g, c) : g \in Groups}
    BY <2>1, Fields DEF Cfgs, SelsOf, Groups
  <2>5. \A g \in Groups, t \in Threads, c \in AllCounters : m.tc[g][t][c].overflows \in Nat
    BY <2>1, Fields DEF Counters
  <2> QED BY <2>1, <2>2, <2>3, <2>4, <2>5 DEF TypeOK, Phases
<1> QED BY <1>1, ArchInvariant, PTL

\* While an event set runs, its counters are enabled and select its events and
\* its filter, whatever ran before: setup skips a write only if the register
\* holds what currentConfig says (perfmon_setupCounterThread_*).
THEOREM EventsSelected == Spec => []SelectedAsWanted
<1>1. ArchInv => SelectedAsWanted
  <2> SUFFICES ASSUME ArchInv, phase = "running", unit \notin Deselected \cup Halted, unit \in FilterNotKept => NoFilter,
                      NEW t \in Threads, NEW c \in Mine(t) \ FreeOf(AllCounters)
               PROVE  /\ Counting(Loc(t, c)) /\ m.ctl[Loc(t, c)] = Event(active, c)
                      /\ Type(c) = Box => m.filter[Box] = filters[active]
    BY DEF SelectedAsWanted
  <2>1. UnitOk /\ Chosen /\ active \in Groups /\ c \in Owned(t)
    BY UnitOfChosen DEF ArchInv, Inv, Owned
  <2>2. Loc(t, c) \in Programmed /\ Loc(t, c) \in Locs
    BY <2>1, OwnedRegisters
  <2>3. m.ctl[Loc(t, c)] = Event(active, c)
    BY <2>1 DEF ArchInv, Inv, Selected, Cycle
  <2>4. Loc(t, c) \in On(m)
    BY <2>2 DEF ArchInv, Inv, Started
  <2>5. Event(active, c) # Off
    BY <2>1 DEF Event, Off, Groups
  <2>6. m.filter[Box] = filters[active]
    <3>1. CASE NoFilter
      BY <2>1, <3>1 DEF ArchInv, Inv, Unfiltered, NoFilter
    <3>2. CASE ~NoFilter
      BY <2>1, <3>2, FilterKinds DEF ArchInv, Inv, Filtered, Cycle
    <3> QED BY <3>1, <3>2
  <2>7. Counting(Loc(t, c))
    BY <2>2, <2>3, <2>4, <2>5 DEF Counting, On, Programmed
  <2> QED BY <2>3, <2>6, <2>7
<1> QED BY <1>1, ArchInvariant, PTL

\* After a stop no counter of the package counts, whichever thread stopped last
\* (perfmon_stopCountersThread_*).
THEOREM StoppedIsQuiet == Spec => []QuietWhenStopped
<1>1. ArchInv => QuietWhenStopped
  BY DEF ArchInv, Inv, Quiet, QuietWhenStopped, Counting, Programmed, On
<1> QED BY <1>1, ArchInvariant, PTL

\* After finalize no event is selected and no filter set, on any CPU: the event
\* sets finalized one after the other clear between them whatever was written
\* (perfmon_finalizeCountersThread_*).
THEOREM FinalizedIsClean == Spec => []CleanWhenFinalized
<1>1. ArchInv => CleanWhenFinalized
  <2> SUFFICES ASSUME ArchInv, phase = "idle", unit \notin KeepsSelection
               PROVE  /\ \A l \in Locs : m.ctl[l] \in {Off, Free}
                      /\ unit \notin FilterNotCleared => m.filter[Box] = {}
    BY DEF CleanWhenFinalized
  <2>1. m \in Machines /\ Clean(m, phase)
    BY DEF ArchInv, Inv
  <2>2. ASSUME NEW l \in Locs PROVE m.ctl[l] \in {Off, Free}
    <3>1. CASE l[2] \in FreeTypes
      BY <2>1, <3>1, Fields, LocIs DEF SelsOf
    <3>2. CASE l[2] \notin FreeTypes
      BY <2>1, <3>2 DEF Clean, Programmed
    <3> QED BY <3>1, <3>2
  <2> QED BY <2>1, <2>2 DEF Clean
<1> QED BY <1>1, ArchInvariant, PTL

\* A read by all threads, one after the other, leaves every counter enabled that
\* was and changes no register: the freezes and unfreezes of the threads cancel
\* out (perfmon_readCountersThread_*).
THEOREM ReadingDisturbsNothing == Spec => ReadKeepsCounting
<1>1. ArchInv /\ ReadCounters /\ unit \notin Halted
      => m'.on = m.on /\ m'.ctl = m.ctl /\ m'.cnt = m.cnt /\ m'.filter = m.filter
  <2> SUFFICES ASSUME ArchInv, ReadCounters, unit \notin Halted
               PROVE  m'.on = m.on /\ m'.ctl = m.ctl /\ m'.cnt = m.cnt /\ m'.filter = m.filter
    OBVIOUS
  <2>1. m \in Machines /\ ReadTo(m, m', NumThreads, active)
    BY ReadIs
  <2>2. m' \in Machines /\ m'.ctl = m.ctl /\ m'.cnt = m.cnt /\ m'.filter = m.filter /\ On(m') = On(m)
    BY <2>1 DEF ReadTo
  <2>3. m'.on \in [Locs -> BOOLEAN] /\ m.on \in [Locs -> BOOLEAN]
    BY <2>1, <2>2, Fields
  <2>4. ASSUME NEW l \in Locs PROVE m'.on[l] = m.on[l]
    <3>1. m'.on[l] \in BOOLEAN /\ m.on[l] \in BOOLEAN
      BY <2>3
    <3>2. m'.on[l] <=> m.on[l]
      BY <2>2, Zenon DEF On
    <3> QED BY <3>1, <3>2
  <2>5. m'.on = m.on
    <3>1. m'.on = [l \in Locs |-> m'.on[l]] /\ m.on = [l \in Locs |-> m.on[l]]
      BY <2>3
    <3>2. [l \in Locs |-> m'.on[l]] = [l \in Locs |-> m.on[l]]
      BY <2>4, Zenon
    <3> QED BY <3>1, <3>2, Zenon
  <2> QED BY <2>2, <2>5
<1> QED BY <1>1, ArchInvariant, PTL DEF Spec, ReadKeepsCounting
=============================================================================
