--------------------------------- MODULE Pin ---------------------------------
(***************************************************************************)
(* likwid-pin: the affinity domains of the machine, the CPU string of the  *)
(* command line, and the program that is started under the wrapper, with   *)
(* the list of CPUs in its environment (likwid-pin.lua, startProgram of    *)
(* luawid.c).                                                              *)
(***************************************************************************)
EXTENDS CpuString, Topology, PthreadPin

CONSTANTS
    Machines,       \* machines (see Topology)
    CpuStrings,     \* CPU strings (see CpuString)
    SkipMasks,      \* masks of option -s
    CreatorSets     \* the threads that create threads

VARIABLES machine, cpustr, topo, doms, cpu_list, stage

toolVars == <<machine, cpustr, topo, doms, cpu_list, stage>>
vars == <<toolVars, pinVars>>

Init ==
    /\ machine \in Machines /\ cpustr \in CpuStrings
    /\ topo = <<>> /\ doms = <<>> /\ cpu_list = <<>> /\ stage = "start"
    /\ envPin = <<>> /\ envSkip \in SkipMasks /\ creators \in CreatorSets
    /\ PinInit(machine.cpuset)

\* likwid.getAffinityInfo
getAffinityInfo ==
    /\ stage = "start" /\ stage' = "domains"
    /\ topo' = topology_init(machine) /\ doms' = affinity_init(topo')
    /\ UNCHANGED <<machine, cpustr, cpu_list, pinVars>>

\* option -c; an empty list ends the tool
ParseCpuString ==
    /\ stage = "domains"
    /\ cpu_list' = cpustr_to_cpulist(topo, doms, cpustr, MAX_NUM_THREADS)
    /\ stage' = IF cpu_list' = <<>> THEN "refused" ELSE "parsed"
    /\ UNCHANGED <<machine, cpustr, topo, doms, pinVars>>

\* variant: the list is passed on as it is
startProgramUnrotated ==
    /\ stage = "parsed" /\ Garbage \notin Range(cpu_list) /\ stage' = "running"
    /\ envPin' = IF Len(cpu_list) > 1 THEN cpu_list ELSE <<>>
    /\ mask' = [mask EXCEPT ![Main] = Range(cpu_list)]
    /\ UNCHANGED <<machine, cpustr, topo, doms, cpu_list, envSkip, creators, wrapper, pc, made, fate, placements, failures>>
\* The first CPU goes to the end of LIKWID_PIN.  The child pins itself to all
\* CPUs of the list.  (What the system does with a number that was never
\* written is left out.)
startProgram ==
    /\ stage = "parsed" /\ Garbage \notin Range(cpu_list) /\ stage' = "running"
    /\ envPin' = IF Len(cpu_list) > 1 THEN Append(Tail(cpu_list), Head(cpu_list)) ELSE <<>>
    /\ mask' = [mask EXCEPT ![Main] = Range(cpu_list)]
    /\ UNCHANGED <<machine, cpustr, topo, doms, cpu_list, envSkip, creators, wrapper, pc, made, fate, placements, failures>>

\* With one CPU the wrapper is not loaded
PlainCreate(t) ==
    /\ stage = "running" /\ Len(cpu_list) = 1
    /\ t \in creators /\ pc[t] = "out" /\ Unborn # {}
    /\ LET u == Min(Unborn)
       IN pc' = [pc EXCEPT ![u] = "out"] /\ mask' = [mask EXCEPT ![u] = mask[t]]
    /\ UNCHANGED <<toolVars, envPin, envSkip, creators, wrapper, made, fate, placements, failures>>

Wrapped(t) == stage = "running" /\ Len(cpu_list) > 1 /\ PinStep(t) /\ UNCHANGED toolVars

Next ==
    \/ getAffinityInfo \/ ParseCpuString \/ startProgram
    \/ \E t \in Threads : PlainCreate(t) \/ Wrapped(t)

Spec == Init /\ [][Next]_vars

\* The CPU lists that the command lines yield have CPU numbers, or entries
\* that were never written, and leave an entry of pin_ids free.
ListsFit ==
    \A m \in Machines, s \in CpuStrings :
        LET t == topology_init(m)
            list == cpustr_to_cpulist(t, affinity_init(t), s, MAX_NUM_THREADS)
        IN list \in Seq(Nat \cup {Garbage}) /\ Len(list) < MAX_NUM_THREADS

-----------------------------------------------------------------------------
(* What the hardware is *)

Full == machine.cpuset = machine.online /\ FoundRight(machine)
Package(c) == Real(machine, c).package
Core(c) == Real(machine, c).core
CoreOf(c) == <<Package(c), Core(c)>>
Siblings(c) == {d \in machine.online : CoreOf(d) = CoreOf(c)}
Smt(c) == Cardinality({d \in Siblings(c) : d < c})
\* all cores have as many threads as each other, and the cpuset has whole cores
WholeCores ==
    /\ \A c, d \in machine.online : Cardinality(Siblings(c)) = Cardinality(Siblings(d))
    /\ \A c \in machine.cpuset : Siblings(c) \subseteq machine.cpuset
\* The packages, and the cores of each, are reported in an order that the tree
\* sorts: going through the CPUs by their numbers, no two others come before
\* the smallest (tree_insertNode)
SmallestEarly(F(_), cpus) ==
    LET smallest == Min({F(c) : c \in cpus})
        first == Min({c \in cpus : F(c) = smallest})
    IN Cardinality({F(c) : c \in {d \in cpus : d < first}}) <= 1
ReportedInOrder ==
    /\ SmallestEarly(Package, machine.online)
    /\ \A c \in machine.online : SmallestEarly(Core, {d \in machine.online : Package(d) = Package(c)})

\* the k-th smallest of the values that F takes on the CPUs
Values(F(_)) == {F(c) : c \in machine.online}
Nth(F(_), k) == CHOOSE v \in Values(F) : Cardinality({w \in Values(F) : w < v}) = k
Meant(tag) ==
    LET Cache(c) == Real(machine, c).cache
        Node(c) == Real(machine, c).node
        With(F(_), v) == {c \in machine.online : F(c) = v}
    IN CASE tag[1] = "N" -> machine.online
         [] tag[1] = "S" -> With(Package, Nth(Package, tag[2]))
         [] tag[1] = "C" -> With(Cache, Nth(Cache, tag[2]))
         [] tag[1] = "M" -> IF machine.numa THEN With(Node, Nth(Node, tag[2]))
                            ELSE machine.online

\* The domain holds the CPUs it is named for and that the process may use, each
\* once, within the memory allocated for it and with the threads of a core side
\* by side, as cpulist_sort expects
RightDomain(tag, domain) ==
    LET list == domain.list
    IN /\ Range(list) = Meant(tag) \cap machine.cpuset
       /\ Len(list) = Cardinality(Range(list)) /\ Len(list) <= domain.room
       /\ \A j, k \in DOMAIN list : \A l \in j .. k :
              CoreOf(list[j]) = CoreOf(list[k]) => CoreOf(list[l]) = CoreOf(list[j])


\* The order in which the processor numbers its cores and packages does not
\* matter.  It does: tree_insertNode never puts a node before the first of
\* several (tree.c:134), and the domains are cut from the order of the tree.
\* TLC refutes this in MCPin.cfg.
RightInAnyOrder ==
    stage = "domains" /\ Full => \A i \in DOMAIN doms : RightDomain(doms[i].tag, doms[i].domain)

\* The CPUs of a domain are counted from 0 on, the threads of a core one after
\* the other (Index), or all first threads before all second ones (Rank)
Lower(s, t) == \E i \in DOMAIN s : s[i] < t[i] /\ \A j \in 1 .. i - 1 : s[j] = t[j]
Index(c, tag) ==
    Cardinality({d \in Meant(tag) : Lower(<<Package(d), Core(d), Smt(d)>>, <<Package(c), Core(c), Smt(c)>>)})
Rank(c, tag) ==
    Cardinality({d \in Meant(tag) : Lower(<<Smt(d), Package(d), Core(d)>>, <<Smt(c), Package(c), Core(c)>>)})
LetterDomains(letter) == {doms[i].tag : i \in {j \in DOMAIN doms : doms[j].tag[1] = letter}}


\* The manual says that an expression "selects the given <numberOfThreads>"
\* (likwid-pin.md:145).  cpustr_to_cpulist_expression takes whole chunks, so
\* that E:N:3:2:2 yields four: TLC refutes this in MCPin.cfg.
AsManyAsAsked ==
    stage = "parsed" /\ Len(cpustr) = 1 /\ cpustr[1].kind = "E" => Len(cpu_list) = cpustr[1].count

\* Every CPU of the list may be used by the process, provided the hardware was
\* found out rightly, all cores have as many threads and the cpuset has whole
\* cores only, the logical numbers are not larger than the domain, and no
\* memory domain is named in a cpuset (cpustr_to_cpulist, cpulist_sort).
ListUsable ==
    LET letter(p) == IF p.kind = "scatter" THEN p.letter ELSE p.tag[1]
        InRange(p) ==
            /\ Full \/ letter(p) # "M"
            /\ p.kind \in {"L", "P"} =>
                  /\ HasTag(doms, p.tag)
                  /\ \A i \in DOMAIN AllNumbers(p.items) :
                         AllNumbers(p.items)[i] < Len(ListOf(doms, p.tag)) \/ (p.kind = "P" /\ Full)
    IN stage = "parsed" /\ FoundRight(machine) /\ WholeCores /\ (\A i \in DOMAIN cpustr : InRange(cpustr[i])) =>
           Range(cpu_list) \subseteq machine.cpuset

\* With the list of likwid-pin the main thread runs on its first CPU and the
\* next threads that are not skipped on the second, third and so on, so that
\* as many threads as there are CPUs are alone on theirs, unless the list names
\* one twice (startProgram and pthread_create).
PinnedAsListed ==
    ncpus > 0 /\ ncpus = Len(cpu_list) =>
        /\ mask[Main] = {cpu_list[1]}
        /\ \A t \in Threads : fate[t] \in 0 .. ncpus - 2 => mask[t] = {cpu_list[fate[t] + 2]}
=============================================================================
