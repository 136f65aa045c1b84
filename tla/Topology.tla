------------------------------ MODULE Topology ------------------------------
(***************************************************************************)
(* What topology_init and numa_init find out about a machine (topology.c,  *)
(* topology_hwloc.c, topology_cpuid.c, topology_proc.c, numa.c).           *)
(*                                                                         *)
(* A machine h is what the hardware and the operating system are:          *)
(*   h.pool     CPUs in the order of their numbers, each with its package, *)
(*              core, last level cache and memory node                     *)
(*   h.online   the CPUs that are switched on, CPU 0 among them            *)
(*   h.cpuset   the CPUs the process may use, all online                   *)
(*   h.numa     whether the kernel has more than one memory node           *)
(*   h.source   "hwloc" for the default build; "leafB", "P6", "K8", "K10", *)
(*              "MagnyCours", "K15" for a build without hwloc, by the way  *)
(*              the processor is asked; "file" for a topology file of      *)
(*              likwid-genTopoCfg                                          *)
(*   h.junk     the CPUs whose inCpuSet is not 0 in memory that was        *)
(*              allocated and not written                                  *)
(* The result is the record that Affinity starts from.                     *)
(***************************************************************************)
EXTENDS Affinity

Configured(h) == 0 .. Len(h.pool) - 1
Real(h, c) == h.pool[c + 1]

extractBitField(inField, width, offset) == (inField \div 2^offset) % 2^width
getBitFieldWidth(number) == CHOOSE w \in 0 .. number : 2^w >= number /\ \A v \in 0 .. w - 1 : 2^v < number

-----------------------------------------------------------------------------
(* What the processor answers to CPUID *)

SameCore(h, c) == {d \in Configured(h) : Real(h, d).package = Real(h, c).package /\ Real(h, d).core = Real(h, c).core}
SmtWidth(h) == getBitFieldWidth(Max({Cardinality(SameCore(h, c)) : c \in Configured(h)}))
CoreWidth(h) == getBitFieldWidth(Max({Real(h, c).core : c \in Configured(h)}) + 1)
ApicId(h, c) ==
    (Real(h, c).package * 2^CoreWidth(h) + Real(h, c).core) * 2^SmtWidth(h)
    + Cardinality({d \in SameCore(h, c) : d < c})
\* CPUs that are online and share the last level cache of CPU 0
Sharing(h) == Cardinality({d \in h.online : Real(h, d).cache = Real(h, 0).cache})

-----------------------------------------------------------------------------
(* The hardware threads *)

Thread(package, core) == [package |-> package, core |-> core]

hwloc_init_nodeTopology(h) == [i \in 1 .. Len(h.pool) |-> Thread(h.pool[i].package, h.pool[i].core)]

\* CPUID leaf 0xB gives the two offsets in the APIC id
leafB(h) ==
    [i \in 1 .. Len(h.pool) |->
        LET apicId == ApicId(h, i - 1)
        IN Thread(extractBitField(apicId, 32 - (SmtWidth(h) + CoreWidth(h)), SmtWidth(h) + CoreWidth(h)),
                  extractBitField(apicId, CoreWidth(h), SmtWidth(h)))]
\* Older Intel processors: the number of the CPU stands for the APIC id
P6(h) ==
    [i \in 1 .. Len(h.pool) |->
        LET maxNumCores == 2^CoreWidth(h)
            maxNumLogicalProcs == maxNumCores * 2^SmtWidth(h)
            perCore == getBitFieldWidth(maxNumLogicalProcs \div maxNumCores)
        IN Thread(extractBitField(i - 1, 8 - getBitFieldWidth(maxNumLogicalProcs), getBitFieldWidth(maxNumLogicalProcs)),
                  extractBitField(i - 1, getBitFieldWidth(maxNumCores), perCore))]
\* AMD processors know cores only.  The entry of the pool is found with the
\* APIC id, and its fields are taken from the entry of the number, so the two
\* must be equal for anything to be read that was written.
AMD(h) ==
    [i \in 1 .. Len(h.pool) |->
        LET width == CoreWidth(h)
        IN Thread(extractBitField(i - 1, 8 - width, width), extractBitField(i - 1, width, 0))]

\* One entry for each "processor" line of /proc/cpuinfo, numbered from 0 on; an
\* entry without files in sysfs keeps -1
proc_init_nodeTopology(h) ==
    [i \in 1 .. Cardinality(h.online) |->
        IF i - 1 \in h.online THEN Thread(h.pool[i].package, h.pool[i].core) ELSE Thread(-1, -1)]

-----------------------------------------------------------------------------
(* Threads of the last level cache *)

\* The number of ids the cache could have, limited to the threads of a package
intelCpuidFunc_4(h, pool) ==
    LET tree == topology_setupTree([pool |-> pool])
    IN Min({2^getBitFieldWidth(Sharing(h)), numCoresPerSocket(tree) * numThreadsPerCore(tree)})
cpuid_init_cacheTopology(h, pool) ==
    CASE h.source \in {"leafB", "P6"} -> intelCpuidFunc_4(h, pool)
      [] h.source = "K8" -> 1
      [] h.source = "K10" -> numCoresPerSocket(topology_setupTree([pool |-> pool]))
      [] h.source = "MagnyCours" -> numCoresPerSocket(topology_setupTree([pool |-> pool])) \div 2
      [] h.source = "K15" -> Sharing(h)
hwloc_init_cacheTopology(h) == Sharing(h)
\* shared_cpu_list of CPU 0
proc_init_cacheTopology(h) == Sharing(h)

-----------------------------------------------------------------------------
(* Memory nodes; the kernel has at least one *)

\* the processors of a node that are online
nodeProcessorList(h, node) == {c \in h.online : h.numa => Real(h, c).node = node}
setConfiguredNodes(h) == IF h.numa THEN Max({Real(h, c).node : c \in Configured(h)}) ELSE 0
Nodes(h) == 0 .. setConfiguredNodes(h)
\* A node without processors ends the loop, and those behind it are not written
proc_numa_init(h) ==
    [k \in 1 .. Cardinality(Nodes(h)) |->
        IF \E j \in 1 .. k - 1 : nodeProcessorList(h, j - 1) = {} THEN Garbage
        ELSE Cardinality(nodeProcessorList(h, k - 1))]
\* hwloc sees the same processors
hwloc_numa_init(h) == [k \in 1 .. Cardinality(Nodes(h)) |-> Cardinality(nodeProcessorList(h, k - 1))]

\* In a cpuset the nodes are read from /sys
numa_init(h) ==
    IF Cardinality(h.cpuset) < Cardinality(h.online) THEN proc_numa_init(h) ELSE hwloc_numa_init(h)

-----------------------------------------------------------------------------
Machine(pool, cpuset, active, llc, nodes) ==
    [pool |-> pool, cpuset |-> cpuset, active |-> active, llc |-> llc, nodes |-> nodes]

\* The file was written when all CPUs were online and usable.  inCpuSet is set
\* to 1 for the CPUs in the cpuset and to nothing for the others.
readTopologyFile(h) ==
    LET then == [h EXCEPT !.online = Configured(h), !.cpuset = Configured(h)]
    IN Machine(hwloc_init_nodeTopology(h), h.cpuset \cup h.junk, Cardinality(h.cpuset),
               hwloc_init_cacheTopology(then), numa_init(then))

\* Less CPUs than configured are read from /proc and /sys.  Only the loop for
\* leaf 0xB writes inCpuSet, the loops for older processors do not.
topology_init(h) ==
    LET pool == CASE h.source = "hwloc" -> hwloc_init_nodeTopology(h)
                  [] h.source = "leafB" -> leafB(h)
                  [] h.source = "P6" -> P6(h)
                  [] h.source \in {"K8", "K10", "MagnyCours", "K15"} -> AMD(h)
        llc == IF h.source = "hwloc" THEN hwloc_init_cacheTopology(h) ELSE cpuid_init_cacheTopology(h, pool)
        inCpuSet == IF h.source \in {"hwloc", "leafB"} THEN h.cpuset ELSE h.junk
        found == proc_init_nodeTopology(h)
    IN IF h.source = "file" THEN readTopologyFile(h)
       ELSE IF Cardinality(h.cpuset) < Len(h.pool)
            THEN Machine(found, {c \in h.cpuset : c < Len(found)}, Cardinality(h.cpuset),
                         proc_init_cacheTopology(h), numa_init(h))
       ELSE Machine(pool, inCpuSet, Cardinality(h.cpuset), llc, numa_init(h))

\* The cases in which the threads and caches found are those of the machine:
\* no gap in the numbers of the CPUs that are online, inCpuSet as it should be
\* where it is not written, and, on old processors, CPU numbers that are the
\* APIC ids; on AMD processors before K15, caches of the size that is taken for
\* granted; processors in every memory node.
FoundRight(h) ==
    /\ h.source # "file" => h.online = 0 .. Cardinality(h.online) - 1
    /\ h.source = "file" => h.junk \subseteq h.cpuset
    /\ h.source \in {"P6", "K8", "K10", "MagnyCours", "K15"} /\ h.cpuset = Configured(h) =>
           /\ h.junk = Configured(h)
           /\ \A c \in Configured(h) : ApicId(h, c) = c
    /\ h.source \in {"leafB", "P6"} /\ h.cpuset = Configured(h) => 2^getBitFieldWidth(Sharing(h)) = Sharing(h)
    /\ h.source \in {"K8", "K10", "MagnyCours"} /\ h.cpuset = Configured(h) =>
           \A c \in Configured(h) :
               Cardinality({d \in Configured(h) : Real(h, d).cache = Real(h, c).cache})
                   = cpuid_init_cacheTopology(h, AMD(h))
    /\ \A k \in Nodes(h) : nodeProcessorList(h, k) # {}
=============================================================================
