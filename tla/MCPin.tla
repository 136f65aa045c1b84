-------------------------------- MODULE MCPin --------------------------------
(* Machines, CPU strings and programs for TLC. *)
EXTENDS Mpirun

\* a hardware thread, and a machine
T(package, core, cache, node) == [package |-> package, core |-> core, cache |-> cache, node |-> node]
H(pool, online, cpuset, numa, source, junk) ==
    [pool |-> pool, online |-> online, cpuset |-> cpuset, numa |-> numa, source |-> source, junk |-> junk]
All(pool) == 0 .. Len(pool) - 1
\* the default build
M(pool, cpuset, numa) == H(pool, All(pool), cpuset, numa, "hwloc", {})

\* two packages of two cores with two threads; first threads are numbered first
Pool2x2x2 == <<T(0, 0, 0, 0), T(0, 2, 0, 0), T(1, 0, 1, 1), T(1, 2, 1, 1),
               T(0, 0, 0, 0), T(0, 2, 0, 0), T(1, 0, 1, 1), T(1, 2, 1, 1)>>
\* one package of four cores with two caches
Pool4 == <<T(0, 0, 0, 0), T(0, 1, 0, 0), T(0, 2, 1, 0), T(0, 3, 1, 0)>>
\* packages alternate, and the second core is reported before the first
PoolAlternate == <<T(0, 1, 0, 0), T(1, 1, 1, 1), T(0, 0, 0, 0), T(1, 0, 1, 1)>>
\* two cores with two threads side by side, each with a cache
PoolAdjacent == <<T(0, 0, 0, 0), T(0, 0, 0, 0), T(0, 1, 1, 0), T(0, 1, 1, 0)>>
\* the caches of PoolCaches and the packages of PoolPackages are mixed up in the
\* tree: 2 and 3 are reported before 0 and 1
PoolCaches == <<T(0, 2, 1, 0), T(0, 3, 1, 0), T(0, 0, 0, 0), T(0, 1, 0, 0)>>
PoolPackages == <<T(2, 0, 2, 2), T(3, 0, 3, 3), T(0, 0, 0, 0), T(1, 0, 1, 1)>>
\* two packages of two cores
PoolAmd == <<T(0, 0, 0, 0), T(0, 1, 0, 0), T(1, 0, 1, 1), T(1, 1, 1, 1)>>

\* the same with a cache for every core
PoolK8 == <<T(0, 0, 0, 0), T(0, 1, 1, 0), T(1, 0, 2, 1), T(1, 1, 3, 1)>>

HwlocMachines ==
    {M(Pool2x2x2, s, n) : s \in {0 .. 7, {0, 4}, {0, 1, 2, 4, 5, 6}, {0, 1, 2, 3}, {2, 3, 6, 7}}, n \in BOOLEAN}
    \cup {M(Pool4, s, FALSE) : s \in {0 .. 3, {0, 2, 3}, {1}}}
    \cup {M(PoolAlternate, 0 .. 3, TRUE)}
    \cup {M(PoolCaches, s, FALSE) : s \in {0 .. 3, 1 .. 3}} \cup {M(PoolPackages, 0 .. 3, TRUE)}
    \cup {M(PoolAdjacent, s, FALSE) : s \in {0 .. 3, {0, 1}, {1, 2, 3}}}
\* builds without hwloc, on processors with and without leaf 0xB
CpuidMachines ==
    {H(PoolAdjacent, 0 .. 3, 0 .. 3, FALSE, src, junk) : src \in {"leafB", "P6"}, junk \in {{}, 0 .. 3}}
    \cup {H(PoolAmd, 0 .. 3, 0 .. 3, TRUE, src, junk) : src \in {"K10", "K15"}, junk \in {{}, 0 .. 3}}
    \cup {H(PoolK8, 0 .. 3, 0 .. 3, TRUE, "K8", 0 .. 3), H(Pool4, 0 .. 3, 0 .. 3, FALSE, "MagnyCours", 0 .. 3)}
    \cup {H(Pool2x2x2, 0 .. 7, 0 .. 7, TRUE, src, 0 .. 7) : src \in {"leafB", "P6"}}
\* CPUs that are switched off, at the end of the numbers and in the middle
OfflineMachines ==
    {H(Pool2x2x2, s, s, n, "hwloc", {}) : s \in {0 .. 6, 0 .. 3, {0, 2, 3, 4, 6, 7}}, n \in BOOLEAN}
    \cup {H(PoolAmd, {0, 1}, s, TRUE, "hwloc", {}) : s \in {{0, 1}, {0}}}
\* a topology file, in and out of a cpuset
FileMachines ==
    {H(PoolAdjacent, 0 .. 3, s, FALSE, "file", junk) : s \in {0 .. 3, {0, 1}}, junk \in {{}, 0 .. 3}}
AllMachines == HwlocMachines \cup CpuidMachines \cup OfflineMachines \cup FileMachines

N == <<"N", 0>>
Scatter(letter) == [kind |-> "scatter", letter |-> letter, tag |-> N]
E(tag, count, chunk, stride) == [kind |-> "E", tag |-> tag, count |-> count, chunk |-> chunk, stride |-> stride]
L(tag, items) == [kind |-> "L", tag |-> tag, items |-> items]
P(items) == [kind |-> "P", tag |-> N, items |-> items]

AllStrings ==
    {<<Scatter(l)>> : l \in {"N", "S", "C", "M"}}
    \cup {<<E(tag, n, c, s)>> : tag \in {N, <<"S", 1>>}, n \in 1 .. 4, c \in {1, 2}, s \in 1 .. 3}
    \cup {<<L(tag, i)>> : tag \in {N, <<"S", 1>>, <<"C", 1>>, <<"M", 0>>, <<"M", 1>>},
                          i \in {<<<<0, 1>>>>, <<<<3, 1>>>>, <<<<0, 0>>>>, <<<<2, 2>>, <<0, 1>>>>}}
    \cup {<<P(i)>> : i \in {<<<<0, 0>>>>, <<<<1, 3>>>>, <<<<5, 2>>>>, <<<<0, 0>>, <<3, 3>>>>}}
    \cup {<<L(<<"S", 0>>, <<<<0, 1>>>>), L(<<"S", 1>>, <<<<0, 0>>>>)>>}

\* the hypothesis of the proofs about likwid-pin, on these machines and strings
ASSUME ListsFitAssumption == ListsFit

\* jobs of likwid-mpirun
Line(name, slots, max) == [name |-> name, slots |-> slots, max |-> max]
Hostfiles ==
    {<<Line("a", 0, 0), Line("b", 0, 0)>>, <<Line("a", 2, 0), Line("b", 2, 0), Line("c", 2, 2)>>,
     <<Line("a", 1, 4), Line("b", 4, 4)>>, <<Line("a", 8, 8), Line("b", 8, 8)>>, <<Line("a", 2, 2), Line("a", 2, 2)>>,
     <<Line("a", 0, 0), Line("a", 0, 0), Line("b", 0, 0), Line("b", 0, 0)>>}
PinLists ==
    {<<<<L(<<"S", 0>>, <<<<0, 1>>>>)>>, <<L(<<"S", 0>>, <<<<1, 2>>>>)>>>>,
     <<<<L(<<"S", 0>>, <<<<0, 1>>>>)>>, <<L(<<"S", 1>>, <<<<0, 1>>>>)>>>>,
     <<<<L(N, <<<<0, 0>>>>)>>, <<L(N, <<<<1, 1>>>>)>>, <<L(N, <<<<2, 2>>>>)>>>>}
Job(np, pin, perdomain, perf, mpitype, omptype, hostfile, batch) ==
    [machine |-> M(Pool2x2x2, 0 .. 7, TRUE), np |-> np, pin |-> pin, perdomain |-> perdomain, perf |-> perf,
     mpitype |-> mpitype, omptype |-> omptype, hostfile |-> hostfile, batch |-> batch]
Mpis == {"openmpi", "intelmpi", "mvapich2"}
AllJobs ==
    {Job(np, <<>>, <<>>, perf, vendor, "gnu", hosts, batch) :
        np \in 1 .. 6, perf \in BOOLEAN, vendor \in {"openmpi", "intelmpi"}, hosts \in Hostfiles, batch \in BOOLEAN}
    \cup {Job(np, pin, <<>>, perf, vendor, "gnu", hosts, FALSE) :
        np \in {0, 2, 4}, pin \in PinLists, perf \in BOOLEAN, vendor \in Mpis, hosts \in Hostfiles}
    \cup {Job(np, <<>>, perdomain, perf, vendor, "gnu", hosts, FALSE) :
        np \in {0, 2, 3, 6}, perdomain \in {<<"N", 2>>, <<"S", 1>>, <<"S", 2>>}, perf \in BOOLEAN,
        vendor \in {"openmpi", "intelmpi"}, hosts \in Hostfiles}
    \cup {Job(2, <<>>, <<>>, FALSE, vendor, omp, <<Line("a", 0, 0)>> \o rest, FALSE) :
        vendor \in Mpis, omp \in {"intel", "none"}, rest \in {<<>>, <<Line("b", 0, 0)>>}}
    \cup {[Job(np, <<>>, perdomain, perf, "openmpi", "gnu", hosts, FALSE) EXCEPT !.machine = m] :
        m \in {M(Pool4, {0, 2, 3}, FALSE), M(PoolAdjacent, 0 .. 3, FALSE)},
        np \in {0, 4}, perdomain \in {<<"N", 2>>, <<"C", 3>>}, perf \in BOOLEAN, hosts \in Hostfiles}
=============================================================================
