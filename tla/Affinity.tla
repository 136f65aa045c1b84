------------------------------- MODULE Affinity -------------------------------
(***************************************************************************)
(* The topology tree (tree.c, filled by topology_setupTree) and the        *)
(* affinity domains that affinity_init cuts out of it: the node N, the     *)
(* packages S, the last level caches C and the memory domains M.           *)
(*                                                                         *)
(* m is what topology_init has found (see Topology):                       *)
(*   m.pool     hardware threads in the order of their numbers, each with  *)
(*              its package and core                                       *)
(*   m.cpuset   the CPUs with inCpuSet, which the process may use          *)
(*   m.active   the number of CPUs the process may use                     *)
(*   m.llc      threads per last level cache                               *)
(*   m.nodes    processors of each memory node                             *)
(***************************************************************************)
EXTENDS Integers, Sequences, SequencesExt, FiniteSetsExt

NumHWThreads(m) == Len(m.pool)
CpusOf(m) == 0 .. NumHWThreads(m) - 1
HW(m, c) == m.pool[c + 1]
InOrder(m) == [i \in 1 .. NumHWThreads(m) |-> i - 1]

Garbage == -1       \* what an array holds where nothing was written

-----------------------------------------------------------------------------
(* tree.c: the children of a node are a list linked by rlink *)

\* The first child is never compared with id, unless it is the only one: an id
\* smaller than two or more that are there becomes the second.
tree_insertNode(list, id) ==
    LET larger == {i \in 2 .. Len(list) : id < list[i]}
    IN IF list = <<>> THEN <<id>>
       ELSE IF larger # {} THEN InsertAt(list, Min(larger), id)
       ELSE IF id > Last(list) THEN Append(list, id)
       ELSE <<id, Last(list)>>

tree_nodeExists(list, id) == \E i \in DOMAIN list : list[i] = id
Inserted(list, id) == IF tree_nodeExists(list, id) THEN list ELSE tree_insertNode(list, id)

\* Three levels: packages, cores of a package, threads of a core
topology_setupTree(m) ==
    LET packages == {HW(m, c).package : c \in CpusOf(m)}
        cores == {<<HW(m, c).package, HW(m, c).core>> : c \in CpusOf(m)}
        Add(tree, c) ==
            LET p == HW(m, c).package
                k == HW(m, c).core
            IN [tree EXCEPT !.packages = Inserted(@, p),
                            !.cores[p] = Inserted(@, k),
                            !.threads[<<p, k>>] = Inserted(@, c)]
    IN FoldLeft(Add, [packages |-> <<>>, cores |-> [p \in packages |-> <<>>],
                      threads |-> [k \in cores |-> <<>>]], InOrder(m))

numSockets(tree) == Len(tree.packages)
FirstCores(tree) == tree.cores[tree.packages[1]]
numCoresPerSocket(tree) == Len(FirstCores(tree))
numThreadsPerCore(tree) == Len(tree.threads[<<tree.packages[1], FirstCores(tree)[1]>>])
activeHWThreads(m) == m.active

-----------------------------------------------------------------------------
(* affinity.c *)

\* variant: the cpuset is not looked at
treeFillNextEntriesAny(m, tree, socketId, offset, n) ==
    LET p == tree.packages[socketId + 1]
        cores == SubSeq(tree.cores[p], offset + 1, Len(tree.cores[p]))
    IN FoldLeft(LAMBDA ids, k : IF Len(ids) = n THEN ids ELSE ids \o tree.threads[<<p, k>>], <<>>, cores)
\* The CPUs written to processorIds: whole cores from core number offset of
\* the package on, until exactly n CPUs have been written.
treeFillNextEntries(m, tree, socketId, offset, n) ==
    LET p == tree.packages[socketId + 1]
        cores == SubSeq(tree.cores[p], offset + 1, Len(tree.cores[p]))
        Usable(k) == SelectSeq(tree.threads[<<p, k>>], LAMBDA c : c \in m.cpuset)
    IN FoldLeft(LAMBDA ids, k : IF Len(ids) = n THEN ids ELSE ids \o Usable(k), <<>>, cores)

\* A domain: its list and the number of entries allocated for it
Domain(list, room) == [list |-> list, room |-> room]
Sockets(tree) == 0 .. numSockets(tree) - 1
PerSocket(tree) == numCoresPerSocket(tree) * numThreadsPerCore(tree)
SocketList(m, tree, s) == treeFillNextEntries(m, tree, s, 0, PerSocket(tree))
AllSockets(m, tree) == FlattenSeq([s \in 1 .. numSockets(tree) |-> SocketList(m, tree, s - 1)])

\* With several packages numberOfProcessors stays what it was set to
NodeDomain(m, tree) ==
    LET all == AllSockets(m, tree)
        active == [i \in 1 .. activeHWThreads(m) |-> IF i <= Len(all) THEN all[i] ELSE Garbage]
    IN Domain(IF numSockets(tree) > 1 THEN active
              ELSE treeFillNextEntries(m, tree, 0, 0, activeHWThreads(m)), NumHWThreads(m))
SocketDomain(m, tree, s) == Domain(SocketList(m, tree, s), PerSocket(tree))

CoresPerCache(m, tree) == m.llc \div numThreadsPerCore(tree)
CachesPerSocket(m, tree) == numCoresPerSocket(tree) \div CoresPerCache(m, tree)
\* offset follows the number of CPUs found, which a cpuset makes smaller
CacheOffset(m, tree, s) ==
    LET off[j \in 0 .. CachesPerSocket(m, tree)] ==
            IF j = 0 THEN 0
            ELSE LET found == Len(treeFillNextEntries(m, tree, s, off[j - 1], m.llc))
                 IN off[j - 1] + (IF found < CoresPerCache(m, tree) THEN found ELSE CoresPerCache(m, tree))
    IN off
CacheDomain(m, tree, k) ==
    LET s == k \div CachesPerSocket(m, tree)
        j == k % CachesPerSocket(m, tree)
    IN Domain(treeFillNextEntries(m, tree, s, CacheOffset(m, tree, s)[j], m.llc), m.llc)

\* Memory domains: the nodes are dealt out to the packages, an equal number to
\* each; with a single node, or less nodes than packages, there is only M0,
\* in which every package has its place even if a cpuset leaves CPUs out
NodesPerSocket(m, tree) == (Len(m.nodes) + numSockets(tree) - 1) \div numSockets(tree)
SplitByNode(m, tree) == Len(m.nodes) >= numSockets(tree) /\ Len(m.nodes) > 1
MemoryDomain(m, tree, k) ==
    LET s == k \div NodesPerSocket(m, tree)
        Cores(n) == n \div numThreadsPerCore(tree)
        before == SubSeq(m.nodes, s * NodesPerSocket(m, tree) + 1, k)
        offset == FoldLeft(LAMBDA sum, n : sum + Cores(n), 0, before)
        gap(i) == [j \in 1 .. PerSocket(tree) - Len(SocketList(m, tree, i - 1)) |-> Garbage]
        padded == FlattenSeq([i \in 1 .. numSockets(tree) |-> SocketList(m, tree, i - 1) \o gap(i)])
    IN IF SplitByNode(m, tree)
       THEN Domain(treeFillNextEntries(m, tree, s, offset, m.nodes[k + 1]), m.nodes[k + 1])
       ELSE Domain(SubSeq(padded, 1, Len(AllSockets(m, tree))), PerSocket(tree) * numSockets(tree))

\* The domains in the order of the array, each with its tag
affinity_init(m) ==
    LET tree == topology_setupTree(m)
        numCaches == numSockets(tree) * CachesPerSocket(m, tree)
        numNodes == IF SplitByNode(m, tree) THEN Len(m.nodes) ELSE 1
        Tagged(letter, n, D(_)) == [i \in 1 .. n |-> [tag |-> <<letter, i - 1>>, domain |-> D(i - 1)]]
    IN <<[tag |-> <<"N", 0>>, domain |-> NodeDomain(m, tree)]>>
       \o Tagged("S", numSockets(tree), LAMBDA s : SocketDomain(m, tree, s))
       \o Tagged("C", numCaches, LAMBDA k : CacheDomain(m, tree, k))
       \o Tagged("M", numNodes, LAMBDA k : MemoryDomain(m, tree, k))
=============================================================================
