------------------------------ MODULE CpuString ------------------------------
(***************************************************************************)
(* CPU selection strings (cpustring.c).  A string is a sequence of parts   *)
(* joined with '@'; a part is modelled as what splitting it yields:        *)
(*   [kind |-> "scatter", letter]                  S:scatter               *)
(*   [kind |-> "E", tag, count, chunk, stride]     E:N:4:2:4, E:N:4        *)
(*   [kind |-> "L", tag, items]                    L:N:0-2,5 and N:0-2,5   *)
(*   [kind |-> "P", tag, items]                    0-2,5                   *)
(* where an item is a pair of bounds (equal for a single number).  doms is *)
(* the result of affinity_init.                                            *)
(***************************************************************************)
EXTENDS Affinity

\* Physical cores first: every numThreadsPerCore-th CPU, then the next ones.
\* A length that is no multiple leaves the end of outcpus unwritten.
cpulist_sort(incpus, threads) ==
    LET cores == Len(incpus) \div threads
    IN [i \in 1 .. cores * threads |->
           incpus[((i - 1) % cores) * threads + ((i - 1) \div cores) + 1]]

HasTag(doms, tag) == \E i \in DOMAIN doms : doms[i].tag = tag
ListOf(doms, tag) == LET i == CHOOSE j \in DOMAIN doms : doms[j].tag = tag IN doms[i].domain.list

\* the numbers an item stands for, upwards or downwards
Numbers(item) ==
    IF item[1] <= item[2] THEN [i \in 1 .. item[2] - item[1] + 1 |-> item[1] + i - 1]
    ELSE [i \in 1 .. item[1] - item[2] + 1 |-> item[1] - i + 1]
AllNumbers(items) == FlattenSeq([i \in DOMAIN items |-> Numbers(items[i])])
UpTo(list, length) == SubSeq(list, 1, IF Len(list) < length THEN Len(list) ELSE length)

\* Entry off of every suitable domain in turn; sortedList is as long as the
\* first of them and keeps the entries of the domain before, where a domain is shorter
cpustr_to_cpulist_scatter(doms, threads, letter, length) ==
    LET suitable == SelectSeq(doms, LAMBDA d : d.tag[1] = letter)
        Sorted(i) == cpulist_sort(suitable[i].domain.list, threads)
        Entry(off, i) ==
            LET filled == {j \in 1 .. Len(suitable) : off <= Len(Sorted(j))}
                last == IF \E j \in filled : j <= i THEN Max({j \in filled : j <= i})
                        ELSE IF filled # {} /\ off > 1 THEN Max(filled) ELSE 0
            IN IF last = 0 THEN Garbage ELSE Sorted(last)[off]
        rounds == Len(suitable[1].domain.list)
        n == Len(suitable)
    IN UpTo([k \in 1 .. rounds * n |-> Entry(((k - 1) \div n) + 1, ((k - 1) % n) + 1)], length)

\* chunk CPUs from offset on, then stride further, back to the start at the
\* end of the domain; count is compared after a whole chunk only, and limits
\* the number of chunks.
cpustr_to_cpulist_expression(doms, part, length) ==
    LET list == ListOf(doms, part.tag)
        Chunk(offset) == SubSeq(list, offset + 1,
                                IF offset + part.chunk < Len(list) THEN offset + part.chunk ELSE Len(list))
        after[i \in 0 .. part.count] ==
            IF i = 0 THEN [out |-> <<>>, offset |-> 0]
            ELSE LET s == after[i - 1]
                 IN IF Len(s.out) >= part.count THEN s
                    ELSE [out |-> s.out \o Chunk(s.offset),
                          offset |-> IF s.offset + part.stride >= Len(list) THEN 0
                                     ELSE s.offset + part.stride]
        out == after[part.count].out
    IN IF ~HasTag(doms, part.tag) \/ Len(out) < part.count THEN <<>> ELSE UpTo(out, length)

\* Any index is used, also one beyond the list
cpustr_to_cpulist_logical(doms, threads, part, length) ==
    LET inlist == cpulist_sort(ListOf(doms, part.tag), threads)
        At(j) == IF j < Len(inlist) THEN inlist[j + 1] ELSE Garbage
        numbers == AllNumbers(part.items)
    IN IF ~HasTag(doms, part.tag) THEN <<>>
       ELSE UpTo([i \in DOMAIN numbers |-> At(numbers[i])], length)

cpu_in_domain(doms, tag, cpu) == \E i \in DOMAIN ListOf(doms, tag) : ListOf(doms, tag)[i] = cpu
cpustr_to_cpulist_physical(doms, part, length) ==
    IF ~HasTag(doms, part.tag) THEN <<>>
    ELSE UpTo(SelectSeq(AllNumbers(part.items), LAMBDA c : cpu_in_domain(doms, part.tag, c)), length)

\* In a cpuset all numbers are logical.  The parts are joined without regard
\* to the length of cpulist.
cpustr_to_cpulist(m, doms, parts, length) ==
    LET threads == numThreadsPerCore(topology_setupTree(m))
        Part(p) ==
            IF p.kind = "scatter" THEN cpustr_to_cpulist_scatter(doms, threads, p.letter, length)
            ELSE IF p.kind = "E" THEN cpustr_to_cpulist_expression(doms, p, length)
            ELSE IF p.kind = "L" \/ activeHWThreads(m) < NumHWThreads(m)
                 THEN cpustr_to_cpulist_logical(doms, threads, p, length)
            ELSE cpustr_to_cpulist_physical(doms, p, length)
    IN FlattenSeq([i \in DOMAIN parts |-> Part(parts[i])])
=============================================================================
