------------------------------- MODULE Mpirun -------------------------------
(***************************************************************************)
(* likwid-mpirun (likwid-mpirun.lua): reads the hostfile, decides how many *)
(* processes a node gets and on which CPUs, writes a hostfile and a script *)
(* that starts every process under likwid-pin, and calls mpiexec.  One of  *)
(* the processes is followed into likwid-pin (Pin).                        *)
(*                                                                         *)
(* A job is the command line and its surroundings:                         *)
(*   job.machine    the node; all nodes are alike, as the script assumes   *)
(*   job.np         option -np, 0 if not given                             *)
(*   job.pin        option -pin, a sequence of CPU strings                 *)
(*   job.perdomain  option -nperdomain as <<letter, count>>, or <<>>       *)
(*   job.perf       whether events are given with -g                       *)
(*   job.mpitype    "openmpi", "intelmpi" or "mvapich2"                    *)
(*   job.omptype    "intel", "gnu" or "none"                               *)
(*   job.hostfile   lines [name, slots, max]; 0 where a number is missing  *)
(*   job.batch      whether the hostfile comes from the batch system       *)
(***************************************************************************)
EXTENDS Pin

CONSTANT Jobs

VARIABLES
    job,
    mpi         \* the variables of the script, and its stage

NoJob == [np |-> 0]
Idle == [stage |-> "none"]

MpiInit ==
    /\ \/ job = NoJob /\ mpi = Idle
       \/ /\ job \in Jobs /\ mpi = [stage |-> "read"]
          /\ machine = job.machine /\ cpustr = CHOOSE s \in CpuStrings : TRUE
          /\ envSkip = {}
    /\ Init

Host(name, slots, max) == [name |-> name, slots |-> slots, max |-> max]
Nil == Host("", 0, 0)       \* an entry that was set to nil
NoNumber == -2              \* the text nil, where a CPU number is expected
NilExpr == <<NoNumber>>

-----------------------------------------------------------------------------
(* Hostfiles *)

\* found is never set: a name that comes again is added to its first entry and
\* gets an entry of its own
readHostfileOpenMPI(lines) ==
    LET Sum(a, b) == IF a = 0 \/ b = 0 THEN a ELSE a + b
        Add(list, line) ==
            LET new == IF line.slots = 0 THEN Host(line.name, 1, 1) ELSE line
                same == {i \in DOMAIN list : list[i].name = line.name}
                merged == IF same = {} THEN list
                          ELSE [list EXCEPT ![Min(same)].slots = Sum(@, new.slots),
                                            ![Min(same)].max = Sum(@, new.max)]
            IN Append(merged, new)
        list == FoldLeft(Add, <<>>, lines)
        Default(n) == IF n = 0 THEN NumHWThreads(topo) ELSE n
    IN [i \in DOMAIN list |-> Host(list[i].name, Default(list[i].slots), Default(list[i].max))]

\* Slots that are given stay a string, with which assignHosts cannot compare
readHostfileIntelMPI(lines) == [i \in DOMAIN lines |-> Host(lines[i].name, NumHWThreads(topo), NumHWThreads(topo))]
readHostfileMvapich2(lines) == [i \in DOMAIN lines |-> Host(lines[i].name, 1, 1)]
SlotsAreText(lines) == \E i \in DOMAIN lines : lines[i].slots # 0

readHostfilePBS(lines) ==
    LET Times(name) == Cardinality({i \in DOMAIN lines : lines[i].name = name})
        First(i) == \A j \in 1 .. i - 1 : lines[j].name # lines[i].name
        firsts == SelectSeq([i \in DOMAIN lines |-> i], First)
    IN [k \in DOMAIN firsts |-> LET n == lines[firsts[k]].name IN Host(n, Times(n), Times(n))]

getNumberOfNodes(list) == Cardinality({list[i].name : i \in DOMAIN list})

\* The threads of the MPI and OpenMP libraries that the processes leave
\* unpinned: option -s as the script chooses it; without the option the
\* wrapper skips the first thread of an Intel program
skipStr(mpitype, omptype, nodes) ==
    CASE omptype = "none" -> {}
      [] mpitype = "intelmpi" /\ omptype = "intel" -> IF nodes > 1 THEN {0, 1} ELSE {0}
      [] mpitype = "intelmpi" /\ omptype = "gnu" -> IF nodes > 1 THEN {0} ELSE {}
      [] mpitype = "mvapich2" -> IF omptype = "intel" THEN (IF nodes > 1 THEN {0, 1, 2} ELSE {0}) ELSE {}
      [] mpitype = "openmpi" -> IF nodes > 1 THEN {0, 1, 2} ELSE IF omptype = "intel" THEN {0} ELSE {}

ReadHostfile ==
    /\ stage = "domains" /\ mpi.stage = "read"
    /\ LET lines == job.hostfile
           text == ~job.batch /\ job.mpitype # "openmpi" /\ SlotsAreText(lines)
           hosts == IF job.batch THEN readHostfilePBS(lines)
                    ELSE CASE job.mpitype = "openmpi" -> readHostfileOpenMPI(lines)
                           [] job.mpitype = "intelmpi" -> readHostfileIntelMPI(lines)
                           [] job.mpitype = "mvapich2" -> readHostfileMvapich2(lines)
           room == FoldLeft(LAMBDA sum, host : sum + host.max, 0, hosts)
       IN /\ mpi' = [stage |-> IF text \/ (job.perf /\ job.np > room) THEN "failed" ELSE "choose",
                     given |-> hosts, hosts |-> hosts, nodes |-> getNumberOfNodes(hosts)]
          /\ envSkip' = skipStr(job.mpitype, job.omptype, getNumberOfNodes(hosts))
    /\ UNCHANGED <<job, toolVars, envPin, creators, wrapper, pc, made, mask, fate, placements, failures>>

-----------------------------------------------------------------------------
(* CPUs and processes of a node *)

calculatePinExpr == [i \in DOMAIN job.pin |-> cpustr_to_cpulist(topo, doms, job.pin[i], MAX_NUM_THREADS)]

\* The first count CPUs of each domain, physical cores first; where the domain
\* ends, the expression is the string "nil"
calculateCpuExprs(letter, count) ==
    LET threads == numThreadsPerCore(topology_setupTree(topo))
        domainlist == SelectSeq(doms, LAMBDA d : d.tag[1] = letter)
        Nths(list, off) == SelectSeq([i \in 1 .. (Len(list) \div threads) + 1 |-> off + (i - 1) * threads],
                                     LAMBDA k : k <= Len(list))
        sortedlist(list) == FlattenSeq([off \in 1 .. threads |->
                               [i \in DOMAIN Nths(list, off) |-> list[Nths(list, off)[i]]]])
        First(list) == [j \in 1 .. count |-> IF j <= Len(list) THEN <<list[j]>> ELSE NilExpr]
    IN FlattenSeq([i \in DOMAIN domainlist |-> First(sortedlist(domainlist[i].domain.list))])

\* np, ppn and the CPU expressions, in the three forms of the command line
Choose(np, ppn, exprs) ==
    mpi' = [mpi EXCEPT !.stage = "assign"] @@
           [np |-> np, ppn |-> ppn, exprs |-> exprs, wanted |-> ppn,
            per |-> ppn, tmp |-> np, at |-> 1, newhosts |-> <<>>]
Refuse == mpi' = [mpi EXCEPT !.stage = "failed"]

ChooseByPin ==
    /\ job.pin # <<>>
    /\ LET exprs == calculatePinExpr
           keep == {n \in 1 .. Len(exprs) : n = 1 \/ job.np >= n * mpi.nodes}
       IN IF job.np = 0 THEN Choose(mpi.nodes * Len(exprs), Len(exprs), exprs)
          ELSE Choose(job.np, Max(keep), SubSeq(exprs, 1, Max(keep)))

ChooseByDomain ==
    /\ job.pin = <<>> /\ job.perdomain # <<>>
    /\ LET exprs == calculateCpuExprs(job.perdomain[1], job.perdomain[2])
           ppn == Len(exprs)
           np == IF job.np = 0 THEN mpi.nodes * ppn ELSE job.np
       IN IF np < ppn THEN Choose(np, np, SubSeq(exprs, 1, np))
          ELSE IF np > mpi.nodes * ppn /\ job.perf THEN Refuse
          ELSE Choose(np, ppn, exprs)

\* The expressions are repeated in whole rounds until there are np.  (A
\* quotient np/givenNrNodes that is no integer is left out.)
ChooseByNumber ==
    /\ job.pin = <<>> /\ job.perdomain = <<>> /\ job.np > 0
    /\ LET maxppn == Max({mpi.hosts[i].slots : i \in DOMAIN mpi.hosts})
           ppn == IF job.np <= maxppn THEN job.np ELSE 1
           even == job.np \div mpi.nodes
           Rounds(p) == LET e == calculateCpuExprs("N", p)
                        IN FlattenSeq([k \in 1 .. ((job.np + p - 1) \div p) |-> e])
       IN IF ppn * mpi.nodes >= job.np THEN Choose(job.np, ppn, Rounds(ppn))
          ELSE IF job.perf THEN Refuse
          ELSE job.np % mpi.nodes = 0 /\ Choose(job.np, even, Rounds(even))

ChooseProcesses ==
    /\ mpi.stage = "choose"
    /\ ChooseByPin \/ ChooseByDomain \/ ChooseByNumber
    /\ UNCHANGED <<job, toolVars, pinVars>>

-----------------------------------------------------------------------------
(* assignHosts: one pass over the hosts after the other *)

\* What host gets of per processes: the entry of the new list and whether the
\* host stays in the old one
Share(host, per) ==
    IF host.max < per THEN [new |-> Host(host.name, host.max, host.max), stays |-> FALSE]
    ELSE IF host.slots >= per THEN [new |-> Host(host.name, per, host.slots), stays |-> FALSE]
    ELSE [new |-> Host(host.name, per, host.max), stays |-> TRUE]

\* The pass ends when no process is left, or one
AssignHost ==
    /\ mpi.stage = "assign" /\ mpi.at <= Len(mpi.hosts)
    /\ LET host == mpi.hosts[mpi.at]
           share == Share(host, mpi.per)
           rest == mpi.tmp - share.new.slots
       IN IF host = Nil THEN mpi' = [mpi EXCEPT !.at = @ + 1]
          ELSE mpi' = [mpi EXCEPT
                   !.newhosts = Append(@, share.new),
                   !.hosts[mpi.at] = IF share.stays THEN host ELSE Nil,
                   !.tmp = rest, !.at = @ + 1,
                   !.stage = IF rest <= 1 THEN "merge" ELSE @,
                   !.per = IF rest > 1 /\ rest < @ THEN rest ELSE @]
    /\ UNCHANGED <<job, toolVars, pinVars>>

\* The length of a table with holes may be counted from any side of a hole
NextPass ==
    /\ mpi.stage = "assign" /\ mpi.at > Len(mpi.hosts)
    /\ \/ /\ \E i \in DOMAIN mpi.hosts : mpi.hosts[i] # Nil
          /\ mpi' = [mpi EXCEPT !.at = 1]
       \/ /\ mpi.hosts[1] = Nil
          /\ mpi' = [mpi EXCEPT !.stage = "merge"]
    /\ UNCHANGED <<job, toolVars, pinVars>>

\* Entries of one host are added up; the entry that moves into the place of one
\* that is removed is not looked at
Merged(list, per) ==
    LET pairs == FlattenSeq([i \in DOMAIN list |-> [j \in 1 .. Len(list) - i |-> <<i, i + j>>]])
        Join(s, p) ==
            IF p[2] > Len(s.list) \/ s.list[p[1]].name # s.list[p[2]].name THEN s
            ELSE LET a == s.list[p[1]]
                     b == s.list[p[2]]
                     sum == Host(a.name, a.slots + b.slots, a.max + b.max)
                 IN [list |-> RemoveAt([s.list EXCEPT ![p[1]] = sum], p[2]),
                     per |-> IF sum.slots > s.per THEN sum.slots ELSE s.per]
    IN FoldLeft(Join, [list |-> list, per |-> per], pairs)

\* After assignHosts; the form with -pin ignores the ppn it returns
MergeHosts ==
    /\ mpi.stage = "merge"
    /\ LET merged == Merged(mpi.newhosts, mpi.per)
           ppn == IF job.pin # <<>> THEN mpi.ppn ELSE merged.per
           byNumber == job.pin = <<>> /\ job.perdomain = <<>>
           slots == FoldLeft(LAMBDA sum, host : sum + host.slots, 0, merged.list)
           np == IF byNumber /\ mpi.np < ppn * Len(merged.list) THEN slots ELSE mpi.np
           refused == job.pin # <<>> /\ job.perf /\ mpi.np > Len(mpi.exprs) * Len(merged.list)
       IN mpi' = [mpi EXCEPT !.newhosts = merged.list, !.ppn = ppn, !.np = np,
                             !.stage = IF refused THEN "failed" ELSE "ready"]
    /\ UNCHANGED <<job, toolVars, pinVars>>

-----------------------------------------------------------------------------
(* The script and its processes *)

\* the places mpiexec has for processes: ppn on every host of the new list
Places == 0 .. mpi.ppn * getNumberOfNodes(mpi.newhosts) - 1
Ranks == {r \in 0 .. mpi.np - 1 : r \in Places}
NodeOf(rank) == rank \div mpi.ppn

\* variant: the rank on the node is the rank of the job
LocalRankGlobal(rank) == rank
\* Open MPI tells the rank on the node.  For the others the script computes it;
\* the processes of the last node, if they are less than ppn, start with 1.
LocalRank(rank) ==
    LET full == mpi.np - (mpi.np % mpi.ppn)
    IN IF job.mpitype = "openmpi" \/ rank < full THEN rank % mpi.ppn ELSE rank - (full - 1)

\* The command of a rank, if the script has one for it
Commanded(rank) == LocalRank(rank) < Len(mpi.exprs)
Command(rank) == IF Commanded(rank) THEN mpi.exprs[LocalRank(rank) + 1] ELSE <<>>

\* The event sets, one for each expression with a CPU of the node: TRUE where
\* the uncore is measured too, that is for the first expression on the socket
\* of its first CPU
setPerfStrings ==
    LET sockets == SelectSeq(doms, LAMBDA d : d.tag[1] = "S")
        On(cpus) == {s \in DOMAIN sockets : cpus # <<>> /\ Head(cpus) \in Range(sockets[s].domain.list)}
        found == SelectSeq(mpi.exprs, LAMBDA cpus : On(cpus) # {})
    IN [i \in DOMAIN found |-> \A j \in 1 .. i - 1 : On(found[j]) # On(found[i])]

\* atoi yields 0 for a text that is no number
Atoi(number) == IF number = NoNumber THEN 0 ELSE number
\* One process of the job starts likwid-pin with the string behind -c.  (If that
\* is empty, likwid-pin finds no program behind it and ends.)
LaunchWith(kind) ==
    /\ mpi.stage = "ready" /\ ~job.perf
    /\ \E rank \in {r \in Ranks : Commanded(r)} :
          /\ mpi' = [mpi EXCEPT !.stage = "launched"] @@ [rank |-> rank]
          /\ LET cpus == Command(rank)
             IN cpustr' = <<[kind |-> kind, tag |-> <<"N", 0>>,
                             items |-> [i \in DOMAIN cpus |-> <<Atoi(cpus[i]), Atoi(cpus[i])>>]]>>
    /\ UNCHANGED <<job, machine, topo, doms, cpu_list, stage, pinVars>>
\* variant: the CPUs are passed as logical numbers of the node
LaunchLogical == LaunchWith("L")
\* the physical numbers of the CPUs
Launch == LaunchWith("P")

PinTool ==
    /\ mpi.stage \in {"none", "launched"} \/ stage = "start"
    /\ Next /\ UNCHANGED <<job, mpi>>

MpiNext ==
    \/ ReadHostfile \/ ChooseProcesses \/ AssignHost \/ NextPass \/ MergeHosts \/ Launch
    \/ PinTool
MpiSpec == MpiInit /\ [][MpiNext]_<<vars, job, mpi>>

-----------------------------------------------------------------------------
(* What the job gets *)

Processes == 0 .. mpi.np - 1
OneNode(r, q) == r # q /\ NodeOf(r) = NodeOf(q)
Packages(rank) == {Package(c) : c \in Range(Command(rank))}
MeasuresUncore(rank) == LocalRank(rank) < Len(setPerfStrings) /\ setPerfStrings[LocalRank(rank) + 1]

\* The jobs that assignHosts can place: the hosts have different names and room
\* for all processes without a second pass, no domain is smaller than the
\* processes it is to have, the expressions of -pin do not overlap, every host
\* gets as many processes, and not one each.
Placeable ==
    /\ \A i, j \in DOMAIN mpi.given : i # j => mpi.given[i].name # mpi.given[j].name
    /\ \A i \in DOMAIN mpi.given : mpi.given[i].max >= mpi.wanted
    /\ mpi.np <= mpi.nodes * mpi.wanted
    /\ \A i \in DOMAIN mpi.exprs : mpi.exprs[i] \notin {<<>>, NilExpr}
    /\ job.pin # <<>> => \A i, j \in DOMAIN mpi.exprs : i # j => Range(mpi.exprs[i]) \cap Range(mpi.exprs[j]) = {}
    /\ mpi.np % mpi.wanted = 0
    /\ mpi.wanted = 1 => mpi.np = 1

\* Every process of such a job has a place, a command, and CPUs that no other
\* process of its node has; and where the CPUs of every process are in one
\* package, the uncore of each package in use is measured by exactly one
\* process (assignHosts, calculateCpuExprs, setPerfStrings,
\* writeWrapperScript).
JobFits ==
    mpi.stage = "ready" /\ Full /\ Placeable =>
        /\ mpi.np <= Cardinality(Places)
        /\ \A r \in Processes : Command(r) # <<>>
        /\ \A r, q \in Processes : OneNode(r, q) => Range(Command(r)) \cap Range(Command(q)) = {}
        /\ job.perf /\ (\A r \in Processes : Cardinality(Packages(r)) = 1) =>
               \A r \in Processes :
                   Cardinality({q \in Processes : NodeOf(q) = NodeOf(r) /\ Packages(q) = Packages(r)
                                                  /\ MeasuresUncore(q)}) = 1

\* likwid-pin understands the expression as the script meant it, if the node
\* has no cpuset and the domain had a CPU left for the process: it accepts the
\* command, and the list it pins the process to, in the order of
\* PinnedAsListed, is that of the command (calculateCpuExprs,
\* writeWrapperScript, cpustr_to_cpulist).
RankOnItsCpus ==
    mpi.stage = "launched" /\ stage \in {"parsed", "running", "refused"} /\ Full
        /\ Command(mpi.rank) \notin {<<>>, NilExpr} =>
        stage # "refused" /\ cpu_list = Command(mpi.rank)

\* A process for which its domain has no CPU left is not started: likwid-mpirun
\* passes "nil", which likwid-pin reads as CPU 0, so that the process shares it
\* with the one that was given CPU 0 (likwid-mpirun.lua:786, cpustring.c:409).
\* TLC refutes this in MCPin.cfg.
NilIsRefused ==
    mpi.stage = "launched" /\ Command(mpi.rank) = NilExpr => stage # "running"
=============================================================================
