------------------------------ MODULE MCBench ------------------------------
(* Model of a likwid-bench run for TLC: CPUs 0, 1 of one socket and 2, 3 of *)
(* the other.                                                              *)
EXTENDS Bench, TLC

Workgroup(cpus, size, shift, home) ==
    [cpus |-> cpus, size |-> size, offset |-> shift, home |-> home]

\* One group over both sockets with a vector that does not divide evenly; two
\* groups with different vectors, the first placed in the other's domain; a
\* group that shares CPUs with itself; refused lengths and offsets.
MCArguments ==
    {<<Workgroup(<<0, 1, 2, 3>>, 38, 0, 0)>>,
     <<Workgroup(<<0, 1>>, 18, 2, 2), Workgroup(<<2, 3>>, 8, 0, 2)>>,
     <<Workgroup(<<0, 1, 0, 1>>, 6, 0, 0)>>,
     <<Workgroup(<<0, 1>>, 18, 1, 0), Workgroup(<<2, 3>>, 8, 0, 2)>>,
     <<Workgroup(<<0, 1>>, 18, 0, 0), Workgroup(<<2, 3>>, 0, 0, 2)>>}
=============================================================================
