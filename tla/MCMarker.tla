------------------------------ MODULE MCMarker ------------------------------
(* Models of the Marker API for TLC. *)
EXTENDS Marker, TLC

CONSTANTS t1, t2, t3

SameNode == [t \in Threads |-> 0]
LoadThenStore == (0 :> ("p0" :> "load")) @@ (1 :> ("p0" :> "store"))
LoadStoreSets == {("p0" :> "load"), ("p0" :> "store")}

\* one thread, as many threads as measured CPUs, one more
AnyTeam == SUBSET {t1, t2, t3} \ {{}}
\* likwid-perfctr -C as it sets the variables itself, or with an OpenMP program
\* that announces one thread more than there are CPUs, and likwid-perfctr -c, where
\* two threads may share a CPU as well
Env(pin, omp, cilk) == [LIKWID_PIN |-> pin, OMP_NUM_THREADS |-> omp, CILK_NWORKERS |-> cilk]
EnvironmentsByTeam == <<{Env(TRUE, 2, 2)}, {Env(TRUE, 3, 2), Env(FALSE, 3, 0)},
                        {Env(TRUE, 2, 2), Env(TRUE, 3, 2)}>>

\* one thread nests regions, more threads use one
RegionsByTeam == <<{"a", "b"}, {"a"}, {"a"}>>
CallsByTeam == <<5, 3, 2>>
Symmetry == Permutations({t1, t2, t3})

Pairs == {{t1, t2}}
RegionsApart == <<{}, {"a", "b"}, {}>>
=============================================================================
