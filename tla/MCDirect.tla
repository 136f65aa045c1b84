------------------------------ MODULE MCDirect ------------------------------
EXTENDS AccessDirect

\* a CPU of each of three packages
ThreeCpus == [c \in 0 .. 2 |-> c]
\* device 3 is beyond the rows of the table
AllButTwo == {<<0, 1>>, <<0, 2>>, <<1, 1>>, <<1, 2>>, <<1, 3>>, <<2, 1>>, <<2, 3>>}

\* two CPUs of one package
TwoCpus == [c \in 0 .. 1 |-> 1]
OneDevice == {<<1, 1>>}
=============================================================================
