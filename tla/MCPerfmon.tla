----------------------------- MODULE MCPerfmon -----------------------------
(* Models of the perfmon module for TLC. *)
EXTENDS Perfmon, TLC

SameNode == [t \in Threads |-> 0]

\* two groups that differ in their programmable counter, one unusable string
TwoGroups == {("f0" :> "instr") @@ ("p0" :> "load"), ("f0" :> "instr") @@ ("p0" :> "store"), <<>>}
\* with an energy counter
EnergyGroups == {("p0" :> "load") @@ ("e0" :> "joule")}
\* groups that use different fixed counters
FixedGroups == {("f0" :> "instr"), ("f0" :> "instr") @@ ("f1" :> "cycles")}
OneGroup == {("p0" :> "load")}
=============================================================================
