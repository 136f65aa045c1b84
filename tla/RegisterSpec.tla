---------------------------- MODULE RegisterSpec ----------------------------
(***************************************************************************)
(* What the access layer promises: every register access is an atomic      *)
(* operation on the hardware register, executed at most once between call  *)
(* and return, and the caller gets the result of its own access.           *)
(***************************************************************************)
EXTENDS Naturals

CONSTANTS
    Threads,    \* callers
    Locs,       \* registers
    Vals        \* contents

VARIABLES
    reg,        \* the registers
    status,     \* "idle" | "busy" (access not yet executed) | "done"
    outcome,    \* [ok, data] of an access that is done
    returned    \* [ok, data] of the last call that returned

vars == <<reg, status, outcome, returned>>

Nothing == [ok |-> FALSE, data |-> 0]

Init == /\ reg = [l \in Locs |-> 0]
        /\ status = [t \in Threads |-> "idle"]
        /\ outcome = [t \in Threads |-> Nothing]
        /\ returned = [t \in Threads |-> Nothing]

Invoke(t) == /\ status[t] = "idle"
             /\ status' = [status EXCEPT ![t] = "busy"]
             /\ UNCHANGED <<reg, outcome, returned>>

Done(t, ok, data) == /\ status[t] = "busy"
                     /\ status' = [status EXCEPT ![t] = "done"]
                     /\ outcome' = [outcome EXCEPT ![t] = [ok |-> ok, data |-> data]]
                     /\ UNCHANGED returned

Read(t, l) == Done(t, TRUE, reg[l]) /\ UNCHANGED reg
Write(t, l, v) == Done(t, TRUE, 0) /\ reg' = [reg EXCEPT ![l] = v]
Check(t) == Done(t, TRUE, 0) /\ UNCHANGED reg
Fail(t) == Done(t, FALSE, 0) /\ UNCHANGED reg

\* The caller is told what happened.
Return(t) == /\ status[t] = "done"
             /\ status' = [status EXCEPT ![t] = "idle"]
             /\ returned' = [returned EXCEPT ![t] = outcome[t]]
             /\ outcome' = [outcome EXCEPT ![t] = Nothing]
             /\ UNCHANGED reg

\* The access is refused without touching a register.
Refuse(t) == /\ status[t] = "busy"
             /\ status' = [status EXCEPT ![t] = "idle"]
             /\ returned' = [returned EXCEPT ![t] = Nothing]
             /\ UNCHANGED <<reg, outcome>>

Next == \E t \in Threads :
           \/ Invoke(t) \/ Check(t) \/ Fail(t) \/ Return(t) \/ Refuse(t)
           \/ \E l \in Locs : Read(t, l) \/ \E v \in Vals : Write(t, l, v)

Spec == Init /\ [][Next]_vars
=============================================================================
