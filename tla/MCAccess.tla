------------------------------ MODULE MCAccess ------------------------------
(* Models of the access layer for TLC. *)
EXTENDS AccessClient, TLC

OneNode == [c \in Cpus |-> 0]

Req(op, cpu, dev, reg, val) == [op |-> op, cpu |-> cpu, dev |-> dev, reg |-> reg, val |-> val]

\* both CPUs, both kinds of device, a value wider than a PCI register, refusals
Traffic == {Req("read", 0, "msr", 7, 0), Req("write", 0, "msr", 7, 3),
            Req("read", 1, "pci", 7, 0), Req("write", 0, "pci", 7, 3),
            Req("write", 1, "msr", 7, 1), Req("read", 2, "msr", 7, 0),
            Req("write", 1, "pci", 9, 1), Req("read", 0, "msr", 9, 0),
            Req("check", 0, "pci", 7, 0)}
\* every handler of the daemon that may meet a failing device
PciTraffic == {Req("write", 0, "pci", 7, 3), Req("read", 0, "pci", 7, 0)}
\* for the life cycle of the daemons
Few == {Req("check", 0, "msr", 7, 0), Req("read", 1, "pci", 7, 0)}
=============================================================================
