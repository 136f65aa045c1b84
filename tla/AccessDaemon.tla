---------------------------- MODULE AccessDaemon ----------------------------
(***************************************************************************)
(* likwid-accessD (access-daemon/accessDaemon.c): the privileged process   *)
(* that reads and writes MSR and PCI configuration registers on behalf of  *)
(* one client.  The client starts one daemon per measured CPU; the file    *)
(* descriptor of the client's end of the socket names the daemon here.     *)
(*                                                                         *)
(* A daemon boots, binds its socket file, arms a 15 second alarm, accepts  *)
(* exactly one connection, opens the device files and then serves requests *)
(* one by one until DAEMON_EXIT, end of file, a signal or a failed write.  *)
(***************************************************************************)
EXTENDS Integers, Sequences

CONSTANTS
    NumCpus,        \* cpuid_topology.numHWThreads
    Nodes,          \* processor packages
    NodeOf,         \* affinity_core2node_lookup
    Conns,          \* file descriptors a client socket may get
    Clients,        \* threads of the client process
    Regs,           \* register addresses
    Restricted,     \* addresses refused by allowed() and allowedPci()
    Vals,           \* contents of a register; PCI registers keep the low half
    MsrFiles,       \* CPUs whose msr device file can be opened
    PciFiles,       \* packages whose PCI device was found at startup
    BootMayFail,    \* lock file of another user, unsupported processor, no fork
    PciOpenMayFail, \* a PCI device found at startup may fail to open later
    AlarmMayBeEarly,\* the daemon may be held up for 15 s before it accepts
    MaxKills        \* bound: daemons killed from outside

Cpus == 0 .. NumCpus - 1

ASSUME NumCpusAssumption == NumCpus \in Nat \ {0}
ASSUME NodeOfAssumption == NodeOf \in [Cpus -> Nodes]
\* 0 is the standard input; the code takes it for no socket
ASSUME ConnsAssumption == Conns \subseteq Nat \ {0}
ASSUME RegsAssumption == Regs # {}
ASSUME ValsAssumption == Vals \subseteq Nat /\ 0 \in Vals /\ \A v \in Vals : v % 2 \in Vals
ASSUME FlagsAssumption == /\ {BootMayFail, PciOpenMayFail, AlarmMayBeEarly} \subseteq BOOLEAN
                          /\ MaxKills \in Nat
ASSUME FilesAssumption == /\ MsrFiles \subseteq Cpus /\ PciFiles \subseteq Nodes
                          /\ Restricted \subseteq Regs

VARIABLES
    dpc,        \* where each daemon is
    alarmSet,   \* a SIGALRM is pending for the daemon
    sockFile,   \* /tmp/likwid-<pid> exists
    fdPci,      \* FD_PCI of the daemon, per package
    req,        \* bytes on their way to the daemon (records)
    rep,        \* bytes on their way back
    cur,        \* dRecord while the daemon has an answer to send, else empty
    conn,       \* the client's end of the socket: "none" | "open" | "closed"
    hw,         \* the registers themselves
    outcome,    \* history: what the daemon did for the pending call of a thread
    kills,      \* history: number of daemons killed
    cutOff      \* history: where a daemon was that was killed or could not listen, else "none"

daemonVars == <<dpc, alarmSet, sockFile, fdPci, req, rep, cur, conn, hw, outcome, kills, cutOff>>

Locs == ({"msr"} \X Cpus \X Regs) \cup ({"pci"} \X Nodes \X Regs)

\* PCI registers are 32 bit: the upper half of a value is dropped.
Low(v) == v % 2

Types == {"read", "write", "check", "exit"}
Errors == {"NOERROR", "RESTREG", "OPENFAIL", "RWFAIL", "NODEV"}
NoOutcome == [err |-> "none", data |-> 0]
Outcomes == [err : Errors, data : Vals] \cup {NoOutcome}
Records == [type : Types, dev : {"msr", "pci"}, unit : Cpus \cup Nodes, reg : Regs,
            data : Vals, err : Errors, by : Clients]
DaemonStates == {"none", "boot", "bound", "listen", "armed", "accept", "serve", "reply", "gone"}

DaemonInit ==
    /\ dpc = [d \in Conns |-> "none"]
    /\ alarmSet = [d \in Conns |-> FALSE]
    /\ sockFile = [d \in Conns |-> FALSE]
    /\ fdPci = [d \in Conns |-> [n \in Nodes |-> -2]]
    /\ req = [d \in Conns |-> <<>>]
    /\ rep = [d \in Conns |-> <<>>]
    /\ cur = [d \in Conns |-> <<>>]
    /\ conn = [d \in Conns |-> "none"]
    /\ hw = [l \in Locs |-> 0]
    /\ outcome = [t \in Clients |-> NoOutcome]
    /\ kills = 0
    /\ cutOff = [d \in Conns |-> "none"]

Goto(d, s) == dpc' = [dpc EXCEPT ![d] = s]

-----------------------------------------------------------------------------
(* Startup: main() up to the request loop. *)

\* lock_check fails, the processor is not supported, or a fork fails
BootFail(d) ==
    /\ BootMayFail
    /\ dpc[d] = "boot"
    /\ Goto(d, "gone")
    /\ UNCHANGED <<alarmSet, sockFile, fdPci, req, rep, cur, conn, hw, outcome, kills, cutOff>>

\* daemonize, bind: the socket file appears
Bind(d) ==
    /\ dpc[d] = "boot"
    /\ Goto(d, "bound")
    /\ sockFile' = [sockFile EXCEPT ![d] = TRUE]
    /\ UNCHANGED <<alarmSet, fdPci, req, rep, cur, conn, hw, outcome, kills, cutOff>>

\* from now on a client can connect
Listen(d) ==
    /\ dpc[d] = "bound"
    /\ Goto(d, "listen")
    /\ UNCHANGED <<alarmSet, sockFile, fdPci, req, rep, cur, conn, hw, outcome, kills, cutOff>>

\* listen or chmod fails before a client has connected: exit, without unlink
ListenFail(d) ==
    /\ BootMayFail
    /\ dpc[d] \in {"bound", "listen"} /\ conn[d] = "none"
    /\ Goto(d, "gone")
    /\ cutOff' = [cutOff EXCEPT ![d] = dpc[d]]
    /\ UNCHANGED <<alarmSet, sockFile, fdPci, req, rep, cur, conn, hw, outcome, kills>>

\* install the signal handlers, alarm(15)
Arm(d) ==
    /\ dpc[d] = "listen"
    /\ Goto(d, "armed")
    /\ alarmSet' = [alarmSet EXCEPT ![d] = TRUE]
    /\ UNCHANGED <<sockFile, fdPci, req, rep, cur, conn, hw, outcome, kills, cutOff>>

\* call accept
EnterAccept(d) ==
    /\ dpc[d] = "armed"
    /\ Goto(d, "accept")
    /\ UNCHANGED <<alarmSet, sockFile, fdPci, req, rep, cur, conn, hw, outcome, kills, cutOff>>

\* A client has connected: alarm(0), unlink, open the MSR files, probe the PCI
\* devices.  (Without PCI Uncore nothing is probed, and the client asks for none.)
Accepted(d) ==
    /\ dpc[d] = "accept"
    /\ conn[d] # "none"
    /\ Goto(d, "serve")
    /\ alarmSet' = [alarmSet EXCEPT ![d] = FALSE]
    /\ sockFile' = [sockFile EXCEPT ![d] = FALSE]
    /\ fdPci' = [fdPci EXCEPT ![d] = [n \in Nodes |-> IF n \in PciFiles THEN 0 ELSE -2]]
    /\ UNCHANGED <<req, rep, cur, conn, hw, outcome, kills, cutOff>>

\* variant: exit without unlink
AcceptTimeoutKeepsFile(d) ==
    /\ dpc[d] = "accept"
    /\ alarmSet[d]
    /\ conn[d] = "none"
    /\ Goto(d, "gone")
    /\ alarmSet' = [alarmSet EXCEPT ![d] = FALSE]
    /\ UNCHANGED <<sockFile, fdPci, req, rep, cur, conn, hw, outcome, kills, cutOff>>

\* SIGALRM interrupts accept with EINTR: unlink and exit
AcceptTimeout(d) ==
    /\ dpc[d] = "accept"
    /\ alarmSet[d]
    /\ conn[d] = "none"
    /\ Goto(d, "gone")
    /\ alarmSet' = [alarmSet EXCEPT ![d] = FALSE]
    /\ sockFile' = [sockFile EXCEPT ![d] = FALSE]
    /\ UNCHANGED <<fdPci, req, rep, cur, conn, hw, outcome, kills, cutOff>>

\* SIGALRM arrives before accept is entered: Signal_Handler just returns
AlarmEarly(d) ==
    /\ AlarmMayBeEarly
    /\ dpc[d] = "armed"
    /\ alarmSet[d]
    /\ alarmSet' = [alarmSet EXCEPT ![d] = FALSE]
    /\ UNCHANGED <<dpc, sockFile, fdPci, req, rep, cur, conn, hw, outcome, kills, cutOff>>

-----------------------------------------------------------------------------
(* The request loop: one action per handler. *)

Serving(d, type, dev) ==
    /\ dpc[d] = "serve"
    /\ req[d] # <<>>
    /\ Head(req[d]).type = type
    /\ Head(req[d]).dev = dev

\* Fill in the reply; the history records what the caller must be told.
Answer(d, err, data) ==
    LET r == Head(req[d]) IN
    /\ Goto(d, "reply")
    /\ req' = [req EXCEPT ![d] = Tail(@)]
    /\ cur' = [cur EXCEPT ![d] = <<[r EXCEPT !.err = err, !.data = data]>>]
    /\ outcome' = [outcome EXCEPT ![r.by] = [err |-> err, data |-> data]]
    /\ UNCHANGED <<alarmSet, sockFile, rep, conn, kills, cutOff>>

Loc(r) == <<r.dev, r.unit, r.reg>>

MsrRefused(d, r) ==
    \/ r.unit \notin MsrFiles /\ Answer(d, "NODEV", 0)
    \/ r.unit \in MsrFiles /\ r.reg \in Restricted /\ Answer(d, "RESTREG", 0)
MsrAllowed(r) == r.unit \in MsrFiles /\ r.reg \notin Restricted

msr_read(d) ==
    /\ Serving(d, "read", "msr")
    /\ LET r == Head(req[d]) IN
         \/ MsrRefused(d, r)
         \/ MsrAllowed(r) /\ Answer(d, "RWFAIL", 0)
         \/ MsrAllowed(r) /\ Answer(d, "NOERROR", hw[Loc(r)])
    /\ UNCHANGED <<hw, fdPci>>

msr_write(d) ==
    /\ Serving(d, "write", "msr")
    /\ LET r == Head(req[d]) IN
         \/ MsrRefused(d, r) /\ UNCHANGED hw
         \/ MsrAllowed(r) /\ Answer(d, "RWFAIL", 0) /\ UNCHANGED hw
         \/ /\ MsrAllowed(r) /\ Answer(d, "NOERROR", 0)
            /\ hw' = [hw EXCEPT ![Loc(r)] = r.data]
    /\ UNCHANGED fdPci

msr_check(d) ==
    /\ Serving(d, "check", "msr")
    /\ IF Head(req[d]).unit \in MsrFiles THEN Answer(d, "NOERROR", 0)
                                         ELSE Answer(d, "NODEV", 0)
    /\ UNCHANGED <<hw, fdPci>>

PciRefused(d, r) ==
    \/ fdPci[d][r.unit] = -2 /\ Answer(d, "NODEV", 0)
    \/ fdPci[d][r.unit] # -2 /\ r.reg \in Restricted /\ Answer(d, "RESTREG", 0)
PciAllowed(d, r) == fdPci[d][r.unit] # -2 /\ r.reg \notin Restricted

\* The device file is opened on first use; a failed open leaves -1 behind.
PciOpenFails(d, r) ==
    /\ PciOpenMayFail /\ PciAllowed(d, r) /\ fdPci[d][r.unit] = 0
    /\ fdPci' = [fdPci EXCEPT ![d][r.unit] = -1]
    /\ Answer(d, "OPENFAIL", 0)
PciIsOpen(d, r) ==
    /\ PciAllowed(d, r) /\ fdPci[d][r.unit] # -1
    /\ fdPci' = [fdPci EXCEPT ![d][r.unit] = 1]

\* With a descriptor of -1 neither open nor pread is tried, and the reply
\* carries an uninitialised value and no error.
pci_read(d) ==
    /\ Serving(d, "read", "pci")
    /\ LET r == Head(req[d]) IN
         \/ PciRefused(d, r) /\ UNCHANGED fdPci
         \/ PciOpenFails(d, r)
         \/ PciIsOpen(d, r) /\ Answer(d, "RWFAIL", 0)
         \/ PciIsOpen(d, r) /\ Answer(d, "NOERROR", hw[Loc(r)])
         \/ /\ PciAllowed(d, r) /\ fdPci[d][r.unit] = -1
            /\ \E v \in Vals : Answer(d, "NOERROR", Low(v))
            /\ UNCHANGED fdPci
    /\ UNCHANGED hw

pci_write(d) ==
    /\ Serving(d, "write", "pci")
    /\ LET r == Head(req[d]) IN
         \/ PciRefused(d, r) /\ UNCHANGED <<fdPci, hw>>
         \/ PciOpenFails(d, r) /\ UNCHANGED hw
         \/ PciIsOpen(d, r) /\ Answer(d, "RWFAIL", 0) /\ UNCHANGED hw
         \/ /\ PciIsOpen(d, r) /\ Answer(d, "NOERROR", 0)
            /\ hw' = [hw EXCEPT ![Loc(r)] = Low(r.data)]
         \/ /\ PciAllowed(d, r) /\ fdPci[d][r.unit] = -1
            /\ Answer(d, "NOERROR", 0)
            /\ UNCHANGED <<fdPci, hw>>

pci_check(d) ==
    /\ Serving(d, "check", "pci")
    /\ IF fdPci[d][Head(req[d]).unit] = -2 THEN Answer(d, "NODEV", 0)
                                           ELSE Answer(d, "NOERROR", 0)
    /\ UNCHANGED <<hw, fdPci>>

\* write the reply; SIGPIPE stops the daemon when the client is gone
Reply(d) ==
    /\ dpc[d] = "reply"
    /\ IF conn[d] = "open" THEN Goto(d, "serve") /\ rep' = [rep EXCEPT ![d] = @ \o cur[d]]
                           ELSE Goto(d, "gone") /\ UNCHANGED rep
    /\ cur' = [cur EXCEPT ![d] = <<>>]
    /\ UNCHANGED <<alarmSet, sockFile, fdPci, req, conn, hw, outcome, kills, cutOff>>

\* variant: end of file is not noticed
StopOnExitOnly(d) ==
    /\ dpc[d] = "serve"
    /\ req[d] # <<>> /\ Head(req[d]).type = "exit"
    /\ Goto(d, "gone")
    /\ UNCHANGED <<alarmSet, sockFile, fdPci, req, rep, cur, conn, hw, outcome, kills, cutOff>>

\* DAEMON_EXIT, or read returns 0 because the client closed its end
stop_daemon(d) ==
    /\ dpc[d] = "serve"
    /\ IF req[d] = <<>> THEN conn[d] = "closed" ELSE Head(req[d]).type = "exit"
    /\ Goto(d, "gone")
    /\ UNCHANGED <<alarmSet, sockFile, fdPci, req, rep, cur, conn, hw, outcome, kills, cutOff>>

\* SIGKILL at any time, or SIGTERM: before the handlers are installed it has its
\* default effect, afterwards it runs stop_daemon, which does not unlink either.
Killed(d) ==
    /\ kills < MaxKills
    /\ dpc[d] \notin {"none", "gone"}
    /\ Goto(d, "gone")
    /\ kills' = kills + 1
    /\ cutOff' = [cutOff EXCEPT ![d] = dpc[d]]
    /\ UNCHANGED <<alarmSet, sockFile, fdPci, req, rep, cur, conn, hw, outcome>>

Serve(d) ==
    msr_read(d) \/ msr_write(d) \/ msr_check(d) \/ pci_read(d) \/ pci_write(d) \/ pci_check(d)

Boot(d) == BootFail(d) \/ Bind(d) \/ Listen(d) \/ ListenFail(d) \/ Arm(d) \/ EnterAccept(d) \/ Accepted(d)

DaemonMain(d) == Boot(d) \/ Serve(d) \/ Reply(d) \/ stop_daemon(d)

DaemonTypeOK ==
    /\ dpc \in [Conns -> DaemonStates]
    /\ alarmSet \in [Conns -> BOOLEAN]
    /\ sockFile \in [Conns -> BOOLEAN]
    /\ fdPci \in [Conns -> [Nodes -> {-2, -1, 0, 1}]]
    /\ req \in [Conns -> Seq(Records)]
    /\ rep \in [Conns -> Seq(Records)]
    /\ cur \in [Conns -> Seq(Records)]
    /\ conn \in [Conns -> {"none", "open", "closed"}]
    /\ hw \in [Locs -> Vals]
    /\ outcome \in [Clients -> Outcomes]
    /\ kills \in 0 .. MaxKills
    /\ cutOff \in [Conns -> DaemonStates]

=============================================================================
