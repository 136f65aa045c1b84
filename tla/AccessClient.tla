---------------------------- MODULE AccessClient ----------------------------
(***************************************************************************)
(* The register access layer of the library in daemon mode: HPMinit,       *)
(* HPMaddThread, HPMread, HPMwrite, HPMcheck and HPMfinalize (access.c) on *)
(* top of the daemon client (access_client.c), composed with the daemons.  *)
(*                                                                         *)
(* Every registered CPU has a daemon and a socket of its own; the first    *)
(* one opened is also the globalSocket.  Access to a socket is serialised  *)
(* by globalLock if it is the globalSocket and by cpuLocks[cpu] otherwise. *)
(*                                                                         *)
(* One thread, Main, registers CPUs and shuts the layer down, the latter   *)
(* only when no other thread is inside the library (likwid.h asks for the  *)
(* serial region); all threads access registers concurrently, also while   *)
(* Main adds another CPU.                                                  *)
(***************************************************************************)
EXTENDS AccessDaemon, FiniteSets

CONSTANTS
    Main,           \* the thread that initialises and finalizes
    BadCpus,        \* processor ids outside the topology
    Requests,       \* the register accesses the application makes
    MaxTries,       \* polls of connect before the client gives up (1000)
    MaxCalls,       \* bound: register accesses per thread
    MaxRounds,      \* bound: times the layer is initialised
    ClientMayDie    \* the client process may be killed

ASSUME MainAssumption == Main \in Clients
ASSUME BadCpusAssumption == BadCpus \subseteq Int \ Cpus
ASSUME ClientBoundsAssumption ==
    /\ MaxTries \in Nat \ {0} /\ MaxCalls \in Nat /\ MaxRounds \in Nat
    /\ ClientMayDie \in BOOLEAN

GlobalLock == -1            \* globalLock; cpuLocks[c] is lock c
Locks == Cpus \cup {GlobalLock}
Free == "free"              \* no thread holds the lock
ASSUME FreeAssumption == Free \notin Clients

VARIABLES
    alive,              \* the client process runs
    hooks,              \* access_init, access_read, ... are set
    registered,         \* registeredCpuList
    registeredCpus,
    cpuSockets,         \* socket of each CPU, or -1
    cpuSockets_open,
    globalSocket,
    mutex,              \* holder of each lock
    pc, call,           \* statement and arguments of the running call
    sock, lock,         \* local variables socket and lockptr
    record,             \* local AccessDataRecord
    result,             \* what the last call returned: return value and *data
    tries, calls, rounds

shared == <<registered, registeredCpus, cpuSockets, cpuSockets_open, globalSocket>>
locals == <<call, sock, lock, record, result, tries, calls>>
clientVars == <<alive, hooks, shared, mutex, pc, locals, rounds>>
vars == <<daemonVars, clientVars>>

NoRecord == [err |-> "NOERROR", data |-> 0]
NoCall == [op |-> "check", cpu |-> 0, dev |-> "msr", reg |-> CHOOSE r \in Regs : TRUE, val |-> 0]
\* HPMread and HPMwrite check the range of the CPU, HPMcheck does not.
LegalCalls ==
    {c \in [op : {"read", "write", "check"}, cpu : Cpus \cup BadCpus, dev : {"msr", "pci"},
            reg : Regs, val : Vals] :
       (c.op = "check" => c.cpu \in Cpus) /\ (c.op # "write" => c.val = 0)}
ASSUME RequestsAssumption == Requests \subseteq LegalCalls

Init ==
    /\ DaemonInit
    /\ alive = TRUE /\ hooks = FALSE
    /\ registered = {} /\ registeredCpus = 0
    /\ cpuSockets = [c \in Cpus |-> -1]
    /\ cpuSockets_open = 0 /\ globalSocket = -1
    /\ mutex = [l \in Locks |-> Free]
    /\ pc = [t \in Clients |-> "idle"]
    /\ call = [t \in Clients |-> NoCall]
    /\ sock = [t \in Clients |-> -1]
    /\ lock = [t \in Clients |-> GlobalLock]
    /\ record = [t \in Clients |-> NoRecord]
    /\ result = [t \in Clients |-> [ret |-> "none", data |-> 0]]
    /\ tries = [t \in Clients |-> 0]
    /\ calls = [t \in Clients |-> 0]
    /\ rounds = 0

Transition(t, from, to) == alive /\ pc[t] = from /\ pc' = [pc EXCEPT ![t] = to]

-----------------------------------------------------------------------------
(* HPMread, HPMwrite, HPMcheck *)

\* variant: failed accesses to the device are not an error
errnoWithoutRWFail(err) ==
    CASE err \in {"NOERROR", "RWFAIL"} -> "OK" [] err = "RESTREG" -> "EPERM"
      [] err = "OPENFAIL" -> "ENXIO" [] err = "NODEV" -> "ENODEV" [] OTHER -> "EFAULT"

\* translation of the daemon's error code
access_client_errno(err) ==
    CASE err = "NOERROR" -> "OK" [] err = "RESTREG" -> "EPERM" [] err = "OPENFAIL" -> "ENXIO"
      [] err = "RWFAIL" -> "EIO" [] err = "NODEV" -> "ENODEV" [] OTHER -> "EFAULT"

\* HPMcheck answers 1 or 0 only
ReturnCode(op, err) ==
    IF op = "check" /\ err # "NOERROR" THEN "EUNAVAIL" ELSE access_client_errno(err)

\* back to the caller: the locals of the call are gone
Return(t, ret, data) ==
    /\ call' = [call EXCEPT ![t] = NoCall]
    /\ sock' = [sock EXCEPT ![t] = -1]
    /\ lock' = [lock EXCEPT ![t] = GlobalLock]
    /\ record' = [record EXCEPT ![t] = NoRecord]
    /\ result' = [result EXCEPT ![t] = [ret |-> ret, data |-> data]]
    /\ outcome' = [outcome EXCEPT ![t] = NoOutcome]

\* the caller enters the library; not while Main shuts it down
Enter(t) ==
    /\ Transition(t, "idle", "called")
    /\ pc[Main] # "fin"
    /\ calls[t] < MaxCalls
    /\ \E c \in Requests : call' = [call EXCEPT ![t] = c]
    /\ calls' = [calls EXCEPT ![t] = @ + 1]
    /\ UNCHANGED <<daemonVars, alive, hooks, shared, mutex, sock, lock, record, result, tries, rounds>>

\* the early returns of HPMread/HPMwrite/HPMcheck and of access_client_*
Refusal(c) ==
    IF c.cpu \notin Cpus THEN "ERANGE"
    ELSE IF c.cpu \notin registered THEN "ENODEV"
    ELSE IF c.op = "check"
         THEN IF cpuSockets[c.cpu] > 0 \/ (cpuSockets_open = 1 /\ globalSocket > 0)
              THEN "none" ELSE "EUNAVAIL"
    ELSE IF cpuSockets_open = 0 THEN "ENOENT"
    ELSE IF cpuSockets[c.cpu] = -1 /\ globalSocket = -1 THEN "EBADFD" ELSE "none"

Refuse(t) ==
    /\ Transition(t, "called", "idle")
    /\ Refusal(call[t]) # "none"
    /\ Return(t, Refusal(call[t]), 0)
    /\ UNCHANGED <<dpc, alarmSet, sockFile, fdPci, req, rep, cur, conn, hw, kills, cutOff>>
    /\ UNCHANGED <<alive, hooks, shared, mutex, tries, calls, rounds>>

\* the socket and the lock that guards it
UsesOwn(c) == /\ cpuSockets[c.cpu] # globalSocket
              /\ IF c.op = "check" THEN cpuSockets[c.cpu] > 0 ELSE cpuSockets[c.cpu] >= 0
Choose(t) ==
    /\ Transition(t, "called", "lock")
    /\ Refusal(call[t]) = "none"
    /\ LET own == UsesOwn(call[t]) IN
         /\ sock' = [sock EXCEPT ![t] = IF own THEN cpuSockets[call[t].cpu] ELSE globalSocket]
         /\ lock' = [lock EXCEPT ![t] = IF own THEN call[t].cpu ELSE GlobalLock]
    /\ UNCHANGED <<daemonVars, alive, hooks, shared, mutex, call, record, result, tries, calls, rounds>>

\* variant: the lock is not awaited
LockSocketUnchecked(t) ==
    /\ Transition(t, "lock", "send")
    /\ mutex' = [mutex EXCEPT ![lock[t]] = t]
    /\ UNCHANGED <<daemonVars, alive, hooks, shared, locals, rounds>>

LockSocket(t) ==
    /\ Transition(t, "lock", "send")
    /\ mutex[lock[t]] = Free
    /\ mutex' = [mutex EXCEPT ![lock[t]] = t]
    /\ UNCHANGED <<daemonVars, alive, hooks, shared, locals, rounds>>

Request(t) ==
    LET c == call[t] IN
    [type |-> c.op, dev |-> c.dev, unit |-> IF c.dev = "msr" THEN c.cpu ELSE NodeOf[c.cpu],
     reg |-> c.reg, data |-> c.val, err |-> "NOERROR", by |-> t]

\* The process ends: exit(), a signal, or SIGPIPE on a broken connection.
Die ==
    /\ alive' = FALSE
    /\ conn' = [d \in Conns |-> IF conn[d] = "open" THEN "closed" ELSE conn[d]]
    /\ UNCHANGED <<dpc, alarmSet, sockFile, fdPci, req, rep, cur, hw, outcome, kills, cutOff>>
    /\ UNCHANGED <<hooks, shared, mutex, pc, locals, rounds>>

Send(t) ==
    /\ Transition(t, "send", "recv")
    /\ dpc[sock[t]] # "gone"
    /\ req' = [req EXCEPT ![sock[t]] = Append(@, Request(t))]
    /\ UNCHANGED <<dpc, alarmSet, sockFile, fdPci, rep, cur, conn, hw, outcome, kills, cutOff>>
    /\ UNCHANGED <<alive, hooks, shared, mutex, locals, rounds>>

SendBroken(t) == alive /\ pc[t] = "send" /\ dpc[sock[t]] = "gone" /\ Die

Receive(t) ==
    /\ Transition(t, "recv", "unlock")
    /\ rep[sock[t]] # <<>>
    /\ rep' = [rep EXCEPT ![sock[t]] = Tail(@)]
    /\ LET r == Head(rep[sock[t]]) IN
         record' = [record EXCEPT ![t] = [err |-> r.err, data |-> r.data]]
    /\ UNCHANGED <<dpc, alarmSet, sockFile, fdPci, req, cur, conn, hw, outcome, kills, cutOff>>
    /\ UNCHANGED <<alive, hooks, shared, mutex, call, sock, lock, result, tries, calls, rounds>>

\* read returns 0: the record keeps the data sent and an errorcode that was
\* never initialised
ReceiveEof(t) ==
    /\ Transition(t, "recv", "unlock")
    /\ rep[sock[t]] = <<>> /\ dpc[sock[t]] = "gone"
    /\ \E e \in Errors :
         record' = [record EXCEPT ![t] = [err |-> e, data |-> call[t].val]]
    /\ UNCHANGED <<daemonVars, alive, hooks, shared, mutex, call, sock, lock, result, tries, calls, rounds>>

\* variant: the error path forgets to unlock
UnlockOnSuccess(t) ==
    /\ Transition(t, "unlock", "idle")
    /\ mutex' = [mutex EXCEPT ![lock[t]] = IF record[t].err = "NOERROR" THEN Free ELSE @]
    /\ Return(t, ReturnCode(call[t].op, record[t].err),
              IF record[t].err = "NOERROR" /\ call[t].op = "read" THEN record[t].data ELSE 0)
    /\ UNCHANGED <<dpc, alarmSet, sockFile, fdPci, req, rep, cur, conn, hw, kills, cutOff>>
    /\ UNCHANGED <<alive, hooks, shared, tries, calls, rounds>>

\* unlock and return; *data is cleared on an error
Unlock(t) ==
    /\ Transition(t, "unlock", "idle")
    /\ mutex' = [mutex EXCEPT ![lock[t]] = Free]
    /\ Return(t, ReturnCode(call[t].op, record[t].err),
              IF record[t].err = "NOERROR" /\ call[t].op = "read" THEN record[t].data ELSE 0)
    /\ UNCHANGED <<dpc, alarmSet, sockFile, fdPci, req, rep, cur, conn, hw, kills, cutOff>>
    /\ UNCHANGED <<alive, hooks, shared, tries, calls, rounds>>

Access(t) == Enter(t) \/ Refuse(t) \/ Choose(t) \/ LockSocket(t) \/ Send(t) \/ SendBroken(t)
             \/ Receive(t) \/ ReceiveEof(t) \/ Unlock(t)

-----------------------------------------------------------------------------
(* HPMinit, HPMaddThread, HPMfinalize: Main only *)

HPMinit ==
    /\ alive /\ pc[Main] = "idle" /\ ~hooks /\ rounds < MaxRounds
    /\ hooks' = TRUE
    /\ rounds' = rounds + 1
    /\ UNCHANGED <<daemonVars, alive, shared, mutex, pc, locals>>

\* HPMaddThread up to the test of cpuSockets in access_client_init
HPMaddThread(c) ==
    /\ hooks /\ c \notin registered
    /\ Transition(Main, "idle", IF cpuSockets[c] < 0 THEN "a_lock" ELSE "a_reg")
    /\ call' = [call EXCEPT ![Main] = [NoCall EXCEPT !.cpu = c]]
    /\ UNCHANGED <<daemonVars, alive, hooks, shared, mutex, sock, lock, record, result, tries, calls, rounds>>

AddLock ==
    /\ Transition(Main, "a_lock", "a_fork")
    /\ mutex[call[Main].cpu] = Free
    /\ mutex' = [mutex EXCEPT ![call[Main].cpu] = Main]
    /\ UNCHANGED <<daemonVars, alive, hooks, shared, locals, rounds>>

\* access_client_startDaemon: fork and exec the daemon, create the socket
AddFork ==
    /\ Transition(Main, "a_fork", "a_connect")
    /\ \E d \in Conns :
         /\ \A e \in Conns : dpc[e] = "none" <=> e >= d
         /\ dpc' = [dpc EXCEPT ![d] = "boot"]
         /\ sock' = [sock EXCEPT ![Main] = d]
    /\ tries' = [tries EXCEPT ![Main] = MaxTries]
    /\ UNCHANGED <<alarmSet, sockFile, fdPci, req, rep, cur, conn, hw, outcome, kills, cutOff>>
    /\ UNCHANGED <<alive, hooks, shared, mutex, call, lock, record, result, calls, rounds>>

\* the socket file is there and a daemon listens behind it
Reachable(d) == sockFile[d] /\ dpc[d] \in {"listen", "armed", "accept"}

\* one usleep(1000) and connect
AddConnect ==
    /\ Transition(Main, "a_connect", "a_set")
    /\ Reachable(sock[Main])
    /\ conn' = [conn EXCEPT ![sock[Main]] = "open"]
    /\ UNCHANGED <<dpc, alarmSet, sockFile, fdPci, req, rep, cur, hw, outcome, kills, cutOff>>
    /\ UNCHANGED <<alive, hooks, shared, mutex, locals, rounds>>

AddRetry ==
    /\ Transition(Main, "a_connect", "a_connect")
    /\ ~Reachable(sock[Main])
    /\ tries[Main] > 1
    /\ tries' = [tries EXCEPT ![Main] = @ - 1]
    /\ UNCHANGED <<daemonVars, alive, hooks, shared, mutex, call, sock, lock, record, result, calls, rounds>>

\* timeout: exit(EXIT_FAILURE)
AddTimeout == alive /\ pc[Main] = "a_connect" /\ ~Reachable(sock[Main]) /\ tries[Main] = 1 /\ Die

AddSet ==
    /\ Transition(Main, "a_set", "a_global")
    /\ cpuSockets' = [cpuSockets EXCEPT ![call[Main].cpu] = sock[Main]]
    /\ cpuSockets_open' = cpuSockets_open + 1
    /\ mutex' = [mutex EXCEPT ![call[Main].cpu] = Free]
    /\ UNCHANGED <<daemonVars, alive, hooks, registered, registeredCpus, globalSocket, locals, rounds>>

AddGlobal ==
    /\ Transition(Main, "a_global", "a_reg")
    /\ \/ /\ globalSocket = -1 /\ mutex[GlobalLock] = Free
          /\ globalSocket' = cpuSockets[call[Main].cpu]
       \/ globalSocket # -1 /\ UNCHANGED globalSocket
    /\ UNCHANGED <<daemonVars, alive, hooks, registered, registeredCpus, cpuSockets, cpuSockets_open>>
    /\ UNCHANGED <<mutex, locals, rounds>>

AddRegister ==
    /\ Transition(Main, "a_reg", "idle")
    /\ registeredCpus' = registeredCpus + 1
    /\ registered' = registered \cup {call[Main].cpu}
    /\ call' = [call EXCEPT ![Main] = NoCall]
    /\ sock' = [sock EXCEPT ![Main] = -1]
    /\ tries' = [tries EXCEPT ![Main] = 0]
    /\ UNCHANGED <<daemonVars, alive, hooks, cpuSockets, cpuSockets_open, globalSocket, mutex>>
    /\ UNCHANGED <<lock, record, result, calls, rounds>>

\* serial region: nobody else is inside the library
HPMfinalize ==
    /\ hooks
    /\ \A t \in Clients \ {Main} : pc[t] = "idle"
    /\ Transition(Main, "idle", "fin")
    /\ call' = [call EXCEPT ![Main] = NoCall]
    /\ UNCHANGED <<daemonVars, alive, hooks, shared, mutex, sock, lock, record, result, tries, calls, rounds>>

FinCpu == call[Main].cpu
FinNext == call' = [call EXCEPT ![Main].cpu = @ + 1]
FinBroken == /\ alive /\ pc[Main] = "fin" /\ FinCpu \in registered
             /\ cpuSockets[FinCpu] > 0 /\ dpc[cpuSockets[FinCpu]] = "gone" /\ Die

\* the last connection closed takes the globalSocket with it
\* (variant: it does not)
GlobalKept(left) == globalSocket
GlobalAfter(left) == IF left = 0 THEN -1 ELSE globalSocket

\* one turn of the loop of HPMfinalize, with access_client_finalize
FinStep ==
    LET c == FinCpu
        s == cpuSockets[c]
        ExitMsg == [Request(Main) EXCEPT !.type = "exit"]
        close == s > 0
        left == IF close THEN cpuSockets_open - 1 ELSE cpuSockets_open
    IN
    /\ Transition(Main, "fin", "fin")
    /\ c \in registered
    /\ close => dpc[s] # "gone"
    /\ req' = IF close THEN [req EXCEPT ![s] = Append(@, ExitMsg)] ELSE req
    /\ conn' = IF close THEN [conn EXCEPT ![s] = "closed"] ELSE conn
    /\ cpuSockets' = IF close THEN [cpuSockets EXCEPT ![c] = -1] ELSE cpuSockets
    /\ cpuSockets_open' = left
    /\ globalSocket' = GlobalAfter(left)
    /\ registeredCpus' = registeredCpus - 1
    /\ registered' = registered \ {c}
    /\ FinNext
    /\ UNCHANGED <<dpc, alarmSet, sockFile, fdPci, rep, cur, hw, outcome, kills, cutOff>>
    /\ UNCHANGED <<alive, hooks, mutex, sock, lock, record, result, tries, calls, rounds>>

\* variant: the loop runs past the last CPU
FinSkipPastEnd ==
    /\ Transition(Main, "fin", "fin")
    /\ FinCpu \notin registered
    /\ FinNext
    /\ UNCHANGED <<daemonVars, alive, hooks, shared, mutex, sock, lock, record, result, tries, calls, rounds>>

FinSkip ==
    /\ Transition(Main, "fin", "fin")
    /\ FinCpu \in Cpus \ registered
    /\ FinNext
    /\ UNCHANGED <<daemonVars, alive, hooks, shared, mutex, sock, lock, record, result, tries, calls, rounds>>

\* variant: the loop forgets the last CPU
FinEndEarly ==
    /\ Transition(Main, "fin", "idle")
    /\ FinCpu = NumCpus - 1
    /\ hooks' = FALSE
    /\ call' = [call EXCEPT ![Main] = NoCall]
    /\ UNCHANGED <<daemonVars, alive, shared, mutex, sock, lock, record, result, tries, calls, rounds>>

FinEnd ==
    /\ Transition(Main, "fin", "idle")
    /\ FinCpu \notin Cpus
    /\ hooks' = FALSE
    /\ call' = [call EXCEPT ![Main] = NoCall]
    /\ UNCHANGED <<daemonVars, alive, shared, mutex, sock, lock, record, result, tries, calls, rounds>>

AddStep == AddLock \/ AddFork \/ AddConnect \/ AddRetry \/ AddTimeout \/ AddSet \/ AddGlobal \/ AddRegister
Finalize == HPMfinalize \/ FinStep \/ FinSkip \/ FinBroken \/ FinEnd
Manage == HPMinit \/ (\E c \in Cpus : HPMaddThread(c)) \/ AddStep \/ Finalize

ClientKilled == ClientMayDie /\ alive /\ Die

-----------------------------------------------------------------------------
\* The alarm runs 15 s and the client polls for 1 s: no alarm while it polls.
Polling(d) == alive /\ pc[Main] = "a_connect" /\ sock[Main] = d
Timeout(d) == ~Polling(d) /\ (AcceptTimeout(d) \/ AlarmEarly(d)) /\ UNCHANGED clientVars
DaemonStep(d) == DaemonMain(d) /\ UNCHANGED clientVars

Next == \/ \E t \in Clients : Access(t)
        \/ Manage
        \/ ClientKilled
        \/ \E d \in Conns : DaemonStep(d) \/ Timeout(d) \/ (Killed(d) /\ UNCHANGED clientVars)

\* Running threads and daemons are scheduled; a thread inside the library goes
\* on, but nobody is obliged to make another call.
Fairness ==
    /\ \A t \in Clients : WF_vars(Access(t) /\ pc[t] # "idle")
    /\ WF_vars(AddStep) /\ WF_vars(FinStep \/ FinSkip \/ FinBroken \/ FinEnd)
    /\ \A d \in Conns : WF_vars(DaemonStep(d)) /\ WF_vars(~Polling(d) /\ AcceptTimeout(d) /\ UNCHANGED clientVars)

SafetySpec == Init /\ [][Next]_vars
Spec == SafetySpec /\ Fairness

-----------------------------------------------------------------------------
CallRecords == [op : {"read", "write", "check"}, dev : {"msr", "pci"},
                cpu : (0 .. NumCpus) \cup BadCpus, reg : Regs, val : Vals]
ReturnCodes == {"none", "OK", "EPERM", "ENXIO", "EIO", "ENODEV", "EFAULT", "EUNAVAIL",
                "ERANGE", "ENOENT", "EBADFD"}

\* Type invariant of the access layer's static variables and of the locals of
\* the calls in progress (access.c, access_client.c).
TypeOK ==
    /\ DaemonTypeOK
    /\ alive \in BOOLEAN /\ hooks \in BOOLEAN
    /\ registered \subseteq Cpus /\ registeredCpus \in Int
    /\ cpuSockets \in [Cpus -> Conns \cup {-1}]
    /\ cpuSockets_open \in Int
    /\ globalSocket \in Conns \cup {-1}
    /\ mutex \in [Locks -> Clients \cup {Free}]
    /\ pc \in [Clients -> {"idle", "called", "lock", "send", "recv", "unlock", "a_lock",
                           "a_fork", "a_connect", "a_set", "a_global", "a_reg", "fin"}]
    /\ call \in [Clients -> CallRecords]
    /\ sock \in [Clients -> Conns \cup {-1}]
    /\ lock \in [Clients -> Locks]
    /\ record \in [Clients -> [err : Errors, data : Vals]]
    /\ result \in [Clients -> [ret : ReturnCodes, data : Vals]]
    /\ tries \in [Clients -> 0 .. MaxTries]
    /\ calls \in [Clients -> 0 .. MaxCalls]
    /\ rounds \in 0 .. MaxRounds

\* The thread waiting for an answer on a socket never finds the answer to
\* another thread's request there, although globalLock and cpuLocks both guard
\* sockets and a CPU may be added at the same time (lockptr in access_client.c).
OwnReply ==
    \A t \in Clients : pc[t] = "recv" /\ rep[sock[t]] # <<>> => Head(rep[sock[t]]).by = t

OpenSockets == {c \in Cpus : cpuSockets[c] # -1}
\* Between two calls of Main the bookkeeping of access.c and access_client.c
\* agrees: the registered CPUs are those with an open connection, the counters
\* count them, and the globalSocket is one of their sockets.
Bookkeeping ==
    alive /\ pc[Main] \notin {"a_global", "a_reg", "fin"} =>
        /\ registered = OpenSockets
        /\ registeredCpus = Cardinality(registered)
        /\ cpuSockets_open = Cardinality(OpenSockets)
        /\ IF OpenSockets = {} THEN globalSocket = -1
                               ELSE \E c \in OpenSockets : globalSocket = cpuSockets[c]
        /\ \A c \in OpenSockets : conn[cpuSockets[c]] = "open"
        /\ \A c, e \in OpenSockets : cpuSockets[c] = cpuSockets[e] => c = e

\* HPMfinalize closes every connection to an access daemon (likwid.h).
FinalizeCloses == alive /\ ~hooks => \A d \in Conns : conn[d] # "open"

\* "As soon as the connect is successful the socket file will be deleted"
\* (likwid-accessD.md:43): a daemon that serves has no file in /tmp, and of the
\* daemons that have ended only those have left one that were killed, or failed in
\* listen or chmod, between bind and the return of accept.
NoStaleSocketFile ==
    \A d \in Conns :
        /\ dpc[d] \in {"serve", "reply"} => ~sockFile[d]
        /\ dpc[d] = "gone" /\ sockFile[d] => cutOff[d] \in {"bound", "listen", "armed", "accept"}

\* A PCI access that the daemon reports with errorcode 0 has reached the device.
PciSuccessIsReal ==
    \A d \in Conns : dpc[d] = "reply" /\ cur[d][1].dev = "pci" /\ cur[d][1].type # "check"
                     /\ cur[d][1].err = "NOERROR" => fdPci[d][cur[d][1].unit] > 0

\* The access layer implements atomic registers: the access takes effect when
\* the daemon serves it, and the caller gets that outcome.
Registers == INSTANCE RegisterSpec WITH
    Threads <- Clients,
    reg <- hw,
    status <- [t \in Clients |->
                 IF pc[t] \notin {"called", "lock", "send", "recv", "unlock"} THEN "idle"
                 ELSE IF outcome[t] = NoOutcome THEN "busy" ELSE "done"],
    outcome <- [t \in Clients |-> [ok |-> outcome[t].err = "NOERROR", data |-> outcome[t].data]],
    returned <- [t \in Clients |-> [ok |-> result[t].ret = "OK", data |-> result[t].data]]
AtomicRegisters == Registers!Spec

\* Every HPMread, HPMwrite and HPMcheck returns, unless the process ends.
CallsReturn == \A t \in Clients : pc[t] = "called" ~> (pc[t] = "idle" \/ ~alive)

\* Daemons do not outlive their client: one whose connection is closed ends, and
\* so does one whose client ended before it connected (15 s alarm).
DaemonsEnd == \A d \in Conns :
    (conn[d] = "closed" \/ (~alive /\ dpc[d] # "none")) ~> dpc[d] = "gone"

=============================================================================
