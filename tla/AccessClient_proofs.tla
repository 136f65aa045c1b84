------------------------ MODULE AccessClient_proofs ------------------------
(***************************************************************************)
(* Proofs about the access layer in daemon mode, for every number of CPUs, *)
(* client threads, connections and calls: types, OwnReply, Bookkeeping,    *)
(* FinalizeCloses, NoStaleSocketFile, and that the layer implements atomic *)
(* registers.                                                              *)
(***************************************************************************)
EXTENDS AccessClient, FiniteSetTheorems, SequenceTheorems, TLAPS

-----------------------------------------------------------------------------
(* The inductive invariant *)

Adding == {"a_lock", "a_fork", "a_connect", "a_set", "a_global", "a_reg"}
Chosen == {"lock", "send", "recv", "unlock"}
Locked == {"send", "recv", "unlock"}

\* Types.  Every record on its way names a register that exists.
GoodRecords == {r \in Records : Loc(r) \in Locs}
TypeInv ==
    /\ TypeOK
    /\ req \in [Conns -> Seq(GoodRecords)]
    /\ rep \in [Conns -> Seq(GoodRecords)]
    /\ cur \in [Conns -> Seq(GoodRecords)]

\* The life of a daemon: when its socket file exists, when somebody may have
\* connected to it, and what is left when no open of a PCI device fails and no
\* daemon is killed.
BeforeUnlink == {"bound", "listen", "armed", "accept"}
DaemonInv ==
    \A d \in Conns :
        /\ sockFile[d] => \/ dpc[d] \in BeforeUnlink
                          \/ dpc[d] = "gone" /\ cutOff[d] \in BeforeUnlink
        /\ dpc[d] \in {"none", "boot", "bound"} => conn[d] = "none"
        /\ kills = 0 /\ conn[d] = "open" => dpc[d] # "gone"
        /\ ~PciOpenMayFail => \A n \in Nodes : fdPci[d][n] # -1

\* Where Main is, and what it knows there.
MainInv ==
    /\ \A t \in Clients : pc[t] \in Adding \cup {"fin"} => t = Main
    /\ ~hooks => registered = {} /\ pc[Main] \notin Adding \cup {"fin"}
    /\ pc[Main] \in Adding => call[Main].cpu \in Cpus \ registered
    /\ pc[Main] = "fin" =>
          /\ \A t \in Clients \ {Main} : pc[t] = "idle"
          /\ call[Main].cpu \in 0 .. NumCpus /\ call[Main].dev = "msr"
          /\ \A c \in registered : c >= call[Main].cpu

\* The sockets of the CPUs: which are open, and that they are different
\* connections, which are the only open ones but for the one Main is just making.
SocketInv ==
    /\ OpenSockets = IF pc[Main] \in {"a_global", "a_reg"} THEN registered \cup {call[Main].cpu}
                                                           ELSE registered
    /\ \A c, e \in OpenSockets : cpuSockets[c] = cpuSockets[e] => c = e
    /\ \A c \in OpenSockets : dpc[cpuSockets[c]] # "none"
    /\ pc[Main] \in {"a_connect", "a_set"} =>
          /\ sock[Main] \in Conns /\ dpc[sock[Main]] # "none"
          /\ \A c \in OpenSockets : cpuSockets[c] # sock[Main]
    /\ alive => /\ \A c \in OpenSockets : conn[cpuSockets[c]] = "open"
                /\ pc[Main] = "a_connect" => conn[sock[Main]] = "none"
                /\ pc[Main] = "a_set" => conn[sock[Main]] = "open"
                /\ \A d \in Conns : conn[d] = "open" =>
                      \/ \E c \in OpenSockets : cpuSockets[c] = d
                      \/ pc[Main] = "a_set" /\ d = sock[Main]

\* The globalSocket is one of the sockets of S, or there is none.
GlobalAmong(S) == IF S = {} THEN globalSocket = -1 ELSE \E c \in S : globalSocket = cpuSockets[c]
GlobalInv ==
    IF pc[Main] = "fin" THEN OpenSockets = {} => globalSocket = -1
    ELSE GlobalAmong(IF pc[Main] = "a_global" THEN registered ELSE OpenSockets)

\* The counters count.
CountInv ==
    /\ registeredCpus = Cardinality(registered)
    /\ cpuSockets_open = Cardinality(OpenSockets)

\* A call that has chosen its socket has chosen the lock that belongs to it, and
\* holds it from the request to the answer.
LockInv ==
    \A t \in Clients :
        /\ pc[t] \in Chosen =>
              /\ call[t].cpu \in registered
              /\ \/ lock[t] = GlobalLock /\ sock[t] = globalSocket
                 \/ /\ lock[t] = call[t].cpu
                    /\ sock[t] = cpuSockets[call[t].cpu] /\ sock[t] # globalSocket
        /\ pc[t] \in Locked => mutex[lock[t]] = t

\* A connection carries at most one record, a request or its answer, and the
\* thread that sent it waits for it; or the last request, when it is closed.
Awaits(t, d) == pc[t] = "recv" /\ sock[t] = d
Flight(d) ==
    /\ rep[d] # <<>> => /\ Len(rep[d]) = 1 /\ Awaits(rep[d][1].by, d)
                        /\ dpc[d] # "gone" => req[d] = <<>> /\ cur[d] = <<>>
    /\ dpc[d] = "reply" <=> cur[d] # <<>> /\ dpc[d] # "gone"
    /\ dpc[d] = "reply" => Len(cur[d]) = 1 /\ Awaits(cur[d][1].by, d) /\ req[d] = <<>> /\ rep[d] = <<>>
    /\ dpc[d] # "gone" /\ req[d] # <<>> =>
          /\ Len(req[d]) = 1 /\ rep[d] = <<>>
          /\ IF req[d][1].type = "exit" THEN conn[d] = "closed" ELSE Awaits(req[d][1].by, d)
FlightInv == \A d \in Conns : Flight(d)

\* The history variable outcome: what the answer on its way says.
Says(r) == [err |-> r.err, data |-> r.data]
Knows(t) ==
    /\ pc[t] \notin {"recv", "unlock"} => outcome[t] = NoOutcome
    /\ outcome[t].err # "NOERROR" \/ call[t].op # "read" => outcome[t].data = 0
    /\ kills = 0 /\ pc[t] = "unlock" => record[t] = outcome[t] /\ outcome[t] # NoOutcome
Tells(d) ==
    /\ dpc[d] # "gone" /\ req[d] # <<>> /\ req[d][1].type # "exit" =>
          outcome[req[d][1].by] = NoOutcome /\ req[d][1].type = call[req[d][1].by].op
    /\ dpc[d] = "reply" => outcome[cur[d][1].by] = Says(cur[d][1])
    /\ rep[d] # <<>> => outcome[rep[d][1].by] = Says(rep[d][1])
OutcomeInv == (\A t \in Clients : Knows(t)) /\ (\A d \in Conns : Tells(d))

AccessInv ==
    /\ TypeInv /\ DaemonInv /\ MainInv /\ SocketInv /\ GlobalInv /\ CountInv
    /\ LockInv /\ FlightInv /\ OutcomeInv

-----------------------------------------------------------------------------
(* Types *)

\* Constants that the calls in progress and the history variables hold.
LEMMA Constants ==
    /\ NoCall \in CallRecords
    /\ NoCall.dev = "msr" /\ NoCall.cpu = 0 /\ NoCall.op = "check"
    /\ NoRecord \in [err : Errors, data : Vals]
    /\ NoOutcome \in Outcomes
    /\ 0 \in Cpus /\ GlobalLock \in Locks /\ GlobalLock \notin Cpus
    /\ -1 \notin Conns /\ 0 \notin Conns
  BY NumCpusAssumption, ConnsAssumption, RegsAssumption, ValsAssumption, MainAssumption
     DEF CallRecords, NoCall, NoRecord, NoOutcome, Outcomes, Errors, Cpus, Locks, GlobalLock

\* Changing the CPU of a call, as the loop of HPMfinalize does.
LEMMA CallType ==
  ASSUME NEW c \in CallRecords, NEW k \in 0 .. NumCpus
  PROVE  /\ [c EXCEPT !.cpu = k] \in CallRecords
         /\ [c EXCEPT !.cpu = k].cpu = k /\ [c EXCEPT !.cpu = k].dev = c.dev
         /\ [c EXCEPT !.cpu = k].op = c.op
  BY DEF CallRecords

\* The empty state of the layer is well typed.
LEMMA InitType == Init => TypeInv
<1> SUFFICES ASSUME Init PROVE TypeInv
  OBVIOUS
<1> USE DEF Init, DaemonInit
<1>1. \A S : <<>> \in Seq(S)
  OBVIOUS
<1>2. /\ req \in [Conns -> Seq(GoodRecords)] /\ rep \in [Conns -> Seq(GoodRecords)]
      /\ cur \in [Conns -> Seq(GoodRecords)]
      /\ req \in [Conns -> Seq(Records)] /\ rep \in [Conns -> Seq(Records)]
      /\ cur \in [Conns -> Seq(Records)]
  BY <1>1
<1>3. /\ fdPci \in [Conns -> [Nodes -> {-2, -1, 0, 1}]]
      /\ hw \in [Locs -> Vals] /\ kills \in 0 .. MaxKills
      /\ cutOff \in [Conns -> DaemonStates]
  BY ValsAssumption, FlagsAssumption DEF DaemonStates
<1>4. DaemonTypeOK
  BY <1>2, <1>3, Constants DEF DaemonTypeOK, DaemonStates
<1>5. TypeOK
  <2>1. alive \in BOOLEAN /\ hooks \in BOOLEAN
    OBVIOUS
  <2>2. registered \subseteq Cpus /\ registeredCpus \in Int
    /\ cpuSockets \in [Cpus -> Conns \cup {-1}]
    /\ cpuSockets_open \in Int
    /\ globalSocket \in Conns \cup {-1}
    OBVIOUS
  <2>3. mutex \in [Locks -> Clients \cup {Free}]
    /\ pc \in [Clients -> {"idle", "called", "lock", "send", "recv", "unlock", "a_lock",
                           "a_fork", "a_connect", "a_set", "a_global", "a_reg", "fin"}]
    OBVIOUS
  <2>4. call \in [Clients -> CallRecords]
    BY Constants
  <2>5. sock \in [Clients -> Conns \cup {-1}]
    /\ lock \in [Clients -> Locks]
    BY Constants
  <2>6. record \in [Clients -> [err : Errors, data : Vals]]
    BY Constants
  <2>7. result \in [Clients -> [ret : ReturnCodes, data : Vals]]
    BY ValsAssumption DEF ReturnCodes
  <2>8. tries \in [Clients -> 0 .. MaxTries]
    /\ calls \in [Clients -> 0 .. MaxCalls]
    /\ rounds \in 0 .. MaxRounds
    BY ClientBoundsAssumption
  <2> QED BY <1>4, <2>1, <2>2, <2>3, <2>4, <2>5, <2>6, <2>7, <2>8 DEF TypeOK
<1> QED BY <1>2, <1>5 DEF TypeInv

\* The record a thread sends names an existing register.
LEMMA RequestGood ==
  ASSUME TypeInv, NEW t \in Clients, call[t].cpu \in Cpus
  PROVE  /\ Request(t) \in GoodRecords
         /\ [Request(t) EXCEPT !.type = "exit"] \in GoodRecords
  BY NodeOfAssumption DEF CallRecords, Request, GoodRecords, Records, Loc, Locs, TypeInv, TypeOK, Types, Errors

\* Sending and receiving leave well-typed channels.
LEMMA ChannelType ==
  ASSUME NEW S, NEW f \in [Conns -> Seq(S)], NEW d
  PROVE  /\ \A m \in S : [f EXCEPT ![d] = Append(@, m)] \in [Conns -> Seq(S)]
         /\ d \in Conns /\ f[d] # <<>> => /\ [f EXCEPT ![d] = Tail(@)] \in [Conns -> Seq(S)]
                                          /\ Head(f[d]) \in S
<1>1. \A s \in Seq(S), m \in S : Append(s, m) \in Seq(S)
  OBVIOUS
<1>2. \A s \in Seq(S) : s # <<>> => Tail(s) \in Seq(S) /\ Head(s) \in S
  OBVIOUS
<1> QED BY <1>1, <1>2

\* What the error codes are translated to.
LEMMA ReturnCodeType ==
  /\ \A op : \A err \in Errors : ReturnCode(op, err) \in ReturnCodes
  /\ \A c : Refusal(c) \in ReturnCodes
  BY DEF Errors, ReturnCode, access_client_errno, ReturnCodes, Refusal

\* A call that is not refused is for a registered CPU.
LEMMA NotRefused ==
  ASSUME NEW c, Refusal(c) = "none"
  PROVE  c.cpu \in Cpus /\ c.cpu \in registered
  BY DEF Refusal

\* A call's return leaves its locals well typed.
LEMMA ReturnType ==
  ASSUME TypeInv, NEW t \in Clients, NEW ret \in ReturnCodes, NEW data \in Vals,
         Return(t, ret, data)
  PROVE  /\ call' \in [Clients -> CallRecords]
         /\ sock' \in [Clients -> Conns \cup {-1}] /\ lock' \in [Clients -> Locks]
         /\ record' \in [Clients -> [err : Errors, data : Vals]]
         /\ result' \in [Clients -> [ret : ReturnCodes, data : Vals]]
         /\ outcome' \in [Clients -> Outcomes]
  BY Constants DEF Return, TypeInv, TypeOK, DaemonTypeOK

\* A call that has chosen a socket has an open one, which the layer's tables name.
LEMMA ChosenSocket ==
  ASSUME AccessInv, NEW t \in Clients, pc[t] \in Chosen
  PROVE  /\ pc[Main] # "fin" /\ call[t].cpu \in Cpus /\ call[t].cpu \in registered
         /\ \E c \in OpenSockets : sock[t] = cpuSockets[c]
         /\ sock[t] \in Conns /\ dpc[sock[t]] # "none"
         /\ alive => conn[sock[t]] = "open"
<1>1. pc[Main] # "fin"
  BY MainAssumption DEF AccessInv, MainInv, Chosen
<1>2. call[t].cpu \in registered /\ registered \subseteq OpenSockets /\ registered \subseteq Cpus
  BY DEF AccessInv, LockInv, SocketInv, TypeInv, TypeOK
<1>3. \E c \in OpenSockets : sock[t] = cpuSockets[c]
  <2>1. CASE sock[t] = globalSocket
    BY <1>1, <1>2, <2>1 DEF AccessInv, GlobalInv, GlobalAmong
  <2>2. CASE sock[t] # globalSocket
    BY <1>2, <2>2 DEF AccessInv, LockInv
  <2> QED BY <2>1, <2>2
<1>4. PICK c \in OpenSockets : sock[t] = cpuSockets[c]
  BY <1>3
<1>5. sock[t] \in Conns
  BY <1>4 DEF OpenSockets, AccessInv, TypeInv, TypeOK
<1> QED BY <1>1, <1>2, <1>4, <1>5 DEF AccessInv, SocketInv

\* The steps of HPMread, HPMwrite and HPMcheck preserve the types.
LEMMA AccessType ==
  ASSUME AccessInv, NEW t \in Clients, Access(t)
  PROVE  TypeInv'
<1> USE DEF AccessInv, Transition, TypeInv, TypeOK, DaemonTypeOK, daemonVars, shared, locals
<1>1. CASE Enter(t)
  <2>1. PICK c \in Requests : call' = [call EXCEPT ![t] = c]
    BY <1>1 DEF Enter
  <2>2. c \in CallRecords
    BY RequestsAssumption, NumCpusAssumption DEF LegalCalls, Cpus, CallRecords
  <2>3. calls' \in [Clients -> 0 .. MaxCalls]
    BY <1>1, ClientBoundsAssumption DEF Enter
  <2> QED BY <1>1, <2>1, <2>2, <2>3 DEF Enter
<1>2. CASE Refuse(t)
  BY <1>2, ReturnType, ReturnCodeType, ValsAssumption DEF Refuse
<1>3. CASE Choose(t)
  <2>1. call[t].cpu \in Cpus
    BY <1>3, NotRefused DEF Choose
  <2> QED BY <1>3, <2>1, Constants DEF Choose, Locks
<1>4. CASE LockSocket(t)
  BY <1>4 DEF LockSocket
<1>5. CASE Send(t)
  <2>1. Request(t) \in GoodRecords /\ Request(t) \in Records
    BY <1>5, ChosenSocket, RequestGood DEF Send, Chosen, GoodRecords
  <2>2. req' \in [Conns -> Seq(GoodRecords)] /\ req' \in [Conns -> Seq(Records)]
    BY <1>5, <2>1, ChannelType DEF Send
  <2> QED BY <1>5, <2>2 DEF Send
<1>6. CASE SendBroken(t)
  BY <1>6 DEF SendBroken, Die
<1>7. CASE Receive(t)
  <2>1. sock[t] \in Conns
    BY <1>7, ChosenSocket DEF Receive, Chosen
  <2>2. rep' \in [Conns -> Seq(GoodRecords)] /\ rep' \in [Conns -> Seq(Records)]
    BY <1>7, <2>1, ChannelType DEF Receive
  <2>3. Head(rep[sock[t]]) \in Records
    BY <1>7, <2>1, ChannelType DEF Receive
  <2>4. record' \in [Clients -> [err : Errors, data : Vals]]
    BY <1>7, <2>3 DEF Receive, Records
  <2> QED BY <1>7, <2>2, <2>4 DEF Receive
<1>8. CASE ReceiveEof(t)
  BY <1>8 DEF ReceiveEof, CallRecords
<1>9. CASE Unlock(t)
  BY <1>9, ReturnType, ReturnCodeType, ValsAssumption DEF Unlock
<1> QED BY <1>1, <1>2, <1>3, <1>4, <1>5, <1>6, <1>7, <1>8, <1>9 DEF Access

\* The steps of HPMinit, HPMaddThread and HPMfinalize preserve the types.
LEMMA ManageType ==
  ASSUME AccessInv, Manage
  PROVE  TypeInv'
<1> USE MainAssumption DEF AccessInv, Transition, TypeInv, TypeOK, DaemonTypeOK, daemonVars, shared, locals
<1>1. CASE HPMinit
  BY <1>1, ClientBoundsAssumption DEF HPMinit
<1>2. ASSUME NEW c \in Cpus, HPMaddThread(c) PROVE TypeInv'
  <2>1. [NoCall EXCEPT !.cpu = c] \in CallRecords
    <3>1. c \in 0 .. NumCpus /\ NoCall \in CallRecords
      BY Constants, NumCpusAssumption DEF Cpus
    <3> QED BY <3>1, CallType
  <2> QED BY <1>2, <2>1 DEF HPMaddThread
<1>3. CASE AddLock
  BY <1>3 DEF AddLock
<1>4. CASE AddFork
  BY <1>4, ClientBoundsAssumption DEF AddFork, DaemonStates
<1>5. CASE AddConnect
  BY <1>5 DEF AddConnect
<1>6. CASE AddRetry
  BY <1>6, ClientBoundsAssumption, SMTT(30) DEF AddRetry
<1>7. CASE AddTimeout
  BY <1>7 DEF AddTimeout, Die
<1>8. CASE AddSet
  <2>1. cpuSockets' \in [Cpus -> Conns \cup {-1}] /\ mutex' \in [Locks -> Clients \cup {Free}]
    BY <1>8 DEF AddSet
  <2> QED BY <1>8, <2>1 DEF AddSet
<1>9. CASE AddGlobal
  <2>1. globalSocket' \in Conns \cup {-1}
    <3>1. call[Main].cpu \in Cpus
      BY <1>9 DEF AddGlobal, MainInv, Adding
    <3> QED BY <1>9, <3>1 DEF AddGlobal
  <2> QED BY <1>9, <2>1, SMTT(30) DEF AddGlobal
<1>10. CASE AddRegister
  BY <1>10, Constants, ClientBoundsAssumption, SMTT(30) DEF AddRegister, MainInv, Adding
<1>11. CASE HPMfinalize
  BY <1>11, Constants DEF HPMfinalize
<1>12. CASE FinStep
  <2> DEFINE c == FinCpu
             s == cpuSockets[c]
  <2>1. c \in Cpus /\ c + 1 \in 0 .. NumCpus /\ s \in Conns \cup {-1}
    BY <1>12, NumCpusAssumption DEF FinStep, Cpus
  <2>2. call' \in [Clients -> CallRecords]
    BY <1>12, <2>1, CallType DEF FinStep, FinNext, FinCpu
  <2>3. req' \in [Conns -> Seq(GoodRecords)] /\ req' \in [Conns -> Seq(Records)]
    BY <1>12, <2>1, RequestGood, ChannelType DEF FinStep, FinCpu, GoodRecords
  <2>4. conn' \in [Conns -> {"none", "open", "closed"}] /\ cpuSockets' \in [Cpus -> Conns \cup {-1}]
    BY <1>12 DEF FinStep
  <2>5. cpuSockets_open' \in Int /\ globalSocket' \in Conns \cup {-1} /\ registeredCpus' \in Int
        /\ registered' \subseteq Cpus
    BY <1>12 DEF FinStep, GlobalAfter
  <2> QED BY <1>12, <2>2, <2>3, <2>4, <2>5 DEF FinStep
<1>13. CASE FinSkip
  <2>1. FinCpu + 1 \in 0 .. NumCpus
    BY <1>13, NumCpusAssumption DEF FinSkip, Cpus
  <2>2. call' \in [Clients -> CallRecords]
    BY <1>13, <2>1, CallType DEF FinSkip, FinNext, FinCpu
  <2> QED BY <1>13, <2>2 DEF FinSkip
<1>14. CASE FinBroken
  BY <1>14 DEF FinBroken, Die
<1>15. CASE FinEnd
  BY <1>15, Constants DEF FinEnd
<1> QED BY <1>1, <1>2, <1>3, <1>4, <1>5, <1>6, <1>7, <1>8, <1>9, <1>10, <1>11, <1>12, <1>13, <1>14, <1>15
        DEF Manage, AddStep, Finalize

\* An answer leaves well-typed channels and a well-typed history.
LEMMA AnswerType ==
  ASSUME TypeInv, NEW d \in Conns, req[d] # <<>>, NEW err \in Errors, NEW data \in Vals,
         Answer(d, err, data)
  PROVE  /\ dpc' \in [Conns -> DaemonStates]
         /\ req' \in [Conns -> Seq(GoodRecords)] /\ req' \in [Conns -> Seq(Records)]
         /\ cur' \in [Conns -> Seq(GoodRecords)] /\ cur' \in [Conns -> Seq(Records)]
         /\ outcome' \in [Clients -> Outcomes]
         /\ Head(req[d]) \in GoodRecords /\ Head(req[d]) \in Records
         /\ UNCHANGED <<alarmSet, sockFile, rep, conn, kills, cutOff>>
<1> USE DEF TypeInv, TypeOK, DaemonTypeOK, Answer
<1> DEFINE r == Head(req[d])
           a == [r EXCEPT !.err = err, !.data = data]
<1>1. r \in GoodRecords /\ r \in Records
  BY ChannelType DEF GoodRecords
<1>2. a \in Records /\ Loc(a) = Loc(r)
  BY <1>1 DEF Records, Loc
<1>3. a \in GoodRecords
  BY <1>1, <1>2 DEF GoodRecords
<1>4. <<a>> \in Seq(GoodRecords) /\ <<a>> \in Seq(Records)
  BY <1>2, <1>3
<1>5. cur' \in [Conns -> Seq(GoodRecords)] /\ cur' \in [Conns -> Seq(Records)]
  BY <1>4
<1>6. req' \in [Conns -> Seq(GoodRecords)] /\ req' \in [Conns -> Seq(Records)]
  BY ChannelType
<1>7. [err |-> err, data |-> data] \in Outcomes
  BY DEF Outcomes
<1> QED BY <1>1, <1>5, <1>6, <1>7 DEF Goto, DaemonStates

\* A handler answers the request at the head of the queue.
LEMMA ServeFrame ==
  ASSUME TypeInv, NEW d \in Conns, Serve(d)
  PROVE  /\ dpc[d] = "serve" /\ req[d] # <<>> /\ Head(req[d]) \in GoodRecords
         /\ Head(req[d]).type # "exit"
         /\ \E err \in Errors, data \in Vals :
               Answer(d, err, data) /\ (data = 0 \/ (err = "NOERROR" /\ Head(req[d]).type = "read"))
         /\ hw' = hw \/ \E v \in Vals : hw' = [hw EXCEPT ![Loc(Head(req[d]))] = v]
         /\ fdPci' = fdPci \/ \E v \in {-1, 1} : /\ fdPci' = [fdPci EXCEPT ![d][Head(req[d]).unit] = v]
                                                 /\ v = -1 => PciOpenMayFail
<1> DEFINE r == Head(req[d])
<1> USE DEF Serve, msr_read, msr_write, msr_check, pci_read, pci_write, pci_check
<1>1. dpc[d] = "serve" /\ req[d] # <<>> /\ r.type # "exit"
  BY DEF Serving
<1>2. r \in GoodRecords
  BY <1>1, ChannelType DEF TypeInv
<1>3. Loc(r) \in Locs /\ hw[Loc(r)] \in Vals /\ r.data \in Vals /\ 0 \in Vals /\ \A v \in Vals : Low(v) \in Vals
  BY <1>2, ValsAssumption DEF GoodRecords, Records, TypeInv, TypeOK, DaemonTypeOK, Low
<1>4. \E err \in Errors, data \in Vals : Answer(d, err, data) /\ (data = 0 \/ (err = "NOERROR" /\ r.type = "read"))
  <2> DEFINE Right(err, data) == Answer(d, err, data) /\ (data = 0 \/ (err = "NOERROR" /\ r.type = "read"))
  <2>1. SUFFICES \E err \in Errors, data \in Vals : Right(err, data)
    OBVIOUS
  <2>2. CASE \E err \in Errors : Answer(d, err, 0)
    <3>1. \E err \in Errors : Right(err, 0)
      BY <2>2
    <3> HIDE DEF Right
    <3> QED BY <1>3, <3>1
  <2>3. CASE \E data \in Vals : Answer(d, "NOERROR", data) /\ r.type = "read"
    <3>1. \E data \in Vals : Right("NOERROR", data)
      BY <2>3
    <3> HIDE DEF Right
    <3> QED BY <1>3, <3>1 DEF Errors
  <2> QED BY <1>3, <2>2, <2>3 DEF MsrRefused, PciRefused, PciOpenFails, Errors, Serving
<1>5. hw' = hw \/ \E v \in Vals : hw' = [hw EXCEPT ![Loc(r)] = v]
  BY <1>3
<1>6. fdPci' = fdPci \/ \E v \in {-1, 1} : /\ fdPci' = [fdPci EXCEPT ![d][r.unit] = v]
                                           /\ v = -1 => PciOpenMayFail
  BY DEF PciOpenFails, PciIsOpen
<1> QED BY <1>1, <1>2, <1>4, <1>5, <1>6

\* The handlers of the daemon preserve the types.
LEMMA ServeType ==
  ASSUME AccessInv, NEW d \in Conns, Serve(d), UNCHANGED clientVars
  PROVE  TypeInv'
<1> USE DEF AccessInv
<1> DEFINE r == Head(req[d])
<1>1. req[d] # <<>> /\ \E err \in Errors, data \in Vals : Answer(d, err, data)
  <2>1. PICK err \in Errors, data \in Vals : Answer(d, err, data) /\ (data = 0 \/ (err = "NOERROR" /\ r.type = "read"))
    BY ServeFrame
  <2> QED BY <2>1, ServeFrame
<1>2. hw' \in [Locs -> Vals]
  <2>1. hw' = hw \/ \E v \in Vals : hw' = [hw EXCEPT ![Loc(r)] = v]
    BY ServeFrame
  <2> QED BY <2>1 DEF TypeInv, TypeOK, DaemonTypeOK
<1>3. fdPci' \in [Conns -> [Nodes -> {-2, -1, 0, 1}]]
  <2>1. \A v \in {-1, 1} : [fdPci[d] EXCEPT ![r.unit] = v] \in [Nodes -> {-2, -1, 0, 1}]
    BY DEF TypeInv, TypeOK, DaemonTypeOK
  <2>2. ASSUME NEW v \in {-1, 1}, fdPci' = [fdPci EXCEPT ![d][r.unit] = v]
        PROVE  fdPci' \in [Conns -> [Nodes -> {-2, -1, 0, 1}]]
    <3>1. fdPci' = [fdPci EXCEPT ![d] = [fdPci[d] EXCEPT ![r.unit] = v]]
      BY <2>2
    <3> QED BY <2>1, <3>1 DEF TypeInv, TypeOK, DaemonTypeOK
  <2> QED BY <2>2, ServeFrame, SMTT(30) DEF TypeInv, TypeOK, DaemonTypeOK
<1> QED BY <1>1, <1>2, <1>3, AnswerType
        DEF TypeInv, TypeOK, DaemonTypeOK, clientVars, shared, locals

\* The other steps of a daemon preserve the types.
LEMMA DaemonType ==
  ASSUME AccessInv, NEW d \in Conns, UNCHANGED clientVars,
         Boot(d) \/ Reply(d) \/ stop_daemon(d) \/ AcceptTimeout(d) \/ AlarmEarly(d) \/ Killed(d)
  PROVE  TypeInv'
<1> USE DEF AccessInv, TypeInv, TypeOK, DaemonTypeOK, DaemonStates, Goto, clientVars, shared, locals
<1>1. CASE Boot(d)
  <2>1. CASE BootFail(d) \/ Bind(d) \/ Listen(d) \/ ListenFail(d) \/ Arm(d) \/ EnterAccept(d)
    BY <2>1 DEF BootFail, Bind, Listen, ListenFail, Arm, EnterAccept
  <2>2. CASE Accepted(d)
    <3>1. [n \in Nodes |-> IF n \in PciFiles THEN 0 ELSE -2] \in [Nodes -> {-2, -1, 0, 1}]
      OBVIOUS
    <3>2. fdPci' \in [Conns -> [Nodes -> {-2, -1, 0, 1}]]
      BY <2>2, <3>1 DEF Accepted
    <3> QED BY <2>2, <3>2 DEF Accepted
  <2> QED BY <1>1, <2>1, <2>2 DEF Boot
<1>2. CASE Reply(d)
  <2>1. \A S : \A s, q \in Seq(S) : s \o q \in Seq(S)
    OBVIOUS
  <2>2. \A S : <<>> \in Seq(S)
    OBVIOUS
  <2>3. rep' \in [Conns -> Seq(GoodRecords)] /\ rep' \in [Conns -> Seq(Records)]
    <3>1. CASE conn[d] = "open"
      <4>1. rep' = [rep EXCEPT ![d] = rep[d] \o cur[d]]
        BY <1>2, <3>1 DEF Reply
      <4>2. rep[d] \o cur[d] \in Seq(GoodRecords) /\ rep[d] \o cur[d] \in Seq(Records)
        BY <2>1
      <4> QED BY <4>1, <4>2
    <3>2. CASE conn[d] # "open"
      BY <1>2, <3>2 DEF Reply
    <3> QED BY <3>1, <3>2
  <2>4. cur' \in [Conns -> Seq(GoodRecords)] /\ cur' \in [Conns -> Seq(Records)]
    BY <1>2, <2>2 DEF Reply
  <2> QED BY <1>2, <2>3, <2>4 DEF Reply
<1>3. CASE stop_daemon(d) \/ AcceptTimeout(d) \/ AlarmEarly(d)
  BY <1>3 DEF stop_daemon, AcceptTimeout, AlarmEarly
<1>4. CASE Killed(d)
  BY <1>4, FlagsAssumption DEF Killed
<1> QED BY <1>1, <1>2, <1>3, <1>4

-----------------------------------------------------------------------------
(* Frames: what the steps leave alone *)

\* A register access ends the process or leaves the daemons' state and the
\* tables of the layer alone, and the locals of the other threads.
LEMMA AccessFrame ==
  ASSUME AccessInv, NEW t \in Clients, Access(t)
  PROVE  \/ Die
         \/ /\ alive /\ UNCHANGED <<dpc, alarmSet, sockFile, fdPci, cur, conn, hw, kills, cutOff>>
            /\ UNCHANGED <<alive, hooks, shared, rounds>>
            /\ pc[t] \in {"idle", "called"} \cup Chosen
            /\ \E to \in {"idle", "called"} \cup Chosen : pc' = [pc EXCEPT ![t] = to]
            /\ pc[t] = "idle" => pc[Main] # "fin"
            /\ \A u \in Clients \ {t} :
                  /\ call'[u] = call[u] /\ sock'[u] = sock[u] /\ lock'[u] = lock[u]
                  /\ record'[u] = record[u] /\ outcome'[u] = outcome[u]
<1> USE DEF Chosen, Transition, daemonVars, shared, locals
<1>1. CASE Enter(t)
  BY <1>1 DEF Enter
<1>2. CASE Refuse(t)
  BY <1>2 DEF Refuse, Return
<1>3. CASE Choose(t)
  BY <1>3 DEF Choose
<1>4. CASE LockSocket(t)
  BY <1>4 DEF LockSocket
<1>5. CASE Send(t)
  BY <1>5 DEF Send
<1>6. CASE SendBroken(t)
  BY <1>6 DEF SendBroken
<1>7. CASE Receive(t)
  BY <1>7 DEF Receive
<1>8. CASE ReceiveEof(t)
  BY <1>8 DEF ReceiveEof
<1>9. CASE Unlock(t)
  BY <1>9 DEF Unlock, Return
<1> QED BY <1>1, <1>2, <1>3, <1>4, <1>5, <1>6, <1>7, <1>8, <1>9 DEF Access

\* The steps that end the process.
LEMMA DieFrame ==
  ASSUME Die
  PROVE  /\ ~alive' /\ UNCHANGED <<dpc, alarmSet, sockFile, fdPci, req, rep, cur, hw, outcome, kills, cutOff>>
         /\ UNCHANGED <<hooks, shared, mutex, pc, call, sock, lock, record, result, tries, calls, rounds>>
         /\ UNCHANGED <<registered, registeredCpus, cpuSockets, cpuSockets_open, globalSocket>>
         /\ \A d \in Conns : /\ conn'[d] # "open"
                             /\ conn[d] = "none" => conn'[d] = "none"
                             /\ conn[d] = "closed" => conn'[d] = "closed"
  BY DEF Die, shared, locals

\* access_client_startDaemon starts a new daemon.
LEMMA ForkFrame ==
  ASSUME AddFork
  PROVE  /\ \E d \in Conns : /\ dpc[d] = "none" /\ dpc' = [dpc EXCEPT ![d] = "boot"]
                             /\ sock' = [sock EXCEPT ![Main] = d]
         /\ pc[Main] = "a_fork" /\ pc' = [pc EXCEPT ![Main] = "a_connect"] /\ alive
         /\ UNCHANGED <<alarmSet, sockFile, fdPci, req, rep, cur, conn, hw, outcome, kills, cutOff>>
         /\ UNCHANGED <<alive, hooks, mutex, call, lock, record, result, calls, rounds>>
         /\ UNCHANGED <<registered, registeredCpus, cpuSockets, cpuSockets_open, globalSocket>>
<1>1. PICK d \in Conns : /\ \A e \in Conns : dpc[e] = "none" <=> e >= d
                         /\ dpc' = [dpc EXCEPT ![d] = "boot"]
                         /\ sock' = [sock EXCEPT ![Main] = d]
  BY DEF AddFork
<1>2. d >= d
  BY ConnsAssumption
<1>3. dpc[d] = "none"
  BY <1>1, <1>2
<1> QED BY <1>1, <1>3 DEF AddFork, Transition, shared

-----------------------------------------------------------------------------
(* The life of the daemons *)

\* Every step preserves what is known of the daemons' lives.
LEMMA DaemonLife ==
  ASSUME AccessInv, [Next]_vars
  PROVE  DaemonInv'
<1> USE DEF AccessInv, DaemonInv, BeforeUnlink
<1>0. kills \in Nat /\ cutOff \in [Conns -> DaemonStates] /\ sockFile \in [Conns -> BOOLEAN]
      /\ conn \in [Conns -> {"none", "open", "closed"}]
      /\ dpc \in [Conns -> DaemonStates] /\ fdPci \in [Conns -> [Nodes -> {-2, -1, 0, 1}]]
  BY FlagsAssumption DEF TypeInv, TypeOK, DaemonTypeOK
<1>1. CASE UNCHANGED <<dpc, sockFile, conn, kills, cutOff, fdPci>>
  BY <1>1
<1>2. CASE Die
  BY <1>2, DieFrame
<1>3. CASE AddFork
  BY <1>0, <1>3, ForkFrame
<1>4. CASE AddConnect
  BY <1>0, <1>4 DEF AddConnect, Reachable
<1>5. CASE FinStep
  <2>1. cpuSockets[FinCpu] \in Conns => conn[cpuSockets[FinCpu]] = "open"
    BY <1>5, Constants DEF FinStep, SocketInv, OpenSockets, Transition, TypeInv, TypeOK
  <2> QED BY <1>0, <1>5, <2>1 DEF FinStep
<1>6. ASSUME NEW d \in Conns, DaemonMain(d) PROVE DaemonInv'
  <2>1. CASE Boot(d)
    <3>1. CASE BootFail(d)
      BY <1>0, <1>6, <3>1 DEF BootFail, Goto
    <3>2. CASE Bind(d)
      BY <1>0, <1>6, <3>2 DEF Bind, Goto
    <3>3. CASE Listen(d)
      BY <1>0, <1>6, <3>3 DEF Listen, Goto
    <3>4. CASE ListenFail(d)
      BY <1>0, <1>6, <3>4 DEF ListenFail, Goto
    <3>5. CASE Arm(d) \/ EnterAccept(d)
      BY <1>0, <1>6, <3>5 DEF Arm, EnterAccept, Goto
    <3>6. CASE Accepted(d)
      BY <1>0, <1>6, <3>6 DEF Accepted, Goto
    <3> QED BY <2>1, <3>1, <3>2, <3>3, <3>4, <3>5, <3>6 DEF Boot
  <2>2. CASE Serve(d)
    <3>1. UNCHANGED <<sockFile, conn, kills, cutOff>> /\ dpc[d] = "serve" /\ dpc' = [dpc EXCEPT ![d] = "reply"]
      BY <2>2, ServeFrame DEF Answer, Goto
    <3>2. ASSUME NEW e \in Conns, NEW n \in Nodes, ~PciOpenMayFail PROVE fdPci'[e][n] # -1
      <4>1. CASE fdPci' = fdPci
        BY <3>2, <4>1
      <4>2. ASSUME NEW m, fdPci' = [fdPci EXCEPT ![d][m] = 1] PROVE fdPci'[e][n] # -1
        <5>1. fdPci' = [fdPci EXCEPT ![d] = [fdPci[d] EXCEPT ![m] = 1]]
          BY <4>2
        <5> QED BY <1>0, <3>2, <5>1
      <4> QED BY <2>2, <3>2, <4>1, <4>2, ServeFrame
    <3> QED BY <1>0, <3>1, <3>2
  <2>3. CASE Reply(d)
    BY <1>0, <2>3 DEF Reply, Goto
  <2>4. CASE stop_daemon(d)
    BY <1>0, <2>4 DEF stop_daemon, Goto, FlightInv, Flight
  <2> QED BY <1>6, <2>1, <2>2, <2>3, <2>4 DEF DaemonMain
<1>7. ASSUME NEW d \in Conns, AcceptTimeout(d) \/ AlarmEarly(d) \/ Killed(d) PROVE DaemonInv'
  BY <1>0, <1>7 DEF AcceptTimeout, AlarmEarly, Killed, Goto
<1>8. CASE Manage
  <2>1. CASE HPMinit \/ (\E c \in Cpus : HPMaddThread(c)) \/ AddLock \/ AddRetry \/ AddSet \/ AddGlobal \/ AddRegister
             \/ HPMfinalize \/ FinSkip \/ FinEnd
    BY <1>1, <2>1 DEF HPMinit, HPMaddThread, AddLock, AddRetry, AddSet, AddGlobal, AddRegister, HPMfinalize,
                      FinSkip, FinEnd, daemonVars
  <2> QED BY <1>2, <1>3, <1>4, <1>5, <1>8, <2>1 DEF Manage, AddStep, Finalize, AddTimeout, FinBroken
<1> QED BY <1>1, <1>2, <1>6, <1>7, <1>8, AccessFrame DEF Next, DaemonStep, Timeout, ClientKilled, vars, daemonVars

-----------------------------------------------------------------------------
(* Where Main is *)

\* A step of a daemon leaves the client alone; the client's own steps are a
\* register access, a step of Main, or the end of the process.
LEMMA WhoSteps ==
  ASSUME AccessInv, [Next]_vars
  PROVE  \/ UNCHANGED clientVars
         \/ Die
         \/ \E t \in Clients : Access(t)
         \/ Manage
  BY DEF Next, DaemonStep, Timeout, ClientKilled, vars

\* The client's variables one by one.
LEMMA ClientFrame ==
  ASSUME UNCHANGED clientVars
  PROVE  /\ UNCHANGED <<alive, hooks, mutex, pc, call, sock, lock, record, result, tries, calls, rounds>>
         /\ UNCHANGED <<registered, registeredCpus, cpuSockets, cpuSockets_open, globalSocket>>
  BY DEF clientVars, shared, locals

\* Every step preserves what Main knows where it is.
LEMMA MainStep ==
  ASSUME AccessInv, [Next]_vars
  PROVE  MainInv'
<1> USE MainAssumption DEF AccessInv, MainInv, Adding
<1>0. /\ pc \in [Clients -> {"idle", "called", "lock", "send", "recv", "unlock", "a_lock",
                             "a_fork", "a_connect", "a_set", "a_global", "a_reg", "fin"}]
      /\ call \in [Clients -> CallRecords] /\ registered \subseteq Cpus
  BY DEF TypeInv, TypeOK
<1>1. CASE UNCHANGED clientVars
  BY <1>1, ClientFrame
<1>2. CASE Die
  BY <1>2, DieFrame
<1>3. ASSUME NEW t \in Clients, Access(t) PROVE MainInv'
  <2>1. CASE Die
    BY <2>1, <1>2
  <2>2. CASE ~Die
    <3>1. PICK to \in {"idle", "called"} \cup Chosen : pc' = [pc EXCEPT ![t] = to]
      BY <1>3, <2>2, AccessFrame
    <3>2. /\ UNCHANGED <<hooks, registered>> /\ pc[t] \in {"idle", "called"} \cup Chosen
          /\ pc[t] = "idle" => pc[Main] # "fin"
          /\ \A u \in Clients \ {t} : call'[u] = call[u]
      BY <1>3, <2>2, AccessFrame DEF shared
    <3> QED BY <1>0, <3>1, <3>2 DEF Chosen
  <2> QED BY <2>1, <2>2
<1>4. CASE HPMinit
  BY <1>4 DEF HPMinit, shared, locals
<1>5. ASSUME NEW c \in Cpus, HPMaddThread(c) PROVE MainInv'
  <2>1. call'[Main].cpu = c
    BY <1>0, <1>5, Constants DEF HPMaddThread, NoCall
  <2> QED BY <1>0, <1>5, <2>1 DEF HPMaddThread, Transition, shared
<1>6. CASE AddLock \/ AddConnect \/ AddRetry
  BY <1>0, <1>6 DEF AddLock, AddConnect, AddRetry, Transition, shared, locals
<1>7. CASE AddFork
  BY <1>0, <1>7, ForkFrame
<1>8. CASE AddSet \/ AddGlobal
  BY <1>0, <1>8 DEF AddSet, AddGlobal, Transition, shared, locals
<1>9. CASE AddRegister
  BY <1>0, <1>9 DEF AddRegister, Transition, shared, locals
<1>10. CASE HPMfinalize
  <2>1. call'[Main].cpu = 0 /\ call'[Main].dev = "msr"
    BY <1>0, <1>10, Constants DEF HPMfinalize
  <2>2. \A c \in registered : c >= 0
    BY <1>0, NumCpusAssumption DEF Cpus
  <2> QED BY <1>0, <1>10, <2>1, <2>2, NumCpusAssumption DEF HPMfinalize, Transition, shared
<1>11. CASE FinStep \/ FinSkip
  <2>1. FinCpu \in Cpus /\ registered' = registered \ {FinCpu} /\ FinNext /\ hooks' = hooks
        /\ pc[Main] = "fin" /\ pc' = [pc EXCEPT ![Main] = "fin"]
    BY <1>0, <1>11 DEF FinStep, FinSkip, Transition, shared
  <2>2. FinCpu + 1 \in 0 .. NumCpus
    BY <2>1, NumCpusAssumption DEF Cpus
  <2>3. call'[Main].cpu = FinCpu + 1 /\ call'[Main].dev = "msr"
    BY <1>0, <2>1, <2>2, CallType DEF FinNext, FinCpu
  <2>4. \A c \in registered \ {FinCpu} : c >= FinCpu + 1
    BY <1>0, <2>1, NumCpusAssumption DEF Cpus, FinCpu
  <2> QED BY <1>0, <2>1, <2>2, <2>3, <2>4
<1>12. CASE FinEnd
  <2>1. registered = {}
    BY <1>0, <1>12, NumCpusAssumption DEF FinEnd, Transition, FinCpu, Cpus
  <2> QED BY <1>0, <1>12, <2>1 DEF FinEnd, Transition, shared
<1> QED BY <1>1, <1>2, <1>3, <1>4, <1>5, <1>6, <1>7, <1>8, <1>9, <1>10, <1>11, <1>12, WhoSteps
        DEF Manage, AddStep, Finalize, AddTimeout, FinBroken

-----------------------------------------------------------------------------
(* The sockets *)

\* A step of a daemon neither connects nor disconnects anybody, and a daemon
\* that was started stays started.
LEMMA DaemonConn ==
  ASSUME AccessInv, [Next]_vars, ~Die, ~Manage, \A t \in Clients : ~Access(t)
  PROVE  UNCHANGED clientVars /\ conn' = conn /\ \A e \in Conns : dpc[e] # "none" => dpc'[e] # "none"
<1> USE DEF AccessInv, Goto
<1>0. dpc \in [Conns -> DaemonStates]
  BY DEF TypeInv, TypeOK, DaemonTypeOK
<1>1. CASE UNCHANGED vars
  BY <1>1 DEF vars, daemonVars
<1>2. ASSUME NEW d \in Conns, DaemonStep(d) \/ Timeout(d) \/ (Killed(d) /\ UNCHANGED clientVars)
      PROVE  UNCHANGED clientVars /\ conn' = conn /\ \A e \in Conns : dpc[e] # "none" => dpc'[e] # "none"
  <2>1. UNCHANGED clientVars
    BY <1>2 DEF DaemonStep, Timeout
  <2>2. CASE Boot(d)
    BY <1>0, <2>1, <2>2 DEF Boot, BootFail, Bind, Listen, ListenFail, Arm, EnterAccept, Accepted
  <2>3. CASE Serve(d)
    BY <1>0, <2>1, <2>3, ServeFrame DEF Answer
  <2>4. CASE Reply(d) \/ stop_daemon(d) \/ AcceptTimeout(d) \/ AlarmEarly(d) \/ Killed(d)
    BY <1>0, <2>1, <2>4 DEF Reply, stop_daemon, AcceptTimeout, AlarmEarly, Killed
  <2> QED BY <1>2, <2>2, <2>3, <2>4 DEF DaemonStep, DaemonMain, Timeout
<1> QED BY <1>1, <1>2 DEF Next, ClientKilled

\* Every step preserves what is known of the sockets.
LEMMA SocketStep ==
  ASSUME AccessInv, [Next]_vars
  PROVE  SocketInv'
<1> USE MainAssumption DEF AccessInv, SocketInv, OpenSockets
<1>0. /\ pc \in [Clients -> {"idle", "called", "lock", "send", "recv", "unlock", "a_lock",
                             "a_fork", "a_connect", "a_set", "a_global", "a_reg", "fin"}]
      /\ call \in [Clients -> CallRecords] /\ registered \subseteq Cpus
      /\ cpuSockets \in [Cpus -> Conns \cup {-1}] /\ -1 \notin Conns
      /\ sock \in [Clients -> Conns \cup {-1}]
      /\ conn \in [Conns -> {"none", "open", "closed"}] /\ dpc \in [Conns -> DaemonStates]
  BY Constants DEF TypeInv, TypeOK, DaemonTypeOK
<1>1. CASE ~Die /\ ~Manage /\ \A t \in Clients : ~Access(t)
  BY <1>0, <1>1, ClientFrame, DaemonConn
<1>2. CASE Die
  BY <1>0, <1>2, DieFrame
<1>3. ASSUME NEW t \in Clients, Access(t), ~Die PROVE SocketInv'
  <2>1. PICK to \in {"idle", "called"} \cup Chosen : pc' = [pc EXCEPT ![t] = to]
    BY <1>3, AccessFrame
  <2>2. /\ UNCHANGED <<alive, registered, cpuSockets, conn, dpc>>
        /\ pc[t] \in {"idle", "called"} \cup Chosen
        /\ \A u \in Clients \ {t} : call'[u] = call[u] /\ sock'[u] = sock[u]
    BY <1>3, AccessFrame DEF shared
  <2>3. \/ UNCHANGED <<pc[Main], call[Main], sock[Main]>>
        \/ /\ pc[Main] \notin {"a_global", "a_reg", "a_connect", "a_set"}
           /\ pc'[Main] \notin {"a_global", "a_reg", "a_connect", "a_set"}
    BY <1>0, <2>1, <2>2 DEF Chosen
  <2> QED BY <1>0, <2>2, <2>3
<1>4. CASE HPMinit
  BY <1>4 DEF HPMinit, daemonVars, shared, locals
<1>5. ASSUME NEW c \in Cpus, HPMaddThread(c) PROVE SocketInv'
  <2>1. cpuSockets[c] < 0
    BY <1>0, <1>5, ConnsAssumption DEF HPMaddThread, Transition
  <2> QED BY <1>0, <1>5, <2>1 DEF HPMaddThread, Transition, daemonVars, shared
<1>6. CASE AddLock \/ AddRetry \/ HPMfinalize \/ FinSkip \/ FinEnd
  BY <1>0, <1>6 DEF AddLock, AddRetry, HPMfinalize, FinSkip, FinEnd, Transition, daemonVars, shared, locals
<1>7. CASE AddFork
  BY <1>0, <1>7, ForkFrame DEF DaemonInv
<1>8. CASE AddConnect
  BY <1>0, <1>8 DEF AddConnect, Transition, shared, locals
<1>9. CASE AddSet
  <2>1. call[Main].cpu \in Cpus \ registered /\ sock[Main] \in Conns
    BY <1>9 DEF AddSet, Transition, MainInv, Adding
  <2>2. OpenSockets' = OpenSockets \cup {call[Main].cpu}
    BY <1>0, <1>9, <2>1 DEF AddSet
  <2> QED BY <1>0, <1>9, <2>1, <2>2 DEF AddSet, Transition, daemonVars, locals
<1>10. CASE AddGlobal \/ AddRegister
  BY <1>0, <1>10 DEF AddGlobal, AddRegister, Transition, daemonVars, shared, locals
<1>11. CASE FinStep
  <2> DEFINE c == FinCpu
             s == cpuSockets[c]
  <2>0. c \in registered /\ pc[Main] = "fin" /\ \A d \in Conns : d > 0
    BY <1>11, ConnsAssumption DEF FinStep, Transition
  <2>1. c \in registered /\ c \in Cpus /\ c \in OpenSockets /\ s \in Conns /\ s > 0
    <3>1. c \in registered /\ c \in Cpus /\ c \in OpenSockets
      BY <1>0, <2>0
    <3> QED BY <1>0, <2>0, <3>1
  <2>2. /\ conn' = [conn EXCEPT ![s] = "closed"] /\ cpuSockets' = [cpuSockets EXCEPT ![c] = -1]
        /\ registered' = registered \ {c} /\ UNCHANGED <<dpc, alive, sock>>
        /\ pc[Main] = "fin" /\ pc'[Main] = "fin"
    BY <1>0, <1>11, <2>1 DEF FinStep, Transition
  <2>3. OpenSockets' = OpenSockets \ {c}
    BY <1>0, <2>1, <2>2
  <2> QED BY <1>0, <2>1, <2>2, <2>3
<1> QED BY <1>1, <1>2, <1>3, <1>4, <1>5, <1>6, <1>7, <1>8, <1>9, <1>10, <1>11
        DEF Manage, AddStep, Finalize, AddTimeout, FinBroken

-----------------------------------------------------------------------------
(* The globalSocket and the counters *)

\* Adding one CPU to a set of CPUs, or removing one, changes its size by one.
LEMMA CountCpus ==
  ASSUME NEW S, S \subseteq Cpus, NEW c \in Cpus
  PROVE  /\ Cardinality(S) \in Nat
         /\ c \notin S => Cardinality(S \cup {c}) = Cardinality(S) + 1
         /\ c \in S => Cardinality(S \ {c}) = Cardinality(S) - 1
<1>1. IsFiniteSet(Cpus)
  BY FS_Interval, NumCpusAssumption DEF Cpus
<1>2. IsFiniteSet(S)
  BY <1>1, FS_Subset
<1> QED BY <1>2, FS_AddElement, FS_RemoveElement, FS_CardinalityType

\* Every step preserves that the counters count.
LEMMA CountStep ==
  ASSUME AccessInv, [Next]_vars
  PROVE  CountInv'
<1> USE MainAssumption DEF AccessInv, CountInv
<1>0. /\ registered \subseteq Cpus /\ OpenSockets \subseteq Cpus /\ -1 \notin Conns
      /\ cpuSockets \in [Cpus -> Conns \cup {-1}] /\ \A d \in Conns : d > 0
  BY Constants, ConnsAssumption DEF TypeInv, TypeOK, OpenSockets
<1>1. CASE UNCHANGED clientVars
  BY <1>1, ClientFrame DEF OpenSockets
<1>2. CASE Die
  BY <1>2, DieFrame DEF OpenSockets
<1>3. ASSUME NEW t \in Clients, Access(t), ~Die PROVE CountInv'
  BY <1>3, AccessFrame DEF shared, OpenSockets
<1>4. CASE HPMinit \/ (\E c \in Cpus : HPMaddThread(c)) \/ AddLock \/ AddConnect \/ AddRetry \/ AddGlobal
           \/ HPMfinalize \/ FinSkip \/ FinEnd
  BY <1>4 DEF HPMinit, HPMaddThread, AddLock, AddConnect, AddRetry, AddGlobal, HPMfinalize, FinSkip, FinEnd,
              shared, OpenSockets
<1>5. CASE AddFork
  BY <1>5, ForkFrame DEF OpenSockets
<1>6. CASE AddSet
  <2>1. call[Main].cpu \in Cpus /\ call[Main].cpu \notin registered /\ sock[Main] \in Conns
        /\ OpenSockets = registered
    BY <1>6 DEF AddSet, Transition, MainInv, Adding, SocketInv
  <2>2. OpenSockets' = OpenSockets \cup {call[Main].cpu}
    BY <1>0, <1>6, <2>1 DEF AddSet, OpenSockets
  <2> QED BY <1>0, <1>6, <2>1, <2>2, CountCpus DEF AddSet
<1>7. CASE AddRegister
  <2>1. call[Main].cpu \in Cpus /\ call[Main].cpu \notin registered
    BY <1>7 DEF AddRegister, Transition, MainInv, Adding
  <2> QED BY <1>0, <1>7, <2>1, CountCpus DEF AddRegister, OpenSockets
<1>8. CASE FinStep
  <2> DEFINE c == FinCpu
             s == cpuSockets[c]
  <2>1. c \in registered /\ c \in Cpus /\ OpenSockets = registered
    BY <1>0, <1>8 DEF FinStep, Transition, SocketInv
  <2>2. s \in Conns /\ s > 0
    BY <1>0, <2>1 DEF OpenSockets
  <2>3. /\ cpuSockets' = [cpuSockets EXCEPT ![c] = -1] /\ cpuSockets_open' = cpuSockets_open - 1
        /\ registered' = registered \ {c} /\ registeredCpus' = registeredCpus - 1
    BY <1>8, <2>2 DEF FinStep
  <2>4. OpenSockets' = OpenSockets \ {c}
    BY <1>0, <2>1, <2>3 DEF OpenSockets
  <2> QED BY <1>0, <2>1, <2>3, <2>4, CountCpus
<1> QED BY <1>1, <1>2, <1>3, <1>4, <1>5, <1>6, <1>7, <1>8, WhoSteps
        DEF Manage, AddStep, Finalize, AddTimeout, FinBroken

\* Every step preserves that the globalSocket is one of the sockets.
LEMMA GlobalStep ==
  ASSUME AccessInv, [Next]_vars
  PROVE  GlobalInv'
<1> USE MainAssumption DEF AccessInv, GlobalInv, GlobalAmong, OpenSockets
<1>0. /\ pc \in [Clients -> {"idle", "called", "lock", "send", "recv", "unlock", "a_lock",
                             "a_fork", "a_connect", "a_set", "a_global", "a_reg", "fin"}]
      /\ registered \subseteq Cpus /\ -1 \notin Conns
      /\ cpuSockets \in [Cpus -> Conns \cup {-1}]
  BY Constants DEF TypeInv, TypeOK
<1>1. CASE UNCHANGED clientVars
  BY <1>1, ClientFrame
<1>2. CASE Die
  BY <1>2, DieFrame
<1>3. ASSUME NEW t \in Clients, Access(t), ~Die PROVE GlobalInv'
  <2>1. PICK to \in {"idle", "called"} \cup Chosen : pc' = [pc EXCEPT ![t] = to]
    BY <1>3, AccessFrame
  <2>2. UNCHANGED <<registered, cpuSockets, globalSocket>> /\ pc[t] \in {"idle", "called"} \cup Chosen
    BY <1>3, AccessFrame DEF shared
  <2> QED BY <1>0, <2>1, <2>2 DEF Chosen
<1>4. CASE HPMinit \/ (\E c \in Cpus : HPMaddThread(c)) \/ AddLock \/ AddConnect \/ AddRetry
  BY <1>0, <1>4 DEF HPMinit, HPMaddThread, AddLock, AddConnect, AddRetry, Transition, shared, locals
<1>5. CASE AddFork
  BY <1>0, <1>5, ForkFrame
<1>6. CASE AddSet
  <2>1. /\ pc[Main] = "a_set" /\ pc'[Main] = "a_global" /\ OpenSockets = registered
        /\ call[Main].cpu \in Cpus \ registered
        /\ UNCHANGED <<registered, globalSocket>>
        /\ cpuSockets' = [cpuSockets EXCEPT ![call[Main].cpu] = sock[Main]]
    BY <1>0, <1>6 DEF AddSet, Transition, SocketInv, MainInv, Adding
  <2>2. \A c \in registered : cpuSockets'[c] = cpuSockets[c]
    BY <1>0, <2>1
  <2> QED BY <1>0, <2>1, <2>2
<1>7. CASE AddGlobal
  <2>1. pc[Main] = "a_global" /\ pc'[Main] = "a_reg" /\ OpenSockets = registered \cup {call[Main].cpu}
        /\ UNCHANGED <<registered, cpuSockets>>
    BY <1>0, <1>7 DEF AddGlobal, Transition, SocketInv
  <2> QED BY <1>0, <1>7, <2>1 DEF AddGlobal
<1>8. CASE AddRegister
  BY <1>0, <1>8 DEF AddRegister, Transition
<1>9. CASE HPMfinalize \/ FinSkip
  BY <1>0, <1>9 DEF HPMfinalize, FinSkip, Transition, shared
<1>10. CASE FinStep
  <2>1. OpenSockets' = {} => cpuSockets_open' = 0
    <3>1. cpuSockets_open' = Cardinality(OpenSockets')
      BY CountStep DEF CountInv, OpenSockets
    <3> QED BY <3>1, FS_EmptySet
  <2> QED BY <1>0, <1>10, <2>1 DEF FinStep, Transition, GlobalAfter
<1>11. CASE FinEnd
  <2>1. registered = {} /\ OpenSockets = {}
    BY <1>0, <1>11, NumCpusAssumption DEF FinEnd, Transition, FinCpu, Cpus, SocketInv, MainInv
  <2> QED BY <1>0, <1>11, <2>1 DEF FinEnd, Transition, shared
<1> QED BY <1>1, <1>2, <1>3, <1>4, <1>5, <1>6, <1>7, <1>8, <1>9, <1>10, <1>11, WhoSteps
        DEF Manage, AddStep, Finalize, AddTimeout, FinBroken

-----------------------------------------------------------------------------
(* The locks *)

\* The steps of a register access take and release only the lock of the call.
LEMMA AccessLock ==
  ASSUME AccessInv, NEW u \in Clients, Access(u), ~Die
  PROVE  LockInv'
<1> USE DEF AccessInv, LockInv, Transition, Chosen, Locked
<1>0. /\ pc \in [Clients -> {"idle", "called", "lock", "send", "recv", "unlock", "a_lock",
                             "a_fork", "a_connect", "a_set", "a_global", "a_reg", "fin"}]
      /\ sock \in [Clients -> Conns \cup {-1}] /\ lock \in [Clients -> Locks]
      /\ mutex \in [Locks -> Clients \cup {Free}] /\ Free \notin Clients
      /\ call \in [Clients -> CallRecords]
  BY FreeAssumption DEF TypeInv, TypeOK
<1>1. UNCHANGED <<registered, cpuSockets, globalSocket>>
  BY AccessFrame DEF shared
<1>2. \A t \in Clients \ {u} : /\ call'[t] = call[t] /\ sock'[t] = sock[t] /\ lock'[t] = lock[t]
                               /\ pc'[t] = pc[t]
  BY <1>0, AccessFrame
<1>3. CASE Enter(u) \/ Refuse(u)
  BY <1>0, <1>1, <1>2, <1>3 DEF Enter, Refuse
<1>4. CASE Choose(u)
  <2>1. call[u].cpu \in registered /\ call' = call /\ mutex' = mutex
    BY <1>4, NotRefused DEF Choose
  <2>2. \/ lock'[u] = GlobalLock /\ sock'[u] = globalSocket
        \/ /\ lock'[u] = call[u].cpu
           /\ sock'[u] = cpuSockets[call[u].cpu] /\ sock'[u] # globalSocket
    BY <1>0, <1>4 DEF Choose, UsesOwn
  <2> QED BY <1>0, <1>1, <1>2, <1>4, <2>1, <2>2 DEF Choose
<1>5. CASE LockSocket(u)
  BY <1>0, <1>1, <1>2, <1>5 DEF LockSocket, locals
<1>6. CASE Send(u) \/ Receive(u) \/ ReceiveEof(u)
  BY <1>0, <1>1, <1>2, <1>6 DEF Send, Receive, ReceiveEof, locals
<1>7. CASE Unlock(u)
  BY <1>0, <1>1, <1>2, <1>7 DEF Unlock
<1> QED BY <1>3, <1>4, <1>5, <1>6, <1>7 DEF Access, SendBroken

\* Every step preserves that a call holds the lock of its socket.
LEMMA LockStep ==
  ASSUME AccessInv, [Next]_vars
  PROVE  LockInv'
<1> USE MainAssumption DEF AccessInv, LockInv, Chosen, Locked
<1>0. /\ pc \in [Clients -> {"idle", "called", "lock", "send", "recv", "unlock", "a_lock",
                             "a_fork", "a_connect", "a_set", "a_global", "a_reg", "fin"}]
      /\ sock \in [Clients -> Conns \cup {-1}] /\ lock \in [Clients -> Locks]
      /\ mutex \in [Locks -> Clients \cup {Free}] /\ Free \notin Clients
      /\ call \in [Clients -> CallRecords]
      /\ registered \subseteq Cpus /\ -1 \notin Conns /\ GlobalLock \notin Cpus
      /\ cpuSockets \in [Cpus -> Conns \cup {-1}]
  BY FreeAssumption, Constants DEF TypeInv, TypeOK
<1>1. CASE UNCHANGED clientVars
  BY <1>1, ClientFrame
<1>2. CASE Die
  BY <1>2, DieFrame
<1>3. CASE HPMinit \/ (\E c \in Cpus : HPMaddThread(c)) \/ AddConnect \/ AddRetry \/ HPMfinalize \/ FinEnd
  BY <1>0, <1>3 DEF HPMinit, HPMaddThread, AddConnect, AddRetry, HPMfinalize, FinEnd,
                    Transition, shared, locals
<1>4. CASE AddLock
  <2>1. call[Main].cpu \in Locks
    BY <1>4 DEF AddLock, Transition, MainInv, Adding, Locks
  <2> QED BY <1>0, <1>4, <2>1 DEF AddLock, Transition, shared, locals
<1>5. CASE AddFork
  BY <1>0, <1>5, ForkFrame
<1>6. CASE AddSet
  <2>1. call[Main].cpu \in Cpus \ registered /\ call[Main].cpu # GlobalLock
    BY <1>0, <1>6 DEF AddSet, Transition, MainInv, Adding
  <2> QED BY <1>0, <1>6, <2>1 DEF AddSet, Transition, locals
<1>7. CASE AddGlobal
  <2>1. CASE globalSocket = -1
    <3>1. registered = {}
      BY <1>0, <1>7, <2>1 DEF AddGlobal, Transition, GlobalInv, GlobalAmong, SocketInv, OpenSockets
    <3> QED BY <1>0, <1>7, <3>1 DEF AddGlobal, Transition, locals
  <2>2. CASE globalSocket # -1
    BY <1>0, <1>7, <2>2 DEF AddGlobal, Transition, locals
  <2> QED BY <2>1, <2>2
<1>8. CASE AddRegister
  BY <1>0, <1>8 DEF AddRegister, Transition
<1>9. CASE FinStep \/ FinSkip
  BY <1>0, <1>9 DEF FinStep, FinSkip, Transition, MainInv
<1> QED BY <1>1, <1>2, <1>3, <1>4, <1>5, <1>6, <1>7, <1>8, <1>9, AccessLock, WhoSteps
        DEF Manage, AddStep, Finalize, AddTimeout, FinBroken

-----------------------------------------------------------------------------
(* What is on its way *)

\* Sequences of at most one element, as the connections hold them.
LEMMA ShortSeq ==
  ASSUME NEW S
  PROVE  /\ \A s \in Seq(S) : Len(s) = 1 => s # <<>> /\ Tail(s) = <<>> /\ Head(s) = s[1] /\ s[1] \in S
         /\ \A s \in Seq(S) : <<>> \o s = s
         /\ \A m : /\ <<m>> # <<>> /\ Len(<<m>>) = 1 /\ <<m>>[1] = m
                   /\ Append(<<>>, m) = <<m>>
<1>1. ASSUME NEW s \in Seq(S), Len(s) = 1
      PROVE  s # <<>> /\ Tail(s) = <<>> /\ Head(s) = s[1] /\ s[1] \in S
  <2>1. s # <<>>
    BY <1>1
  <2>2. Tail(s) \in Seq(S) /\ Len(Tail(s)) = 0
    BY <1>1, <2>1
  <2>3. Tail(s) = <<>>
    BY <2>2, EmptySeq
  <2> QED BY <1>1, <2>1, <2>3
<1>2. \A s \in Seq(S) : <<>> \o s = s
  BY ConcatEmptySeq
<1>3. \A m : Append(<<>>, m) = <<m>>
  OBVIOUS
<1> QED BY <1>1, <1>2, <1>3

\* Two calls that hold the lock of the same socket are the same call.
LEMMA SameSocket ==
  ASSUME AccessInv, NEW t \in Clients, NEW u \in Clients, pc[t] \in Locked, pc[u] \in Locked,
         sock[t] = sock[u]
  PROVE  t = u
<1> USE DEF AccessInv, LockInv
<1>1. pc[t] \in Chosen /\ pc[u] \in Chosen /\ mutex[lock[t]] = t /\ mutex[lock[u]] = u
  BY DEF Chosen, Locked
<1>2. lock[t] = lock[u]
  <2>1. registered \subseteq OpenSockets
    BY DEF SocketInv
  <2>2. CASE sock[t] = globalSocket
    BY <1>1, <2>2
  <2>3. CASE sock[t] # globalSocket
    BY <1>1, <2>1, <2>3 DEF SocketInv
  <2> QED BY <2>2, <2>3
<1> QED BY <1>1, <1>2

\* A connection stays as it was described if nothing moves on it and those who
\* wait for an answer go on waiting.
LEMMA FlightFrame ==
  ASSUME TypeInv, NEW d \in Conns, Flight(d),
         rep'[d] = rep[d], req'[d] = req[d], cur'[d] = cur[d],
         dpc'[d] = dpc[d] \/ (dpc[d] # "reply" /\ dpc'[d] # "reply" /\ dpc[d] # "gone"),
         conn[d] = "closed" => conn'[d] = "closed",
         \A t \in Clients : Awaits(t, d) => Awaits(t, d)'
  PROVE  Flight(d)'
<1>1. /\ rep[d] \in Seq(Records) /\ req[d] \in Seq(Records) /\ cur[d] \in Seq(Records)
  BY DEF TypeInv, TypeOK, DaemonTypeOK
<1>2. /\ Len(rep[d]) = 1 => rep[d][1].by \in Clients
      /\ Len(cur[d]) = 1 => cur[d][1].by \in Clients
      /\ Len(req[d]) = 1 => req[d][1].by \in Clients
  BY <1>1, ShortSeq DEF Records
<1> QED BY <1>2 DEF Flight

\* Nobody moves on a connection whose lock a call holds that does not wait.
LEMMA QuietSocket ==
  ASSUME AccessInv, NEW t \in Clients, pc[t] \in Locked \ {"recv"}, alive, dpc[sock[t]] # "gone"
  PROVE  /\ sock[t] \in Conns /\ conn[sock[t]] = "open"
         /\ rep[sock[t]] = <<>> /\ cur[sock[t]] = <<>> /\ req[sock[t]] = <<>>
<1> DEFINE s == sock[t]
<1>1. s \in Conns /\ conn[s] = "open"
  BY ChosenSocket DEF Chosen, Locked
<1>2. Flight(s)
  BY <1>1 DEF AccessInv, FlightInv
<1>3. \A u \in Clients : ~Awaits(u, s)
  BY SameSocket DEF Awaits, Locked
<1>4. /\ rep[s] \in Seq(Records) /\ req[s] \in Seq(Records) /\ cur[s] \in Seq(Records)
  BY <1>1 DEF AccessInv, TypeInv, TypeOK, DaemonTypeOK
<1>5. /\ Len(rep[s]) = 1 => rep[s][1].by \in Clients
      /\ Len(cur[s]) = 1 => cur[s][1].by \in Clients
      /\ Len(req[s]) = 1 => req[s][1].by \in Clients
  BY <1>4, ShortSeq DEF Records
<1> QED BY <1>1, <1>2, <1>3, <1>5 DEF Flight

\* Sending and receiving keep at most one record on a connection.
LEMMA AccessFlight ==
  ASSUME AccessInv, NEW u \in Clients, Access(u), ~Die
  PROVE  FlightInv'
<1> USE DEF Transition
<1>0. /\ pc \in [Clients -> {"idle", "called", "lock", "send", "recv", "unlock", "a_lock",
                             "a_fork", "a_connect", "a_set", "a_global", "a_reg", "fin"}]
      /\ sock \in [Clients -> Conns \cup {-1}]
      /\ req \in [Conns -> Seq(Records)] /\ rep \in [Conns -> Seq(Records)]
      /\ TypeInv
  BY DEF AccessInv, TypeInv, TypeOK, DaemonTypeOK
<1>1. /\ UNCHANGED <<dpc, cur, conn>> /\ alive
      /\ \A t \in Clients \ {u} : pc'[t] = pc[t] /\ sock'[t] = sock[t]
  BY <1>0, AccessFrame
<1> SUFFICES ASSUME NEW d \in Conns PROVE Flight(d)'
  BY DEF FlightInv
<1>2. Flight(d)
  BY DEF AccessInv, FlightInv
<1>3. \A t \in Clients \ {u} : Awaits(t, d)' <=> Awaits(t, d)
  BY <1>1 DEF Awaits
<1>4. CASE Enter(u) \/ Refuse(u) \/ Choose(u) \/ LockSocket(u) \/ Unlock(u)
  <2>1. ~Awaits(u, d) /\ UNCHANGED <<req, rep>>
    BY <1>4 DEF Enter, Refuse, Choose, LockSocket, Unlock, Awaits, daemonVars
  <2> QED BY <1>0, <1>1, <1>2, <1>3, <2>1, FlightFrame
<1>5. CASE Send(u)
  <2> DEFINE s == sock[u]
  <2>1. pc[u] = "send" /\ pc'[u] = "recv" /\ sock' = sock /\ rep' = rep /\ dpc[s] # "gone"
    BY <1>0, <1>5 DEF Send, locals
  <2>2. s \in Conns /\ rep[s] = <<>> /\ cur[s] = <<>> /\ req[s] = <<>>
    BY <1>1, <2>1, QuietSocket DEF Locked
  <2>3. req' = [req EXCEPT ![s] = <<Request(u)>>]
    BY <1>5, <2>2, ShortSeq DEF Send
  <2>4. Request(u).by = u /\ Request(u).type # "exit"
    BY DEF Request, AccessInv, TypeInv, TypeOK, CallRecords
  <2>5. CASE d = s
    <3>1. req'[d] = <<Request(u)>>
      BY <1>0, <2>3, <2>5
    <3>2. Awaits(u, d)'
      BY <2>1, <2>5 DEF Awaits
    <3> QED BY <1>1, <1>2, <2>1, <2>2, <2>4, <2>5, <3>1, <3>2, ShortSeq DEF Flight
  <2>6. CASE d # s
    <3>1. ~Awaits(u, d)
      BY <2>6 DEF Awaits
    <3> QED BY <1>0, <1>1, <1>2, <1>3, <2>1, <2>3, <2>6, <3>1, FlightFrame
  <2> QED BY <2>5, <2>6
<1>6. CASE Receive(u)
  <2> DEFINE s == sock[u]
  <2>1. pc[u] = "recv" /\ sock' = sock /\ req' = req /\ rep[s] # <<>>
    BY <1>0, <1>6 DEF Receive
  <2>2. s \in Conns
    BY <2>1, ChosenSocket DEF Chosen
  <2>3. CASE d = s
    <3>1. Len(rep[d]) = 1
      BY <1>2, <2>1, <2>3 DEF Flight
    <3>2. rep'[d] = <<>>
      BY <1>0, <1>6, <2>3, <3>1, ShortSeq DEF Receive
    <3> QED BY <1>1, <1>2, <2>1, <2>3, <3>2 DEF Flight
  <2>4. CASE d # s
    <3>1. ~Awaits(u, d)
      BY <2>4 DEF Awaits
    <3>2. rep'[d] = rep[d]
      BY <1>0, <1>6, <2>4 DEF Receive
    <3> QED BY <1>0, <1>1, <1>2, <1>3, <2>1, <3>1, <3>2, FlightFrame
  <2> QED BY <2>3, <2>4
<1>7. CASE ReceiveEof(u)
  <2>1. UNCHANGED <<req, rep, sock>> /\ rep[sock[u]] = <<>> /\ dpc[sock[u]] = "gone"
    BY <1>7 DEF ReceiveEof, daemonVars
  <2>2. CASE d = sock[u]
    BY <1>1, <1>2, <2>1, <2>2 DEF Flight
  <2>3. CASE d # sock[u]
    <3>1. ~Awaits(u, d)
      BY <2>3 DEF Awaits
    <3> QED BY <1>0, <1>1, <1>2, <1>3, <2>1, <3>1, FlightFrame
  <2> QED BY <2>2, <2>3
<1> QED BY <1>4, <1>5, <1>6, <1>7 DEF Access, SendBroken

\* While HPMfinalize runs nothing is on its way on an open connection.
LEMMA FinQuiet ==
  ASSUME AccessInv, pc[Main] = "fin", NEW s \in Conns, conn[s] = "open", dpc[s] # "gone"
  PROVE  rep[s] = <<>> /\ cur[s] = <<>> /\ req[s] = <<>> /\ dpc[s] # "reply"
<1>1. Flight(s)
  BY DEF AccessInv, FlightInv
<1>2. \A u \in Clients : ~Awaits(u, s)
  BY MainAssumption DEF AccessInv, MainInv, Awaits
<1>3. /\ rep[s] \in Seq(Records) /\ req[s] \in Seq(Records) /\ cur[s] \in Seq(Records)
  BY DEF AccessInv, TypeInv, TypeOK, DaemonTypeOK
<1>4. /\ Len(rep[s]) = 1 => rep[s][1].by \in Clients
      /\ Len(cur[s]) = 1 => cur[s][1].by \in Clients
      /\ Len(req[s]) = 1 => req[s][1].by \in Clients
  BY <1>3, ShortSeq DEF Records
<1> QED BY <1>1, <1>2, <1>4 DEF Flight

\* What a turn of the loop of HPMfinalize does with an open connection.
LEMMA FinFrame ==
  ASSUME AccessInv, FinStep
  PROVE  LET s == cpuSockets[FinCpu] IN
         /\ s \in Conns /\ FinCpu \in Cpus /\ dpc[s] # "gone" /\ conn[s] = "open"
         /\ req' = [req EXCEPT ![s] = <<[Request(Main) EXCEPT !.type = "exit"]>>]
         /\ conn' = [conn EXCEPT ![s] = "closed"]
         /\ alive /\ pc[Main] = "fin" /\ pc' = [pc EXCEPT ![Main] = "fin"]
         /\ UNCHANGED <<dpc, rep, cur, hw, outcome, kills, sock, result, record>>
         /\ call' = [call EXCEPT ![Main] = [call[Main] EXCEPT !.cpu = FinCpu + 1]]
<1> DEFINE s == cpuSockets[FinCpu]
<1>1. /\ FinCpu \in registered /\ alive /\ pc[Main] = "fin" /\ \A d \in Conns : d > 0
      /\ registered \subseteq Cpus /\ cpuSockets \in [Cpus -> Conns \cup {-1}]
  BY ConnsAssumption DEF FinStep, Transition, AccessInv, TypeInv, TypeOK
<1>2. s \in Conns /\ s > 0 /\ conn[s] = "open"
  BY <1>1, MainAssumption DEF AccessInv, SocketInv, OpenSockets
<1>3. dpc[s] # "gone"
  BY <1>2 DEF FinStep
<1>4. req[s] = <<>>
  BY <1>1, <1>2, <1>3, FinQuiet
<1>5. req' = [req EXCEPT ![s] = <<[Request(Main) EXCEPT !.type = "exit"]>>]
  BY <1>2, <1>4, ShortSeq DEF FinStep
<1>6. call' = [call EXCEPT ![Main] = [call[Main] EXCEPT !.cpu = FinCpu + 1]]
  BY DEF FinStep, FinNext, FinCpu
<1> QED BY <1>1, <1>2, <1>3, <1>5, <1>6 DEF FinStep, Transition

\* Main's steps keep at most one record on a connection.
LEMMA ManageFlight ==
  ASSUME AccessInv, Manage, ~Die
  PROVE  FlightInv'
<1> USE MainAssumption DEF Transition
<1>0. /\ pc \in [Clients -> {"idle", "called", "lock", "send", "recv", "unlock", "a_lock",
                             "a_fork", "a_connect", "a_set", "a_global", "a_reg", "fin"}]
      /\ sock \in [Clients -> Conns \cup {-1}]
      /\ req \in [Conns -> Seq(Records)] /\ dpc \in [Conns -> DaemonStates]
      /\ conn \in [Conns -> {"none", "open", "closed"}]
      /\ TypeInv
  BY DEF AccessInv, TypeInv, TypeOK, DaemonTypeOK
<1> SUFFICES ASSUME NEW d \in Conns PROVE Flight(d)'
  BY DEF FlightInv
<1>1. Flight(d)
  BY DEF AccessInv, FlightInv
<1>2. CASE HPMinit \/ (\E c \in Cpus : HPMaddThread(c)) \/ AddLock \/ AddRetry \/ AddSet \/ AddGlobal \/ AddRegister
           \/ HPMfinalize \/ FinSkip \/ FinEnd
  <2>1. UNCHANGED <<dpc, req, rep, cur, conn>>
    BY <1>2 DEF HPMinit, HPMaddThread, AddLock, AddRetry, AddSet, AddGlobal, AddRegister, HPMfinalize, FinSkip,
                FinEnd, daemonVars
  <2>2. \A t \in Clients : Awaits(t, d) => Awaits(t, d)'
    BY <1>0, <1>2 DEF HPMinit, HPMaddThread, AddLock, AddRetry, AddSet, AddGlobal, AddRegister, HPMfinalize, FinSkip,
                      FinEnd, locals, Awaits
  <2> QED BY <1>0, <1>1, <2>1, <2>2, FlightFrame
<1>3. CASE AddFork
  <2>1. \A t \in Clients : Awaits(t, d) => Awaits(t, d)'
    BY <1>0, <1>3, ForkFrame DEF Awaits
  <2> QED BY <1>0, <1>1, <1>3, <2>1, ForkFrame, FlightFrame
<1>4. CASE AddConnect
  <2>1. \A t \in Clients : Awaits(t, d) => Awaits(t, d)'
    BY <1>0, <1>4 DEF Awaits, AddConnect, locals
  <2>2. UNCHANGED <<dpc, req, rep, cur>> /\ (conn[d] = "closed" => conn'[d] = "closed")
    BY <1>0, <1>4 DEF AddConnect, AccessInv, SocketInv
  <2> QED BY <1>0, <1>1, <2>1, <2>2, FlightFrame
<1>5. CASE FinStep
  <2> DEFINE s == cpuSockets[FinCpu]
             m == [Request(Main) EXCEPT !.type = "exit"]
  <2>1. /\ s \in Conns /\ dpc[s] # "gone" /\ conn[s] = "open"
        /\ req' = [req EXCEPT ![s] = <<m>>] /\ conn' = [conn EXCEPT ![s] = "closed"]
        /\ UNCHANGED <<dpc, rep, cur, sock>> /\ pc[Main] = "fin" /\ pc' = [pc EXCEPT ![Main] = "fin"]
    BY <1>5, FinFrame
  <2>2. rep[s] = <<>> /\ cur[s] = <<>> /\ dpc[s] # "reply"
    BY <2>1, FinQuiet
  <2>3. m.type = "exit"
    BY DEF Request
  <2>4. CASE d = s
    <3>1. req'[d] = <<m>> /\ conn'[d] = "closed"
      BY <1>0, <2>1, <2>4
    <3>2. req'[d] # <<>> /\ Len(req'[d]) = 1 /\ req'[d][1].type = "exit"
      BY <2>3, <3>1, ShortSeq
    <3>3. rep'[d] = <<>> /\ cur'[d] = <<>> /\ dpc'[d] # "reply"
      BY <2>1, <2>2, <2>4
    <3> QED BY <3>1, <3>2, <3>3 DEF Flight
  <2>5. CASE d # s
    <3>1. \A t \in Clients : Awaits(t, d) => Awaits(t, d)'
      BY <1>0, <2>1 DEF Awaits
    <3> QED BY <1>0, <1>1, <2>1, <2>5, <3>1, FlightFrame
  <2> QED BY <2>4, <2>5
<1> QED BY <1>2, <1>3, <1>4, <1>5 DEF Manage, AddStep, Finalize, AddTimeout, FinBroken

\* Every step keeps at most one record on a connection.
LEMMA FlightStep ==
  ASSUME AccessInv, [Next]_vars
  PROVE  FlightInv'
<1>0. /\ dpc \in [Conns -> DaemonStates] /\ req \in [Conns -> Seq(Records)] /\ rep \in [Conns -> Seq(Records)]
      /\ cur \in [Conns -> Seq(Records)] /\ TypeInv
  BY DEF AccessInv, TypeInv, TypeOK, DaemonTypeOK
<1>1. CASE Die
  <2> SUFFICES ASSUME NEW d \in Conns PROVE Flight(d)'
    BY DEF FlightInv
  <2>1. Flight(d) /\ \A t \in Clients : Awaits(t, d) => Awaits(t, d)'
    BY <1>1, DieFrame DEF AccessInv, FlightInv, Awaits
  <2> QED BY <1>0, <1>1, <2>1, DieFrame, FlightFrame
<1>2. CASE ~Die /\ ~Manage /\ \A t \in Clients : ~Access(t)
  <2>1. UNCHANGED clientVars /\ conn' = conn
    BY <1>2, DaemonConn
  <2>2. UNCHANGED <<pc, sock>>
    BY <2>1, ClientFrame
  <2>3. \A t, d : Awaits(t, d)' <=> Awaits(t, d)
    BY <2>2 DEF Awaits
  <2>4. \A e \in Conns : Flight(e)
    BY DEF AccessInv, FlightInv
  <2>5. ASSUME NEW e \in Conns, UNCHANGED <<dpc[e], req[e], rep[e], cur[e]>> PROVE Flight(e)'
    BY <1>0, <2>1, <2>3, <2>4, <2>5, FlightFrame
  <2>6. CASE UNCHANGED vars
    BY <2>5, <2>6 DEF vars, daemonVars, FlightInv
  <2>7. ASSUME NEW d \in Conns, DaemonMain(d) \/ AcceptTimeout(d) \/ AlarmEarly(d) \/ Killed(d)
        PROVE  FlightInv'
    <3>1. \A e \in Conns \ {d} : Flight(e)'
      <4>1. CASE Serve(d)
        <5>1. PICK err \in Errors, data \in Vals : Answer(d, err, data)
          BY <1>0, <4>1, ServeFrame
        <5>2. \A e \in Conns \ {d} : UNCHANGED <<dpc[e], req[e], rep[e], cur[e]>>
          BY <1>0, <5>1 DEF Answer, Goto
        <5> QED BY <2>5, <5>2
      <4>2. CASE ~Serve(d)
        <5>1. \A e \in Conns \ {d} : UNCHANGED <<dpc[e], req[e], rep[e], cur[e]>>
          BY <1>0, <2>7, <4>2 DEF DaemonMain, Boot, BootFail, Bind, Listen, ListenFail, Arm, EnterAccept, Accepted, Reply,
               stop_daemon, AcceptTimeout, AlarmEarly, Killed, Goto
        <5> QED BY <5>1, <2>5
      <4> QED BY <4>1, <4>2
    <3>2. Flight(d)'
      <4>1. CASE Boot(d) \/ AcceptTimeout(d) \/ AlarmEarly(d)
        BY <1>0, <2>1, <2>3, <2>4, <4>1, FlightFrame
           DEF Boot, BootFail, Bind, Listen, ListenFail, Arm, EnterAccept, Accepted, AcceptTimeout, AlarmEarly, Goto
      <4>2. CASE Serve(d)
        <5>1. dpc[d] = "serve" /\ req[d] # <<>> /\ Head(req[d]).type # "exit"
          BY <1>0, <4>2, ServeFrame
        <5>2. Len(req[d]) = 1 /\ rep[d] = <<>>
          BY <2>4, <5>1 DEF Flight
        <5>3. Head(req[d]) = req[d][1] /\ Tail(req[d]) = <<>> /\ Head(req[d]) \in Records
          BY <1>0, <5>2, ShortSeq
        <5>4. Awaits(req[d][1].by, d)
          BY <2>4, <5>1, <5>2, <5>3 DEF Flight
        <5>5. PICK err \in Errors, data \in Vals : Answer(d, err, data)
          BY <1>0, <4>2, ServeFrame
        <5> DEFINE a == [Head(req[d]) EXCEPT !.err = err, !.data = data]
        <5>6. a.by = req[d][1].by
          BY <5>3 DEF Records
        <5>7. dpc'[d] = "reply" /\ req'[d] = <<>> /\ cur'[d] = <<a>> /\ rep'[d] = <<>>
          BY <1>0, <5>2, <5>3, <5>5 DEF Answer, Goto
        <5>8. cur'[d] # <<>> /\ Len(cur'[d]) = 1 /\ cur'[d][1].by = req[d][1].by
          <6> HIDE DEF a
          <6> QED BY <5>6, <5>7, ShortSeq
        <5> QED BY <2>2, <5>4, <5>7, <5>8 DEF Flight, Awaits
      <4>3. CASE Reply(d)
        <5>1. dpc[d] = "reply" /\ rep[d] = <<>> /\ req[d] = <<>> /\ Len(cur[d]) = 1 /\ Awaits(cur[d][1].by, d)
          BY <2>4, <4>3 DEF Reply, Flight
        <5>2. rep[d] \o cur[d] = cur[d]
          BY <1>0, <5>1, ShortSeq
        <5>3. cur'[d] = <<>> /\ req'[d] = <<>>
              /\ \/ dpc'[d] = "serve" /\ rep'[d] = cur[d]
                 \/ dpc'[d] = "gone" /\ rep'[d] = <<>>
          BY <1>0, <4>3, <5>1, <5>2 DEF Reply, Goto
        <5> QED BY <2>2, <5>1, <5>3 DEF Flight, Awaits
      <4>4. CASE stop_daemon(d) \/ Killed(d)
        <5>1. dpc'[d] = "gone" /\ UNCHANGED <<rep, req, cur, conn>>
          BY <1>0, <4>4 DEF stop_daemon, Killed, Goto
        <5> QED BY <2>3, <2>4, <5>1 DEF Flight
      <4> QED BY <2>7, <4>1, <4>2, <4>3, <4>4 DEF DaemonMain
    <3> QED BY <3>1, <3>2 DEF FlightInv
  <2> QED BY <1>2, <2>6, <2>7 DEF Next, DaemonStep, Timeout, ClientKilled
<1> QED BY <1>1, <1>2, AccessFlight, ManageFlight

-----------------------------------------------------------------------------
(* What the answers say *)

\* The answers on a connection go on saying what the history says if nothing
\* moves on it and the calls that wait there are left alone.
LEMMA TellsFrame ==
  ASSUME TypeInv, NEW d \in Conns, Flight(d), Tells(d),
         rep'[d] = rep[d], req'[d] = req[d], cur'[d] = cur[d],
         dpc'[d] # "gone" => dpc[d] # "gone", dpc'[d] = "reply" => dpc[d] = "reply",
         \A t \in Clients : Awaits(t, d) => outcome'[t] = outcome[t] /\ call'[t].op = call[t].op
  PROVE  Tells(d)'
<1>1. /\ rep[d] \in Seq(Records) /\ req[d] \in Seq(Records) /\ cur[d] \in Seq(Records)
  BY DEF TypeInv, TypeOK, DaemonTypeOK
<1>2. /\ Len(rep[d]) = 1 => rep[d][1].by \in Clients
      /\ Len(cur[d]) = 1 => cur[d][1].by \in Clients
      /\ Len(req[d]) = 1 => req[d][1].by \in Clients
  BY <1>1, ShortSeq DEF Records
<1> QED BY <1>2 DEF Flight, Tells, Says

\* The thread that finds an answer on its socket finds its own.
LEMMA AnswerIsOwn ==
  ASSUME AccessInv, NEW t \in Clients, pc[t] = "recv", rep[sock[t]] # <<>>
  PROVE  /\ sock[t] \in Conns /\ Len(rep[sock[t]]) = 1 /\ rep[sock[t]][1] \in Records
         /\ Head(rep[sock[t]]) = rep[sock[t]][1] /\ rep[sock[t]][1].by = t
<1> DEFINE s == sock[t]
           u == rep[s][1].by
<1>1. s \in Conns
  BY ChosenSocket DEF Chosen
<1>2. Len(rep[s]) = 1 /\ Awaits(u, s)
  BY <1>1 DEF AccessInv, FlightInv, Flight
<1>3. rep[s][1] \in Records /\ Head(rep[s]) = rep[s][1]
  BY <1>1, <1>2, ShortSeq DEF AccessInv, TypeInv, TypeOK, DaemonTypeOK
<1>4. u \in Clients
  BY <1>3 DEF Records
<1>5. t = u
  BY <1>2, <1>4, SameSocket DEF Awaits, Locked
<1> QED BY <1>1, <1>2, <1>3, <1>5

\* The steps of a call keep the history and the answers in step.
LEMMA AccessOutcome ==
  ASSUME AccessInv, NEW u \in Clients, Access(u), ~Die
  PROVE  OutcomeInv'
<1> USE DEF Transition
<1>0. /\ pc \in [Clients -> {"idle", "called", "lock", "send", "recv", "unlock", "a_lock",
                             "a_fork", "a_connect", "a_set", "a_global", "a_reg", "fin"}]
      /\ sock \in [Clients -> Conns \cup {-1}]
      /\ req \in [Conns -> Seq(Records)] /\ rep \in [Conns -> Seq(Records)]
      /\ call \in [Clients -> CallRecords] /\ record \in [Clients -> [err : Errors, data : Vals]]
      /\ outcome \in [Clients -> Outcomes]
      /\ TypeInv
  BY DEF AccessInv, TypeInv, TypeOK, DaemonTypeOK
<1>1. /\ UNCHANGED <<dpc, cur, conn, kills>> /\ alive
      /\ \A t \in Clients \ {u} : /\ pc'[t] = pc[t] /\ call'[t] = call[t] /\ sock'[t] = sock[t]
                                  /\ record'[t] = record[t] /\ outcome'[t] = outcome[t]
  BY <1>0, AccessFrame
<1>2. \A d \in Conns : Flight(d) /\ Tells(d)
  BY DEF AccessInv, FlightInv, OutcomeInv
<1>3. Knows(u) /\ \A t \in Clients \ {u} : Knows(t)'
  BY <1>1 DEF AccessInv, OutcomeInv, Knows
<1>4. CASE Enter(u) \/ Refuse(u) \/ Choose(u) \/ LockSocket(u) \/ Unlock(u)
  <2>1. pc[u] # "recv" /\ UNCHANGED <<req, rep>>
    BY <1>4 DEF Enter, Refuse, Choose, LockSocket, Unlock, daemonVars
  <2>2. \A d \in Conns, t \in Clients : Awaits(t, d) => outcome'[t] = outcome[t] /\ call'[t].op = call[t].op
    BY <1>1, <2>1 DEF Awaits
  <2>3. \A d \in Conns : Tells(d)'
    BY <1>0, <1>1, <1>2, <2>1, <2>2, TellsFrame
  <2>4. pc'[u] \notin {"recv", "unlock"} /\ outcome'[u] = NoOutcome
    BY <1>0, <1>3, <1>4 DEF Enter, Refuse, Choose, LockSocket, Unlock, Return, Knows, daemonVars
  <2>5. Knows(u)'
    BY <2>4 DEF Knows, NoOutcome
  <2> QED BY <1>3, <2>3, <2>5 DEF OutcomeInv
<1>5. CASE Send(u)
  <2> DEFINE s == sock[u]
  <2>1. pc[u] = "send" /\ pc'[u] = "recv" /\ UNCHANGED <<rep, outcome, call, record>> /\ dpc[s] # "gone"
    BY <1>0, <1>5 DEF Send, locals
  <2>2. s \in Conns /\ rep[s] = <<>> /\ cur[s] = <<>> /\ req[s] = <<>>
    BY <1>1, <2>1, QuietSocket DEF Locked
  <2>3. req' = [req EXCEPT ![s] = <<Request(u)>>]
    BY <1>5, <2>2, ShortSeq DEF Send
  <2>4. Request(u).by = u /\ Request(u).type = call[u].op
    BY DEF Request
  <2>5. ASSUME NEW d \in Conns PROVE Tells(d)'
    <3>1. CASE d = s
      <4>1. req'[d][1] = Request(u)
        BY <1>0, <2>3, <3>1, ShortSeq
      <4>2. outcome[u] = NoOutcome
        BY <1>3, <2>1 DEF Knows
      <4>3. dpc'[d] # "reply"
        BY <1>1, <1>2, <2>2, <3>1 DEF Flight
      <4> QED BY <2>1, <2>2, <2>4, <3>1, <4>1, <4>2, <4>3 DEF Tells
    <3>2. CASE d # s
      BY <1>0, <1>1, <1>2, <2>1, <2>3, <3>2, TellsFrame
    <3> QED BY <3>1, <3>2
  <2>6. Knows(u)'
    BY <1>3, <2>1 DEF Knows
  <2> QED BY <1>3, <2>5, <2>6 DEF OutcomeInv
<1>6. CASE Receive(u)
  <2> DEFINE s == sock[u]
             r == rep[s][1]
  <2>1. pc[u] = "recv" /\ pc'[u] = "unlock" /\ UNCHANGED <<req, outcome, call>> /\ rep[s] # <<>>
    BY <1>0, <1>6 DEF Receive
  <2>2. s \in Conns /\ Len(rep[s]) = 1 /\ r \in Records /\ r.by = u /\ Head(rep[s]) = r
    BY <2>1, AnswerIsOwn
  <2>3. rep' = [rep EXCEPT ![s] = <<>>]
    <3>1. Tail(rep[s]) = <<>>
      BY <1>0, <2>2, ShortSeq
    <3> QED BY <1>6, <3>1 DEF Receive
  <2>4. ASSUME NEW d \in Conns PROVE Tells(d)'
    <3>1. CASE d = s
      <4>1. rep'[d] = <<>>
        BY <1>0, <2>3, <3>1
      <4> QED BY <1>1, <1>2, <2>1, <4>1 DEF Tells
    <3>2. CASE d # s
      BY <1>0, <1>1, <1>2, <2>1, <2>3, <3>2, TellsFrame
    <3> QED BY <3>1, <3>2
  <2>5. outcome[u] = Says(r) /\ record'[u] = Says(r)
    BY <1>0, <1>2, <1>6, <2>1, <2>2 DEF Receive, Tells, Says
  <2>6. Says(r) # NoOutcome
    BY <2>2 DEF Says, NoOutcome, Records, Errors
  <2>7. Knows(u)'
    BY <1>3, <2>1, <2>5, <2>6 DEF Knows
  <2> QED BY <1>3, <2>4, <2>7 DEF OutcomeInv
<1>7. CASE ReceiveEof(u)
  <2>1. pc[u] = "recv" /\ pc'[u] = "unlock" /\ UNCHANGED <<req, rep, outcome, call>> /\ dpc[sock[u]] = "gone"
    BY <1>0, <1>7 DEF ReceiveEof, daemonVars
  <2>2. kills # 0
    BY <1>1, <2>1, ChosenSocket DEF Chosen, AccessInv, DaemonInv
  <2>3. Knows(u)'
    BY <1>1, <1>3, <2>1, <2>2 DEF Knows
  <2>4. \A d \in Conns : Tells(d)'
    BY <1>0, <1>1, <1>2, <2>1, TellsFrame
  <2> QED BY <1>3, <2>3, <2>4 DEF OutcomeInv
<1> QED BY <1>4, <1>5, <1>6, <1>7 DEF Access, SendBroken

\* Every step keeps the history and the answers in step.
LEMMA OutcomeStep ==
  ASSUME AccessInv, [Next]_vars
  PROVE  OutcomeInv'
<1> USE MainAssumption
<1>0. /\ pc \in [Clients -> {"idle", "called", "lock", "send", "recv", "unlock", "a_lock",
                             "a_fork", "a_connect", "a_set", "a_global", "a_reg", "fin"}]
      /\ dpc \in [Conns -> DaemonStates] /\ req \in [Conns -> Seq(Records)] /\ rep \in [Conns -> Seq(Records)]
      /\ cur \in [Conns -> Seq(Records)] /\ outcome \in [Clients -> Outcomes]
      /\ call \in [Clients -> CallRecords] /\ kills \in Nat
      /\ TypeInv
  BY FlagsAssumption DEF AccessInv, TypeInv, TypeOK, DaemonTypeOK
<1>1. (\A d \in Conns : Flight(d) /\ Tells(d)) /\ (\A t \in Clients : Knows(t))
  BY DEF AccessInv, FlightInv, OutcomeInv
<1>2. CASE Die
  <2>1. \A t \in Clients : Knows(t)'
    BY <1>1, <1>2, DieFrame DEF Knows
  <2>2. \A d \in Conns : Tells(d)'
    BY <1>0, <1>1, <1>2, DieFrame, TellsFrame
  <2> QED BY <2>1, <2>2 DEF OutcomeInv
<1>3. CASE Manage /\ ~Die
  <2>1. /\ UNCHANGED <<rep, cur, outcome, record, kills>>
        /\ pc[Main] \notin {"recv", "unlock"} /\ pc'[Main] \notin {"recv", "unlock"}
        /\ \A t \in Clients \ {Main} : pc'[t] = pc[t] /\ call'[t] = call[t]
    <3>1. CASE HPMinit \/ (\E c \in Cpus : HPMaddThread(c)) \/ AddLock \/ AddConnect \/ AddRetry
      BY <1>0, <3>1 DEF HPMinit, HPMaddThread, AddLock, AddConnect, AddRetry, Transition, locals, daemonVars
    <3>2. CASE AddFork
      BY <1>0, <3>2, ForkFrame
    <3>3. CASE AddSet \/ AddGlobal \/ AddRegister \/ HPMfinalize \/ FinEnd
      BY <1>0, <3>3 DEF AddSet, AddGlobal, AddRegister, HPMfinalize, FinEnd, Transition, locals, daemonVars
    <3>4. CASE FinStep
      BY <1>0, <3>4, FinFrame
    <3>5. CASE FinSkip
      BY <1>0, <3>5 DEF FinSkip, FinNext, Transition, daemonVars
    <3> QED BY <1>3, <3>1, <3>2, <3>3, <3>4, <3>5 DEF Manage, AddStep, Finalize, AddTimeout, FinBroken
  <2>2. outcome[Main] = NoOutcome
    BY <1>1, <2>1 DEF Knows
  <2>3. \A t \in Clients : Knows(t)'
    BY <1>1, <2>1, <2>2 DEF Knows, NoOutcome
  <2>4. ASSUME NEW d \in Conns, req'[d] = req[d], dpc'[d] # "gone" => dpc[d] # "gone",
               dpc'[d] = "reply" => dpc[d] = "reply"
        PROVE  Tells(d)'
    <3>1. \A t \in Clients : Awaits(t, d) => outcome'[t] = outcome[t] /\ call'[t].op = call[t].op
      BY <2>1 DEF Awaits
    <3> QED BY <1>0, <1>1, <2>1, <2>4, <3>1, TellsFrame
  <2>5. ASSUME NEW d \in Conns PROVE Tells(d)'
    <3>1. CASE FinStep
      <4> DEFINE s == cpuSockets[FinCpu]
                 m == [Request(Main) EXCEPT !.type = "exit"]
      <4>1. /\ s \in Conns /\ dpc[s] # "gone" /\ conn[s] = "open" /\ pc[Main] = "fin"
            /\ req' = [req EXCEPT ![s] = <<m>>] /\ UNCHANGED dpc
        BY <3>1, FinFrame
      <4>2. CASE d = s
        <5>1. rep'[d] = <<>> /\ dpc'[d] # "reply"
          BY <2>1, <4>1, <4>2, FinQuiet
        <5>2. req'[d][1].type = "exit"
          <6>1. m.type = "exit"
            BY DEF Request
          <6> HIDE DEF m
          <6> QED BY <1>0, <4>1, <4>2, <6>1, ShortSeq
        <5> QED BY <5>1, <5>2 DEF Tells
      <4>3. CASE d # s
        BY <1>0, <2>4, <4>1, <4>3
      <4> QED BY <4>2, <4>3
    <3>2. CASE AddFork
      BY <1>0, <2>4, <3>2, ForkFrame
    <3>3. CASE ~FinStep /\ ~AddFork
      <4>1. req' = req /\ dpc' = dpc
        BY <1>3, <3>3 DEF Manage, AddStep, Finalize, AddTimeout, FinBroken, HPMinit, HPMaddThread, AddLock,
           AddConnect, AddRetry, AddSet, AddGlobal, AddRegister, HPMfinalize, FinSkip, FinEnd, daemonVars
      <4> QED BY <2>4, <4>1
    <3> QED BY <3>1, <3>2, <3>3
  <2> QED BY <2>3, <2>5 DEF OutcomeInv
<1>4. CASE ~Die /\ ~Manage /\ \A t \in Clients : ~Access(t)
  <2>1. UNCHANGED clientVars /\ UNCHANGED <<pc, sock, call, record>>
    BY <1>4, DaemonConn, ClientFrame
  <2>2. ASSUME UNCHANGED <<outcome>>, kills' = kills \/ kills' # 0 PROVE \A t \in Clients : Knows(t)'
    BY <1>1, <2>1, <2>2 DEF Knows
  <2>3. ASSUME NEW e \in Conns, UNCHANGED <<req[e], rep[e], cur[e]>>, UNCHANGED outcome,
               dpc'[e] # "gone" => dpc[e] # "gone", dpc'[e] = "reply" => dpc[e] = "reply"
        PROVE  Tells(e)'
    BY <1>0, <1>1, <2>1, <2>3, TellsFrame
  <2>4. CASE UNCHANGED vars
    BY <2>2, <2>3, <2>4 DEF vars, daemonVars, OutcomeInv
  <2>5. ASSUME NEW d \in Conns, Boot(d) \/ stop_daemon(d) \/ AcceptTimeout(d) \/ AlarmEarly(d) \/ Killed(d)
        PROVE  OutcomeInv'
    <3>1. /\ UNCHANGED <<req, rep, cur, outcome>> /\ (kills' = kills \/ kills' # 0)
          /\ \A e \in Conns : (dpc'[e] # "gone" => dpc[e] # "gone") /\ (dpc'[e] = "reply" => dpc[e] = "reply")
      BY <1>0, <2>5 DEF Boot, BootFail, Bind, Listen, ListenFail, Arm, EnterAccept, Accepted, stop_daemon, AcceptTimeout, AlarmEarly,
                        Killed, Goto
    <3> QED BY <2>2, <2>3, <3>1 DEF OutcomeInv
  <2>6. ASSUME NEW d \in Conns, Reply(d) PROVE OutcomeInv'
    <3>1. dpc[d] = "reply" /\ rep[d] = <<>> /\ req[d] = <<>> /\ outcome[cur[d][1].by] = Says(cur[d][1])
      BY <1>1, <2>6 DEF Reply, Flight, Tells
    <3>2. rep[d] \o cur[d] = cur[d]
      BY <1>0, <3>1, ShortSeq
    <3>3. /\ UNCHANGED <<req, outcome, kills>> /\ dpc'[d] # "reply" /\ rep'[d] \in {<<>>, cur[d]}
          /\ \A e \in Conns \ {d} : UNCHANGED <<rep[e], cur[e], dpc[e]>>
      BY <1>0, <2>6, <3>1, <3>2 DEF Reply, Goto
    <3>4. \A e \in Conns \ {d} : Tells(e)'
      BY <2>3, <3>3
    <3>5. Tells(d)'
      BY <3>1, <3>3 DEF Tells, Says
    <3> QED BY <2>2, <3>3, <3>4, <3>5 DEF OutcomeInv
  <2>7. ASSUME NEW d \in Conns, Serve(d) PROVE OutcomeInv'
    <3> DEFINE r == Head(req[d])
    <3>1. dpc[d] = "serve" /\ req[d] # <<>> /\ r.type # "exit"
      BY <1>0, <2>7, ServeFrame
    <3>2. Len(req[d]) = 1 /\ rep[d] = <<>>
      BY <1>1, <3>1 DEF Flight
    <3>3. r = req[d][1] /\ Tail(req[d]) = <<>> /\ r \in Records
      BY <1>0, <3>2, ShortSeq
    <3>4. r.by \in Clients /\ Awaits(r.by, d) /\ r.type = call[r.by].op
      BY <1>1, <3>1, <3>2, <3>3 DEF Flight, Tells, Records
    <3>5. PICK err \in Errors, data \in Vals :
             Answer(d, err, data) /\ (data = 0 \/ (err = "NOERROR" /\ r.type = "read"))
      BY <1>0, <2>7, ServeFrame
    <3> DEFINE a == [r EXCEPT !.err = err, !.data = data]
               o == [err |-> err, data |-> data]
    <3>6. /\ outcome' = [outcome EXCEPT ![r.by] = o] /\ UNCHANGED <<rep, kills>>
          /\ req' = [req EXCEPT ![d] = <<>>] /\ cur' = [cur EXCEPT ![d] = <<a>>]
          /\ dpc' = [dpc EXCEPT ![d] = "reply"]
      BY <3>3, <3>5 DEF Answer, Goto
    <3>7. a.by = r.by /\ Says(a) = o
      BY <3>3 DEF Records, Says
    <3>8. ASSUME NEW t \in Clients, t = r.by PROVE Knows(t)'
      <4>1. outcome'[t] = o /\ call'[t] = call[t] /\ pc'[t] = "recv" /\ (o.data = 0 \/ (o.err = "NOERROR" /\ call[t].op = "read"))
        BY <1>0, <2>1, <3>4, <3>5, <3>6, <3>8 DEF Awaits
      <4> QED BY <4>1 DEF Knows
    <3>9. ASSUME NEW t \in Clients, t # r.by PROVE Knows(t)'
      <4> HIDE DEF o, r
      <4> QED BY <1>0, <1>1, <2>1, <3>6, <3>9 DEF Knows
    <3>10. Tells(d)'
      <4>1. cur'[d][1].by = r.by /\ Says(cur'[d][1]) = o
        <5>1. cur'[d][1] = a
          <6> HIDE DEF a
          <6> QED BY <1>0, <3>6, ShortSeq
        <5> QED BY <3>7, <5>1
      <4>2. rep'[d] = <<>> /\ req'[d] = <<>> /\ outcome'[r.by] = o
        <5> HIDE DEF a, o, r
        <5> QED BY <1>0, <3>2, <3>4, <3>6
      <4> HIDE DEF o, r
      <4> QED BY <4>1, <4>2 DEF Tells
    <3>11. ASSUME NEW e \in Conns \ {d} PROVE Tells(e)'
      <4>1. UNCHANGED <<req[e], rep[e], cur[e], dpc[e]>>
        BY <1>0, <3>6
      <4>2. \A t \in Clients : Awaits(t, e) => outcome'[t] = outcome[t] /\ call'[t].op = call[t].op
        <5> HIDE DEF o, r
        <5> QED BY <1>0, <2>1, <3>4, <3>6 DEF Awaits
      <4> QED BY <1>0, <1>1, <4>1, <4>2, TellsFrame
    <3> QED BY <3>8, <3>9, <3>10, <3>11 DEF OutcomeInv
  <2> QED BY <1>4, <2>4, <2>5, <2>6, <2>7 DEF Next, DaemonStep, DaemonMain, Timeout, ClientKilled
<1> QED BY <1>2, <1>3, <1>4, AccessOutcome

-----------------------------------------------------------------------------
(* The invariant *)

\* The empty state of the layer satisfies the invariant.
LEMMA InitInv == Init => AccessInv
<1> SUFFICES ASSUME Init PROVE AccessInv
  OBVIOUS
<1> USE MainAssumption DEF Init, DaemonInit
<1>1. OpenSockets = {}
  BY DEF OpenSockets
<1>2. DaemonInv /\ MainInv /\ SocketInv /\ GlobalInv
  BY <1>1 DEF DaemonInv, MainInv, SocketInv, GlobalInv, GlobalAmong, Adding
<1>3. CountInv
  BY <1>1, FS_EmptySet DEF CountInv
<1>4. LockInv /\ FlightInv /\ OutcomeInv
  BY DEF LockInv, Chosen, Locked, FlightInv, Flight, OutcomeInv, Knows, Tells, NoOutcome
<1> QED BY <1>2, <1>3, <1>4, InitType DEF AccessInv

\* Every step preserves the types.
LEMMA TypeStep ==
  ASSUME AccessInv, [Next]_vars
  PROVE  TypeInv'
<1>1. CASE UNCHANGED vars
  BY <1>1 DEF AccessInv, TypeInv, TypeOK, DaemonTypeOK, vars, daemonVars, clientVars, shared, locals
<1>2. CASE ClientKilled
  BY <1>2, DieFrame DEF ClientKilled, Die, AccessInv, TypeInv, TypeOK, DaemonTypeOK
<1> QED BY <1>1, <1>2, AccessType, ManageType, ServeType, DaemonType
        DEF Next, DaemonStep, DaemonMain, Timeout

\* The invariant of the access layer holds in every reachable state, whatever
\* the number of CPUs, threads, connections and calls, with daemons that fail to
\* start, time out or are killed, and a client that may die (access_client.c,
\* accessDaemon.c).
THEOREM AccessInvariant == SafetySpec => []AccessInv
<1>1. AccessInv /\ [Next]_vars => AccessInv'
  <2> SUFFICES ASSUME AccessInv, [Next]_vars PROVE AccessInv'
    OBVIOUS
  <2>1. TypeInv' /\ DaemonInv' /\ MainInv'
    BY TypeStep, DaemonLife, MainStep
  <2>2. SocketInv' /\ GlobalInv' /\ CountInv' /\ LockInv'
    BY SocketStep, GlobalStep, CountStep, LockStep
  <2>3. FlightInv' /\ OutcomeInv'
    BY FlightStep, OutcomeStep
  <2> QED BY <2>1, <2>2, <2>3 DEF AccessInv
<1> QED BY <1>1, InitInv, PTL DEF SafetySpec

-----------------------------------------------------------------------------
(* What it is for *)

\* The static variables of the access layer and the locals of the calls in
\* progress keep their types (access.c, access_client.c).
THEOREM Typed == SafetySpec => []TypeOK
<1>1. AccessInv => TypeOK
  BY DEF AccessInv, TypeInv
<1> QED BY <1>1, AccessInvariant, PTL

\* No thread ever reads the answer to another thread's request: whichever lock
\* access_client_read and access_client_write choose, calls on the same socket
\* exclude each other, also while Main adds CPUs and sets the globalSocket.
THEOREM OwnAnswers == SafetySpec => []OwnReply
<1>1. AccessInv => OwnReply
  <2> SUFFICES ASSUME AccessInv, NEW t \in Clients, pc[t] = "recv", rep[sock[t]] # <<>>
               PROVE  Head(rep[sock[t]]).by = t
    BY DEF OwnReply
  <2> QED BY AnswerIsOwn
<1> QED BY <1>1, AccessInvariant, PTL

\* Between two calls of Main the tables of access.c and access_client.c agree.
THEOREM TablesAgree == SafetySpec => []Bookkeeping
<1>1. AccessInv => Bookkeeping
  <2> SUFFICES ASSUME AccessInv, alive, pc[Main] \notin {"a_global", "a_reg", "fin"} PROVE
        /\ registered = OpenSockets
        /\ registeredCpus = Cardinality(registered)
        /\ cpuSockets_open = Cardinality(OpenSockets)
        /\ IF OpenSockets = {} THEN globalSocket = -1
                               ELSE \E c \in OpenSockets : globalSocket = cpuSockets[c]
        /\ \A c \in OpenSockets : conn[cpuSockets[c]] = "open"
        /\ \A c, e \in OpenSockets : cpuSockets[c] = cpuSockets[e] => c = e
    BY DEF Bookkeeping
  <2>1. registered = OpenSockets
    BY DEF AccessInv, SocketInv
  <2> QED BY <2>1 DEF AccessInv, SocketInv, GlobalInv, GlobalAmong, CountInv
<1> QED BY <1>1, AccessInvariant, PTL

\* After HPMfinalize no connection to a daemon is open (likwid.h).
THEOREM AllClosed == SafetySpec => []FinalizeCloses
<1>1. AccessInv => FinalizeCloses
  BY DEF AccessInv, FinalizeCloses, MainInv, SocketInv, Adding
<1> QED BY <1>1, AccessInvariant, PTL

\* A daemon that serves has removed its socket file, and one that has ended has,
\* unless it was killed, or failed in listen or chmod, between bind and the return
\* of accept: neither path of the code removes the file.
THEOREM SocketFileRemoved == SafetySpec => []NoStaleSocketFile
<1>1. AccessInv => NoStaleSocketFile
  BY DEF AccessInv, NoStaleSocketFile, DaemonInv, BeforeUnlink
<1> QED BY <1>1, AccessInvariant, PTL

-----------------------------------------------------------------------------
(* The access layer implements atomic registers *)

\* What the caller's variables and the history stand for in RegisterSpec.
Inside == {"called", "lock", "send", "recv", "unlock"}
Status(t) == IF pc[t] \notin Inside THEN "idle" ELSE IF outcome[t] = NoOutcome THEN "busy" ELSE "done"
Out(t) == [ok |-> outcome[t].err = "NOERROR", data |-> outcome[t].data]
Ret(t) == [ok |-> result[t].ret = "OK", data |-> result[t].data]

\* A step that changes what a single thread stands for is the step of RegisterSpec
\* that changes it so.
LEMMA OneThread ==
  ASSUME NEW t \in Clients, NEW ok, NEW data,
         \A u \in Clients \ {t} : Status(u)' = Status(u) /\ Out(u)' = Out(u) /\ Ret(u)' = Ret(u)
  PROVE  /\ /\ Status(t) = "idle" /\ Status(t)' = "busy" /\ hw' = hw /\ Out(t)' = Out(t) /\ Ret(t)' = Ret(t)
            => Registers!Invoke(t)
         /\ /\ Status(t) = "busy" /\ Status(t)' = "idle" /\ hw' = hw /\ Out(t)' = Out(t)
            /\ Ret(t)' = Registers!Nothing
            => Registers!Refuse(t)
         /\ /\ Status(t) = "done" /\ Status(t)' = "idle" /\ hw' = hw /\ Out(t)' = Registers!Nothing
            /\ Ret(t)' = Out(t)
            => Registers!Return(t)
         /\ /\ Status(t) = "busy" /\ Status(t)' = "done" /\ Out(t)' = [ok |-> ok, data |-> data] /\ Ret(t)' = Ret(t)
            => Registers!Done(t, ok, data)
<1> DEFINE S == [u \in Clients |-> Status(u)]
           O == [u \in Clients |-> Out(u)]
           R == [u \in Clients |-> Ret(u)]
<1>1. /\ Registers!Invoke(t) <=> S[t] = "idle" /\ S' = [S EXCEPT ![t] = "busy"] /\ UNCHANGED <<hw, O, R>>
      /\ Registers!Refuse(t) <=> /\ S[t] = "busy" /\ S' = [S EXCEPT ![t] = "idle"]
                                 /\ R' = [R EXCEPT ![t] = Registers!Nothing] /\ UNCHANGED <<hw, O>>
      /\ Registers!Return(t) <=> /\ S[t] = "done" /\ S' = [S EXCEPT ![t] = "idle"]
                                 /\ R' = [R EXCEPT ![t] = O[t]]
                                 /\ O' = [O EXCEPT ![t] = Registers!Nothing] /\ UNCHANGED hw
      /\ Registers!Done(t, ok, data) <=> /\ S[t] = "busy" /\ S' = [S EXCEPT ![t] = "done"]
                                         /\ O' = [O EXCEPT ![t] = [ok |-> ok, data |-> data]] /\ UNCHANGED R
  BY DEF Registers!Invoke, Registers!Refuse, Registers!Return, Registers!Done, Status, Out, Ret, Inside
<1> QED BY <1>1

\* A step that changes nothing of what the threads stand for is none for RegisterSpec.
LEMMA NoThread ==
  ASSUME hw' = hw, \A u \in Clients : Status(u)' = Status(u) /\ Out(u)' = Out(u) /\ Ret(u)' = Ret(u)
  PROVE  UNCHANGED Registers!vars
  BY DEF Registers!vars, Status, Out, Ret, Inside

\* The steps of a call: it begins, it is refused, it returns what the daemon did.
LEMMA AccessRefines ==
  ASSUME AccessInv, NEW t \in Clients, Access(t), ~Die, kills = 0
  PROVE  [Registers!Next]_(Registers!vars)
<1> USE DEF Transition
<1>0. /\ pc \in [Clients -> {"idle", "called", "lock", "send", "recv", "unlock", "a_lock",
                             "a_fork", "a_connect", "a_set", "a_global", "a_reg", "fin"}]
      /\ outcome \in [Clients -> Outcomes] /\ result \in [Clients -> [ret : ReturnCodes, data : Vals]]
      /\ record \in [Clients -> [err : Errors, data : Vals]]
      /\ Knows(t)
  BY DEF AccessInv, TypeInv, TypeOK, DaemonTypeOK, OutcomeInv
<1>1. hw' = hw /\ \A u \in Clients \ {t} : pc'[u] = pc[u] /\ outcome'[u] = outcome[u]
  BY <1>0, AccessFrame
<1>2. \A u \in Clients \ {t} : result'[u] = result[u]
  BY <1>0 DEF Access, Enter, Refuse, Choose, LockSocket, Send, SendBroken, Receive, ReceiveEof, Unlock, Return, locals
<1>3. \A u \in Clients \ {t} : Status(u)' = Status(u) /\ Out(u)' = Out(u) /\ Ret(u)' = Ret(u)
  BY <1>1, <1>2 DEF Status, Out, Ret
<1>4. CASE Enter(t)
  <2>1. Status(t) = "idle" /\ Status(t)' = "busy" /\ Out(t)' = Out(t) /\ Ret(t)' = Ret(t)
    BY <1>0, <1>4 DEF Enter, Status, Out, Ret, Inside, Knows, daemonVars
  <2> QED BY <1>1, <1>3, <2>1, OneThread DEF Registers!Next
<1>5. CASE Refuse(t)
  <2>1. Status(t) = "busy" /\ Status(t)' = "idle" /\ Out(t)' = Out(t)
    BY <1>0, <1>5 DEF Refuse, Return, Status, Out, Inside, Knows
  <2>2. Ret(t)' = Registers!Nothing
    <3>1. Refusal(call[t]) # "OK"
      BY DEF Refusal
    <3> QED BY <1>0, <1>5, <3>1 DEF Refuse, Return, Ret, Registers!Nothing
  <2> QED BY <1>1, <1>3, <2>1, <2>2, OneThread DEF Registers!Next
<1>6. CASE Choose(t) \/ LockSocket(t) \/ Send(t) \/ Receive(t) \/ ReceiveEof(t)
  <2>1. UNCHANGED <<outcome, result>> /\ pc[t] \in Inside /\ pc'[t] \in Inside
    BY <1>0, <1>6 DEF Choose, LockSocket, Send, Receive, ReceiveEof, Inside, daemonVars, locals
  <2>2. Status(t)' = Status(t) /\ Out(t)' = Out(t) /\ Ret(t)' = Ret(t)
    BY <2>1 DEF Status, Out, Ret
  <2> QED BY <1>1, <1>3, <2>2, NoThread
<1>7. CASE Unlock(t)
  <2>1. pc[t] = "unlock" /\ pc'[t] = "idle" /\ outcome[t] # NoOutcome /\ record[t] = outcome[t]
    BY <1>0, <1>7 DEF Unlock, Knows
  <2>2. Status(t) = "done" /\ Status(t)' = "idle" /\ Out(t)' = Registers!Nothing
    BY <1>0, <1>7, <2>1 DEF Status, Inside, Out, Unlock, Return, NoOutcome, Registers!Nothing
  <2>3. /\ result'[t].ret = ReturnCode(call[t].op, outcome[t].err)
        /\ result'[t].data = IF outcome[t].err = "NOERROR" /\ call[t].op = "read" THEN outcome[t].data ELSE 0
    BY <1>0, <1>7, <2>1 DEF Unlock, Return
  <2>4. result'[t].ret = "OK" <=> outcome[t].err = "NOERROR"
    <3>1. outcome[t].err \in Errors
      BY <1>0, <2>1
    <3> QED BY <2>3, <3>1 DEF ReturnCode, access_client_errno, Errors
  <2>5. result'[t].data = outcome[t].data
    BY <1>0, <2>3 DEF Knows
  <2>6. Ret(t)' = Out(t)
    BY <2>4, <2>5 DEF Ret, Out
  <2> QED BY <1>1, <1>3, <2>2, <2>6, OneThread DEF Registers!Next
<1> QED BY <1>4, <1>5, <1>6, <1>7 DEF Access, SendBroken

\* A daemon that answers executes the access of the thread that waits for it.
LEMMA ServeRefines ==
  ASSUME AccessInv, NEW d \in Conns, Serve(d), UNCHANGED clientVars, ~PciOpenMayFail
  PROVE  Registers!Next
<1> DEFINE r == Head(req[d])
<1>0. /\ req \in [Conns -> Seq(Records)] /\ outcome \in [Clients -> Outcomes]
      /\ TypeInv /\ Flight(d) /\ Tells(d) /\ \A n \in Nodes : fdPci[d][n] # -1
  BY DEF AccessInv, TypeInv, TypeOK, DaemonTypeOK, FlightInv, OutcomeInv, DaemonInv
<1>1. dpc[d] = "serve" /\ req[d] # <<>> /\ r.type # "exit" /\ r \in GoodRecords
  BY <1>0, ServeFrame
<1>2. Len(req[d]) = 1
  BY <1>0, <1>1 DEF Flight
<1>3. r = req[d][1]
  BY <1>0, <1>2, ShortSeq
<1>4. r.by \in Clients /\ pc[r.by] = "recv" /\ outcome[r.by] = NoOutcome /\ Loc(r) \in Locs /\ r.data \in Vals
  BY <1>0, <1>1, <1>2, <1>3 DEF Flight, Tells, Awaits, GoodRecords, Records
<1>5. PICK t \in Clients : t = r.by
  BY <1>4
<1>6. ASSUME NEW err \in Errors, NEW data \in Vals, Answer(d, err, data)
      PROVE  Registers!Done(t, err = "NOERROR", data)
  <2> DEFINE o == [err |-> err, data |-> data]
  <2>1. outcome' = [outcome EXCEPT ![t] = o] /\ UNCHANGED <<pc, result>>
    BY <1>5, <1>6, ClientFrame DEF Answer
  <2>2. o # NoOutcome
    BY DEF NoOutcome, Errors
  <2>3. \A u \in Clients \ {t} : Status(u)' = Status(u) /\ Out(u)' = Out(u) /\ Ret(u)' = Ret(u)
    BY <1>0, <2>1 DEF Status, Out, Ret
  <2>4. Status(t) = "busy" /\ Status(t)' = "done" /\ Ret(t)' = Ret(t)
    BY <1>0, <1>4, <1>5, <2>1, <2>2 DEF Status, Ret, Inside
  <2>5. Out(t)' = [ok |-> (err = "NOERROR"), data |-> data]
    BY <1>0, <2>1 DEF Out
  <2> QED BY <2>3, <2>4, <2>5, OneThread
<1>7. ASSUME NEW err \in Errors \ {"NOERROR"}, Answer(d, err, 0), hw' = hw
      PROVE  Registers!Next
  <2>1. Registers!Done(t, FALSE, 0)
    BY <1>6, <1>7, ValsAssumption
  <2> QED BY <1>7, <2>1 DEF Registers!Next, Registers!Fail
<1>8. ASSUME Answer(d, "NOERROR", 0), hw' = hw PROVE Registers!Next
  <2>1. Registers!Done(t, TRUE, 0)
    BY <1>6, <1>8, ValsAssumption DEF Errors
  <2> QED BY <1>8, <2>1 DEF Registers!Next, Registers!Check
<1>9. ASSUME Answer(d, "NOERROR", hw[Loc(r)]), hw' = hw PROVE Registers!Next
  <2>1. PICK v \in Vals : v = hw[Loc(r)]
    BY <1>4 DEF AccessInv, TypeInv, TypeOK, DaemonTypeOK
  <2>2. Registers!Done(t, TRUE, v)
    BY <1>6, <1>9, <2>1 DEF Errors
  <2>3. Registers!Read(t, Loc(r))
    BY <1>9, <2>1, <2>2 DEF Registers!Read, Registers!Done
  <2> QED BY <1>4, <2>3 DEF Registers!Next
<1>10. ASSUME Answer(d, "NOERROR", 0), NEW v \in Vals, hw' = [hw EXCEPT ![Loc(r)] = v] PROVE Registers!Next
  <2>1. Registers!Done(t, TRUE, 0)
    BY <1>6, <1>10, ValsAssumption DEF Errors
  <2> QED BY <1>4, <1>10, <2>1 DEF Registers!Next, Registers!Write
<1>11. \A err \in {"RESTREG", "OPENFAIL", "RWFAIL", "NODEV"} : Answer(d, err, 0) /\ hw' = hw => Registers!Next
  BY <1>7 DEF Errors
<1>12. CASE msr_read(d) \/ msr_write(d) \/ msr_check(d)
  BY <1>4, <1>8, <1>9, <1>10, <1>11, <1>12 DEF msr_read, msr_write, msr_check, MsrRefused
<1>13. CASE pci_read(d) \/ pci_write(d) \/ pci_check(d)
  <2>1. r.dev = "pci"
    BY <1>13 DEF pci_read, pci_write, pci_check, Serving
  <2>2. r.unit \in Nodes
    BY <1>4, <2>1 DEF Loc, Locs
  <2>3. fdPci[d][r.unit] # -1 /\ Low(r.data) \in Vals
    BY <1>0, <1>4, <2>2, ValsAssumption DEF Low
  <2> QED BY <1>8, <1>9, <1>10, <1>11, <1>13, <2>3
          DEF pci_read, pci_write, pci_check, PciRefused, PciOpenFails
<1> QED BY <1>12, <1>13 DEF Serve

\* What the sources call a register access is one step on the register: in every
\* behaviour of the layer in which no daemon is killed and no PCI device found at
\* startup fails to open, each HPMread, HPMwrite and HPMcheck takes effect at most
\* once, when the daemon serves it, and returns the outcome of that very step.
THEOREM AccessIsAtomic ==
  ASSUME MaxKills = 0, ~PciOpenMayFail
  PROVE  SafetySpec => AtomicRegisters
<1>1. Init => Registers!Init
  <2> SUFFICES ASSUME Init PROVE Registers!Init
    OBVIOUS
  <2>1. hw = [l \in Locs |-> 0]
    BY DEF Init, DaemonInit
  <2>2. \A t \in Clients : Status(t) = "idle" /\ Out(t) = Registers!Nothing /\ Ret(t) = Registers!Nothing
    BY DEF Init, DaemonInit, Status, Inside, Out, Ret, NoOutcome, Registers!Nothing
  <2>3. /\ [t \in Clients |-> Status(t)] = [t \in Clients |-> "idle"]
        /\ [t \in Clients |-> Out(t)] = [t \in Clients |-> Registers!Nothing]
        /\ [t \in Clients |-> Ret(t)] = [t \in Clients |-> Registers!Nothing]
    BY <2>2
  <2> QED BY <2>1, <2>3 DEF Registers!Init, Status, Inside, Out, Ret
<1>2. AccessInv /\ [Next]_vars => [Registers!Next]_(Registers!vars)
  <2> SUFFICES ASSUME AccessInv, [Next]_vars PROVE [Registers!Next]_(Registers!vars)
    OBVIOUS
  <2>0. kills = 0
    BY DEF AccessInv, TypeInv, TypeOK, DaemonTypeOK
  <2>1. ASSUME hw' = hw, UNCHANGED <<pc, outcome, result>> PROVE UNCHANGED Registers!vars
    BY <2>1, NoThread DEF Status, Out, Ret
  <2>2. CASE Die
    BY <2>1, <2>2, DieFrame
  <2>3. CASE Manage /\ ~Die
    <3> USE MainAssumption DEF Transition
    <3>0. pc \in [Clients -> {"idle", "called", "lock", "send", "recv", "unlock", "a_lock",
                              "a_fork", "a_connect", "a_set", "a_global", "a_reg", "fin"}]
      BY DEF AccessInv, TypeInv, TypeOK
    <3>1. /\ UNCHANGED <<hw, outcome, result>> /\ pc[Main] \notin Inside /\ pc'[Main] \notin Inside
          /\ \A t \in Clients \ {Main} : pc'[t] = pc[t]
      <4>1. CASE HPMinit \/ (\E c \in Cpus : HPMaddThread(c)) \/ AddLock \/ AddConnect \/ AddRetry
        BY <3>0, <4>1 DEF HPMinit, HPMaddThread, AddLock, AddConnect, AddRetry, Inside, locals, daemonVars
      <4>2. CASE AddFork
        BY <3>0, <4>2, ForkFrame DEF Inside
      <4>3. CASE AddSet \/ AddGlobal \/ AddRegister \/ HPMfinalize \/ FinEnd
        BY <3>0, <4>3 DEF AddSet, AddGlobal, AddRegister, HPMfinalize, FinEnd, Inside, locals, daemonVars
      <4>4. CASE FinStep \/ FinSkip
        BY <3>0, <4>4 DEF FinStep, FinSkip, Inside, daemonVars
      <4> QED BY <2>3, <4>1, <4>2, <4>3, <4>4 DEF Manage, AddStep, Finalize, AddTimeout, FinBroken
    <3> QED BY <3>1, NoThread DEF Status, Out, Ret
  <2>4. ASSUME NEW d \in Conns, UNCHANGED clientVars, ~Serve(d),
               DaemonMain(d) \/ AcceptTimeout(d) \/ AlarmEarly(d) \/ Killed(d)
        PROVE  UNCHANGED Registers!vars
    BY <2>1, <2>4, ClientFrame DEF DaemonMain, Boot, BootFail, Bind, Listen, ListenFail, Arm, EnterAccept, Accepted, Reply,
         stop_daemon, AcceptTimeout, AlarmEarly, Killed
  <2>5. CASE UNCHANGED vars
    BY <2>1, <2>5, ClientFrame DEF vars, daemonVars
  <2> QED BY <2>0, <2>2, <2>3, <2>4, <2>5, AccessRefines, ServeRefines
          DEF Next, DaemonStep, DaemonMain, Timeout, ClientKilled
<1> QED BY <1>1, <1>2, AccessInvariant, PTL DEF SafetySpec, AtomicRegisters, Registers!Spec
=============================================================================
