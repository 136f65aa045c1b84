------------------------- MODULE AccessDirect_proofs -------------------------
(***************************************************************************)
(* Proofs about the access layer in direct mode, for every machine, every  *)
(* number of descriptors and every number of lifetimes of the layer.       *)
(***************************************************************************)
EXTENDS AccessDirect, NatLemmas

Kinds == {Closed, App} \cup {MsrFile(c) : c \in Cpus} \cup {PciFile(n, d) : n \in Rows, d \in Devices}

\* Every open file of the layer is the one its table names.
Tracked ==
    \A fd \in Descriptors :
        /\ \A c \in Cpus : files[fd] = MsrFile(c) => msrFD[c] = fd
        /\ \A n \in Rows, d \in Devices : files[fd] = PciFile(n, d) => pciFD[n][d] = fd

\* The table of the MSR files is right, except that while CPUs are finalized
\* those still to come may have lost their file to an old PCI descriptor.  A
\* CPU that is not registered has an open file only after PCI has failed.
MsrInv ==
    /\ \A c \in Cpus : msrFD[c] > 0 /\ (state # "finalizing" \/ c \notin registeredCpuList)
                         => files[msrFD[c]] = MsrFile(c)
    /\ \A c \in registeredCpuList : msrFD[c] > 0
    /\ \A c \in Cpus \ registeredCpuList : msrFD[c] > 0 => Uncore /\ ~usable

\* The life of the PCI table
SetupInv ==
    /\ lives \in Nat /\ (lives = 0 => state = "off" /\ ~pci_initialized)
    /\ pci_initialized \in BOOLEAN /\ usable \in BOOLEAN
    /\ pci_initialized => Uncore /\ usable
    /\ ~pci_initialized => \A n \in Rows, d \in Devices : pciFD[n][d] = 0
    /\ Uncore /\ ~pci_initialized => registeredCpuList = {}
    /\ \A c \in registeredCpuList, d \in Devices : <<NodeOf[c], d>> \in Present => pciFD[NodeOf[c]][d] # -2

\* In the first lifetime the table of the PCI files is right, and has entries
\* for the packages of registered CPUs only.
FirstLifeInv ==
    lives <= 1 /\ state = "on" =>
        \A n \in Rows, d \in Devices :
            /\ pciFD[n][d] > 0 => files[pciFD[n][d]] = PciFile(n, d)
            /\ pciFD[n][d] >= 0 /\ pci_initialized => \E c \in registeredCpuList : NodeOf[c] = n

\* A PCI file will be closed, because a CPU of its package is registered, or
\* it was opened for another package in a later lifetime.
OpenInv ==
    \A fd \in Descriptors, n \in Rows, d \in Devices : files[fd] = PciFile(n, d) =>
        (\E c \in registeredCpuList : NodeOf[c] = n) \/ (lives > 1 /\ n # d)

\* The last access is one of this lifetime.
LastInv ==
    /\ state = "off" => last = NoAccess
    /\ state = "on" /\ last # NoAccess => last.cpu \in registeredCpuList
    /\ AccessIsReal

DirectInv == TypeOK /\ Tracked /\ MsrInv /\ SetupInv /\ FirstLifeInv /\ OpenInv /\ LastInv

-----------------------------------------------------------------------------
(* Files and descriptors *)

\* The kinds of file differ.
LEMMA FileKinds ==
  /\ Closed # App /\ Closed[1] = "closed" /\ App[1] = "app"
  /\ \A c : MsrFile(c) # Closed /\ MsrFile(c) # App /\ MsrFile(c)[1] = "msr"
  /\ \A n, d : PciFile(n, d) # Closed /\ PciFile(n, d) # App /\ PciFile(n, d)[1] = "pci"
               /\ PciFile(n, d)[2] = n /\ PciFile(n, d)[3] = d
  /\ \A c, n, d : MsrFile(c) # PciFile(n, d)
  /\ \A c, b : MsrFile(c) = MsrFile(b) => c = b
  /\ \A n, d, m, e : PciFile(n, d) = PciFile(m, e) => n = m /\ d = e
<1>1. Closed[1] = "closed" /\ App[1] = "app" /\ \A c : MsrFile(c)[1] = "msr" /\ MsrFile(c)[2] = c
  BY DEF Closed, App, MsrFile
<1>2. \A n, d : PciFile(n, d)[1] = "pci" /\ PciFile(n, d)[2] = n /\ PciFile(n, d)[3] = d
  BY DEF PciFile
<1> QED BY <1>1, <1>2

\* Descriptors are positive, and the files of the layer are of known kinds.
LEMMA Numbers ==
  ASSUME TypeOK
  PROVE  /\ Descriptors \subseteq Nat \ {0} /\ files \in [Descriptors -> Kinds]
         /\ \A c \in Cpus : msrFD[c] \in Int /\ (msrFD[c] > 0 => msrFD[c] \in Descriptors)
         /\ \A n \in Rows, d \in Devices : pciFD[n][d] \in Int /\ (pciFD[n][d] > 0 => pciFD[n][d] \in Descriptors)
<1>1. Descriptors \subseteq Nat \ {0} /\ \A x \in Descriptors : x > 0
  BY DirectAssumption DEF Descriptors
<1>2. files \in [Descriptors -> Kinds]
  BY DEF TypeOK, Kinds
<1>5. ASSUME NEW x, x \in {-2, -1, 0} \/ x \in Descriptors
      PROVE  x \in Int /\ (x > 0 => x \in Descriptors)
  <2>1. CASE x \in Descriptors
    BY <1>1, <2>1
  <2>2. CASE x \in {-2, -1, 0}
    <3>1. x \in Int /\ ~(x > 0)
      BY <2>2
    <3> QED BY <3>1
  <2> QED BY <1>5, <2>1, <2>2
<1>3. ASSUME NEW c \in Cpus PROVE msrFD[c] \in Int /\ (msrFD[c] > 0 => msrFD[c] \in Descriptors)
  <2>1. msrFD[c] \in {-1, 0} \cup Descriptors
    BY DEF TypeOK
  <2> HIDE DEF Descriptors
  <2> QED BY <1>5, <2>1
<1>4. ASSUME NEW n \in Rows, NEW d \in Devices
      PROVE  pciFD[n][d] \in Int /\ (pciFD[n][d] > 0 => pciFD[n][d] \in Descriptors)
  <2>1. pciFD[n][d] \in {-2, -1, 0} \cup Descriptors
    BY DEF TypeOK
  <2> HIDE DEF Descriptors
  <2> QED BY <1>5, <2>1
<1> QED BY <1>1, <1>2, <1>3, <1>4

\* open returns a descriptor that was closed.
LEMMA LowestFree ==
  ASSUME TypeOK, Open(files) # {}
  PROVE  Lowest(files) \in Descriptors /\ files[Lowest(files)] = Closed /\ Lowest(files) > 0
<1>1. Open(files) \subseteq Nat /\ Open(files) \subseteq Descriptors
  BY Numbers DEF Open
<1>2. \E x \in Open(files) : \A y \in Open(files) : x <= y
  BY <1>1, LeastNatural
<1>3. Lowest(files) \in Open(files)
  BY <1>2 DEF Lowest, Min
<1> QED BY <1>1, <1>3, Numbers DEF Open

-----------------------------------------------------------------------------
(* The steps *)

\* Setting and forgetting the function pointers, and ending a lifetime.
LEMMA PointerStep ==
  ASSUME DirectInv, HPMinit \/ HPMfinalize \/ Finalized
  PROVE  DirectInv'
<1> USE DEF DirectInv
<1>1. UNCHANGED <<files, msrFD, pciFD, online, pci_initialized, usable, registeredCpuList>>
  BY DEF HPMinit, HPMfinalize, Finalized
<1>2. \/ state = "off" /\ state' = "on" /\ lives' = lives + 1 /\ last' = last
      \/ state = "on" /\ state' = "finalizing" /\ lives' = lives /\ last' = last
      \/ state = "finalizing" /\ state' = "off" /\ lives' = lives /\ last' = NoAccess /\ registeredCpuList = {}
  BY DEF HPMinit, HPMfinalize, Finalized
<1>3. lives \in Nat /\ lives' \in Nat
  BY <1>2 DEF SetupInv
<1>4. TypeOK'
  BY <1>1, <1>2 DEF TypeOK
<1>5. Tracked'
  BY <1>1 DEF Tracked
<1>6. MsrInv'
  BY <1>1, <1>2 DEF MsrInv
<1>7. SetupInv'
  BY <1>1, <1>2, <1>3 DEF SetupInv
<1>8. FirstLifeInv'
  <2>1. CASE state = "off" /\ lives = 0
    <3>1. ~pci_initialized /\ \A n \in Rows, d \in Devices : pciFD[n][d] = 0
      BY <2>1 DEF SetupInv
    <3> QED BY <1>1, <3>1 DEF FirstLifeInv
  <2>2. CASE state = "off" /\ lives # 0
    BY <1>2, <1>3, <2>2 DEF FirstLifeInv
  <2>3. CASE state # "off"
    BY <1>2, <2>3 DEF FirstLifeInv
  <2> QED BY <2>1, <2>2, <2>3
<1>9. OpenInv'
  BY <1>1, <1>2, <1>3 DEF OpenInv
<1>10. LastInv'
  BY <1>1, <1>2 DEF LastInv, AccessIsReal
<1> QED BY <1>4, <1>5, <1>6, <1>7, <1>8, <1>9, <1>10

\* The rest of the process opens and closes files of its own.
LEMMA AppStep ==
  ASSUME DirectInv, AppOpen \/ AppClose
  PROVE  DirectInv'
<1> USE DEF DirectInv
<1>1. UNCHANGED <<msrFD, pciFD, online, pci_initialized, usable, registeredCpuList, state, lives, last>>
  BY DEF AppOpen, AppClose
<1>2. PICK f \in Descriptors, g \in {Closed, App} :
        files[f] \in {Closed, App} /\ files' = [files EXCEPT ![f] = g]
  BY LowestFree DEF AppOpen, AppClose, Opened
<1>3. files \in [Descriptors -> Kinds] /\ files' \in [Descriptors -> Kinds]
  BY <1>2, Numbers DEF Kinds
<1>4. ASSUME NEW fd \in Descriptors, files[fd] \notin {Closed, App} \/ files'[fd] \notin {Closed, App}
      PROVE  files'[fd] = files[fd]
  BY <1>2, <1>3, <1>4
<1>5. TypeOK'
  BY <1>1, <1>3 DEF TypeOK, Kinds
<1>6. Tracked'
  <2>1. ASSUME NEW fd \in Descriptors, NEW c \in Cpus, files'[fd] = MsrFile(c) PROVE msrFD[c] = fd
    BY <1>4, <2>1, FileKinds DEF Tracked
  <2>2. ASSUME NEW fd \in Descriptors, NEW n \in Rows, NEW d \in Devices, files'[fd] = PciFile(n, d)
        PROVE  pciFD[n][d] = fd
    BY <1>4, <2>2, FileKinds DEF Tracked
  <2> QED BY <1>1, <2>1, <2>2 DEF Tracked
<1>7. MsrInv'
  <2>1. ASSUME NEW c \in Cpus, msrFD[c] > 0, state # "finalizing" \/ c \notin registeredCpuList
        PROVE  files'[msrFD[c]] = MsrFile(c)
    <3>1. msrFD[c] \in Descriptors /\ files[msrFD[c]] = MsrFile(c)
      BY <2>1, Numbers DEF MsrInv
    <3> QED BY <1>4, <3>1, FileKinds
  <2> QED BY <1>1, <2>1 DEF MsrInv
<1>8. SetupInv'
  BY <1>1 DEF SetupInv
<1>9. FirstLifeInv'
  <2>1. ASSUME lives <= 1, state = "on", NEW n \in Rows, NEW d \in Devices, pciFD[n][d] > 0
        PROVE  files'[pciFD[n][d]] = PciFile(n, d)
    <3>1. pciFD[n][d] \in Descriptors /\ files[pciFD[n][d]] = PciFile(n, d)
      BY <2>1, Numbers DEF FirstLifeInv
    <3> QED BY <1>4, <3>1, FileKinds
  <2> QED BY <1>1, <2>1 DEF FirstLifeInv
<1>10. OpenInv'
  <2>1. ASSUME NEW fd \in Descriptors, NEW n \in Rows, NEW d \in Devices, files'[fd] = PciFile(n, d)
        PROVE  files[fd] = PciFile(n, d)
    BY <1>4, <2>1, FileKinds
  <2> QED BY <1>1, <2>1 DEF OpenInv
<1>11. LastInv'
  BY <1>1 DEF LastInv, AccessIsReal, Wanted
<1> QED BY <1>5, <1>6, <1>7, <1>8, <1>9, <1>10, <1>11

\* One CPU is finalized: its MSR file and the PCI files of its package.
LEMMA FinalizeStep ==
  ASSUME DirectInv, FinalizeCpu
  PROVE  DirectInv'
<1> USE DEF DirectInv
<1>1. /\ state = "finalizing" /\ registeredCpuList # {}
      /\ UNCHANGED <<pciFD, online, pci_initialized, usable, state, lives, last>>
  BY DEF FinalizeCpu
<1>2. PICK c \in registeredCpuList : access_x86_finalize(c) /\ registeredCpuList' = registeredCpuList \ {c}
  <2>1. registeredCpuList \subseteq Nat
    BY DirectAssumption DEF TypeOK
  <2>2. \E x \in registeredCpuList : \A y \in registeredCpuList : x <= y
    BY <1>1, <2>1, LeastNatural
  <2>3. Min(registeredCpuList) \in registeredCpuList
    BY <2>2 DEF Min
  <2> QED BY <2>3 DEF FinalizeCpu
<1>3. c \in Cpus /\ NodeOf[c] \in Rows
  BY <1>2, DirectAssumption DEF TypeOK
<1> DEFINE pci == IF Uncore THEN {pciFD[NodeOf[c]][d] : d \in Devices} ELSE {}
           fds == {fd \in {msrFD[c]} \cup pci : fd > 0}
<1>4. /\ files' = [fd \in Descriptors |-> IF fd \in fds THEN Closed ELSE files[fd]]
      /\ msrFD' = [msrFD EXCEPT ![c] = IF msrFD[c] > 0 THEN 0 ELSE msrFD[c]]
  BY <1>2 DEF access_x86_finalize, CloseAll
<1>5. msrFD[c] > 0 /\ msrFD[c] \in fds /\ \A b \in Cpus \ {c} : msrFD'[b] = msrFD[b]
  BY <1>2, <1>4 DEF MsrInv, TypeOK
<1>6. msrFD'[c] = 0
  BY <1>3, <1>4, <1>5 DEF TypeOK
<1>7. \A d \in Devices : pciFD[NodeOf[c]][d] > 0 => pciFD[NodeOf[c]][d] \in fds
  BY DirectAssumption
<1> HIDE DEF fds
<1>8. \A fd \in Descriptors : files'[fd] = files[fd] \/ (fd \in fds /\ files'[fd] = Closed)
  BY <1>4
<1>9. TypeOK'
  <2>1. files \in [Descriptors -> Kinds]
    BY Numbers
  <2>2. files' \in [Descriptors -> Kinds]
    BY <1>4, <2>1 DEF Kinds
  <2>3. msrFD' \in [Cpus -> {-1, 0} \cup Descriptors]
    BY <1>3, <1>4 DEF TypeOK
  <2> QED BY <1>1, <1>2, <2>2, <2>3 DEF TypeOK, Kinds
<1>10. Tracked'
  <2>1. ASSUME NEW fd \in Descriptors, NEW b \in Cpus, files'[fd] = MsrFile(b) PROVE msrFD'[b] = fd
    <3>1. files[fd] = MsrFile(b) /\ fd \notin fds
      BY <1>4, <2>1, FileKinds
    <3>2. msrFD[b] = fd
      BY <3>1 DEF Tracked
    <3> QED BY <1>5, <3>1, <3>2
  <2>2. ASSUME NEW fd \in Descriptors, NEW n \in Rows, NEW d \in Devices, files'[fd] = PciFile(n, d)
        PROVE  pciFD[n][d] = fd
    BY <1>8, <2>2, FileKinds DEF Tracked
  <2> QED BY <1>1, <2>1, <2>2 DEF Tracked
<1>11. Uncore => pci_initialized
  BY <1>1 DEF SetupInv
<1>12. MsrInv'
  <2>1. ASSUME NEW b \in Cpus, msrFD'[b] > 0, b \notin registeredCpuList \ {c} PROVE FALSE
    <3>1. b # c
      BY <1>6, <2>1
    <3>2. b \in Cpus \ registeredCpuList /\ msrFD[b] > 0
      BY <1>5, <2>1, <3>1
    <3> QED BY <1>11, <3>2 DEF MsrInv, SetupInv
  <2>2. \A b \in registeredCpuList \ {c} : msrFD'[b] > 0
    BY <1>5 DEF MsrInv, TypeOK
  <2> QED BY <1>1, <1>2, <2>1, <2>2 DEF MsrInv
<1>13. SetupInv'
  BY <1>1, <1>2 DEF SetupInv
<1>14. FirstLifeInv'
  BY <1>1 DEF FirstLifeInv
<1>15. OpenInv'
  <2>1. ASSUME NEW fd \in Descriptors, NEW n \in Rows, NEW d \in Devices, files'[fd] = PciFile(n, d)
        PROVE  (\E b \in registeredCpuList \ {c} : NodeOf[b] = n) \/ (lives > 1 /\ n # d)
    <3>1. files[fd] = PciFile(n, d) /\ fd \notin fds
      BY <1>4, <2>1, FileKinds
    <3>2. pciFD[n][d] = fd /\ fd > 0
      BY <3>1, Numbers DEF Tracked
    <3>3. n # NodeOf[c]
      BY <1>7, <3>1, <3>2
    <3> QED BY <3>1, <3>3 DEF OpenInv
  <2> QED BY <1>1, <1>2, <2>1 DEF OpenInv
<1>16. LastInv'
  BY <1>1 DEF LastInv, AccessIsReal
<1> QED BY <1>9, <1>10, <1>12, <1>13, <1>14, <1>15, <1>16

\* The MSR file of a CPU cannot be opened: its entry is left or becomes -1.
LEMMA AddFailsStep ==
  ASSUME DirectInv, NEW c \in Cpus, state = "on", c \notin registeredCpuList, ~(msrFD[c] > 0),
         msrFD' \in {msrFD, [msrFD EXCEPT ![c] = -1]},
         UNCHANGED <<files, pciFD, online, pci_initialized, usable, registeredCpuList, state, lives, last>>
  PROVE  DirectInv'
<1> USE DEF DirectInv
<1>1. /\ \A b \in Cpus \ {c} : msrFD'[b] = msrFD[b]
      /\ ~(msrFD'[c] > 0) /\ msrFD' \in [Cpus -> {-1, 0} \cup Descriptors]
  BY DEF TypeOK
<1>2. TypeOK'
  BY <1>1 DEF TypeOK
<1>3. Tracked'
  <2>1. ASSUME NEW fd \in Descriptors, NEW b \in Cpus, files[fd] = MsrFile(b) PROVE msrFD'[b] = fd
    <3>1. msrFD[b] = fd /\ fd > 0
      BY <2>1, Numbers DEF Tracked
    <3> QED BY <1>1, <3>1
  <2> QED BY <2>1 DEF Tracked
<1>4. MsrInv'
  BY <1>1 DEF MsrInv, TypeOK
<1>5. SetupInv' /\ FirstLifeInv' /\ OpenInv' /\ LastInv'
  BY DEF SetupInv, FirstLifeInv, OpenInv, LastInv, AccessIsReal, Wanted
<1> QED BY <1>2, <1>3, <1>4, <1>5

\* What access_x86_pci_init does to the table of a package: devices marked
\* absent that exist are marked to be opened, everything else stays.
LEMMA PciTable ==
  ASSUME TypeOK, SetupInv, NEW n \in Rows, access_x86_pci_init(n)
  PROVE  /\ pci_initialized' = TRUE
         /\ pciFD' \in [Rows -> [Devices -> {-2, -1, 0} \cup Descriptors]]
         /\ \A d \in Devices : <<n, d>> \in Present => pciFD'[n][d] # -2
         /\ pci_initialized => \A m \in Rows, d \in Devices :
              pciFD'[m][d] = pciFD[m][d] \/ (m = n /\ pciFD[m][d] = -2 /\ pciFD'[m][d] = 0)
         /\ ~pci_initialized => \A m \in Rows, d \in Devices :
              pciFD'[m][d] = -2 \/ (m = n /\ pciFD'[m][d] = 0)
<1> DEFINE table == IF pci_initialized THEN pciFD ELSE [k \in Rows |-> [d \in Devices |-> -2]]
           absent == {d \in Devices : table[n][d] = -2}
           exist == {d \in absent : <<n, d>> \in Present}
           row == [d \in Devices |-> IF d \in exist THEN 0 ELSE table[n][d]]
<1>1. pciFD' = [table EXCEPT ![n] = row] /\ pci_initialized' = TRUE
  BY DEF access_x86_pci_init
<1>2. table \in [Rows -> [Devices -> {-2, -1, 0} \cup Descriptors]]
  BY DEF TypeOK
<1>3. \A d \in Devices : row[d] = IF table[n][d] = -2 /\ <<n, d>> \in Present THEN 0 ELSE table[n][d]
  OBVIOUS
<1>4. row \in [Devices -> {-2, -1, 0} \cup Descriptors]
  BY <1>2
<1> HIDE DEF row
<1>5. pciFD' \in [Rows -> [Devices -> {-2, -1, 0} \cup Descriptors]]
      /\ pciFD'[n] = row /\ \A m \in Rows \ {n} : pciFD'[m] = table[m]
  <2> HIDE DEF table
  <2> QED BY <1>1, <1>2, <1>4
<1>6. \A d \in Devices : <<n, d>> \in Present => pciFD'[n][d] # -2
  BY <1>3, <1>5
<1>7. ASSUME pci_initialized, NEW m \in Rows, NEW d \in Devices
      PROVE  pciFD'[m][d] = pciFD[m][d] \/ (m = n /\ pciFD[m][d] = -2 /\ pciFD'[m][d] = 0)
  BY <1>3, <1>5, <1>7
<1>8. ASSUME ~pci_initialized, NEW m \in Rows, NEW d \in Devices
      PROVE  pciFD'[m][d] = -2 \/ (m = n /\ pciFD'[m][d] = 0)
  <2>1. table[m][d] = -2 /\ table[n][d] = -2
    BY <1>8
  <2> HIDE DEF table
  <2> QED BY <1>3, <1>5, <2>1
<1> QED BY <1>1, <1>5, <1>6, <1>7, <1>8

\* The MSR file of a CPU is open or can be opened.  The CPU is registered
\* unless PCI fails.
LEMMA AddStep ==
  ASSUME DirectInv, NEW c \in Cpus, state = "on", c \notin registeredCpuList,
         NEW fails, fails = (Uncore /\ ~pci_initialized /\ ~usable),
         \/ msrFD[c] > 0 /\ UNCHANGED <<files, msrFD>>
         \/ ~(msrFD[c] > 0) /\ Open(files) # {} /\ files' = Opened(files, MsrFile(c))
            /\ msrFD' = [msrFD EXCEPT ![c] = Lowest(files)],
         registeredCpuList' = IF fails THEN registeredCpuList ELSE registeredCpuList \cup {c},
         IF Uncore /\ ~fails THEN access_x86_pci_init(NodeOf[c]) ELSE UNCHANGED <<pciFD, online, pci_initialized>>,
         UNCHANGED <<usable, state, lives, last>>
  PROVE  DirectInv'
<1> USE DEF DirectInv
<1> DEFINE n == NodeOf[c]
<1>1. n \in Rows /\ state = "on" /\ state' = "on" /\ lives' = lives
  BY DirectAssumption
<1>2. /\ msrFD'[c] > 0 /\ msrFD'[c] \in Descriptors /\ files'[msrFD'[c]] = MsrFile(c)
      /\ \A b \in Cpus \ {c} : msrFD'[b] = msrFD[b]
      /\ \A fd \in Descriptors : files'[fd] = files[fd] \/ (fd = msrFD'[c] /\ files[fd] = Closed /\ files'[fd] = MsrFile(c))
      /\ files' \in [Descriptors -> Kinds] /\ msrFD' \in [Cpus -> {-1, 0} \cup Descriptors]
  <2>1. CASE msrFD[c] > 0 /\ UNCHANGED <<files, msrFD>>
    BY <1>1, <2>1, Numbers DEF MsrInv, TypeOK
  <2>2. CASE /\ ~(msrFD[c] > 0) /\ Open(files) # {} /\ files' = Opened(files, MsrFile(c))
             /\ msrFD' = [msrFD EXCEPT ![c] = Lowest(files)]
    <3> DEFINE f == Lowest(files)
    <3>1. f \in Descriptors /\ files[f] = Closed /\ f > 0
      BY <2>2, LowestFree
    <3>2. files' = [files EXCEPT ![f] = MsrFile(c)] /\ files \in [Descriptors -> Kinds]
      BY <2>2, Numbers DEF Opened
    <3> HIDE DEF f
    <3>3. MsrFile(c) \in Kinds /\ msrFD' = [msrFD EXCEPT ![c] = f]
      BY <2>2 DEF Kinds, f
    <3> QED BY <3>1, <3>2, <3>3 DEF TypeOK
  <2> QED BY <2>1, <2>2
<1>3. \A b \in Cpus : msrFD[b] > 0 /\ files[msrFD[b]] = MsrFile(b) => msrFD'[b] > 0 /\ files'[msrFD'[b]] = MsrFile(b)
  <2> SUFFICES ASSUME NEW b \in Cpus, b # c, msrFD[b] > 0, files[msrFD[b]] = MsrFile(b)
               PROVE  msrFD'[b] > 0 /\ files'[msrFD'[b]] = MsrFile(b)
    BY <1>2
  <2>1. msrFD[b] \in Descriptors /\ msrFD'[b] = msrFD[b]
    BY <1>2, Numbers
  <2> QED BY <1>2, <2>1, FileKinds
<1>4. /\ pciFD' \in [Rows -> [Devices -> {-2, -1, 0} \cup Descriptors]]
      /\ Uncore /\ ~fails => /\ pci_initialized' = TRUE
                             /\ \A d \in Devices : <<n, d>> \in Present => pciFD'[n][d] # -2
      /\ ~(Uncore /\ ~fails) => pciFD' = pciFD /\ pci_initialized' = pci_initialized
      /\ \A m \in Rows, d \in Devices :
           \/ pciFD'[m][d] = pciFD[m][d]
           \/ pciFD'[m][d] = -2 /\ pciFD[m][d] = 0 /\ ~pci_initialized /\ pci_initialized'
           \/ pciFD'[m][d] = 0 /\ pciFD[m][d] \in {-2, 0} /\ m = n /\ pci_initialized'
      /\ \A m \in Rows, d \in Devices : pciFD'[m][d] >= 0 /\ pci_initialized' =>
           m = n \/ (pci_initialized /\ pciFD[m][d] >= 0)
  <2>1. CASE ~(Uncore /\ ~fails)
    BY <2>1 DEF TypeOK
  <2>2. CASE Uncore /\ ~fails
    <3>1. /\ pci_initialized' = TRUE
          /\ pciFD' \in [Rows -> [Devices -> {-2, -1, 0} \cup Descriptors]]
          /\ \A d \in Devices : <<n, d>> \in Present => pciFD'[n][d] # -2
          /\ pci_initialized => \A m \in Rows, d \in Devices :
               pciFD'[m][d] = pciFD[m][d] \/ (m = n /\ pciFD[m][d] = -2 /\ pciFD'[m][d] = 0)
          /\ ~pci_initialized => \A m \in Rows, d \in Devices :
               pciFD'[m][d] = -2 \/ (m = n /\ pciFD'[m][d] = 0)
      <4>1. TypeOK /\ SetupInv /\ n \in Rows /\ access_x86_pci_init(n)
        BY <1>1, <2>2
      <4> HIDE DEF DirectInv, n
      <4> QED BY <4>1, PciTable
    <3>2. CASE pci_initialized
      <4> HIDE DEF DirectInv, n
      <4> QED BY <2>2, <3>1, <3>2
    <3>3. CASE ~pci_initialized
      <4>1. \A m \in Rows, d \in Devices : pciFD[m][d] = 0 /\ (pciFD'[m][d] = -2 \/ (m = n /\ pciFD'[m][d] = 0))
        BY <3>1, <3>3 DEF SetupInv
      <4>2. ~(-2 >= 0)
        OBVIOUS
      <4> QED BY <2>2, <3>1, <3>3, <4>1, <4>2
    <3> QED BY <3>2, <3>3
  <2> QED BY <2>1, <2>2
<1>5. TypeOK'
  BY <1>1, <1>2, <1>4 DEF TypeOK, Kinds
<1>6. \A m \in Rows, d \in Devices : pciFD[m][d] > 0 \/ pciFD'[m][d] > 0 => pciFD'[m][d] = pciFD[m][d]
  BY <1>4, Numbers
<1>7. Tracked'
  <2>1. ASSUME NEW fd \in Descriptors, NEW b \in Cpus, files'[fd] = MsrFile(b) PROVE msrFD'[b] = fd
    <3>1. CASE fd = msrFD'[c]
      <4>1. MsrFile(b) = MsrFile(c)
        BY <1>2, <2>1, <3>1
      <4>2. b = c
        BY <4>1, FileKinds
      <4> QED BY <3>1, <4>2
    <3>2. CASE fd # msrFD'[c]
      <4>1. files[fd] = MsrFile(b) /\ msrFD[b] = fd
        BY <1>2, <2>1, <3>2 DEF Tracked
      <4>2. b # c
        <5> SUFFICES ASSUME b = c PROVE FALSE
          OBVIOUS
        <5>1. msrFD[c] > 0
          BY <4>1, Numbers
        <5> QED BY <3>2, <4>1, <5>1
      <4> QED BY <1>2, <4>1, <4>2
    <3> QED BY <3>1, <3>2
  <2>2. ASSUME NEW fd \in Descriptors, NEW m \in Rows, NEW d \in Devices, files'[fd] = PciFile(m, d)
        PROVE  pciFD'[m][d] = fd
    <3>1. files[fd] = PciFile(m, d)
      BY <1>2, <2>2, FileKinds
    <3>2. pciFD[m][d] = fd /\ fd > 0
      BY <3>1, Numbers DEF Tracked
    <3> QED BY <1>6, <3>2
  <2> QED BY <2>1, <2>2 DEF Tracked
<1>8. MsrInv'
  <2>1. \A b \in Cpus : msrFD'[b] > 0 => files'[msrFD'[b]] = MsrFile(b)
    BY <1>1, <1>2, <1>3 DEF MsrInv
  <2>2. \A b \in registeredCpuList' : msrFD'[b] > 0
    BY <1>2 DEF MsrInv, TypeOK
  <2>3. \A b \in Cpus \ registeredCpuList' : msrFD'[b] > 0 => Uncore /\ ~usable
    BY <1>2 DEF MsrInv
  <2> QED BY <2>1, <2>2, <2>3 DEF MsrInv
<1>9. SetupInv'
  <2>1. lives' \in Nat /\ lives' # 0
    BY <1>1 DEF SetupInv
  <2>2. pci_initialized' \in BOOLEAN /\ (pci_initialized' => Uncore /\ usable)
    BY <1>4 DEF SetupInv
  <2>3. ~pci_initialized' => \A m \in Rows, d \in Devices : pciFD'[m][d] = 0
    BY <1>4 DEF SetupInv
  <2>4. Uncore /\ ~pci_initialized' => registeredCpuList' = {}
    BY <1>4 DEF SetupInv
  <2>5. ASSUME NEW b \in registeredCpuList', NEW d \in Devices, <<NodeOf[b], d>> \in Present
        PROVE  pciFD'[NodeOf[b]][d] # -2
    <3>1. Uncore
      BY DirectAssumption
    <3>2. CASE b = c
      <4>1. ~fails
        BY <2>5, <3>2
      <4> QED BY <1>4, <2>5, <3>1, <3>2, <4>1
    <3>3. CASE b # c
      <4>1. b \in registeredCpuList /\ b \in Cpus /\ NodeOf[b] \in Rows
        BY <2>5, <3>3, DirectAssumption DEF TypeOK
      <4>2. pci_initialized /\ pciFD[NodeOf[b]][d] # -2
        BY <2>5, <3>1, <4>1 DEF SetupInv
      <4> QED BY <1>4, <4>1, <4>2
    <3> QED BY <3>2, <3>3
  <2>6. usable' \in BOOLEAN
    BY DEF SetupInv
  <2> QED BY <2>1, <2>2, <2>3, <2>4, <2>5, <2>6 DEF SetupInv
<1>10. FirstLifeInv'
  <2> SUFFICES ASSUME lives <= 1, NEW m \in Rows, NEW d \in Devices
               PROVE  /\ pciFD'[m][d] > 0 => files'[pciFD'[m][d]] = PciFile(m, d)
                      /\ pciFD'[m][d] >= 0 /\ pci_initialized' => \E b \in registeredCpuList' : NodeOf[b] = m
    BY <1>1 DEF FirstLifeInv
  <2>1. ASSUME pciFD'[m][d] > 0 PROVE files'[pciFD'[m][d]] = PciFile(m, d)
    <3>1. pciFD'[m][d] = pciFD[m][d] /\ pciFD[m][d] \in Descriptors /\ files[pciFD[m][d]] = PciFile(m, d)
      BY <1>1, <1>6, <2>1, Numbers DEF FirstLifeInv
    <3> QED BY <1>2, <3>1, FileKinds
  <2>2. ASSUME pciFD'[m][d] >= 0, pci_initialized' PROVE \E b \in registeredCpuList' : NodeOf[b] = m
    <3>1. CASE m = n
      <4>1. ~fails
        BY <1>4, <2>2
      <4> QED BY <3>1, <4>1
    <3>2. CASE m # n
      <4>1. \E b \in registeredCpuList : NodeOf[b] = m
        BY <1>1, <1>4, <2>2, <3>2 DEF FirstLifeInv
      <4> QED BY <4>1
    <3> QED BY <3>1, <3>2
  <2> QED BY <2>1, <2>2
<1>11. OpenInv'
  <2>1. ASSUME NEW fd \in Descriptors, NEW m \in Rows, NEW d \in Devices, files'[fd] = PciFile(m, d)
        PROVE  files[fd] = PciFile(m, d)
    BY <1>2, <2>1, FileKinds
  <2> QED BY <1>1, <2>1 DEF OpenInv
<1>12. LastInv'
  <2>1. CASE last = NoAccess
    BY <1>1, <2>1 DEF LastInv, AccessIsReal, NoAccess
  <2>2. CASE last # NoAccess
    <3>1. last.cpu \in registeredCpuList /\ last.cpu \in registeredCpuList' /\ last.cpu \in Cpus
      BY <1>1, <2>2 DEF LastInv, TypeOK
    <3>2. ASSUME last.err = 0, last.dev # MSR_DEV => /\ last.dev = NodeOf[last.cpu] /\ ~last.recycled
                                                     /\ <<NodeOf[last.cpu], last.dev>> \in Present
                                                     /\ pciFD'[NodeOf[last.cpu]][last.dev] # -1
          PROVE  last.file = Wanted
      <4>1. last.dev # MSR_DEV => pciFD[NodeOf[last.cpu]][last.dev] # -1
        <5> SUFFICES ASSUME last.dev # MSR_DEV PROVE pciFD[NodeOf[last.cpu]][last.dev] # -1
          OBVIOUS
        <5>1. NodeOf[last.cpu] \in Rows /\ last.dev \in Devices
          BY <3>2, DirectAssumption
        <5> QED BY <1>4, <3>2, <5>1
      <4> QED BY <1>1, <2>2, <3>2, <4>1 DEF LastInv, AccessIsReal
    <3> QED BY <1>1, <3>1, <3>2 DEF LastInv, AccessIsReal, Wanted
  <2> QED BY <2>1, <2>2
<1> QED BY <1>5, <1>7, <1>8, <1>9, <1>10, <1>11, <1>12

\* An access by CPU c to device d that reports success is right.
Right(c, d, err, file) ==
    err = 0 => IF d = MSR_DEV THEN file = MsrFile(c)
               ELSE /\ d = NodeOf[c] /\ lives <= 1 /\ <<NodeOf[c], d>> \in Present /\ pciFD'[NodeOf[c]][d] # -1
                    => file = PciFile(NodeOf[c], d)

\* The history variable after an access.
LEMMA LastStep ==
  ASSUME SetupInv, NEW c \in registeredCpuList, NEW d, NEW err, NEW file, Done(c, d, err, file), Right(c, d, err, file),
         state = "on", UNCHANGED <<registeredCpuList, state, lives>>
  PROVE  LastInv'
<1>1. /\ last'.cpu = c /\ last'.dev = d /\ last'.err = err /\ last'.file = file /\ last'.recycled = (lives > 1)
  BY DEF Done
<1>2. lives \in Nat
  BY DEF SetupInv
<1>3. ASSUME err = 0, d # MSR_DEV => /\ d = NodeOf[c] /\ ~(lives > 1) /\ <<NodeOf[c], d>> \in Present
                                     /\ pciFD'[NodeOf[c]][d] # -1
      PROVE  file = IF d = MSR_DEV THEN MsrFile(c) ELSE PciFile(NodeOf[c], d)
  BY <1>2, <1>3 DEF Right
<1>4. AccessIsReal'
  BY <1>1, <1>3 DEF AccessIsReal, Wanted
<1> QED BY <1>1, <1>4 DEF LastInv

\* An access that opens no file and changes no table.
LEMMA QuietAccess ==
  ASSUME DirectInv, NEW c \in registeredCpuList, NEW d, NEW err, NEW file,
         Done(c, d, err, file), Right(c, d, err, file), state = "on",
         UNCHANGED <<files, pciFD, msrFD, online, pci_initialized, usable, registeredCpuList, state, lives>>
  PROVE  DirectInv'
<1>1. LastInv'
  BY LastStep DEF DirectInv
<1> QED BY <1>1 DEF DirectInv, TypeOK, Tracked, MsrInv, SetupInv, FirstLifeInv, OpenInv

\* A PCI file cannot be opened: its entry becomes -1.
LEMMA OpenFails ==
  ASSUME DirectInv, NEW c \in registeredCpuList, NEW n \in Rows, NEW d \in Devices, pciFD[n][d] = 0, NEW e, e # 0,
         pciFD' = [pciFD EXCEPT ![n] = [pciFD[n] EXCEPT ![d] = -1]], Done(c, n, e, Closed), state = "on",
         UNCHANGED <<files, msrFD, online, pci_initialized, usable, registeredCpuList, state, lives>>
  PROVE  DirectInv'
<1> USE DEF DirectInv
<1>1. registeredCpuList # {} /\ pci_initialized
  BY DirectAssumption DEF SetupInv
<1>2. /\ pciFD' \in [Rows -> [Devices -> {-2, -1, 0} \cup Descriptors]] /\ pciFD'[n][d] = -1
      /\ \A m \in Rows, b \in Devices : <<m, b>> # <<n, d>> => pciFD'[m][b] = pciFD[m][b]
  BY DEF TypeOK
<1>3. TypeOK'
  BY <1>2 DEF TypeOK
<1>4. Tracked'
  <2>1. ASSUME NEW fd \in Descriptors, NEW m \in Rows, NEW b \in Devices, files[fd] = PciFile(m, b)
        PROVE  pciFD'[m][b] = fd
    <3>1. pciFD[m][b] = fd /\ fd # 0
      BY <2>1, Numbers DEF Tracked
    <3> QED BY <1>2, <3>1
  <2> QED BY <2>1 DEF Tracked
<1>5. MsrInv' /\ OpenInv'
  BY DEF MsrInv, OpenInv
<1>6. SetupInv'
  <2>1. ASSUME NEW b \in registeredCpuList, NEW x \in Devices, <<NodeOf[b], x>> \in Present
        PROVE  pciFD'[NodeOf[b]][x] # -2
    <3>1. pciFD[NodeOf[b]][x] # -2 /\ NodeOf[b] \in Rows
      BY <2>1, DirectAssumption DEF SetupInv, TypeOK
    <3> QED BY <1>2, <3>1
  <2> QED BY <1>1, <2>1 DEF SetupInv
<1>7. FirstLifeInv'
  <2> SUFFICES ASSUME lives <= 1, NEW m \in Rows, NEW b \in Devices
               PROVE  /\ pciFD'[m][b] > 0 => files[pciFD'[m][b]] = PciFile(m, b)
                      /\ pciFD'[m][b] >= 0 /\ pci_initialized => \E a \in registeredCpuList : NodeOf[a] = m
    BY DEF FirstLifeInv
  <2>1. CASE <<m, b>> = <<n, d>>
    <3>1. ~(pciFD'[m][b] > 0) /\ ~(pciFD'[m][b] >= 0)
      BY <1>2, <2>1
    <3> QED BY <3>1
  <2>2. CASE <<m, b>> # <<n, d>>
    BY <1>2, <2>2 DEF FirstLifeInv
  <2> QED BY <2>1, <2>2
<1>8. LastInv'
  <2>1. Right(c, n, e, Closed)
    BY DEF Right
  <2> QED BY <2>1, LastStep
<1> QED BY <1>3, <1>4, <1>5, <1>6, <1>7, <1>8

\* A PCI file is opened for a CPU of package d that asks for device n.
LEMMA OpenStep ==
  ASSUME DirectInv, NEW c \in registeredCpuList, NEW n \in Rows, NEW d \in Devices, d = NodeOf[c], pciFD[n][d] = 0,
         Open(files) # {}, NEW f, f = Lowest(files), files' = [files EXCEPT ![f] = PciFile(n, d)],
         pciFD' = [pciFD EXCEPT ![n] = [pciFD[n] EXCEPT ![d] = f]], Done(c, n, 0, PciFile(n, d)), state = "on",
         n # MSR_DEV,
         UNCHANGED <<msrFD, online, pci_initialized, usable, registeredCpuList, state, lives>>
  PROVE  DirectInv'
<1> USE DEF DirectInv
<1>1. registeredCpuList # {} /\ pci_initialized
  BY DirectAssumption DEF SetupInv
<1>2. f \in Descriptors /\ files[f] = Closed /\ f > 0
  BY LowestFree
<1>3. /\ pciFD' \in [Rows -> [Devices -> {-2, -1, 0} \cup Descriptors]] /\ pciFD'[n][d] = f
      /\ \A m \in Rows, b \in Devices : <<m, b>> # <<n, d>> => pciFD'[m][b] = pciFD[m][b]
  BY <1>2 DEF TypeOK
<1>4. files' \in [Descriptors -> Kinds] /\ files'[f] = PciFile(n, d) /\ \A fd \in Descriptors \ {f} : files'[fd] = files[fd]
  BY <1>2, Numbers DEF Kinds
<1>5. TypeOK'
  BY <1>3, <1>4 DEF TypeOK, Kinds
<1>6. Tracked'
  <2>1. ASSUME NEW fd \in Descriptors, NEW b \in Cpus, files'[fd] = MsrFile(b) PROVE msrFD[b] = fd
    BY <1>4, <2>1, FileKinds DEF Tracked
  <2>2. ASSUME NEW fd \in Descriptors, NEW m \in Rows, NEW b \in Devices, files'[fd] = PciFile(m, b)
        PROVE  pciFD'[m][b] = fd
    <3>1. CASE fd = f
      <4>1. PciFile(m, b) = PciFile(n, d)
        BY <1>4, <2>2, <3>1
      <4>2. m = n /\ b = d
        BY <4>1, FileKinds
      <4> QED BY <1>3, <3>1, <4>2
    <3>2. CASE fd # f
      <4>1. pciFD[m][b] = fd /\ fd # 0
        BY <1>4, <2>2, <3>2, Numbers DEF Tracked
      <4> QED BY <1>3, <4>1
    <3> QED BY <3>1, <3>2
  <2> QED BY <2>1, <2>2 DEF Tracked
<1>7. MsrInv'
  <2>1. ASSUME NEW b \in Cpus, msrFD[b] > 0 PROVE files'[msrFD[b]] = MsrFile(b)
    <3>1. msrFD[b] \in Descriptors /\ files[msrFD[b]] = MsrFile(b)
      BY <2>1, Numbers DEF MsrInv
    <3> QED BY <1>2, <1>4, <3>1, FileKinds
  <2> QED BY <2>1 DEF MsrInv
<1>8. SetupInv'
  <2>1. ASSUME NEW b \in registeredCpuList, NEW x \in Devices, <<NodeOf[b], x>> \in Present
        PROVE  pciFD'[NodeOf[b]][x] # -2
    <3>1. pciFD[NodeOf[b]][x] # -2 /\ NodeOf[b] \in Rows
      BY <2>1, DirectAssumption DEF SetupInv, TypeOK
    <3>2. f # -2
      BY <1>2
    <3> QED BY <1>3, <3>1, <3>2
  <2> QED BY <1>1, <2>1 DEF SetupInv
<1>9. lives <= 1 => \E a \in registeredCpuList : NodeOf[a] = n
  BY <1>1 DEF FirstLifeInv
<1>10. FirstLifeInv'
  <2> SUFFICES ASSUME lives <= 1, NEW m \in Rows, NEW b \in Devices
               PROVE  /\ pciFD'[m][b] > 0 => files'[pciFD'[m][b]] = PciFile(m, b)
                      /\ pciFD'[m][b] >= 0 /\ pci_initialized => \E a \in registeredCpuList : NodeOf[a] = m
    BY DEF FirstLifeInv
  <2>1. CASE <<m, b>> = <<n, d>>
    BY <1>3, <1>4, <1>9, <2>1
  <2>2. CASE <<m, b>> # <<n, d>>
    <3>1. pciFD'[m][b] = pciFD[m][b]
      BY <1>3, <2>2
    <3>2. ASSUME pciFD[m][b] > 0 PROVE files'[pciFD[m][b]] = PciFile(m, b)
      <4>1. pciFD[m][b] \in Descriptors /\ files[pciFD[m][b]] = PciFile(m, b)
        BY <3>2, Numbers DEF FirstLifeInv
      <4> QED BY <1>2, <1>4, <4>1, FileKinds
    <3>3. pciFD[m][b] >= 0 => \E a \in registeredCpuList : NodeOf[a] = m
      BY <1>1 DEF FirstLifeInv
    <3> QED BY <3>1, <3>2, <3>3
  <2> QED BY <2>1, <2>2
<1>11. OpenInv'
  <2>1. ASSUME NEW fd \in Descriptors, NEW m \in Rows, NEW b \in Devices, files'[fd] = PciFile(m, b)
        PROVE  (\E a \in registeredCpuList : NodeOf[a] = m) \/ (lives > 1 /\ m # b)
    <3>1. CASE fd = f
      <4>1. PciFile(m, b) = PciFile(n, d)
        BY <1>4, <2>1, <3>1
      <4>2. m = n /\ b = d
        BY <4>1, FileKinds
      <4>3. lives \in Nat
        BY DEF SetupInv
      <4>4. CASE lives <= 1
        BY <1>9, <4>2, <4>4
      <4>5. CASE lives > 1
        BY <4>2, <4>5
      <4> QED BY <4>3, <4>4, <4>5
    <3>2. CASE fd # f
      BY <1>4, <2>1, <3>2 DEF OpenInv
    <3> QED BY <3>1, <3>2
  <2> QED BY <2>1 DEF OpenInv
<1>12. LastInv'
  <2>1. Right(c, n, 0, PciFile(n, d))
    BY DEF Right
  <2> QED BY <2>1, LastStep
<1> QED BY <1>5, <1>6, <1>7, <1>8, <1>10, <1>11, <1>12

\* HPMaddThread preserves the invariant, whichever way it ends.
LEMMA AddThread ==
  ASSUME DirectInv, NEW c \in Cpus, HPMaddThread(c)
  PROVE  DirectInv'
<1> DEFINE fails == Uncore /\ ~pci_initialized /\ ~usable
<1>1. state = "on" /\ c \notin registeredCpuList /\ UNCHANGED <<usable, state, lives, last>>
  BY DEF HPMaddThread
<1>2. CASE /\ ~(msrFD[c] > 0) /\ msrFD' \in {msrFD, [msrFD EXCEPT ![c] = -1]}
           /\ UNCHANGED <<files, pciFD, online, pci_initialized, registeredCpuList>>
  BY <1>1, <1>2, AddFailsStep
<1>3. CASE /\ \/ msrFD[c] > 0 /\ UNCHANGED <<files, msrFD>>
              \/ ~(msrFD[c] > 0) /\ Open(files) # {} /\ files' = Opened(files, MsrFile(c))
                 /\ msrFD' = [msrFD EXCEPT ![c] = Lowest(files)]
           /\ registeredCpuList' = IF fails THEN registeredCpuList ELSE registeredCpuList \cup {c}
           /\ IF Uncore /\ ~fails THEN access_x86_pci_init(NodeOf[c])
              ELSE UNCHANGED <<pciFD, online, pci_initialized>>
  <2>1. fails = (Uncore /\ ~pci_initialized /\ ~usable)
    OBVIOUS
  <2> HIDE DEF fails
  <2> QED BY <1>1, <1>3, <2>1, AddStep
<1> QED BY <1>2, <1>3 DEF HPMaddThread

\* An access to an MSR uses the file of this CPU.
LEMMA MsrAccess ==
  ASSUME DirectInv, NEW c \in Cpus, Access(c, MSR_DEV)
  PROVE  DirectInv'
<1> USE DEF DirectInv
<1>1. /\ state = "on" /\ c \in registeredCpuList /\ access_x86_msr(c)
      /\ UNCHANGED <<msrFD, online, pci_initialized, usable, registeredCpuList, state, lives>>
  BY DEF Access
<1>2. msrFD[c] > 0 /\ msrFD[c] \in Int /\ files[msrFD[c]] = MsrFile(c)
  BY <1>1, Numbers DEF MsrInv
<1>3. files[msrFD[c]][1] = "msr" /\ ~(msrFD[c] <= 0)
  BY <1>2, FileKinds
<1>4. Done(c, MSR_DEV, 0, MsrFile(c)) /\ UNCHANGED <<files, pciFD>>
  BY <1>1, <1>2, <1>3 DEF access_x86_msr
<1>5. Right(c, MSR_DEV, 0, MsrFile(c))
  BY DEF Right
<1> QED BY <1>1, <1>4, <1>5, QuietAccess

\* An access to device d of the package n of CPU c: the table is used with
\* the two numbers exchanged.
LEMMA PciAccess ==
  ASSUME DirectInv, NEW c \in Cpus, NEW d \in Devices, Access(c, d)
  PROVE  DirectInv'
<1> DEFINE n == NodeOf[c]
<1>1. /\ state = "on" /\ c \in registeredCpuList /\ n \in Rows /\ d # MSR_DEV
      /\ UNCHANGED <<msrFD, online, pci_initialized, usable, registeredCpuList, state, lives>>
  BY DirectAssumption DEF Access
<1>2. TypeOK /\ SetupInv /\ FirstLifeInv
  BY DEF DirectInv
<1>3. CASE ~access_x86_pci_check(d, n)
  <2>1. PICK err \in {0, ENODEV} : Done(c, d, err, Closed) /\ UNCHANGED <<files, pciFD>>
    BY <1>1, <1>3 DEF Access
  <2>2. Right(c, d, err, Closed)
    <3> SUFFICES ASSUME <<n, d>> \in Present, pciFD[n][d] # -1 PROVE FALSE
      BY <1>1, <2>1 DEF Right
    <3>1. pciFD[n][d] # -2 /\ pciFD[n][d] \in {-2, -1, 0} \cup Descriptors
      BY <1>1, <1>2 DEF SetupInv, TypeOK
    <3>2. pciFD[n][d] >= 0
      BY <1>2, <3>1, Numbers
    <3> QED BY <1>3, <3>2 DEF access_x86_pci_check
  <2> QED BY <1>1, <2>1, <2>2, QuietAccess
<1>4. CASE access_x86_pci_check(d, n)
  <2>1. access_x86_pci(c, n, d)
    BY <1>1, <1>4 DEF Access
  <2> DEFINE fd == pciFD[d][n]
             Use(f, fs) == Done(c, d, IF fs[f][1] \in {"pci", "app"} THEN 0 ELSE EIO, fs[f])
  <2>2. CASE n = MSR_DEV /\ Done(c, d, ENODEV, Closed) /\ UNCHANGED <<files, pciFD>>
    <3>1. Right(c, d, ENODEV, Closed)
      BY DEF Right, ENODEV
    <3> QED BY <1>1, <2>2, <3>1, QuietAccess
  <2>3. CASE /\ n # MSR_DEV /\ (d \notin Rows \/ n \notin Devices)
             /\ \E err \in {0, ENODEV, EIO} : Done(c, d, err, Closed)
             /\ UNCHANGED <<files, pciFD>>
    <3>1. PICK err : Done(c, d, err, Closed)
      BY <2>3
    <3>2. Right(c, d, err, Closed)
      BY <1>1, <2>3 DEF Right
    <3> QED BY <1>1, <2>3, <3>1, <3>2, QuietAccess
  <2>4. CASE n \in Devices /\ d \in Rows /\ fd < 0 /\ Done(c, d, ENODEV, Closed) /\ UNCHANGED <<files, pciFD>>
    <3>1. Right(c, d, ENODEV, Closed)
      BY DEF Right, ENODEV
    <3> QED BY <1>1, <2>4, <3>1, QuietAccess
  <2>5. CASE n \in Devices /\ d \in Rows /\ fd > 0 /\ Use(fd, files) /\ UNCHANGED <<files, pciFD>>
    <3> DEFINE err == IF files[fd][1] \in {"pci", "app"} THEN 0 ELSE EIO
    <3>1. Right(c, d, err, files[fd])
      <4> SUFFICES ASSUME d = n, lives <= 1 PROVE files[fd] = PciFile(n, d)
        BY <1>1 DEF Right
      <4> QED BY <1>1, <1>2, <2>5 DEF FirstLifeInv
    <3> HIDE DEF fd
    <3> QED BY <1>1, <2>5, <3>1, QuietAccess
  <2>6. CASE /\ n \in Devices /\ d \in Rows /\ fd = 0 /\ pciFD' = [pciFD EXCEPT ![d][n] = -1]
             /\ Done(c, d, EACCES, Closed) /\ UNCHANGED files
    <3>1. pciFD' = [pciFD EXCEPT ![d] = [pciFD[d] EXCEPT ![n] = -1]] /\ EACCES # 0
      BY <2>6 DEF EACCES
    <3>2. n \in Devices /\ d \in Rows /\ pciFD[d][n] = 0 /\ Done(c, d, EACCES, Closed) /\ UNCHANGED files
      BY <2>6
    <3> HIDE DEF n, fd
    <3> QED BY <1>1, <3>1, <3>2, OpenFails
  <2>7. CASE /\ n \in Devices /\ d \in Rows /\ fd = 0 /\ Open(files) # {}
             /\ files' = Opened(files, PciFile(d, n))
             /\ pciFD' = [pciFD EXCEPT ![d][n] = Lowest(files)]
             /\ Use(Lowest(files), files')
    <3> DEFINE f == Lowest(files)
    <3>1. f \in Descriptors
      BY <1>2, <2>7, LowestFree
    <3>2. files' = [files EXCEPT ![f] = PciFile(d, n)] /\ pciFD' = [pciFD EXCEPT ![d] = [pciFD[d] EXCEPT ![n] = f]]
      BY <2>7 DEF Opened
    <3>3. files'[f] = PciFile(d, n)
      BY <1>2, <3>1, <3>2, Numbers
    <3>4. Done(c, d, 0, PciFile(d, n))
      BY <2>7, <3>3, FileKinds
    <3>5. n \in Devices /\ d \in Rows /\ pciFD[d][n] = 0 /\ Open(files) # {} /\ f = Lowest(files) /\ n = NodeOf[c]
      BY <2>7
    <3> HIDE DEF n, fd, f
    <3> QED BY <1>1, <3>2, <3>4, <3>5, OpenStep
  <2> QED BY <2>1, <2>2, <2>3, <2>4, <2>5, <2>6, <2>7 DEF access_x86_pci
<1> QED BY <1>3, <1>4

-----------------------------------------------------------------------------
(* Theorems *)

\* The invariant the other results rest on: the tables FD of access_x86_msr.c
\* and access_x86_pci.c against the process's files, in every lifetime.
THEOREM DirectInvariant == Spec => []DirectInv
<1>1. Init => DirectInv
  <2> SUFFICES ASSUME Init PROVE DirectInv
    OBVIOUS
  <2> USE DEF Init
  <2>1. \A fd \in Descriptors : files[fd] = Closed
    OBVIOUS
  <2>2. \A c \in Cpus : msrFD[c] = -1 /\ ~(msrFD[c] > 0)
    OBVIOUS
  <2>3. \A n \in Rows, d \in Devices : pciFD[n][d] = 0
    OBVIOUS
  <2>4. TypeOK
    BY DEF TypeOK
  <2>5. Tracked /\ OpenInv
    BY <2>1, FileKinds DEF Tracked, OpenInv
  <2>6. MsrInv
    BY <2>2 DEF MsrInv
  <2>7. SetupInv
    BY <2>3, DirectAssumption DEF SetupInv
  <2>8. FirstLifeInv /\ LastInv
    BY DEF FirstLifeInv, LastInv, AccessIsReal
  <2> QED BY <2>4, <2>5, <2>6, <2>7, <2>8 DEF DirectInv
<1>2. DirectInv /\ [Next]_vars => DirectInv'
  <2> SUFFICES ASSUME DirectInv, [Next]_vars PROVE DirectInv'
    OBVIOUS
  <2>1. CASE HPMinit \/ HPMfinalize \/ Finalized
    BY <2>1, PointerStep
  <2>2. CASE AppOpen \/ AppClose
    BY <2>2, AppStep
  <2>3. CASE FinalizeCpu
    BY <2>3, FinalizeStep
  <2>4. CASE \E c \in Cpus : HPMaddThread(c)
    BY <2>4, AddThread
  <2>5. CASE \E c \in Cpus, d \in Devices \cup {MSR_DEV} : Access(c, d)
    BY <2>5, MsrAccess, PciAccess
  <2>6. CASE UNCHANGED vars
    BY <2>6 DEF vars, DirectInv, TypeOK, Tracked, MsrInv, SetupInv, FirstLifeInv, OpenInv, LastInv, AccessIsReal, Wanted
  <2> QED BY <2>1, <2>2, <2>3, <2>4, <2>5, <2>6 DEF Next
<1> QED BY <1>1, <1>2, PTL DEF Spec

\* Type correctness of the tables and the files.
THEOREM DirectTyped == Spec => []TypeOK
<1>1. DirectInv => TypeOK
  BY DEF DirectInv
<1> QED BY <1>1, DirectInvariant, PTL

\* An access that reports success has touched the register it was asked for,
\* within the limits that AccessIsReal names (access_x86_read and
\* access_x86_write with the tables FD).
THEOREM AccessReachesItsRegister == Spec => []AccessIsReal
<1>1. DirectInv => AccessIsReal
  BY DEF DirectInv, LastInv
<1> QED BY <1>1, DirectInvariant, PTL

\* access_x86_finalize leaves no file of the layer open, with the two
\* exceptions that FilesClosed names.
THEOREM DirectFilesClosed == Spec => []FilesClosed
<1>1. DirectInv => FilesClosed
  <2> SUFFICES ASSUME DirectInv, state = "off", NEW fd \in Descriptors
               PROVE  /\ files[fd][1] = "msr" => Uncore /\ ~usable
                      /\ files[fd][1] = "pci" => lives > 1 /\ files[fd][2] # files[fd][3]
    BY DEF FilesClosed
  <2>1. TypeOK /\ Tracked /\ MsrInv /\ OpenInv /\ registeredCpuList = {}
    BY DEF DirectInv, TypeOK
  <2>2. files[fd] \in Kinds /\ fd > 0
    BY <2>1, Numbers
  <2>3. CASE files[fd] \in {Closed, App}
    BY <2>3, FileKinds
  <2>4. CASE \E c \in Cpus : files[fd] = MsrFile(c)
    <3>1. PICK c \in Cpus : files[fd] = MsrFile(c)
      BY <2>4
    <3>2. msrFD[c] > 0 /\ c \in Cpus \ registeredCpuList
      BY <2>1, <2>2, <3>1 DEF Tracked
    <3>3. Uncore /\ ~usable
      BY <2>1, <3>2 DEF MsrInv
    <3> QED BY <3>1, <3>3, FileKinds
  <2>5. CASE \E n \in Rows, d \in Devices : files[fd] = PciFile(n, d)
    <3>1. PICK n \in Rows, d \in Devices : files[fd] = PciFile(n, d)
      BY <2>5
    <3>2. lives > 1 /\ n # d
      BY <2>1, <3>1 DEF OpenInv
    <3> QED BY <3>1, <3>2, FileKinds
  <2> QED BY <2>2, <2>3, <2>4, <2>5 DEF Kinds
<1> QED BY <1>1, DirectInvariant, PTL
=============================================================================
