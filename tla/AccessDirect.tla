----------------------------- MODULE AccessDirect -----------------------------
(***************************************************************************)
(* The access layer in direct mode (access.c over access_x86.c,            *)
(* access_x86_msr.c and access_x86_pci.c): registers are read and written  *)
(* through device files, one per CPU for its MSRs and one per PCI device   *)
(* of a package.  The functions keep file descriptors in two tables FD,    *)
(* whose entries outlive HPMfinalize.                                      *)
(*                                                                         *)
(* The process has other files, too, which other threads open and close at *)
(* any time (external: AppOpen, AppClose); the kernel hands out the lowest *)
(* free descriptor.                                                        *)
(***************************************************************************)
EXTENDS Integers, FiniteSetsExt

CONSTANTS
    NodeOf,     \* affinity_core2node_lookup: CPUs to packages
    MaxNodes,   \* rows of the table of PCI descriptors (MAX_NUM_NODES)
    Devices,    \* PCI devices; 0 is MSR_DEV
    Present,    \* pairs <<package, device>> that exist
    Uncore,     \* cpuid_info.supportUncore
    PciUsable,  \* whether the first access_x86_pci_init may succeed (rights, model)
    MaxFd,      \* bound: descriptors of the process are 3 .. MaxFd
    MaxLives    \* bound: calls of HPMinit

Cpus == DOMAIN NodeOf
Rows == 0 .. MaxNodes - 1
MSR_DEV == 0

\* perfmon_init_maps sets pci_devices for the processors with supportUncore only.
ASSUME DirectAssumption ==
    /\ MaxNodes \in Nat \ {0} /\ NodeOf \in [Cpus -> Rows] /\ Cpus \subseteq Nat
    /\ Devices \subseteq Nat \ {MSR_DEV} /\ Present \subseteq Rows \X Devices
    /\ Uncore \in BOOLEAN /\ (~Uncore => Devices = {})
    /\ PciUsable \subseteq BOOLEAN /\ MaxFd \in Nat /\ MaxLives \in Nat

VARIABLES
    files,              \* descriptors of the process: what each one is open on
    msrFD,              \* FD of access_x86_msr.c
    pciFD,              \* FD of access_x86_pci.c
    online,             \* pci_devices[dev].online
    pci_initialized,    \* access_x86_initialized
    usable,             \* one of PciUsable
    registeredCpuList,
    state,              \* "off", "on" (the function pointers are set), "finalizing"
    lives,
    last                \* history: the last access, its result and the file it touched

vars == <<files, msrFD, pciFD, online, pci_initialized, usable, registeredCpuList, state, lives, last>>

Descriptors == 3 .. MaxFd
Closed == <<"closed">>
App == <<"app">>
MsrFile(c) == <<"msr", c>>
PciFile(n, d) == <<"pci", n, d>>

\* open yields the lowest free descriptor; close of a closed one does nothing
Open(fs) == {fd \in Descriptors : fs[fd] = Closed}
Lowest(fs) == Min(Open(fs))
Opened(fs, file) == [fs EXCEPT ![Lowest(fs)] = file]
CloseAll(fs, fds) == [fd \in Descriptors |-> IF fd \in fds THEN Closed ELSE fs[fd]]

NoAccess == [cpu |-> -1, dev |-> MSR_DEV, err |-> 0, file |-> Closed, recycled |-> FALSE]

Init ==
    /\ files = [fd \in Descriptors |-> Closed]
    /\ msrFD = [c \in Cpus |-> -1]
    /\ pciFD = [n \in Rows |-> [d \in Devices |-> 0]]
    /\ online = [d \in Devices |-> FALSE]
    /\ pci_initialized = FALSE /\ usable \in PciUsable
    /\ registeredCpuList = {} /\ state = "off" /\ lives = 0
    /\ last = NoAccess

-----------------------------------------------------------------------------
(* Initialisation *)

HPMinit ==
    /\ state = "off" /\ lives < MaxLives
    /\ state' = "on" /\ lives' = lives + 1
    /\ UNCHANGED <<files, msrFD, pciFD, online, pci_initialized, usable, registeredCpuList, last>>

\* The first call marks all devices absent.  Then those of the package that
\* exist are marked to be opened; an entry with any other value stays.
access_x86_pci_init(n) ==
    LET table == IF pci_initialized THEN pciFD ELSE [k \in Rows |-> [d \in Devices |-> -2]]
        absent == {d \in Devices : table[n][d] = -2}
        exist == {d \in absent : <<n, d>> \in Present}
    IN /\ pciFD' = [table EXCEPT ![n] = [d \in Devices |-> IF d \in exist THEN 0 ELSE @[d]]]
       /\ online' = [d \in Devices |-> IF d \in absent THEN d \in exist ELSE online[d]]
       /\ pci_initialized' = TRUE

\* access_x86_msr_init opens the MSR file unless it is open; that fails
\* without rights or descriptors.  access_x86_pci_init fails at its first call
\* only, and then the MSR file stays open.
HPMaddThread(c) ==
    LET isOpen == msrFD[c] > 0
        pciFails == Uncore /\ ~pci_initialized /\ ~usable
    IN
    /\ state = "on" /\ c \notin registeredCpuList
    /\ UNCHANGED <<usable, state, lives, last>>
    /\ \/ /\ ~isOpen
          /\ msrFD' \in {msrFD, [msrFD EXCEPT ![c] = -1]}   \* the test of the file, or its opening, fails
          /\ UNCHANGED <<files, pciFD, online, pci_initialized, registeredCpuList>>
       \/ /\ isOpen \/ Open(files) # {}
          /\ IF isOpen THEN UNCHANGED <<files, msrFD>>
             ELSE /\ files' = Opened(files, MsrFile(c))
                  /\ msrFD' = [msrFD EXCEPT ![c] = Lowest(files)]
          /\ registeredCpuList' = IF pciFails THEN registeredCpuList ELSE registeredCpuList \cup {c}
          /\ IF Uncore /\ ~pciFails THEN access_x86_pci_init(NodeOf[c])
             ELSE UNCHANGED <<pciFD, online, pci_initialized>>

-----------------------------------------------------------------------------
(* Reading and writing *)

ENODEV == 19
EIO == 5
EACCES == 13
Done(c, d, err, file) ==
    last' = [cpu |-> c, dev |-> d, err |-> err, file |-> file, recycled |-> lives > 1]

\* access_x86_msr_read, access_x86_msr_write.  A read with the rdpmc
\* instruction on that CPU yields the same.
access_x86_msr(c) ==
    LET fd == msrFD[c]
    IN /\ IF fd <= 0 THEN Done(c, MSR_DEV, 0, Closed)
          ELSE IF files[fd][1] \in {"msr", "app"} THEN Done(c, MSR_DEV, 0, files[fd])
          ELSE Done(c, MSR_DEV, EIO, files[fd])
       /\ UNCHANGED <<files, pciFD>>

access_x86_pci_check(d, n) == online[d] \/ pciFD[n][d] >= 0

\* The caller asks for device d of package n.  access_x86_pci_read and
\* access_x86_pci_write take the device first and the package second: dev is
\* the package and socket the device.  Beyond the table anything may happen.
\* A PCI register is four bytes wide, which an MSR file refuses.
access_x86_pci(c, n, d) ==
    LET dev == n
        socket == d
        Use(fd, fs) == Done(c, d, IF fs[fd][1] \in {"pci", "app"} THEN 0 ELSE EIO, fs[fd])
    IN \/ /\ dev = MSR_DEV
          /\ Done(c, d, ENODEV, Closed) /\ UNCHANGED <<files, pciFD>>
       \/ /\ dev # MSR_DEV /\ (socket \notin Rows \/ dev \notin Devices)
          /\ \E err \in {0, ENODEV, EIO} : Done(c, d, err, Closed)
          /\ UNCHANGED <<files, pciFD>>
       \/ /\ dev \in Devices /\ socket \in Rows
          /\ LET fd == pciFD[socket][dev]
             IN \/ /\ fd < 0
                   /\ Done(c, d, ENODEV, Closed) /\ UNCHANGED <<files, pciFD>>
                \/ /\ fd > 0
                   /\ Use(fd, files) /\ UNCHANGED <<files, pciFD>>
                \/ /\ fd = 0 /\ Open(files) = {}
                   /\ pciFD' = [pciFD EXCEPT ![socket][dev] = -1]
                   /\ Done(c, d, EACCES, Closed) /\ UNCHANGED files
                \/ /\ fd = 0 /\ Open(files) # {}
                   /\ files' = Opened(files, PciFile(socket, dev))
                   /\ pciFD' = [pciFD EXCEPT ![socket][dev] = Lowest(files)]
                   /\ Use(Lowest(files), files')

\* HPMread and HPMwrite; err is not set for a device that is not there
Access(c, d) ==
    /\ state = "on" /\ c \in registeredCpuList
    /\ IF d = MSR_DEV THEN access_x86_msr(c)
       ELSE IF access_x86_pci_check(d, NodeOf[c]) THEN access_x86_pci(c, NodeOf[c], d)
       ELSE (\E err \in {0, ENODEV} : Done(c, d, err, Closed)) /\ UNCHANGED <<files, pciFD>>
    /\ UNCHANGED <<msrFD, online, pci_initialized, usable, registeredCpuList, state, lives>>

-----------------------------------------------------------------------------
(* Finalisation: one CPU after the other, while other threads may run *)

HPMfinalize ==
    /\ state = "on"
    /\ state' = "finalizing"
    /\ UNCHANGED <<files, msrFD, pciFD, online, pci_initialized, usable, registeredCpuList, lives, last>>

\* variants: the number of the MSR file is kept; the PCI files are not closed
access_x86_finalizeKeepsNumber(c) ==
    LET pci == IF Uncore THEN {pciFD[NodeOf[c]][d] : d \in Devices} ELSE {}
    IN files' = CloseAll(files, {fd \in {msrFD[c]} \cup pci : fd > 0}) /\ UNCHANGED msrFD
access_x86_finalizeMsrOnly(c) ==
    /\ files' = CloseAll(files, {fd \in {msrFD[c]} : fd > 0})
    /\ msrFD' = [msrFD EXCEPT ![c] = IF @ > 0 THEN 0 ELSE @]

\* descriptors of access_x86_msr_finalize and access_x86_pci_finalize; the
\* first one is forgotten, the others are kept
access_x86_finalize(c) ==
    LET pci == IF Uncore THEN {pciFD[NodeOf[c]][d] : d \in Devices} ELSE {}
    IN /\ files' = CloseAll(files, {fd \in {msrFD[c]} \cup pci : fd > 0})
       /\ msrFD' = [msrFD EXCEPT ![c] = IF @ > 0 THEN 0 ELSE @]

FinalizeCpu ==
    /\ state = "finalizing" /\ registeredCpuList # {}
    /\ LET c == Min(registeredCpuList)
       IN access_x86_finalize(c) /\ registeredCpuList' = registeredCpuList \ {c}
    /\ UNCHANGED <<pciFD, online, pci_initialized, usable, state, lives, last>>
\* variant: the loop over the CPUs ends too early
FinalizedEarly ==
    /\ state = "finalizing"
    /\ state' = "off" /\ last' = NoAccess
    /\ UNCHANGED <<files, msrFD, pciFD, online, pci_initialized, usable, registeredCpuList, lives>>
Finalized ==
    /\ state = "finalizing" /\ registeredCpuList = {}
    /\ state' = "off" /\ last' = NoAccess
    /\ UNCHANGED <<files, msrFD, pciFD, online, pci_initialized, usable, registeredCpuList, lives>>

\* the rest of the process
AppOpen ==
    /\ Open(files) # {} /\ \A fd \in Descriptors : files[fd] # App
    /\ files' = Opened(files, App)
    /\ UNCHANGED <<msrFD, pciFD, online, pci_initialized, usable, registeredCpuList, state, lives, last>>
AppClose ==
    /\ \E fd \in Descriptors : files[fd] = App /\ files' = [files EXCEPT ![fd] = Closed]
    /\ UNCHANGED <<msrFD, pciFD, online, pci_initialized, usable, registeredCpuList, state, lives, last>>

Next ==
    \/ HPMinit \/ HPMfinalize \/ FinalizeCpu \/ Finalized \/ AppOpen \/ AppClose
    \/ \E c \in Cpus : HPMaddThread(c)
    \/ \E c \in Cpus, d \in Devices \cup {MSR_DEV} : Access(c, d)

Spec == Init /\ [][Next]_vars

-----------------------------------------------------------------------------
\* Types of the descriptor tables FD of access_x86_msr.c and access_x86_pci.c
\* and of the process's files; no CPU is registered while the layer is down.
TypeOK ==
    /\ files \in [Descriptors -> {Closed, App} \cup {MsrFile(c) : c \in Cpus}
                                 \cup {PciFile(n, d) : n \in Rows, d \in Devices}]
    /\ msrFD \in [Cpus -> {-1, 0} \cup Descriptors]
    /\ pciFD \in [Rows -> [Devices -> {-2, -1, 0} \cup Descriptors]]
    /\ registeredCpuList \subseteq Cpus /\ state \in {"off", "on", "finalizing"}
    /\ registeredCpuList # {} => state # "off"

Wanted == IF last.dev = MSR_DEV THEN MsrFile(last.cpu) ELSE PciFile(NodeOf[last.cpu], last.dev)

\* An access that reports success has touched the register it was asked for:
\* the MSR of this CPU, in every lifetime of the access layer and whatever has
\* become of the descriptors of earlier ones; or the register of this device
\* of this package, in the first lifetime, if it exists, unless an attempt to
\* open its file has failed (then err may be undefined), and as far as device
\* and package are the same number (access_x86_read, access_x86_write, and
\* their tables FD).
AccessIsReal ==
    /\ state = "on" /\ last # NoAccess /\ last.err = 0
    /\ last.dev # MSR_DEV => /\ last.dev = NodeOf[last.cpu] /\ ~last.recycled
                             /\ <<NodeOf[last.cpu], last.dev>> \in Present
                             /\ pciFD[NodeOf[last.cpu]][last.dev] # -1
    => last.file = Wanted

\* When the layer is down, none of its files is open, with two exceptions:
\* the MSR file of a CPU whose registration failed because of the PCI devices,
\* and PCI files of a package other than those registered (access_x86_finalize).
FilesClosed ==
    state = "off" =>
        \A fd \in Descriptors :
            /\ files[fd][1] = "msr" => Uncore /\ ~usable
            /\ files[fd][1] = "pci" => lives > 1 /\ files[fd][2] # files[fd][3]

\* HPMfinalize closes the connections to the MSR and PCI files, and no other
\* file of the process.
OnlyOwnFilesClosed ==
    [][FinalizeCpu => \A fd \in Descriptors : files[fd] = App => files'[fd] = App]_vars
=============================================================================
