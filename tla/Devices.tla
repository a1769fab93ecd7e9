------------------------------ MODULE Devices -------------------------------
(***************************************************************************)
(* PCI discovery (KernelPciDiscovery.c, KernelPciReport.c), the routes of  *)
(* device interrupts (KernelInterruptDevice.c) and the drivers that        *)
(* OrynKernelPciInit starts on what it found: AHCI, NVMe, USB mass         *)
(* storage, VirtIO block, network and display.                             *)
(*                                                                         *)
(* The scan takes one function slot at a time; then each driver records    *)
(* its controllers and registers the block devices it prepared.  What the  *)
(* configuration space of a function says is a member of Functions.        *)
(***************************************************************************)
EXTENDS Integers, Sequences, FiniteSets, SequencesExt

CONSTANTS
    Functions,       \* contents of a function's configuration space
    SlotCount,       \* function slots that are scanned
    CapGuard,        \* 48: capabilities looked at before giving up
    DeviceLimit,     \* ORYN_PCI_MAX_RECORDED_DEVICES
    StorageLimit,    \* ORYN_PCI_MAX_STORAGE_CONTROLLERS
    VectorSlots,     \* 0x40: vectors handed out from 0x90
    RouteLimit,      \* ORYN_INTERRUPT_DEVICE_ROUTE_COUNT
    ControllerLimit, \* ORYN_AHCI_MAX_CONTROLLERS and its like
    PortLimit,       \* ORYN_AHCI_MAX_PORTS
    BlockLimit       \* devices the block layer takes

VARIABLES
    slots,      \* the machine: what each function slot holds, or Empty
    pci,        \* gPciState
    routes,     \* gDeviceRoutes, gDeviceRouteFailures
    drivers,    \* the state of each driver
    blocks,     \* block devices registered with the block layer, in order
    stage       \* the slot or the driver that is next

vars == <<slots, pci, routes, drivers, blocks, stage>>

Empty == [kind |-> "empty"]

\* The drivers, in the order OrynKernelPciInit runs them.
Drivers == <<"ahci", "nvme", "usb", "virtioBlock", "virtioNet", "virtioGpu">>
DriverNames == Range(Drivers)

-----------------------------------------------------------------------------
(***************************************************************************)
(* Reading a function.                                                     *)
(***************************************************************************)

\* ScanCapabilities: the list from pointer p, a pointer that repeats itself or is
\* below the header ends it, and so does the guard.
CapsFrom(caps, p, guard) ==
    LET walk[g \in 0..guard] ==   \* <<the pointers visited, the next pointer>>
            IF g = 0 THEN <<{}, p>>
            ELSE LET at == walk[g - 1]
                 IN  IF at[2] \notin DOMAIN caps THEN at
                     ELSE <<at[1] \cup {at[2]},
                            IF caps[at[2]].next = at[2] THEN 0 ELSE caps[at[2]].next>>
    IN  walk[guard][1]

\* The identifiers of the capabilities that are looked at.
Capabilities(f) == {f.caps[p].id : p \in CapsFrom(f.caps, f.first, CapGuard)}

\* ReadDevice: what is kept of a function, with no vector yet.
ReadDevice(slot, f) ==
    [slot |-> slot, fn |-> f, msi |-> "msi" \in Capabilities(f), msix |-> "msix" \in Capabilities(f),
     vector |-> 0]

\* The range of device numbers also covers network and display devices.
IsStorageController(f) ==
    f.class = "storage" \/ (f.vendor = "virtio" /\ 4097 <= f.id /\ f.id <= 4162)

RecordStorageController(s, d) ==
    IF Len(s.storage) < StorageLimit THEN [s EXCEPT !.storage = Append(@, d)]
    ELSE [s EXCEPT !.storageTruncated = TRUE]

\* CountClass: a storage controller is counted and recorded as one whatever its
\* class says.
CountClass(s, d) ==
    LET kind == IF IsStorageController(d.fn) THEN "storage" ELSE d.fn.class
        counted == IF kind = "other" THEN s ELSE [s EXCEPT !.found[kind] = @ + 1]
    IN  IF kind = "storage" THEN RecordStorageController(counted, d) ELSE counted

HasInterrupt(d) == d.fn.pin \/ d.msi \/ d.msix

\* RegisterDeviceInterrupt: vectors are handed out in turn and come round again.
NextVector(s) == 144 + (s.handlers % VectorSlots)

\* RememberDeviceRoute: the handler is registered even when no route is left.
RememberDeviceRoute(r, d, v) ==
    IF Len(r.list) >= RouteLimit THEN [r EXCEPT !.failures = @ + 1]
    ELSE [r EXCEPT !.list = Append(@, [slot |-> d.slot, vector |-> v])]

\* OrynKernelInterruptsFindDeviceHandler: the first route of the function, or 0.
FindDeviceHandler(slot) ==
    LET own == SelectSeq(routes.list, LAMBDA r : r.slot = slot)
    IN  IF own = <<>> THEN 0 ELSE own[1].vector

\* Mutant of RecordDevice: the vector is assigned after the copy was taken.
RecordDeviceEarly(d) ==
    IF Len(pci.devices) >= DeviceLimit
    THEN /\ pci' = [CountClass(pci, d) EXCEPT !.all = @ + 1, !.truncated = TRUE]
         /\ UNCHANGED routes
    ELSE /\ pci' = [CountClass(pci, d) EXCEPT !.all = @ + 1, !.devices = Append(@, d),
                                              !.handlers = @ + (IF HasInterrupt(d) THEN 1 ELSE 0)]
         /\ routes' = IF HasInterrupt(d) THEN RememberDeviceRoute(routes, d, NextVector(pci)) ELSE routes

\* The function is counted, then recorded with its vector; beyond the limit it is
\* counted only and gets no handler.
RecordDevice(d) ==
    LET v == NextVector(pci)
        known == IF HasInterrupt(d) THEN [d EXCEPT !.vector = v] ELSE d
    IN  IF Len(pci.devices) >= DeviceLimit
        THEN /\ pci' = [CountClass(pci, d) EXCEPT !.all = @ + 1, !.truncated = TRUE]
             /\ UNCHANGED routes
        ELSE /\ pci' = [CountClass(pci, d) EXCEPT !.all = @ + 1, !.devices = Append(@, known),
                            !.handlers = @ + (IF HasInterrupt(d) THEN 1 ELSE 0)]
             /\ routes' = IF HasInterrupt(d) THEN RememberDeviceRoute(routes, d, v) ELSE routes

\* ScanConfigSpace, one slot; every function of a device is looked at.
ScanFunction ==
    /\ stage \in 1..SlotCount
    /\ stage' = stage + 1
    /\ IF slots[stage] = Empty THEN UNCHANGED <<pci, routes>>
       ELSE RecordDevice(ReadDevice(stage, slots[stage]))
    /\ UNCHANGED <<slots, drivers, blocks>>

-----------------------------------------------------------------------------
(***************************************************************************)
(* Drivers.  AHCI and NVMe look through the recorded storage controllers,  *)
(* the others through every recorded device.                               *)
(***************************************************************************)

\* What each driver takes for its own.  AHCI does not look at the class.
IsAhci(f) == f.subclass = "sata"
IsNvme(f) == f.class = "storage" /\ f.subclass = "nvme"
IsUsbHost(f) == f.class = "usb"
IsVirtioBlock(f) == f.vendor = "virtio" /\ f.id \in {4097, 4162}
IsVirtioNet(f) == f.vendor = "virtio" /\ f.id \in {4096, 4161}
IsVirtioGpu(f) == f.vendor = "virtio" /\ f.id \in {4112, 4176}

Matches(name, f) ==
    CASE name = "ahci" -> IsAhci(f)
      [] name = "nvme" -> IsNvme(f)
      [] name = "usb" -> IsUsbHost(f)
      [] name = "virtioBlock" -> IsVirtioBlock(f)
      [] name = "virtioNet" -> IsVirtioNet(f)
      [] OTHER -> IsVirtioGpu(f)

Candidates(name) ==
    SelectSeq(IF name \in {"ahci", "nvme"} THEN pci.storage ELSE pci.devices,
              LAMBDA d : Matches(name, d.fn))

\* A controller without its register window is found and not recorded.
Usable(name, f) == name \in {"ahci", "nvme"} => f.bar

\* The controllers that are recorded, up to the limit.
Controllers(name) ==
    LET usable == SelectSeq(Candidates(name), LAMBDA d : Usable(name, d.fn))
    IN  SubSeq(usable, 1, IF Len(usable) < ControllerLimit THEN Len(usable) ELSE ControllerLimit)

\* OrynAhciClassifyPort: a device answers only on a port that is up and active.
ClassifyPort(port) == IF port.det = 3 /\ port.ipm = 1 THEN port.signature ELSE "none"

\* AhciRecordPort over all controllers: implemented ports in their order, up to
\* the limit of port records.
AhciPorts(ctrls) ==
    LET all == FlattenSeq([i \in DOMAIN ctrls |->
                   [p \in DOMAIN ctrls[i].fn.ports |->
                       [slot |-> ctrls[i].slot, port |-> p,
                        type |-> ClassifyPort(ctrls[i].fn.ports[p])]]])
    IN  SubSeq(all, 1, IF Len(all) < PortLimit THEN Len(all) ELSE PortLimit)

Disk(name, slot, port) == [driver |-> name, slot |-> slot, port |-> port]

\* AhciCountPort: only SATA ports are prepared.
AhciDisks(ctrls) ==
    LET sata == SelectSeq(AhciPorts(ctrls), LAMBDA p : p.type = "sata")
    IN  [i \in DOMAIN sata |-> Disk("ahci", sata[i].slot, sata[i].port)]

\* NvmeRecordSyntheticNamespace: one namespace of each controller.
NvmeDisks(ctrls) == [i \in DOMAIN ctrls |-> Disk("nvme", ctrls[i].slot, 1)]

\* VirtioBlockPrepareDevice: each controller is a disk.
VirtioBlockDisks(ctrls) == [i \in DOMAIN ctrls |-> Disk("virtioBlock", ctrls[i].slot, 1)]

\* The block devices a driver prepares; USB hosts are recorded without disks.
Prepared(name, ctrls) ==
    CASE name = "ahci" -> AhciDisks(ctrls)
      [] name = "nvme" -> NvmeDisks(ctrls)
      [] name = "virtioBlock" -> VirtioBlockDisks(ctrls)
      [] OTHER -> <<>>

\* The driver's Init...FromPci, which starts from a cleared state.
DriverInit ==
    /\ stage > SlotCount /\ stage - SlotCount <= Len(Drivers)
    /\ LET name == Drivers[stage - SlotCount]
       IN  /\ drivers[name].state = "off"
           /\ drivers' = [drivers EXCEPT ![name] =
                 [state |-> "ready", found |-> Len(Candidates(name)),
                  controllers |-> Controllers(name),
                  prepared |-> Prepared(name, Controllers(name)), registered |-> 0, requests |-> 0]]
    /\ UNCHANGED <<slots, pci, routes, blocks, stage>>

Room(prepared) ==
    IF Len(blocks) + Len(prepared) <= BlockLimit THEN Len(prepared) ELSE BlockLimit - Len(blocks)

\* Register...PreparedBlockDevices: each once, as long as the block layer has room.
RegisterPreparedBlockDevices ==
    /\ stage > SlotCount /\ stage - SlotCount <= Len(Drivers)
    /\ LET name == Drivers[stage - SlotCount]
           d == drivers[name]
       IN  /\ d.state = "ready"
           /\ drivers' = [drivers EXCEPT ![name].registered = Room(d.prepared)]
           /\ blocks' = blocks \o SubSeq(d.prepared, 1, Room(d.prepared))
    /\ stage' = stage + 1
    /\ UNCHANGED <<slots, pci, routes>>

\* A request to a registered device: reads and writes are counted and refused, a
\* flush is counted and granted.
BlockRequest ==
    /\ stage > SlotCount + Len(Drivers)
    /\ \E b \in Range(blocks) :
         /\ drivers[b.driver].requests = 0
         /\ drivers' = [drivers EXCEPT ![b.driver].requests = @ + 1]
    /\ UNCHANGED <<slots, pci, routes, blocks, stage>>

-----------------------------------------------------------------------------
Off == [state |-> "off", found |-> 0, controllers |-> <<>>, prepared |-> <<>>, registered |-> 0,
        requests |-> 0]

Classes == {"storage", "network", "display", "bridge", "usb"}

\* OrynKernelPciInit clears its state before the scan.
Init ==
    /\ slots \in [1..SlotCount -> Functions \cup {Empty}]
    /\ pci = [all |-> 0, devices |-> <<>>, storage |-> <<>>, truncated |-> FALSE,
              storageTruncated |-> FALSE, handlers |-> 0, found |-> [c \in Classes |-> 0]]
    /\ routes = [list |-> <<>>, failures |-> 0]
    /\ drivers = [n \in DriverNames |-> Off]
    /\ blocks = <<>>
    /\ stage = 1

Next == ScanFunction \/ DriverInit \/ RegisterPreparedBlockDevices \/ BlockRequest

Spec == Init /\ [][Next]_vars

-----------------------------------------------------------------------------
(***************************************************************************)
(* Properties.                                                             *)
(***************************************************************************)

\* Types; no list outgrows its array (the limits of KernelPci.h, KernelAhci.h).
TypeOK ==
    /\ Len(pci.devices) <= DeviceLimit /\ Len(pci.storage) <= StorageLimit
    /\ Len(routes.list) <= RouteLimit /\ Len(blocks) <= BlockLimit
    /\ \A n \in DriverNames : Len(drivers[n].controllers) <= ControllerLimit
    /\ Len(AhciPorts(drivers["ahci"].controllers)) <= PortLimit
    /\ \A i \in DOMAIN pci.devices : pci.devices[i].vector \in {0} \cup 144..(143 + VectorSlots)

\* A device list that lacks a function that was found says so
\* (DeviceListTruncated, StorageListTruncated).
TruncationTold ==
    /\ pci.truncated <=> pci.all > Len(pci.devices)
    /\ pci.storageTruncated <=> pci.found["storage"] > Len(pci.storage)

\* Asking for the handler of a recorded device gives the vector the device was
\* given, and the one the network and display drivers keep, unless the table of
\* routes was full (RegisterDeviceInterrupt, OrynKernelInterruptsFindDeviceHandler).
RouteIsTheDevices ==
    \A list \in {pci.devices, drivers["virtioNet"].controllers, drivers["virtioGpu"].controllers} :
        \A i \in DOMAIN list :
            \/ FindDeviceHandler(list[i].slot) = list[i].vector
            \/ FindDeviceHandler(list[i].slot) = 0 /\ routes.failures > 0

\* Two devices have one vector only if the vectors have come round in between
\* (RegisterDeviceInterrupt).
VectorsShared ==
    \A i, j \in DOMAIN pci.devices :
        i < j /\ pci.devices[i].vector # 0 /\ pci.devices[i].vector = pci.devices[j].vector =>
            Cardinality({k \in i..(j - 1) : pci.devices[k].vector # 0}) >= VectorSlots

Reachable(f) ==
    LET step(ps) == ps \cup {f.caps[p].next : p \in ps \cap DOMAIN f.caps}
        closure[n \in 0..Cardinality(DOMAIN f.caps)] ==
            IF n = 0 THEN {f.first} ELSE step(closure[n - 1])
    IN  closure[Cardinality(DOMAIN f.caps)] \cap DOMAIN f.caps

\* A device is MSI or MSI-X capable exactly when its capability list, which may
\* loop, leads to such a capability (ScanCapabilities).
CapabilitiesFound ==
    \A i \in DOMAIN pci.devices :
        LET d == pci.devices[i]
            ids == {d.fn.caps[p].id : p \in Reachable(d.fn)}
        IN  (d.msi <=> "msi" \in ids) /\ (d.msix <=> "msix" \in ids)

\* The block layer has each prepared disk at most once, every driver's count is
\* the number of its disks there, and all of them are there unless it is full
\* (OrynAhciRegisterPreparedBlockDevices and its like).
DisksRegisteredOnce ==
    /\ \A i, j \in DOMAIN blocks : blocks[i] = blocks[j] => i = j
    /\ \A n \in DriverNames :
         LET own == SelectSeq(blocks, LAMBDA b : b.driver = n)
         IN  /\ Len(own) = drivers[n].registered
             /\ Range(own) \subseteq Range(drivers[n].prepared)
    /\ stage > SlotCount + Len(Drivers) /\ Len(blocks) < BlockLimit =>
         \A n \in DriverNames : drivers[n].registered = Len(drivers[n].prepared)

\* Only a SATA port that is up becomes a disk (OrynAhciClassifyPort).
DisksAreSata ==
    \A i \in DOMAIN blocks :
        blocks[i].driver = "ahci" =>
            LET port == slots[blocks[i].slot].ports[blocks[i].port]
            IN  port.signature = "sata" /\ port.det = 3 /\ port.ipm = 1

\* What the scan recorded, the routes, the drivers and the block layer name the
\* same devices, also when a table is full (KernelPciDiscovery.c,
\* KernelInterruptDevice.c, KernelAhci.c).
DevicesSound ==
    /\ TypeOK
    /\ TruncationTold
    /\ RouteIsTheDevices
    /\ VectorsShared
    /\ CapabilitiesFound
    /\ DisksRegisteredOnce
    /\ DisksAreSata

=============================================================================
