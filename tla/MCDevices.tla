----------------------------- MODULE MCDevices ------------------------------
(***************************************************************************)
(* Devices and the platform: one behaviour exercises interrupt dispatch,   *)
(* the console with its keyboard, PCI discovery with the drivers, or the   *)
(* platform's tables and clocks.  ConsoleSound, InterruptsSound and        *)
(* ProofsEnd are those of the modules this one extends.                    *)
(***************************************************************************)
EXTENDS Console, Interrupts, TLC

CONSTANTS
    Functions, SlotCount, CapGuard, DeviceLimit, StorageLimit, VectorSlots, RouteLimit,
    ControllerLimit, PortLimit, BlockLimit,
    Roots, Madts, LegacyIrqs, EntriesAssumed, ControllerMax, OverrideMax, RouteMax, Machines,
    ClockWord, Femto, Hours, MaxTicks,
    Parts    \* the components that are exercised

VARIABLES
    part,
    slots, pci, routes, drivers, blocks, stage,
    firmware, ioapic, hpet, mcfg, clock, rtc, reading, shown

D == INSTANCE Devices
P == INSTANCE Platform

devVars == <<slots, pci, routes, drivers, blocks, stage>>
platVars == <<firmware, ioapic, hpet, mcfg, clock, rtc, reading, shown>>
vars == <<part, interruptVars, consoleVars, devVars, platVars>>

ASSUME ConsoleAssumption == ConsoleConstants
ASSUME InterruptsAssumption == InterruptsConstants

Caps(one, two, three) == 64 :> one @@ 80 :> two @@ 96 :> three

Cap(id, next) == [id |-> id, next |-> next]

\* Chains of capabilities: an MSI capability behind another, a list that loops.
Chain == Caps(Cap("pm", 80), Cap("msi", 0), Cap("msix", 0))
Loop == Caps(Cap("pm", 96), Cap("msi", 64), Cap("msix", 64))

Fn(vendor, id, class, subclass, bar, pin, first, caps, ports) ==
    [vendor |-> vendor, id |-> id, class |-> class, subclass |-> subclass, bar |-> bar, pin |-> pin,
     first |-> first, caps |-> caps, ports |-> ports]

Port(signature, det) == [signature |-> signature, det |-> det, ipm |-> IF det = 3 THEN 1 ELSE 0]

\* A SATA controller with two disks, an optical drive and an empty port; NVMe with
\* and without its registers; VirtIO block and modern VirtIO network and display; a USB host.
MCFunctions ==
    {Fn("intel", 1, "storage", "sata", TRUE, TRUE, 0, Chain,
        <<Port("sata", 3), Port("satapi", 3), Port("sata", 3), Port("sata", 0)>>),
     Fn("intel", 2, "storage", "nvme", TRUE, FALSE, 64, Loop, <<>>),
     Fn("intel", 3, "storage", "nvme", FALSE, FALSE, 64, Chain, <<>>),
     Fn("virtio", 4097, "storage", "other", TRUE, TRUE, 96, Chain, <<>>),
     Fn("virtio", 4161, "network", "other", TRUE, FALSE, 64, Chain, <<>>),
     Fn("virtio", 4176, "display", "other", TRUE, TRUE, 80, Chain, <<>>),
     Fn("intel", 5, "usb", "other", TRUE, FALSE, 0, Chain, <<>>)}

Table(sig, checksum) == [sig |-> sig, checksum |-> checksum]

\* Both lists, an XSDT without the HPET, a damaged MADT, a damaged XSDT or root.
MCRoots ==
    LET both == <<Table("MCFG", TRUE), Table("APIC", TRUE), Table("HPET", TRUE)>>
        damaged == <<Table("APIC", FALSE), Table("MCFG", FALSE), Table("HPET", TRUE)>>
        list(valid, tables) == [valid |-> valid, tables |-> tables]
        root(checksum, revision, xsdt, rsdt) ==
            [checksum |-> checksum, revision |-> revision, xsdt |-> xsdt, rsdt |-> rsdt]
    IN  {root(TRUE, 2, list(TRUE, both), list(TRUE, damaged)),
         root(TRUE, 2, list(TRUE, damaged), list(TRUE, both)),
         root(TRUE, 2, list(FALSE, both), list(TRUE, both)),
         root(TRUE, 0, list(TRUE, damaged), list(TRUE, damaged)),
         root(FALSE, 2, list(TRUE, both), list(TRUE, both))}

\* One full controller with the timer's override; two small ones, the first with
\* fewer entries than it is taken to have; three controllers and three overrides.
MCMadts ==
    LET ctrl(base, size) == [base |-> base, size |-> size]
        over(irq, gsi) == [irq |-> irq, gsi |-> gsi]
    IN  {[controllers |-> <<ctrl(0, 3)>>, overrides |-> <<over(0, 2)>>],
         [controllers |-> <<ctrl(0, 1), ctrl(3, 3)>>, overrides |-> <<over(1, 4)>>],
         [controllers |-> <<ctrl(3, 3), ctrl(0, 3), ctrl(6, 3)>>,
          overrides |-> <<over(2, 5), over(2, 1), over(0, 7)>>]}

Machine(invariant, hasApic, on, delta, period, tsc) ==
    [invariantTsc |-> invariant, apic |-> hasApic, hpetEnabled |-> on, hpetDelta |-> delta,
     period |-> period, tscDelta |-> tsc, apicDelta |-> 2]

\* Deltas whose products fit the word, and on the last machine one that does not.
MCMachines ==
    {Machine(TRUE, TRUE, TRUE, 2, 10, 8), Machine(FALSE, TRUE, TRUE, 2, 10, 8),
     Machine(FALSE, FALSE, TRUE, 0, 10, 8), Machine(TRUE, FALSE, FALSE, 2, 10, 8),
     Machine(FALSE, TRUE, TRUE, 2, 10, 42)}

-----------------------------------------------------------------------------
EmptySlots == [s \in 1..SlotCount |-> D!Empty]

PlainFirmware == CHOOSE f \in [root : Roots, madt : Madts, machine : Machines] : TRUE

PlainRtc(hour) ==
    [second |-> 59, minute |-> 59, hour |-> hour, day |-> 9, bcd |-> TRUE, twentyFour |-> TRUE]

\* The components that are not exercised start in one fixed state.  The modes of
\* the real-time clock and the firmware's tables are varied one at a time.
Init ==
    /\ part \in Parts
    /\ DispatchInit /\ ConsoleInit
    /\ part # "interrupts" => pic.imr = {}
    /\ IF part = "devices" THEN TRUE ELSE slots = EmptySlots
    /\ D!Init
    /\ IF part = "platform" THEN TRUE ELSE firmware = PlainFirmware
    /\ \/ firmware = PlainFirmware /\ (part = "platform" \/ rtc = PlainRtc(23))
       \/ part = "platform" /\ rtc = PlainRtc(23)
    /\ P!Init

Next ==
    /\ UNCHANGED part
    /\ \/ part = "interrupts" /\ DispatchNext /\ UNCHANGED <<consoleVars, devVars, platVars>>
       \/ part = "console" /\ ConsoleNext /\ UNCHANGED <<interruptVars, devVars, platVars>>
       \/ part = "devices" /\ D!Next /\ UNCHANGED <<interruptVars, consoleVars, platVars>>
       \/ part = "platform" /\ P!Next /\ UNCHANGED <<interruptVars, consoleVars, devVars>>

\* A handler returns and the loop of a timer proof ends by itself: both are code
\* that runs to its end once no interrupt is being handled.
Fairness ==
    /\ WF_vars(part = "interrupts" /\ InterruptReturn /\ UNCHANGED <<part, consoleVars, devVars, platVars>>)
    /\ WF_vars(part = "interrupts" /\ ExceptionReturn /\ UNCHANGED <<part, consoleVars, devVars, platVars>>)
    /\ WF_vars(part = "interrupts" /\ FinishTimerProof /\ UNCHANGED <<part, consoleVars, devVars, platVars>>)

Spec == Init /\ [][Next]_vars /\ Fairness

-----------------------------------------------------------------------------
\* Scan, routes, drivers and block layer name the same devices (Devices!DevicesSound).
DevicesSound == part = "devices" => D!DevicesSound

\* Intact tables, routes that lead and clocks that can be trusted (Platform!PlatformSound).
PlatformSound == part = "platform" => P!PlatformSound

\* A calibrated TSC has the frequency that was measured (Platform!CalibratedExact).
CalibratedExact == part = "platform" => P!CalibratedExact
=============================================================================
