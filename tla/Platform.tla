------------------------------ MODULE Platform ------------------------------
(***************************************************************************)
(* What the kernel takes from the platform's tables and clocks: the search *)
(* of the ACPI tables, the IO APIC (KernelIoApic.c), the HPET              *)
(* (KernelHpet.c), the choice and calibration of clocks (KernelClock.c)    *)
(* and the real-time clock, which goes on while its registers are read     *)
(* (KernelRtc.c).                                                          *)
(***************************************************************************)
EXTENDS Integers, Sequences, FiniteSets, SequencesExt

CONSTANTS
    Roots,           \* ACPI roots the firmware may hand over
    Madts,           \* interrupt controllers and overrides of a MADT
    LegacyIrqs,      \* legacy interrupts that are routed
    EntriesAssumed,  \* 24: redirection entries a controller is taken to have
    ControllerMax,   \* ORYN_KERNEL_IOAPIC_MAX_CONTROLLERS
    OverrideMax,     \* ORYN_KERNEL_IOAPIC_MAX_OVERRIDES
    RouteMax,        \* ORYN_KERNEL_IOAPIC_MAX_ROUTES
    Machines,        \* invariant TSC, APIC, HPET counter, deltas of the counters
    ClockWord,       \* 2^64: values of the product in ScaleCounterHz
    Femto,           \* ORYN_CLOCK_FEMTOSECONDS_PER_SECOND
    Hours,           \* hours the real-time clock starts at
    MaxTicks         \* seconds that pass; less than a minute

VARIABLES
    firmware,   \* the ACPI root, the MADT and the machine
    ioapic,     \* gIoApicState and the redirection entries of the hardware
    hpet,       \* gHpetState
    mcfg,       \* what gPciState keeps of the MCFG table
    clock,      \* gClockState
    rtc,        \* the real-time clock and the modes of its registers
    reading,    \* the read of the real-time clock in progress
    shown       \* the times the real-time clock has shown

vars == <<firmware, ioapic, hpet, mcfg, clock, rtc, reading, shown>>

\* The one caller of these functions is not inside OrynKernelClockBootSelect.
Idle == clock.state # "reading"

-----------------------------------------------------------------------------
(***************************************************************************)
(* The ACPI tables.  A root is [checksum, revision, xsdt, rsdt]; a table   *)
(* list is [valid, tables], with valid FALSE for none or a damaged one.    *)
(***************************************************************************)

\* ValidateSdt: length and checksum.
Valid(t) == t.checksum

FirstTable(list, sig) ==
    LET good == SelectSeq(list, LAMBDA t : Valid(t) /\ t.sig = sig)
    IN  IF good = <<>> THEN [sig |-> "none", checksum |-> FALSE] ELSE good[1]

\* FindMadt, FindHpetTable: a valid XSDT is searched and nothing else; the RSDT
\* only without one.
FindTable(root, sig) ==
    IF root.revision >= 2 /\ root.xsdt.valid THEN FirstTable(root.xsdt.tables, sig)
    ELSE IF root.rsdt.valid THEN FirstTable(root.rsdt.tables, sig)
    ELSE [sig |-> "none", checksum |-> FALSE]

Finds(sig) ==
    /\ firmware.root.checksum
    /\ FindTable(firmware.root, sig).sig = sig

\* Each of the three users has the search in its own file.
MadtFound == Finds("APIC")
HpetTableFound == Finds("HPET")
McfgFound == Finds("MCFG")

\* DiscoverMcfg, at the start of OrynKernelPciInit: the first allocation is kept.
DiscoverMcfg ==
    /\ Idle /\ ~mcfg.attempted
    /\ mcfg' = [attempted |-> TRUE, found |-> McfgFound]
    /\ UNCHANGED <<firmware, ioapic, hpet, clock, rtc, reading, shown>>

-----------------------------------------------------------------------------
(***************************************************************************)
(* The IO APIC.                                                            *)
(***************************************************************************)
\* RecordController, RecordOverride: the first n, the rest is dropped.
Capped(s, n) == SubSeq(s, 1, IF Len(s) < n THEN Len(s) ELSE n)

NoIoApic == [initialized |-> FALSE, controllers |-> <<>>, overrides |-> <<>>, routes |-> <<>>,
             programmed |-> 0, entries |-> <<>>]

\* OrynKernelIoApicInit: controllers and overrides in the order of the MADT.
IoApicInit ==
    /\ Idle /\ ~ioapic.initialized
    /\ LET madt == firmware.madt
           controllers == Capped(madt.controllers, ControllerMax)
       IN  ioapic' = IF MadtFound
                     THEN [NoIoApic EXCEPT !.initialized = (controllers # <<>>),
                                           !.controllers = controllers,
                                           !.overrides = Capped(madt.overrides, OverrideMax),
                                           !.entries = [c \in DOMAIN controllers |->
                                               [e \in 0..(controllers[c].size - 1) |-> 0]]]
                     ELSE NoIoApic
    /\ UNCHANGED <<firmware, hpet, mcfg, clock, rtc, reading, shown>>

\* The first override of the interrupt, or the interrupt itself.
ResolveGsi(irq) ==
    LET own == SelectSeq(ioapic.overrides, LAMBDA o : o.irq = irq)
    IN  IF own = <<>> THEN irq ELSE own[1].gsi

\* The first controller whose assumed range has the interrupt, or 0.
FindController(gsi) ==
    SelectInSeq(ioapic.controllers, LAMBDA c : c.base <= gsi /\ gsi < c.base + EntriesAssumed)

\* OrynKernelIoApicRouteLegacyIrq with ProgramRoute: the entry is written and read
\* back; a controller may have fewer entries than assumed.
RouteLegacyIrq ==
    /\ Idle /\ ioapic.initialized /\ Len(ioapic.routes) < RouteMax
    /\ \E irq \in LegacyIrqs :
         LET gsi == ResolveGsi(irq)
             c == FindController(gsi)
             vector == 48 + irq
             entry == gsi - ioapic.controllers[c].base
             there == entry \in DOMAIN ioapic.entries[c]
             route == [irq |-> irq, gsi |-> gsi, controller |-> c, entry |-> entry,
                       vector |-> vector, programmed |-> there]
         IN  /\ c # 0
             /\ ioapic' = [ioapic EXCEPT !.routes = Append(@, route),
                                         !.programmed = @ + (IF there THEN 1 ELSE 0),
                                         !.entries[c] = IF there THEN [@ EXCEPT ![entry] = vector] ELSE @]
    /\ UNCHANGED <<firmware, hpet, mcfg, clock, rtc, reading, shown>>

-----------------------------------------------------------------------------
(***************************************************************************)
(* The HPET.                                                               *)
(***************************************************************************)
HpetInit ==
    /\ Idle /\ ~hpet.initialized
    /\ LET m == firmware.machine
       IN  hpet' = IF HpetTableFound /\ m.hpetEnabled
                   THEN [initialized |-> TRUE, advanced |-> m.hpetDelta > 0, period |-> m.period]
                   ELSE [initialized |-> FALSE, advanced |-> FALSE, period |-> 0]
    /\ UNCHANGED <<firmware, ioapic, mcfg, clock, rtc, reading, shown>>

-----------------------------------------------------------------------------
(***************************************************************************)
(* The clocks.                                                             *)
(***************************************************************************)

\* Both products are taken modulo the word.
ScaleCounterHz(delta, hpetDelta, period) ==
    LET elapsed == (hpetDelta * period) % ClockWord
    IN  IF delta = 0 \/ hpetDelta = 0 \/ period = 0 \/ elapsed = 0 THEN 0
        ELSE ((delta * Femto) % ClockWord) \div elapsed

Source(kind, priority, stable, hz) ==
    [kind |-> kind, priority |-> priority, stable |-> stable, hz |-> hz]

\* The TSC is there on every CPU; the HPET and the APIC timer if they count.
RegisterAvailableSources(m, h, tscHz, apicHz) ==
    <<Source("TSC", IF m.invariantTsc THEN 300 ELSE 160, m.invariantTsc, tscHz)>>
      \o (IF h.initialized /\ h.advanced
          THEN <<Source("HPET", 260, TRUE, IF h.period = 0 THEN 0 ELSE Femto \div h.period)>> ELSE <<>>)
      \o (IF m.apic THEN <<Source("APIC", 120, FALSE, apicHz)>> ELSE <<>>)

\* The last source of the highest priority.
SelectBest(sources) ==
    LET best == {i \in DOMAIN sources : \A j \in DOMAIN sources : sources[j].priority <= sources[i].priority}
    IN  CHOOSE i \in best : \A j \in best : j <= i

\* The APIC timer before the comparators of the HPET.
SelectBestEvent(m, h) ==
    IF m.apic THEN "APIC" ELSE IF h.initialized THEN "HPET" ELSE "none"

\* CalibrateAgainstHpet: without a counter that moves there is no reference.
Calibrate(m, h) ==
    LET reference == h.initialized /\ h.period # 0 /\ m.hpetDelta > 0
    IN  [reference |-> reference,
         tscHz |-> IF reference THEN ScaleCounterHz(m.tscDelta, m.hpetDelta, h.period) ELSE 0,
         apicHz |-> IF reference /\ m.apic THEN ScaleCounterHz(m.apicDelta, m.hpetDelta, h.period) ELSE 0]

\* OrynKernelClockBootSelect up to the read of the real-time clock.
ClockBootSelect ==
    /\ clock.state = "none"
    /\ LET m == firmware.machine
           cal == Calibrate(m, hpet)
       IN  clock' = [clock EXCEPT !.state = "reading", !.calibration = cal,
                         !.sources = RegisterAvailableSources(m, hpet, cal.tscHz, cal.apicHz)]
    /\ reading' = [reading EXCEPT !.at = "update"]
    /\ UNCHANGED <<firmware, ioapic, hpet, mcfg, rtc, shown>>

-----------------------------------------------------------------------------
(***************************************************************************)
(* The real-time clock.                                                    *)
(***************************************************************************)
Bcd(n) == (n \div 10) * 16 + (n % 10)

BcdToBinary(v) == (v \div 16) * 10 + (v % 16)

\* What the clock keeps in its registers (external).
Raw(n) == IF rtc.bcd THEN Bcd(n) ELSE n

RawHour(h) ==
    LET twelve == IF h % 12 = 0 THEN 12 ELSE h % 12
    IN  IF rtc.twentyFour THEN Raw(h) ELSE Raw(twelve) + (IF h >= 12 THEN 128 ELSE 0)

ConvertField(v) == IF rtc.bcd THEN BcdToBinary(v) ELSE v

ConvertHour(raw) ==
    LET pm == raw >= 128
        hour == ConvertField(raw % 128)
    IN  IF ~rtc.twentyFour /\ pm /\ hour < 12 THEN hour + 12
        ELSE IF ~rtc.twentyFour /\ ~pm /\ hour = 12 THEN 0
        ELSE hour

Time(r) == [second |-> r.second, minute |-> r.minute, hour |-> r.hour, day |-> r.day]

\* A second passes (external): outside an update the registers change together.
Tick ==
    /\ Cardinality(shown) <= MaxTicks
    /\ LET s == rtc.second + 1
           m == rtc.minute + s \div 60
           h == rtc.hour + m \div 60
       IN  rtc' = [rtc EXCEPT !.second = s % 60, !.minute = m % 60,
                              !.hour = h % 24, !.day = @ + h \div 24]
    /\ shown' = shown \cup {Time(rtc')}
    /\ UNCHANGED <<firmware, ioapic, hpet, mcfg, clock, reading>>

\* RtcUpdateInProgress stays set: the read is given up.
RtcStaysBusy ==
    /\ reading.at = "update"
    /\ reading' = [reading EXCEPT !.at = "done", !.valid = FALSE]
    /\ UNCHANGED <<firmware, ioapic, hpet, mcfg, clock, rtc, shown>>

Order == [update |-> "second", second |-> "minute", minute |-> "hour", hour |-> "day", day |-> "again"]

\* The next register is read; the second first.
ReadRegister ==
    /\ reading.at \in {"update", "second", "minute", "hour"}
    /\ LET reg == Order[reading.at]
           raw == IF reg = "hour" THEN RawHour(rtc.hour) ELSE Raw(rtc[reg])
       IN  reading' = [reading EXCEPT !.at = reg, ![reg] = raw]
    /\ UNCHANGED <<firmware, ioapic, hpet, mcfg, clock, rtc, shown>>

\* Mutant of StableRead: the second is not compared.
StableReadAny(first, second) == TRUE

StableRead(first, second) == first = second

ValidateTime(r) == r.hour <= 23 /\ r.minute <= 59 /\ r.second <= 59 /\ r.day \in 1..31

\* The second is read again; the time is converted and taken if it has not changed.
FinishRead ==
    /\ reading.at = "day"
    /\ LET time == [reading EXCEPT !.at = "done", !.second = ConvertField(@),
                        !.minute = ConvertField(@), !.hour = ConvertHour(@), !.day = ConvertField(@)]
       IN  reading' = [time EXCEPT !.valid = StableRead(reading.second, Raw(rtc.second))
                                                /\ ValidateTime(time)]
    /\ UNCHANGED <<firmware, ioapic, hpet, mcfg, clock, rtc, shown>>

\* The rest of OrynKernelClockBootSelect.
SelectClock ==
    /\ clock.state = "reading" /\ reading.at = "done"
    /\ clock' = [clock EXCEPT !.state = "selected", !.selected = SelectBest(clock.sources),
                              !.event = SelectBestEvent(firmware.machine, hpet),
                              !.wallClock = reading.valid]
    /\ UNCHANGED <<firmware, ioapic, hpet, mcfg, rtc, reading, shown>>

-----------------------------------------------------------------------------
Init ==
    /\ firmware \in [root : Roots, madt : Madts, machine : Machines]
    /\ ioapic = NoIoApic
    /\ hpet = [initialized |-> FALSE, advanced |-> FALSE, period |-> 0]
    /\ mcfg = [attempted |-> FALSE, found |-> FALSE]
    /\ clock = [state |-> "none", sources |-> <<>>, event |-> "none", selected |-> 0,
                wallClock |-> FALSE,
                calibration |-> [reference |-> FALSE, tscHz |-> 0, apicHz |-> 0]]
    /\ rtc \in [second : {59}, minute : {59}, hour : Hours, day : {9},
                bcd : BOOLEAN, twentyFour : BOOLEAN]
    /\ reading = [at |-> "none", second |-> 0, minute |-> 0, hour |-> 0, day |-> 0, valid |-> FALSE]
    /\ shown = {Time(rtc)}

Next ==
    \/ DiscoverMcfg \/ IoApicInit \/ RouteLegacyIrq \/ HpetInit \/ ClockBootSelect
    \/ RtcStaysBusy \/ ReadRegister \/ FinishRead \/ SelectClock \/ Tick

Spec == Init /\ [][Next]_vars

-----------------------------------------------------------------------------
(***************************************************************************)
(* Properties.                                                             *)
(***************************************************************************)

\* Types; the arrays of KernelIoApic.h are not outgrown and the count of programmed
\* routes is the number of routes that were read back.
TypeOK ==
    /\ Len(ioapic.controllers) <= ControllerMax /\ Len(ioapic.overrides) <= OverrideMax
    /\ Len(ioapic.routes) <= RouteMax
    /\ ioapic.programmed = Len(SelectSeq(ioapic.routes, LAMBDA r : r.programmed))
    /\ clock.state = "selected" => clock.selected \in DOMAIN clock.sources

\* A component is initialised only from a table that is intact, in a root that is
\* (ValidateRsdp, ValidateSdt).
TablesIntact ==
    \A sig \in {"APIC", "HPET", "MCFG"} :
        (CASE sig = "APIC" -> ioapic.initialized [] sig = "HPET" -> hpet.initialized
           [] OTHER -> mcfg.found) =>
            /\ firmware.root.checksum
            /\ \E list \in {firmware.root.xsdt, firmware.root.rsdt} :
                 list.valid /\ \E i \in DOMAIN list.tables :
                     list.tables[i].checksum /\ list.tables[i].sig = sig

\* Each route leads to the redirection entry of the interrupt's global number, on
\* the controller that has it, and the entry holds the vector of the last route to
\* it (ResolveGsi, FindController, ProgramRoute).
RoutesLead ==
    \A i \in DOMAIN ioapic.routes :
        LET r == ioapic.routes[i]
            mapped == {o.gsi : o \in {q \in Range(ioapic.overrides) : q.irq = r.irq}}
            later == {j \in DOMAIN ioapic.routes : j > i /\ ioapic.routes[j].gsi = r.gsi}
        IN  /\ r.gsi = ioapic.controllers[r.controller].base + r.entry
            /\ r.gsi \in (IF mapped = {} THEN {r.irq} ELSE mapped)
            /\ 0 <= r.entry /\ r.entry < EntriesAssumed
            /\ r.programmed /\ later = {} => ioapic.entries[r.controller][r.entry] = r.vector

\* A stable clock source is selected whenever one is registered
\* (RegisterAvailableSources, SelectBestSource).
StableSelected ==
    clock.state = "selected" =>
        \/ clock.sources[clock.selected].stable
        \/ \A i \in DOMAIN clock.sources : ~clock.sources[i].stable

\* A wall-clock time that is accepted is one the real-time clock has shown, though
\* seconds passed while its registers were read, and in each of its modes
\* (ReadRawStable, ConvertHour).
AcceptedWasShown ==
    reading.at = "done" /\ reading.valid =>
        [second |-> reading.second, minute |-> reading.minute,
         hour |-> reading.hour, day |-> reading.day] \in shown

\* A calibrated TSC has the frequency its ticks and the elapsed time give
\* (CalibrateAgainstHpet).
CalibratedExact ==
    clock.calibration.tscHz # 0 =>
        clock.calibration.tscHz =
            (firmware.machine.tscDelta * Femto) \div (firmware.machine.hpetDelta * hpet.period)

\* Only intact tables are used, interrupts are routed where the tables say, and
\* the clocks that are trusted can be (KernelIoApic.c, KernelClock.c,
\* KernelRtc.c).
PlatformSound ==
    /\ TypeOK
    /\ TablesIntact
    /\ RoutesLead
    /\ StableSelected
    /\ AcceptedWasShown

=============================================================================
