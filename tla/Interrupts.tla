----------------------------- MODULE Interrupts -----------------------------
(***************************************************************************)
(* Interrupt dispatch on the bootstrap CPU (KernelInterrupts.c) with the   *)
(* controllers below it: the pair of PICs (KernelPic.c), the local APIC    *)
(* (KernelApic.c), the IRQ masking calls (KernelIrqMasking.c) and the two  *)
(* timer proofs that wait for an interrupt.                                *)
(*                                                                         *)
(* Every gate is an interrupt gate: the CPU clears IF on entry and iret    *)
(* restores it, so only an exception nests in a handler.  The hardware     *)
(* (request, service and mask registers, the PIT, the APIC timer) is       *)
(* external and modelled from how the code programs it.                    *)
(***************************************************************************)
EXTENDS Integers, Sequences, FiniteSets, FiniteSetsExt

CONSTANTS
    Irqs,            \* PIC inputs that are exercised, IRQ 2 is the cascade
    MaskCalls,       \* IRQ numbers passed to the masking calls
    MaskLimit,       \* ORYN_KERNEL_IRQ_MASK_LIMIT
    MaxInterrupts,   \* bound on the dispatches of a behaviour
    MaxIrqCalls      \* bound on the calls of the kernel's code

VARIABLES
    core,       \* the CPU: IF, the frames being handled, halted by a panic
    pic,        \* the PICs: request, service and mask registers; gPicState
    apic,       \* the local APIC: pending and in-service vectors; gApicState
    ints,       \* gInterruptState
    hits,       \* gVectorCounters
    waiting,    \* the timer proof in progress, and what the proofs found
    irqMask,    \* gIrqMaskState
    irqCalls

interruptVars == <<core, pic, apic, ints, hits, waiting, irqMask, irqCalls>>

PageFault == 14
IrqBase == 32
IrqLimit == 48
LinuxVector == 128
TimerVector == 238
SpuriousIrq == 7
SpuriousApic == 255

Vectors == {PageFault, LinuxVector, TimerVector, SpuriousApic}
               \cup {IrqBase + i : i \in Irqs \cup {SpuriousIrq}}

IsIrqVector(v) == IrqBase <= v /\ v < IrqLimit

InterruptState ==
    [initialized : BOOLEAN, handlers : SUBSET Vectors, registered : Nat, nesting : Nat,
     total : Nat, exceptions : Nat, hardware : Nat, picEoi : Nat, apicEoi : Nat, eoi : Nat,
     account : [total : Nat, exceptions : Nat, hardware : Nat, eoi : Nat]]

PicState == [initialized : BOOLEAN, disabled : BOOLEAN, current : SUBSET Irqs]

Clear ==
    [initialized |-> TRUE, handlers |-> {}, registered |-> 0, nesting |-> 0,
     total |-> 0, exceptions |-> 0, hardware |-> 0, picEoi |-> 0, apicEoi |-> 0, eoi |-> 0,
     account |-> [total |-> 0, exceptions |-> 0, hardware |-> 0, eoi |-> 0]]

NotWaiting == [kind |-> "none", before |-> 0, picPassed |-> FALSE, apicPassed |-> FALSE]

(***************************************************************************)
(* The kernel is entered with interrupts off and the firmware's masks.     *)
(***************************************************************************)
DispatchInit ==
    /\ core = [if |-> FALSE, frames |-> <<>>, halted |-> FALSE]
    /\ \E firmware \in {{}, Irqs} :
         pic = [irr |-> {}, isr |-> {}, imr |-> firmware, pit |-> FALSE,
                state |-> [initialized |-> FALSE, disabled |-> FALSE, current |-> {}]]
    /\ apic = [irr |-> {}, isr |-> {}, armed |-> FALSE, initialized |-> FALSE]
    /\ ints = [Clear EXCEPT !.initialized = FALSE]
    /\ hits = [v \in Vectors |-> 0]
    /\ waiting = NotWaiting
    /\ irqMask = [masked |-> {}, ops |-> 0, rejected |-> 0]
    /\ irqCalls = 0

-----------------------------------------------------------------------------
(***************************************************************************)
(* Programming the PICs.                                                   *)
(***************************************************************************)

UpdateMasksFromHardware(p) ==
    [p EXCEPT !.state.current = p.imr, !.state.disabled = (p.imr = Irqs)]

MaskAll(p) == UpdateMasksFromHardware([p EXCEPT !.imr = Irqs])

\* Unmasking an input of the second PIC leaves the cascade input as it is.
SetIrqMask(p, irq, masked) ==
    UpdateMasksFromHardware(
        [p EXCEPT !.imr = IF masked THEN @ \cup ({irq} \cap Irqs) ELSE @ \ {irq}])

\* A non-specific EOI ends the input of highest priority that is in service.
EndHighest(isr, chip) ==
    IF isr \cap chip = {} THEN isr ELSE isr \ {Min(isr \cap chip)}

Master == {i \in Irqs : i < 8}
Slave == {i \in Irqs : i >= 8}

\* Mutant of PicSendEoi: an input of the second PIC is ended on the first only.
PicSendEoiMasterOnly(p, irq) == [p EXCEPT !.isr = EndHighest(@, Master)]

PicSendEoi(p, irq) ==
    LET slaveDone == IF irq >= 8 THEN EndHighest(p.isr, Slave) ELSE p.isr
    IN  [p EXCEPT !.isr = EndHighest(slaveDone, Master)]

\* The inputs the PICs offer the CPU: requested, unmasked, of higher priority
\* than those in service; the second PIC speaks through input 2 of the first.
Offered(p) ==
    {i \in (p.irr \ p.imr) \ p.isr :
        /\ i >= 8 => 2 \notin p.imr /\ 2 \notin p.isr
        /\ \A j \in p.isr : (IF i >= 8 THEN 2 ELSE i) < (IF j >= 8 THEN 2 ELSE j)}

-----------------------------------------------------------------------------
(***************************************************************************)
(* Dispatch.                                                               *)
(***************************************************************************)

\* OrynKernelInterruptsDispatch up to the call of the handler: the counters,
\* the account of the CPU, the frame.
Enter(v, if) ==
    LET exception == v < IrqBase
        one(c) == IF exception = c THEN 1 ELSE 0
    IN  /\ core' = [core EXCEPT !.if = FALSE, !.frames = Append(@, [vector |-> v, if |-> if])]
        /\ hits' = [hits EXCEPT ![v] = @ + 1]
        /\ ints' = [ints EXCEPT !.nesting = @ + 1, !.total = @ + 1,
                                !.exceptions = @ + one(TRUE), !.hardware = @ + one(FALSE),
                                !.account.total = @ + 1,
                                !.account.exceptions = @ + one(TRUE),
                                !.account.hardware = @ + one(FALSE)]

Running == ~core.halted

CanInterrupt == Running /\ core.if /\ ints.total < MaxInterrupts

\* The CPU takes the best interrupt the PICs offer.
PicInterrupt ==
    /\ CanInterrupt /\ Offered(pic) # {}
    /\ LET irq == Min(Offered(pic))
       IN  /\ pic' = [pic EXCEPT !.irr = @ \ {irq},
                                 !.isr = @ \cup {irq} \cup (IF irq >= 8 THEN {2} ELSE {})]
           /\ Enter(IrqBase + irq, TRUE)
    /\ UNCHANGED <<apic, waiting, irqMask, irqCalls>>

\* An input went away before it was acknowledged: nothing is in service.
SpuriousInterrupt ==
    /\ CanInterrupt /\ pic.state.initialized /\ pic.imr # Irqs
    /\ Enter(IrqBase + SpuriousIrq, TRUE)
    /\ UNCHANGED <<pic, apic, waiting, irqMask, irqCalls>>

ApicInterrupt ==
    /\ CanInterrupt
    /\ \/ \E v \in apic.irr :
            /\ \A s \in apic.isr : v \div 16 > s \div 16
            /\ apic' = [apic EXCEPT !.irr = @ \ {v}, !.isr = @ \cup {v}]
            /\ Enter(v, TRUE)
       \/ apic.initialized /\ Enter(SpuriousApic, TRUE) /\ UNCHANGED apic
    /\ UNCHANGED <<pic, waiting, irqMask, irqCalls>>

\* A program asks for a system call with int 0x80.
SoftwareInterrupt ==
    /\ CanInterrupt /\ core.frames = <<>>
    /\ Enter(LinuxVector, TRUE)
    /\ UNCHANGED <<pic, apic, waiting, irqMask, irqCalls>>

\* A page fault, also one raised by the code of a handler.
PageFaultException ==
    /\ Running /\ ints.total < MaxInterrupts
    /\ \A i \in DOMAIN core.frames : core.frames[i].vector # PageFault
    /\ Enter(PageFault, core.if)
    /\ UNCHANGED <<pic, apic, waiting, irqMask, irqCalls>>

Returned(c) ==
    [c EXCEPT !.if = c.frames[Len(c.frames)].if, !.frames = SubSeq(@, 1, Len(@) - 1)]

\* The page fault policy resolved the fault, or ended the program: no EOI.
ExceptionReturn ==
    /\ Running /\ core.frames # <<>> /\ core.frames[Len(core.frames)].vector < IrqBase
    /\ core' = Returned(core)
    /\ ints' = [ints EXCEPT !.nesting = @ - 1]
    /\ UNCHANGED <<pic, apic, hits, waiting, irqMask, irqCalls>>

\* The policy asks for a panic, which never returns.
ExceptionPanics ==
    /\ Running /\ core.frames # <<>> /\ core.frames[Len(core.frames)].vector < IrqBase
    /\ core' = [core EXCEPT !.halted = TRUE]
    /\ UNCHANGED <<pic, apic, ints, hits, waiting, irqMask, irqCalls>>

\* SendInterruptEoi, its counters.
Ended(v, s) ==
    IF IsIrqVector(v)
    THEN [s EXCEPT !.picEoi = @ + 1, !.eoi = @ + 1, !.account.eoi = @ + 1]
    ELSE IF apic.initialized
    THEN [s EXCEPT !.apicEoi = @ + 1, !.eoi = @ + 1, !.account.eoi = @ + 1]
    ELSE s

\* The handler is done: EOI to the controller the vector belongs to.
InterruptReturn ==
    /\ Running /\ core.frames # <<>>
    /\ LET v == core.frames[Len(core.frames)].vector
       IN  /\ v >= IrqBase
           /\ pic' = IF IsIrqVector(v) THEN PicSendEoi(pic, v - IrqBase) ELSE pic
           /\ apic' = IF ~IsIrqVector(v) /\ apic.initialized /\ apic.isr # {}
                      THEN [apic EXCEPT !.isr = @ \ {Max(@)}] ELSE apic
           /\ ints' = [Ended(v, ints) EXCEPT !.nesting = IF @ > 0 THEN @ - 1 ELSE @]
    /\ core' = Returned(core)
    /\ UNCHANGED <<hits, waiting, irqMask, irqCalls>>

-----------------------------------------------------------------------------
(***************************************************************************)
(* The hardware.                                                           *)
(***************************************************************************)
RaiseIrq ==
    /\ Running
    /\ \E irq \in Irqs \ ({0, 2} \cup pic.irr) : pic' = [pic EXCEPT !.irr = @ \cup {irq}]
    /\ UNCHANGED <<core, apic, ints, hits, waiting, irqMask, irqCalls>>

PitFires ==
    /\ Running /\ pic.pit
    /\ pic' = [pic EXCEPT !.pit = FALSE, !.irr = @ \cup {0}]
    /\ UNCHANGED <<core, apic, ints, hits, waiting, irqMask, irqCalls>>

ApicTimerFires ==
    /\ Running /\ apic.armed
    /\ apic' = [apic EXCEPT !.armed = FALSE, !.irr = @ \cup {TimerVector}]
    /\ UNCHANGED <<core, pic, ints, hits, waiting, irqMask, irqCalls>>

-----------------------------------------------------------------------------
(***************************************************************************)
(* The kernel's code, which runs when no handler does.                     *)
(***************************************************************************)
Kernel == Running /\ core.frames = <<>>

KernelCall == Kernel /\ waiting.kind = "none" /\ irqCalls < MaxIrqCalls /\ irqCalls' = irqCalls + 1

\* The handler table and every counter are cleared.
InterruptsInit ==
    /\ KernelCall /\ ~ints.initialized /\ ~core.if
    /\ ints' = Clear
    /\ hits' = [v \in Vectors |-> 0]
    /\ UNCHANGED <<core, pic, apic, waiting, irqMask>>

\* The initialisation words reset both PICs and clear their masks.
PicInitAndDisable ==
    /\ KernelCall /\ ~pic.state.initialized /\ ~core.if
    /\ pic' = LET reset == MaskAll([pic EXCEPT !.irr = {}, !.isr = {}])
              IN  [reset EXCEPT !.state.initialized = TRUE]
    /\ UNCHANGED <<core, apic, ints, hits, waiting, irqMask>>

\* A CPU without a local APIC, or one that stays disabled, fails the module.
ApicInit ==
    /\ KernelCall /\ ~apic.initialized /\ ~core.if
    /\ \E works \in BOOLEAN : apic' = [apic EXCEPT !.initialized = works, !.armed = FALSE]
    /\ UNCHANGED <<core, pic, ints, hits, waiting, irqMask>>

\* OrynKernelInterruptsRegisterHandler: a handler that replaces one is not counted.
RegisterHandler(v, s) ==
    [s EXCEPT !.handlers = @ \cup {v}, !.registered = @ + (IF v \in s.handlers THEN 0 ELSE 1)]

\* OrynKernelInterruptsEnable and OrynKernelInterruptsDisable, once dispatch and
\* the PIC are up.
SetEnabled ==
    /\ KernelCall /\ ints.initialized /\ pic.state.initialized
    /\ core' = [core EXCEPT !.if = ~@]
    /\ UNCHANGED <<pic, apic, ints, hits, waiting, irqMask>>

\* IRQ numbers from 16 on are recorded only; from the limit on, refused.
SetIrqMasked ==
    /\ KernelCall /\ ints.initialized /\ pic.state.initialized
    /\ \E irq \in MaskCalls, masked \in BOOLEAN :
         IF irq >= MaskLimit
         THEN /\ irqMask' = [irqMask EXCEPT !.rejected = @ + 1]
              /\ UNCHANGED pic
         ELSE /\ irqMask' = [irqMask EXCEPT !.masked = IF masked THEN @ \cup {irq} ELSE @ \ {irq},
                                            !.ops = @ + 1]
              /\ pic' = IF irq < 16 THEN SetIrqMask(pic, irq, masked) ELSE pic
    /\ UNCHANGED <<core, apic, ints, hits, waiting>>

\* OrynKernelKeyboardInitForConsoleScroll: handler, then IRQ 1.
KeyboardUnmask ==
    /\ KernelCall /\ ints.initialized /\ pic.state.initialized
    /\ ints' = RegisterHandler(IrqBase + 1, ints)
    /\ pic' = SetIrqMask(pic, 1, FALSE)
    /\ UNCHANGED <<core, apic, hits, waiting, irqMask>>

\* Handler, all inputs masked, the PIT armed, IRQ 0 unmasked, interrupts on.
StartPicTimerProof ==
    /\ KernelCall /\ ints.initialized /\ pic.state.initialized
    /\ ints' = RegisterHandler(IrqBase, ints)
    /\ pic' = SetIrqMask([MaskAll(pic) EXCEPT !.pit = TRUE], 0, FALSE)
    /\ core' = [core EXCEPT !.if = TRUE]
    /\ waiting' = [waiting EXCEPT !.kind = "pic", !.before = hits[IrqBase]]
    /\ UNCHANGED <<apic, hits, irqMask>>

\* Without an APIC the timer does not start and the proof gives up.
StartApicTimerProof ==
    /\ KernelCall /\ ints.initialized /\ pic.state.initialized
    /\ ints' = RegisterHandler(TimerVector, ints)
    /\ IF apic.initialized
       THEN /\ apic' = [apic EXCEPT !.armed = TRUE]
            /\ core' = [core EXCEPT !.if = TRUE]
            /\ waiting' = [waiting EXCEPT !.kind = "apic", !.before = hits[TimerVector]]
       ELSE UNCHANGED <<apic, core, waiting>>
    /\ UNCHANGED <<pic, hits, irqMask>>

CounterAdvanced == hits[IF waiting.kind = "pic" THEN IrqBase ELSE TimerVector] > waiting.before

\* Mutant of StopsWaiting: the loop waits for the interrupt without a limit.
StopsWaitingOnlyOnCount == CounterAdvanced

\* The loop ends on the first count, or at ORYN_INTERRUPT_PROOF_WAIT_LIMIT, which
\* may be reached at any time.
StopsWaiting == TRUE

\* Interrupts off, the timer's input masked, the counter read once more.
FinishTimerProof ==
    /\ Kernel /\ waiting.kind # "none" /\ StopsWaiting
    /\ core' = [core EXCEPT !.if = FALSE]
    /\ IF waiting.kind = "pic"
       THEN /\ pic' = MaskAll(pic) /\ UNCHANGED apic
            /\ waiting' = [waiting EXCEPT !.kind = "none", !.picPassed = CounterAdvanced]
       ELSE /\ apic' = [apic EXCEPT !.armed = FALSE] /\ UNCHANGED pic
            /\ waiting' = [waiting EXCEPT !.kind = "none", !.apicPassed = CounterAdvanced]
    /\ UNCHANGED <<ints, hits, irqMask, irqCalls>>

DispatchNext ==
    \/ PicInterrupt \/ SpuriousInterrupt \/ ApicInterrupt \/ SoftwareInterrupt
    \/ PageFaultException \/ ExceptionReturn \/ ExceptionPanics \/ InterruptReturn
    \/ RaiseIrq \/ PitFires \/ ApicTimerFires
    \/ InterruptsInit \/ PicInitAndDisable \/ ApicInit \/ SetEnabled \/ SetIrqMasked
    \/ KeyboardUnmask \/ StartPicTimerProof \/ StartApicTimerProof \/ FinishTimerProof

\* What the proofs use of the constants: the inputs of the timer, of the keyboard
\* and of the cascade are among those of the two PICs.
InterruptsConstants ==
    /\ Irqs \subseteq 0..15 /\ {0, 1, 2} \subseteq Irqs
    /\ MaxInterrupts \in Nat

DispatchSpec == DispatchInit /\ [][DispatchNext]_interruptVars

-----------------------------------------------------------------------------
(***************************************************************************)
(* Properties.                                                             *)
(***************************************************************************)

\* Types; nesting is the number of frames being handled, also while an exception
\* nests in a handler (KernelInterrupts.c, OrynKernelInterruptsDispatch).
DispatchTypeOK ==
    /\ ints \in InterruptState /\ pic.state \in PicState
    /\ pic.irr \cup pic.isr \cup pic.imr \subseteq Irqs
    /\ \A v \in Vectors : hits[v] \in 0..MaxInterrupts
    /\ ints.registered = Cardinality(ints.handlers)
    /\ ints.nesting = Len(core.frames)

\* When no handler runs, neither controller has an input in service: no interrupt
\* stays unacknowledged, which would hold back every later one of its priority
\* (SendInterruptEoi, OrynKernelPicSendEoi).
IdleIsAcknowledged == core.frames = <<>> => pic.isr = {} /\ apic.isr = {}

\* How often the vectors of vs were dispatched, one pair for each time.
Dispatched(vs) == Cardinality({x \in vs \X (1..MaxInterrupts) : x[2] <= hits[x[1]]})

ActiveIrqs == Cardinality({i \in DOMAIN core.frames : IsIrqVector(core.frames[i].vector)})

\* The counters tell one story: the totals, the account of the CPU and the
\* per-vector counters agree, and every PIC interrupt that has returned was ended
\* once (AccountDispatch, AccountEoi, SendInterruptEoi).
AccountsAgree ==
    /\ ints.total = ints.exceptions + ints.hardware /\ ints.total = Dispatched(Vectors)
    /\ ints.account.total = ints.total /\ ints.account.exceptions = ints.exceptions
    /\ ints.account.hardware = ints.hardware /\ ints.account.eoi = ints.eoi
    /\ ints.eoi = ints.picEoi + ints.apicEoi
    /\ ints.picEoi + ActiveIrqs = Dispatched({v \in Vectors : IsIrqVector(v)})

\* What gPicState says of the masks is what the PICs hold, so the report that the
\* PIC is disabled can be believed (UpdateMasksFromHardware).
PicStateTruthful ==
    pic.state.initialized =>
        pic.state.current = pic.imr /\ (pic.state.disabled <=> pic.imr = Irqs)

\* A timer proof ends, whether or not its interrupt arrives, unless the kernel
\* panics (OrynKernelInterruptsRunPicTimerProof, ...RunApicTimerProof).
ProofsEnd == waiting.kind # "none" ~> (waiting.kind = "none" \/ core.halted)

\* Interrupts, and the exceptions nested in their handlers, are acknowledged once
\* where they came from and counted once, and the record of the masks is the
\* masks (KernelInterrupts.c, KernelPic.c).
InterruptsSound ==
    /\ DispatchTypeOK
    /\ IdleIsAcknowledged
    /\ AccountsAgree
    /\ PicStateTruthful

=============================================================================
