------------------------------ MODULE RxQueue ------------------------------
(***************************************************************************)
(* The receive path of a node: the hardware FIFO of the bxCAN, the         *)
(* interrupt handler that moves its frames into the ring of rx_queue.c,    *)
(* and the main loop that pops them, serves them and sleeps in WFI.        *)
(*                                                                         *)
(* The handler runs to completion and the main loop cannot run meanwhile,  *)
(* but the handler interrupts the main loop between any two of its steps,  *)
(* the two halves of the frame it is copying out of a slot included.       *)
(***************************************************************************)
EXTENDS Naturals, Sequences

CONSTANTS
    Word,           \* contents of a frame, in each of its halves
    Capacity,       \* CAN_RX_QUEUE_CAPACITY
    IndexMod,       \* 256: head and tail are uint8_t
    FifoDepth,      \* frames the hardware FIFO holds (external)
    MaxDropped      \* UINT16_MAX, where the drop counters saturate

\* The two _Static_asserts, as what they are for: a wrapped distance of up to
\* Capacity is unambiguous, and wrapping does not skip slots.
ASSUME RxAssumption ==
    /\ Capacity \in Nat \ {0} /\ IndexMod \in Nat
    /\ IndexMod > 2 * Capacity /\ IndexMod % Capacity = 0
    /\ FifoDepth \in Nat \ {0} /\ MaxDropped \in Nat \ {0}

\* The halves of a frame carry one value, so that halves of two frames show.
Frame == {<<w, w>> : w \in Word}

VARIABLES
    fifo,           \* hardware receive FIFO 0
    overrun,        \* CAN_RF0R_FOVR0: a frame found the FIFO full
    isr,            \* cec_can_isr() is running
    head, tail,     \* free-running ring indices, modulo IndexMod
    slots,          \* queue->frames
    dropped,        \* queue->dropped
    hwDropped,      \* hardware_rx_dropped
    pc,             \* main loop: "poll", "low", "high", "publish", "wfi", "asleep"
    at,             \* the tail index can_rx_queue_pop() read
    copy,           \* the caller's frame, as far as it is copied
    out,            \* the last frame can_bus_receive() returned
    processed       \* processed_frame of service_runtime()

hardware == <<fifo, overrun>>
ring == <<head, slots, dropped, hwDropped>>
main == <<tail, pc, at, copy, out, processed>>
vars == <<hardware, isr, ring, main>>

-----------------------------------------------------------------------------
Distance(h, t) == (h + IndexMod - t) % IndexMod
Slot(index) == index % Capacity
\* Mutant: the counter wraps.
MutantSaturating(n) == (n + 1) % (MaxDropped + 1)

Saturating(n) == IF n = MaxDropped THEN n ELSE n + 1

TypeOK ==
    /\ fifo \in Seq(Frame) /\ Len(fifo) <= FifoDepth
    /\ overrun \in BOOLEAN /\ isr \in BOOLEAN
    /\ head \in 0..IndexMod - 1 /\ tail \in 0..IndexMod - 1 /\ at \in 0..IndexMod - 1
    /\ slots \in [0..Capacity - 1 -> Frame \cup {<<>>}]
    /\ dropped \in 0..MaxDropped /\ hwDropped \in 0..MaxDropped
    /\ pc \in {"poll", "low", "high", "publish", "wfi", "asleep"}
    /\ copy \in Seq(Word) /\ Len(copy) <= 2
    /\ out \in Frame \cup {<<>>}
    /\ processed \in BOOLEAN

Init ==
    /\ fifo = <<>> /\ overrun = FALSE /\ isr = FALSE
    /\ head = 0 /\ tail = 0 /\ at = 0
    /\ slots = [s \in 0..Capacity - 1 |-> <<>>]
    /\ dropped = 0 /\ hwDropped = 0
    /\ pc = "poll" /\ copy = <<>> /\ out = <<>> /\ processed = FALSE

-----------------------------------------------------------------------------
(* The hardware: a frame of the bus passes the filter into FIFO 0; with    *)
(* RFLM set a full FIFO keeps what it has.                                 *)

Arrive(f) ==
    /\ IF Len(fifo) < FifoDepth
       THEN fifo' = Append(fifo, f) /\ UNCHANGED overrun
       ELSE overrun' = TRUE /\ UNCHANGED fifo
    /\ UNCHANGED <<isr, ring, main>>

\* A pending frame or overrun interrupts the main loop, and wakes it.
IsrEnter ==
    /\ ~isr
    /\ fifo # <<>> \/ overrun
    /\ isr' = TRUE
    /\ hwDropped' = IF overrun THEN Saturating(hwDropped) ELSE hwDropped
    /\ overrun' = FALSE
    /\ pc' = IF pc = "asleep" THEN "poll" ELSE pc
    /\ UNCHANGED <<fifo, head, slots, dropped, tail, at, copy, out, processed>>

\* Mutant: one frame too many is let in.
MutantFull == Distance(head, tail) > Capacity

Full == Distance(head, tail) >= Capacity

\* can_receive() and can_rx_queue_push_isr(), which drops the newest frame.
IsrPush ==
    /\ isr /\ fifo # <<>>
    /\ fifo' = Tail(fifo)
    /\ IF Full
       THEN dropped' = Saturating(dropped) /\ UNCHANGED <<head, slots>>
       ELSE /\ slots' = [slots EXCEPT ![Slot(head)] = Head(fifo)]
            /\ head' = (head + 1) % IndexMod
            /\ UNCHANGED dropped
    /\ UNCHANGED <<overrun, isr, hwDropped, main>>

IsrExit ==
    /\ isr /\ fifo = <<>>
    /\ isr' = FALSE
    /\ UNCHANGED <<hardware, ring, main>>

\* Mutant: SysTick is not enabled.
MutantSysTick == FALSE /\ UNCHANGED vars

\* The millisecond tick: its handler only counts, but it ends a WFI.
SysTick ==
    /\ ~isr /\ pc = "asleep"
    /\ pc' = "poll"
    /\ UNCHANGED <<hardware, isr, ring, tail, at, copy, out, processed>>

-----------------------------------------------------------------------------
(* The main loop: can_rx_queue_pop() in four steps, then the frame is       *)
(* served and the loop polls again; with nothing served it sleeps.         *)

\* Mutant: the slot is given back before it is copied.
MutantPoll ==
    /\ ~isr /\ pc = "poll"
    /\ IF tail # head
       THEN /\ pc' = "low" /\ at' = tail /\ copy' = <<>>
            /\ tail' = (tail + 1) % IndexMod /\ UNCHANGED processed
       ELSE /\ pc' = IF processed THEN "poll" ELSE "wfi"
            /\ processed' = FALSE
            /\ UNCHANGED <<at, copy, tail>>
    /\ UNCHANGED <<hardware, isr, ring, out>>

Poll ==
    /\ ~isr /\ pc = "poll"
    /\ IF tail # head
       THEN pc' = "low" /\ at' = tail /\ copy' = <<>> /\ UNCHANGED processed
       ELSE /\ pc' = IF processed THEN "poll" ELSE "wfi"
            /\ processed' = FALSE
            /\ UNCHANGED <<at, copy>>
    /\ UNCHANGED <<hardware, isr, ring, tail, out>>

CopyHalf(here, half, next) ==
    /\ ~isr /\ pc = here
    /\ copy' = Append(copy, slots[Slot(at)][half])
    /\ pc' = next
    /\ UNCHANGED <<hardware, isr, ring, tail, at, out, processed>>

CopyLow == CopyHalf("low", 1, "high")
CopyHigh == CopyHalf("high", 2, "publish")

\* Mutant: the tail does not wrap to eight bits.
MutantPublish ==
    /\ ~isr /\ pc = "publish"
    /\ tail' = at + 1
    /\ out' = copy
    /\ processed' = TRUE
    /\ pc' = "poll"
    /\ UNCHANGED <<hardware, isr, ring, at, copy>>

Publish ==
    /\ ~isr /\ pc = "publish"
    /\ tail' = (at + 1) % IndexMod
    /\ out' = copy
    /\ processed' = TRUE
    /\ pc' = "poll"
    /\ UNCHANGED <<hardware, isr, ring, at, copy>>

\* Frames that arrived since the last poll do not keep WFI from sleeping.
Sleep ==
    /\ ~isr /\ pc = "wfi"
    /\ pc' = "asleep"
    /\ UNCHANGED <<hardware, isr, ring, tail, at, copy, out, processed>>

Isr == IsrEnter \/ IsrPush \/ IsrExit
Main == Poll \/ CopyLow \/ CopyHigh \/ Publish \/ Sleep

Next == (\E f \in Frame : Arrive(f)) \/ Isr \/ SysTick \/ Main

\* A frame occupies the bus for some 100 us at 500 kbit/s and the handler moves
\* one in a few: the FIFO keeps running empty, the handler then returns, and
\* neither it nor the tick keeps the main loop from running (strong fairness).
BusSlowerThanHandler == []<>(fifo = <<>>)
Fairness == WF_vars(Isr) /\ SF_vars(IsrExit) /\ SF_vars(SysTick) /\ SF_vars(Main)
            /\ BusSlowerThanHandler

Spec == Init /\ [][Next]_vars
FairSpec == Spec /\ Fairness

-----------------------------------------------------------------------------
(* Properties                                                              *)

\* The ring as a sequence, oldest frame first.
Queued == [n \in 1..Distance(head, tail) |-> slots[Slot((tail + n - 1) % IndexMod)]]

Fifo == INSTANCE BoundedFifo WITH queue <- Queued

\* Under every preemption of can_rx_queue_pop() by the handler the ring is a
\* bounded first-in first-out queue, and every frame popped is one frame that
\* was pushed, not halves of two (rx_queue.c:33-68).
QueueIsFifo == Fifo!Spec

\* A frame in the ring is popped, although a frame pushed between the last poll
\* and WFI does not end the sleep by itself (main.c:54-68).
QueuedFrameServed == \A t \in 0..IndexMod - 1 : (tail = t /\ head # t) ~> (tail # t)

\* One more is counted, until the counter has come to its end.
OneMore(count, after) == after = count + 1 \/ (count = MaxDropped /\ after = count)

\* What leaves the hardware FIFO, and what an overrun does to its counter.
FrameCounted ==
    IF Len(fifo') < Len(fifo)
    THEN \/ Queued' = Append(Queued, Head(fifo)) /\ dropped' = dropped
         \/ Len(Queued) = Capacity /\ Queued' = Queued /\ OneMore(dropped, dropped')
    ELSE dropped' = dropped
OverrunCounted ==
    IF overrun /\ ~overrun' THEN OneMore(hwDropped, hwDropped') ELSE hwDropped' = hwDropped

\* A frame that leaves the hardware FIFO is in the ring, or the ring held Capacity
\* frames and this frame is counted as dropped, across every wrap of the 8-bit
\* indices (rx_queue.c:39-51).  An overrun of the hardware FIFO is counted when the
\* handler clears it, once for all the frames lost in it (bus.c:320-323); neither
\* counter moves otherwise, nor falls back once it has come to its end.
FrameKeptOrCounted == [][FrameCounted /\ OverrunCounted]_vars
=============================================================================
