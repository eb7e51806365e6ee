------------------------------- MODULE CanTx -------------------------------
(***************************************************************************)
(* The transmit path of a node: can_bus_send() in the main loop with       *)
(* interrupts masked, the prioritised queue of tx_queue.c, the mailboxes   *)
(* of the bxCAN, and the interrupt handler that refills them.              *)
(*                                                                         *)
(* Main and handler exclude each other, but the hardware stops for         *)
(* neither: a mailbox can become free between a test of the code and the   *)
(* step the test decides.  Each such test is a step of its own.            *)
(***************************************************************************)
EXTENDS Naturals, SequencesExt

CONSTANTS
    Priorities,     \* can_tx_priority_t: lower is sent first
    Capacity,       \* CAN_TX_QUEUE_CAPACITY
    Mailboxes,      \* transmit mailboxes of the bxCAN: 3 (external)
    MaxDropped,     \* UINT16_MAX, where the drop counter saturates
    MaxSends        \* bound of the model on calls of can_bus_send()

ASSUME TxAssumption ==
    /\ Priorities \subseteq Nat /\ Priorities # {}
    /\ Capacity \in Nat \ {0} /\ Mailboxes \in Nat \ {0} /\ MaxSends \in Nat
    /\ MaxDropped \in Nat \ {0}

VARIABLES
    queue,      \* transmit_queue.entries, oldest first
    boxes,      \* requested mailboxes in request order (TXFP)
    completed,  \* a request-completed flag is set: the interrupt is pending
    dropped,    \* transmit_dropped
    pc,         \* where can_bus_send() or cec_can_isr() is
    incoming,   \* the frame can_bus_send() was called with
    sends,      \* calls of can_bus_send() so far; a frame's id is its call
    sent,       \* frames that left the node
    given       \* per priority, the last frame put into a mailbox

hardware == <<boxes, completed, sent>>
vars == <<queue, hardware, dropped, pc, incoming, sends, given>>

-----------------------------------------------------------------------------
Frame == [id : 1..MaxSends, prio : Priorities]

MainSteps == {"full", "direct", "drain_one", "push", "evict", "drain"}

TypeOK ==
    /\ queue \in Seq(Frame) /\ Len(queue) <= Capacity
    /\ boxes \in Seq(Frame) /\ Len(boxes) <= Mailboxes
    /\ completed \in BOOLEAN
    /\ dropped \in 0..MaxDropped
    /\ pc \in {"idle", "isr"} \cup MainSteps
    /\ incoming \in Seq(Frame) /\ Len(incoming) <= 1
    /\ sends \in 0..MaxSends
    /\ sent \in 0..MaxSends
    /\ given \in [Priorities -> 0..MaxSends]

Init ==
    /\ queue = <<>> /\ boxes = <<>> /\ completed = FALSE
    /\ dropped = 0 /\ pc = "idle" /\ incoming = <<>>
    /\ sends = 0 /\ sent = 0
    /\ given = [p \in Priorities |-> 0]

\* can_available_mailbox()
Available == Len(boxes) < Mailboxes

\* Mutant: among equals the newest is taken.
MutantHighest(q) ==
    CHOOSE i \in 1..Len(q) : \A j \in 1..Len(q) :
        q[i].prio < q[j].prio \/ (q[i].prio = q[j].prio /\ i >= j)

\* can_tx_queue_peek_highest_locked(): the oldest of the highest priority.
Highest(q) ==
    CHOOSE i \in 1..Len(q) : \A j \in 1..Len(q) :
        q[i].prio < q[j].prio \/ (q[i].prio = q[j].prio /\ i <= j)

\* Mutant: an equal priority may be evicted.
MutantEvictable(q, f) == {i \in 1..Len(q) : q[i].prio >= f.prio}

\* The entries can_tx_queue_replace_lower_priority_locked() may evict, and the
\* one it takes: the newest of the lowest priority.
Evictable(q, f) == {i \in 1..Len(q) : q[i].prio > f.prio}
Victim(q, f) ==
    CHOOSE i \in Evictable(q, f) : \A j \in Evictable(q, f) :
        q[i].prio > q[j].prio \/ (q[i].prio = q[j].prio /\ i >= j)

\* can_bus_try_transmit_frame() with a mailbox available.
Transmit(f) ==
    /\ boxes' = Append(boxes, f)
    /\ given' = [given EXCEPT ![f.prio] = f.id]

TransmitHighest ==
    /\ queue # <<>> /\ Available
    /\ Transmit(queue[Highest(queue)])
    /\ queue' = RemoveAt(queue, Highest(queue))

-----------------------------------------------------------------------------
(* The hardware sends the mailbox requested first, retransmitting until it *)
(* is acknowledged, and raises the request-completed flag.                 *)

Complete ==
    /\ boxes # <<>>
    /\ boxes' = Tail(boxes)
    /\ sent' = sent + 1
    /\ completed' = TRUE
    /\ UNCHANGED <<queue, dropped, pc, incoming, sends, given>>

-----------------------------------------------------------------------------
(* can_bus_send(), interrupts masked from the first step to the last       *)

Idle == pc' = "idle" /\ incoming' = <<>>

\* Mutant: one frame too many is queued.
MutantEnter(p) ==
    LET f == [id |-> sends + 1, prio |-> p] IN
    /\ pc = "idle" /\ sends < MaxSends
    /\ sends' = sends + 1
    /\ IF queue = <<>> /\ Available
       THEN Transmit(f) /\ UNCHANGED <<pc, incoming>>
       ELSE /\ incoming' = <<f>>
            /\ pc' = IF Len(queue) <= Capacity THEN "push" ELSE "full"
            /\ UNCHANGED <<boxes, given>>
    /\ UNCHANGED <<queue, completed, sent, dropped>>

Enter(p) ==
    LET f == [id |-> sends + 1, prio |-> p] IN
    /\ pc = "idle" /\ sends < MaxSends
    /\ sends' = sends + 1
    /\ IF queue = <<>> /\ Available
       THEN Transmit(f) /\ UNCHANGED <<pc, incoming>>
       ELSE /\ incoming' = <<f>>
            /\ pc' = IF Len(queue) < Capacity THEN "push" ELSE "full"
            /\ UNCHANGED <<boxes, given>>
    /\ UNCHANGED <<queue, completed, sent, dropped>>

Push ==
    /\ pc = "push"
    /\ queue' = Append(queue, incoming[1])
    /\ incoming' = <<>>
    /\ pc' = "drain"
    /\ UNCHANGED <<hardware, dropped, sends, given>>

\* can_bus_drain_tx_queue_locked(): one frame, or no mailbox and no frame left.
Drain ==
    /\ pc = "drain"
    /\ \/ TransmitHighest /\ UNCHANGED <<pc, incoming>>
       \/ (queue = <<>> \/ ~Available) /\ Idle /\ UNCHANGED <<queue, boxes, given>>
    /\ UNCHANGED <<completed, sent, dropped, sends>>

\* The queue is full: a mailbox may be free for the better of the incoming and
\* the highest queued frame, or one frame has to go.
Decide ==
    /\ pc = "full"
    /\ pc' = IF ~Available THEN "evict"
             ELSE IF incoming[1].prio < queue[Highest(queue)].prio THEN "direct" ELSE "drain_one"
    /\ UNCHANGED <<queue, hardware, dropped, incoming, sends, given>>

\* A failed transmission here would lose the incoming frame uncounted.
Direct ==
    /\ pc = "direct"
    /\ IF Available THEN Transmit(incoming[1]) ELSE UNCHANGED <<boxes, given>>
    /\ Idle
    /\ UNCHANGED <<queue, completed, sent, dropped, sends>>

\* So would a failure to make room.
DrainOne ==
    /\ pc = "drain_one"
    /\ IF Available
       THEN TransmitHighest /\ pc' = "push" /\ UNCHANGED incoming
       ELSE Idle /\ UNCHANGED <<queue, boxes, given>>
    /\ UNCHANGED <<completed, sent, dropped, sends>>

\* increment_transmit_dropped()
Saturating(n) == IF n = MaxDropped THEN n ELSE n + 1

\* Mutant: only a refused incoming frame is counted.
MutantEvict ==
    /\ pc = "evict"
    /\ queue' = IF Evictable(queue, incoming[1]) = {} THEN queue
                ELSE Append(RemoveAt(queue, Victim(queue, incoming[1])), incoming[1])
    /\ dropped' = IF queue' = queue THEN Saturating(dropped) ELSE dropped
    /\ Idle
    /\ UNCHANGED <<hardware, sends, given>>

Evict ==
    /\ pc = "evict"
    /\ queue' = IF Evictable(queue, incoming[1]) = {} THEN queue
                ELSE Append(RemoveAt(queue, Victim(queue, incoming[1])), incoming[1])
    /\ dropped' = Saturating(dropped)
    /\ Idle
    /\ UNCHANGED <<hardware, sends, given>>

-----------------------------------------------------------------------------
(* cec_can_isr(): acknowledge the completed requests, then refill          *)

IsrEnter ==
    /\ pc = "idle" /\ completed
    /\ completed' = FALSE
    /\ pc' = "isr"
    /\ UNCHANGED <<queue, boxes, sent, dropped, incoming, sends, given>>

\* Mutant: completions are acknowledged after the refill, those since its last
\* test of a mailbox included.
MutantIsrDrain ==
    /\ pc = "isr"
    /\ \/ TransmitHighest /\ UNCHANGED <<pc, completed>>
       \/ /\ queue = <<>> \/ ~Available \/ completed
          /\ pc' = "idle" /\ completed' = FALSE
          /\ UNCHANGED <<queue, boxes, given>>
    /\ UNCHANGED <<sent, dropped, incoming, sends>>

IsrDrain ==
    /\ pc = "isr"
    /\ \/ TransmitHighest /\ UNCHANGED pc
       \/ (queue = <<>> \/ ~Available) /\ pc' = "idle" /\ UNCHANGED <<queue, boxes, given>>
    /\ UNCHANGED <<completed, sent, dropped, incoming, sends>>

Software == Push \/ Drain \/ Decide \/ Direct \/ DrainOne \/ Evict \/ IsrEnter \/ IsrDrain

Next == Complete \/ Software \/ \E p \in Priorities : Enter(p)

Spec == Init /\ [][Next]_vars

\* Another node acknowledges (can_init: automatic retransmission, automatic
\* bus-off recovery), and started software runs on.  No call is ever obliged.
FairSpec == Spec /\ WF_vars(Complete) /\ WF_vars(Software)

-----------------------------------------------------------------------------
(* Properties                                                              *)

\* Every frame offered is on the wire, in a mailbox, queued, in the hands of
\* can_bus_send(), or counted as dropped: no race with the hardware loses one
\* uncounted, until the counter has come to its end (bus.c:58-63, 233-286).
EveryFrameAccounted ==
    LET held == sent + Len(boxes) + Len(queue) + Len(incoming)
    IN  sends = held + dropped \/ (dropped = MaxDropped /\ sends > held + dropped)

\* A mailbox is never requested for a frame while an older frame of its priority
\* or any frame of a higher one waits (bus.c:233-272, tx_queue.h).
PriorityThenFifo ==
    [][\A f \in Frame : boxes' = Append(boxes, f) =>
         /\ f.id > given[f.prio]
         /\ \A w \in Range(queue \o incoming) \ {f} :
              f.prio < w.prio \/ (f.prio = w.prio /\ f.id < w.id)]_vars

\* A frame that waits no longer, and for which no mailbox was requested, is of the
\* lowest priority of all that wait, the newest of those, and it goes alone; an
\* ERROR or ACK never makes way for telemetry.
NewestLowestIsLost ==
    [][LET pool == Range(queue \o incoming)
           lost == pool \ Range(queue' \o incoming')
       IN  boxes' = boxes /\ lost # {} =>
             \E f \in lost : /\ lost = {f}
                             /\ \A w \in pool \ {f} :
                                  w.prio < f.prio \/ (w.prio = f.prio /\ w.id < f.id)]_vars

\* A frame waits in the queue only while a mailbox is busy or a completion is
\* still to be handled: no interrupt is lost between drain and unmask.
NoFrameStranded ==
    pc = "idle" /\ queue # <<>> => boxes # <<>> \/ completed

\* Every queue is eventually empty when no more frames are offered.
QueueDrains == <>[][sends' = sends]_vars => <>[](queue = <<>> /\ boxes = <<>>)
=============================================================================
