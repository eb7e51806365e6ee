----------------------------- MODULE CanTxProofs -----------------------------
(***************************************************************************)
(* The transmit path for any priorities, capacity and number of mailboxes: *)
(* no frame is lost uncounted or stranded, and frames leave, or make way,  *)
(* in order of priority and age.                                           *)
(***************************************************************************)
EXTENDS CanTx, WellFoundedInduction, SequenceTheorems, TLAPS

\* Every set of numbers that is not empty has a least one.
LEMMA Least ==
    ASSUME NEW T \in SUBSET Nat, T # {}
    PROVE  \E x \in T : \A y \in T : x <= y
<1>1. IsWellFoundedOn(OpToRel(<, Nat), Nat)
  BY NatLessThanWellFounded
<1>2. PICK x \in T : \A y \in T : ~ (<<y, x>> \in OpToRel(<, Nat))
  BY <1>1, WFMin
<1>3. \A y \in T : ~(y < x)
  BY <1>2 DEF OpToRel
<1> QED
  BY <1>3

\* A set of numbers with a bound has a greatest one.
LEMMA Greatest ==
    ASSUME NEW T \in SUBSET Nat, T # {}, NEW b \in Nat, \A x \in T : x <= b
    PROVE  \E x \in T : \A y \in T : y <= x
<1> DEFINE U == {b - x : x \in T}
<1>1. U \in SUBSET Nat /\ U # {}
  <2>1. \A x \in T : x \in Nat /\ b - x \in Nat
    OBVIOUS
  <2> QED
    BY <2>1
<1>2. PICK u \in U : \A v \in U : u <= v
  BY <1>1, Least
<1>3. PICK x \in T : u = b - x
  BY <1>2
<1>4. \A y \in T : b - x <= b - y
  BY <1>2, <1>3
<1>5. ASSUME NEW y \in T PROVE y <= x
  <2>1. y \in Nat /\ x \in Nat /\ b - x <= b - y
    BY <1>4
  <2> QED
    BY <2>1
<1> QED
  BY <1>5

\* A queue has a length, and its entries have a number and a priority.
LEMMA QueueFacts ==
    ASSUME NEW q \in Seq(Frame)
    PROVE  /\ Len(q) \in Nat
           /\ \A i \in 1..Len(q) : q[i] \in Frame /\ q[i].prio \in Nat /\ q[i].id \in Nat
<1>1. Len(q) \in Nat /\ \A i \in 1..Len(q) : q[i] \in Frame
  BY LenProperties, ElementOfSeq
<1>2. ASSUME NEW f \in Frame PROVE f.prio \in Nat /\ f.id \in Nat
  <2>1. f.prio \in Priorities /\ f.id \in 1..MaxSends
    BY DEF Frame
  <2>2. f.prio \in Nat
    BY <2>1, TxAssumption
  <2>3. MaxSends \in Nat
    BY TxAssumption
  <2>4. f.id \in Nat
    BY <2>1, <2>3
  <2> QED
    BY <2>2, <2>4
<1> QED
  BY <1>1, <1>2

\* The priorities in a queue have a bound.
LEMMA Bounded ==
    ASSUME NEW q \in Seq(Frame)
    PROVE  \E b \in Nat : \A i \in 1..Len(q) : q[i].prio <= b
<1> DEFINE Bound(n) == \E b \in Nat : \A i \in 1..n : q[i].prio <= b
           T == {n \in 0..Len(q) : ~Bound(n)}
<1>1. Len(q) \in Nat /\ \A i \in 1..Len(q) : q[i].prio \in Nat
  BY QueueFacts
<1> HIDE DEF Bound
<1>2. SUFFICES ASSUME T # {} PROVE FALSE
  <2>1. T = {} => Bound(Len(q))
    BY <1>1
  <2> QED
    BY <2>1 DEF Bound
<1>3. PICK n \in T : \A m \in T : n <= m
  <2>1. T \in SUBSET Nat
    BY <1>1
  <2> QED
    BY <1>2, <2>1, Least
<1>4. n # 0
  <2>1. Bound(0)
    <3>1. \A i \in 1..0 : q[i].prio <= 0
      OBVIOUS
    <3> QED
      BY <3>1 DEF Bound
  <2> QED
    BY <1>3, <2>1
<1>5. n - 1 \in 0..Len(q) /\ n - 1 \notin T
  <2>1. n \in Nat /\ n <= Len(q) /\ n - 1 < n
    BY <1>1, <1>3
  <2> QED
    BY <1>1, <1>3, <1>4, <2>1
<1>6. PICK b \in Nat : \A i \in 1..n - 1 : q[i].prio <= b
  BY <1>5 DEF Bound
<1>7. PICK c \in Nat : b <= c /\ q[n].prio <= c
  <2>1. q[n].prio \in Nat
    BY <1>1, <1>3, <1>4
  <2>2. b <= b + q[n].prio /\ q[n].prio <= b + q[n].prio /\ b + q[n].prio \in Nat
    BY <2>1
  <2> QED
    BY <2>2
<1>8. \A i \in 1..n : i = n \/ i \in 1..n - 1
  BY <1>3
<1>9. ASSUME NEW i \in 1..n PROVE q[i].prio <= c
  <2>1. q[i].prio \in Nat
    BY <1>1, <1>3
  <2>2. q[i].prio <= b \/ q[i].prio <= c
    BY <1>6, <1>7, <1>8
  <2> QED
    BY <1>7, <2>1, <2>2
<1> QED
  BY <1>3, <1>9 DEF Bound

-----------------------------------------------------------------------------
(* The queue                                                               *)

\* A sequence without one of its elements.
LEMMA Removed ==
    ASSUME NEW S, NEW q \in Seq(S), NEW i \in 1..Len(q)
    PROVE  /\ RemoveAt(q, i) \in Seq(S)
           /\ Len(RemoveAt(q, i)) = Len(q) - 1
           /\ \A j \in 1..Len(q) - 1 : RemoveAt(q, i)[j] = IF j < i THEN q[j] ELSE q[j + 1]
<1> DEFINE front == SubSeq(q, 1, i - 1)
           back == SubSeq(q, i + 1, Len(q))
<1>1. /\ front \in Seq(S) /\ Len(front) = i - 1 /\ \A j \in 1..i - 1 : front[j] = q[j]
  BY SubSeqProperties
<1>2. /\ back \in Seq(S) /\ Len(back) = Len(q) - i
      /\ \A j \in 1..Len(q) - i : back[j] = q[i + j]
  BY SubSeqProperties
<1> HIDE DEF front, back
<1>3. /\ front \o back \in Seq(S) /\ Len(front \o back) = Len(front) + Len(back)
      /\ \A j \in 1..Len(front) + Len(back) :
           (front \o back)[j] = IF j <= Len(front) THEN front[j] ELSE back[j - Len(front)]
  BY <1>1, <1>2, ConcatProperties
<1>4. RemoveAt(q, i) = front \o back
  BY DEF RemoveAt, front, back
<1>5. Len(front) + Len(back) = Len(q) - 1
  BY <1>1, <1>2
<1>6. ASSUME NEW j \in 1..Len(q) - 1
      PROVE  (front \o back)[j] = IF j < i THEN q[j] ELSE q[j + 1]
  <2>1. CASE j < i
    BY <1>1, <1>3, <1>5, <1>6, <2>1
  <2>2. CASE ~(j < i)
    <3>1. j - Len(front) \in 1..Len(q) - i /\ i + (j - Len(front)) = j + 1
      BY <1>1, <1>6, <2>2
    <3>2. (front \o back)[j] = back[j - Len(front)]
      BY <1>1, <1>3, <1>5, <1>6, <2>2
    <3> QED
      BY <1>2, <2>2, <3>1, <3>2
  <2> QED
    BY <2>1, <2>2
<1> QED
  BY <1>3, <1>4, <1>5, <1>6

\* can_tx_queue_peek_highest_locked() finds the oldest of the highest priority.
LEMMA HighestIsFirst ==
    ASSUME NEW q \in Seq(Frame), q # <<>>
    PROVE  /\ Highest(q) \in 1..Len(q)
           /\ \A j \in 1..Len(q) : \/ q[Highest(q)].prio < q[j].prio
                                   \/ q[Highest(q)].prio = q[j].prio /\ Highest(q) <= j
<1>1. Len(q) \in Nat /\ 1 \in 1..Len(q) /\ \A i \in 1..Len(q) : q[i].prio \in Nat
  BY QueueFacts, EmptySeq
<1> DEFINE P == {q[i].prio : i \in 1..Len(q)}
<1>2. PICK p \in P : p \in Nat /\ \A r \in P : p <= r
  <2>1. P \in SUBSET Nat /\ P # {}
    BY <1>1
  <2> QED
    BY <2>1, Least
<1> DEFINE I == {i \in 1..Len(q) : q[i].prio = p}
<1>3. PICK i \in I : \A j \in I : i <= j
  <2>1. I \in SUBSET Nat /\ I # {}
    BY <1>2
  <2> QED
    BY <2>1, Least
<1>4. /\ i \in 1..Len(q)
      /\ \A j \in 1..Len(q) : q[i].prio < q[j].prio \/ (q[i].prio = q[j].prio /\ i <= j)
  <2>1. ASSUME NEW j \in 1..Len(q), q[j].prio # p
        PROVE  p < q[j].prio
    <3>1. p <= q[j].prio
      BY <1>2
    <3> QED
      BY <1>1, <1>2, <2>1, <3>1
  <2>2. i \in 1..Len(q) /\ q[i].prio = p
    BY <1>3
  <2>3. ASSUME NEW j \in 1..Len(q), q[j].prio = p
        PROVE  i <= j
    BY <1>3, <2>3
  <2> QED
    BY <2>1, <2>2, <2>3
<1> QED
  BY <1>4 DEF Highest

\* What makes way is the newest of the lowest priority of those that may.
LEMMA VictimIsLast ==
    ASSUME NEW q \in Seq(Frame), NEW f \in Frame, Evictable(q, f) # {}
    PROVE  /\ Victim(q, f) \in Evictable(q, f)
           /\ \A j \in Evictable(q, f) :
                \/ q[Victim(q, f)].prio > q[j].prio
                \/ q[Victim(q, f)].prio = q[j].prio /\ Victim(q, f) >= j
<1> DEFINE E == Evictable(q, f)
           P == {q[i].prio : i \in E}
<1>1. /\ Len(q) \in Nat /\ E \subseteq 1..Len(q) /\ E # {}
      /\ \A i \in 1..Len(q) : q[i].prio \in Nat
  BY QueueFacts DEF Evictable
<1> HIDE DEF E
<1>2. PICK p \in P : p \in Nat /\ \A r \in P : r <= p
  <2>1. PICK b \in Nat : \A i \in 1..Len(q) : q[i].prio <= b
    BY Bounded
  <2>2. P \in SUBSET Nat /\ P # {} /\ \A r \in P : r <= b
    BY <1>1, <2>1
  <2> QED
    BY <2>2, Greatest
<1> DEFINE I == {i \in E : q[i].prio = p}
<1>3. PICK i \in I : \A j \in I : j <= i
  <2>1. \A j \in I : j \in Nat /\ j <= Len(q)
    BY <1>1
  <2>2. I # {}
    BY <1>2
  <2> QED
    BY <1>1, <2>1, <2>2, Greatest
<1>4. i \in E /\ \A j \in E : q[i].prio > q[j].prio \/ (q[i].prio = q[j].prio /\ i >= j)
  <2>1. ASSUME NEW j \in E, q[j].prio # p
        PROVE  p > q[j].prio
    <3>1. q[j].prio <= p /\ q[j].prio \in Nat
      BY <1>1, <1>2
    <3> QED
      BY <1>2, <2>1, <3>1
  <2>2. i \in E /\ q[i].prio = p
    BY <1>3
  <2>3. ASSUME NEW j \in E, q[j].prio = p
        PROVE  i >= j
    <3>1. j <= i /\ j \in Nat /\ i \in Nat
      BY <1>1, <1>3, <2>3
    <3> QED
      BY <3>1
  <2> QED
    BY <2>1, <2>2, <2>3
<1> QED
  BY <1>4 DEF Victim, E

-----------------------------------------------------------------------------
(* Types, and what is true at each step of can_bus_send()                   *)

\* A call is in the hands of can_bus_send() exactly between its first step and
\* the one that queues, transmits or refuses it; a queue found full stays full
\* and a mailbox found free stays free until the step they decide, since the
\* hardware takes frames out of the mailboxes only.
Phases ==
    /\ incoming # <<>> <=> pc \in {"full", "direct", "drain_one", "push", "evict"}
    /\ pc \in {"full", "direct", "drain_one", "evict"} => Len(queue) = Capacity
    /\ pc = "push" => Len(queue) < Capacity
    /\ pc \in {"direct", "drain_one"} => Available

\* NoFrameStranded also in the step that has found no mailbox free.
Awake == pc \in {"idle", "evict"} /\ queue # <<>> => boxes # <<>> \/ completed

FlowInv == TypeOK /\ Phases /\ EveryFrameAccounted /\ Awake

\* The parameters.
LEMMA Parameters ==
    /\ Capacity \in Nat /\ Capacity > 0
    /\ Mailboxes \in Nat /\ Mailboxes > 0
    /\ MaxSends \in Nat /\ MaxDropped \in Nat
  BY TxAssumption

\* What may be appended.
LEMMA Appended ==
    ASSUME NEW q \in Seq(Frame), NEW f \in Frame
    PROVE  /\ Append(q, f) \in Seq(Frame) /\ Append(q, f) # <<>>
           /\ Len(Append(q, f)) = Len(q) + 1
           /\ \A i \in 1..Len(q) : Append(q, f)[i] = q[i]
           /\ Append(q, f)[Len(q) + 1] = f
  BY AppendProperties

\* The frame in the hands of can_bus_send(), when there is one.
LEMMA InHand ==
    ASSUME TypeOK, incoming # <<>>
    PROVE  Len(incoming) = 1 /\ incoming[1] \in Frame
<1>1. incoming \in Seq(Frame) /\ Len(incoming) <= 1
  BY DEF TypeOK
<1>2. Len(incoming) \in Nat /\ Len(incoming) # 0
  BY <1>1, EmptySeq, LenProperties
<1> QED
  BY <1>1, <1>2, ElementOfSeq

\* The lengths the invariant is about.
LEMMA Lengths ==
    ASSUME TypeOK
    PROVE  /\ Len(queue) \in Nat /\ Len(boxes) \in Nat /\ Len(incoming) \in Nat
           /\ queue \in Seq(Frame) /\ boxes \in Seq(Frame) /\ incoming \in Seq(Frame)
           /\ Len(queue) <= Capacity /\ Len(boxes) <= Mailboxes
           /\ sends \in Nat /\ sent \in Nat /\ dropped \in Nat /\ sends <= MaxSends
           /\ (queue = <<>> <=> Len(queue) = 0) /\ (boxes = <<>> <=> Len(boxes) = 0)
<1>1. queue \in Seq(Frame) /\ boxes \in Seq(Frame) /\ incoming \in Seq(Frame)
  BY DEF TypeOK
<1>2. Len(queue) \in Nat /\ Len(boxes) \in Nat /\ Len(incoming) \in Nat
  BY <1>1, LenProperties
<1>3. (queue = <<>> <=> Len(queue) = 0) /\ (boxes = <<>> <=> Len(boxes) = 0)
  BY <1>1, EmptySeq
<1>4. sends \in Nat /\ sent \in Nat /\ dropped \in Nat /\ sends <= MaxSends
  BY Parameters DEF TypeOK
<1> QED
  BY <1>1, <1>2, <1>3, <1>4 DEF TypeOK

\* A frame goes into a mailbox.
LEMMA TransmitStep ==
    ASSUME TypeOK, NEW f \in Frame, Available, Transmit(f)
    PROVE  /\ boxes' \in Seq(Frame) /\ boxes' # <<>>
           /\ Len(boxes') = Len(boxes) + 1 /\ Len(boxes') <= Mailboxes
           /\ given' \in [Priorities -> 0..MaxSends]
<1>1. boxes' \in Seq(Frame) /\ boxes' # <<>> /\ Len(boxes') = Len(boxes) + 1
  BY Lengths, Appended DEF Transmit
<1>2. Len(boxes) + 1 <= Mailboxes
  BY Lengths, Parameters DEF Available
<1>3. f.prio \in Priorities /\ f.id \in 0..MaxSends
  <2>1. f.prio \in Priorities /\ f.id \in 1..MaxSends
    BY DEF Frame
  <2> QED
    BY <2>1, Parameters
<1>4. given' \in [Priorities -> 0..MaxSends]
  BY <1>3 DEF Transmit, TypeOK
<1> QED
  BY <1>1, <1>2, <1>4

\* The highest frame goes from the queue into a mailbox.
LEMMA HighestStep ==
    ASSUME TypeOK, TransmitHighest
    PROVE  /\ queue # <<>> /\ queue' \in Seq(Frame) /\ Len(queue') = Len(queue) - 1
           /\ queue[Highest(queue)] \in Frame
           /\ boxes' \in Seq(Frame) /\ boxes' # <<>>
           /\ Len(boxes') = Len(boxes) + 1 /\ Len(boxes') <= Mailboxes
           /\ given' \in [Priorities -> 0..MaxSends]
<1>1. queue # <<>> /\ Available /\ Transmit(queue[Highest(queue)])
      /\ queue' = RemoveAt(queue, Highest(queue))
  BY DEF TransmitHighest
<1>2. Highest(queue) \in 1..Len(queue)
  BY <1>1, Lengths, HighestIsFirst
<1>3. queue[Highest(queue)] \in Frame
  BY <1>2, Lengths, ElementOfSeq
<1>4. queue' \in Seq(Frame) /\ Len(queue') = Len(queue) - 1
  BY <1>1, <1>2, Lengths, Removed
<1> QED
  BY <1>1, <1>3, <1>4, TransmitStep

-----------------------------------------------------------------------------
(* The steps keep FlowInv                                                   *)

\* Initially nothing is queued, requested or in hand.
LEMMA FlowInit ==
    ASSUME Init
    PROVE  FlowInv
<1>1. <<>> \in Seq(Frame) /\ Len(<<>>) = 0
  BY EmptySeq
<1>2. given \in [Priorities -> 0..MaxSends]
  BY Parameters DEF Init
<1>3. TypeOK
  <2>1. completed \in BOOLEAN
    BY DEF Init
  <2>2. 0 \in 0..MaxSends /\ 0 \in 0..MaxDropped /\ 0 <= Capacity /\ 0 <= Mailboxes /\ 0 <= 1
    BY Parameters
  <2> QED
    BY <1>1, <1>2, <2>1, <2>2 DEF Init, TypeOK
<1> QED
  BY <1>1, <1>3 DEF Init, FlowInv, Phases, EveryFrameAccounted, Awake

\* The hardware sends a frame.
LEMMA FlowComplete ==
    ASSUME FlowInv, Complete
    PROVE  FlowInv'
<1>1. TypeOK /\ Phases /\ EveryFrameAccounted
  BY DEF FlowInv
<1>2. boxes' \in Seq(Frame) /\ Len(boxes') = Len(boxes) - 1
  BY <1>1, Lengths, HeadTailProperties DEF Complete
<1>3. sent' = sent + 1 /\ sent' \in 0..MaxSends
  <2>1. Len(boxes) > 0
    BY <1>1, Lengths DEF Complete
  <2>2. sent + Len(boxes) <= MaxSends
    BY <1>1, Lengths, Parameters DEF EveryFrameAccounted
  <2>3. sent + 1 \in 0..MaxSends
    BY <1>1, <2>1, <2>2, Lengths, Parameters
  <2> QED
    BY <2>3 DEF Complete
<1>4. TypeOK'
  <2>1. completed' \in BOOLEAN
    BY DEF Complete
  <2>2. Len(boxes') <= Mailboxes
    BY <1>1, <1>2, Lengths, Parameters
  <2> QED
    BY <1>1, <1>2, <1>3, <2>1, <2>2 DEF Complete, TypeOK
<1>5. Phases'
  BY <1>1, <1>2, Lengths, Parameters DEF Complete, Phases, Available
<1>6. EveryFrameAccounted'
  <2>1. LET held == sent + Len(boxes) + Len(queue) + Len(incoming)
        IN  sends = held + dropped \/ (dropped = MaxDropped /\ sends > held + dropped)
    BY <1>1 DEF EveryFrameAccounted
  <2>2. /\ Len(boxes) \in Nat /\ Len(queue) \in Nat /\ sent \in Nat /\ dropped \in Nat
        /\ Len(incoming) \in Nat
    BY <1>1, Lengths
  <2>3. queue' = queue /\ dropped' = dropped /\ incoming' = incoming /\ sends' = sends
    BY DEF Complete
  <2>4. LET held == sent' + Len(boxes') + Len(queue') + Len(incoming')
        IN  sends' = held + dropped' \/ (dropped' = MaxDropped /\ sends' > held + dropped')
    BY <1>2, <1>3, <2>1, <2>2, <2>3
  <2> QED
    BY <2>4 DEF EveryFrameAccounted
<1> QED
  BY <1>4, <1>5, <1>6 DEF FlowInv, Awake, Complete

\* A call begins, and ends at once when a mailbox is free and nothing waits.
LEMMA FlowEnter ==
    ASSUME FlowInv, NEW p \in Priorities, Enter(p)
    PROVE  FlowInv'
<1> DEFINE f == [id |-> sends + 1, prio |-> p]
<1>1. TypeOK /\ Phases /\ EveryFrameAccounted
  BY DEF FlowInv
<1>2. /\ pc = "idle" /\ incoming = <<>> /\ Len(incoming) = 0
      /\ queue' = queue /\ completed' = completed /\ sent' = sent /\ dropped' = dropped
      /\ sends' = sends + 1 /\ sends' \in 0..MaxSends
  <2>1. Len(<<>>) = 0
    BY EmptySeq
  <2> QED
    BY <1>1, <2>1, Lengths, Parameters DEF Enter, Phases
<1>3. f \in Frame
  <2>1. sends + 1 \in 1..MaxSends
    BY <1>1, Lengths, Parameters DEF Enter
  <2> QED
    BY <2>1 DEF Frame
<1>4. CASE queue = <<>> /\ Available
  <2>1. Transmit(f) /\ pc' = pc /\ incoming' = incoming
    BY <1>4 DEF Enter
  <2> HIDE DEF f
  <2>2. /\ boxes' \in Seq(Frame) /\ Len(boxes') = Len(boxes) + 1
        /\ Len(boxes') <= Mailboxes /\ given' \in [Priorities -> 0..MaxSends]
    BY <1>1, <1>3, <1>4, <2>1, TransmitStep
  <2>3. TypeOK'
    BY <1>1, <1>2, <2>1, <2>2 DEF TypeOK
  <2>4. EveryFrameAccounted'
    BY <1>1, <1>2, <2>1, <2>2, Lengths DEF EveryFrameAccounted
  <2> QED
    BY <1>2, <1>4, <2>1, <2>3, <2>4 DEF FlowInv, Phases, Awake
<1>5. CASE ~(queue = <<>> /\ Available)
  <2>1. /\ incoming' = <<f>> /\ boxes' = boxes /\ given' = given
        /\ pc' = IF Len(queue) < Capacity THEN "push" ELSE "full"
    BY <1>5 DEF Enter
  <2> HIDE DEF f
  <2>2. incoming' \in Seq(Frame) /\ Len(incoming') = 1 /\ incoming' # <<>>
    BY <1>3, <2>1
  <2>3. TypeOK'
    BY <1>1, <1>2, <2>1, <2>2 DEF TypeOK, MainSteps
  <2>4. EveryFrameAccounted'
    BY <1>1, <1>2, <2>1, <2>2, Lengths DEF EveryFrameAccounted
  <2>5. Len(queue) = Capacity \/ Len(queue) < Capacity
    BY <1>1, Lengths, Parameters
  <2> QED
    BY <1>2, <2>1, <2>2, <2>3, <2>4, <2>5 DEF FlowInv, Phases, Awake
<1> QED
  BY <1>4, <1>5

\* A call queues its frame.
LEMMA FlowPush ==
    ASSUME FlowInv, Push
    PROVE  FlowInv'
<1>1. TypeOK /\ Phases /\ EveryFrameAccounted
  BY DEF FlowInv
<1>2. pc = "push" /\ incoming # <<>> /\ Len(queue) < Capacity
  BY <1>1 DEF Push, Phases
<1>3. Len(incoming) = 1 /\ incoming[1] \in Frame
  BY <1>1, <1>2, InHand
<1>4. /\ queue' \in Seq(Frame) /\ Len(queue') = Len(queue) + 1 /\ Len(queue') <= Capacity
      /\ incoming' \in Seq(Frame) /\ incoming' = <<>> /\ Len(incoming') = 0
  <2>1. queue' \in Seq(Frame) /\ Len(queue') = Len(queue) + 1
    BY <1>1, <1>3, Lengths, Appended DEF Push
  <2>2. Len(queue) + 1 <= Capacity
    BY <1>1, <1>2, Lengths, Parameters
  <2> QED
    BY <2>1, <2>2, EmptySeq DEF Push
<1>5. /\ pc' = "drain" /\ boxes' = boxes /\ completed' = completed /\ sent' = sent
      /\ dropped' = dropped /\ sends' = sends /\ given' = given
  BY DEF Push, hardware
<1>6. TypeOK'
  BY <1>1, <1>4, <1>5 DEF TypeOK, MainSteps
<1>7. EveryFrameAccounted'
  <2>1. LET held == sent + Len(boxes) + Len(queue) + 1
        IN  sends = held + dropped \/ (dropped = MaxDropped /\ sends > held + dropped)
    BY <1>1, <1>3 DEF EveryFrameAccounted
  <2>2. Len(boxes) \in Nat /\ Len(queue) \in Nat /\ sent \in Nat /\ dropped \in Nat
    BY <1>1, Lengths
  <2>3. LET held == sent' + Len(boxes') + Len(queue') + 0
        IN  sends' = held + dropped' \/ (dropped' = MaxDropped /\ sends' > held + dropped')
    BY <1>4, <1>5, <2>1, <2>2
  <2> QED
    BY <1>4, <2>3 DEF EveryFrameAccounted
<1> QED
  BY <1>4, <1>5, <1>6, <1>7 DEF FlowInv, Phases, Awake

\* What the steps that only take the highest frame out of the queue keep.
LEMMA FlowDrained ==
    ASSUME FlowInv, TransmitHighest, pc' \in {"drain", "isr", "push"},
           incoming' = incoming, pc' = "push" <=> incoming # <<>>,
           UNCHANGED <<completed, sent, dropped, sends>>
    PROVE  FlowInv'
<1>1. TypeOK /\ Phases /\ EveryFrameAccounted
  BY DEF FlowInv
<1>2. /\ queue # <<>> /\ queue' \in Seq(Frame) /\ Len(queue') = Len(queue) - 1
      /\ boxes' \in Seq(Frame) /\ Len(boxes') = Len(boxes) + 1 /\ Len(boxes') <= Mailboxes
      /\ given' \in [Priorities -> 0..MaxSends]
  BY <1>1, HighestStep
<1>3. Len(queue') < Capacity /\ Len(queue') <= Capacity
  BY <1>1, <1>2, Lengths, Parameters
<1>4. TypeOK'
  BY <1>1, <1>2, <1>3 DEF TypeOK, MainSteps
<1>5. EveryFrameAccounted'
  BY <1>1, <1>2, Lengths DEF EveryFrameAccounted
<1> QED
  BY <1>3, <1>4, <1>5 DEF FlowInv, Phases, Awake

\* What a drain that ends leaves: nothing queued, or no mailbox free.
LEMMA FlowDrainEnds ==
    ASSUME FlowInv, queue = <<>> \/ ~Available, pc' = "idle", incoming' = <<>>, incoming = <<>>,
           UNCHANGED <<queue, boxes, given, completed, sent, dropped, sends>>
    PROVE  FlowInv'
<1>1. TypeOK /\ Phases /\ EveryFrameAccounted
  BY DEF FlowInv
<1>2. TypeOK'
  BY <1>1 DEF TypeOK
<1>3. queue # <<>> => boxes # <<>>
  BY <1>1, Lengths, Parameters DEF Available
<1> QED
  BY <1>1, <1>2, <1>3 DEF FlowInv, Phases, Awake, EveryFrameAccounted

\* The queue was full: what becomes of the frame in hand is decided.
LEMMA FlowDecide ==
    ASSUME FlowInv, Decide
    PROVE  FlowInv'
<1>1. TypeOK /\ Phases /\ EveryFrameAccounted
  BY DEF FlowInv
<1>2. /\ queue' = queue /\ boxes' = boxes /\ completed' = completed /\ sent' = sent
      /\ dropped' = dropped /\ incoming' = incoming /\ sends' = sends /\ given' = given
      /\ pc = "full" /\ pc' \in {"evict", "direct", "drain_one"} /\ (pc' # "evict" => Available)
      /\ (pc' = "evict" => ~Available)
  BY DEF Decide, hardware
<1>3. TypeOK'
  BY <1>1, <1>2 DEF TypeOK, MainSteps
<1>4. ~Available => boxes # <<>>
  BY <1>1, Lengths, Parameters DEF Available
<1>5. Phases'
  BY <1>1, <1>2 DEF Phases, Available
<1> QED
  BY <1>1, <1>2, <1>3, <1>4, <1>5 DEF FlowInv, Awake, EveryFrameAccounted

\* The frame in hand goes past a full queue into a mailbox.
LEMMA FlowDirect ==
    ASSUME FlowInv, Direct
    PROVE  FlowInv'
<1>1. TypeOK /\ Phases /\ EveryFrameAccounted
  BY DEF FlowInv
<1>2. pc = "direct" /\ incoming # <<>> /\ Available
  BY <1>1 DEF Direct, Phases
<1>3. Len(incoming) = 1 /\ incoming[1] \in Frame
  BY <1>1, <1>2, InHand
<1>4. Transmit(incoming[1]) /\ pc' = "idle" /\ incoming' = <<>>
  BY <1>2 DEF Direct, Idle
<1>5. /\ queue' = queue /\ completed' = completed /\ sent' = sent
      /\ dropped' = dropped /\ sends' = sends
  BY DEF Direct
<1>6. /\ boxes' \in Seq(Frame) /\ boxes' # <<>> /\ Len(boxes') = Len(boxes) + 1
      /\ Len(boxes') <= Mailboxes /\ given' \in [Priorities -> 0..MaxSends]
  BY <1>1, <1>2, <1>3, <1>4, TransmitStep
<1>7. incoming' \in Seq(Frame) /\ Len(incoming') = 0
  BY <1>4, EmptySeq
<1>8. TypeOK'
  BY <1>1, <1>4, <1>5, <1>6, <1>7 DEF TypeOK
<1>9. EveryFrameAccounted'
  <2>1. LET held == sent + Len(boxes) + Len(queue) + 1
        IN  sends = held + dropped \/ (dropped = MaxDropped /\ sends > held + dropped)
    BY <1>1, <1>3 DEF EveryFrameAccounted
  <2>2. Len(boxes) \in Nat /\ Len(queue) \in Nat /\ sent \in Nat /\ dropped \in Nat
    BY <1>1, Lengths
  <2>3. LET held == sent' + Len(boxes') + Len(queue') + 0
        IN  sends' = held + dropped' \/ (dropped' = MaxDropped /\ sends' > held + dropped')
    BY <1>5, <1>6, <2>1, <2>2
  <2> QED
    BY <1>7, <2>3 DEF EveryFrameAccounted
<1> QED
  BY <1>4, <1>6, <1>8, <1>9 DEF FlowInv, Phases, Awake

\* No mailbox is free: one frame goes, and is counted.
LEMMA FlowEvict ==
    ASSUME FlowInv, Evict
    PROVE  FlowInv'
<1>1. TypeOK /\ Phases /\ EveryFrameAccounted /\ Awake
  BY DEF FlowInv
<1>2. pc = "evict" /\ incoming # <<>> /\ Len(queue) = Capacity
  BY <1>1 DEF Evict, Phases
<1>3. Len(incoming) = 1 /\ incoming[1] \in Frame
  BY <1>1, <1>2, InHand
<1>4. queue' \in Seq(Frame) /\ Len(queue') = Len(queue)
  <2>1. CASE Evictable(queue, incoming[1]) = {}
    BY <1>1, <2>1, Lengths DEF Evict
  <2>2. CASE Evictable(queue, incoming[1]) # {}
    <3> DEFINE v == Victim(queue, incoming[1])
    <3>1. v \in 1..Len(queue)
      BY <1>1, <1>3, <2>2, Lengths, VictimIsLast DEF Evictable
    <3>2. RemoveAt(queue, v) \in Seq(Frame) /\ Len(RemoveAt(queue, v)) = Len(queue) - 1
      BY <1>1, <3>1, Lengths, Removed
    <3>3. queue' = Append(RemoveAt(queue, v), incoming[1])
      BY <2>2 DEF Evict
    <3> HIDE DEF v
    <3>4. queue' \in Seq(Frame) /\ Len(queue') = Len(RemoveAt(queue, v)) + 1
      BY <1>3, <3>2, <3>3, Appended
    <3> QED
      BY <1>1, <3>2, <3>4, Lengths
  <2> QED
    BY <2>1, <2>2
<1>5. /\ boxes' = boxes /\ completed' = completed /\ sent' = sent /\ sends' = sends
      /\ given' = given /\ dropped' = Saturating(dropped) /\ pc' = "idle" /\ incoming' = <<>>
  BY DEF Evict, hardware, Idle
<1>6. incoming' \in Seq(Frame) /\ Len(incoming') = 0
  BY <1>5, EmptySeq
<1>7. /\ dropped' \in 0..MaxDropped
      /\ \/ dropped # MaxDropped /\ dropped' = dropped + 1
         \/ dropped = MaxDropped /\ dropped' = dropped
  BY <1>1, <1>5, Lengths, Parameters DEF Saturating, TypeOK
<1>8. Len(queue') <= Capacity
  BY <1>2, <1>4, Parameters
<1>9. TypeOK'
  BY <1>1, <1>4, <1>5, <1>6, <1>7, <1>8 DEF TypeOK
<1>10. EveryFrameAccounted'
  <2>1. LET held == sent + Len(boxes) + Len(queue) + 1
        IN  sends = held + dropped \/ (dropped = MaxDropped /\ sends > held + dropped)
    BY <1>1, <1>3 DEF EveryFrameAccounted
  <2>2. Len(boxes) \in Nat /\ Len(queue) \in Nat /\ sent \in Nat /\ dropped \in Nat
    BY <1>1, Lengths
  <2>3. LET held == sent' + Len(boxes') + Len(queue') + 0
        IN  sends' = held + dropped' \/ (dropped' = MaxDropped /\ sends' > held + dropped')
    <3>1. /\ sent' = sent /\ Len(boxes') = Len(boxes) /\ Len(queue') = Len(queue)
          /\ sends' = sends
      BY <1>4, <1>5
    <3>2. CASE dropped # MaxDropped /\ dropped' = dropped + 1
      BY <2>1, <2>2, <3>1, <3>2
    <3>3. CASE dropped = MaxDropped /\ dropped' = dropped
      BY <2>1, <2>2, <3>1, <3>3, <1>1, Lengths
    <3> QED
      BY <1>7, <3>2, <3>3
  <2> QED
    BY <1>6, <2>3 DEF EveryFrameAccounted
<1>11. queue # <<>>
  BY <1>1, <1>2, Lengths, Parameters
<1> QED
  BY <1>1, <1>2, <1>5, <1>9, <1>10, <1>11 DEF FlowInv, Phases, Awake

\* The other steps are those of a drain.
LEMMA FlowDrains ==
    ASSUME FlowInv, Drain \/ DrainOne \/ IsrDrain
    PROVE  FlowInv'
<1>1. TypeOK /\ Phases
  BY DEF FlowInv
<1>2. CASE Drain
  BY <1>1, <1>2, FlowDrained, FlowDrainEnds DEF Drain, Idle, Phases
<1>3. CASE IsrDrain
  BY <1>1, <1>3, FlowDrained, FlowDrainEnds DEF IsrDrain, Phases
<1>4. CASE DrainOne
  BY <1>1, <1>4, FlowDrained DEF DrainOne, Phases
<1> QED
  BY <1>2, <1>3, <1>4

\* FlowInv is inductive.
LEMMA FlowStep ==
    ASSUME FlowInv, [Next]_vars
    PROVE  FlowInv'
<1>1. CASE Complete
  BY <1>1, FlowComplete
<1>2. CASE \E p \in Priorities : Enter(p)
  BY <1>2, FlowEnter
<1>3. CASE Push
  BY <1>3, FlowPush
<1>4. CASE Drain \/ DrainOne \/ IsrDrain
  BY <1>4, FlowDrains
<1>5. CASE Decide
  BY <1>5, FlowDecide
<1>6. CASE Direct
  BY <1>6, FlowDirect
<1>7. CASE Evict
  BY <1>7, FlowEvict
<1>8. CASE IsrEnter
  <2>1. completed' \in BOOLEAN
    BY <1>8 DEF IsrEnter
  <2> QED
    BY <1>8, <2>1 DEF IsrEnter, FlowInv, TypeOK, Phases, EveryFrameAccounted, Awake, Available
<1>9. CASE UNCHANGED vars
  BY <1>9 DEF vars, hardware, FlowInv, TypeOK, Phases, EveryFrameAccounted, Awake, Available
<1> QED
  BY <1>1, <1>2, <1>3, <1>4, <1>5, <1>6, <1>7, <1>8, <1>9 DEF Next, Software

\* FlowInv always holds.
THEOREM FlowAlways == Spec => []FlowInv
<1>1. Init => FlowInv
  BY FlowInit
<1>2. FlowInv /\ [Next]_vars => FlowInv'
  BY FlowStep
<1> QED
  BY <1>1, <1>2, PTL DEF Spec

\* The transmit path is type correct: neither the queue nor the mailboxes ever
\* hold more than they can.
THEOREM TxTyped == Spec => []TypeOK
<1>1. FlowInv => TypeOK
  BY DEF FlowInv
<1> QED
  BY <1>1, FlowAlways, PTL

\* Every frame offered is always sent, waiting, in hand or counted as dropped,
\* however the mailboxes complete between the tests and the steps they decide.
THEOREM EveryFrameAlwaysAccounted == Spec => []EveryFrameAccounted
<1>1. FlowInv => EveryFrameAccounted
  BY DEF FlowInv
<1> QED
  BY <1>1, FlowAlways, PTL

\* No frame ever waits in the queue with neither a busy mailbox nor a pending
\* completion to bring the interrupt that sends it.
THEOREM NoFrameEverStranded == Spec => []NoFrameStranded
<1>1. FlowInv => NoFrameStranded
  BY DEF FlowInv, Awake, NoFrameStranded
<1> QED
  BY <1>1, FlowAlways, PTL

-----------------------------------------------------------------------------
(* The order of the frames                                                  *)

\* The frames of a sequence are in the order of their calls.
Ascending(q) == \A i, j \in 1..Len(q) : i < j => q[i].id < q[j].id

\* Frames wait in the order of their calls, every one younger than the last of
\* its priority put into a mailbox and older than the one in hand.
InOrder ==
    /\ Ascending(queue)
    /\ \A i \in 1..Len(queue) :
         /\ given[queue[i].prio] < queue[i].id
         /\ queue[i].id <= sends
         /\ incoming # <<>> => queue[i].id < sends

\* The frame in hand is that of the last call, and no mailbox has been requested
\* for it yet.
InHandIsLast ==
    /\ incoming # <<>> => incoming[1].id = sends /\ given[incoming[1].prio] < sends
    /\ \A p \in Priorities : given[p] <= sends

\* What can_bus_send() has decided about a full queue.
Decided ==
    /\ pc = "direct" => \A i \in 1..Len(queue) : incoming[1].prio < queue[i].prio
    /\ pc = "drain_one" => queue[Highest(queue)].prio <= incoming[1].prio

OrderInv == InOrder /\ InHandIsLast /\ Decided

\* Where the entries of a queue without its i-th come from.
LEMMA Kept ==
    ASSUME NEW q \in Seq(Frame), NEW i \in 1..Len(q)
    PROVE  /\ \A j \in 1..Len(RemoveAt(q, i)) :
                \E k \in 1..Len(q) \ {i} : /\ k = (IF j < i THEN j ELSE j + 1)
                                           /\ RemoveAt(q, i)[j] = q[k]
           /\ \A k \in 1..Len(q) \ {i} : \E j \in 1..Len(RemoveAt(q, i)) : RemoveAt(q, i)[j] = q[k]
<1>1. Len(q) \in Nat
  BY QueueFacts
<1>2. /\ Len(RemoveAt(q, i)) = Len(q) - 1
      /\ \A j \in 1..Len(q) - 1 : RemoveAt(q, i)[j] = IF j < i THEN q[j] ELSE q[j + 1]
  BY Removed
<1>3. ASSUME NEW j \in 1..Len(q) - 1
      PROVE  \E k \in 1..Len(q) \ {i} : /\ k = (IF j < i THEN j ELSE j + 1)
                                        /\ RemoveAt(q, i)[j] = q[k]
  <2>1. CASE j < i
    <3>1. j \in 1..Len(q) \ {i}
      BY <1>1, <2>1
    <3> QED
      BY <1>2, <2>1, <3>1
  <2>2. CASE ~(j < i)
    <3>1. j + 1 \in 1..Len(q) \ {i}
      BY <1>1, <2>2
    <3> QED
      BY <1>2, <2>2, <3>1
  <2> QED
    BY <2>1, <2>2
<1>4. ASSUME NEW k \in 1..Len(q) \ {i}
      PROVE  \E j \in 1..Len(q) - 1 : RemoveAt(q, i)[j] = q[k]
  <2>1. CASE k < i
    <3>1. k \in 1..Len(q) - 1
      BY <1>1, <2>1
    <3> QED
      BY <1>2, <2>1, <3>1
  <2>2. CASE ~(k < i)
    <3>1. k - 1 \in 1..Len(q) - 1 /\ ~(k - 1 < i) /\ (k - 1) + 1 = k
      BY <1>1, <2>2
    <3> QED
      BY <1>2, <3>1
  <2> QED
    BY <2>1, <2>2
<1> QED
  BY <1>2, <1>3, <1>4

\* A removal keeps the order.
LEMMA AscendingRemoved ==
    ASSUME NEW q \in Seq(Frame), NEW h \in 1..Len(q), Ascending(q)
    PROVE  Ascending(RemoveAt(q, h))
<1>1. \A j \in 1..Len(RemoveAt(q, h)) :
        \E k \in 1..Len(q) \ {h} : k = (IF j < h THEN j ELSE j + 1) /\ RemoveAt(q, h)[j] = q[k]
  BY Kept
<1>2. ASSUME NEW i \in 1..Len(RemoveAt(q, h)), NEW j \in 1..Len(RemoveAt(q, h)), i < j
      PROVE  RemoveAt(q, h)[i].id < RemoveAt(q, h)[j].id
  <2>1. PICK k \in 1..Len(q) : k = (IF i < h THEN i ELSE i + 1) /\ RemoveAt(q, h)[i] = q[k]
    BY <1>1
  <2>2. PICK l \in 1..Len(q) : l = (IF j < h THEN j ELSE j + 1) /\ RemoveAt(q, h)[j] = q[l]
    BY <1>1
  <2>3. k < l
    <3>1. i \in Int /\ j \in Int /\ h \in Int
      OBVIOUS
    <3> QED
      BY <1>2, <2>1, <2>2, <3>1
  <2> QED
    BY <2>1, <2>2, <2>3 DEF Ascending
<1> QED
  BY <1>2 DEF Ascending

\* So does the arrival of a younger frame.
LEMMA AscendingAppended ==
    ASSUME NEW q \in Seq(Frame), NEW f \in Frame, Ascending(q),
           \A i \in 1..Len(q) : q[i].id < f.id
    PROVE  Ascending(Append(q, f))
<1>1. /\ Len(q) \in Nat /\ Len(Append(q, f)) = Len(q) + 1 /\ Append(q, f)[Len(q) + 1] = f
      /\ \A i \in 1..Len(q) : Append(q, f)[i] = q[i]
  BY QueueFacts, Appended
<1>2. ASSUME NEW i \in 1..Len(q) + 1, NEW j \in 1..Len(q) + 1, i < j
      PROVE  Append(q, f)[i].id < Append(q, f)[j].id
  <2>1. i \in 1..Len(q) /\ (j \in 1..Len(q) \/ j = Len(q) + 1)
    BY <1>1, <1>2
  <2> QED
    BY <1>1, <1>2, <2>1 DEF Ascending
<1> QED
  BY <1>1, <1>2 DEF Ascending

\* What the invariant says of two entries and their numbers.
LEMMA EntryFacts ==
    ASSUME TypeOK, OrderInv
    PROVE  /\ \A k \in 1..Len(queue) :
                /\ queue[k] \in Frame /\ queue[k].id \in Nat /\ queue[k].prio \in Priorities
                /\ queue[k].id <= sends /\ given[queue[k].prio] < queue[k].id
                /\ incoming # <<>> => queue[k].id < sends
           /\ \A p \in Priorities : given[p] \in Nat /\ given[p] <= sends
           /\ incoming # <<>> => /\ incoming[1] \in Frame /\ incoming[1].prio \in Priorities
                                 /\ incoming[1].id = sends
           /\ Priorities \subseteq Nat
<1>1. /\ \A k \in 1..Len(queue) : queue[k] \in Frame /\ queue[k].id \in Nat
      /\ Priorities \subseteq Nat
  BY Lengths, QueueFacts, TxAssumption
<1>2. \A f \in Frame : f.prio \in Priorities
  BY DEF Frame
<1>3. \A p \in Priorities : given[p] \in Nat
  BY Parameters DEF TypeOK
<1>4. incoming # <<>> => incoming[1] \in Frame
  BY InHand
<1> QED
  BY <1>1, <1>2, <1>3, <1>4 DEF OrderInv, InOrder, InHandIsLast

\* The highest frame leaves the queue in order.
LEMMA OrderDrained ==
    ASSUME TypeOK, OrderInv, TransmitHighest, incoming' = incoming, sends' = sends,
           pc' \notin {"direct", "drain_one"}
    PROVE  OrderInv'
<1> DEFINE h == Highest(queue)
           f == queue[h]
<1>1. /\ queue # <<>> /\ queue' = RemoveAt(queue, h)
      /\ given' = [given EXCEPT ![f.prio] = f.id]
  BY DEF TransmitHighest, Transmit
<1>2. /\ h \in 1..Len(queue)
      /\ \A j \in 1..Len(queue) : f.prio < queue[j].prio \/ (f.prio = queue[j].prio /\ h <= j)
  BY <1>1, Lengths, HighestIsFirst
<1> HIDE DEF h
<1>3. \A j \in 1..Len(queue') :
        \E k \in 1..Len(queue) \ {h} : k = (IF j < h THEN j ELSE j + 1) /\ queue'[j] = queue[k]
  <2>1. \A j \in 1..Len(RemoveAt(queue, h)) :
          \E k \in 1..Len(queue) \ {h} : /\ k = (IF j < h THEN j ELSE j + 1)
                                         /\ RemoveAt(queue, h)[j] = queue[k]
    <3>1. queue \in Seq(Frame) /\ h \in 1..Len(queue)
      BY <1>2, Lengths
    <3> HIDE DEF f
    <3> QED
      BY <3>1, Kept
  <2> HIDE DEF f
  <2> QED
    BY <1>1, <2>1
<1>4. \A p \in Priorities : given'[p] = IF p = f.prio THEN f.id ELSE given[p]
  <2>1. f.prio \in Priorities
    BY <1>2, EntryFacts
  <2> QED
    BY <1>1, <2>1 DEF TypeOK
<1>5. /\ f.id \in Nat /\ f.prio \in Nat /\ f.id <= sends
      /\ incoming # <<>> => f.id < sends
  BY <1>2, EntryFacts
<1> HIDE DEF f
<1>6. Ascending(queue')
  BY <1>1, <1>2, Lengths, AscendingRemoved DEF OrderInv, InOrder
<1>7. ASSUME NEW i \in 1..Len(queue')
      PROVE  /\ given'[queue'[i].prio] < queue'[i].id
             /\ queue'[i].id <= sends /\ (incoming # <<>> => queue'[i].id < sends)
  <2>1. PICK k \in 1..Len(queue) \ {h} : queue'[i] = queue[k]
    BY <1>3
  <2>2. /\ queue[k].prio \in Priorities /\ queue[k].id <= sends
        /\ given[queue[k].prio] < queue[k].id /\ (incoming # <<>> => queue[k].id < sends)
    BY EntryFacts
  <2>3. CASE queue[k].prio = f.prio
    <3>1. h <= k /\ k # h /\ h \in Int /\ k \in Int
      BY <1>2, <1>5, <2>1, <2>2, <2>3, EntryFacts
    <3>2. f.id < queue[k].id
      BY <1>2, <3>1 DEF OrderInv, InOrder, Ascending, f
    <3> QED
      BY <1>4, <2>1, <2>2, <2>3, <3>2
  <2>4. CASE queue[k].prio # f.prio
    BY <1>4, <2>1, <2>2, <2>4
  <2> QED
    BY <2>3, <2>4
<1>8. InOrder'
  BY <1>6, <1>7 DEF InOrder
<1>9. InHandIsLast'
  <2>1. \A p \in Priorities : given'[p] <= sends
    BY <1>4, <1>5, EntryFacts
  <2>2. incoming # <<>> => incoming[1].id = sends /\ given'[incoming[1].prio] < sends
    BY <1>4, <1>5, EntryFacts DEF OrderInv, InHandIsLast
  <2> QED
    BY <2>1, <2>2 DEF InHandIsLast
<1> QED
  BY <1>8, <1>9 DEF OrderInv, Decided

\* A call takes the next number.
LEMMA OrderEnter ==
    ASSUME TypeOK, Phases, OrderInv, NEW p \in Priorities, Enter(p)
    PROVE  OrderInv'
<1> DEFINE f == [id |-> sends + 1, prio |-> p]
<1>1. pc = "idle" /\ incoming = <<>> /\ queue' = queue /\ sends' = sends + 1 /\ sends \in Nat
  BY Lengths DEF Enter, Phases
<1>2. CASE queue = <<>> /\ Available
  <2>1. /\ given' = [given EXCEPT ![p] = sends + 1] /\ pc' = "idle" /\ incoming' = <<>>
    BY <1>1, <1>2 DEF Enter, Transmit
  <2>2. \A r \in Priorities : given'[r] <= sends'
    BY <1>1, <2>1, EntryFacts DEF TypeOK
  <2>3. Len(queue') = 0
    BY <1>1, <1>2, EmptySeq
  <2>4. InOrder'
    BY <2>3 DEF InOrder, Ascending
  <2> QED
    BY <2>1, <2>2, <2>4 DEF OrderInv, InHandIsLast, Decided
<1>3. CASE ~(queue = <<>> /\ Available)
  <2>1. incoming' = <<f>> /\ given' = given /\ pc' \in {"push", "full"}
    BY <1>3 DEF Enter
  <2>2. \A r \in Priorities : given[r] \in Nat /\ given[r] <= sends
    BY EntryFacts
  <2>3. InHandIsLast'
    BY <1>1, <2>1, <2>2 DEF InHandIsLast
  <2>4. \A i \in 1..Len(queue) : /\ queue[i].id \in Nat /\ queue[i].id <= sends
                                 /\ given[queue[i].prio] < queue[i].id
    BY EntryFacts
  <2>5. \A i \in 1..Len(queue) : queue[i].id <= sends + 1 /\ queue[i].id < sends + 1
    BY <1>1, <2>4
  <2>6. InOrder'
    BY <1>1, <2>1, <2>4, <2>5 DEF OrderInv, InOrder
  <2> QED
    BY <2>1, <2>3, <2>6 DEF OrderInv, Decided
<1> QED
  BY <1>2, <1>3

\* Where the frame in hand joins a queue of older frames.
LEMMA OrderJoined ==
    ASSUME TypeOK, OrderInv, incoming # <<>>, NEW q \in Seq(Frame), Ascending(q),
           \A i \in 1..Len(q) : \E k \in 1..Len(queue) : q[i] = queue[k],
           queue' = Append(q, incoming[1]), incoming' = <<>>, pc' \notin {"direct", "drain_one"},
           given' = given, sends' = sends
    PROVE  OrderInv'
<1>1. incoming[1] \in Frame /\ incoming[1].id = sends /\ given[incoming[1].prio] < sends
  BY EntryFacts DEF OrderInv, InHandIsLast
<1>2. \A i \in 1..Len(q) : q[i].id < sends /\ given[q[i].prio] < q[i].id /\ q[i].id <= sends
  BY EntryFacts
<1>3. Ascending(queue')
  BY <1>1, <1>2, AscendingAppended
<1>4. ASSUME NEW i \in 1..Len(queue')
      PROVE  given[queue'[i].prio] < queue'[i].id /\ queue'[i].id <= sends
  <2>1. /\ Len(q) \in Nat /\ Len(queue') = Len(q) + 1 /\ queue'[Len(q) + 1] = incoming[1]
        /\ \A j \in 1..Len(q) : queue'[j] = q[j]
    BY <1>1, QueueFacts, Appended
  <2>2. i \in 1..Len(q) \/ i = Len(q) + 1
    BY <2>1
  <2> QED
    BY <1>1, <1>2, <2>1, <2>2, Lengths
<1>5. InOrder'
  BY <1>3, <1>4 DEF InOrder
<1> QED
  BY <1>5 DEF OrderInv, InHandIsLast, Decided

\* A full queue gives up an older frame for the one in hand, or refuses it.
LEMMA OrderEvict ==
    ASSUME TypeOK, Phases, OrderInv, Evict
    PROVE  OrderInv'
<1>1. /\ pc = "evict" /\ incoming # <<>> /\ pc' = "idle" /\ incoming' = <<>>
      /\ given' = given /\ sends' = sends
  BY DEF Evict, Phases, Idle
<1>2. CASE Evictable(queue, incoming[1]) = {}
  <2>1. queue' = queue
    BY <1>2 DEF Evict
  <2> QED
    BY <1>1, <2>1 DEF OrderInv, InOrder, InHandIsLast, Decided
<1>3. CASE Evictable(queue, incoming[1]) # {}
  <2> DEFINE v == Victim(queue, incoming[1])
             q == RemoveAt(queue, v)
  <2>1. v \in 1..Len(queue) /\ incoming[1] \in Frame /\ queue \in Seq(Frame)
    BY <1>1, <1>3, Lengths, EntryFacts, VictimIsLast DEF Evictable
  <2>2. queue' = Append(q, incoming[1])
    BY <1>3 DEF Evict
  <2> HIDE DEF v
  <2>3. q \in Seq(Frame) /\ Ascending(q)
    BY <2>1, Removed, AscendingRemoved DEF OrderInv, InOrder
  <2>4. \A i \in 1..Len(q) : \E k \in 1..Len(queue) : q[i] = queue[k]
    BY <2>1, Kept
  <2> HIDE DEF q
  <2> QED
    BY <1>1, <2>2, <2>3, <2>4, OrderJoined
<1> QED
  BY <1>2, <1>3

\* A frame past the queue is better than any in it.
LEMMA OrderDirect ==
    ASSUME TypeOK, Phases, OrderInv, Direct
    PROVE  OrderInv'
<1> DEFINE f == incoming[1]
<1>1. /\ pc = "direct" /\ incoming # <<>> /\ pc' = "idle" /\ incoming' = <<>>
      /\ queue' = queue /\ sends' = sends /\ given' = [given EXCEPT ![f.prio] = f.id]
  BY DEF Direct, Phases, Idle, Transmit
<1>2. f.prio \in Priorities /\ f.id = sends /\ f.prio \in Nat
  BY <1>1, EntryFacts
<1> HIDE DEF f
<1>3. \A p \in Priorities : given'[p] = IF p = f.prio THEN sends ELSE given[p]
  BY <1>1, <1>2 DEF TypeOK
<1>4. ASSUME NEW i \in 1..Len(queue)
      PROVE  given'[queue[i].prio] < queue[i].id
  <2>1. f.prio < queue[i].prio
    BY <1>1 DEF OrderInv, Decided, f
  <2>2. queue[i].prio \in Priorities /\ given[queue[i].prio] < queue[i].id
    BY EntryFacts
  <2> QED
    BY <1>2, <1>3, <2>1, <2>2
<1>5. InOrder'
  BY <1>1, <1>4 DEF OrderInv, InOrder
<1>6. \A p \in Priorities : given'[p] <= sends'
  BY <1>1, <1>3, EntryFacts, Lengths
<1> QED
  BY <1>1, <1>5, <1>6 DEF OrderInv, InHandIsLast, Decided

\* The decision about a full queue is right.
LEMMA OrderDecide ==
    ASSUME TypeOK, Phases, OrderInv, Decide
    PROVE  OrderInv'
<1>1. /\ queue' = queue /\ incoming' = incoming /\ given' = given /\ sends' = sends
      /\ pc = "full" /\ incoming # <<>> /\ Len(queue) = Capacity
      /\ pc' = "direct" => incoming[1].prio < queue[Highest(queue)].prio
      /\ pc' = "drain_one" => ~(incoming[1].prio < queue[Highest(queue)].prio)
  BY DEF Decide, hardware, Phases
<1>2. queue \in Seq(Frame) /\ queue # <<>>
  BY <1>1, Lengths, Parameters
<1>3. /\ Highest(queue) \in 1..Len(queue)
      /\ \A j \in 1..Len(queue) : queue[Highest(queue)].prio <= queue[j].prio
  <2>1. \A j \in 1..Len(queue) : queue[j].prio \in Nat
    BY <1>2, QueueFacts
  <2> QED
    BY <1>2, <2>1, HighestIsFirst
<1>4. \A j \in 1..Len(queue) : queue[j].prio \in Nat
  BY <1>2, QueueFacts
<1>5. incoming[1].prio \in Nat
  BY <1>1, EntryFacts
<1>6. queue[Highest(queue)].prio \in Nat
  BY <1>3, <1>4
<1> HIDE DEF Highest
<1>7. Decided'
  <2>1. ASSUME pc' = "direct", NEW i \in 1..Len(queue) PROVE incoming[1].prio < queue[i].prio
    BY <1>1, <1>3, <1>4, <1>5, <1>6, <2>1
  <2>2. pc' = "drain_one" => queue[Highest(queue)].prio <= incoming[1].prio
    BY <1>1, <1>5, <1>6
  <2> QED
    BY <1>1, <2>1, <2>2 DEF Decided
<1> QED
  BY <1>1, <1>7 DEF OrderInv, InOrder, InHandIsLast

\* OrderInv is inductive given FlowInv.
LEMMA OrderStep ==
    ASSUME FlowInv, OrderInv, [Next]_vars
    PROVE  OrderInv'
<1>1. TypeOK /\ Phases
  BY DEF FlowInv
<1>2. CASE Complete \/ IsrEnter \/ UNCHANGED vars
  <2>1. /\ queue' = queue /\ incoming' = incoming /\ given' = given /\ sends' = sends
        /\ pc' = pc \/ pc' = "isr"
    BY <1>2 DEF Complete, IsrEnter, vars, hardware
  <2> QED
    BY <2>1 DEF OrderInv, InOrder, InHandIsLast, Decided
<1>3. CASE \E p \in Priorities : Enter(p)
  BY <1>1, <1>3, OrderEnter
<1>4. CASE Push
  <2>1. /\ pc = "push" /\ incoming # <<>> /\ pc' = "drain" /\ incoming' = <<>>
        /\ given' = given /\ sends' = sends /\ queue' = Append(queue, incoming[1])
    BY <1>1, <1>4 DEF Push, Phases
  <2>2. queue \in Seq(Frame) /\ Ascending(queue)
    BY <1>1, Lengths DEF OrderInv, InOrder
  <2> QED
    BY <1>1, <2>1, <2>2, OrderJoined
<1>5. CASE Drain \/ IsrDrain \/ DrainOne
  <2>1. CASE TransmitHighest
    <3>1. incoming' = incoming /\ sends' = sends /\ pc' \notin {"direct", "drain_one"}
      BY <1>1, <1>5, <2>1 DEF Drain, IsrDrain, DrainOne, Phases, Idle
    <3> QED
      BY <1>1, <2>1, <3>1, OrderDrained
  <2>2. CASE ~TransmitHighest
    <3>1. /\ queue' = queue /\ incoming' = incoming /\ given' = given /\ sends' = sends
          /\ pc' = "idle"
      BY <1>1, <1>5, <2>2 DEF Drain, IsrDrain, DrainOne, Phases, Idle
    <3> QED
      BY <3>1 DEF OrderInv, InOrder, InHandIsLast, Decided
  <2> QED
    BY <2>1, <2>2
<1>6. CASE Decide
  BY <1>1, <1>6, OrderDecide
<1>7. CASE Direct
  BY <1>1, <1>7, OrderDirect
<1>8. CASE Evict
  BY <1>1, <1>8, OrderEvict
<1> QED
  BY <1>2, <1>3, <1>4, <1>5, <1>6, <1>7, <1>8 DEF Next, Software

\* OrderInv always holds.
THEOREM OrderAlways == Spec => []OrderInv
<1>1. ASSUME Init PROVE OrderInv
  <2>1. Len(queue) = 0 /\ incoming = <<>> /\ pc = "idle"
    BY <1>1, EmptySeq DEF Init
  <2>2. \A p \in Priorities : given[p] <= sends
    BY <1>1 DEF Init
  <2> QED
    BY <2>1, <2>2 DEF OrderInv, InOrder, Ascending, InHandIsLast, Decided
<1>2. FlowInv /\ OrderInv /\ [Next]_vars => OrderInv'
  BY OrderStep
<1> QED
  BY <1>1, <1>2, FlowAlways, PTL DEF Spec

-----------------------------------------------------------------------------
(* What goes first, and what goes                                           *)

\* Those waiting: the queue and the frame in hand.
LEMMA Waiting ==
    ASSUME TypeOK, NEW w \in Range(queue \o incoming)
    PROVE  (\E j \in 1..Len(queue) : w = queue[j]) \/ (incoming # <<>> /\ w = incoming[1])
<1>1. queue \in Seq(Frame) /\ incoming \in Seq(Frame)
  BY Lengths
<1>2. w \in Range(queue) \/ w \in Range(incoming)
  BY <1>1, RangeConcatenation
<1>3. CASE w \in Range(queue)
  BY <1>1, <1>3, RangeEquality
<1>4. CASE w \in Range(incoming)
  <2>1. PICK i \in 1..Len(incoming) : w = incoming[i]
    BY <1>1, <1>4, RangeEquality
  <2>2. incoming # <<>>
    BY <1>1, <2>1, EmptySeq
  <2>3. Len(incoming) = 1
    BY <2>2, InHand
  <2> QED
    BY <2>1, <2>2, <2>3
<1> QED
  BY <1>2, <1>3, <1>4

\* A step that requests a mailbox for a frame goes through can_bus_try_transmit_frame().
LEMMA OneRequest ==
    ASSUME TypeOK, NEW f \in Frame, NEW g \in Frame, Transmit(g), boxes' = Append(boxes, f)
    PROVE  f = g
<1>1. boxes \in Seq(Frame) /\ boxes' = Append(boxes, g)
  BY Lengths DEF Transmit
<1>2. boxes'[Len(boxes) + 1] = f
  BY <1>1, Appended
<1>3. boxes'[Len(boxes) + 1] = g
  BY <1>1, Appended
<1> QED
  BY <1>2, <1>3

\* The highest queued frame goes before any other and any frame in hand it was
\* preferred to.
LEMMA HighestGoesFirst ==
    ASSUME TypeOK, OrderInv, TransmitHighest, NEW f \in Frame, boxes' = Append(boxes, f),
           incoming # <<>> => queue[Highest(queue)].prio <= incoming[1].prio
    PROVE  /\ f.id > given[f.prio]
           /\ \A w \in Range(queue \o incoming) \ {f} :
                f.prio < w.prio \/ (f.prio = w.prio /\ f.id < w.id)
<1> DEFINE h == Highest(queue)
<1>1. /\ h \in 1..Len(queue)
      /\ \A j \in 1..Len(queue) :
           queue[h].prio < queue[j].prio \/ (queue[h].prio = queue[j].prio /\ h <= j)
  BY Lengths, HighestIsFirst DEF TransmitHighest
<1>2. f = queue[h]
  <2>1. queue[h] \in Frame
    BY <1>1, Lengths, ElementOfSeq
  <2>2. Transmit(queue[h])
    BY DEF TransmitHighest
  <2> HIDE DEF h
  <2> QED
    BY <2>1, <2>2, OneRequest
<1>3. incoming # <<>> => f.prio <= incoming[1].prio
  BY <1>2
<1> HIDE DEF h
<1>4. /\ f.id \in Nat /\ f.prio \in Nat /\ given[f.prio] \in Nat /\ given[f.prio] < f.id
      /\ incoming # <<>> => f.id < sends
  BY <1>1, <1>2, EntryFacts
<1>5. ASSUME NEW w \in Range(queue \o incoming) \ {f}
      PROVE  f.prio < w.prio \/ (f.prio = w.prio /\ f.id < w.id)
  <2>1. CASE \E j \in 1..Len(queue) : w = queue[j]
    <3>1. PICK j \in 1..Len(queue) : w = queue[j]
      BY <2>1
    <3>2. j # h /\ j \in Int /\ h \in Int
      BY <1>1, <1>2, <3>1
    <3>3. h < j => f.id < w.id
      BY <1>1, <1>2, <3>1 DEF OrderInv, InOrder, Ascending
    <3> QED
      BY <1>1, <1>2, <3>1, <3>2, <3>3
  <2>2. CASE incoming # <<>> /\ w = incoming[1]
    <3>1. w.id = sends /\ w.prio \in Nat
      BY <2>2, EntryFacts
    <3> QED
      BY <1>3, <1>4, <2>2, <3>1
  <2> QED
    BY <2>1, <2>2, Waiting
<1> QED
  BY <1>4, <1>5

\* A mailbox is never requested for a frame while an older one of its priority
\* or any one of a higher priority waits.
THEOREM AlwaysPriorityThenFifo == Spec => PriorityThenFifo
<1> DEFINE First(f) ==
      boxes' = Append(boxes, f) =>
         /\ f.id > given[f.prio]
         /\ \A w \in Range(queue \o incoming) \ {f} :
              f.prio < w.prio \/ (f.prio = w.prio /\ f.id < w.id)
<1>1. ASSUME FlowInv, OrderInv, Next, NEW f \in Frame, boxes' = Append(boxes, f)
      PROVE  First(f)
  <2>1. TypeOK /\ Phases /\ boxes \in Seq(Frame) /\ Len(boxes) \in Nat
        /\ Len(boxes') = Len(boxes) + 1
    BY <1>1, Lengths, Appended DEF FlowInv
  <2>2. ~Complete
    <3>1. Complete => Len(boxes') = Len(boxes) - 1
      BY <2>1, HeadTailProperties DEF Complete
    <3> QED
      BY <2>1, <3>1
  <2>3. boxes' # boxes
    BY <2>1
  <2>4. CASE TransmitHighest
    <3>1. incoming # <<>> => queue[Highest(queue)].prio <= incoming[1].prio
      <4>1. Drain \/ IsrDrain \/ DrainOne
        <5>1. queue' # queue /\ queue # <<>>
          BY <2>1, <2>4, HighestStep, Lengths
        <5> QED
          BY <1>1, <2>2, <2>3, <5>1
             DEF Next, Software, Push, Decide, Direct, Evict, IsrEnter, Enter, hardware
      <4> QED
        BY <1>1, <2>1, <4>1 DEF Drain, IsrDrain, DrainOne, Phases, OrderInv, Decided
    <3> QED
      BY <1>1, <2>1, <2>4, <3>1, HighestGoesFirst
  <2>5. CASE \E p \in Priorities : Enter(p)
    <3>1. PICK p \in Priorities : Enter(p)
      BY <2>5
    <3> DEFINE g == [id |-> sends + 1, prio |-> p]
    <3>2. /\ incoming = <<>> /\ queue = <<>> /\ Transmit(g) /\ sends \in Nat
          /\ sends + 1 <= MaxSends
      BY <2>1, <2>3, <3>1, Lengths, Parameters DEF Enter, Phases
    <3>3. g \in Frame
      BY <3>2, Parameters DEF Frame
    <3>4. f = g
      <4> HIDE DEF g
      <4> QED
        BY <1>1, <2>1, <3>2, <3>3, OneRequest
    <3>5. f.id = sends + 1 /\ given[f.prio] \in Nat /\ given[f.prio] <= sends
      BY <1>1, <2>1, <3>4, EntryFacts
    <3>6. Range(queue \o incoming) = {}
      <4>1. Len(queue) = 0
        BY <3>2, EmptySeq
      <4> QED
        BY <2>1, <3>2, <4>1, Waiting
    <3> QED
      BY <3>2, <3>5, <3>6
  <2>6. CASE Direct
    <3>1. incoming # <<>> /\ Transmit(incoming[1])
      BY <2>1, <2>6 DEF Direct, Phases
    <3>2. f = incoming[1]
      BY <1>1, <2>1, <3>1, InHand, OneRequest
    <3>3. f.id = sends /\ f.prio \in Priorities /\ given[f.prio] < f.id
      BY <1>1, <2>1, <3>1, <3>2, EntryFacts DEF OrderInv, InHandIsLast
    <3>4. \A j \in 1..Len(queue) : f.prio < queue[j].prio
      BY <1>1, <2>6, <3>2 DEF Direct, OrderInv, Decided
    <3>5. \A w \in Range(queue \o incoming) \ {f} : f.prio < w.prio
      BY <2>1, <3>2, <3>4, Waiting
    <3>6. given[f.prio] \in Nat /\ sends \in Nat
      BY <1>1, <2>1, <3>3, EntryFacts, Lengths
    <3> QED
      BY <3>3, <3>5, <3>6
  <2> QED
    BY <1>1, <2>2, <2>3, <2>4, <2>5, <2>6
       DEF Next, Software, Push, Drain, Decide, DrainOne, Evict, IsrEnter, IsrDrain, hardware
<1>2. ASSUME FlowInv, OrderInv, [Next]_vars
      PROVE  [\A f \in Frame : First(f)]_vars
  BY <1>1, <1>2
<1> QED
  BY <1>2, FlowAlways, OrderAlways, PTL DEF Spec, PriorityThenFifo

\* An eviction loses one frame, and it is the newest of the lowest priority among
\* those waiting.
LEMMA OneIsLost ==
    ASSUME TypeOK, Phases, OrderInv, Evict
    PROVE  LET pool == Range(queue \o incoming)
               lost == pool \ Range(queue' \o incoming')
           IN  \E f \in lost : /\ lost = {f}
                               /\ \A w \in pool \ {f} :
                                    w.prio < f.prio \/ (w.prio = f.prio /\ w.id < f.id)
<1> DEFINE pool == Range(queue \o incoming)
           left == Range(queue' \o incoming')
           in == incoming[1]
           E == Evictable(queue, in)
           v == Victim(queue, in)
<1>1. /\ incoming # <<>> /\ incoming' = <<>> /\ Len(incoming) = 1
      /\ in \in Frame /\ in.id = sends /\ in.prio \in Nat /\ sends \in Nat
  <2>1. incoming # <<>> /\ incoming' = <<>>
    BY DEF Evict, Phases, Idle
  <2>2. /\ Len(incoming) = 1 /\ in \in Frame /\ in.id = sends
        /\ in.prio \in Priorities /\ Priorities \subseteq Nat
    BY <2>1, InHand, EntryFacts
  <2> QED
    BY <2>1, <2>2, Lengths
<1>2. queue \in Seq(Frame) /\ incoming \in Seq(Frame)
  BY Lengths
<1>3. /\ \A j \in 1..Len(queue) : /\ queue[j] \in pool /\ queue[j].id < sends
                                  /\ queue[j].id \in Nat /\ queue[j].prio \in Nat
      /\ in \in pool
  <2>1. pool = Range(queue) \cup Range(incoming)
    BY <1>2, RangeConcatenation
  <2>2. \A j \in 1..Len(queue) : queue[j] \in pool
    BY <1>2, <2>1, RangeEquality
  <2>3. in \in pool
    BY <1>1, <1>2, <2>1, RangeEquality
  <2> QED
    BY <1>1, <2>2, <2>3, EntryFacts
<1>4. \A w \in pool : (\E j \in 1..Len(queue) : w = queue[j]) \/ w = in
  BY Waiting
<1>5. ASSUME NEW f \in pool, left = pool \ {f},
             \A w \in pool \ {f} : w.prio < f.prio \/ (w.prio = f.prio /\ w.id < f.id)
      PROVE  \E g \in pool \ left : /\ pool \ left = {g}
                                    /\ \A w \in pool \ {g} :
                                         w.prio < g.prio \/ (w.prio = g.prio /\ w.id < g.id)
  <2> HIDE DEF pool, left
  <2>1. pool \ left = {f}
    BY <1>5
  <2> QED
    BY <1>5, <2>1
<1>6. ASSUME queue' \in Seq(Frame)
      PROVE  left = {queue'[j] : j \in 1..Len(queue')}
  <2>1. queue' \o <<>> = queue'
    BY <1>6, ConcatEmptySeq
  <2> QED
    BY <1>1, <1>6, <2>1, RangeEquality
<1>7. CASE E = {}
  <2>1. queue' = queue
    BY <1>7 DEF Evict
  <2>2. left = {queue[j] : j \in 1..Len(queue)}
    BY <1>2, <1>6, <2>1
  <2>3. \A j \in 1..Len(queue) : queue[j].prio <= in.prio
    BY <1>1, <1>3, <1>7 DEF Evictable
  <2> HIDE DEF pool, left, in, E
  <2>4. left = pool \ {in}
    <3>1. \A j \in 1..Len(queue) : queue[j] # in
      BY <1>1, <1>3
    <3> QED
      BY <1>3, <1>4, <2>2, <3>1
  <2>5. \A w \in pool \ {in} : w.prio < in.prio \/ (w.prio = in.prio /\ w.id < in.id)
    BY <1>1, <1>3, <1>4, <2>3
  <2> QED
    BY <1>3, <1>5, <2>4, <2>5 DEF pool, left
<1>8. CASE E # {}
  <2> DEFINE q == RemoveAt(queue, v)
             f == queue[v]
  <2>1. /\ v \in 1..Len(queue) /\ f.prio > in.prio
        /\ \A j \in E : f.prio > queue[j].prio \/ (f.prio = queue[j].prio /\ v >= j)
    BY <1>1, <1>2, <1>8, VictimIsLast DEF Evictable
  <2>2. queue' = Append(q, in)
    BY <1>8 DEF Evict
  <2>3. \A j \in 1..Len(queue) : j \in E \/ queue[j].prio <= in.prio
    BY <1>1, <1>3 DEF Evictable
  <2> HIDE DEF pool, left, in, E, v
  <2>4. q \in Seq(Frame)
    BY <1>2, <2>1, Removed
  <2>5. /\ \A j \in 1..Len(q) : \E k \in 1..Len(queue) \ {v} : q[j] = queue[k]
        /\ \A k \in 1..Len(queue) \ {v} : \E j \in 1..Len(q) : q[j] = queue[k]
    <3>1. queue \in Seq(Frame) /\ v \in 1..Len(queue)
      BY <1>2, <2>1
    <3>2. \A j \in 1..Len(q) :
            \E k \in 1..Len(queue) \ {v} : k = (IF j < v THEN j ELSE j + 1) /\ q[j] = queue[k]
      BY <3>1, Kept
    <3>3. \A k \in 1..Len(queue) \ {v} : \E j \in 1..Len(q) : q[j] = queue[k]
      BY <3>1, Kept
    <3> HIDE DEF q
    <3> QED
      BY <3>2, <3>3
  <2> HIDE DEF q
  <2>6. left = {q[j] : j \in 1..Len(q)} \cup {in}
    <3>1. /\ Len(q) \in Nat /\ queue' \in Seq(Frame) /\ Len(queue') = Len(q) + 1
          /\ queue'[Len(q) + 1] = in /\ \A j \in 1..Len(q) : queue'[j] = q[j]
      BY <1>1, <2>2, <2>4, QueueFacts, Appended
    <3>2. \A j : j \in 1..Len(q) + 1 <=> j \in 1..Len(q) \/ j = Len(q) + 1
      BY <3>1
    <3>3. left = {queue'[j] : j \in 1..Len(q) + 1}
      BY <1>6, <3>1
    <3> QED
      BY <3>1, <3>2, <3>3
  <2>7. \A k \in 1..Len(queue) \ {v} :
          /\ queue[k] # f
          /\ k < v => queue[k].id < f.id
    <3>1. ASSUME NEW k \in 1..Len(queue) \ {v} PROVE queue[k].id # f.id
      <4>1. k < v \/ v < k
        BY <2>1
      <4> QED
        BY <1>3, <2>1, <4>1 DEF OrderInv, InOrder, Ascending
    <3> QED
      BY <2>1, <3>1 DEF OrderInv, InOrder, Ascending
  <2>8. f # in /\ f \in pool
    BY <1>1, <1>3, <2>1
  <2>9. left = pool \ {f}
    <3>1. left \subseteq pool
      BY <1>3, <2>5, <2>6
    <3>2. f \notin left
      BY <2>5, <2>6, <2>7, <2>8
    <3>3. \A w \in pool \ {f} : w \in left
      <4>1. ASSUME NEW w \in pool \ {f}, NEW j \in 1..Len(queue), w = queue[j]
            PROVE  w \in left
        <5>1. j # v
          BY <4>1
        <5> QED
          BY <2>5, <2>6, <4>1, <5>1
      <4> QED
        BY <1>4, <2>6, <4>1
    <3> QED
      BY <3>1, <3>2, <3>3
  <2>10. ASSUME NEW w \in pool \ {f}
         PROVE  w.prio < f.prio \/ (w.prio = f.prio /\ w.id < f.id)
    <3>1. CASE w = in
      BY <1>1, <2>1, <3>1
    <3>2. CASE \E j \in 1..Len(queue) : w = queue[j]
      <4>1. PICK j \in 1..Len(queue) : w = queue[j]
        BY <3>2
      <4>2. j # v /\ j \in Int /\ v \in Int
        BY <2>1, <4>1
      <4>3. w.prio \in Nat /\ f.prio \in Nat
        BY <1>3, <2>1, <4>1
      <4>4. CASE j \in E
        BY <2>1, <2>7, <4>1, <4>2, <4>3, <4>4
      <4>5. CASE j \notin E
        BY <1>1, <2>1, <2>3, <4>1, <4>3, <4>5
      <4> QED
        BY <4>4, <4>5
    <3> QED
      BY <1>4, <3>1, <3>2
  <2> HIDE DEF f
  <2> QED
    BY <1>5, <2>8, <2>9, <2>10 DEF pool, left
<1> QED
  BY <1>7, <1>8

\* A step that requests no mailbox and is not an eviction leaves everybody waiting.
LEMMA NobodyLeaves ==
    ASSUME TypeOK, TypeOK', Phases, Phases', [Next]_vars, boxes' = boxes, ~Evict
    PROVE  Range(queue \o incoming) \subseteq Range(queue' \o incoming')
<1>1. /\ queue \in Seq(Frame) /\ incoming \in Seq(Frame) /\ boxes \in Seq(Frame)
      /\ Len(boxes) \in Nat
  BY Lengths
<1>2. queue' \in Seq(Frame) /\ incoming' \in Seq(Frame)
  BY DEF TypeOK
<1>3. \A w : w \in Range(queue') \/ w \in Range(incoming') => w \in Range(queue' \o incoming')
  BY <1>2, RangeConcatenation
<1>4. ~Complete
  <2>1. Complete => Len(boxes') = Len(boxes) - 1
    BY <1>1, HeadTailProperties DEF Complete
  <2> QED
    BY <1>1, <2>1
<1>5. ~TransmitHighest
  <2>1. TransmitHighest => Len(boxes') = Len(boxes) + 1
    BY HighestStep
  <2> QED
    BY <1>1, <2>1
<1>6. ~Direct
  <2> SUFFICES ASSUME Direct PROVE FALSE
    OBVIOUS
  <2>1. Transmit(incoming[1]) /\ incoming # <<>> /\ Available
    BY DEF Direct, Phases
  <2>2. Len(boxes') = Len(boxes) + 1
    BY <2>1, InHand, TransmitStep
  <2> QED
    BY <1>1, <2>2
<1>7. CASE Push
  <2>1. incoming # <<>> /\ queue' = Append(queue, incoming[1])
    BY <1>7 DEF Push, Phases
  <2>2. Len(incoming) = 1 /\ incoming[1] \in Frame
    BY <2>1, InHand
  <2>3. /\ Len(queue') = Len(queue) + 1 /\ Len(queue) \in Nat
        /\ \A j \in 1..Len(queue) : queue'[j] = queue[j]
        /\ queue'[Len(queue) + 1] = incoming[1]
    BY <1>1, <2>1, <2>2, Appended, LenProperties
  <2>4. /\ \A j \in 1..Len(queue) : queue[j] \in Range(queue')
        /\ incoming[1] \in Range(queue')
    <3>1. \A j \in 1..Len(queue') : queue'[j] \in Range(queue')
      BY <1>2, RangeEquality
    <3>2. \A j \in 1..Len(queue) : j \in 1..Len(queue')
      BY <2>3
    <3>3. Len(queue) + 1 \in 1..Len(queue')
      BY <2>3
    <3> QED
      BY <2>3, <3>1, <3>2, <3>3
  <2> QED
    BY <1>3, <2>4, Waiting
<1>8. CASE queue' = queue /\ (incoming' = incoming \/ incoming = <<>>)
  <2>1. \A j \in 1..Len(queue) : queue[j] \in Range(queue')
    BY <1>1, <1>8, RangeEquality
  <2>2. incoming # <<>> => incoming[1] \in Range(incoming')
    <3> SUFFICES ASSUME incoming # <<>> PROVE incoming[1] \in Range(incoming')
      OBVIOUS
    <3>1. incoming' = incoming /\ 1 \in 1..Len(incoming)
      BY <1>8, InHand
    <3> QED
      BY <1>1, <3>1, RangeEquality
  <2> QED
    BY <1>3, <2>1, <2>2, Waiting
<1>9. CASE ~Push
  <2>1. queue' = queue /\ (incoming' = incoming \/ incoming = <<>>)
    BY <1>4, <1>5, <1>6, <1>9
       DEF Next, Software, Enter, Drain, Decide, DrainOne, IsrEnter, IsrDrain, Phases, vars
  <2> QED
    BY <1>8, <2>1
<1> QED
  BY <1>7, <1>9

\* What a full queue gives up is the newest frame of the lowest priority of all
\* that wait, the offered one included, and nothing else ever leaves without a
\* mailbox.
THEOREM AlwaysNewestLowestIsLost == Spec => NewestLowestIsLost
<1> DEFINE Lost == LET pool == Range(queue \o incoming)
                       lost == pool \ Range(queue' \o incoming')
                   IN  boxes' = boxes /\ lost # {} =>
                         \E f \in lost : /\ lost = {f}
                                         /\ \A w \in pool \ {f} :
                                              w.prio < f.prio \/ (w.prio = f.prio /\ w.id < f.id)
<1>1. ASSUME FlowInv, OrderInv, [Next]_vars
      PROVE  [Lost]_vars
  <2>1. TypeOK /\ Phases /\ TypeOK' /\ Phases'
    BY <1>1, FlowStep DEF FlowInv
  <2>2. CASE Evict
    BY <1>1, <2>1, <2>2, OneIsLost
  <2>3. CASE ~Evict
    <3>1. boxes' = boxes => Range(queue \o incoming) \subseteq Range(queue' \o incoming')
      BY <1>1, <2>1, <2>3, NobodyLeaves
    <3> QED
      BY <3>1
  <2> QED
    BY <2>2, <2>3
<1> QED
  BY <1>1, FlowAlways, OrderAlways, PTL DEF Spec, NewestLowestIsLost
=============================================================================
