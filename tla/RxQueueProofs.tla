---------------------------- MODULE RxQueueProofs ----------------------------
(***************************************************************************)
(* Theorems about the receive queue for every capacity, index width, FIFO  *)
(* depth and alphabet the two static assertions of the ring allow: the     *)
(* ring is a bounded first-in first-out queue although its handler may     *)
(* interrupt the copy out of a slot, and no frame vanishes uncounted.      *)
(***************************************************************************)
EXTENDS RxQueue, Integers, SequenceTheorems, TLAPS

-----------------------------------------------------------------------------
(* Remainders                                                              *)

\* A non-zero multiple is at least one whole away from zero.
LEMMA Multiple ==
    \A c \in Nat \ {0}, d \in Int : (d >= 1 => c * d >= c) /\ (d <= 0 - 1 => c * d <= 0 - c)
OBVIOUS

\* Multiplication distributes over a difference.
LEMMA Distributes == \A c, q, s \in Int : c * (q - s) = c * q - c * s
OBVIOUS

\* What the remainder is of.
LEMMA Quotient ==
    ASSUME NEW a \in Int, NEW c \in Nat \ {0}
    PROVE  \E q \in Int : a = c * q + (a % c) /\ a % c \in 0..c - 1
<1>1. PICK q \in Int : q = a \div c
  OBVIOUS
<1>2. PICK r \in 0..c - 1 : r = a % c
  OBVIOUS
<1>3. a = c * q + r
  BY <1>1, <1>2
<1>4. a = c * q + (a % c) /\ a % c \in 0..c - 1
  BY <1>2, <1>3
<1> QED
  BY <1>1, <1>4, Zenon

\* Numbers less than a modulus apart have different remainders.
LEMMA RemaindersDiffer ==
    ASSUME NEW a \in Int, NEW b \in Int, NEW c \in Nat \ {0}, a < b, b - a < c
    PROVE  a % c # b % c
<1> SUFFICES ASSUME a % c = b % c PROVE FALSE
  OBVIOUS
<1>1. PICK q \in Int : a = c * q + (a % c) /\ a % c \in 0..c - 1
  BY Quotient
<1>2. PICK s \in Int : b = c * s + (b % c) /\ b % c \in 0..c - 1
  BY Quotient
<1> DEFINE d == s - q
<1>3. b - a = c * d
  <2>1. c * s \in Int /\ c * q \in Int
    OBVIOUS
  <2>2. b - a = c * s - c * q
    BY <1>1, <1>2, <2>1
  <2> QED
    BY <2>2, Distributes
<1>4. d \in Int
  OBVIOUS
<1> HIDE DEF d
<1> QED
  BY <1>3, <1>4, Multiple

\* A multiple of the modulus can be taken off.
LEMMA MultipleOff ==
    ASSUME NEW a \in Int, NEW m \in Nat, NEW c \in Nat \ {0}, m % c = 0
    PROVE  (a - m) % c = a % c
<1>1. PICK b \in Int : b = a - m
  OBVIOUS
<1>2. PICK q \in Int : a = c * q + (a % c) /\ a % c \in 0..c - 1
  BY Quotient
<1>3. PICK k \in Int : m = c * k
  BY Quotient
<1>4. PICK s \in Int : b = c * s + (b % c) /\ b % c \in 0..c - 1
  BY Quotient
<1> DEFINE d == q - k - s
<1>5. d \in Int
  OBVIOUS
<1>6. c * d = (b % c) - (a % c)
  <2>1. c * d = c * q - c * k - c * s
    <3>1. q - k \in Int
      OBVIOUS
    <3> QED
      BY <3>1, Distributes
  <2>2. c * q \in Int /\ c * k \in Int /\ c * s \in Int
    OBVIOUS
  <2> HIDE DEF d
  <2> QED
    BY <1>1, <1>2, <1>3, <1>4, <2>1, <2>2
<1> HIDE DEF d
<1>7. c * d < c /\ c * d > 0 - c
  BY <1>2, <1>4, <1>5, <1>6
<1>8. d = 0
  BY <1>5, <1>7, Multiple
<1>9. c * d = 0
  BY <1>8
<1> QED
  BY <1>1, <1>2, <1>4, <1>6, <1>9

-----------------------------------------------------------------------------
(* Indices and slots                                                       *)

Indices == 0..IndexMod - 1

\* The sizes of the ring: more indices than slots, by the static assertions.
LEMMA Sizes ==
    /\ Capacity \in Nat \ {0} /\ IndexMod \in Nat \ {0}
    /\ Capacity < IndexMod /\ IndexMod % Capacity = 0
BY RxAssumption

\* An index and what is added to it wrap at most once.
LEMMA WrapsOnce ==
    ASSUME NEW a \in Nat
    PROVE  /\ a < IndexMod => a % IndexMod = a
           /\ IndexMod <= a /\ a < 2 * IndexMod => a % IndexMod = a - IndexMod
BY Sizes

\* The distance of two indices, without the remainder.
LEMMA DistanceIs ==
    ASSUME NEW h \in Indices, NEW t \in Indices
    PROVE  /\ Distance(h, t) = IF t <= h THEN h - t ELSE h + IndexMod - t
           /\ Distance(h, t) \in Indices
           /\ Distance(h, t) = 0 <=> h = t
<1> DEFINE a == h + IndexMod - t
<1>1. a \in Nat /\ a < 2 * IndexMod
  BY Sizes DEF Indices
<1>2. Distance(h, t) = a % IndexMod
  BY DEF Distance
<1>3. a % IndexMod = IF a < IndexMod THEN a ELSE a - IndexMod
  <2> HIDE DEF a
  <2> QED
    BY <1>1, WrapsOnce, Sizes
<1> QED
  BY <1>2, <1>3, Sizes DEF Indices

\* An index wraps after the last one.
LEMMA IndexWraps ==
    \A i \in Indices :
        /\ (i + 1) % IndexMod = IF i + 1 = IndexMod THEN 0 ELSE i + 1
        /\ (i + 1) % IndexMod \in Indices
<1> TAKE i \in Indices
<1>1. (i + 1) % IndexMod = IF i + 1 = IndexMod THEN 0 ELSE i + 1
  BY WrapsOnce, Sizes DEF Indices
<1> QED
  BY <1>1, Sizes DEF Indices

\* The next index is one further from the tail, and one closer to the head.
LEMMA NextIndex ==
    ASSUME NEW h \in Indices, NEW t \in Indices
    PROVE  /\ Distance(h, t) < IndexMod - 1 =>
                Distance((h + 1) % IndexMod, t) = Distance(h, t) + 1
           /\ Distance(h, t) > 0 =>
                Distance(h, (t + 1) % IndexMod) = Distance(h, t) - 1
<1>2. PICK next \in Indices : next = (h + 1) % IndexMod
  BY IndexWraps
<1>3. PICK after \in Indices : after = (t + 1) % IndexMod
  BY IndexWraps
<1>4. next = (IF h + 1 = IndexMod THEN 0 ELSE h + 1)
      /\ after = (IF t + 1 = IndexMod THEN 0 ELSE t + 1)
  BY <1>2, <1>3, IndexWraps
<1>5. Distance(h, t) = IF t <= h THEN h - t ELSE h + IndexMod - t
  BY DistanceIs
<1>6. Distance(next, t) = IF t <= next THEN next - t ELSE next + IndexMod - t
  BY DistanceIs
<1>7. Distance(h, after) = IF after <= h THEN h - after ELSE h + IndexMod - after
  BY DistanceIs
<1>8. Distance(h, t) < IndexMod - 1 => Distance(next, t) = Distance(h, t) + 1
  BY <1>4, <1>5, <1>6, Sizes DEF Indices
<1>9. Distance(h, t) > 0 => Distance(h, after) = Distance(h, t) - 1
  BY <1>4, <1>5, <1>7, Sizes DEF Indices
<1> QED
  BY <1>2, <1>3, <1>8, <1>9

\* Wrapping an index does not change its slot: the capacity divides the indices.
LEMMA SlotOfWrapped ==
    ASSUME NEW a \in Nat, a < 2 * IndexMod
    PROVE  Slot(a % IndexMod) = a % Capacity /\ Slot(a % IndexMod) \in 0..Capacity - 1
<1>1. CASE a < IndexMod
  <2>1. a % IndexMod = a
    BY <1>1, WrapsOnce
  <2> QED
    BY <2>1, Sizes DEF Slot
<1>2. CASE IndexMod <= a
  <2>1. a % IndexMod = a - IndexMod
    BY <1>2, WrapsOnce
  <2>2. (a - IndexMod) % Capacity = a % Capacity
    <3>1. a \in Int /\ IndexMod \in Nat /\ Capacity \in Nat \ {0} /\ IndexMod % Capacity = 0
      BY Sizes
    <3> QED
      BY <3>1, MultipleOff, Zenon
  <2>3. a % Capacity \in 0..Capacity - 1
    BY Sizes
  <2> QED
    BY <2>1, <2>2, <2>3 DEF Slot
<1> QED
  BY <1>1, <1>2, Sizes

\* Indices less than the capacity apart have slots of their own.
LEMMA SlotsApart ==
    ASSUME NEW a \in Nat, NEW b \in Nat, a < b, b - a < Capacity, b < 2 * IndexMod
    PROVE  Slot(a % IndexMod) # Slot(b % IndexMod)
<1>1. /\ a \in Int /\ b \in Int /\ Capacity \in Nat \ {0}
      /\ a < 2 * IndexMod
  BY Sizes
<1>2. a % Capacity # b % Capacity
  BY <1>1, RemaindersDiffer, Zenon
<1>3. Slot(a % IndexMod) = a % Capacity /\ Slot(b % IndexMod) = b % Capacity
  BY <1>1, SlotOfWrapped, Zenon
<1> QED
  BY <1>2, <1>3

-----------------------------------------------------------------------------
(* The ring as a sequence                                                  *)

Contents == Frame \cup {<<>>}
Slots == [0..Capacity - 1 -> Contents]

RingOf(h, t, s) == [n \in 1..Distance(h, t) |-> s[Slot((t + n - 1) % IndexMod)]]

\* Each position between the indices is in some slot.
LEMMA PositionSlot ==
    ASSUME NEW h \in Indices, NEW t \in Indices, NEW n \in 1..Distance(h, t)
    PROVE  /\ t + n - 1 \in Nat /\ t + n - 1 < 2 * IndexMod
           /\ Slot((t + n - 1) % IndexMod) \in 0..Capacity - 1
<1>1. Distance(h, t) \in Indices
  BY DistanceIs
<1>2. t + n - 1 \in Nat /\ t + n - 1 < 2 * IndexMod
  BY <1>1, Sizes DEF Indices
<1> QED
  BY <1>2, SlotOfWrapped

\* The ring is a sequence as long as its indices are apart, and its head is in
\* the slot of the tail index.
LEMMA RingIsSequence ==
    ASSUME NEW h \in Indices, NEW t \in Indices, NEW s \in Slots
    PROVE  /\ RingOf(h, t, s) \in Seq(Contents)
           /\ Len(RingOf(h, t, s)) = Distance(h, t)
           /\ RingOf(h, t, s) = <<>> <=> h = t
           /\ h # t => Head(RingOf(h, t, s)) = s[Slot(t)]
<1> DEFINE q == RingOf(h, t, s)
           d == Distance(h, t)
<1>1. d \in Nat /\ (d = 0 <=> h = t)
  BY DistanceIs DEF Indices
<1>2. q = [n \in 1..d |-> s[Slot((t + n - 1) % IndexMod)]]
  BY DEF RingOf
<1>3. \A n \in 1..d : s[Slot((t + n - 1) % IndexMod)] \in Contents
  BY PositionSlot DEF Slots
<1>4. q \in Seq(Contents) /\ Len(q) = d
  <2> HIDE DEF d
  <2>1. q \in [1..d -> Contents]
    BY <1>2, <1>3
  <2> HIDE DEF q
  <2>2. q \in Seq(Contents)
    BY <1>1, <2>1, SeqDef
  <2> QED
    BY <1>1, <2>1, <2>2, LenProperties
<1>5. q = <<>> <=> h = t
  <2> HIDE DEF q, d
  <2> QED
    BY <1>1, <1>4, EmptySeq
<1>6. ASSUME h # t PROVE Head(q) = s[Slot(t)]
  <2>1. 1 \in 1..d
    BY <1>1, <1>6
  <2>2. q[1] = s[Slot((t + 1 - 1) % IndexMod)]
    BY <1>2, <2>1
  <2>3. (t + 1 - 1) % IndexMod = t
    <3>1. t \in Nat /\ t < IndexMod /\ t + 1 - 1 = t
      BY Sizes DEF Indices
    <3> QED
      BY <3>1, WrapsOnce
  <2>4. Head(q) = q[1]
    OBVIOUS
  <2> QED
    BY <2>2, <2>3, <2>4
<1> QED
  BY <1>4, <1>5, <1>6

\* A push at the head index of a ring that is not full appends.
LEMMA Pushed ==
    ASSUME NEW h \in Indices, NEW t \in Indices, NEW s \in Slots, NEW f \in Frame,
           Distance(h, t) < Capacity
    PROVE  RingOf((h + 1) % IndexMod, t, [s EXCEPT ![Slot(h)] = f])
             = Append(RingOf(h, t, s), f)
<1>1. PICK d \in Nat : d = Distance(h, t) /\ d < IndexMod - 1
  BY DistanceIs, Sizes DEF Indices
<1>2. PICK next \in Indices : next = (h + 1) % IndexMod /\ Distance(next, t) = d + 1
  BY <1>1, IndexWraps, NextIndex
<1>3. h = (t + d) % IndexMod /\ t + d < 2 * IndexMod
  <2>1. d = IF t <= h THEN h - t ELSE h + IndexMod - t
    BY <1>1, DistanceIs
  <2>2. CASE t <= h
    <3>1. t + d = h /\ h \in Nat /\ h < IndexMod /\ h < 2 * IndexMod
      BY <2>1, <2>2, Sizes DEF Indices
    <3>2. h % IndexMod = h
      BY <3>1, WrapsOnce, Zenon
    <3> QED
      BY <3>1, <3>2
  <2>3. CASE ~(t <= h)
    <3>1. /\ t + d = h + IndexMod /\ t + d \in Nat
          /\ IndexMod <= t + d /\ t + d < 2 * IndexMod /\ t + d - IndexMod = h
      BY <2>1, <2>3, Sizes DEF Indices
    <3>2. PICK a \in Nat : a = t + d
      BY <3>1
    <3>3. a % IndexMod = a - IndexMod
      BY <3>1, <3>2, WrapsOnce
    <3> QED
      BY <3>1, <3>2, <3>3, Sizes DEF Indices
  <2> QED
    BY <2>2, <2>3
<1>4. Slot(h) \in 0..Capacity - 1
  BY <1>1, <1>3, SlotOfWrapped DEF Indices
<1> DEFINE s2 == [s EXCEPT ![Slot(h)] = f]
           old == RingOf(h, t, s)
           new == RingOf(next, t, s2)
<1>5. s2 \in Slots
  BY <1>4 DEF Slots, Contents
<1>6. ASSUME NEW n \in 1..d
      PROVE  new[n] = old[n]
  <2>1. n \in 1..Distance(h, t) /\ n \in 1..Distance(next, t)
    BY <1>1, <1>2
  <2>2. /\ t + n - 1 \in Nat /\ t + n - 1 < 2 * IndexMod
        /\ Slot((t + n - 1) % IndexMod) \in 0..Capacity - 1
    BY <2>1, PositionSlot
  <2>3. Slot((t + n - 1) % IndexMod) # Slot(h)
    <3>1. /\ t + d \in Nat /\ t + n - 1 < t + d
          /\ (t + d) - (t + n - 1) < Capacity
      BY <1>1, Sizes DEF Indices
    <3> QED
      BY <1>3, <2>2, <3>1, SlotsApart
  <2>4. s2[Slot((t + n - 1) % IndexMod)] = s[Slot((t + n - 1) % IndexMod)]
    BY <2>2, <2>3 DEF Slots
  <2> QED
    BY <2>1, <2>4 DEF RingOf
<1>7. new[d + 1] = f
  <2>1. d + 1 \in 1..Distance(next, t) /\ t + (d + 1) - 1 = t + d
    BY <1>2 DEF Indices
  <2>2. new[d + 1] = s2[Slot((t + d) % IndexMod)]
    BY <2>1 DEF RingOf
  <2> QED
    BY <1>3, <1>4, <2>2 DEF Slots
<1>8. new \in Seq(Contents) /\ Len(new) = d + 1
  <2>1. new \in Seq(Contents) /\ Len(new) = Distance(next, t)
    BY <1>5, RingIsSequence, Zenon
  <2> HIDE DEF new
  <2> QED
    BY <1>2, <2>1
<1>9. old \in Seq(Contents) /\ Len(old) = d
  BY <1>1, RingIsSequence
<1>10. f \in Contents
  BY DEF Contents
<1> HIDE DEF new, old
<1>11. /\ Append(old, f) \in Seq(Contents) /\ Len(Append(old, f)) = d + 1
       /\ \A n \in 1..d : Append(old, f)[n] = old[n]
       /\ Append(old, f)[d + 1] = f
  BY <1>9, <1>10, AppendProperties
<1>12. \A n \in 1..d + 1 : new[n] = Append(old, f)[n]
  BY <1>6, <1>7, <1>11
<1>13. new = Append(old, f)
  BY <1>8, <1>11, <1>12, SeqEqual
<1> QED
  BY <1>2, <1>13, Zenon DEF new, old

\* Moving the tail index of a ring that is not empty takes its head off.
LEMMA Popped ==
    ASSUME NEW h \in Indices, NEW t \in Indices, NEW s \in Slots, h # t
    PROVE  RingOf(h, (t + 1) % IndexMod, s) = Tail(RingOf(h, t, s))
<1>1. PICK d \in Nat \ {0} : d = Distance(h, t) /\ d < IndexMod
  BY DistanceIs, Sizes DEF Indices
<1>2. PICK after \in Indices : after = (t + 1) % IndexMod /\ Distance(h, after) = d - 1
  BY <1>1, IndexWraps, NextIndex
<1> DEFINE old == RingOf(h, t, s)
           new == RingOf(h, after, s)
<1>3. ASSUME NEW n \in 1..d - 1
      PROVE  new[n] = old[n + 1]
  <2>1. n \in 1..Distance(h, after) /\ n + 1 \in 1..Distance(h, t)
    BY <1>1, <1>2
  <2>2. (after + n - 1) % IndexMod = (t + (n + 1) - 1) % IndexMod
    <3>1. CASE t + 1 < IndexMod
      <4>1. after = t + 1
        BY <1>2, <3>1, WrapsOnce, Sizes DEF Indices
      <4>2. after + n - 1 = t + (n + 1) - 1
        BY <4>1, Sizes DEF Indices
      <4> QED
        BY <4>2
    <3>2. CASE t + 1 = IndexMod
      <4>1. after = 0
        BY <1>2, <3>2, WrapsOnce, Sizes DEF Indices
      <4>2. /\ after + n - 1 = n - 1 /\ n - 1 \in Nat /\ n - 1 < IndexMod
            /\ t + (n + 1) - 1 = n - 1 + IndexMod
        BY <1>1, <3>2, <4>1, Sizes DEF Indices
      <4>3. (n - 1 + IndexMod) % IndexMod = n - 1
        <5>1. PICK a \in Nat : a = n - 1 + IndexMod
          BY <4>2, Sizes
        <5>2. IndexMod <= a /\ a < 2 * IndexMod /\ a - IndexMod = n - 1
          BY <4>2, <5>1, Sizes
        <5> QED
          BY <5>1, <5>2, WrapsOnce
      <4> QED
        BY <4>2, <4>3, WrapsOnce
    <3> QED
      BY <3>1, <3>2, Sizes DEF Indices
  <2>3. new[n] = s[Slot((after + n - 1) % IndexMod)]
    BY <2>1 DEF RingOf
  <2>4. old[n + 1] = s[Slot((t + (n + 1) - 1) % IndexMod)]
    BY <2>1 DEF RingOf
  <2> QED
    BY <2>2, <2>3, <2>4
<1>4. new \in Seq(Contents) /\ Len(new) = d - 1
  <2>1. new \in Seq(Contents) /\ Len(new) = Distance(h, after)
    BY RingIsSequence, Zenon
  <2> HIDE DEF new
  <2> QED
    BY <1>2, <2>1
<1>5. old \in Seq(Contents) /\ Len(old) = d /\ old # <<>>
  BY <1>1, RingIsSequence
<1> HIDE DEF new, old
<1>6. /\ Tail(old) \in Seq(Contents) /\ Len(Tail(old)) = d - 1
      /\ \A n \in 1..d - 1 : Tail(old)[n] = old[n + 1]
  BY <1>5, HeadTailProperties
<1>7. new = Tail(old)
  BY <1>3, <1>4, <1>6, SeqEqual
<1> QED
  BY <1>2, <1>7, Zenon DEF new, old

-----------------------------------------------------------------------------
(* The inductive invariant                                                 *)

\* The ring holds whole frames, and no more than it has slots for.
RingInv == Queued \in Seq(Frame) /\ Len(Queued) <= Capacity

\* While the main loop copies, its index is the tail, the ring is not empty, and
\* what it has copied is the head: the handler pushes into other slots only.
Popping ==
    /\ pc \in {"low", "high", "publish"} => at = tail /\ Queued # <<>>
    /\ pc = "low" => copy = <<>>
    /\ pc = "high" => copy = <<Head(Queued)[1]>>
    /\ pc = "publish" => copy = Head(Queued)

IInv == TypeOK /\ RingInv /\ Popping

\* What the type invariant says of the ring.
LEMMA Ring ==
    ASSUME TypeOK
    PROVE  /\ head \in Indices /\ tail \in Indices /\ slots \in Slots
           /\ Queued = RingOf(head, tail, slots)
           /\ Len(Queued) = Distance(head, tail) /\ Distance(head, tail) \in Nat
           /\ Queued = <<>> <=> head = tail
           /\ head # tail => Head(Queued) = slots[Slot(tail)]
<1>1. head \in Indices /\ tail \in Indices /\ slots \in Slots
  BY DEF TypeOK, Indices, Slots, Contents
<1>2. Queued = RingOf(head, tail, slots)
  BY DEF Queued, RingOf
<1>3. Distance(head, tail) \in Nat
  BY <1>1, DistanceIs DEF Indices
<1> QED
  BY <1>1, <1>2, <1>3, RingIsSequence

\* A frame is two equal halves.
LEMMA Halves ==
    ASSUME NEW f \in Frame
    PROVE  /\ f \in Seq(Word) /\ Len(f) = 2 /\ f # <<>>
           /\ f[1] \in Word /\ f[2] \in Word /\ f = <<f[1], f[2]>>
<1>1. PICK w \in Word : f = <<w, w>>
  BY DEF Frame
<1> QED
  BY <1>1

\* Two halves make a frame.
LEMMA Joined == \A a, b : Append(<<a>>, b) = <<a, b>> /\ Append(<<>>, a) = <<a>>
<1> TAKE a, b
<1>1. Append(<<a>>, b) = <<a, b>>
  <2> DEFINE S == {a, b}
  <2>1. <<a>> \in Seq(S) /\ b \in S /\ Len(<<a>>) = 1
    OBVIOUS
  <2>2. <<a, b>> \in Seq(S) /\ Len(<<a, b>>) = 2
    OBVIOUS
  <2>3. /\ Append(<<a>>, b) \in Seq(S) /\ Len(Append(<<a>>, b)) = 2
        /\ Append(<<a>>, b)[1] = a /\ Append(<<a>>, b)[2] = b
    BY <2>1, AppendProperties
  <2>4. \A i \in 1..2 : Append(<<a>>, b)[i] = <<a, b>>[i]
    BY <2>3
  <2> QED
    BY <2>2, <2>3, <2>4, SeqEqual
<1>2. Append(<<>>, a) = <<a>>
  OBVIOUS
<1> QED
  BY <1>1, <1>2

\* A counter that saturates stays in range and is not zero after it counted.
LEMMA Saturates ==
    ASSUME NEW n \in 0..MaxDropped
    PROVE  Saturating(n) \in 0..MaxDropped /\ Saturating(n) > 0
BY RxAssumption DEF Saturating

\* What a step may do to the ring and to the frame handed over: the handler
\* appends, the main loop takes the head off, everything else leaves both alone.
LEMMA RingStep ==
    ASSUME IInv, [Next]_vars
    PROVE  \/ /\ fifo # <<>> /\ fifo' = Tail(fifo) /\ Head(fifo) \in Frame
              /\ Len(Queued) < Capacity
              /\ Queued' = Append(Queued, Head(fifo)) /\ UNCHANGED main
           \/ /\ Publish /\ Queued # <<>> /\ Queued' = Tail(Queued)
              /\ out' = Head(Queued)
           \/ /\ Queued' = Queued /\ out' = out /\ tail' = tail
              /\ IsrPush => Len(Queued) = Capacity /\ dropped' = Saturating(dropped)
<1> USE DEF IInv
<1>0. /\ head \in Indices /\ tail \in Indices /\ slots \in Slots
      /\ Queued = RingOf(head, tail, slots) /\ Len(Queued) = Distance(head, tail)
      /\ Distance(head, tail) \in Nat
      /\ Queued = <<>> <=> head = tail
  BY Ring
<1>1. ASSUME head' = head, tail' = tail, slots' = slots
      PROVE  Queued' = Queued
  BY <1>1 DEF Queued, Distance, Slot
<1>2. CASE IsrPush /\ Full
  <2>1. Queued' = Queued /\ out' = out /\ tail' = tail
    BY <1>1, <1>2 DEF IsrPush, main
  <2>2. Len(Queued) = Capacity
    BY <1>0, <1>2, Sizes DEF Full, RingInv
  <2> QED
    BY <1>2, <2>1, <2>2 DEF IsrPush
<1>3. CASE IsrPush /\ ~Full
  <2>1. Head(fifo) \in Frame
    BY <1>3, HeadTailProperties DEF IsrPush, TypeOK
  <2>2. Distance(head, tail) < Capacity
    BY <1>0, <1>3, Sizes DEF Full
  <2>3. Queued' = RingOf(head', tail', slots')
    BY DEF Queued, RingOf
  <2>4. /\ head' = (head + 1) % IndexMod /\ tail' = tail
        /\ slots' = [slots EXCEPT ![Slot(head)] = Head(fifo)]
    BY <1>3 DEF IsrPush, main
  <2>5. Queued' = Append(Queued, Head(fifo))
    <3>1. RingOf((head + 1) % IndexMod, tail, [slots EXCEPT ![Slot(head)] = Head(fifo)])
            = Append(RingOf(head, tail, slots), Head(fifo))
      BY <1>0, <2>1, <2>2, Pushed
    <3> QED
      BY <1>0, <2>3, <2>4, <3>1, Zenon
  <2> QED
    BY <1>0, <1>3, <2>1, <2>2, <2>5 DEF IsrPush
<1>4. CASE Publish
  <2>1. at = tail /\ Queued # <<>> /\ copy = Head(Queued)
    BY <1>4 DEF Publish, Popping
  <2>2. Queued' = RingOf(head', tail', slots')
    BY DEF Queued, RingOf
  <2>3. head' = head /\ tail' = (tail + 1) % IndexMod /\ slots' = slots /\ out' = copy
    BY <1>4, <2>1 DEF Publish, ring
  <2>4. RingOf(head, (tail + 1) % IndexMod, slots) = Tail(RingOf(head, tail, slots))
    BY <1>0, <2>1, Popped
  <2>5. Queued' = Tail(Queued)
    BY <1>0, <2>2, <2>3, <2>4, Zenon
  <2> QED
    BY <1>4, <2>1, <2>3, <2>5
<1>5. CASE ~IsrPush /\ ~Publish
  <2>1. head' = head /\ tail' = tail /\ slots' = slots /\ out' = out
    BY <1>5
    DEF Next, Arrive, Isr, IsrEnter, IsrExit, SysTick, Main, Poll, CopyLow, CopyHigh,
        CopyHalf, Sleep, vars, hardware, ring, main
  <2> QED
    BY <1>1, <1>5, <2>1
<1> QED
  BY <1>2, <1>3, <1>4, <1>5

\* Every step keeps whole frames in the ring, and no more than it has room for.
LEMMA RingInvStep == IInv /\ [Next]_vars => RingInv'
<1> SUFFICES ASSUME IInv, [Next]_vars
             PROVE  RingInv'
  OBVIOUS
<1>1. Queued \in Seq(Frame) /\ Len(Queued) \in Nat /\ Len(Queued) <= Capacity
  BY LenProperties DEF IInv, RingInv
<1>2. CASE Head(fifo) \in Frame /\ Len(Queued) < Capacity /\ Queued' = Append(Queued, Head(fifo))
  BY <1>1, <1>2, AppendProperties, Sizes DEF RingInv
<1>3. CASE Queued # <<>> /\ Queued' = Tail(Queued)
  BY <1>1, <1>3, HeadTailProperties, Sizes DEF RingInv
<1>4. CASE Queued' = Queued
  BY <1>1, <1>4 DEF RingInv
<1> QED
  BY <1>2, <1>3, <1>4, RingStep

\* While the main loop copies a frame, nothing it has read or will read of it
\* changes.
LEMMA PoppingStep == IInv /\ [Next]_vars => Popping'
<1> SUFFICES ASSUME IInv, [Next]_vars
             PROVE  Popping'
  OBVIOUS
<1> USE DEF IInv
<1>0. /\ Queued = <<>> <=> head = tail
      /\ head # tail => Head(Queued) = slots[Slot(tail)]
      /\ Queued # <<>> => Head(Queued) \in Frame
      /\ Queued \in Seq(Frame)
  BY Ring, HeadTailProperties DEF RingInv
<1>1. CASE Poll
  <2>1. Queued' = Queued
    BY <1>1 DEF Poll, ring, Queued, Distance, Slot
  <2>2. tail' = tail /\ (tail # head => at' = tail /\ pc' = "low" /\ copy' = <<>>)
    BY <1>1 DEF Poll
  <2>3. tail = head => pc' \in {"poll", "wfi"}
    BY <1>1 DEF Poll
  <2> QED
    BY <1>0, <2>1, <2>2, <2>3 DEF Popping
<1>2. CASE CopyLow
  <2>1. Queued' = Queued
    BY <1>2 DEF CopyLow, CopyHalf, ring, Queued, Distance, Slot
  <2>2. /\ at = tail /\ Queued # <<>> /\ copy = <<>>
        /\ copy' = Append(copy, slots[Slot(at)][1])
        /\ at' = at /\ tail' = tail /\ pc' = "high"
    BY <1>2 DEF CopyLow, CopyHalf, Popping
  <2>3. copy' = <<Head(Queued)[1]>>
    BY <1>0, <2>2, Joined
  <2> QED
    BY <2>1, <2>2, <2>3 DEF Popping
<1>3. CASE CopyHigh
  <2>1. Queued' = Queued
    BY <1>3 DEF CopyHigh, CopyHalf, ring, Queued, Distance, Slot
  <2>2. /\ at = tail /\ Queued # <<>> /\ copy = <<Head(Queued)[1]>>
        /\ copy' = Append(copy, slots[Slot(at)][2])
        /\ at' = at /\ tail' = tail /\ pc' = "publish"
    BY <1>3 DEF CopyHigh, CopyHalf, Popping
  <2>3. copy' = <<Head(Queued)[1], Head(Queued)[2]>>
    <3>1. slots[Slot(at)][2] = Head(Queued)[2]
      BY <1>0, <2>2
    <3> QED
      BY <2>2, <3>1, Joined, Zenon
  <2>4. copy' = Head(Queued)
    BY <1>0, <2>2, <2>3, Halves
  <2> QED
    BY <2>1, <2>2, <2>4 DEF Popping
<1>4. CASE Publish
  BY <1>4 DEF Publish, Popping
<1>5. CASE IsrPush
  <2>1. /\ pc' = pc /\ at' = at /\ tail' = tail /\ copy' = copy
    BY <1>5 DEF IsrPush, main
  <2>2. CASE Queued' = Queued
    BY <2>1, <2>2 DEF Popping
  <2>3. CASE Head(fifo) \in Frame /\ Queued' = Append(Queued, Head(fifo))
    <3>1. Queued' # <<>> /\ (Queued # <<>> => Head(Queued') = Head(Queued))
      BY <1>0, <2>3, AppendProperties, HeadTailAppend
    <3> QED
      BY <2>1, <3>1 DEF Popping
  <2>4. ~Publish
    BY <1>5 DEF IsrPush, Publish
  <2> QED
    BY <2>2, <2>3, <2>4, RingStep
<1>6. CASE (\E f \in Frame : Arrive(f)) \/ IsrEnter \/ IsrExit \/ SysTick \/ Sleep \/ UNCHANGED vars
  <2>1. Queued' = Queued /\ at' = at /\ tail' = tail /\ copy' = copy
    BY <1>6
    DEF Arrive, IsrEnter, IsrExit, SysTick, Sleep, vars, hardware, ring, main, Queued,
        Distance, Slot
  <2>2. pc' = pc \/ pc' \in {"poll", "asleep"}
    BY <1>6 DEF Arrive, IsrEnter, IsrExit, SysTick, Sleep, vars, main
  <2> QED
    BY <2>1, <2>2 DEF Popping
<1> QED
  BY <1>1, <1>2, <1>3, <1>4, <1>5, <1>6 DEF Next, Isr, Main

\* Every step preserves the types.
LEMMA TypeStep == IInv /\ [Next]_vars => TypeOK'
<1> SUFFICES ASSUME IInv, [Next]_vars
             PROVE  TypeOK'
  OBVIOUS
<1> USE DEF IInv
<1>0. FifoDepth \in Nat \ {0} /\ Len(fifo) \in Nat /\ fifo \in Seq(Frame)
  BY RxAssumption, LenProperties DEF TypeOK
<1>1. ASSUME NEW f \in Frame, Arrive(f) PROVE TypeOK'
  <2>1. fifo' \in Seq(Frame) /\ Len(fifo') <= FifoDepth
    <3>1. CASE Len(fifo) < FifoDepth
      <4>1. fifo' = Append(fifo, f)
        BY <1>1, <3>1 DEF Arrive
      <4> QED
        BY <1>0, <3>1, <4>1, AppendProperties
    <3>2. CASE ~(Len(fifo) < FifoDepth)
      BY <1>1, <3>2 DEF Arrive, TypeOK
    <3> QED
      BY <3>1, <3>2
  <2>2. overrun' \in BOOLEAN
    BY <1>1 DEF Arrive, TypeOK
  <2> QED
    BY <1>1, <2>1, <2>2 DEF Arrive, TypeOK, ring, main
<1>2. CASE IsrEnter
  <2>1. hwDropped' \in 0..MaxDropped
    BY <1>2, Saturates DEF IsrEnter, TypeOK
  <2>2. pc' \in {"poll", "low", "high", "publish", "wfi", "asleep"}
    BY <1>2 DEF IsrEnter, TypeOK
  <2>3. overrun' \in BOOLEAN /\ isr' \in BOOLEAN
    BY <1>2 DEF IsrEnter
  <2> QED
    BY <1>2, <2>1, <2>2, <2>3 DEF IsrEnter, TypeOK
<1>3. CASE IsrPush
  <2>1. /\ fifo' \in Seq(Frame) /\ Len(fifo') <= FifoDepth /\ Head(fifo) \in Frame
    BY <1>0, <1>3, HeadTailProperties DEF IsrPush, TypeOK
  <2>2. dropped' \in 0..MaxDropped
    BY <1>3, Saturates DEF IsrPush, TypeOK
  <2>3. head' \in 0..IndexMod - 1
    BY <1>3, Ring, IndexWraps DEF IsrPush, TypeOK, Indices
  <2>4. slots' \in [0..Capacity - 1 -> Frame \cup {<<>>}]
    BY <1>3, <2>1 DEF IsrPush, TypeOK
  <2> QED
    BY <1>3, <2>1, <2>2, <2>3, <2>4 DEF IsrPush, TypeOK, main
<1>4. CASE IsrExit
  BY <1>4 DEF IsrExit, TypeOK, hardware, ring, main
<1>5. CASE SysTick \/ Sleep
  BY <1>5 DEF SysTick, Sleep, TypeOK, hardware, ring
<1>6. CASE Poll
  <2>1. copy' \in Seq(Word) /\ Len(copy') <= 2
    <3>1. <<>> \in Seq(Word) /\ Len(<<>>) = 0
      BY EmptySeq
    <3>2. copy' = <<>> \/ copy' = copy
      BY <1>6 DEF Poll
    <3>3. CASE copy' = <<>>
      BY <3>1, <3>3
    <3>4. CASE copy' = copy
      BY <3>4 DEF TypeOK
    <3> QED
      BY <3>2, <3>3, <3>4
  <2>2. pc' \in {"poll", "low", "high", "publish", "wfi", "asleep"} /\ at' \in 0..IndexMod - 1
    BY <1>6 DEF Poll, TypeOK
  <2>3. processed' \in BOOLEAN
    BY <1>6 DEF Poll, TypeOK
  <2> QED
    BY <1>6, <2>1, <2>2, <2>3 DEF Poll, TypeOK, hardware, ring
<1>7. CASE CopyLow \/ CopyHigh
  <2>1. Queued # <<>> /\ slots[Slot(at)] = Head(Queued) /\ Head(Queued) \in Frame
    BY <1>7, Ring, HeadTailProperties DEF CopyLow, CopyHigh, CopyHalf, Popping, RingInv
  <2>2. slots[Slot(at)][1] \in Word /\ slots[Slot(at)][2] \in Word
    BY <2>1, Halves
  <2>3. Len(copy) < 2
    <3>1. CASE copy = <<>>
      BY <3>1
    <3>2. CASE copy = <<Head(Queued)[1]>>
      BY <3>2
    <3> QED
      BY <1>7, <3>1, <3>2 DEF CopyLow, CopyHigh, CopyHalf, Popping
  <2>4. copy' \in Seq(Word) /\ Len(copy') <= 2
    <3>1. PICK w \in Word : copy' = Append(copy, w)
      BY <1>7, <2>2 DEF CopyLow, CopyHigh, CopyHalf
    <3>2. copy \in Seq(Word) /\ Len(copy) \in Nat
      BY LenProperties DEF TypeOK
    <3> QED
      BY <2>3, <3>1, <3>2, AppendProperties
  <2>5. pc' \in {"poll", "low", "high", "publish", "wfi", "asleep"}
    BY <1>7 DEF CopyLow, CopyHigh, CopyHalf
  <2> QED
    BY <1>7, <2>4, <2>5 DEF CopyLow, CopyHigh, CopyHalf, TypeOK, hardware, ring
<1>8. CASE Publish
  <2>1. tail' \in 0..IndexMod - 1
    BY <1>8, IndexWraps DEF Publish, TypeOK, Indices
  <2>2. out' \in Frame
    BY <1>8, HeadTailProperties DEF Publish, Popping, RingInv
  <2> QED
    BY <1>8, <2>1, <2>2 DEF Publish, TypeOK, hardware, ring
<1>9. CASE UNCHANGED vars
  BY <1>9 DEF vars, hardware, ring, main, TypeOK
<1> QED
  BY <1>1, <1>2, <1>3, <1>4, <1>5, <1>6, <1>7, <1>8, <1>9 DEF Next, Isr, Main

-----------------------------------------------------------------------------
(* Theorems                                                                *)

\* The queue starts empty.
LEMMA InitInv == Init => IInv /\ Queued = <<>>
<1> SUFFICES ASSUME Init
             PROVE  IInv /\ Queued = <<>>
  OBVIOUS
<1>1. TypeOK
  <2>1. 0 \in 0..IndexMod - 1 /\ 0 \in 0..MaxDropped /\ 0 <= FifoDepth
    BY Sizes, RxAssumption
  <2>2. fifo \in Seq(Frame) /\ Len(fifo) = 0 /\ copy \in Seq(Word) /\ Len(copy) = 0
    BY EmptySeq DEF Init
  <2>3. slots \in [0..Capacity - 1 -> Frame \cup {<<>>}]
    BY DEF Init
  <2>4. /\ overrun \in BOOLEAN /\ isr \in BOOLEAN /\ processed \in BOOLEAN
        /\ pc \in {"poll", "low", "high", "publish", "wfi", "asleep"}
        /\ out \in Frame \cup {<<>>}
    BY DEF Init
  <2>5. /\ head \in 0..IndexMod - 1 /\ tail \in 0..IndexMod - 1 /\ at \in 0..IndexMod - 1
        /\ dropped \in 0..MaxDropped /\ hwDropped \in 0..MaxDropped
    BY <2>1 DEF Init
  <2> QED
    BY <2>1, <2>2, <2>3, <2>4, <2>5 DEF TypeOK
<1>2. Queued = <<>>
  BY <1>1, Ring DEF Init
<1>3. RingInv
  BY <1>2, EmptySeq, Sizes DEF RingInv
<1>4. Popping
  BY DEF Init, Popping
<1> QED
  BY <1>1, <1>2, <1>3, <1>4 DEF IInv

\* The inductive invariant: types, whole frames in a ring that is not
\* overfilled, and a copy that is a prefix of its head.
THEOREM Invariance == Spec => []IInv
<1>1. IInv /\ [Next]_vars => IInv'
  BY TypeStep, RingInvStep, PoppingStep DEF IInv
<1> QED
  BY <1>1, InitInv, PTL DEF Spec

\* Every reachable state of the receive path is well typed: the indices wrap,
\* the drop counters saturate, and no caller is handed half a frame.
THEOREM TypeCorrect == Spec => []TypeOK
<1>1. IInv => TypeOK
  BY DEF IInv
<1> QED
  BY <1>1, Invariance, PTL

\* The ring implements a bounded first-in first-out queue under every
\* preemption of can_rx_queue_pop() by the handler and every wrap of its indices.
THEOREM QueueImplemented == Spec => QueueIsFifo
<1>1. Init => Fifo!Init
  BY InitInv DEF Init, Fifo!Init
<1>2. IInv /\ [Next]_vars => [Fifo!Next]_(Fifo!vars)
  <2> SUFFICES ASSUME IInv, [Next]_vars
               PROVE  Fifo!Next \/ UNCHANGED <<Queued, out>>
    BY DEF Fifo!vars
  <2>1. CASE /\ Head(fifo) \in Frame /\ Len(Queued) < Capacity
             /\ Queued' = Append(Queued, Head(fifo)) /\ UNCHANGED main
    <3>1. Fifo!Put(Head(fifo))
      BY <2>1 DEF Fifo!Put, main
    <3> QED
      BY <2>1, <3>1 DEF Fifo!Next
  <2>2. CASE Queued # <<>> /\ Queued' = Tail(Queued) /\ out' = Head(Queued)
    BY <2>2 DEF Fifo!Next, Fifo!Get
  <2>3. CASE Queued' = Queued /\ out' = out
    BY <2>3
  <2> QED
    BY <2>1, <2>2, <2>3, RingStep
<1>3. Fifo!Spec => QueueIsFifo
  BY DEF QueueIsFifo
<1> QED
  BY <1>1, <1>2, <1>3, Invariance, PTL DEF Spec, Fifo!Spec

\* A counter that saturates counts one more, or has come to its end.
LEMMA CountsOneMore ==
    ASSUME NEW n \in 0..MaxDropped
    PROVE  OneMore(n, Saturating(n))
BY RxAssumption DEF Saturating, OneMore

\* Every frame that leaves the hardware FIFO is in the ring, or the ring was full
\* and it is counted; every overrun that is cleared is counted; nothing else is.
THEOREM FramesKeptOrCounted == Spec => FrameKeptOrCounted
<1>1. ASSUME IInv, [Next]_vars, Len(fifo') < Len(fifo)
      PROVE  FrameCounted
  <2>1. fifo \in Seq(Frame) /\ Len(fifo) \in Nat
    BY <1>1, LenProperties DEF IInv, TypeOK
  <2>2. fifo' # fifo
    BY <1>1, <2>1
  <2>3. ASSUME NEW f \in Frame, Arrive(f) PROVE FALSE
    BY <1>1, <2>1, <2>2, <2>3, AppendProperties DEF Arrive
  <2>4. IsrPush
    BY <1>1, <2>2, <2>3
    DEF Next, Isr, IsrEnter, IsrExit, SysTick, Main, Poll, CopyLow, CopyHigh, CopyHalf,
        Publish, Sleep, vars, hardware
  <2>5. ~Publish
    BY <2>4 DEF IsrPush, Publish
  <2>6. OneMore(dropped, Saturating(dropped))
    BY <1>1, CountsOneMore DEF IInv, TypeOK
  <2>7. Len(Queued) = Distance(head, tail) /\ Distance(head, tail) \in Nat
    BY <1>1, Ring DEF IInv
  <2>8. CASE Queued' = Append(Queued, Head(fifo)) /\ Len(Queued) < Capacity
    <3>1. ~Full
      BY <2>7, <2>8, Sizes DEF Full
    <3> QED
      BY <1>1, <2>4, <2>8, <3>1 DEF IsrPush, FrameCounted
  <2>9. CASE Len(Queued) = Capacity /\ Queued' = Queued /\ dropped' = Saturating(dropped)
    BY <1>1, <2>6, <2>9 DEF FrameCounted
  <2> QED
    BY <1>1, <2>4, <2>5, <2>8, <2>9, RingStep
<1>2. ASSUME IInv, [Next]_vars, ~(Len(fifo') < Len(fifo))
      PROVE  dropped' = dropped
  <2>1. ~IsrPush
    <3>1. IsrPush => Len(fifo') = Len(fifo) - 1 /\ Len(fifo) \in Nat
      BY <1>2, LenProperties, HeadTailProperties DEF IsrPush, IInv, TypeOK
    <3> QED
      BY <1>2, <3>1
  <2> QED
    BY <1>2, <2>1
    DEF Next, Arrive, Isr, IsrEnter, IsrExit, SysTick, Main, Poll, CopyLow, CopyHigh, CopyHalf,
        Publish, Sleep, vars, ring
<1>3. ASSUME IInv, [Next]_vars
      PROVE  OverrunCounted
  <2>1. CASE IsrEnter
    <3>1. overrun' = FALSE /\ hwDropped' = IF overrun THEN Saturating(hwDropped) ELSE hwDropped
      BY <2>1 DEF IsrEnter
    <3>2. OneMore(hwDropped, Saturating(hwDropped))
      BY <1>3, CountsOneMore DEF IInv, TypeOK
    <3> QED
      BY <3>1, <3>2 DEF OverrunCounted
  <2>2. CASE \E f \in Frame : Arrive(f)
    <3>1. hwDropped' = hwDropped /\ (overrun' = overrun \/ overrun' = TRUE)
      BY <2>2 DEF Arrive, ring
    <3> QED
      BY <3>1 DEF OverrunCounted
  <2>3. CASE ~IsrEnter /\ ~(\E f \in Frame : Arrive(f))
    <3>1. hwDropped' = hwDropped /\ overrun' = overrun
      BY <1>3, <2>3
      DEF Next, Isr, IsrPush, IsrExit, SysTick, Main, Poll, CopyLow, CopyHigh, CopyHalf,
          Publish, Sleep, vars, ring, hardware
    <3> QED
      BY <3>1 DEF OverrunCounted
  <2> QED
    BY <2>1, <2>2, <2>3
<1>4. IInv /\ [Next]_vars => [FrameCounted /\ OverrunCounted]_vars
  BY <1>1, <1>2, <1>3 DEF FrameCounted
<1> QED
  BY <1>4, Invariance, PTL DEF Spec, FrameKeptOrCounted
=============================================================================
