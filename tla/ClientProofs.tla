---------------------------- MODULE ClientProofs ----------------------------
(***************************************************************************)
(* Theorems about a client and the receiver it commands, for any numbers,  *)
(* retries, values and queue lengths, under the two hypotheses of the run: *)
(* one process commands the receiver, and no frame outlives its number.    *)
(***************************************************************************)
EXTENDS Client, SequenceTheorems, TLAPS

Alone(p) == Processes = {p} /\ Timely

-----------------------------------------------------------------------------
(* Queues                                                                  *)

\* Behind a frame f only f is queued; f is queued at most once.
Trails(q, f) == \A i, j \in DOMAIN q : i < j /\ q[i] = f => q[j] = f
AtMostOne(q, f) == \A i, j \in DOMAIN q : q[i] = f /\ q[j] = f => i = j

\* The entries of a sequence.
LEMMA Entries ==
    ASSUME NEW S, NEW q \in Seq(S)
    PROVE  /\ Len(q) \in Nat /\ DOMAIN q = 1..Len(q)
           /\ \A i \in 1..Len(q) : q[i] \in S /\ q[i] \in Range(q)
           /\ Range(q) = {q[i] : i \in 1..Len(q)}
           /\ Range(q) \subseteq S
<1>1. Len(q) \in Nat /\ DOMAIN q = 1..Len(q) /\ \A i \in 1..Len(q) : q[i] \in S
  BY LenProperties, ElementOfSeq
<1>2. Range(q) = {q[i] : i \in 1..Len(q)}
  BY <1>1 DEF Range
<1> QED
  BY <1>1, <1>2

\* A frame put into a queue comes last, if it finds room.
LEMMA PutIs ==
    ASSUME NEW S, NEW q \in Seq(S), NEW f \in S, Len(q) <= Capacity
    PROVE  /\ Put(q, f) \in Seq(S) /\ Len(Put(q, f)) <= Capacity
           /\ Range(Put(q, f)) \subseteq Range(q) \cup {f}
           /\ Trails(q, f) => Trails(Put(q, f), f)
           /\ f \notin Range(q) => AtMostOne(Put(q, f), f)
<1>0. /\ Len(q) \in Nat /\ DOMAIN q = 1..Len(q) /\ Capacity \in Nat
      /\ \A i \in 1..Len(q) : q[i] \in Range(q)
  BY Entries, ClientAssumption
<1>1. CASE Len(q) < Capacity
  <2> DEFINE a == Append(q, f)
  <2>1. Put(q, f) = a
    BY <1>1 DEF Put
  <2>2. /\ a \in Seq(S) /\ Len(a) = Len(q) + 1
        /\ \A i \in 1..Len(q) : a[i] = q[i]
        /\ a[Len(q) + 1] = f
    BY AppendProperties
  <2> HIDE DEF a
  <2>3. DOMAIN a = 1..Len(q) + 1 /\ Range(a) = {a[i] : i \in 1..Len(q) + 1}
    BY <2>2, Entries
  <2>4. \A i \in 1..Len(q) + 1 : i \in 1..Len(q) \/ i = Len(q) + 1
    BY <1>0
  <2>5. Range(a) \subseteq Range(q) \cup {f}
    BY <1>0, <2>2, <2>3, <2>4
  <2>6. ASSUME Trails(q, f) PROVE Trails(a, f)
    <3> SUFFICES ASSUME NEW i \in DOMAIN a, NEW j \in DOMAIN a, i < j, a[i] = f
                 PROVE  a[j] = f
      BY DEF Trails
    <3>1. CASE j = Len(q) + 1
      BY <2>2, <3>1
    <3>2. CASE j \in 1..Len(q)
      <4>1. i \in 1..Len(q)
        BY <1>0, <2>3, <3>2
      <4> QED
        BY <1>0, <2>2, <2>6, <3>2, <4>1 DEF Trails
    <3> QED
      BY <2>3, <2>4, <3>1, <3>2
  <2>7. ASSUME f \notin Range(q) PROVE AtMostOne(a, f)
    <3>1. \A i \in DOMAIN a : a[i] = f => i = Len(q) + 1
      BY <1>0, <2>2, <2>3, <2>4, <2>7
    <3> QED
      BY <3>1 DEF AtMostOne
  <2> QED
    BY <1>0, <1>1, <2>1, <2>2, <2>5, <2>6, <2>7
<1>2. CASE ~(Len(q) < Capacity)
  <2>1. Put(q, f) = q
    BY <1>2 DEF Put
  <2>2. f \notin Range(q) => AtMostOne(q, f)
    BY <1>0 DEF AtMostOne
  <2> QED
    BY <2>1, <2>2
<1> QED
  BY <1>1, <1>2

\* A sequence t that keeps entries of q, in their order.
Kept(q, t) ==
    \E at \in [DOMAIN t -> DOMAIN q] :
        /\ \A i \in DOMAIN t : t[i] = q[at[i]]
        /\ \A i, j \in DOMAIN t : i < j => at[i] < at[j]

\* What is kept of a queue has no new entries and is ordered as it was.
LEMMA KeptIs ==
    ASSUME NEW S, NEW q \in Seq(S), NEW t \in Seq(S), Kept(q, t)
    PROVE  /\ Range(t) \subseteq Range(q)
           /\ \A f : Trails(q, f) => Trails(t, f)
           /\ \A f : AtMostOne(q, f) => AtMostOne(t, f)
<1>0. /\ DOMAIN q = 1..Len(q) /\ DOMAIN t = 1..Len(t) /\ Len(q) \in Nat /\ Len(t) \in Nat
  BY Entries
<1>1. PICK at \in [DOMAIN t -> DOMAIN q] :
        /\ \A i \in DOMAIN t : t[i] = q[at[i]]
        /\ \A i, j \in DOMAIN t : i < j => at[i] < at[j]
  BY DEF Kept
<1>2. Range(t) \subseteq Range(q)
  BY <1>1 DEF Range
<1>3. ASSUME NEW f, Trails(q, f) PROVE Trails(t, f)
  BY <1>1, <1>3 DEF Trails
<1>4. ASSUME NEW f, AtMostOne(q, f) PROVE AtMostOne(t, f)
  <2> SUFFICES ASSUME NEW i \in DOMAIN t, NEW j \in DOMAIN t, t[i] = f, t[j] = f, i # j
               PROVE  FALSE
    BY DEF AtMostOne
  <2>1. at[i] = at[j]
    BY <1>1, <1>4 DEF AtMostOne
  <2>2. at[i] \in 1..Len(q) /\ at[j] \in 1..Len(q)
    BY <1>0, <1>1
  <2>3. i < j \/ j < i
    BY <1>0
  <2>4. at[i] < at[j] \/ at[j] < at[i]
    BY <1>1, <2>3
  <2> QED
    BY <2>1, <2>2, <2>4
<1> QED
  BY <1>2, <1>3, <1>4

\* The tail of a queue: behind a frame that is last of its kind, only that
\* frame; behind a single one, none of it.
LEMMA TailIs ==
    ASSUME NEW S, NEW q \in Seq(S), q # <<>>
    PROVE  /\ Head(q) \in S /\ Head(q) \in Range(q)
           /\ Tail(q) \in Seq(S) /\ Len(Tail(q)) = Len(q) - 1 /\ Kept(q, Tail(q))
           /\ Trails(q, Head(q)) => \A f \in Range(Tail(q)) : f = Head(q)
           /\ AtMostOne(q, Head(q)) => Head(q) \notin Range(Tail(q))
<1> DEFINE t == Tail(q)
<1>1. /\ Head(q) \in S /\ t \in Seq(S) /\ Len(t) = Len(q) - 1
      /\ \A i \in 1..Len(t) : t[i] = q[i + 1]
  BY HeadTailProperties
<1>2. /\ DOMAIN q = 1..Len(q) /\ Len(q) \in Nat /\ Len(q) # 0 /\ 1 \in DOMAIN q
      /\ Range(q) = {q[i] : i \in 1..Len(q)}
  BY Entries, EmptySeq
<1> HIDE DEF t
<1>3. DOMAIN t = 1..Len(t) /\ Len(t) \in Nat /\ Range(t) = {t[i] : i \in 1..Len(t)}
  BY <1>1, Entries
<1>4. Head(q) = q[1]
  OBVIOUS
<1>5. \A i \in DOMAIN t : i + 1 \in DOMAIN q /\ 1 < i + 1 /\ t[i] = q[i + 1]
  BY <1>1, <1>2, <1>3
<1>6. Kept(q, t)
  <2> DEFINE at == [i \in DOMAIN t |-> i + 1]
  <2>1. at \in [DOMAIN t -> DOMAIN q] /\ \A i \in DOMAIN t : t[i] = q[at[i]]
    BY <1>5
  <2>2. \A i, j \in DOMAIN t : i < j => at[i] < at[j]
    BY <1>3
  <2> HIDE DEF at
  <2> QED
    BY <2>1, <2>2 DEF Kept
<1>7. ASSUME Trails(q, Head(q)), NEW f \in Range(t) PROVE f = Head(q)
  <2>1. PICK i \in DOMAIN t : f = t[i]
    BY <1>3
  <2>2. q[i + 1] = q[1]
    BY <1>2, <1>4, <1>5, <1>7 DEF Trails
  <2> QED
    BY <1>4, <1>5, <2>1, <2>2
<1>8. ASSUME AtMostOne(q, Head(q)) PROVE Head(q) \notin Range(t)
  <2> SUFFICES ASSUME NEW i \in DOMAIN t, t[i] = Head(q)
               PROVE  FALSE
    BY <1>3
  <2>1. i + 1 = 1
    BY <1>2, <1>4, <1>5, <1>8 DEF AtMostOne
  <2> QED
    BY <1>5, <2>1
<1> QED
  BY <1>1, <1>2, <1>4, <1>6, <1>7, <1>8 DEF t

\* A sequence without one of its entries.
LEMMA RemoveIs ==
    ASSUME NEW S, NEW q \in Seq(S), NEW i \in 1..Len(q)
    PROVE  /\ RemoveAt(q, i) \in Seq(S) /\ Len(RemoveAt(q, i)) = Len(q) - 1
           /\ Kept(q, RemoveAt(q, i))
<1> DEFINE front == SubSeq(q, 1, i - 1)
           back == SubSeq(q, i + 1, Len(q))
           t == front \o back
<1>0. Len(q) \in Nat /\ DOMAIN q = 1..Len(q) /\ \A j \in 1..Len(q) : q[j] \in S
  BY Entries
<1>1. /\ front \in Seq(S) /\ Len(front) = i - 1 /\ \A j \in 1..i - 1 : front[j] = q[j]
  BY <1>0, SubSeqProperties
<1>2. /\ back \in Seq(S) /\ Len(back) = Len(q) - i
      /\ \A j \in 1..Len(q) - i : back[j] = q[i + j]
  <2>1. \A j \in i + 1..Len(q) : q[j] \in S
    BY <1>0
  <2>2. /\ back \in Seq(S) /\ Len(back) = IF i + 1 <= Len(q) THEN Len(q) - (i + 1) + 1 ELSE 0
        /\ \A j \in 1..Len(q) - (i + 1) + 1 : back[j] = q[i + 1 + j - 1]
    BY <1>0, <2>1, SubSeqProperties
  <2> HIDE DEF back
  <2>3. Len(q) - (i + 1) + 1 = Len(q) - i
    BY <1>0
  <2>4. Len(back) = Len(q) - i
    <3>1. CASE i + 1 <= Len(q)
      BY <2>2, <2>3, <3>1
    <3>2. CASE ~(i + 1 <= Len(q))
      <4>1. Len(q) \in Nat /\ i \in Nat /\ i <= Len(q) /\ ~(i + 1 <= Len(q))
        BY <1>0, <3>2
      <4>2. i = Len(q)
        BY <4>1
      <4>3. Len(q) - i = 0
        BY <4>1, <4>2
      <4> QED
        BY <2>2, <3>2, <4>3
    <3> QED
      BY <3>1, <3>2
  <2>5. ASSUME NEW j \in 1..Len(q) - i PROVE back[j] = q[i + j]
    <3>1. i + 1 + j - 1 = i + j
      OBVIOUS
    <3> QED
      BY <2>2, <2>3, <3>1
  <2> QED
    BY <2>2, <2>4, <2>5
<1> HIDE DEF front, back
<1>3. /\ t \in Seq(S) /\ Len(t) = Len(front) + Len(back)
      /\ \A j \in 1..Len(front) + Len(back) :
           t[j] = IF j <= Len(front) THEN front[j] ELSE back[j - Len(front)]
  BY <1>1, <1>2, ConcatProperties
<1> HIDE DEF t
<1>4. Len(t) = Len(q) - 1 /\ DOMAIN t = 1..Len(q) - 1
  BY <1>0, <1>1, <1>2, <1>3, Entries
<1> DEFINE at == [j \in 1..Len(q) - 1 |-> IF j < i THEN j ELSE j + 1]
<1>5. at \in [1..Len(q) - 1 -> 1..Len(q)]
  BY <1>0
<1>6. \A j \in 1..Len(q) - 1 : t[j] = q[at[j]]
  <2> TAKE j \in 1..Len(q) - 1
  <2>1. CASE j < i
    BY <1>0, <1>1, <1>2, <1>3, <2>1
  <2>2. CASE ~(j < i)
    <3>1. /\ j - (i - 1) \in 1..Len(q) - i /\ i + (j - (i - 1)) = j + 1
          /\ ~(j <= Len(front)) /\ j - Len(front) = j - (i - 1)
          /\ j \in 1..Len(front) + Len(back)
      BY <1>0, <1>1, <1>2, <2>2
    <3>2. t[j] = back[j - (i - 1)] /\ back[j - (i - 1)] = q[j + 1]
      BY <1>2, <1>3, <3>1
    <3> QED
      BY <2>2, <3>2
  <2> QED
    BY <2>1, <2>2
<1>7. \A j, k \in 1..Len(q) - 1 : j < k => at[j] < at[k]
  BY <1>0
<1> HIDE DEF at
<1>8. Kept(q, t)
  BY <1>0, <1>4, <1>5, <1>6, <1>7 DEF Kept
<1>9. RemoveAt(q, i) = t
  BY DEF RemoveAt, t, front, back
<1> QED
  BY <1>3, <1>4, <1>8, <1>9

-----------------------------------------------------------------------------
(* The inductive invariant                                                 *)

\* What is on its way to the receiver, and back to the client; their numbers.
Asked == Range(requests)
Told(p) == Range(replies[p])
InFlight(p) == {f.seq : f \in Asked} \cup {r.seq : r \in Told(p)}

OnlyMine(p) == \A f \in Asked : f = msg[p]
Reuse(r) == r.kind = "ERROR" /\ r.result = "SEQUENCE_REUSE"
NoReuse(p) == \A r \in Told(p) : Reuse(r) => r.seq # seq[p]

\* A client in a call, or with anything in flight, has the message its counter
\* numbers; a call has no result yet; only unicasts are waited for.
Control(p) ==
    /\ pc[p] # "ready" \/ seq[p] # 0 \/ InFlight(p) # {}
         => msg[p] \in Messages /\ msg[p].seq = seq[p]
    /\ pc[p] # "ready" => result[p] = "NONE"
    /\ pc[p] = "await" => msg[p].dest = "NODE"

\* No frame in flight has a later number than the client, unless a resequencing
\* wrapped; the requests with the client's number are the client's message, and
\* nothing was asked after it.
Numbering(p) ==
    /\ seq[p] # 0 \/ attempt[p] = 0 => \A n \in InFlight(p) : n <= seq[p]
    /\ \A f \in Asked : f.seq = seq[p] => f = msg[p]
    /\ Trails(requests, msg[p])

\* The receiver's cache holds the command to it that set its state.
Cached ==
    cache # NoMessage => cache.type # "PING" /\ cache.dest = "NODE" /\ state = cache.value

\* As long as frames with the first number are in flight, the receiver has not
\* met a later number than the client's, and has not refused that one.
Wrapped(p) ==
    seq[p] # 0 /\ 0 \in InFlight(p) =>
        /\ cache = NoMessage \/ cache.seq < seq[p] \/ cache = msg[p]
        /\ NoReuse(p)

\* When a refusal of the client's number is on its way, only that message is
\* asked, and the receiver keeps no other number.
Refused(p) ==
    ~NoReuse(p) => OnlyMine(p) /\ (cache = NoMessage \/ cache.seq = seq[p])

\* A number taken because the first was refused cannot be refused.
Second(p) ==
    attempt[p] = 1 /\ pc[p] # "ready" =>
        /\ cache = NoMessage \/ cache.seq # seq[p] \/ cache = msg[p]
        /\ NoReuse(p)

\* A reply with the client's number is about the client's message.
Truthful(p) ==
    \A r \in Told(p) : r.seq = seq[p] =>
        /\ r.kind = "ACK" => served[p]
        /\ r.kind \in {"ACK", "ERROR"} => r.type = msg[p].type

\* Once the message is acknowledged no older request is left, and until a reset
\* it is the one the receiver keeps.
Served(p) ==
    served[p] =>
        /\ msg[p] \in Messages /\ msg[p].dest = "NODE" /\ msg[p].type # "PING"
        /\ OnlyMine(p)
        /\ intact[p] => cache = msg[p]

\* A unicast that was carried out is in the cache; a broadcast is asked once.
AtMostOnce(p) ==
    /\ count[p] \in {0, 1}
    /\ count[p] = 1 /\ msg[p].dest = "NODE" => cache = msg[p] /\ OnlyMine(p)
    /\ msg[p] # NoMessage /\ msg[p].dest = "ALL" =>
         /\ count[p] = 1 => msg[p] \notin Asked
         /\ pc[p] = "send" => msg[p] \notin Asked /\ count[p] = 0
         /\ AtMostOne(requests, msg[p])

Honest(p) ==
    /\ result[p] = "ACK" => served[p]
    /\ result[p] \notin {"SEQUENCE_REUSE", "PROTOCOL"}

Inv(p) ==
    /\ Control(p) /\ Numbering(p) /\ Cached /\ Wrapped(p) /\ Refused(p) /\ Second(p)
    /\ Truthful(p) /\ Served(p) /\ AtMostOnce(p) /\ Honest(p)

Typed == TypeOK /\ replies \in [Processes -> Seq(Replies)]

IInv(p) == Typed /\ Inv(p)

-----------------------------------------------------------------------------
(* Steps that only lose frames, pass them on or end a call                 *)

\* Frames go, a STATUS at most comes, and the client keeps its message: nothing
\* the invariant says of messages and numbers can fail.
LEMMA Quieter ==
    ASSUME NEW p, IInv(p),
           seq'[p] = seq[p], msg'[p] = msg[p], attempt'[p] = attempt[p],
           state' = state, cache' = cache,
           served'[p] <=> served[p], count'[p] = count[p], intact'[p] <=> intact[p],
           Asked' \subseteq Asked, InFlight(p)' \subseteq InFlight(p),
           \A r \in Told(p)' : r \in Told(p) \/ r.kind = "STATUS",
           Trails(requests', msg[p]),
           AtMostOne(requests, msg[p]) => AtMostOne(requests', msg[p]),
           pc'[p] # "ready" => pc[p] # "ready" /\ result'[p] = "NONE",
           pc'[p] = "await" => pc[p] = "await",
           pc'[p] = "send" => pc[p] = "send" \/ pc[p] = "await",
           Honest(p)'
    PROVE  Inv(p)'
<1> USE DEF IInv, Inv
<1>1. NoReuse(p) => NoReuse(p)'
  BY DEF NoReuse, Reuse
<1>2. OnlyMine(p) => OnlyMine(p)'
  BY DEF OnlyMine
<1>3. Control(p)'
  BY DEF Control
<1>4. Numbering(p)'
  BY DEF Numbering
<1>5. Cached'
  BY DEF Cached
<1>6. Wrapped(p)' /\ Refused(p)' /\ Second(p)'
  BY <1>1, <1>2 DEF Wrapped, Refused, Second
<1>7. Truthful(p)'
  BY DEF Truthful
<1>8. Served(p)'
  BY <1>2 DEF Served
<1>9. AtMostOnce(p)'
  <2>1. count'[p] \in {0, 1}
        /\ (count'[p] = 1 /\ msg'[p].dest = "NODE" => cache' = msg'[p] /\ OnlyMine(p)')
    BY <1>2 DEF AtMostOnce
  <2>2. ASSUME msg[p] # NoMessage, msg[p].dest = "ALL"
        PROVE  /\ count'[p] = 1 => msg[p] \notin Asked'
               /\ pc'[p] = "send" => msg[p] \notin Asked' /\ count'[p] = 0
               /\ AtMostOne(requests', msg[p])
    BY <2>2 DEF AtMostOnce, Control
  <2> QED
    BY <2>1, <2>2 DEF AtMostOnce
<1> QED
  BY <1>3, <1>4, <1>5, <1>6, <1>7, <1>8, <1>9

-----------------------------------------------------------------------------
(* Steps that take a new number                                            *)

\* The number after a number.
LEMMA NextSeqIs ==
    ASSUME NEW p, seq[p] \in Seqs
    PROVE  /\ NextSeq(p) = IF seq[p] = SeqCount - 1 THEN 0 ELSE seq[p] + 1
           /\ NextSeq(p) \in Seqs /\ NextSeq(p) # seq[p]
<1>0. SeqCount \in Nat /\ SeqCount > 2 /\ seq[p] \in Nat /\ seq[p] <= SeqCount - 1
  BY ClientAssumption DEF Seqs
<1>1. CASE seq[p] = SeqCount - 1
  <2>1. seq[p] + 1 = SeqCount
    BY <1>0, <1>1
  <2>2. SeqCount % SeqCount = 0
    BY <1>0
  <2> QED
    BY <1>0, <1>1, <2>1, <2>2 DEF NextSeq, Seqs
<1>2. CASE seq[p] # SeqCount - 1
  <2>1. PICK n \in Nat : n = seq[p] + 1
    BY <1>0
  <2>2. n < SeqCount
    BY <1>0, <1>2, <2>1
  <2>3. n % SeqCount = n
    BY <1>0, <2>2
  <2>4. NextSeq(p) = n
    BY <2>1, <2>3 DEF NextSeq
  <2> QED
    BY <1>0, <1>2, <2>1, <2>2, <2>4 DEF Seqs
<1> QED
  BY <1>1, <1>2

\* The new message has the new number; it was neither answered nor carried out.
LEMMA NewMessageIs ==
    ASSUME NEW p \in Processes, TypeOK, NEW c,
           c \in Calls \/ c \in Messages,
           NewMessage(p, c)
    PROVE  /\ seq'[p] = NextSeq(p) /\ msg'[p] \in Messages /\ msg'[p].seq = NextSeq(p)
           /\ msg'[p].type = c.type /\ msg'[p].dest = c.dest /\ msg'[p].value = c.value
           /\ served'[p] = FALSE /\ count'[p] = 0 /\ intact'[p] = TRUE
<1>1. c.type \in Types /\ c.dest \in {"NODE", "ALL"} /\ c.value \in Values
  BY ClientAssumption DEF Calls, Messages, Types
<1>2. NextSeq(p) \in Seqs
  BY NextSeqIs DEF TypeOK
<1>3. msg'[p] = [type |-> c.type, dest |-> c.dest, value |-> c.value, seq |-> NextSeq(p)]
  BY DEF NewMessage, TypeOK
<1>4. /\ seq'[p] = NextSeq(p) /\ served'[p] = FALSE /\ count'[p] = 0 /\ intact'[p] = TRUE
  BY DEF NewMessage, TypeOK
<1> QED
  BY <1>1, <1>2, <1>3, <1>4 DEF Messages

\* A client that takes a number nothing in flight has, and no older number of
\* which is mistaken for a later one, starts anew.
LEMMA Renew ==
    ASSUME NEW p, NEW n \in Seqs, IInv(p),
           seq'[p] = n, msg'[p] \in Messages, msg'[p].seq = n,
           served'[p] = FALSE, count'[p] = 0,
           pc'[p] = "send", result'[p] = "NONE",
           state' = state, cache' = cache, requests' = requests,
           InFlight(p)' \subseteq InFlight(p),
           n \notin InFlight(p),
           n # 0 \/ attempt'[p] = 0 => \A k \in InFlight(p) : k <= n,
           n # 0 /\ 0 \in InFlight(p) => cache = NoMessage \/ cache.seq < n,
           attempt'[p] = 1 => cache = NoMessage \/ cache.seq # n
    PROVE  Inv(p)'
<1> USE DEF IInv, Inv
<1>1. /\ \A f \in Asked' : f.seq # n /\ f # msg'[p]
      /\ \A r \in Told(p)' : r.seq # n
  BY DEF InFlight
<1>2. NoReuse(p)'
  BY <1>1 DEF NoReuse
<1>3. \A i \in DOMAIN requests' : requests'[i] # msg'[p]
  BY <1>1 DEF Asked, Range
<1>4. Control(p)'
  BY DEF Control
<1>5. Numbering(p)'
  BY <1>1, <1>3 DEF Numbering, Trails
<1>6. Cached'
  BY DEF Cached
<1>7. Wrapped(p)' /\ Refused(p)' /\ Second(p)'
  BY <1>2 DEF Wrapped, Refused, Second
<1>8. Truthful(p)' /\ Served(p)' /\ Honest(p)'
  BY <1>1 DEF Truthful, Served, Honest
<1>9. AtMostOnce(p)'
  BY <1>1, <1>3 DEF AtMostOnce, AtMostOne
<1> QED
  BY <1>4, <1>5, <1>6, <1>7, <1>8, <1>9

\* Nothing is in flight.
LEMMA QuietIs ==
    ASSUME NEW p \in Processes, Quiet
    PROVE  requests = <<>> /\ replies[p] = <<>> /\ Asked = {} /\ Told(p) = {} /\ InFlight(p) = {}
<1>1. requests = <<>> /\ replies[p] = <<>>
  BY DEF Quiet, All
<1>2. Asked = {} /\ Told(p) = {}
  BY <1>1 DEF Asked, Told, Range
<1> QED
  BY <1>1, <1>2 DEF InFlight

\* What is in flight.
LEMMA FramesAre ==
    ASSUME NEW p \in Processes, TypeOK
    PROVE  Asked \subseteq Messages /\ Told(p) \subseteq Replies /\ InFlight(p) \subseteq Seqs
<1>1. Asked \subseteq Messages
  BY Entries DEF TypeOK, Asked
<1>2. Told(p) \subseteq Replies
  BY Entries DEF TypeOK, Told
<1> QED
  BY <1>1, <1>2 DEF InFlight, Messages, Replies

\* A call.
LEMMA CallStep ==
    ASSUME NEW p \in Processes, Timely, IInv(p), NEW c \in Calls, Call(p, c)
    PROVE  Inv(p)'
<1> DEFINE n == NextSeq(p)
<1>0. TypeOK /\ Inv(p) /\ seq[p] \in Seqs /\ SeqCount \in Nat /\ SeqCount > 2
  BY ClientAssumption DEF IInv, Typed, TypeOK
<1>1. /\ seq'[p] = n /\ msg'[p] \in Messages /\ msg'[p].seq = n
      /\ served'[p] = FALSE /\ count'[p] = 0
  BY <1>0, NewMessageIs DEF Call
<1>2. /\ pc'[p] = "send" /\ result'[p] = "NONE" /\ attempt'[p] = 0
      /\ state' = state /\ cache' = cache /\ requests' = requests /\ replies' = replies
      /\ seq[p] \in {0, SeqCount - 1} => Quiet
  BY <1>0 DEF Call, Goto, TypeOK, bus, receiver
<1>3. InFlight(p)' \subseteq InFlight(p) /\ attempt'[p] # 1
  BY <1>2 DEF InFlight, Asked, Told
<1>4. /\ n = (IF seq[p] = SeqCount - 1 THEN 0 ELSE seq[p] + 1) /\ n \in Seqs
  BY <1>0, NextSeqIs
<1> HIDE DEF n
<1>5. CASE seq[p] \in {0, SeqCount - 1}
  <2>1. InFlight(p) = {}
    BY <1>2, <1>5, QuietIs
  <2>2. /\ n \notin InFlight(p) /\ \A k \in InFlight(p) : k <= n
        /\ ~(0 \in InFlight(p))
    BY <2>1
  <2> QED
    BY <1>1, <1>2, <1>3, <1>4, <2>2, Renew, Zenon
<1>6. CASE seq[p] \notin {0, SeqCount - 1}
  <2>1. n = seq[p] + 1 /\ n # 0 /\ seq[p] # 0 /\ seq[p] \in Nat
    BY <1>0, <1>4, <1>6 DEF Seqs
  <2>2. \A k \in InFlight(p) : k <= seq[p]
    BY <1>0, <2>1 DEF Inv, Numbering
  <2>3. InFlight(p) \subseteq Seqs
    BY <1>0, FramesAre
  <2>4. n \notin InFlight(p) /\ \A k \in InFlight(p) : k <= n
    BY <2>1, <2>2, <2>3 DEF Seqs
  <2>5. ASSUME 0 \in InFlight(p) PROVE cache = NoMessage \/ cache.seq < n
    <3>1. cache = NoMessage \/ cache.seq < seq[p] \/ cache = msg[p]
      BY <1>0, <2>1, <2>5 DEF Inv, Wrapped
    <3>2. msg[p].seq = seq[p]
      BY <1>0, <2>1 DEF Inv, Control
    <3>3. cache = NoMessage \/ cache.seq \in Nat
      BY <1>0 DEF TypeOK, Messages, Seqs
    <3> QED
      BY <2>1, <3>1, <3>2, <3>3
  <2> QED
    BY <1>1, <1>2, <1>3, <1>4, <2>4, <2>5, Renew, Zenon
<1> QED
  BY <1>5, <1>6

\* The receiver refuses the number: no frame has the next one, for if the counter
\* wraps, none with the first number was left when it was refused.
LEMMA ResequenceStep ==
    ASSUME NEW p \in Processes, IInv(p), pc[p] = "await",
           NEW r \in Told(p), r.seq = seq[p], Reuse(r), attempt[p] = 0,
           NewMessage(p, msg[p]), pc'[p] = "send", attempt'[p] = 1, result'[p] = result[p],
           state' = state, cache' = cache, requests' = requests,
           Told(p)' \subseteq Told(p)
    PROVE  Inv(p)'
<1> DEFINE n == NextSeq(p)
<1>0. /\ TypeOK /\ Inv(p) /\ SeqCount \in Nat /\ SeqCount > 2
      /\ seq[p] \in Nat /\ seq[p] <= SeqCount - 1 /\ seq[p] \in Seqs
      /\ cache = NoMessage \/ cache.seq \in Nat
  BY ClientAssumption DEF IInv, Typed, TypeOK, Seqs, Messages
<1>1. msg[p] \in Messages /\ result[p] = "NONE"
  BY <1>0 DEF Inv, Control
<1>2. /\ seq'[p] = n /\ msg'[p] \in Messages /\ msg'[p].seq = n
      /\ served'[p] = FALSE /\ count'[p] = 0
  BY <1>0, <1>1, NewMessageIs
<1>3. ~NoReuse(p) /\ attempt'[p] # 0 /\ InFlight(p)' \subseteq InFlight(p)
  BY DEF NoReuse, InFlight, Asked
<1>4. cache = NoMessage \/ cache.seq = seq[p]
  BY <1>0, <1>3 DEF Inv, Refused
<1>5. \A k \in InFlight(p) : k <= seq[p] /\ k \in Nat
  BY <1>0, FramesAre DEF Inv, Numbering, Seqs
<1>6. seq[p] # 0 => 0 \notin InFlight(p)
  BY <1>0, <1>3 DEF Inv, Wrapped
<1>7. n = (IF seq[p] = SeqCount - 1 THEN 0 ELSE seq[p] + 1) /\ n \in Seqs
  BY <1>0, NextSeqIs
<1> HIDE DEF n
<1>8. /\ n \notin InFlight(p)
      /\ n # 0 => \A k \in InFlight(p) : k <= n
      /\ n # 0 => cache = NoMessage \/ cache.seq < n
      /\ cache = NoMessage \/ cache.seq # n
  <2>1. CASE seq[p] = SeqCount - 1
    BY <1>0, <1>4, <1>6, <1>7, <2>1
  <2>2. CASE seq[p] # SeqCount - 1
    BY <1>0, <1>4, <1>5, <1>7, <2>2
  <2> QED
    BY <2>1, <2>2
<1> QED
  BY <1>1, <1>2, <1>3, <1>7, <1>8, Renew, Zenon

-----------------------------------------------------------------------------
(* The other steps of the client, and of the bus                           *)

\* A message is sent, or a broadcast, once.
LEMMA SendStep ==
    ASSUME NEW p \in Processes, IInv(p), Send(p)
    PROVE  Inv(p)'
<1> DEFINE m == msg[p]
<1>0. TypeOK /\ Inv(p) /\ pc[p] = "send" /\ m \in Messages /\ m.seq = seq[p]
  BY DEF IInv, Typed, Inv, Control, Send
<1>1. /\ requests' = Put(requests, m) /\ replies' = replies
      /\ state' = state /\ cache' = cache
      /\ seq' = seq /\ msg' = msg /\ attempt' = attempt
      /\ served' = served /\ count' = count /\ intact' = intact
  BY DEF Send, Return, receiver, history
<1>2. \/ m.dest = "ALL" /\ pc'[p] = "ready" /\ result'[p] = "SENT"
      \/ m.dest = "NODE" /\ pc'[p] = "await" /\ result'[p] = result[p]
  BY <1>0 DEF Send, Return, Goto, TypeOK, Messages
<1>3. /\ Asked' \subseteq Asked \cup {m}
      /\ Trails(requests', m)
      /\ m \notin Asked => AtMostOne(requests', m)
  BY <1>0, <1>1, PutIs DEF TypeOK, Asked, Inv, Numbering
<1>4. Told(p)' = Told(p) /\ InFlight(p)' \subseteq InFlight(p) \cup {seq[p]}
  BY <1>0, <1>1, <1>3 DEF Told, InFlight
<1>5. /\ NoReuse(p)' <=> NoReuse(p)
      /\ OnlyMine(p) => OnlyMine(p)'
  BY <1>1, <1>3, <1>4 DEF NoReuse, OnlyMine
<1> HIDE DEF m
<1>6. Control(p)'
  BY <1>0, <1>1, <1>2 DEF Inv, Control, m
<1>7. Numbering(p)'
  <2>1. seq[p] \in Nat /\ seq[p] <= seq[p]
    BY <1>0 DEF TypeOK, Seqs
  <2> QED
    BY <1>0, <1>1, <1>3, <1>4, <2>1 DEF Inv, Numbering, m
<1>8. Cached'
  BY <1>0, <1>1 DEF Inv, Cached
<1>9. Wrapped(p)' /\ Refused(p)' /\ Second(p)'
  BY <1>0, <1>1, <1>2, <1>4, <1>5 DEF Inv, Wrapped, Refused, Second
<1>10. Truthful(p)'
  BY <1>0, <1>1, <1>4 DEF Inv, Truthful
<1>11. Served(p)'
  BY <1>0, <1>1, <1>5 DEF Inv, Served
<1>12. AtMostOnce(p)'
  <2>1. CASE m.dest = "NODE"
    BY <1>0, <1>1, <1>5, <2>1 DEF Inv, AtMostOnce, m
  <2>2. CASE m.dest = "ALL"
    <3>1. CASE m = NoMessage
      BY <1>0, <1>1, <2>2, <3>1 DEF Inv, AtMostOnce, m
    <3>2. CASE m # NoMessage
      <4>1. count[p] = 0 /\ m \notin Asked /\ pc'[p] = "ready"
        BY <1>0, <1>2, <2>2, <3>2 DEF Inv, AtMostOnce, m
      <4> QED
        BY <1>1, <1>3, <2>2, <4>1 DEF AtMostOnce, m
    <3> QED
      BY <3>1, <3>2
  <2> QED
    BY <1>2, <2>1, <2>2
<1>13. Honest(p)'
  BY <1>0, <1>1, <1>2 DEF Inv, Honest
<1> QED
  BY <1>6, <1>7, <1>8, <1>9, <1>10, <1>11, <1>12, <1>13 DEF Inv

\* A call ends, or its message is sent again, or neither.
LEMMA EndStep ==
    ASSUME NEW p \in Processes, IInv(p), SendFails(p) \/ Timeout(p) \/ UNCHANGED vars
    PROVE  Inv(p)'
<1>0. TypeOK /\ Inv(p)
  BY DEF IInv, Typed
<1>1. /\ seq' = seq /\ msg' = msg /\ attempt' = attempt
      /\ state' = state /\ cache' = cache /\ requests' = requests /\ replies' = replies
      /\ served' = served /\ count' = count /\ intact' = intact
  BY DEF SendFails, Timeout, Return, vars, client, bus, receiver, history
<1>2. \/ pc'[p] = "ready" /\ result'[p] \in {"FAILED", "TIMEOUT"}
      \/ pc'[p] = pc[p] /\ result'[p] = result[p]
      \/ pc[p] = "await" /\ pc'[p] = "send" /\ result'[p] = result[p]
  BY <1>0 DEF SendFails, Timeout, Return, Goto, vars, client, TypeOK
<1>3. Asked' = Asked /\ Told(p)' = Told(p) /\ InFlight(p)' = InFlight(p)
  BY <1>1 DEF Asked, Told, InFlight
<1>4. Honest(p)'
  BY <1>0, <1>1, <1>2 DEF Inv, Honest
<1>5. pc[p] # "ready" => result[p] = "NONE"
  BY <1>0 DEF Inv, Control
<1>6. Trails(requests', msg[p])
  BY <1>0, <1>1 DEF Inv, Numbering
<1>7. /\ pc'[p] # "ready" => pc[p] # "ready" /\ result'[p] = "NONE"
      /\ pc'[p] = "await" => pc[p] = "await"
      /\ pc'[p] = "send" => pc[p] = "send" \/ pc[p] = "await"
  BY <1>2, <1>5
<1> QED
  BY <1>1, <1>3, <1>4, <1>6, <1>7, Quieter

\* A frame is taken from the socket: another's, the news that the number was
\* used, or the answer, which is about the client's message.
LEMMA ReceiveStep ==
    ASSUME NEW p \in Processes, IInv(p), Receive(p)
    PROVE  Inv(p)'
<1>0. /\ TypeOK /\ Inv(p) /\ pc[p] = "await" /\ result[p] = "NONE"
      /\ msg[p] \in Messages /\ msg[p].seq = seq[p] /\ replies[p] \in Seq(Replies)
  BY DEF IInv, Typed, Inv, Control, Receive, TypeOK
<1>1. PICK i \in DOMAIN replies[p] :
        /\ replies' = [replies EXCEPT ![p] = RemoveAt(replies[p], i)]
        /\ \/ UNCHANGED <<client, history>>
           \/ Matches(p, replies[p][i]) /\ Answered(p, replies[p][i])
  BY DEF Receive
<1>2. requests' = requests /\ state' = state /\ cache' = cache
  BY DEF Receive, receiver
<1> DEFINE r == replies[p][i]
<1>3. r \in Replies /\ r \in Told(p) /\ i \in 1..Len(replies[p])
  BY <1>0, <1>1, Entries DEF Told
<1>4. replies'[p] = RemoveAt(replies[p], i)
  BY <1>1 DEF IInv, Typed
<1>5. Told(p)' \subseteq Told(p)
  BY <1>0, <1>3, <1>4, RemoveIs, KeptIs DEF Told
<1>6. Asked' = Asked /\ InFlight(p)' \subseteq InFlight(p)
  BY <1>2, <1>5 DEF Asked, InFlight
<1> HIDE DEF r
<1>7. ASSUME seq'[p] = seq[p], msg'[p] = msg[p], attempt'[p] = attempt[p],
             served' = served, count' = count, intact' = intact,
             \/ pc'[p] = "ready" /\ (result'[p] = "ACK" => served[p])
                /\ result'[p] \notin {"SEQUENCE_REUSE", "PROTOCOL"}
             \/ pc'[p] = "await" /\ result'[p] = "NONE"
      PROVE  Inv(p)'
  <2>1. Honest(p)'
    BY <1>7 DEF Honest
  <2>2. Trails(requests', msg[p])
    BY <1>0, <1>2 DEF Inv, Numbering
  <2> QED
    BY <1>0, <1>2, <1>5, <1>6, <1>7, <2>1, <2>2, Quieter
<1>8. CASE UNCHANGED <<client, history>>
  BY <1>0, <1>7, <1>8 DEF client, history
<1>9. CASE Matches(p, r) /\ Answered(p, r)
  <2>1. r.seq = seq[p]
    BY <1>0, <1>9 DEF Matches
  <2>2. /\ r.kind \in {"ACK", "STATUS", "ERROR"} /\ (r.kind = "ERROR" => r.result \in Refusals)
        /\ r.kind = "ACK" => served[p]
        /\ r.kind # "STATUS" => r.type = msg[p].type
    <3>1. r.kind \in {"ACK", "STATUS", "ERROR"} /\ (r.kind = "ERROR" => r.result \in Refusals)
      BY <1>3 DEF Replies
    <3> QED
      BY <1>0, <1>3, <2>1, <3>1 DEF Inv, Truthful
  <2>3. CASE r.kind = "ERROR" /\ Resequence(p, r)
    <3>1. /\ NewMessage(p, msg[p]) /\ pc'[p] = "send" /\ attempt'[p] = 1 /\ result'[p] = result[p]
      BY <1>0, <1>9, <2>2, <2>3 DEF Answered, Goto, TypeOK
    <3> QED
      BY <1>0, <1>2, <1>3, <1>5, <2>1, <2>3, <3>1, ResequenceStep DEF Resequence, Reuse
  <2>4. CASE ~(r.kind = "ERROR" /\ Resequence(p, r))
    <3>1. PICK s : /\ Return(p, s)
                   /\ \/ r.kind = "STATUS" /\ s = "STATUS"
                      \/ r.kind = "ACK" /\ s = "ACK"
                      \/ r.kind = "ERROR" /\ s = r.result
      BY <1>9, <2>2, <2>4 DEF Answered
    <3>2. /\ seq' = seq /\ msg' = msg /\ attempt' = attempt
          /\ served' = served /\ count' = count /\ intact' = intact
          /\ pc'[p] = "ready" /\ result'[p] = s
      BY <1>0, <3>1 DEF Return, Goto, history, TypeOK
    <3>3. s = "ACK" => served[p]
      BY <2>2, <3>1 DEF Refusals
    <3>4. s \notin {"SEQUENCE_REUSE", "PROTOCOL"}
      <4>1. ASSUME r.kind = "ERROR", r.result = "SEQUENCE_REUSE" PROVE FALSE
        <5>1. attempt[p] = 1
          BY <1>0, <2>4, <4>1 DEF Resequence, TypeOK
        <5>2. NoReuse(p)
          BY <1>0, <5>1 DEF Inv, Second
        <5> QED
          BY <1>3, <2>1, <4>1, <5>2 DEF NoReuse, Reuse
      <4> QED
        BY <2>2, <3>1, <4>1 DEF Refusals
    <3> QED
      BY <1>7, <3>2, <3>3, <3>4
  <2> QED
    BY <2>3, <2>4
<1> QED
  BY <1>1, <1>8, <1>9 DEF r

\* Another process starts, with nothing in flight.
LEMMA RestartStep ==
    ASSUME NEW p \in Processes, Timely, IInv(p), Restart(p)
    PROVE  Inv(p)'
<1>0. TypeOK /\ Inv(p)
  BY DEF IInv, Typed
<1>1. /\ requests = <<>> /\ Asked = {} /\ Told(p) = {} /\ InFlight(p) = {}
  BY QuietIs DEF Restart
<1>2. /\ msg' = msg /\ attempt' = attempt /\ requests' = requests /\ replies' = replies
      /\ state' = state /\ cache' = cache /\ served' = served /\ count' = count /\ intact' = intact
      /\ pc'[p] = "ready" /\ seq'[p] = 0 /\ result'[p] = "NONE"
  BY <1>0 DEF Restart, Goto, bus, receiver, history, TypeOK
<1>3. Asked' = {} /\ Told(p)' = {} /\ InFlight(p)' = {} /\ requests' = <<>>
  BY <1>1, <1>2 DEF Asked, Told, InFlight
<1>4. NoReuse(p)' /\ OnlyMine(p)'
  BY <1>3 DEF NoReuse, OnlyMine
<1>5. Control(p)'
  BY <1>2, <1>3 DEF Control
<1>6. Numbering(p)'
  BY <1>3 DEF Numbering, Trails
<1>7. Cached'
  BY <1>0, <1>2 DEF Inv, Cached
<1>8. Wrapped(p)' /\ Refused(p)' /\ Second(p)' /\ Truthful(p)' /\ Honest(p)'
  BY <1>2, <1>3, <1>4 DEF Wrapped, Refused, Second, Truthful, Honest
<1>9. Served(p)'
  BY <1>0, <1>2, <1>4 DEF Inv, Served
<1>10. AtMostOnce(p)'
  BY <1>0, <1>2, <1>3, <1>4 DEF Inv, AtMostOnce, AtMostOne
<1> QED
  BY <1>5, <1>6, <1>7, <1>8, <1>9, <1>10 DEF Inv

\* The receiver resets.
LEMMA NodeResetStep ==
    ASSUME NEW p \in Processes, IInv(p), NodeReset
    PROVE  Inv(p)'
<1>0. TypeOK /\ Inv(p)
  BY DEF IInv, Typed
<1>1. /\ cache' = NoMessage /\ count'[p] = 0 /\ intact'[p] = FALSE /\ served' = served
      /\ requests' = requests /\ replies' = replies
      /\ pc' = pc /\ seq' = seq /\ msg' = msg /\ attempt' = attempt /\ result' = result
  BY DEF NodeReset, Node!Reset, All, client, bus
<1>2. Asked' = Asked /\ Told(p)' = Told(p) /\ InFlight(p)' = InFlight(p)
  BY <1>1 DEF Asked, Told, InFlight
<1>3. (NoReuse(p)' <=> NoReuse(p)) /\ (OnlyMine(p)' <=> OnlyMine(p))
  BY <1>1, <1>2 DEF NoReuse, OnlyMine
<1>4. Control(p)' /\ Numbering(p)'
  BY <1>0, <1>1, <1>2 DEF Inv, Control, Numbering
<1>5. Cached'
  BY <1>1 DEF Cached
<1>6. Wrapped(p)' /\ Refused(p)' /\ Second(p)'
  BY <1>0, <1>1, <1>2, <1>3 DEF Inv, Wrapped, Refused, Second
<1>7. Truthful(p)' /\ Served(p)' /\ Honest(p)'
  BY <1>0, <1>1, <1>2, <1>3 DEF Inv, Truthful, Served, Honest
<1>8. AtMostOnce(p)'
  BY <1>0, <1>1, <1>2 DEF Inv, AtMostOnce
<1> QED
  BY <1>4, <1>5, <1>6, <1>7, <1>8 DEF Inv

\* A frame is lost.
LEMMA LoseStep ==
    ASSUME NEW p, Alone(p), IInv(p), Lose
    PROVE  Inv(p)'
<1>0. TypeOK /\ Inv(p) /\ p \in Processes /\ requests \in Seq(Messages)
  BY DEF IInv, Typed, TypeOK, Alone
<1>1. /\ state' = state /\ cache' = cache
      /\ pc' = pc /\ seq' = seq /\ msg' = msg /\ attempt' = attempt /\ result' = result
      /\ served' = served /\ count' = count /\ intact' = intact
  BY DEF Lose, client, receiver, history
<1>2. /\ Asked' \subseteq Asked /\ Told(p)' \subseteq Told(p)
      /\ Trails(requests, msg[p]) => Trails(requests', msg[p])
      /\ AtMostOne(requests, msg[p]) => AtMostOne(requests', msg[p])
  <2>1. ASSUME NEW i \in DOMAIN requests, requests' = RemoveAt(requests, i), replies' = replies
        PROVE  /\ Asked' \subseteq Asked /\ Told(p)' \subseteq Told(p)
               /\ Trails(requests, msg[p]) => Trails(requests', msg[p])
               /\ AtMostOne(requests, msg[p]) => AtMostOne(requests', msg[p])
    <3>1. requests' \in Seq(Messages) /\ Kept(requests, requests')
      BY <1>0, <2>1, Entries, RemoveIs
    <3> QED
      BY <1>0, <2>1, <3>1, KeptIs DEF Asked, Told
  <2>2. ASSUME NEW i \in DOMAIN replies[p], requests' = requests,
               replies' = [replies EXCEPT ![p] = RemoveAt(replies[p], i)]
        PROVE  /\ Asked' \subseteq Asked /\ Told(p)' \subseteq Told(p)
               /\ Trails(requests, msg[p]) => Trails(requests', msg[p])
               /\ AtMostOne(requests, msg[p]) => AtMostOne(requests', msg[p])
    <3>1. replies[p] \in Seq(Replies) /\ replies'[p] = RemoveAt(replies[p], i)
      BY <1>0, <2>2 DEF TypeOK, IInv, Typed
    <3>2. replies'[p] \in Seq(Replies) /\ Kept(replies[p], replies'[p])
      BY <2>2, <3>1, Entries, RemoveIs
    <3> QED
      BY <2>2, <3>1, <3>2, KeptIs DEF Asked, Told
  <2> QED
    BY <2>1, <2>2 DEF Lose, Alone
<1>3. InFlight(p)' \subseteq InFlight(p)
  BY <1>2 DEF InFlight
<1>4. /\ Honest(p)' /\ Trails(requests', msg[p])
      /\ pc[p] # "ready" => result[p] = "NONE"
  BY <1>0, <1>1, <1>2 DEF Inv, Honest, Numbering, Control
<1> QED
  BY <1>1, <1>2, <1>3, <1>4, Quieter

-----------------------------------------------------------------------------
(* The receiver serves a request                                           *)

\* The request that is served: it is the client's message if it has its number,
\* and then no other request is left.
LEMMA HeadIs ==
    ASSUME NEW p \in Processes, IInv(p),
           requests # <<>>, requests' = Tail(requests), msg'[p] = msg[p],
           NEW f, f = Head(requests)
    PROVE  /\ requests' \in Seq(Messages) /\ Len(requests') <= Capacity
           /\ f \in Messages /\ f \in Asked /\ Asked' \subseteq Asked /\ f.seq \in InFlight(p)
           /\ msg[p] \in Messages /\ msg[p].seq = seq[p] /\ (f.seq = seq[p] <=> f = msg[p])
           /\ Trails(requests', msg[p])
           /\ AtMostOne(requests, msg[p]) => AtMostOne(requests', msg[p])
           /\ OnlyMine(p) \/ f = msg[p] => OnlyMine(p)'
           /\ AtMostOne(requests, msg[p]) /\ f = msg[p] => msg[p] \notin Asked'
<1>0. /\ TypeOK /\ Inv(p) /\ requests \in Seq(Messages) /\ Len(requests) <= Capacity
      /\ Len(requests) \in Nat /\ Capacity \in Nat
  BY ClientAssumption, LenProperties DEF IInv, Typed, TypeOK
<1>1. /\ f \in Messages /\ f \in Asked
      /\ requests' \in Seq(Messages) /\ Len(requests') = Len(requests) - 1
      /\ Kept(requests, requests')
      /\ Trails(requests, f) => \A g \in Asked' : g = f
      /\ AtMostOne(requests, f) => f \notin Asked'
  BY <1>0, TailIs DEF Asked
<1>2. /\ Asked' \subseteq Asked
      /\ \A g : Trails(requests, g) => Trails(requests', g)
      /\ \A g : AtMostOne(requests, g) => AtMostOne(requests', g)
  BY <1>0, <1>1, KeptIs DEF Asked
<1>3. f.seq \in InFlight(p)
  BY <1>1 DEF InFlight
<1>4. msg[p] \in Messages /\ msg[p].seq = seq[p]
  BY <1>0, <1>3 DEF Inv, Control
<1>5. (f.seq = seq[p] <=> f = msg[p]) /\ Trails(requests, msg[p])
  BY <1>0, <1>1, <1>4 DEF Inv, Numbering
<1>6. OnlyMine(p) \/ f = msg[p] => OnlyMine(p)'
  BY <1>1, <1>2, <1>5 DEF OnlyMine
<1>7. Len(requests') <= Capacity
  BY <1>0, <1>1
<1> QED
  BY <1>1, <1>2, <1>3, <1>4, <1>5, <1>6, <1>7

\* A reply is added to the frames on their way to the client, or dropped.
LEMMA DeliverIs ==
    ASSUME NEW p, Alone(p), Typed, NEW r \in Replies, Deliver(r)
    PROVE  /\ replies' \in [Processes -> Seq(Replies)] /\ Len(replies'[p]) <= Capacity
           /\ Told(p)' \subseteq Told(p) \cup {r}
<1>1. p \in Processes /\ replies[p] \in Seq(Replies) /\ Len(replies[p]) <= Capacity
  BY DEF Alone, Typed, TypeOK
<1>2. replies' = [q \in Processes |-> Put(replies[q], r)] /\ replies'[p] = Put(replies[p], r)
  BY <1>1 DEF Deliver
<1>3. /\ Put(replies[p], r) \in Seq(Replies) /\ Len(Put(replies[p], r)) <= Capacity
      /\ Range(Put(replies[p], r)) \subseteq Range(replies[p]) \cup {r}
  BY <1>1, PutIs
<1> QED
  BY <1>2, <1>3 DEF Told, Alone

\* The answers to a request.
LEMMA AnswersAre ==
    ASSUME NEW f \in Messages, NEW why \in Refusals
    PROVE  /\ Node!Ack(f) \in Replies /\ Node!Ack(f).kind = "ACK"
           /\ Node!Ack(f).type = f.type /\ Node!Ack(f).seq = f.seq
           /\ Node!Error(f, why) \in Replies /\ Node!Error(f, why).kind = "ERROR"
           /\ Node!Error(f, why).type = f.type /\ Node!Error(f, why).seq = f.seq
           /\ Node!Error(f, why).result = why
           /\ [kind |-> "STATUS", type |-> "PING", seq |-> f.seq] \in Replies
  BY DEF Node!Ack, Node!Error, Replies, Messages, Types, Refusals

\* A PING is answered, and nothing else happens.
LEMMA PingStep ==
    ASSUME NEW p, Alone(p), IInv(p), Serve, Ping(Head(requests))
    PROVE  Inv(p)'
<1> DEFINE f == Head(requests)
           r == [kind |-> "STATUS", type |-> "PING", seq |-> f.seq]
<1>0. Typed /\ TypeOK /\ Inv(p) /\ p \in Processes
  BY DEF IInv, Typed, Alone
<1>1. /\ requests # <<>> /\ requests' = Tail(requests)
      /\ state' = state /\ cache' = cache
      /\ pc' = pc /\ seq' = seq /\ msg' = msg /\ attempt' = attempt /\ result' = result
      /\ served' = served /\ count' = count /\ intact' = intact
  BY DEF Serve, Ping, client, receiver
<1>2. /\ f \in Messages /\ f.seq \in InFlight(p) /\ Asked' \subseteq Asked
      /\ Trails(requests', msg[p])
      /\ AtMostOne(requests, msg[p]) => AtMostOne(requests', msg[p])
  BY <1>0, <1>1, HeadIs
<1>3. Told(p)' \subseteq Told(p) \cup {r}
  <2>1. r \in Replies
    BY <1>2, AnswersAre DEF Refusals
  <2>2. Deliver(r)
    BY DEF Ping
  <2> HIDE DEF r
  <2> QED
    BY <1>0, <2>1, <2>2, DeliverIs
<1>4. r.kind = "STATUS" /\ r.seq = f.seq
  OBVIOUS
<1> HIDE DEF f, r
<1>5. InFlight(p)' \subseteq InFlight(p) /\ \A s \in Told(p)' : s \in Told(p) \/ s.kind = "STATUS"
  BY <1>2, <1>3, <1>4 DEF InFlight
<1>6. Honest(p)' /\ (pc[p] # "ready" => result[p] = "NONE")
  BY <1>0, <1>1 DEF Inv, Honest, Control
<1> QED
  BY <1>1, <1>2, <1>5, <1>6, Quieter

\* What every answer to a command leaves as it was: only the served request
\* goes, only a reply with its number comes.
LEMMA Command ==
    ASSUME NEW p, Alone(p), IInv(p), Serve, NEW f, f = Head(requests),
           NEW r \in Replies, r.seq = f.seq, Told(p)' \subseteq Told(p) \cup {r}
    PROVE  /\ requests # <<>> /\ requests' = Tail(requests)
           /\ pc' = pc /\ seq' = seq /\ msg' = msg /\ attempt' = attempt /\ result' = result
           /\ intact' = intact
           /\ Control(p)' /\ Numbering(p)' /\ InFlight(p)' \subseteq InFlight(p)
           /\ NoReuse(p) /\ (Reuse(r) => f # msg[p]) => NoReuse(p)'
<1>0. Typed /\ TypeOK /\ Inv(p) /\ p \in Processes
  BY DEF IInv, Typed, Alone
<1>1. /\ requests # <<>> /\ requests' = Tail(requests)
      /\ pc' = pc /\ seq' = seq /\ msg' = msg /\ attempt' = attempt /\ result' = result
      /\ intact' = intact
  BY DEF Serve, client
<1>2. /\ f.seq \in InFlight(p) /\ Asked' \subseteq Asked /\ Trails(requests', msg[p])
      /\ f.seq = seq[p] <=> f = msg[p]
  BY <1>0, <1>1, HeadIs
<1>3. InFlight(p)' \subseteq InFlight(p)
  BY <1>2 DEF InFlight
<1>4. Control(p)'
  BY <1>0, <1>1, <1>3 DEF Inv, Control
<1>5. Numbering(p)'
  BY <1>0, <1>1, <1>2, <1>3 DEF Inv, Numbering
<1>6. NoReuse(p) /\ (Reuse(r) => f # msg[p]) => NoReuse(p)'
  BY <1>1, <1>2 DEF NoReuse
<1> QED
  BY <1>1, <1>3, <1>4, <1>5, <1>6

\* The request in the cache is acknowledged again.
LEMMA ReplayStep ==
    ASSUME NEW p, Alone(p), IInv(p), Serve,
           NEW f, f = Head(requests), f.type # "PING", Replay(f)
    PROVE  Inv(p)' /\ served'[p] \in BOOLEAN
<1> DEFINE r == Node!Ack(f)
<1>0. Typed /\ TypeOK /\ Inv(p) /\ p \in Processes /\ served[p] \in BOOLEAN
  BY DEF IInv, Typed, Alone, TypeOK
<1>1. /\ f = cache /\ state' = state /\ cache' = cache /\ count' = count
      /\ Deliver(r) /\ served' = [q \in Processes |-> served[q] \/ f = msg[q]]
  BY DEF Replay, Node!Replay, Node!Replayed, Node!node, Acknowledge
<1>2. served'[p] = (served[p] \/ f = msg[p])
  BY <1>0, <1>1
<1>3. served'[p] <=> served[p] \/ f = msg[p]
  BY <1>0, <1>2
<1>4. msg' = msg /\ requests # <<>> /\ requests' = Tail(requests)
  BY DEF Serve, client
<1>5. /\ f \in Messages /\ Asked' \subseteq Asked
      /\ msg[p] \in Messages /\ msg[p].seq = seq[p] /\ (f.seq = seq[p] <=> f = msg[p])
      /\ AtMostOne(requests, msg[p]) => AtMostOne(requests', msg[p])
      /\ OnlyMine(p) \/ f = msg[p] => OnlyMine(p)'
  BY <1>0, <1>4, HeadIs
<1>6. r \in Replies /\ r.kind = "ACK" /\ r.type = f.type /\ r.seq = f.seq
  BY <1>5, AnswersAre DEF Refusals
<1> HIDE DEF r
<1>7. Told(p)' \subseteq Told(p) \cup {r}
  BY <1>0, <1>1, <1>6, DeliverIs
<1>8. ~Reuse(r)
  BY <1>6 DEF Reuse
<1>9. /\ pc' = pc /\ seq' = seq /\ attempt' = attempt /\ result' = result
      /\ intact' = intact
      /\ Control(p)' /\ Numbering(p)' /\ InFlight(p)' \subseteq InFlight(p)
      /\ NoReuse(p) => NoReuse(p)'
  BY <1>6, <1>7, <1>8, Command
<1>10. Cached'
  BY <1>0, <1>1 DEF Inv, Cached
<1>11. Wrapped(p)' /\ Refused(p)' /\ Second(p)'
  BY <1>0, <1>1, <1>4, <1>5, <1>9 DEF Inv, Wrapped, Refused, Second
<1>12. Truthful(p)'
  BY <1>0, <1>3, <1>4, <1>5, <1>6, <1>7, <1>9 DEF Inv, Truthful
<1>13. Served(p)'
  <2>1. CASE f = msg[p]
    <3>1. f # NoMessage
      BY <1>5 DEF Messages, NoMessage
    <3>2. f.dest = "NODE"
      BY <1>0, <1>1, <3>1 DEF Inv, Cached
    <3> QED
      BY <1>1, <1>4, <1>5, <2>1, <3>2 DEF Served
  <2>2. CASE f # msg[p]
    BY <1>0, <1>1, <1>3, <1>4, <1>5, <1>9, <2>2 DEF Inv, Served
  <2> QED
    BY <2>1, <2>2
<1>14. AtMostOnce(p)'
  <2>1. count[p] = 1 /\ msg[p].dest = "NODE" => cache = msg[p] /\ OnlyMine(p)'
    BY <1>0, <1>5 DEF Inv, AtMostOnce
  <2> QED
    BY <1>0, <1>1, <1>4, <1>5, <1>9, <2>1 DEF Inv, AtMostOnce
<1>15. Honest(p)'
  BY <1>0, <1>3, <1>9 DEF Inv, Honest
<1> QED
  BY <1>2, <1>9, <1>10, <1>11, <1>12, <1>13, <1>14, <1>15 DEF Inv

\* A command is refused: because its number was used for another, and then it
\* is the client's only if it is the last one asked; or for the hardware.
LEMMA RefuseStep ==
    ASSUME NEW p, Alone(p), IInv(p), Serve,
           NEW f, f = Head(requests), NEW why \in Refusals, Refuse(f, why)
    PROVE  Inv(p)'
<1> DEFINE r == Node!Error(f, why)
<1>0. Typed /\ TypeOK /\ Inv(p) /\ p \in Processes
  BY DEF IInv, Typed, Alone
<1>1. /\ f # cache /\ state' = state /\ cache' = cache /\ count' = count /\ served' = served
      /\ why = "SEQUENCE_REUSE" => cache # NoMessage /\ f.seq = cache.seq
      /\ Deliver(r) \/ replies' = replies
  BY DEF Refuse, Node!Refuse, Node!Replayed, Node!Reused, Node!SameKey, Node!node
<1>4. msg' = msg /\ requests # <<>> /\ requests' = Tail(requests)
  BY DEF Serve, client
<1>5. /\ f \in Messages /\ Asked' \subseteq Asked
      /\ msg[p] \in Messages /\ msg[p].seq = seq[p] /\ (f.seq = seq[p] <=> f = msg[p])
      /\ AtMostOne(requests, msg[p]) => AtMostOne(requests', msg[p])
      /\ OnlyMine(p) \/ f = msg[p] => OnlyMine(p)'
  BY <1>0, <1>4, HeadIs
<1>6. /\ r \in Replies /\ r.kind = "ERROR" /\ r.type = f.type /\ r.seq = f.seq
      /\ Reuse(r) <=> why = "SEQUENCE_REUSE"
  BY <1>5, AnswersAre DEF Reuse
<1> HIDE DEF r
<1>7. Told(p)' \subseteq Told(p) \cup {r}
  BY <1>0, <1>1, <1>6, DeliverIs DEF Told
<1>9. /\ pc' = pc /\ seq' = seq /\ attempt' = attempt /\ result' = result
      /\ intact' = intact
      /\ Control(p)' /\ Numbering(p)' /\ InFlight(p)' \subseteq InFlight(p)
      /\ NoReuse(p) /\ (Reuse(r) => f # msg[p]) => NoReuse(p)'
  BY <1>6, <1>7, Command
<1>10. Cached'
  BY <1>0, <1>1 DEF Inv, Cached
<1>11. Wrapped(p)' /\ Refused(p)' /\ Second(p)'
  <2>1. CASE Reuse(r) => f # msg[p]
    BY <1>0, <1>1, <1>4, <1>5, <1>9, <2>1 DEF Inv, Wrapped, Refused, Second
  <2>2. CASE Reuse(r) /\ f = msg[p]
    <3>1. cache # NoMessage /\ cache.seq = seq[p] /\ cache # msg[p] /\ OnlyMine(p)'
      BY <1>1, <1>5, <1>6, <2>2
    <3>2. ~(cache.seq < seq[p])
      BY <1>0, <3>1 DEF TypeOK, Seqs
    <3>3. Wrapped(p)'
      BY <1>0, <1>9, <3>1, <3>2 DEF Inv, Wrapped
    <3>4. Refused(p)'
      BY <1>1, <1>9, <3>1 DEF Refused
    <3>5. Second(p)'
      BY <1>0, <1>9, <3>1 DEF Inv, Second
    <3> QED
      BY <3>3, <3>4, <3>5
  <2> QED
    BY <2>1, <2>2
<1>12. Truthful(p)'
  BY <1>0, <1>1, <1>4, <1>5, <1>6, <1>7, <1>9 DEF Inv, Truthful
<1>13. Served(p)'
  BY <1>0, <1>1, <1>4, <1>5, <1>9 DEF Inv, Served
<1>14. AtMostOnce(p)'
  <2>1. count[p] = 1 /\ msg[p].dest = "NODE" => cache = msg[p] /\ OnlyMine(p)'
    BY <1>0, <1>5 DEF Inv, AtMostOnce
  <2> QED
    BY <1>0, <1>1, <1>4, <1>5, <1>9, <2>1 DEF Inv, AtMostOnce
<1>15. Honest(p)'
  BY <1>0, <1>1, <1>9 DEF Inv, Honest
<1> QED
  BY <1>9, <1>10, <1>11, <1>12, <1>13, <1>14, <1>15 DEF Inv

\* A command is carried out.  If it is the client's, then for the first time,
\* and no request is left but repetitions of it; if not, the client's own was
\* neither answered nor carried out.
LEMMA ExecuteStep ==
    ASSUME NEW p, Alone(p), IInv(p), Serve,
           NEW f, f = Head(requests), f.type # "PING", Execute(f)
    PROVE  Inv(p)' /\ served'[p] \in BOOLEAN /\ state' \in Values
           /\ count'[p] \in 0..2 /\ cache' \in Messages \cup {NoMessage}
<1> DEFINE r == Node!Ack(f)
<1>0. /\ Typed /\ TypeOK /\ Inv(p) /\ p \in Processes /\ served[p] \in BOOLEAN
      /\ state \in Values
  BY DEF IInv, Typed, Alone, TypeOK
<1>4. msg' = msg /\ requests # <<>> /\ requests' = Tail(requests)
  BY DEF Serve, client
<1>5. /\ f \in Messages /\ f \in Asked /\ Asked' \subseteq Asked /\ f.seq \in InFlight(p)
      /\ msg[p] \in Messages /\ msg[p].seq = seq[p] /\ (f.seq = seq[p] <=> f = msg[p])
      /\ AtMostOne(requests, msg[p]) => AtMostOne(requests', msg[p])
      /\ OnlyMine(p) \/ f = msg[p] => OnlyMine(p)'
      /\ AtMostOne(requests, msg[p]) /\ f = msg[p] => msg[p] \notin Asked'
  BY <1>0, <1>4, HeadIs
<1>1. /\ f # cache /\ state' = f.value
      /\ f.dest = "NODE" => cache' = f
      /\ f.dest = "ALL" => cache' = NoMessage
  BY <1>0, <1>5 DEF Execute, Node!CarryOut, Node!Replayed, Messages
<1>2. count'[p] = (IF f = msg[p] THEN count[p] + 1 ELSE count[p])
  BY <1>0 DEF Execute
<1>3. \/ f.dest = "ALL" /\ replies' = replies /\ served' = served
      \/ /\ f.dest = "NODE" /\ Deliver(r)
         /\ served' = [q \in Processes |-> served[q] \/ f = msg[q]]
  BY <1>5 DEF Execute, Acknowledge, Messages
<1>6. /\ r \in Replies /\ r.kind = "ACK" /\ r.type = f.type /\ r.seq = f.seq
  BY <1>5, AnswersAre DEF Refusals
<1> HIDE DEF r
<1>7. Told(p)' \subseteq Told(p) \cup {r} /\ (f.dest = "ALL" => Told(p)' = Told(p))
  BY <1>0, <1>3, <1>6, DeliverIs DEF Told
<1>8. served'[p] = served[p] \/ served'[p] = (served[p] \/ f = msg[p])
  BY <1>0, <1>3
<1>9. /\ pc' = pc /\ seq' = seq /\ attempt' = attempt /\ result' = result
      /\ intact' = intact
      /\ Control(p)' /\ Numbering(p)' /\ InFlight(p)' \subseteq InFlight(p)
      /\ NoReuse(p) => NoReuse(p)'
  <2>1. ~Reuse(r)
    BY <1>6 DEF Reuse
  <2> QED
    BY <1>6, <1>7, <2>1, Command
<1>10. \/ f.dest = "NODE" /\ cache' = f
       \/ f.dest = "ALL" /\ cache' = NoMessage
  BY <1>1, <1>5 DEF Messages
<1>11. Cached'
  BY <1>1, <1>10 DEF Cached
<1>12. served'[p] <=> served[p] \/ (f.dest = "NODE" /\ f = msg[p])
  <2>1. CASE f.dest = "ALL"
    BY <1>3, <2>1
  <2>2. CASE f.dest = "NODE"
    <3>1. served'[p] = (served[p] \/ f = msg[p])
      BY <1>0, <1>3, <2>2
    <3> QED
      BY <1>0, <2>2, <3>1
  <2> QED
    BY <1>10, <2>1, <2>2
<1>13. Truthful(p)'
  BY <1>0, <1>4, <1>5, <1>6, <1>7, <1>9, <1>10, <1>12 DEF Inv, Truthful
<1>14. Honest(p)'
  BY <1>0, <1>9, <1>12 DEF Inv, Honest
<1>15. /\ seq[p] \in Nat /\ f.seq \in Nat /\ count[p] \in {0, 1}
       /\ f # NoMessage
  BY <1>0, <1>5 DEF Inv, AtMostOnce, TypeOK, Messages, NoMessage, Seqs
<1>16. ASSUME f = msg[p]
       PROVE  /\ Wrapped(p)' /\ Refused(p)' /\ Second(p)' /\ Served(p)' /\ AtMostOnce(p)'
              /\ count'[p] \in 0..2
  <2>1. count[p] = 0
    <3>1. CASE f.dest = "NODE"
      BY <1>0, <1>1, <1>15, <1>16, <3>1 DEF Inv, AtMostOnce
    <3>2. CASE f.dest = "ALL"
      BY <1>0, <1>5, <1>15, <1>16, <3>2 DEF Inv, AtMostOnce
    <3> QED
      BY <1>10, <3>1, <3>2
  <2>2. count'[p] = 1
    BY <1>2, <1>16, <2>1
  <2>3. OnlyMine(p)' /\ (cache' = NoMessage \/ cache' = msg[p]) /\ (f.dest = "NODE" => cache' = msg[p])
    BY <1>5, <1>10, <1>16
  <2>4. Wrapped(p)'
    BY <1>0, <1>4, <1>9, <2>3 DEF Inv, Wrapped
  <2>5. Refused(p)'
    BY <1>4, <1>5, <1>9, <2>3 DEF Refused
  <2>6. Second(p)'
    BY <1>0, <1>4, <1>9, <2>3 DEF Inv, Second
  <2>7. Served(p)'
    <3>1. CASE served[p]
      <4>1. msg[p].dest = "NODE" /\ msg[p].type # "PING"
        BY <1>0, <3>1 DEF Inv, Served
      <4> QED
        BY <1>4, <1>5, <1>16, <2>3, <4>1 DEF Served
    <3>2. CASE ~served[p]
      BY <1>4, <1>5, <1>12, <1>16, <2>3, <3>2 DEF Served
    <3> QED
      BY <3>1, <3>2
  <2>8. AtMostOnce(p)'
    <3>1. CASE f.dest = "NODE"
      BY <1>4, <1>16, <2>2, <2>3, <3>1 DEF AtMostOnce
    <3>2. CASE f.dest = "ALL"
      <4>1. AtMostOne(requests, msg[p]) /\ pc[p] # "send"
        BY <1>0, <1>5, <1>15, <1>16, <3>2 DEF Inv, AtMostOnce
      <4> QED
        BY <1>4, <1>5, <1>9, <1>16, <2>2, <3>2, <4>1 DEF AtMostOnce
    <3> QED
      BY <1>10, <3>1, <3>2
  <2>9. count'[p] \in 0..2
    BY <2>2
  <2> QED
    BY <2>4, <2>5, <2>6, <2>7, <2>8, <2>9
<1>17. ASSUME f # msg[p]
       PROVE  /\ Wrapped(p)' /\ Refused(p)' /\ Second(p)' /\ Served(p)' /\ AtMostOnce(p)'
              /\ count'[p] \in 0..2
  <2>1. ~OnlyMine(p) /\ f.seq # seq[p]
    BY <1>5, <1>17 DEF OnlyMine
  <2>2. ~served[p] /\ NoReuse(p) /\ NoReuse(p)'
    BY <1>0, <1>9, <2>1 DEF Inv, Served, Refused
  <2>3. seq[p] # 0 => f.seq < seq[p]
    <3>1. seq[p] # 0 => f.seq <= seq[p]
      BY <1>0, <1>5 DEF Inv, Numbering
    <3> QED
      BY <1>15, <2>1, <3>1
  <2>4. cache' = NoMessage \/ cache'.seq = f.seq
    BY <1>10
  <2>5. Wrapped(p)' /\ Refused(p)' /\ Second(p)'
    BY <1>9, <2>1, <2>2, <2>3, <2>4 DEF Wrapped, Refused, Second
  <2>6. Served(p)'
    BY <1>12, <1>17, <2>2 DEF Served
  <2>7. count'[p] = count[p] /\ count'[p] \in 0..2
    BY <1>2, <1>15, <1>17
  <2>8. AtMostOnce(p)'
    BY <1>0, <1>4, <1>5, <1>9, <2>1, <2>7 DEF Inv, AtMostOnce
  <2> QED
    BY <2>5, <2>6, <2>7, <2>8
<1>18. served'[p] \in BOOLEAN
  BY <1>0, <1>8
<1>19. state' \in Values /\ cache' \in Messages \cup {NoMessage}
  BY <1>1, <1>5, <1>10 DEF Messages
<1> QED
  BY <1>9, <1>11, <1>13, <1>14, <1>15, <1>16, <1>17, <1>18, <1>19 DEF Inv

-----------------------------------------------------------------------------
(* Types                                                                   *)

\* The steps of the client keep the types.
LEMMA ClientTyped ==
    ASSUME NEW p, Alone(p), IInv(p),
           \/ \E c \in Calls : Call(p, c)
           \/ Send(p) \/ SendFails(p) \/ Timeout(p) \/ Receive(p) \/ Restart(p)
    PROVE  Typed'
<1> USE DEF Typed
<1>0. /\ p \in Processes /\ Typed /\ TypeOK /\ replies[p] \in Seq(Replies)
      /\ Len(replies[p]) <= Capacity /\ Len(replies[p]) \in Nat /\ Capacity \in Nat
      /\ \A q \in Processes : q = p
  BY ClientAssumption, LenProperties DEF Alone, IInv, TypeOK
<1>1. Retries \in 0..Retries /\ 0 \in Seqs /\ NextSeq(p) \in Seqs
  BY <1>0, ClientAssumption, NextSeqIs DEF Seqs, TypeOK
<1>2. ASSUME NEW c, c \in Calls \/ c \in Messages, NewMessage(p, c)
      PROVE  /\ seq' \in [Processes -> Seqs] /\ msg' \in [Processes -> Messages \cup {NoMessage}]
             /\ tries' \in [Processes -> 0..Retries]
             /\ served' \in [Processes -> BOOLEAN] /\ intact' \in [Processes -> BOOLEAN]
             /\ count' \in [Processes -> 0..2]
  <2>1. msg'[p] \in Messages
    BY <1>0, <1>2, NewMessageIs
  <2>2. [type |-> c.type, dest |-> c.dest, value |-> c.value, seq |-> NextSeq(p)] \in Messages
    BY <1>0, <1>2, <2>1 DEF NewMessage, TypeOK
  <2> QED
    BY <1>0, <1>1, <1>2, <2>2 DEF NewMessage, TypeOK
<1>3. ASSUME NEW c \in Calls, Call(p, c) PROVE Typed'
  BY <1>0, <1>2, <1>3 DEF Call, Goto, bus, receiver, TypeOK
<1>4. ASSUME NEW s \in {"ACK", "STATUS", "SENT", "TIMEOUT", "FAILED", "PROTOCOL"} \cup Refusals,
             Return(p, s)
      PROVE  /\ pc' \in [Processes -> {"ready", "send", "await"}]
             /\ result' \in [Processes -> {"NONE", "ACK", "STATUS", "SENT", "TIMEOUT",
                                           "FAILED", "PROTOCOL"} \cup Refusals]
             /\ UNCHANGED <<seq, msg, tries, attempt, history>>
  BY <1>0, <1>4 DEF Return, Goto, TypeOK
<1>5. CASE Send(p)
  <2>1. msg[p] \in Messages
    BY <1>5 DEF IInv, Inv, Control, Send
  <2>2. requests' \in Seq(Messages) /\ Len(requests') <= Capacity
    BY <1>0, <1>5, <2>1, PutIs DEF Send, TypeOK
  <2>3. /\ pc' \in [Processes -> {"ready", "send", "await"}]
        /\ result' \in [Processes -> {"NONE", "ACK", "STATUS", "SENT", "TIMEOUT",
                                      "FAILED", "PROTOCOL"} \cup Refusals]
        /\ UNCHANGED <<seq, msg, tries, attempt, history>>
    BY <1>0, <1>4, <1>5 DEF Send, Goto, TypeOK
  <2> QED
    BY <1>0, <1>5, <2>2, <2>3 DEF Send, receiver, history, TypeOK
<1>6. CASE SendFails(p)
  BY <1>0, <1>4, <1>6 DEF SendFails, bus, receiver, history, TypeOK
<1>7. CASE Timeout(p)
  <2>1. CASE tries[p] > 0
    <3>1. tries[p] \in 0..Retries /\ Retries \in Nat
      BY <1>0, ClientAssumption DEF TypeOK
    <3>2. tries[p] - 1 \in 0..Retries
      BY <2>1, <3>1
    <3>3. tries' = [tries EXCEPT ![p] = tries[p] - 1]
      BY <1>7, <2>1 DEF Timeout
    <3>4. tries' \in [Processes -> 0..Retries]
      BY <1>0, <3>2, <3>3 DEF TypeOK
    <3> QED
      BY <1>0, <1>7, <2>1, <3>4 DEF Timeout, Goto, bus, receiver, history, TypeOK
  <2>2. CASE ~(tries[p] > 0)
    BY <1>0, <1>4, <1>7, <2>2 DEF Timeout, bus, receiver, history, TypeOK
  <2> QED
    BY <2>1, <2>2
<1>8. CASE Receive(p)
  <2>1. PICK i \in DOMAIN replies[p] :
          /\ replies' = [replies EXCEPT ![p] = RemoveAt(replies[p], i)]
          /\ \/ UNCHANGED <<client, history>>
             \/ Matches(p, replies[p][i]) /\ Answered(p, replies[p][i])
    BY <1>8 DEF Receive
  <2>2. i \in 1..Len(replies[p]) /\ replies[p][i] \in Replies
    BY <1>0, <2>1, Entries
  <2>3. RemoveAt(replies[p], i) \in Seq(Replies) /\ Len(RemoveAt(replies[p], i)) = Len(replies[p]) - 1
    BY <1>0, <2>2, RemoveIs
  <2>4. /\ replies' \in [Processes -> Seq(Replies)]
        /\ \A q \in Processes : replies'[q] \in Seq(Replies) /\ Len(replies'[q]) <= Capacity
    BY <1>0, <2>1, <2>3
  <2>5. requests' = requests /\ state' = state /\ cache' = cache
    BY <1>8 DEF Receive, receiver
  <2>6. CASE UNCHANGED <<client, history>>
    BY <1>0, <2>4, <2>5, <2>6 DEF client, history, TypeOK
  <2>7. CASE Answered(p, replies[p][i])
    <3> DEFINE r == replies[p][i]
    <3>1. r.kind = "ERROR" => r.result \in Refusals
      BY <2>2 DEF Replies
    <3> HIDE DEF r
    <3>2. CASE /\ NewMessage(p, msg[p]) /\ Goto(p, "send")
               /\ attempt' = [attempt EXCEPT ![p] = 1]
               /\ UNCHANGED result
      <4>1. msg[p] \in Messages
        BY <1>8 DEF IInv, Inv, Control, Receive
      <4> QED
        BY <1>0, <1>2, <2>4, <2>5, <3>2, <4>1 DEF Goto, TypeOK
    <3>3. CASE \E s \in {"ACK", "STATUS", "SENT", "TIMEOUT", "FAILED", "PROTOCOL"} \cup Refusals :
                 Return(p, s)
      <4>1. /\ pc' \in [Processes -> {"ready", "send", "await"}]
            /\ result' \in [Processes -> {"NONE", "ACK", "STATUS", "SENT", "TIMEOUT",
                                          "FAILED", "PROTOCOL"} \cup Refusals]
            /\ UNCHANGED <<seq, msg, tries, attempt, history>>
        BY <1>4, <3>3
      <4> QED
        BY <1>0, <2>4, <2>5, <4>1 DEF history, TypeOK
    <3> QED
      BY <2>7, <3>1, <3>2, <3>3 DEF Answered, r
  <2> QED
    BY <2>1, <2>6, <2>7
<1>9. CASE Restart(p)
  BY <1>0, <1>1, <1>9 DEF Restart, Goto, bus, receiver, history, TypeOK
<1> QED
  BY <1>3, <1>5, <1>6, <1>7, <1>8, <1>9

\* The steps of the receiver and the bus keep the types.
LEMMA NodeTyped ==
    ASSUME NEW p, Alone(p), IInv(p), Serve \/ NodeReset \/ Lose
    PROVE  Typed'
<1> USE DEF Typed
<1>0. /\ p \in Processes /\ Typed /\ TypeOK /\ replies[p] \in Seq(Replies)
      /\ Len(replies[p]) <= Capacity /\ Len(replies[p]) \in Nat /\ Capacity \in Nat
      /\ requests \in Seq(Messages) /\ Len(requests) <= Capacity /\ Len(requests) \in Nat
      /\ \A q \in Processes : q = p
  BY ClientAssumption, LenProperties DEF Alone, IInv, TypeOK
<1>1. CASE Serve
  <2> DEFINE f == Head(requests)
  <2>1. /\ requests' \in Seq(Messages) /\ Len(requests') <= Capacity /\ f \in Messages
    BY <1>0, <1>1, HeadIs DEF Serve, client
  <2>2. /\ pc' = pc /\ seq' = seq /\ msg' = msg /\ tries' = tries /\ attempt' = attempt
        /\ result' = result /\ intact' = intact
        /\ \/ Ping(f)
           \/ f.type # "PING" /\ (Replay(f) \/ Execute(f) \/ \E why \in Refusals : Refuse(f, why))
    BY <1>1 DEF Serve, client
  <2> DEFINE Rest == /\ state' \in Values /\ cache' \in Messages \cup {NoMessage}
                     /\ served' \in [Processes -> BOOLEAN] /\ count' \in [Processes -> 0..2]
             Room == /\ replies' \in [Processes -> Seq(Replies)]
                     /\ \A q \in Processes : replies'[q] \in Seq(Replies) /\ Len(replies'[q]) <= Capacity
             same == state' = state /\ cache' = cache /\ served' = served /\ count' = count
  <2>3. ASSUME NEW r \in Replies, Deliver(r) PROVE Room
    <3>1. replies' \in [Processes -> Seq(Replies)] /\ Len(replies'[p]) <= Capacity
      BY <1>0, <2>3, DeliverIs
    <3> QED
      BY <1>0, <3>1
  <2>4. ASSUME replies' = replies PROVE Room
    BY <1>0, <2>4 DEF TypeOK
  <2>5. ASSUME same PROVE Rest
    BY <1>0, <2>5 DEF TypeOK
  <2>6. /\ \A why \in Refusals : Node!Error(f, why) \in Replies
        /\ Node!Ack(f) \in Replies /\ [kind |-> "STATUS", type |-> "PING", seq |-> f.seq] \in Replies
    BY <2>1, AnswersAre DEF Refusals
  <2> HIDE DEF f
  <2>7. ASSUME Ping(f) PROVE Room /\ Rest
    <3>1. Room
      BY <2>3, <2>6, <2>7 DEF Ping
    <3>2. same
      BY <2>7 DEF Ping, receiver
    <3> QED
      BY <2>5, <3>1, <3>2
  <2>8. ASSUME \E why \in Refusals : Refuse(f, why) PROVE Room /\ Rest
    <3>1. Room
      BY <2>3, <2>4, <2>6, <2>8 DEF Refuse
    <3>2. same
      BY <2>8 DEF Refuse, Node!Refuse, Node!node
    <3> QED
      BY <2>5, <3>1, <3>2
  <2>9. ASSUME Acknowledge(f) PROVE Room /\ served' \in [Processes -> BOOLEAN]
    <3>1. Room
      BY <2>3, <2>6, <2>9 DEF Acknowledge
    <3>2. served' = [q \in Processes |-> served[q] \/ f = msg[q]]
      BY <2>9 DEF Acknowledge
    <3>3. \A q \in Processes : (served[q] \/ f = msg[q]) \in BOOLEAN
      OBVIOUS
    <3> QED
      BY <3>1, <3>2, <3>3
  <2>10. ASSUME Replay(f) PROVE Room /\ Rest
    <3>1. Room /\ served' \in [Processes -> BOOLEAN]
      BY <2>9, <2>10 DEF Replay
    <3>2. state' = state /\ cache' = cache /\ count' = count
      BY <2>10 DEF Replay, Node!Replay, Node!node
    <3> QED
      BY <1>0, <3>1, <3>2 DEF TypeOK
  <2>11. ASSUME f.type # "PING", Execute(f) PROVE Room /\ Rest
    <3>1. Room /\ served' \in [Processes -> BOOLEAN]
      BY <1>0, <2>4, <2>9, <2>11 DEF Execute, TypeOK
    <3>2. state' \in Values /\ cache' \in Messages \cup {NoMessage} /\ count'[p] \in 0..2
      BY <1>1, <2>11, ExecuteStep DEF f
    <3>3. count' \in [Processes -> 0..2]
      <4>1. count' = [q \in Processes |-> IF f = msg[q] THEN count[q] + 1 ELSE count[q]]
        BY <2>11 DEF Execute
      <4> QED
        BY <1>0, <3>2, <4>1
    <3> QED
      BY <3>1, <3>2, <3>3
  <2>12. Room /\ Rest
    BY <2>2, <2>7, <2>8, <2>10, <2>11
  <2> QED
    BY <1>0, <2>1, <2>2, <2>12 DEF TypeOK
<1>2. CASE NodeReset
  BY <1>0, <1>2, ClientAssumption DEF NodeReset, Node!Reset, All, client, bus, TypeOK
<1>3. CASE Lose
  <2>1. UNCHANGED <<client, receiver, history>>
    BY <1>3 DEF Lose
  <2>2. /\ requests' \in Seq(Messages) /\ Len(requests') <= Capacity
        /\ replies' \in [Processes -> Seq(Replies)]
        /\ \A q \in Processes : replies'[q] \in Seq(Replies) /\ Len(replies'[q]) <= Capacity
    <3>1. CASE \E i \in DOMAIN requests : requests' = RemoveAt(requests, i) /\ UNCHANGED replies
      <4>1. PICK i \in DOMAIN requests : requests' = RemoveAt(requests, i) /\ replies' = replies
        BY <3>1
      <4>2. requests' \in Seq(Messages) /\ Len(requests') = Len(requests) - 1
        BY <1>0, <4>1, Entries, RemoveIs
      <4> QED
        BY <1>0, <4>1, <4>2
    <3>2. CASE \E q \in Processes : \E i \in DOMAIN replies[q] :
                 replies' = [replies EXCEPT ![q] = RemoveAt(@, i)] /\ UNCHANGED requests
      <4>1. PICK i \in DOMAIN replies[p] :
              replies' = [replies EXCEPT ![p] = RemoveAt(replies[p], i)] /\ requests' = requests
        BY <1>0, <3>2
      <4>2. RemoveAt(replies[p], i) \in Seq(Replies) /\ Len(RemoveAt(replies[p], i)) = Len(replies[p]) - 1
        BY <1>0, <4>1, Entries, RemoveIs
      <4> QED
        BY <1>0, <4>1, <4>2
    <3> QED
      BY <1>3, <3>1, <3>2 DEF Lose
  <2> QED
    BY <1>0, <2>1, <2>2 DEF client, receiver, history, TypeOK
<1> QED
  BY <1>1, <1>2, <1>3

-----------------------------------------------------------------------------
(* The theorems                                                            *)

\* Initially nothing is in flight, nobody has a message.
LEMMA Initially ==
    ASSUME NEW p, Alone(p), Init
    PROVE  IInv(p)
<1>0. p \in Processes /\ Quiet
  BY ClientAssumption DEF Alone, Init, Quiet
<1>1. /\ pc[p] = "ready" /\ seq[p] = 0 /\ msg[p] = NoMessage /\ attempt[p] = 0
      /\ result[p] = "NONE" /\ cache = NoMessage
      /\ served[p] = FALSE /\ count[p] = 0
  BY <1>0 DEF Init, All
<1>2. requests = <<>> /\ replies[p] = <<>> /\ Asked = {} /\ Told(p) = {} /\ InFlight(p) = {}
  BY <1>0, QuietIs
<1>3. Typed
  <2>1. /\ requests \in Seq(Messages) /\ Len(requests) = 0
        /\ replies \in [Processes -> Seq(Replies)]
        /\ \A q \in Processes : replies[q] \in Seq(Replies) /\ Len(replies[q]) = 0
    BY <1>2, EmptySeq DEF Init, All
  <2>2. 0 \in Seqs /\ 0 \in 0..Retries /\ 0 <= Capacity /\ Safe \in Values
    BY ClientAssumption DEF Seqs
  <2> QED
    BY <1>0, <2>1, <2>2 DEF Init, All, Typed, TypeOK
<1>4. NoReuse(p) /\ Control(p) /\ Cached /\ Honest(p)
  BY <1>1, <1>2 DEF NoReuse, Control, Cached, Honest
<1>5. Numbering(p)
  BY <1>1, <1>2 DEF Numbering, Trails
<1>6. Wrapped(p) /\ Refused(p) /\ Second(p) /\ Truthful(p) /\ Served(p)
  BY <1>1, <1>2, <1>4 DEF Wrapped, Refused, Second, Truthful, Served
<1>7. AtMostOnce(p)
  BY <1>1 DEF AtMostOnce
<1> QED
  BY <1>3, <1>4, <1>5, <1>6, <1>7 DEF IInv, Inv

\* Every step keeps the invariant.
LEMMA Step ==
    ASSUME NEW p, Alone(p), IInv(p), [Next]_vars
    PROVE  IInv(p)'
<1>0. p \in Processes /\ Timely /\ \A q \in Processes : q = p
  BY DEF Alone
<1>1. CASE \E c \in Calls : Call(p, c)
  BY <1>0, <1>1, CallStep, ClientTyped DEF IInv
<1>2. CASE Send(p)
  BY <1>0, <1>2, SendStep, ClientTyped DEF IInv
<1>3. CASE SendFails(p) \/ Timeout(p)
  BY <1>0, <1>3, EndStep, ClientTyped DEF IInv
<1>4. CASE Receive(p)
  BY <1>0, <1>4, ReceiveStep, ClientTyped DEF IInv
<1>5. CASE Restart(p)
  BY <1>0, <1>5, RestartStep, ClientTyped DEF IInv
<1>6. CASE Serve
  <2>1. PICK f : f = Head(requests)
    OBVIOUS
  <2>2. \/ Ping(f)
        \/ f.type # "PING" /\ Replay(f)
        \/ f.type # "PING" /\ Execute(f)
        \/ \E why \in Refusals : Refuse(f, why)
    BY <1>6, <2>1 DEF Serve
  <2>3. ASSUME Ping(f) PROVE Inv(p)'
    BY <1>6, <2>1, <2>3, PingStep
  <2>4. ASSUME f.type # "PING", Replay(f) PROVE Inv(p)'
    BY <1>6, <2>1, <2>4, ReplayStep
  <2>5. ASSUME f.type # "PING", Execute(f) PROVE Inv(p)'
    BY <1>6, <2>1, <2>5, ExecuteStep
  <2>6. ASSUME NEW why \in Refusals, Refuse(f, why) PROVE Inv(p)'
    BY <1>6, <2>1, <2>6, RefuseStep
  <2>7. Inv(p)'
    BY <2>2, <2>3, <2>4, <2>5, <2>6
  <2> QED
    BY <1>6, <2>7, NodeTyped DEF IInv
<1>7. CASE NodeReset
  BY <1>0, <1>7, NodeResetStep, NodeTyped DEF IInv
<1>8. CASE Lose
  BY <1>0, <1>8, LoseStep, NodeTyped DEF IInv
<1>9. CASE UNCHANGED vars
  <2>1. Inv(p)'
    BY <1>0, <1>9, EndStep
  <2>2. Typed'
    BY <1>9 DEF IInv, Typed, TypeOK, vars, client, bus, receiver, history
  <2> QED
    BY <2>1, <2>2 DEF IInv
<1> QED
  BY <1>0, <1>1, <1>2, <1>3, <1>4, <1>5, <1>6, <1>7, <1>8, <1>9 DEF Next

\* The invariant: what is in flight between a client and the receiver is always
\* consistent with the client's counter and the receiver's cache.
THEOREM Invariance ==
    ASSUME NEW p, Alone(p)
    PROVE  Spec => []IInv(p)
<1>1. Init => IInv(p)
  BY Initially
<1>2. IInv(p) /\ [Next]_vars => IInv(p)'
  BY Step
<1> QED
  BY <1>1, <1>2, PTL DEF Spec

\* Numbers, queues and results stay in their ranges.
THEOREM TypeCorrect ==
    ASSUME NEW p, Alone(p)
    PROVE  Spec => []TypeOK
<1>1. IInv(p) => TypeOK
  BY DEF IInv, Typed
<1> QED
  BY <1>1, Invariance, PTL

\* A call returns an ACK only when the receiver carried out, or had carried out,
\* the very message of the call: no reply to another call, of this process or an
\* earlier one, is taken for it (client.py:117-166).
THEOREM AcksAreMine ==
    ASSUME NEW p, Alone(p)
    PROVE  Spec => []AckIsMine
<1>1. IInv(p) => AckIsMine
  BY DEF IInv, Inv, Honest, Alone, AckIsMine
<1> QED
  BY <1>1, Invariance, PTL

\* After an ACK the receiver has the commanded setting until it resets or is
\* commanded again: nothing still in flight undoes it (client.py:123-127,
\* can/runtime.c:315-321).
THEOREM AckedStatesStand ==
    ASSUME NEW p, Alone(p)
    PROVE  Spec => []AckedStateStands
<1>1. IInv(p) => AckedStateStands
  <2> SUFFICES ASSUME IInv(p), result[p] = "ACK", intact[p]
               PROVE  state = msg[p].value
    BY DEF Alone, AckedStateStands
  <2>1. msg[p] \in Messages /\ cache = msg[p]
    BY DEF IInv, Inv, Honest, Served
  <2>2. msg[p] # NoMessage
    BY <2>1 DEF Messages, NoMessage
  <2> QED
    BY <2>1, <2>2 DEF IInv, Inv, Cached
<1> QED
  BY <1>1, Invariance, PTL

\* However often a message is resent, delayed and answered again, the receiver
\* carries it out at most once between its resets (can/runtime.c:14,
\* docs/can-protocol.md:94).
THEOREM MessagesCarriedOutOnce ==
    ASSUME NEW p, Alone(p)
    PROVE  Spec => []CarriedOutOnce
<1>1. IInv(p) => CarriedOutOnce
  BY DEF IInv, Inv, AtMostOnce, Alone, CarriedOutOnce
<1> QED
  BY <1>1, Invariance, PTL

\* One new number is enough, also when the counter wraps: no call fails because
\* of the numbers earlier processes used (client.py:118-122).
THEOREM OneNewNumberSuffices ==
    ASSUME NEW p, Alone(p)
    PROVE  Spec => []NumbersSuffice
<1>1. IInv(p) => NumbersSuffice
  BY DEF IInv, Inv, Honest, Alone, NumbersSuffice
<1> QED
  BY <1>1, Invariance, PTL
=============================================================================
