------------------------------- MODULE Client -------------------------------
(***************************************************************************)
(* The Pi side of a command: the BeamControlClient of each process (beamd, *)
(* beamctl) and the receiver they talk to, over a bus that delays and      *)
(* loses frames.  A client numbers its requests, resends one until a reply *)
(* with its number arrives or the retries are used up, and takes a new     *)
(* number once when the receiver says the old one was used.  The threads   *)
(* of a process share it under a lock, so its requests never overlap; a    *)
(* process that ends forgets its counter.  Processes share nothing but the *)
(* interface: all are node 0, and every socket gets every reply.           *)
(*                                                                         *)
(* The receiver is what CommandNode promises, with the attenuation for its *)
(* state; Receiver implements that.  Requests leave the Pi through one     *)
(* queue and stay in order; replies are queued by priority.                *)
(* The requests of another process, which SocketCAN loops back, are left   *)
(* out: their destination is not node 0, and no client takes them.         *)
(***************************************************************************)
EXTENDS Naturals, Sequences, SequencesExt

CONSTANTS
    Processes,          \* the processes with a client on the interface
    SeqCount,           \* SEQ_MASK + 1
    Retries,            \* BeamControlClient(retries=...)
    Values,             \* attenuations that are asked for
    Safe,               \* the attenuation of ENTER_SAFE, and after a reset
    Capacity,           \* frames in flight either way; one more is dropped
    Timely              \* no frame outlives its number: processes start, and
                        \* numbers wrap, only when none is in flight

ASSUME ClientAssumption ==
    /\ SeqCount \in Nat /\ SeqCount > 2
    /\ Retries \in Nat
    /\ Safe \in Values
    /\ Capacity \in Nat \ {0}
    /\ Timely \in BOOLEAN

VARIABLES
    \* Of each process:
    pc,         \* "ready", "send" or "await"
    seq,        \* self._seq
    msg,        \* the message of the transaction, or the last one
    tries,      \* sends left after the next timeout
    attempt,    \* resequence_attempt
    result,     \* how the last call returned or raised
    replies,    \* frames on their way to its socket, or in it
    \* Shared:
    requests,   \* frames on their way to the receiver
    state,      \* the receiver's runtime->state
    cache,      \* its replay cache
    \* History of each process's message, read by the properties only:
    served,     \* the receiver answered this very message with an ACK
    count,      \* times the receiver carried it out since its last reset
    intact      \* the receiver was not reset since the message was made

client == <<pc, seq, msg, tries, attempt, result>>
bus == <<requests, replies>>
receiver == <<state, cache>>
history == <<served, count, intact>>
vars == <<client, bus, receiver, history>>

-----------------------------------------------------------------------------
Seqs == 0..SeqCount - 1
Calls == [type : {"SET_VGA"}, dest : {"NODE"}, value : Values]
         \cup [type : {"ENTER_SAFE"}, dest : {"NODE", "ALL"}, value : {Safe}]
         \cup [type : {"PING"}, dest : {"NODE"}, value : {Safe}]
Types == {"SET_VGA", "ENTER_SAFE", "PING"}
Messages == [type : Types, dest : {"NODE", "ALL"}, value : Values, seq : Seqs]
NoMessage == [type |-> "NONE"]

Refusals == {"HARDWARE", "SEQUENCE_REUSE"}
Replies == [kind : {"ACK", "STATUS"}, type : Types, seq : Seqs]
           \cup [kind : {"ERROR"}, type : Types, seq : Seqs, result : Refusals]

TypeOK ==
    /\ pc \in [Processes -> {"ready", "send", "await"}]
    /\ seq \in [Processes -> Seqs]
    /\ msg \in [Processes -> Messages \cup {NoMessage}]
    /\ tries \in [Processes -> 0..Retries]
    /\ attempt \in [Processes -> 0..1]
    /\ result \in [Processes -> {"NONE", "ACK", "STATUS", "SENT", "TIMEOUT",
                                 "FAILED", "PROTOCOL"} \cup Refusals]
    /\ requests \in Seq(Messages) /\ Len(requests) <= Capacity
    /\ \A p \in Processes : replies[p] \in Seq(Replies) /\ Len(replies[p]) <= Capacity
    /\ state \in Values
    /\ cache \in Messages \cup {NoMessage}
    /\ served \in [Processes -> BOOLEAN] /\ intact \in [Processes -> BOOLEAN]
    /\ count \in [Processes -> 0..2]

All(v) == [p \in Processes |-> v]

Init ==
    /\ pc = All("ready") /\ seq = All(0) /\ msg = All(NoMessage)
    /\ tries = All(0) /\ attempt = All(0) /\ result = All("NONE")
    /\ requests = <<>> /\ replies = All(<<>>)
    /\ state = Safe /\ cache = NoMessage
    /\ served = All(FALSE) /\ count = All(0) /\ intact = All(TRUE)

Quiet == requests = <<>> /\ replies = All(<<>>)

Put(queue, f) == IF Len(queue) < Capacity THEN Append(queue, f) ELSE queue

-----------------------------------------------------------------------------
(* The client                                                              *)

\* Mutant: the counter is not masked.
MutantNextSeq(p) == seq[p] + 1

NextSeq(p) == (seq[p] + 1) % SeqCount

NewMessage(p, c) ==
    /\ seq' = [seq EXCEPT ![p] = NextSeq(p)]
    /\ msg' = [msg EXCEPT ![p] = [type |-> c.type, dest |-> c.dest, value |-> c.value,
                                  seq |-> NextSeq(p)]]
    /\ tries' = [tries EXCEPT ![p] = Retries]
    /\ served' = [served EXCEPT ![p] = FALSE]
    /\ count' = [count EXCEPT ![p] = 0]
    /\ intact' = [intact EXCEPT ![p] = TRUE]

Goto(p, place) == pc' = [pc EXCEPT ![p] = place]

\* enter_safe(), set_vga(), broadcast_enter_safe(), discover().  The wait for
\* Quiet bounds the age of frames, it is not in the code.
Call(p, c) ==
    /\ pc[p] = "ready"
    /\ Timely /\ seq[p] \in {0, SeqCount - 1} => Quiet
    /\ NewMessage(p, c)
    /\ Goto(p, "send")
    /\ attempt' = [attempt EXCEPT ![p] = 0]
    /\ result' = [result EXCEPT ![p] = "NONE"]
    /\ UNCHANGED <<bus, receiver>>

Return(p, r) ==
    /\ Goto(p, "ready")
    /\ result' = [result EXCEPT ![p] = r]
    /\ UNCHANGED <<seq, msg, tries, attempt, history>>

\* A broadcast is not answered and not waited for.
Send(p) ==
    /\ pc[p] = "send"
    /\ requests' = Put(requests, msg[p])
    /\ IF msg[p].dest = "ALL"
       THEN Return(p, "SENT")
       ELSE Goto(p, "await") /\ UNCHANGED <<seq, msg, tries, attempt, result, history>>
    /\ UNCHANGED <<replies, receiver>>

\* The transport raises: the interface is down, its queue is full.
SendFails(p) == pc[p] = "send" /\ Return(p, "FAILED") /\ UNCHANGED <<bus, receiver>>

\* Mutant: every timeout is followed by another send.
MutantTimeout(p) ==
    /\ pc[p] = "await"
    /\ Goto(p, "send")
    /\ UNCHANGED <<seq, msg, tries, attempt, result, bus, receiver, history>>

\* The deadline passes: the exact same message again, or the call raises.
Timeout(p) ==
    /\ pc[p] = "await"
    /\ IF tries[p] > 0
       THEN /\ tries' = [tries EXCEPT ![p] = @ - 1]
            /\ Goto(p, "send")
            /\ UNCHANGED <<seq, msg, attempt, result, history>>
       ELSE Return(p, "TIMEOUT")
    /\ UNCHANGED <<bus, receiver>>

\* Mutant: replies are matched by command type only.
MutantMatches(p, r) == r.type = msg[p].type

Matches(p, r) == r.seq = msg[p].seq

\* A PING waits for STATUS and passes over everything else, a command for an
\* ACK or an ERROR.
Answers(p, r) ==
    IF msg[p].type = "PING" THEN r.kind = "STATUS" ELSE r.kind \in {"ACK", "ERROR"}

\* Mutant: a refused number is not replaced.
MutantResequence(p, r) == FALSE

Resequence(p, r) == r.kind = "ERROR" /\ r.result = "SEQUENCE_REUSE" /\ attempt[p] = 0

\* A reply for this transaction: its answer, or the news that its number was
\* used, which costs a new number, once.
Answered(p, r) ==
    \/ r.kind = "STATUS" /\ Return(p, "STATUS")
    \/ r.kind # "STATUS" /\ r.type # msg[p].type /\ Return(p, "PROTOCOL")
    \/ r.kind = "ACK" /\ r.type = msg[p].type /\ Return(p, "ACK")
    \/ /\ r.kind = "ERROR" /\ r.type = msg[p].type
       /\ IF Resequence(p, r)
          THEN /\ NewMessage(p, msg[p]) /\ Goto(p, "send")
               /\ attempt' = [attempt EXCEPT ![p] = 1]
               /\ UNCHANGED result
          ELSE Return(p, r.result)

\* One frame from the socket, this transaction's or not.
Receive(p) ==
    /\ pc[p] = "await"
    /\ \E i \in DOMAIN replies[p] :
         LET r == replies[p][i]
             mine == Matches(p, r) /\ Answers(p, r)
         IN  /\ replies' = [replies EXCEPT ![p] = RemoveAt(@, i)]
             /\ \/ ~mine /\ UNCHANGED <<client, history>>
                \/ mine /\ Answered(p, r)
    /\ UNCHANGED <<requests, receiver>>

\* The process ends, in the middle of a call or not; another one starts.
Restart(p) ==
    /\ Timely => Quiet
    /\ Goto(p, "ready")
    /\ seq' = [seq EXCEPT ![p] = 0]
    /\ result' = [result EXCEPT ![p] = "NONE"]
    /\ UNCHANGED <<msg, tries, attempt, bus, receiver, history>>

-----------------------------------------------------------------------------
(* The receiver and the bus                                                *)

Node == INSTANCE CommandNode WITH
    Unicasts <- {m \in Messages : m.type # "PING" /\ m.dest = "NODE"},
    Broadcasts <- {m \in Messages : m.type = "ENTER_SAFE" /\ m.dest = "ALL"},
    Outcome <- [m \in Messages |-> [v \in Values |-> m.value]],
    Initial <- {Safe}, Reasons <- Refusals,
    NoRequest <- NoMessage, NoReply <- [kind |-> "NONE"]

Deliver(r) == replies' = [p \in Processes |-> Put(replies[p], r)]

Acknowledge(f) ==
    /\ Deliver(Node!Ack(f))
    /\ served' = [p \in Processes |-> served[p] \/ f = msg[p]]

Replay(f) == Node!Replay(f) /\ Acknowledge(f) /\ UNCHANGED count

Execute(f) ==
    /\ Node!CarryOut(f)
    /\ count' = [p \in Processes |-> IF f = msg[p] THEN count[p] + 1 ELSE count[p]]
    /\ IF f.dest = "ALL" THEN UNCHANGED <<replies, served>> ELSE Acknowledge(f)

Refuse(f, why) ==
    /\ Node!Refuse(f, why)
    /\ IF f.dest = "ALL" THEN UNCHANGED replies ELSE Deliver(Node!Error(f, why))
    /\ UNCHANGED <<served, count>>

Ping(f) ==
    /\ Deliver([kind |-> "STATUS", type |-> "PING", seq |-> f.seq])
    /\ UNCHANGED <<receiver, served, count>>

Serve ==
    /\ requests # <<>>
    /\ requests' = Tail(requests)
    /\ LET f == Head(requests)
       IN  \/ f.type = "PING" /\ Ping(f)
           \/ /\ f.type # "PING"
              /\ Replay(f) \/ Execute(f) \/ \E why \in Refusals : Refuse(f, why)
    /\ UNCHANGED <<client, intact>>

\* The receiver resets: its cache is gone, its outputs are muted.
NodeReset ==
    /\ Node!Reset
    /\ count' = All(0)
    /\ intact' = All(FALSE)
    /\ UNCHANGED <<client, bus, served>>

\* A frame is lost: in a reset receiver, on a bus that is down, in one socket.
Lose ==
    /\ \/ \E i \in DOMAIN requests : requests' = RemoveAt(requests, i) /\ UNCHANGED replies
       \/ \E p \in Processes : \E i \in DOMAIN replies[p] :
            replies' = [replies EXCEPT ![p] = RemoveAt(@, i)] /\ UNCHANGED requests
    /\ UNCHANGED <<client, receiver, history>>

-----------------------------------------------------------------------------
Next ==
    \/ \E p \in Processes : \E c \in Calls : Call(p, c)
    \/ \E p \in Processes : Send(p) \/ SendFails(p) \/ Timeout(p) \/ Receive(p) \/ Restart(p)
    \/ Serve
    \/ NodeReset
    \/ Lose

Spec == Init /\ [][Next]_vars

\* A thread inside a call is scheduled, and monotonic time passes, whatever the
\* bus and the receiver do; a socket that never runs empty cannot delay the
\* deadline, which is tested before every receive.
FairSpec ==
    /\ Spec
    /\ \A p \in Processes : WF_vars(Send(p) \/ SendFails(p)) /\ WF_vars(Timeout(p))

-----------------------------------------------------------------------------
(* Properties                                                              *)

\* docs/can-protocol.md:83: "ACK after validation and planned STM32 SPI
\* transfers complete": a caller gets an ACK only when the receiver carried out
\* the caller's own message, or had carried it out (client.py:117-166).
AckIsMine == \A p \in Processes : result[p] = "ACK" => served[p]

\* After an ACK the receiver stays as commanded until it resets or is commanded
\* again: no retry or older command still in flight undoes it
\* (client.py:123-127, can/runtime.c:315-321).  With one process only: another
\* may command the receiver too.
AckedStateStands ==
    \A p \in Processes :
        pc[p] = "ready" /\ result[p] = "ACK" /\ intact[p] => state = msg[p].value

\* However often a message is resent, the receiver carries it out at most once
\* between its resets (can/runtime.c:14, docs/can-protocol.md:94).
CarriedOutOnce == \A p \in Processes : count[p] <= 1

\* A new number is enough: no call fails because of the numbers earlier
\* processes used (client.py:118-122).
NumbersSuffice == \A p \in Processes : result[p] \notin {"SEQUENCE_REUSE", "PROTOCOL"}

\* Every call returns or raises (client.py:123-166, 211-243).
CallEnds == \A p \in Processes : pc[p] # "ready" ~> pc[p] = "ready"
=============================================================================
