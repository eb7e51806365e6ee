----------------------------- MODULE CommandNode -----------------------------
(***************************************************************************)
(* What the controller may rely on in a receiver, with no trace of writes, *)
(* plans and faults: a command is carried out as a whole, and only if the  *)
(* last acknowledged one does not have its key; an ACK means it was; only  *)
(* a repetition of the very same request is answered without carrying it   *)
(* out again; a refused one changes nothing.  Receiver implements this,    *)
(* and the receiver that Client talks to is made of it.                    *)
(***************************************************************************)
CONSTANTS
    Unicasts,       \* state-changing requests to this node
    Broadcasts,     \* and to all nodes: never answered
    Outcome,        \* of each request, the state it leaves from the state before
    Initial,        \* the states after a reset
    Reasons,        \* for which a well-formed request is refused
    NoRequest, NoReply

VARIABLES
    state,          \* the setting the node believes in
    cache           \* the last request it acknowledged

node == <<state, cache>>

Ack(f) == [kind |-> "ACK", type |-> f.type, seq |-> f.seq]
Error(f, why) == [kind |-> "ERROR", type |-> f.type, seq |-> f.seq, result |-> why]

SameKey(f, g) == f.type = g.type /\ f.dest = g.dest /\ f.seq = g.seq

\* Mutant: nothing is replayed, every request is carried out.
MutantReplayed(f) == FALSE

Replayed(f) == f = cache
Reused(f) == cache # NoRequest /\ SameKey(f, cache) /\ f # cache

Replay(f) == Replayed(f) /\ UNCHANGED node

\* Mutant: a broadcast leaves the cache alone.
MutantCarryOut(f) ==
    /\ ~Replayed(f) /\ ~Reused(f)
    /\ state' = Outcome[f][state]
    /\ cache' = IF f \in Unicasts THEN f ELSE cache

CarryOut(f) ==
    /\ ~Replayed(f) /\ ~Reused(f)
    /\ state' = Outcome[f][state]
    /\ cache' = IF f \in Unicasts THEN f ELSE NoRequest

\* The number was used for another request, or the node cannot do it.
Refuse(f, why) ==
    /\ ~Replayed(f)
    /\ Reused(f) <=> why = "SEQUENCE_REUSE"
    /\ UNCHANGED node

Reset == state' \in Initial /\ cache' = NoRequest

-----------------------------------------------------------------------------
(* The same with the answers, which name a type and a number.              *)

\* An ACK is for the request in the cache, from now on or as before.
Acknowledges(r) ==
    /\ cache' \in Unicasts
    /\ r = Ack(cache')
    /\ Replay(cache') \/ CarryOut(cache')

\* Requests with the key of the cached one are refused for that, and only they.
Refuses(r) ==
    /\ r.kind = "ERROR" /\ r.result \in Reasons
    /\ r.result = "SEQUENCE_REUSE"
           <=> cache # NoRequest /\ r.type = cache.type /\ r.seq = cache.seq
    /\ UNCHANGED node

\* Broadcasts that fail, and frames that are no such requests.
Other(r) == r.kind # "ACK" /\ (r.kind = "ERROR" => r.result \notin Reasons) /\ UNCHANGED node

Step(r) ==
    \/ Other(r) \/ Refuses(r) \/ Acknowledges(r)
    \/ r = NoReply /\ (Reset \/ \E f \in Broadcasts : CarryOut(f))
=============================================================================
