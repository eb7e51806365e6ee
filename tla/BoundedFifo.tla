---------------------------- MODULE BoundedFifo ----------------------------
(***************************************************************************)
(* What the receive queue promises its two sides: a first-in first-out     *)
(* queue of at most Capacity frames, from which frames come out whole.     *)
(***************************************************************************)
EXTENDS Naturals, Sequences

CONSTANTS Frame, Capacity

VARIABLES queue, out    \* out: the last frame handed to the consumer

vars == <<queue, out>>

Init == queue = <<>> /\ out = <<>>

Put(f) ==
    /\ Len(queue) < Capacity
    /\ queue' = Append(queue, f)
    /\ UNCHANGED out

Get ==
    /\ queue # <<>>
    /\ out' = Head(queue)
    /\ queue' = Tail(queue)

Next == Get \/ \E f \in Frame : Put(f)

Spec == Init /\ [][Next]_vars
=============================================================================
