------------------------------- MODULE Monitor -------------------------------
(***************************************************************************)
(* The monitor of the Pi service: a thread that polls the receivers again  *)
(* and again and keeps their health, the health of the CAN interface, and  *)
(* a revision that wakes the event streams of the dashboard.  A stream     *)
(* sends a snapshot, then waits for a revision newer than the one it read. *)
(* At shutdown the server waits for the thread, but not for ever, and then *)
(* closes the interface itself, wherever the thread may be.                *)
(*                                                                         *)
(* The revision only grows and is only compared, so for a stream it is     *)
(* whether it has grown since the stream read it.  The event log and the   *)
(* response times of the dashboard are left out.                           *)
(***************************************************************************)
EXTENDS Naturals

CONSTANTS
    Targets,        \* number of nodes polled: config.nodes, or 30 in scan mode
    Configured      \* config.nodes is not empty

ASSUME MonitorAssumption == Targets \in Nat \ {0} /\ Configured \in BOOLEAN

VARIABLES
    pc,         \* the polling thread: "check", "connect", "open", "enter", "poll",
                \* "finish", "wait", "ended"
    at,         \* the node discovered next
    stopping,   \* _stop_event
    stopper,    \* stop(): "idle", "joining", "done"
    client,     \* _client and _close_client are set
    socket,     \* a SocketCAN socket is open
    can,        \* _can_health
    error,      \* _can_error
    nodes,      \* health of the node records; "absent" without one
    stream,     \* an event stream: "closed", "show", "wait"
    behind,     \* _revision has grown since the stream read it
    shown,      \* what the stream has sent
    \* History, read by the properties only:
    replies,    \* what discover() last found of each node, in whatever cycle
    asked       \* the nodes asked in the last cycle

interface == <<client, socket, can, error>>
shutdown == <<stopping, stopper>>
streams == <<stream, behind, shown>>
history == <<replies, asked>>
vars == <<pc, at, shutdown, interface, nodes, streams, history>>

-----------------------------------------------------------------------------
Node == 1..Targets
Answers == {"healthy", "degraded", "offline"}
CanHealth == {"starting", "offline", "online", "degraded"}
CanError == {"none", "open", "bus", "no_ack"}

\* What is shown of a node that never answered.
Unheard == IF Configured THEN "offline" ELSE "absent"

\* What snapshot() reads under the lock.
View == [can |-> can, error |-> error, nodes |-> nodes]

\* overall_health of snapshot(); /readyz is 200 when it is "healthy".
Healthy(n) == nodes[n] = "healthy"
Overall ==
    IF can # "online" THEN can
    ELSE IF Configured
         THEN IF \A n \in Node : Healthy(n) THEN "healthy" ELSE "degraded"
         ELSE IF \E n \in Node : Healthy(n) THEN "healthy" ELSE "degraded"

TypeOK ==
    /\ pc \in {"check", "connect", "open", "enter", "poll", "finish", "wait", "ended"}
    /\ at \in 1..Targets + 1
    /\ stopping \in BOOLEAN /\ stopper \in {"idle", "joining", "done"}
    /\ client \in BOOLEAN /\ socket \in BOOLEAN /\ (client => socket)
    /\ can \in CanHealth /\ error \in CanError
    /\ nodes \in [Node -> Answers \cup (IF Configured THEN {} ELSE {"absent"})]
    /\ stream \in {"closed", "show", "wait"}
    /\ behind \in BOOLEAN
    /\ shown \in [can : CanHealth, error : CanError, nodes : [Node -> Answers \cup {"absent"}]]
    /\ replies \in [Node -> Answers \cup {"none"}]
    /\ asked \subseteq Node

Init ==
    /\ pc = "check" /\ at = 1
    /\ stopping = FALSE /\ stopper = "idle"
    /\ client = FALSE /\ socket = FALSE
    /\ can = "starting" /\ error = "none"
    /\ nodes = [n \in Node |-> Unheard]
    /\ stream = "closed" /\ behind = FALSE
    /\ shown = View
    /\ replies = [n \in Node |-> "none"] /\ asked = {}

-----------------------------------------------------------------------------
(* The polling thread                                                      *)

\* _disconnect()
Disconnect == client' = FALSE /\ socket' = (socket /\ ~client)

\* Mutant: a thread that ends leaves the interface to stop().
MutantCheck ==
    /\ pc = "check"
    /\ pc' = IF stopping THEN "ended" ELSE "connect"
    /\ UNCHANGED <<at, shutdown, interface, nodes, streams, history>>

\* The loop of _run(), and the disconnection behind it.
Check ==
    /\ pc = "check"
    /\ IF stopping THEN pc' = "ended" /\ Disconnect
                   ELSE pc' = "connect" /\ UNCHANGED <<client, socket>>
    /\ UNCHANGED <<at, shutdown, can, error, nodes, streams, history>>

\* _connect(): a client that is open is kept, whatever became of its bus.
Connect ==
    /\ pc = "connect"
    /\ asked' = {}
    /\ pc' = IF client THEN "enter" ELSE "open"
    /\ UNCHANGED <<at, shutdown, interface, nodes, streams, replies>>

\* Mutant: a failed connection ends the cycle without announcing it.
MutantOpen ==
    /\ pc = "open"
    /\ \/ pc' = "enter" /\ client' = TRUE /\ socket' = TRUE /\ can' = "online" /\ error' = "none"
       \/ pc' = "wait" /\ can' = "offline" /\ error' = "open" /\ UNCHANGED <<client, socket>>
    /\ UNCHANGED <<at, shutdown, nodes, streams, history>>

\* client_factory() returns, or raises.
Open ==
    /\ pc = "open"
    /\ \/ pc' = "enter" /\ client' = TRUE /\ socket' = TRUE /\ can' = "online" /\ error' = "none"
       \/ pc' = "finish" /\ can' = "offline" /\ error' = "open" /\ UNCHANGED <<client, socket>>
    /\ UNCHANGED <<at, shutdown, nodes, streams, history>>

StartCycle == pc' = "poll" /\ at' = 1

\* The assertion that there is a client: without one the thread ends at once.
Enter ==
    /\ pc = "enter"
    /\ IF client THEN StartCycle /\ UNCHANGED <<client, socket>>
                 ELSE pc' = "ended" /\ Disconnect /\ UNCHANGED at
    /\ UNCHANGED <<shutdown, can, error, nodes, streams, history>>

Polling == pc = "poll" /\ at <= Targets /\ ~stopping

MarkSuccess(health) == nodes' = [nodes EXCEPT ![at] = health]

\* Mutant: in a scan no node is ever marked, those seen before included.
MutantMarkFailure == IF Configured THEN nodes' = [nodes EXCEPT ![at] = "offline"] ELSE UNCHANGED nodes

\* A node a scan has never seen gets no record.
MarkFailure ==
    IF nodes[at] = "absent" THEN UNCHANGED nodes ELSE nodes' = [nodes EXCEPT ![at] = "offline"]

\* discover() returns a STATUS, of the right protocol version or another, or
\* raises an error of this node; a client that is gone is such an error too.
Discover ==
    /\ Polling
    /\ \E answer \in Answers :
         /\ client \/ answer = "offline"
         /\ IF answer = "offline" THEN MarkFailure ELSE MarkSuccess(answer)
         /\ replies' = [replies EXCEPT ![at] = answer]
    /\ asked' = asked \cup {at}
    /\ at' = at + 1
    /\ UNCHANGED <<pc, shutdown, interface, streams>>

\* Mutant: frames nobody acknowledges break the cycle off without a word.
MutantBusFails ==
    /\ Polling
    /\ \/ can' = "degraded" /\ error' = "bus"
       \/ UNCHANGED <<can, error>>
    /\ pc' = "finish"
    /\ UNCHANGED <<at, shutdown, client, socket, nodes, streams, history>>

\* The interface raises: the cycle is broken off and no node is marked.  ENOBUFS,
\* the frames of a bus where nobody acknowledges, is not counted as degraded.
BusFails ==
    /\ Polling
    /\ \/ can' = "degraded" /\ error' = "bus"
       \/ can' = "online" /\ error' = "no_ack"
    /\ pc' = "finish"
    /\ UNCHANGED <<at, shutdown, client, socket, nodes, streams, history>>

\* All nodes are done, or the thread is to stop.
Leave ==
    /\ pc = "poll" /\ ~Polling
    /\ pc' = "finish"
    /\ UNCHANGED <<at, shutdown, interface, nodes, streams, history>>

\* _finish_cycle(): a new revision, and everybody who waits is notified.
Finish ==
    /\ pc = "finish"
    /\ pc' = "wait"
    /\ behind' = TRUE
    /\ UNCHANGED <<at, shutdown, interface, nodes, stream, shown, history>>

\* The poll interval is over, or the stop event is set.
NextCycle ==
    /\ pc = "wait"
    /\ pc' = "check"
    /\ UNCHANGED <<at, shutdown, interface, nodes, streams, history>>

-----------------------------------------------------------------------------
(* The web server                                                          *)

\* stop(), at shutdown.
Stop ==
    /\ stopper = "idle"
    /\ stopping' = TRUE
    /\ stopper' = "joining"
    /\ UNCHANGED <<pc, at, interface, nodes, streams, history>>

\* The thread has ended, or join() has waited long enough.
StopEnds ==
    /\ stopper = "joining"
    /\ stopper' = "done"
    /\ Disconnect
    /\ UNCHANGED <<pc, at, stopping, can, error, nodes, streams, history>>

\* command(): a receiver acknowledged, and that is a new revision; a command that
\* fails, on a bus that is down too, changes nothing here.
Command ==
    /\ client
    /\ behind' = TRUE
    /\ UNCHANGED <<pc, at, shutdown, interface, nodes, stream, shown, history>>

\* event_stream(): the revision is read before the first snapshot.
OpenStream ==
    /\ stream = "closed"
    /\ stream' = "show"
    /\ behind' = FALSE
    /\ UNCHANGED <<pc, at, shutdown, interface, nodes, shown, history>>

Show ==
    /\ stream = "show"
    /\ shown' = View
    /\ stream' = "wait"
    /\ UNCHANGED <<pc, at, shutdown, interface, nodes, behind, history>>

\* wait_for_update(): a newer revision, or 15 seconds.
Wake ==
    /\ stream = "wait"
    /\ stream' = "show"
    /\ behind' = FALSE
    /\ UNCHANGED <<pc, at, shutdown, interface, nodes, shown, history>>

\* The browser goes away.
CloseStream ==
    /\ stream # "closed"
    /\ stream' = "closed"
    /\ UNCHANGED <<pc, at, shutdown, interface, nodes, behind, shown, history>>

-----------------------------------------------------------------------------
Cycle == Check \/ Connect \/ Open \/ Enter \/ Discover \/ BusFails \/ Leave \/ Finish \/ NextCycle

Next == Cycle \/ Stop \/ StopEnds \/ Command \/ OpenStream \/ Show \/ Wake \/ CloseStream

Spec == Init /\ [][Next]_vars

\* The thread and the server are scheduled, and every wait of theirs is bounded.
FairSpec == Spec /\ WF_vars(Cycle) /\ WF_vars(StopEnds)

-----------------------------------------------------------------------------
(* Properties                                                              *)

\* Between cycles, a stream that waits with no newer revision to wake it has sent
\* the current state: no change goes unannounced (web/server.py:237-253,
\* monitor.py:183-188, 268-273, 346-352).
StreamIsCurrent ==
    pc \in {"wait", "check", "connect", "open"} /\ stream = "wait" /\ ~behind => shown = View

\* The record of a node says what was last found of the node.
Reported(n) ==
    nodes[n] = replies[n] \/ (nodes[n] = Unheard /\ replies[n] \in {"none", "offline"})

\* After every cycle, one that was broken off included, each node is shown as it was
\* last found; a node shown as an earlier cycle found it, this one having broken off
\* before it, is shown beside an error of the interface (monitor.py:278-344).
CycleReported ==
    pc = "wait" =>
        \A n \in Node : Reported(n) /\ (n \in asked \/ stopping \/ error # "none")

\* Asked to stop, the thread ends and no socket stays open, also when the server
\* gave up waiting and closed the interface under the thread, or before the thread
\* had opened it (monitor.py:171-176, 225-266).
Stops == stopping ~> pc = "ended" /\ stopper = "done" /\ ~socket

\* docs/operations/pi-provisioning.md:149: "/readyz: CAN/receiver readiness": ready
\* after a cycle in which every node answered as it should (monitor.py:237-257).
ReadyWhenAllAnswer ==
    pc = "wait" /\ asked = Node /\ (\A n \in Node : replies[n] = "healthy")
        => Overall = "healthy"
=============================================================================
