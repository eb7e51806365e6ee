---------------------------- MODULE MonitorProofs ----------------------------
(***************************************************************************)
(* The monitor with any number of receivers, configured or found by        *)
(* scanning: no change goes unannounced to an event stream, and every      *)
(* receiver is shown as it was last found.                                 *)
(***************************************************************************)
EXTENDS Monitor, TLAPS

\* The type invariant in three parts: where everybody is, flags, and tables.
Place ==
    /\ pc \in {"check", "connect", "open", "enter", "poll", "finish", "wait", "ended"}
    /\ at \in 1..Targets + 1
    /\ stopper \in {"idle", "joining", "done"}
    /\ stream \in {"closed", "show", "wait"}

Flags ==
    /\ stopping \in BOOLEAN
    /\ client \in BOOLEAN /\ socket \in BOOLEAN /\ (client => socket)
    /\ behind \in BOOLEAN

Tables ==
    /\ can \in CanHealth /\ error \in CanError
    /\ nodes \in [Node -> Answers \cup (IF Configured THEN {} ELSE {"absent"})]
    /\ shown \in [can : CanHealth, error : CanError, nodes : [Node -> Answers \cup {"absent"}]]
    /\ replies \in [Node -> Answers \cup {"none"}] /\ asked \subseteq Node

LEMMA Parts == TypeOK <=> Place /\ Flags /\ Tables
BY Zenon DEF TypeOK, Place, Flags, Tables

LEMMA TypeInit == Init => TypeOK
<1> SUFFICES ASSUME Init PROVE Place /\ Flags /\ Tables
  BY Parts
<1>1. Place
  BY MonitorAssumption DEF Init, Place
<1>2. Flags
  BY Zenon DEF Init, Flags
<1>3. Tables
  BY DEF Init, Tables, View, Unheard, CanHealth, CanError, Answers
<1> QED
  BY <1>1, <1>2, <1>3

\* Marking the node discovered next keeps the table well-typed.
LEMMA Marked ==
    ASSUME Place, Tables, Polling, NEW answer \in Answers,
           IF answer = "offline" THEN MarkFailure ELSE MarkSuccess(answer)
    PROVE  nodes' \in [Node -> Answers \cup (IF Configured THEN {} ELSE {"absent"})]
<1>1. at \in Node
  BY MonitorAssumption DEF Place, Polling, Node
<1> QED
  BY <1>1 DEF Tables, MarkFailure, MarkSuccess, Answers

LEMMA PlaceStep == Place /\ [Next]_vars => Place'
<1> SUFFICES ASSUME Place, [Next]_vars
             PROVE  Place'
  OBVIOUS
<1> USE DEF Place, shutdown, streams
<1>1. CASE Check \/ Connect \/ Open \/ Enter
  BY <1>1, MonitorAssumption DEF Check, Connect, Open, Enter, StartCycle
<1>2. CASE Discover
  BY <1>2, MonitorAssumption DEF Discover, Polling
<1>3. CASE BusFails \/ Leave \/ Finish \/ NextCycle
  BY <1>3 DEF BusFails, Leave, Finish, NextCycle
<1>4. CASE Stop \/ StopEnds \/ Command \/ OpenStream \/ Show \/ Wake \/ CloseStream
  BY <1>4 DEF Stop, StopEnds, Command, OpenStream, Show, Wake, CloseStream
<1>5. CASE UNCHANGED vars
  BY <1>5 DEF vars
<1> QED
  BY <1>1, <1>2, <1>3, <1>4, <1>5 DEF Next, Cycle

\* Closing the interface, or leaving it alone, keeps a socket with every client.
LEMMA Kept ==
    ASSUME Flags, stopping' = stopping /\ behind' = behind,
           Disconnect \/ (client' = client /\ socket' = socket)
    PROVE  Flags'
<1>1. CASE Disconnect
  <2>1. client' = FALSE /\ socket' \in BOOLEAN
    BY <1>1, Zenon DEF Disconnect
  <2> QED
    BY <2>1, Zenon DEF Flags
<1>2. CASE client' = client /\ socket' = socket
  BY <1>2, Zenon DEF Flags
<1> QED
  BY <1>1, <1>2

LEMMA FlagsStep == Flags /\ [Next]_vars => Flags'
<1> SUFFICES ASSUME Flags, [Next]_vars
             PROVE  Flags'
  OBVIOUS
<1> USE DEF interface, shutdown, streams, history
<1>1. CASE Check
  <2>1. stopping' = stopping /\ behind' = behind
    BY <1>1 DEF Check
  <2>2. Disconnect \/ (client' = client /\ socket' = socket)
    BY <1>1 DEF Check
  <2> QED
    BY <2>1, <2>2, Kept
<1>2. CASE Connect
  <2>1. /\ stopping' = stopping /\ behind' = behind
        /\ client' = client /\ socket' = socket
    BY <1>2 DEF Connect
  <2> QED
    BY <2>1, Zenon DEF Flags
<1>3. CASE Open
  <2>1. stopping' = stopping /\ behind' = behind
    BY <1>3 DEF Open
  <2>2. (client' = TRUE /\ socket' = TRUE) \/ (client' = client /\ socket' = socket)
    BY <1>3 DEF Open
  <2>3. CASE client' = TRUE /\ socket' = TRUE
    BY <2>1, <2>3, Zenon DEF Flags
  <2>4. CASE client' = client /\ socket' = socket
    BY <2>1, <2>4, Zenon DEF Flags
  <2> QED
    BY <2>2, <2>3, <2>4
<1>4. CASE Enter
  <2>1. stopping' = stopping /\ behind' = behind
    BY <1>4 DEF Enter
  <2>2. Disconnect \/ (client' = client /\ socket' = socket)
    BY <1>4, Zenon DEF Enter
  <2> QED
    BY <2>1, <2>2, Kept
<1>5. CASE Discover \/ BusFails \/ Leave \/ NextCycle \/ Show \/ CloseStream
  <2>1. /\ stopping' = stopping /\ behind' = behind
        /\ client' = client /\ socket' = socket
    BY <1>5 DEF Discover, BusFails, Leave, NextCycle, Show, CloseStream
  <2> QED
    BY <2>1, Zenon DEF Flags
<1>6. CASE Finish \/ Command \/ OpenStream \/ Wake
  <2>1. /\ stopping' = stopping
        /\ client' = client /\ socket' = socket
    BY <1>6 DEF Finish, Command, OpenStream, Wake
  <2>2. behind' = TRUE \/ behind' = FALSE
    BY <1>6, Zenon DEF Finish, Command, OpenStream, Wake
  <2> QED
    BY <2>1, <2>2, Zenon DEF Flags
<1>7. CASE Stop
  <2>1. /\ stopping' = TRUE /\ behind' = behind
        /\ client' = client /\ socket' = socket
    BY <1>7 DEF Stop
  <2> QED
    BY <2>1, Zenon DEF Flags
<1>8. CASE StopEnds
  <2>1. stopping' = stopping /\ behind' = behind /\ Disconnect
    BY <1>8 DEF StopEnds
  <2> QED
    BY <2>1, Kept
<1>9. CASE UNCHANGED vars
  BY <1>9, Zenon DEF vars, Flags
<1> QED
  BY <1>1, <1>2, <1>3, <1>4, <1>5, <1>6, <1>7, <1>8, <1>9 DEF Next, Cycle

LEMMA TablesStep == Place /\ Tables /\ [Next]_vars => Tables'
<1> SUFFICES ASSUME Place, Tables, [Next]_vars
             PROVE  Tables'
  OBVIOUS
<1> USE DEF interface, streams, history
<1>1. CASE Connect
  BY <1>1 DEF Connect, Tables
<1>2. CASE Open \/ BusFails
  BY <1>2 DEF Open, BusFails, Tables, CanHealth, CanError
<1>3. CASE Discover
  <2>1. PICK answer \in Answers :
          /\ IF answer = "offline" THEN MarkFailure ELSE MarkSuccess(answer)
          /\ replies' = [replies EXCEPT ![at] = answer]
    BY <1>3 DEF Discover
  <2>2. nodes' \in [Node -> Answers \cup (IF Configured THEN {} ELSE {"absent"})]
    BY <1>3, <2>1, Marked DEF Discover
  <2>3. replies' \in [Node -> Answers \cup {"none"}] /\ asked' \subseteq Node
    <3>1. at \in Node
      BY <1>3, MonitorAssumption DEF Place, Discover, Polling, Node
    <3> QED
      BY <1>3, <2>1, <3>1 DEF Discover, Tables
  <2> QED
    BY <1>3, <2>2, <2>3 DEF Discover, Tables
<1>4. CASE Check \/ Enter \/ Leave \/ Finish \/ NextCycle
  BY <1>4 DEF Check, Enter, Leave, Finish, NextCycle, Tables
<1>5. CASE Stop \/ StopEnds \/ Command \/ OpenStream \/ Wake \/ CloseStream
  BY <1>5 DEF Stop, StopEnds, Command, OpenStream, Wake, CloseStream, Tables
<1>6. CASE Show
  BY <1>6 DEF Show, View, Tables
<1>7. CASE UNCHANGED vars
  BY <1>7 DEF vars, Tables
<1> QED
  BY <1>1, <1>2, <1>3, <1>4, <1>5, <1>6, <1>7 DEF Next, Cycle

\* The state of the monitor is always well-typed, and a client has a socket.
THEOREM MonitorTyped == Spec => []TypeOK
<1>1. TypeOK /\ [Next]_vars => TypeOK'
  <2>1. TypeOK' <=> Place' /\ Flags' /\ Tables'
    BY Zenon DEF TypeOK, Place, Flags, Tables
  <2> QED
    BY <2>1, Parts, PlaceStep, FlagsStep, TablesStep
<1> QED
  BY TypeInit, <1>1, PTL DEF Spec

-----------------------------------------------------------------------------
(* Event streams                                                           *)

\* No change goes unannounced: between cycles, a stream that nothing will wake has
\* sent the current state.  It is inductive by itself: what snapshot() reads changes
\* only inside a cycle, and every way out of a cycle is _finish_cycle().
THEOREM StreamsAreCurrent == Spec => []StreamIsCurrent
<1> USE DEF interface, shutdown, streams, history
<1>1. Init => StreamIsCurrent
  BY DEF Init, StreamIsCurrent
<1>2. StreamIsCurrent /\ [Next]_vars => StreamIsCurrent'
  <2> SUFFICES ASSUME StreamIsCurrent, [Next]_vars
               PROVE  StreamIsCurrent'
    OBVIOUS
  <2>1. CASE Check \/ Connect \/ NextCycle
    BY <2>1 DEF Check, Connect, NextCycle, StreamIsCurrent, View
  <2>2. CASE Open \/ Enter \/ Discover \/ BusFails \/ Leave \/ Finish
    BY <2>2 DEF Open, Enter, StartCycle, Discover, Polling, BusFails, Leave, Finish, StreamIsCurrent
  <2>3. CASE Stop \/ StopEnds \/ Command \/ OpenStream \/ Show \/ Wake \/ CloseStream
    BY <2>3 DEF Stop, StopEnds, Disconnect, Command, OpenStream, Show, Wake, CloseStream,
                StreamIsCurrent, View
  <2>4. CASE UNCHANGED vars
    BY <2>4 DEF vars, StreamIsCurrent, View
  <2> QED
    BY <2>1, <2>2, <2>3, <2>4 DEF Next, Cycle
<1> QED
  BY <1>1, <1>2, PTL DEF Spec

-----------------------------------------------------------------------------
(* Cycles                                                                  *)

\* While a cycle runs, its nodes up to the next one have been asked; it is over when
\* all have been, or there is an error, or the thread is to stop.
CycleInv ==
    /\ \A n \in Node : Reported(n)
    /\ pc = "poll" => \A n \in Node : n < at => n \in asked
    /\ pc \in {"finish", "wait"} => Node \subseteq asked \/ stopping \/ error # "none"

\* One answer: the node it came from is reported, the others are as they were.
LEMMA DiscoverReports ==
    ASSUME TypeOK, CycleInv, Discover
    PROVE  (\A n \in Node : Reported(n)') /\ \A n \in Node : n < at' => n \in asked'
<1>1. /\ pc = "poll" /\ at \in Node /\ at' = at + 1 /\ asked' = asked \cup {at}
      /\ at \in Nat /\ Node \subseteq Nat
  BY MonitorAssumption DEF Discover, Polling, TypeOK, Node
<1>2. PICK answer \in Answers :
        /\ IF answer = "offline" THEN MarkFailure ELSE MarkSuccess(answer)
        /\ replies' = [replies EXCEPT ![at] = answer]
  BY DEF Discover
<1>3. ASSUME NEW n \in Node, n = at
      PROVE  Reported(n)'
  <2>1. nodes'[at] = answer \/ (nodes'[at] = Unheard /\ answer = "offline")
    BY <1>1, <1>2 DEF MarkFailure, MarkSuccess, TypeOK, Unheard, Answers
  <2>2. replies'[at] = answer
    BY <1>1, <1>2 DEF TypeOK
  <2> QED
    BY <1>3, <2>1, <2>2 DEF Reported
<1>4. \A n \in Node \ {at} : nodes'[n] = nodes[n] /\ replies'[n] = replies[n]
  BY <1>1, <1>2 DEF MarkFailure, MarkSuccess, TypeOK
<1>5. ASSUME NEW n \in Node, n # at
      PROVE  Reported(n)'
  BY <1>4, <1>5 DEF CycleInv, Reported
<1>6. ASSUME NEW n \in Node, n < at', n # at
      PROVE  n \in asked'
  <2>1. n < at
    BY <1>1, <1>6
  <2> QED
    BY <1>1, <2>1 DEF CycleInv
<1> QED
  BY <1>1, <1>3, <1>5, <1>6

\* After every cycle, also one that broke off, each node is shown as it was last
\* found, and an older answer only beside an error, for any number of nodes and in
\* both modes.
THEOREM CyclesAreReported == Spec => []CycleReported
<1> USE DEF interface, shutdown, streams, history
<1>1. Init => CycleInv
  BY DEF Init, CycleInv, Reported
<1>2. TypeOK /\ CycleInv /\ [Next]_vars => CycleInv'
  <2> SUFFICES ASSUME TypeOK, CycleInv, [Next]_vars
               PROVE  CycleInv'
    OBVIOUS
  <2>1. CASE Check \/ Finish \/ NextCycle
    BY <2>1 DEF Check, Finish, NextCycle, CycleInv, Reported
  <2>2. CASE Connect
    BY <2>2 DEF Connect, CycleInv, Reported
  <2>3. CASE Open \/ BusFails
    BY <2>3 DEF Open, BusFails, Polling, CycleInv, Reported
  <2>4. CASE Enter
    <3>1. \A n \in Node : ~(n < 1)
      BY MonitorAssumption DEF Node
    <3> QED
      BY <2>4, <3>1 DEF Enter, StartCycle, CycleInv, Reported
  <2>5. CASE Discover
    <3>1. pc' = "poll"
      BY <2>5 DEF Discover, Polling
    <3> QED
      BY <2>5, <3>1, DiscoverReports DEF CycleInv
  <2>6. CASE Leave
    <3>1. at > Targets => \A n \in Node : n < at
      BY MonitorAssumption DEF TypeOK, Node
    <3>2. Node \subseteq asked \/ stopping
      <4>1. ~(at <= Targets) => at > Targets
        BY MonitorAssumption DEF TypeOK
      <4> QED
        BY <2>6, <3>1, <4>1 DEF Leave, Polling, CycleInv
    <3> QED
      BY <2>6, <3>2 DEF Leave, CycleInv, Reported
  <2>7. CASE Stop \/ StopEnds \/ Command \/ OpenStream \/ Show \/ Wake \/ CloseStream
    BY <2>7 DEF Stop, StopEnds, Disconnect, Command, OpenStream, Show, Wake, CloseStream,
                CycleInv, Reported
  <2>8. CASE UNCHANGED vars
    BY <2>8 DEF vars, CycleInv, Reported
  <2> QED
    BY <2>1, <2>2, <2>3, <2>4, <2>5, <2>6, <2>7, <2>8 DEF Next, Cycle
<1>3. CycleInv => CycleReported
  BY DEF CycleInv, CycleReported
<1> QED
  BY <1>1, <1>2, <1>3, MonitorTyped, PTL DEF Spec
=============================================================================
