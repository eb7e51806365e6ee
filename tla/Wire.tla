-------------------------------- MODULE Wire --------------------------------
(***************************************************************************)
(* One frame, or one start-up, from the numbers somebody asked for to the  *)
(* bits the devices latch: the identifier is packed, crosses the bus and   *)
(* the acceptance filter, is unpacked and decoded, and the plan is encoded *)
(* and shifted out word by word.  RfPlan has the decoder and the plans;    *)
(* faults, retries and everything that has a history are in Receiver.      *)
(***************************************************************************)
EXTENDS CanId, RfWords

CONSTANTS
    Self,               \* FIRMWARE_NODE_ID
    Sent,               \* frames that are sent on the bus
    Angles              \* OPERATIONAL_PHASE_MILLIDEGREES

ASSUME WireAssumption ==
    /\ Self \in 1..30
    /\ Sent \subseteq [fields : Fields, extended : BOOLEAN, remote : BOOLEAN,
                       data : Seq(0..255)]
    /\ Angles \subseteq 0..FullTurn

Firmware == INSTANCE RfPlan WITH
    Seqs <- 0..SeqMax, Byte <- 0..255, MaxAttenuation <- MaxDb,
    OperationalPhase <- PhaseStateFrom(205300)

Safe == [phase |-> 0, atten |-> MaxDb]
Operational == [phase |-> PhaseStateFrom(205300), atten |-> 0]

VARIABLES
    at,         \* where the frame is: "caller", "bus", "fifo", "filtered",
                \* "writing", "latched", "refused"; "boot" for a start-up
    asked,      \* the frame as its sender meant it, or the angle
    frame,      \* the frame on the bus
    state,      \* runtime->state
    plan,       \* operations still to be written
    phase,      \* what the phase shifter latched last
    atten       \* what the VGA latched last

vars == <<at, asked, frame, state, plan, phase, atten>>

\* A start-up rather than a frame.
Starting == "angle" \in DOMAIN asked

NoFrame == [id |-> 0, extended |-> FALSE, remote |-> FALSE, data |-> <<>>]

TypeNames == <<"ENTER_SAFE", "SET_COMBINED", "SET_PHASE", "SET_VGA", "PING",
               "STATUS", "ACK", "ERROR">>

\* What the decoder takes a frame for.
Read(f) ==
    LET fields == ParseId(f.id)
    IN  [extended |-> f.extended /\ ~f.remote,
         type |-> TypeNames[fields.type + 1],
         dest |-> IF fields.dest = Self THEN "SELF"
                  ELSE IF fields.dest = Broadcast THEN "BROADCAST" ELSE "OTHER",
         source |-> IF fields.source = Controller THEN "CONTROLLER" ELSE "NODE",
         seq |-> fields.seq,
         data |-> f.data]

Verdict(f) == Firmware!Decode(Read(f))

\* Whether the runtime answers a frame it refuses: send_error_for_frame().
Answerable(f) ==
    /\ f.extended /\ ~f.remote
    /\ DestOf(f.id) = Self /\ SourceOf(f.id) = Controller /\ TypeOf(f.id) <= 4

Init ==
    /\ \/ at = "caller" /\ asked \in Sent
       \/ at = "boot" /\ asked \in [angle : Angles]
    /\ frame = NoFrame
    /\ state \in {Safe, Operational}
    /\ at = "boot" => state = Safe
    /\ plan = <<>>
    /\ phase = [control |-> ControlWord(state.phase), unit |-> UnitAddress]
    /\ atten = state.atten

-----------------------------------------------------------------------------
\* The Pi is the only controller, and packs by itself; nodes use the firmware.
Pack(m) == IF m.source = Controller THEN BuildId(m) ELSE MakeId(m)

Put ==
    /\ at = "caller"
    /\ frame' = [id |-> Pack(asked.fields), extended |-> asked.extended,
                 remote |-> asked.remote, data |-> asked.data]
    /\ at' = "bus"
    /\ UNCHANGED <<asked, state, plan, phase, atten>>

Filter ==
    /\ at = "bus"
    /\ at' = IF Passes(Self, frame) THEN "fifo" ELSE "filtered"
    /\ UNCHANGED <<asked, frame, state, plan, phase, atten>>

\* Mutant: the index of a phase state is cast to a control word.
MutantEncode(op) ==
    [device |-> op.device,
     command |-> IF op.device = "VGA" THEN VgaCommand(op.value)
                 ELSE PhaseCommand(op.value, UnitAddress)]

\* The words of append_vga() and append_phase().
Encode(op) ==
    [device |-> op.device,
     command |-> IF op.device = "VGA" THEN VgaCommand(op.value)
                 ELSE PhaseCommand(ControlWord(op.value), UnitAddress)]

Write(operations) ==
    /\ plan' = [i \in DOMAIN operations |-> Encode(operations[i])]
    /\ at' = "writing"
    /\ UNCHANGED <<asked, frame, phase, atten>>

Decode ==
    /\ at = "fifo"
    /\ LET f == Read(frame)
       IN  IF Verdict(frame) = "OK" /\ f.type \in Firmware!StateChangingTypes
           THEN /\ Write(Firmware!PlanOf(f, state))
                /\ state' = Firmware!ResultingState(f, state)
           ELSE at' = "refused" /\ UNCHANGED <<asked, frame, state, plan, phase, atten>>

\* main() steers to the angle it was built with.
Boot ==
    /\ at = "boot"
    /\ Write(Firmware!StartupPlan(PhaseStateFrom(asked.angle)))
    /\ state' = [phase |-> PhaseStateFrom(asked.angle), atten |-> MaxDb]

\* One word: shifted in, then latched.
Latch ==
    /\ at = "writing"
    /\ plan # <<>>
    /\ LET word == Head(plan).command
       IN  IF Head(plan).device = "VGA"
           THEN atten' = VgaRead(VgaLine(word)) /\ UNCHANGED phase
           ELSE phase' = PhaseRead(PhaseLine(word)) /\ UNCHANGED atten
    /\ plan' = Tail(plan)
    /\ UNCHANGED <<at, asked, frame, state>>

Done ==
    /\ at = "writing"
    /\ plan = <<>>
    /\ at' = "latched"
    /\ UNCHANGED <<asked, frame, state, plan, phase, atten>>

Next == Put \/ Filter \/ Decode \/ Boot \/ Latch \/ Done

Spec == Init /\ [][Next]_vars

-----------------------------------------------------------------------------
(* Properties                                                              *)

\* Type, nodes and number of a frame arrive as they were sent, whoever packed it and
\* whoever reads it, the firmware or the Pi (can/protocol.c:73-150,
\* protocol.py:49-68).
FieldsSurvive ==
    at \in {"bus", "fifo"} => ParseId(frame.id) = asked.fields /\ ReadId(frame.id) = asked.fields

\* The acceptance filter never takes away a frame the firmware would carry out or
\* answer (can/filter.c:61-106, can/protocol.c:152-246, can/runtime.c:169-204).
NothingHidden == at = "filtered" => Verdict(frame) # "OK" /\ ~Answerable(frame)

\* The traffic between the other nodes, and broadcasts other than ENTER_SAFE, stay
\* out of the receive queue (can/filter.c:61-106).
NothingForeign ==
    at = "fifo" => Verdict(frame) \notin {"IGNORED", "INVALID_ID", "BROADCAST_NOT_ALLOWED"}

\* Every frame is judged for what its sender meant: its fields survive the wire, and
\* the filter, which sees bits, and the decoder, which sees fields, agree on whether
\* it is for this node.
FramesReachTheirNode == FieldsSurvive /\ NothingHidden /\ NothingForeign

\* No word of a plan is wider than its transfer, and when the last one is latched
\* the devices hold what was asked for: bit orders, shifts, the address and the
\* calibration table fit together from the caller's numbers to the devices
\* (rf/commands.c:80-139, rf/plan.c:8-46).
DevicesAsAsked ==
    /\ \A i \in DOMAIN plan : plan[i].command < IF plan[i].device = "VGA" THEN 256 ELSE 8192
    /\ at = "latched" =>
         /\ phase = [control |-> ControlWord(state.phase), unit |-> UnitAddress]
         /\ atten = state.atten

\* The state chosen for an angle is the nearest one, around the full turn too
\* (rf/commands.c:114-128).
NearestPhase ==
    at \in {"writing", "latched"} /\ Starting =>
        LET step == state.phase * FullTurn
            turned == asked.angle * 256
            away == IF turned > step THEN turned - step ELSE step - turned
        IN  2 * away <= FullTurn \/ 2 * (256 * FullTurn - away) <= FullTurn
=============================================================================
