------------------------------ MODULE Receiver ------------------------------
(***************************************************************************)
(* One receiver node, from reset to reset: main() brings the RF outputs to *)
(* a known setting, then can_runtime_service_next() takes one CAN frame at *)
(* a time and decodes it, answers it from the replay cache, refuses it, or *)
(* carries out its plan of RF writes and acknowledges it.                  *)
(*                                                                         *)
(* A device write is two steps, the transfer (select line low, word sent)  *)
(* and the latch (line high), so that a fault of the SPI guard or a reset  *)
(* of the processor can fall between any two of them.  `hw' is what the    *)
(* devices have latched; the firmware cannot read it back.                 *)
(***************************************************************************)
EXTENDS RfPlan

CONSTANTS
    Traffic,            \* the frames that reach the receive queue
    MaxInvalid          \* UINT16_MAX, where the invalid-command counter saturates

ASSUME ReceiverAssumption == Traffic \subseteq Frames /\ MaxInvalid \in Nat \ {0}

VARIABLES
    pc,         \* "setup", "boot", "idle", "exec", "no_can"
    hw,         \* the setting latched in the two devices
    open,       \* devices whose select or latch line is low
    sent,       \* the current operation's word is in flight
    idx,        \* the operation of the plan to be executed next
    state,      \* runtime->state, what the firmware believes hw to be
    last,       \* the last commands the firmware recorded as written
    request,    \* the frame being executed
    cache,      \* replay_cache: the last acknowledged unicast command
    invalid,    \* runtime->invalid_commands
    lockout,    \* runtime->safe_lockout
    diag,       \* the state field of the retained diagnostic record
    reply       \* the frame last offered to the CAN bus for transmission

rf == <<hw, open, sent, idx, last>>
runtime == <<state, cache, invalid, lockout>>
vars == <<pc, rf, runtime, request, diag, reply>>

-----------------------------------------------------------------------------
Settings == [phase : Byte, atten : Byte]
Devices == {"VGA", "PHASE"}
Zeroed == [phase |-> 0, atten |-> 0]

NoFrame == [type |-> "NONE"]
NoReply == [kind |-> "NONE"]

Ack(f) == [kind |-> "ACK", type |-> f.type, seq |-> f.seq]
Error(f, result) == [kind |-> "ERROR", type |-> f.type, seq |-> f.seq, result |-> result]
Status(f) == [kind |-> "STATUS", seq |-> f.seq, invalid |-> invalid, lockout |-> lockout]

Results == {"INVALID_LENGTH", "INVALID_PAYLOAD", "UNSUPPORTED", "HARDWARE", "BUSY",
            "SEQUENCE_REUSE", "BROADCAST_NOT_ALLOWED"}
Replies ==
    {NoReply}
    \cup [kind : {"ACK"}, type : StateChangingTypes, seq : Seqs]
    \cup [kind : {"ERROR"}, type : CommandTypes, seq : Seqs, result : Results]
    \cup [kind : {"STATUS"}, seq : Seqs, invalid : 0..MaxInvalid, lockout : BOOLEAN]

DiagStates == {"BOOTING", "SAFE_OUTPUTS", "HEALTHY", "SAFE_LOCKOUT", "FAULT"}

TypeOK ==
    /\ pc \in {"setup", "boot", "idle", "exec", "no_can"}
    /\ hw \in Settings
    /\ open \subseteq Devices
    /\ sent \in BOOLEAN
    /\ idx \in 1..4
    /\ state \in [phase : Byte, atten : Attenuations]
    /\ last \in Settings
    /\ request \in StateChanging \cup {NoFrame}
    /\ cache \in StateChanging \cup {NoFrame}
    /\ invalid \in 0..MaxInvalid
    /\ lockout \in BOOLEAN
    /\ diag \in DiagStates
    /\ reply \in Replies

-----------------------------------------------------------------------------
(* The replay cache                                                        *)

SameKey(f, g) == f.type = g.type /\ f.dest = g.dest /\ f.source = g.source /\ f.seq = g.seq

\* Mutant: a frame with the cached key and another payload counts as new.
MutantLookup(f) ==
    IF f.dest = "BROADCAST" \/ f.type \notin StateChangingTypes \/ cache = NoFrame THEN "MISS"
    ELSE IF SameKey(f, cache) /\ f.data = cache.data THEN "HIT" ELSE "MISS"

Lookup(f) ==
    IF \/ f.dest = "BROADCAST"
       \/ f.type \notin StateChangingTypes
       \/ cache = NoFrame
    THEN "MISS"
    ELSE IF ~SameKey(f, cache) THEN "MISS"
    ELSE IF f.data = cache.data THEN "HIT" ELSE "SEQUENCE_REUSE"

\* Mutant: the counter does not saturate.
MutantIncrementInvalid == invalid' = invalid + 1

IncrementInvalid == invalid' = IF invalid = MaxInvalid THEN invalid ELSE invalid + 1

\* Mutant: the broadcast test is inverted.
MutantSendError(f, result) ==
    reply' = IF f.dest # "BROADCAST" THEN NoReply ELSE Error(f, result)

\* send_error_for_command(): broadcasts are never answered.
SendError(f, result) ==
    reply' = IF f.dest = "BROADCAST" THEN NoReply ELSE Error(f, result)

-----------------------------------------------------------------------------
(* From reset to service: main()                                           *)

Init ==
    /\ pc = "setup"
    /\ hw \in Settings
    /\ open = Devices
    /\ sent = FALSE
    /\ idx = 1
    /\ state = Zeroed
    /\ last = Zeroed
    /\ request = NoFrame
    /\ cache = NoFrame
    /\ invalid = 0
    /\ lockout = FALSE
    /\ diag = "FAULT"
    /\ reply = NoReply

\* Reset clears RAM outside the retained section, never the devices.
ResetTo(d) ==
    /\ pc' = "setup"
    /\ sent' = FALSE
    /\ idx' = 1
    /\ request' = NoFrame
    /\ reply' = NoReply
    /\ diag' = d
    /\ state' = Zeroed
    /\ last' = Zeroed
    /\ cache' = NoFrame
    /\ invalid' = 0
    /\ UNCHANGED <<hw, open, lockout>>

\* Watchdog, brown-out, reset pin: at any moment.
Reset == pc # "setup" /\ ResetTo(diag)

\* The lines are driven high again; one that was low latches whatever its
\* device's shift register holds.  Boots after a healthy run are not locked out.
Setup ==
    /\ pc = "setup"
    /\ pc' = "boot"
    /\ \E s \in Settings :
         hw' = [phase |-> IF "PHASE" \in open THEN s.phase ELSE hw.phase,
                atten |-> IF "VGA" \in open THEN s.atten ELSE hw.atten]
    /\ open' = {}
    /\ lockout' \in IF diag = "HEALTHY" THEN {FALSE} ELSE BOOLEAN
    /\ diag' = "BOOTING"
    /\ UNCHANGED <<sent, idx, last, state, cache, invalid, request, reply>>

BootPhase == IF lockout THEN SafePhase ELSE OperationalPhase

\* can_runtime_start() succeeds: an empty cache, counters at zero.
StartRuntime ==
    /\ pc = "boot" /\ ~sent
    /\ idx = Len(StartupPlan(BootPhase)) + 1
    /\ pc' = "idle"
    /\ idx' = 1
    /\ state' = [phase |-> BootPhase, atten |-> MaxAttenuation]
    /\ cache' = NoFrame
    /\ invalid' = 0
    /\ diag' = IF lockout THEN "SAFE_LOCKOUT" ELSE "HEALTHY"
    /\ UNCHANGED <<hw, open, sent, last, lockout, request, reply>>

\* can_bus_setup() fails: a locked-out node stays up without CAN.
StartWithoutCan ==
    /\ pc = "boot" /\ ~sent
    /\ idx = Len(StartupPlan(BootPhase)) + 1
    /\ lockout
    /\ pc' = "no_can"
    /\ diag' = "SAFE_LOCKOUT"
    /\ UNCHANGED <<rf, runtime, request, reply>>

StartFails ==
    /\ pc = "boot" /\ ~sent
    /\ idx = Len(StartupPlan(BootPhase)) + 1
    /\ ~lockout
    /\ ResetTo("FAULT")

-----------------------------------------------------------------------------
(* RF writes, at boot and for a command                                    *)

Plan == IF pc = "boot" THEN StartupPlan(BootPhase) ELSE PlanOf(request, state)

Writing == pc \in {"boot", "exec"} /\ idx <= Len(Plan)

Setting(s, op) ==
    IF op.device = "VGA" THEN [s EXCEPT !.atten = op.value] ELSE [s EXCEPT !.phase = op.value]

\* The transmit buffer is free: line low, word into the data register.
Transfer ==
    /\ Writing /\ ~sent
    /\ open' = open \cup {Plan[idx].device}
    /\ sent' = TRUE
    /\ UNCHANGED <<pc, hw, idx, last, runtime, request, diag, reply>>

\* Mutant: the index of the next operation is not advanced.
MutantLatch ==
    /\ Writing /\ sent
    /\ hw' = Setting(hw, Plan[idx])
    /\ last' = Setting(last, Plan[idx])
    /\ open' = open \ {Plan[idx].device}
    /\ sent' = FALSE
    /\ UNCHANGED <<pc, idx, runtime, request, diag, reply>>

\* The transfer completed: line high, and the device takes the word.
Latch ==
    /\ Writing /\ sent
    /\ hw' = Setting(hw, Plan[idx])
    /\ last' = Setting(last, Plan[idx])
    /\ open' = open \ {Plan[idx].device}
    /\ sent' = FALSE
    /\ idx' = idx + 1
    /\ diag' = IF pc = "boot" /\ idx = 1 THEN "SAFE_OUTPUTS" ELSE diag
    /\ UNCHANGED <<pc, runtime, request, reply>>

\* spi_guard reports a timeout or an error, before the line went low or with
\* the word in flight; then the line stays low.  At boot this is firmware_fail().
BootFault == pc = "boot" /\ Writing /\ ResetTo("FAULT")

\* Mutant: the new state is believed although its plan failed.
MutantCommandFault ==
    /\ pc = "exec" /\ Writing
    /\ pc' = "idle"
    /\ sent' = FALSE
    /\ idx' = 1
    /\ state' = ResultingState(request, state)
    /\ diag' = "FAULT"
    /\ SendError(request, "HARDWARE")
    /\ request' = NoFrame
    /\ UNCHANGED <<hw, open, last, cache, invalid, lockout>>

\* Mutant: the fault is not written to the retained record.
SilentCommandFault ==
    /\ pc = "exec" /\ Writing
    /\ pc' = "idle"
    /\ sent' = FALSE
    /\ idx' = 1
    /\ SendError(request, "HARDWARE")
    /\ request' = NoFrame
    /\ UNCHANGED <<hw, open, last, runtime, diag>>

CommandFault ==
    /\ pc = "exec" /\ Writing
    /\ pc' = "idle"
    /\ sent' = FALSE
    /\ idx' = 1
    /\ diag' = "FAULT"
    /\ SendError(request, "HARDWARE")
    /\ request' = NoFrame
    /\ UNCHANGED <<hw, open, last, runtime>>

\* Mutant: a broadcast leaves the cache alone.
MutantComplete ==
    /\ pc = "exec" /\ ~Writing
    /\ pc' = "idle"
    /\ idx' = 1
    /\ state' = ResultingState(request, state)
    /\ request' = NoFrame
    /\ IF request.dest = "BROADCAST"
       THEN UNCHANGED <<cache, reply>>
       ELSE cache' = request /\ reply' = Ack(request)
    /\ UNCHANGED <<hw, open, sent, last, invalid, lockout, diag>>

\* The whole plan is written: the new state is believed, then the ACK is cached
\* and sent; a broadcast is not acknowledged and empties the cache.
Complete ==
    /\ pc = "exec" /\ ~Writing
    /\ pc' = "idle"
    /\ idx' = 1
    /\ state' = ResultingState(request, state)
    /\ request' = NoFrame
    /\ IF request.dest = "BROADCAST"
       THEN cache' = NoFrame /\ UNCHANGED reply
       ELSE cache' = request /\ reply' = Ack(request)
    /\ UNCHANGED <<hw, open, sent, last, invalid, lockout, diag>>

-----------------------------------------------------------------------------
(* can_runtime_service_next(): one action per outcome for a received frame *)

Ignore(f) ==
    /\ pc = "idle"
    /\ Decode(f) = "IGNORED"
    /\ reply' = NoReply
    /\ UNCHANGED <<pc, rf, runtime, request, diag>>

\* Counted always; answered only when the frame names this node, the
\* controller and a command.
Reject(f) ==
    /\ pc = "idle"
    /\ Decode(f) \notin {"OK", "IGNORED"}
    /\ IncrementInvalid
    /\ reply' = IF f.extended /\ f.dest = "SELF" /\ f.source = "CONTROLLER"
                   /\ f.type \in CommandTypes
                THEN Error(f, ResultOfDecode(Decode(f))) ELSE NoReply
    /\ UNCHANGED <<pc, rf, state, cache, lockout, request, diag>>

\* A retry of the cached command: the cached ACK, and nothing is written.
Replay(f) ==
    /\ pc = "idle"
    /\ Decode(f) = "OK" /\ Lookup(f) = "HIT"
    /\ reply' = Ack(cache)
    /\ UNCHANGED <<pc, rf, runtime, request, diag>>

SequenceReuse(f) ==
    /\ pc = "idle"
    /\ Decode(f) = "OK" /\ Lookup(f) = "SEQUENCE_REUSE"
    /\ IncrementInvalid
    /\ SendError(f, "SEQUENCE_REUSE")
    /\ UNCHANGED <<pc, rf, state, cache, lockout, request, diag>>

Ping(f) ==
    /\ pc = "idle"
    /\ Decode(f) = "OK" /\ f.type = "PING"
    /\ reply' = Status(f)
    /\ UNCHANGED <<pc, rf, runtime, request, diag>>

Busy(f) ==
    /\ pc = "idle"
    /\ Decode(f) = "OK" /\ Lookup(f) = "MISS"
    /\ f.type \in SettingTypes /\ lockout
    /\ SendError(f, "BUSY")
    /\ UNCHANGED <<pc, rf, runtime, request, diag>>

\* Mutant: the lockout test is missing.
MutantBegin(f) ==
    /\ pc = "idle"
    /\ Decode(f) = "OK" /\ Lookup(f) = "MISS"
    /\ f.type \in StateChangingTypes
    /\ pc' = "exec"
    /\ request' = f
    /\ reply' = NoReply
    /\ UNCHANGED <<rf, runtime, diag>>

Begin(f) ==
    /\ pc = "idle"
    /\ Decode(f) = "OK" /\ Lookup(f) = "MISS"
    /\ f.type = "ENTER_SAFE" \/ (f.type \in SettingTypes /\ ~lockout)
    /\ pc' = "exec"
    /\ request' = f
    /\ reply' = NoReply
    /\ UNCHANGED <<rf, runtime, diag>>

Service(f) ==
    \/ Ignore(f) \/ Reject(f) \/ Replay(f) \/ SequenceReuse(f)
    \/ Ping(f) \/ Busy(f) \/ Begin(f)

Start == Setup \/ StartRuntime \/ StartWithoutCan \/ StartFails
Execute == Transfer \/ Latch \/ BootFault \/ CommandFault \/ Complete

Next == Reset \/ Start \/ Execute \/ \E f \in Traffic : Service(f)

Spec == Init /\ [][Next]_vars

\* The main loop is one thread and every wait of the SPI guard is bounded, so a
\* started node keeps going; frames need not arrive.
FairSpec == Spec /\ WF_vars(Start) /\ WF_vars(Execute)

-----------------------------------------------------------------------------
(* Properties                                                              *)

\* Whatever faults and resets interrupted earlier plans, the node knows what
\* the VGA can hold: waiting for a frame, the attenuation it believes in or the
\* maximum, never less; within a plan, after its first write, the maximum; at
\* the end of a plan, the planned value (rf/plan.c:48-91, main.c:110-122).
AttenuationKnown ==
    /\ pc = "boot" /\ idx > 1 => hw.atten = MaxAttenuation
    /\ pc = "no_can" => hw.atten = MaxAttenuation
    /\ pc = "idle" \/ (pc = "exec" /\ idx <= Len(Plan)) =>
         hw.atten \in {state.atten, MaxAttenuation}
    /\ pc = "exec" /\ idx > 1 /\ idx <= Len(Plan) => hw.atten = MaxAttenuation
    /\ pc = "exec" /\ idx > Len(Plan) => hw.atten = ResultingState(request, state).atten

\* The phase shifter takes a new word only while the VGA has latched maximum
\* attenuation, during commands, retries after faults and start-up alike
\* (main.c:110-122, rf/plan.c:48-91); only re-driving the lines at set-up is exempt.
PhaseMovesOnlyMuted ==
    [][pc # "setup" /\ hw'.phase # hw.phase => hw.atten = MaxAttenuation]_vars

\* A valid replay cache describes the state the node believes it is in: no
\* command executed since has changed it (can/runtime.c:362-369).
CacheDescribesState ==
    pc = "idle" /\ cache # NoFrame => Reflects(cache, state)

\* A command with the key of the cached one is never carried out again: a retry
\* is answered, a reused sequence is refused (can/runtime.c:315-326).
CachedKeyNeverExecuted ==
    [][pc = "idle" /\ pc' = "exec" /\ cache # NoFrame => ~SameKey(request', cache)]_vars

\* The outputs differ from what the firmware believes or recorded as written
\* only if the retained record says FAULT, and then it says so until reset
\* (can/runtime.c:352-360).
DivergenceIsRecorded ==
    pc = "idle" /\ diag # "FAULT" => hw = state /\ last = hw /\ open = {}

\* A locked-out node stays at the safe setting whatever it receives and however
\* its writes fail (main.c:91-93, can/runtime.c:333-336).
LockoutHoldsSafe ==
    lockout /\ pc \in {"idle", "exec", "no_can"} =>
        hw = [phase |-> SafePhase, atten |-> MaxAttenuation]

\* An ACK for a command carried out just now means that both devices latched
\* its whole plan (can/runtime.c:338-371), the attenuation that SET_PHASE puts back
\* after its mute included: no partial plan is acknowledged.
FreshAckMeansLatched ==
    [][pc = "exec" /\ pc' = "idle" /\ reply'.kind = "ACK" =>
         Reflects(request, hw) /\ hw.atten = state'.atten /\ reply' = Ack(request)]_vars

\* README.md:74: "ACK means that the STM32 completed its write sequence", so
\* after an ACK the outputs hold what the acknowledged command asked for.
AckMeansLatched ==
    pc = "idle" /\ reply.kind = "ACK" => Reflects(cache, hw)

\* An accepted unicast command is answered or the node resets.
CommandAnswered ==
    pc = "exec" /\ request.dest = "SELF" ~>
        pc = "setup" \/ (pc = "idle" /\ reply # NoReply)

\* A node that is not reset any more comes into service, or stays up without CAN.
ComesUp == <>[][pc' # "setup"]_vars => []<>(pc \in {"idle", "no_can"})

\* The first write of a boot has made the attenuation the node's own.
Settled == pc \in {"idle", "exec", "no_can"} \/ (pc = "boot" /\ idx > 1)

Output == INSTANCE RfOutput WITH settled <- Settled

\* The receiver implements RfOutput: after each reset the outputs are muted
\* before anything else, and afterwards steered only while muted, whatever
\* frames, faults and resets come in between (main.c:110-122, rf/plan.c:107-139).
OutputSpec == Output!Spec

Unicasts == {f \in StateChanging : f.dest = "SELF"}
Broadcasts == {f \in StateChanging : f.dest = "BROADCAST"}
Outcomes ==
    [f \in StateChanging |-> [s \in [phase : Byte, atten : Attenuations] |-> ResultingState(f, s)]]
AtReset == {Zeroed} \cup [phase : {SafePhase, OperationalPhase}, atten : {MaxAttenuation}]

Node == INSTANCE CommandNode WITH
    Outcome <- Outcomes, Initial <- AtReset, Reasons <- {"HARDWARE", "BUSY", "SEQUENCE_REUSE"},
    NoRequest <- NoFrame

\* To the controller the receiver is a CommandNode: a plan that fails half-way
\* changes neither what it believes nor what it acknowledges, every ACK is for the
\* command in its cache, a used number is refused, and only a reset or a broadcast
\* forgets it (can/runtime.c:45-97, 313-371).
NodeSpec == [][Node!Step(reply')]_<<state, cache, reply>>
=============================================================================
