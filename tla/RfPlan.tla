------------------------------- MODULE RfPlan -------------------------------
(***************************************************************************)
(* The pure part of the receiver: the frames of the CAN protocol as the    *)
(* firmware sees them, the verdict of can_protocol_decode_command() on     *)
(* each, and the sequence of RF writes rf_plan_command() derives from a    *)
(* decoded command and the state the firmware believes the hardware is in. *)
(***************************************************************************)
EXTENDS Naturals, Sequences

CONSTANTS
    Seqs,               \* 16-bit transaction sequence numbers
    Byte,               \* payload byte values that occur on the bus
    MaxAttenuation,     \* VGA_MAX_ATTENUATION_DB
    OperationalPhase    \* phase state of OPERATIONAL_PHASE_MILLIDEGREES

\* Every phase byte is a phase state; an attenuation byte may be out of range.
ASSUME PlanAssumption ==
    /\ Byte \subseteq Nat
    /\ {0, MaxAttenuation, OperationalPhase} \subseteq Byte

\* The phase state of SAFE_PHASE_MILLIDEGREES, and of ENTER_SAFE.
SafePhase == 0

-----------------------------------------------------------------------------
(* Frames                                                                  *)

SettingTypes == {"SET_COMBINED", "SET_PHASE", "SET_VGA"}
StateChangingTypes == SettingTypes \cup {"ENTER_SAFE"}
CommandTypes == StateChangingTypes \cup {"PING"}
ReportTypes == {"STATUS", "ACK", "ERROR"}
Types == CommandTypes \cup ReportTypes

Payloads == {<<>>} \cup {<<b>> : b \in Byte} \cup {<<b, c>> : b, c \in Byte}

Frames == [extended : BOOLEAN, type : Types, dest : {"SELF", "BROADCAST", "OTHER"},
           source : {"CONTROLLER", "NODE"}, seq : Seqs, data : Payloads]

Attenuations == {a \in Byte : a <= MaxAttenuation}

PhaseOf(f) == f.data[1]
AttenuationOf(f) == IF f.type = "SET_COMBINED" THEN f.data[2] ELSE f.data[1]

\* The DLC each command type requires.
RequiredLength(type) ==
    CASE type = "SET_COMBINED" -> 2
      [] type \in {"SET_PHASE", "SET_VGA"} -> 1
      [] OTHER -> 0

-----------------------------------------------------------------------------
(* Decoding: the checks in the order the code makes them.                  *)

Decode(f) ==
    IF ~f.extended THEN "INVALID_ID"
    ELSE IF f.dest = "OTHER" THEN "IGNORED"
    ELSE IF f.source # "CONTROLLER" THEN "INVALID_ID"
    ELSE IF f.type \in ReportTypes THEN "UNSUPPORTED_TYPE"
    ELSE IF f.dest = "BROADCAST" /\ f.type # "ENTER_SAFE" THEN "BROADCAST_NOT_ALLOWED"
    ELSE IF Len(f.data) # RequiredLength(f.type) THEN "INVALID_LENGTH"
    ELSE IF f.type \in {"SET_COMBINED", "SET_VGA"} /\ AttenuationOf(f) > MaxAttenuation
         THEN "INVALID_PAYLOAD"
    ELSE "OK"

Commands == {f \in Frames : Decode(f) = "OK"}
StateChanging == {f \in Commands : f.type \in StateChangingTypes}

\* The command result that reports a decoding verdict to the controller.
ResultOfDecode(verdict) ==
    CASE verdict \in {"INVALID_LENGTH", "BROADCAST_NOT_ALLOWED"} -> verdict
      [] verdict = "UNSUPPORTED_TYPE" -> "UNSUPPORTED"
      [] OTHER -> "INVALID_PAYLOAD"

-----------------------------------------------------------------------------
(* Plans: one to three device writes; VGA and PHASE are separate devices.  *)

SetVga(a) == [device |-> "VGA", value |-> a]
SetPhase(p) == [device |-> "PHASE", value |-> p]

Operations == [device : {"VGA", "PHASE"}, value : Byte]

\* Mutant: the phase is written at whatever attenuation is set.
MutantPhasePlan(p, current) == <<SetPhase(p)>>

\* Raise the attenuation, move the phase, then restore what was there.
PhasePlan(p, current) ==
    IF current.atten # MaxAttenuation
    THEN <<SetVga(MaxAttenuation), SetPhase(p), SetVga(current.atten)>>
    ELSE <<SetPhase(p)>>

\* Mutant: the requested attenuation is not restored after the phase.
MutantCombinedPlan(p, a) == <<SetVga(MaxAttenuation), SetPhase(p)>>

CombinedPlan(p, a) ==
    IF a = MaxAttenuation
    THEN <<SetVga(MaxAttenuation), SetPhase(p)>>
    ELSE <<SetVga(MaxAttenuation), SetPhase(p), SetVga(a)>>

\* Mutant: the phase is written before the VGA.
MutantStartupPlan(p) == <<SetPhase(p), SetVga(MaxAttenuation)>>

StartupPlan(p) == <<SetVga(MaxAttenuation), SetPhase(p)>>

PlanOf(f, current) ==
    CASE f.type = "SET_PHASE" -> PhasePlan(PhaseOf(f), current)
      [] f.type = "SET_VGA" -> <<SetVga(AttenuationOf(f))>>
      [] f.type = "SET_COMBINED" -> CombinedPlan(PhaseOf(f), AttenuationOf(f))
      [] f.type = "ENTER_SAFE" -> <<SetVga(MaxAttenuation), SetPhase(SafePhase)>>

\* plan->resulting_state: what the appended operations leave behind.
ResultingState(f, current) ==
    CASE f.type = "SET_PHASE" -> [current EXCEPT !.phase = PhaseOf(f)]
      [] f.type = "SET_VGA" -> [current EXCEPT !.atten = AttenuationOf(f)]
      [] f.type = "SET_COMBINED" -> [phase |-> PhaseOf(f), atten |-> AttenuationOf(f)]
      [] f.type = "ENTER_SAFE" -> [phase |-> SafePhase, atten |-> MaxAttenuation]

\* A state in which command f has been carried out.
Reflects(f, s) == s = ResultingState(f, s)
=============================================================================
