--------------------------- MODULE ReceiverProofs ---------------------------
(***************************************************************************)
(* Theorems about the receiver for every set of sequences, bytes and       *)
(* frames: its types, what the VGA can hold, when the phase moves, and     *)
(* that the receiver implements RfOutput.                                  *)
(***************************************************************************)
EXTENDS Receiver, TLAPS

Believed == [phase : Byte, atten : Attenuations]

\* What the assumptions say about single bytes.
LEMMA Bytes ==
    /\ Byte \subseteq Nat
    /\ {0, SafePhase, MaxAttenuation, OperationalPhase} \subseteq Byte
    /\ MaxAttenuation \in Nat
    /\ Attenuations \subseteq Byte
    /\ {0, MaxAttenuation} \subseteq Attenuations
<1>1. Byte \subseteq Nat
  BY PlanAssumption
<1>2. 0 \in Byte /\ MaxAttenuation \in Byte /\ OperationalPhase \in Byte
  BY PlanAssumption
<1> QED
  BY <1>1, <1>2 DEF Attenuations, SafePhase

\* A byte that passes the range check of the decoder is an attenuation.
LEMMA InRange == \A x \in Byte : ~(x > MaxAttenuation) => x \in Attenuations
BY Bytes DEF Attenuations

\* A decoded payload holds the bytes its command needs, in range.
LEMMA DecodedPayload ==
    ASSUME NEW f \in StateChanging
    PROVE  /\ f \in Frames
           /\ f.type \in StateChangingTypes
           /\ f.type \in {"SET_PHASE", "SET_COMBINED"} => PhaseOf(f) \in Byte
           /\ f.type \in {"SET_VGA", "SET_COMBINED"} => AttenuationOf(f) \in Attenuations
<1>1. /\ f \in Frames /\ f.type \in StateChangingTypes /\ Decode(f) = "OK"
  BY DEF StateChanging, Commands
<1>2. Len(f.data) = RequiredLength(f.type)
  BY <1>1 DEF Decode
<1>3. f.data \in Payloads
  BY <1>1 DEF Frames
<1>4. CASE f.type = "SET_COMBINED"
  <2>1. PICK b \in Byte, c \in Byte : f.data = <<b, c>>
    BY <1>2, <1>3, <1>4 DEF Payloads, RequiredLength
  <2>2. ~(AttenuationOf(f) > MaxAttenuation)
    BY <1>1, <1>4 DEF Decode
  <2>3. AttenuationOf(f) \in Byte
    BY <1>4, <2>1 DEF AttenuationOf
  <2>4. AttenuationOf(f) \in Attenuations
    BY <2>2, <2>3, InRange
  <2> QED
    BY <1>1, <1>4, <2>1, <2>4 DEF PhaseOf
<1>5. CASE f.type = "SET_VGA"
  <2>1. PICK b \in Byte : f.data = <<b>>
    BY <1>2, <1>3, <1>5 DEF Payloads, RequiredLength
  <2>2. ~(AttenuationOf(f) > MaxAttenuation)
    BY <1>1, <1>5 DEF Decode
  <2>3. AttenuationOf(f) \in Byte
    BY <1>5, <2>1 DEF AttenuationOf
  <2>4. AttenuationOf(f) \in Attenuations
    BY <2>2, <2>3, InRange
  <2> QED
    BY <1>1, <1>5, <2>1, <2>4 DEF PhaseOf
<1>6. CASE f.type = "SET_PHASE"
  <2>1. PICK b \in Byte : f.data = <<b>>
    BY <1>2, <1>3, <1>6 DEF Payloads, RequiredLength
  <2> QED
    BY <1>1, <1>6, <2>1 DEF PhaseOf
<1>7. CASE f.type = "ENTER_SAFE"
  BY <1>1, <1>7
<1> QED
  BY <1>1, <1>4, <1>5, <1>6, <1>7 DEF StateChangingTypes, SettingTypes

\* A plan has one of four shapes, and its resulting state is what the last
\* write to each device leaves there.
LEMMA PlanShape ==
    ASSUME NEW f \in StateChanging, NEW s \in Believed
    PROVE  \E p \in Byte, a \in Attenuations :
             \/ /\ PlanOf(f, s) = <<SetVga(a)>>
                /\ ResultingState(f, s) = [phase |-> s.phase, atten |-> a]
             \/ /\ PlanOf(f, s) = <<SetPhase(p)>> /\ s.atten = MaxAttenuation
                /\ ResultingState(f, s) = [phase |-> p, atten |-> MaxAttenuation]
             \/ /\ PlanOf(f, s) = <<SetVga(MaxAttenuation), SetPhase(p)>>
                /\ ResultingState(f, s) = [phase |-> p, atten |-> MaxAttenuation]
             \/ /\ PlanOf(f, s) = <<SetVga(MaxAttenuation), SetPhase(p), SetVga(a)>>
                /\ ResultingState(f, s) = [phase |-> p, atten |-> a]
<1>0. /\ MaxAttenuation \in Attenuations /\ SafePhase \in Byte
      /\ s.phase \in Byte /\ s.atten \in Attenuations
      /\ s = [phase |-> s.phase, atten |-> s.atten]
  BY Bytes DEF Believed
<1>1. CASE f.type = "SET_VGA"
  <2>1. AttenuationOf(f) \in Attenuations
    BY <1>1, DecodedPayload
  <2>2. PlanOf(f, s) = <<SetVga(AttenuationOf(f))>>
    BY <1>1 DEF PlanOf
  <2>3. ResultingState(f, s) = [phase |-> s.phase, atten |-> AttenuationOf(f)]
    BY <1>0, <1>1 DEF ResultingState
  <2> QED
    BY <1>0, <2>1, <2>2, <2>3
<1>2. CASE f.type = "SET_PHASE"
  <2>1. PhaseOf(f) \in Byte
    BY <1>2, DecodedPayload
  <2>2. PlanOf(f, s) = PhasePlan(PhaseOf(f), s)
    BY <1>2 DEF PlanOf
  <2>3. ResultingState(f, s) = [phase |-> PhaseOf(f), atten |-> s.atten]
    BY <1>0, <1>2 DEF ResultingState
  <2> QED
    BY <1>0, <2>1, <2>2, <2>3 DEF PhasePlan
<1>3. CASE f.type = "SET_COMBINED"
  <2>1. PhaseOf(f) \in Byte /\ AttenuationOf(f) \in Attenuations
    BY <1>3, DecodedPayload
  <2>2. PlanOf(f, s) = CombinedPlan(PhaseOf(f), AttenuationOf(f))
    BY <1>3 DEF PlanOf
  <2>3. ResultingState(f, s) = [phase |-> PhaseOf(f), atten |-> AttenuationOf(f)]
    BY <1>3 DEF ResultingState
  <2> QED
    BY <1>0, <2>1, <2>2, <2>3 DEF CombinedPlan
<1>4. CASE f.type = "ENTER_SAFE"
  BY <1>0, <1>4 DEF PlanOf, ResultingState
<1> QED
  BY <1>1, <1>2, <1>3, <1>4, DecodedPayload DEF StateChangingTypes, SettingTypes

\* A plan has one to three operations (RF_PLAN_MAX_OPERATIONS).
LEMMA PlanLength == \A f \in StateChanging, s \in Believed : Len(PlanOf(f, s)) \in 1..3
<1> TAKE f \in StateChanging, s \in Believed
<1> QED
  BY PlanShape

-----------------------------------------------------------------------------
(* The inductive invariant                                                 *)

\* Between plans the next write is the first, and only a decoded command runs.
Executing ==
    /\ pc = "exec" => request \in StateChanging
    /\ pc \in {"setup", "idle"} => idx = 1

IInv == TypeOK /\ Executing /\ AttenuationKnown

\* The plan at hand, whatever it is for: each write is of a known device and
\* value, the first one mutes unless the node believes it is muted already, and
\* only a last write touches the VGA again.
LEMMA PlanAtHand ==
    ASSUME TypeOK, Executing, pc \in {"boot", "exec"}
    PROVE  /\ Len(Plan) \in 1..3
           /\ \A i \in 1..Len(Plan) : Plan[i] \in Operations
           /\ \A i \in 1..Len(Plan) :
                Plan[i].device = "VGA" => Plan[i].value \in Attenuations
           /\ pc = "boot" => Len(Plan) = 2 /\ Plan[1] = SetVga(MaxAttenuation)
                             /\ Plan[2].device = "PHASE"
           /\ Len(Plan) > 1 => Plan[1] = SetVga(MaxAttenuation) /\ Plan[2].device = "PHASE"
           /\ Len(Plan) = 1 /\ Plan[1].device = "PHASE" => state.atten = MaxAttenuation
           /\ pc = "exec" => /\ ResultingState(request, state) \in Believed
                             /\ \/ /\ Plan[Len(Plan)].device = "VGA"
                                   /\ Plan[Len(Plan)].value
                                        = ResultingState(request, state).atten
                                \/ /\ Plan[Len(Plan)].device = "PHASE"
                                   /\ ResultingState(request, state).atten = MaxAttenuation
<1>1. CASE pc = "boot"
  <2>1. Plan = <<SetVga(MaxAttenuation), SetPhase(BootPhase)>> /\ BootPhase \in Byte
    BY <1>1, Bytes DEF Plan, StartupPlan, BootPhase
  <2> QED
    BY <1>1, <2>1, Bytes DEF SetVga, SetPhase, Operations
<1>2. CASE pc = "exec"
  <2>1. request \in StateChanging /\ state \in Believed
    BY <1>2 DEF Executing, TypeOK, Believed
  <2>2. Plan = PlanOf(request, state)
    BY <1>2 DEF Plan
  <2>3. state.phase \in Byte
    BY <2>1 DEF Believed
  <2>4. PICK p \in Byte, a \in Attenuations :
             \/ /\ Plan = <<SetVga(a)>>
                /\ ResultingState(request, state) = [phase |-> state.phase, atten |-> a]
             \/ /\ Plan = <<SetPhase(p)>> /\ state.atten = MaxAttenuation
                /\ ResultingState(request, state) = [phase |-> p, atten |-> MaxAttenuation]
             \/ /\ Plan = <<SetVga(MaxAttenuation), SetPhase(p)>>
                /\ ResultingState(request, state) = [phase |-> p, atten |-> MaxAttenuation]
             \/ /\ Plan = <<SetVga(MaxAttenuation), SetPhase(p), SetVga(a)>>
                /\ ResultingState(request, state) = [phase |-> p, atten |-> a]
    BY <2>1, <2>2, PlanShape
  <2>5. /\ SetVga(a) \in Operations /\ SetPhase(p) \in Operations
        /\ SetVga(MaxAttenuation) \in Operations
        /\ SetVga(a).device = "VGA" /\ SetVga(a).value = a /\ SetPhase(p).device = "PHASE"
        /\ SetVga(MaxAttenuation).value \in Attenuations
    BY Bytes DEF SetVga, SetPhase, Operations
  <2>6. /\ [phase |-> state.phase, atten |-> a] \in Believed
        /\ [phase |-> p, atten |-> a] \in Believed
        /\ [phase |-> p, atten |-> MaxAttenuation] \in Believed
    BY <2>3, Bytes DEF Believed
  <2>7. CASE /\ Plan = <<SetVga(a)>>
             /\ ResultingState(request, state) = [phase |-> state.phase, atten |-> a]
    BY <1>2, <2>5, <2>6, <2>7
  <2>8. CASE /\ Plan = <<SetPhase(p)>> /\ state.atten = MaxAttenuation
             /\ ResultingState(request, state) = [phase |-> p, atten |-> MaxAttenuation]
    BY <1>2, <2>5, <2>6, <2>8
  <2>9. CASE /\ Plan = <<SetVga(MaxAttenuation), SetPhase(p)>>
             /\ ResultingState(request, state) = [phase |-> p, atten |-> MaxAttenuation]
    BY <1>2, <2>5, <2>6, <2>9
  <2>10. CASE /\ Plan = <<SetVga(MaxAttenuation), SetPhase(p), SetVga(a)>>
              /\ ResultingState(request, state) = [phase |-> p, atten |-> a]
    BY <1>2, <2>5, <2>6, <2>10
  <2> QED
    BY <2>4, <2>7, <2>8, <2>9, <2>10
<1> QED
  BY <1>1, <1>2

-----------------------------------------------------------------------------
(* Types                                                                   *)

\* The values reset leaves behind are of the right types.
LEMMA Blank ==
    /\ Zeroed \in Settings /\ Zeroed \in [phase : Byte, atten : Attenuations]
    /\ NoReply \in Replies
    /\ 0 \in 0..MaxInvalid /\ 1 \in 1..4
BY Bytes, ReceiverAssumption DEF Zeroed, Settings, Replies

\* A reset leaves a well-typed state, whatever it records of its cause.
LEMMA ResetTyped ==
    ASSUME TypeOK, NEW d \in DiagStates, ResetTo(d)
    PROVE  TypeOK' /\ Executing'
BY Blank DEF TypeOK, Executing, ResetTo

\* What a frame that passes the decoder, or only the address checks, can be
\* answered with.
LEMMA AnswersTyped ==
    /\ \A f \in StateChanging : Ack(f) \in Replies
    /\ \A f \in Frames, r \in Results : f.type \in CommandTypes => Error(f, r) \in Replies
    /\ \A f \in Frames : ResultOfDecode(Decode(f)) \in Results
<1>1. \A f \in StateChanging : f \in Frames /\ f.type \in StateChangingTypes
  BY DecodedPayload
<1>2. \A f \in Frames : f.seq \in Seqs
  BY DEF Frames
<1>3. \A f \in StateChanging : Ack(f) \in Replies
  BY <1>1, <1>2 DEF Ack, Replies
<1>4. \A f \in Frames, r \in Results : f.type \in CommandTypes => Error(f, r) \in Replies
  BY <1>2 DEF Error, Replies
<1>5. \A f \in Frames : ResultOfDecode(Decode(f)) \in Results
  BY DEF ResultOfDecode, Decode, Results
<1> QED
  BY <1>3, <1>4, <1>5

\* The node starts well typed and not within a command.
LEMMA TypeInit == Init => TypeOK /\ Executing
BY Blank DEF Init, TypeOK, Executing, DiagStates

\* Every step preserves the types, and "exec" is only entered with a command.
LEMMA TypeStep == TypeOK /\ Executing /\ [Next]_vars => TypeOK' /\ Executing'
<1> SUFFICES ASSUME TypeOK, Executing, [Next]_vars
             PROVE  TypeOK' /\ Executing'
  OBVIOUS
<1>1. CASE Reset
  BY <1>1, ResetTyped DEF Reset, TypeOK
<1>2. CASE Setup
  <2>1. hw' \in Settings
    BY <1>2 DEF Setup, TypeOK, Settings
  <2> QED
    BY <1>2, <2>1 DEF Setup, TypeOK, Executing, DiagStates
<1>3. CASE StartRuntime
  <2>1. [phase |-> BootPhase, atten |-> MaxAttenuation] \in [phase : Byte, atten : Attenuations]
    BY Bytes DEF BootPhase
  <2> QED
    BY <1>3, <2>1, ReceiverAssumption DEF StartRuntime, TypeOK, Executing, DiagStates
<1>4. CASE StartWithoutCan
  BY <1>4 DEF StartWithoutCan, TypeOK, Executing, DiagStates, rf, runtime
<1>5. CASE StartFails
  BY <1>5, ResetTyped DEF StartFails, DiagStates
<1>6. CASE Transfer
  <2>1. Plan[idx].device \in Devices
    BY <1>6, PlanAtHand DEF Transfer, Writing, TypeOK, Operations, Devices
  <2> QED
    BY <1>6, <2>1 DEF Transfer, TypeOK, Executing, runtime
<1>7. CASE Latch
  <2>1. Plan[idx] \in Operations /\ idx \in 1..3
    BY <1>7, PlanAtHand DEF Latch, Writing, TypeOK
  <2>2. \A s \in Settings : Setting(s, Plan[idx]) \in Settings
    BY <2>1 DEF Setting, Settings, Operations
  <2>3. hw' \in Settings /\ last' \in Settings
    BY <1>7, <2>2 DEF Latch, TypeOK
  <2>4. idx' \in 1..4 /\ open' \subseteq Devices /\ diag' \in DiagStates
    BY <1>7, <2>1 DEF Latch, TypeOK, DiagStates
  <2>5. pc \in {"boot", "exec"}
    BY <1>7 DEF Latch, Writing
  <2> QED
    BY <1>7, <2>3, <2>4, <2>5 DEF Latch, TypeOK, Executing, runtime
<1>8. CASE BootFault
  BY <1>8, ResetTyped DEF BootFault, DiagStates
<1>9. CASE CommandFault
  <2>1. request \in Frames /\ request.type \in CommandTypes
    BY <1>9, DecodedPayload DEF CommandFault, Executing, CommandTypes
  <2>2. reply' \in Replies
    BY <1>9, <2>1, AnswersTyped, Blank DEF CommandFault, SendError, Results
  <2> QED
    BY <1>9, <2>2, Blank DEF CommandFault, TypeOK, Executing, DiagStates, runtime
<1>10. CASE Complete
  <2>1. request \in StateChanging
    BY <1>10 DEF Complete, Executing
  <2>2. state' \in [phase : Byte, atten : Attenuations]
    BY <1>10, PlanAtHand DEF Complete, Believed
  <2>3. reply' \in Replies /\ cache' \in StateChanging \cup {NoFrame}
    BY <1>10, <2>1, AnswersTyped DEF Complete, TypeOK
  <2> QED
    BY <1>10, <2>2, <2>3 DEF Complete, TypeOK, Executing
<1>11. CASE \E f \in Traffic : Service(f)
  <2> PICK f \in Traffic : Service(f)
    BY <1>11
  <2>0. f \in Frames
    BY ReceiverAssumption
  <2>1. CASE Ignore(f)
    BY <2>1, Blank DEF Ignore, TypeOK, Executing, rf, runtime
  <2>2. CASE Reject(f)
    <3>1. reply' \in Replies
      BY <2>0, <2>2, AnswersTyped, Blank DEF Reject
    <3> QED
      BY <2>2, <3>1, ReceiverAssumption
      DEF Reject, IncrementInvalid, TypeOK, Executing, rf
  <2>3. CASE Replay(f)
    <3>1. cache \in StateChanging
      BY <2>3 DEF Replay, Lookup, TypeOK
    <3> QED
      BY <2>3, <3>1, AnswersTyped DEF Replay, TypeOK, Executing, rf, runtime
  <2>4. CASE SequenceReuse(f)
    <3>1. f.type \in CommandTypes
      BY <2>4 DEF SequenceReuse, Lookup, CommandTypes
    <3>2. reply' \in Replies
      BY <2>0, <2>4, <3>1, AnswersTyped, Blank DEF SequenceReuse, SendError, Results
    <3> QED
      BY <2>4, <3>2, ReceiverAssumption
      DEF SequenceReuse, IncrementInvalid, TypeOK, Executing, rf
  <2>5. CASE Ping(f)
    <3>1. f.seq \in Seqs
      BY <2>0 DEF Frames
    <3>2. Status(f) \in Replies
      BY <3>1 DEF Status, Replies, TypeOK
    <3> QED
      BY <2>5, <3>2 DEF Ping, TypeOK, Executing, rf, runtime
  <2>6. CASE Busy(f)
    <3>1. f.type \in CommandTypes
      BY <2>6 DEF Busy, CommandTypes, StateChangingTypes
    <3>2. reply' \in Replies
      BY <2>0, <2>6, <3>1, AnswersTyped, Blank DEF Busy, SendError, Results
    <3> QED
      BY <2>6, <3>2 DEF Busy, TypeOK, Executing, rf, runtime
  <2>7. CASE Begin(f)
    <3>1. f \in StateChanging
      BY <2>0, <2>7 DEF Begin, StateChanging, Commands, StateChangingTypes
    <3> QED
      BY <2>7, <3>1, Blank DEF Begin, TypeOK, Executing, rf, runtime
  <2> QED
    BY <2>1, <2>2, <2>3, <2>4, <2>5, <2>6, <2>7 DEF Service
<1>12. CASE UNCHANGED vars
  BY <1>12 DEF vars, rf, runtime, TypeOK, Executing
<1> QED
  BY <1>1, <1>2, <1>3, <1>4, <1>5, <1>6, <1>7, <1>8, <1>9, <1>10, <1>11, <1>12
  DEF Next, Start, Execute

-----------------------------------------------------------------------------
(* The attenuation                                                         *)

\* Only Latch and Setup touch the devices; a frame that starts no plan touches
\* nothing the attenuation depends on.
LEMMA AttenuationStep == IInv /\ [Next]_vars => AttenuationKnown'
<1> SUFFICES ASSUME IInv, [Next]_vars
             PROVE  AttenuationKnown'
  OBVIOUS
<1> USE DEF IInv
<1>1. CASE Reset \/ StartFails \/ BootFault
  BY <1>1 DEF Reset, StartFails, BootFault, ResetTo, AttenuationKnown
<1>2. CASE Setup
  <2>1. ~(idx' > 1) /\ pc' = "boot"
    BY <1>2 DEF Setup, Executing
  <2> QED
    BY <2>1 DEF AttenuationKnown
<1>3. CASE StartRuntime
  <2>1. hw.atten = MaxAttenuation
    BY <1>3, PlanAtHand DEF StartRuntime, StartupPlan, AttenuationKnown
  <2> QED
    BY <1>3, <2>1 DEF StartRuntime, AttenuationKnown
<1>4. CASE StartWithoutCan
  <2>1. hw.atten = MaxAttenuation
    BY <1>4, PlanAtHand DEF StartWithoutCan, StartupPlan, AttenuationKnown
  <2> QED
    BY <1>4, <2>1 DEF StartWithoutCan, AttenuationKnown, rf
<1>5. CASE Transfer
  <2>1. Plan' = Plan
    BY <1>5 DEF Transfer, Plan, BootPhase, runtime
  <2> QED
    BY <1>5, <2>1 DEF Transfer, AttenuationKnown, runtime
<1>6. CASE Latch
  <2>1. Plan' = Plan /\ ResultingState(request, state)' = ResultingState(request, state)
    BY <1>6 DEF Latch, Plan, BootPhase, runtime
  <2>2. /\ idx \in 1..Len(Plan) /\ idx' = idx + 1
        /\ pc' = pc /\ state' = state /\ pc \in {"boot", "exec"}
    BY <1>6, PlanAtHand DEF Latch, Writing, TypeOK, runtime
  <2>3. hw'.atten = IF Plan[idx].device = "VGA" THEN Plan[idx].value ELSE hw.atten
    BY <1>6 DEF Latch, Setting, TypeOK, Settings
  <2>4. CASE pc = "boot"
    <3>1. hw'.atten = MaxAttenuation
      <4>1. CASE idx = 1
        <5>1. Plan[idx] = SetVga(MaxAttenuation)
          BY <2>4, <4>1, PlanAtHand
        <5> QED
          BY <2>3, <5>1 DEF SetVga
      <4>2. CASE idx = 2
        <5>1. Plan[idx].device = "PHASE"
          BY <2>4, <4>2, PlanAtHand
        <5>2. hw.atten = MaxAttenuation
          BY <2>4, <4>2 DEF AttenuationKnown
        <5> QED
          BY <2>3, <5>1, <5>2
      <4> QED
        <5>1. Len(Plan) = 2
          BY <2>4, PlanAtHand
        <5>2. idx \in 1..2
          BY <2>2, <5>1
        <5> QED
          BY <4>1, <4>2, <5>2
    <3> QED
      BY <2>2, <2>4, <3>1 DEF AttenuationKnown
  <2>5. CASE pc = "exec" /\ idx = Len(Plan)
    <3>1. hw'.atten = ResultingState(request, state).atten
      <4>1. CASE Plan[idx].device = "VGA"
        BY <2>3, <2>5, <4>1, PlanAtHand
      <4>2. CASE Plan[idx].device = "PHASE"
        <5>1. ResultingState(request, state).atten = MaxAttenuation
          BY <2>5, <4>2, PlanAtHand
        <5>2. hw.atten = MaxAttenuation
          BY <2>2, <2>5, <4>2, PlanAtHand DEF AttenuationKnown
        <5> QED
          BY <2>3, <4>2, <5>1, <5>2
      <4> QED
        BY <2>5, <4>1, <4>2, PlanAtHand
    <3>2. ~(idx' <= Len(Plan))
      BY <2>2, <2>5, PlanAtHand
    <3> QED
      BY <2>1, <2>2, <2>5, <3>1, <3>2 DEF AttenuationKnown
  <2>6. CASE pc = "exec" /\ idx < Len(Plan)
    <3>1. hw'.atten = MaxAttenuation
      BY <2>2, <2>3, <2>6, PlanAtHand DEF AttenuationKnown, SetVga
    <3>2. ~(idx' > Len(Plan))
      BY <2>2, <2>6, PlanAtHand
    <3> QED
      BY <2>1, <2>2, <2>6, <3>1, <3>2 DEF AttenuationKnown
  <2> QED
    BY <2>2, <2>4, <2>5, <2>6, PlanAtHand
<1>7. CASE CommandFault
  BY <1>7 DEF CommandFault, Writing, AttenuationKnown, runtime
<1>8. CASE Complete
  <2>1. hw.atten = ResultingState(request, state).atten
    BY <1>8, PlanAtHand DEF Complete, Writing, AttenuationKnown, TypeOK
  <2> QED
    BY <1>8, <2>1 DEF Complete, AttenuationKnown
<1>9. CASE \E f \in Traffic : Service(f)
  <2> PICK f \in Traffic : Service(f)
    BY <1>9
  <2>1. hw' = hw /\ state' = state /\ idx' = idx /\ pc = "idle"
    BY DEF Service, Ignore, Reject, Replay, SequenceReuse, Ping, Busy, Begin, rf, runtime
  <2>2. CASE pc' = "idle"
    BY <2>1, <2>2 DEF AttenuationKnown
  <2>3. CASE Begin(f)
    <3>1. idx' = 1 /\ pc' = "exec"
      BY <2>1, <2>3 DEF Begin, Executing
    <3>2. Plan' = PlanOf(f, state) /\ f \in StateChanging
      <4>1. f \in Frames
        BY ReceiverAssumption
      <4>2. f \in StateChanging
        BY <2>3, <4>1 DEF Begin, StateChanging, Commands, StateChangingTypes
      <4> QED
        BY <2>1, <2>3, <4>2 DEF Begin, Plan
    <3>3. Len(Plan') \in 1..3
      BY <3>2, PlanLength DEF TypeOK, Believed
    <3> QED
      BY <2>1, <3>1, <3>3 DEF AttenuationKnown
  <2> QED
    BY <2>1, <2>2, <2>3
    DEF Service, Ignore, Reject, Replay, SequenceReuse, Ping, Busy
<1>10. CASE UNCHANGED vars
  BY <1>10 DEF vars, rf, runtime, AttenuationKnown, Plan, BootPhase
<1> QED
  BY <1>1, <1>2, <1>3, <1>4, <1>5, <1>6, <1>7, <1>8, <1>9, <1>10
  DEF Next, Start, Execute

-----------------------------------------------------------------------------
(* Theorems                                                                *)

\* The inductive invariant: types, a command at hand exactly while one is being
\* executed, and what is known of the attenuation.
THEOREM Invariance == Spec => []IInv
<1>1. Init => IInv
  BY TypeInit DEF IInv, Init, AttenuationKnown
<1>2. IInv /\ [Next]_vars => IInv'
  BY TypeStep, AttenuationStep DEF IInv
<1> QED
  BY <1>1, <1>2, PTL DEF Spec

\* Every reachable state of the receiver is well typed: counters saturate, every
\* reply is one the protocol has, only decoded commands are executed or cached.
THEOREM TypeCorrect == Spec => []TypeOK
<1>1. IInv => TypeOK
  BY DEF IInv
<1> QED
  BY <1>1, Invariance, PTL

\* Faults and resets never leave less attenuation than the node believes in, and
\* everything between the first and the last write of a plan happens muted.
THEOREM AttenuationAlwaysKnown == Spec => []AttenuationKnown
<1>1. IInv => AttenuationKnown
  BY DEF IInv
<1> QED
  BY <1>1, Invariance, PTL

\* What a latch does to the outputs: the phase moves only with the VGA at its
\* maximum, and a boot begins by muting.
LEMMA LatchEffect ==
    ASSUME IInv, Latch
    PROVE  \/ /\ pc = "boot" /\ idx = 1
              /\ hw' = [hw EXCEPT !.atten = MaxAttenuation]
           \/ /\ Settled /\ Plan[idx].value \in Attenuations
              /\ hw' = [hw EXCEPT !.atten = Plan[idx].value]
           \/ /\ Settled /\ hw.atten = MaxAttenuation /\ Plan[idx].value \in Byte
              /\ hw' = [hw EXCEPT !.phase = Plan[idx].value]
<1> USE DEF IInv
<1>1. idx \in 1..Len(Plan) /\ pc \in {"boot", "exec"} /\ hw' = Setting(hw, Plan[idx])
  BY PlanAtHand DEF Latch, Writing, TypeOK
<1>2. Plan[idx] \in Operations
  BY <1>1, PlanAtHand
<1>3. CASE pc = "boot" /\ idx = 1
  <2>1. Plan[idx] = SetVga(MaxAttenuation)
    BY <1>3, PlanAtHand
  <2> QED
    BY <1>1, <1>3, <2>1 DEF Setting, SetVga
<1>4. CASE Plan[idx].device = "VGA" /\ ~(pc = "boot" /\ idx = 1)
  <2>1. Settled
    BY <1>1, <1>4, PlanAtHand DEF Settled
  <2>2. Plan[idx].value \in Attenuations
    BY <1>1, <1>4, PlanAtHand
  <2>3. hw' = [hw EXCEPT !.atten = Plan[idx].value]
    BY <1>1, <1>4 DEF Setting
  <2> QED
    BY <2>1, <2>2, <2>3
<1>5. CASE Plan[idx].device = "PHASE" /\ ~(pc = "boot" /\ idx = 1)
  <2>1. Settled
    BY <1>1, <1>5, PlanAtHand DEF Settled
  <2>2. Plan[idx].value \in Byte
    BY <1>2 DEF Operations
  <2>3. hw' = [hw EXCEPT !.phase = Plan[idx].value]
    BY <1>1, <1>5 DEF Setting
  <2>4. hw.atten = MaxAttenuation
    <3>1. CASE pc = "boot"
      BY <1>1, <1>5, <3>1, PlanAtHand DEF AttenuationKnown
    <3>2. CASE pc = "exec" /\ idx = 1
      <4>1. Len(Plan) = 1
        BY <1>1, <1>5, <3>2, PlanAtHand DEF SetVga
      <4> QED
        BY <1>1, <1>5, <3>2, <4>1, PlanAtHand DEF AttenuationKnown
    <3>3. CASE pc = "exec" /\ idx > 1
      BY <1>1, <3>3, PlanAtHand DEF AttenuationKnown
    <3> QED
      BY <1>1, <3>1, <3>2, <3>3, PlanAtHand
  <2> QED
    BY <2>1, <2>2, <2>3, <2>4
<1> QED
  BY <1>2, <1>3, <1>4, <1>5 DEF Operations

\* Every step but a latch and a set-up leaves the outputs alone.
LEMMA OnlyLatchAndSetupTouchOutputs ==
    [Next]_vars => \/ Latch \/ Setup
                   \/ hw' = hw
BY DEF Next, Reset, ResetTo, Start, StartRuntime, StartWithoutCan, StartFails, Execute,
       Transfer, BootFault, CommandFault, Complete, Service, Ignore, Reject, Replay,
       SequenceReuse, Ping, Busy, Begin, vars, rf

\* The phase shifter takes a new word only while the VGA is at its maximum.
THEOREM PhaseMovesMuted == Spec => PhaseMovesOnlyMuted
<1> DEFINE Muted == pc # "setup" /\ hw'.phase # hw.phase => hw.atten = MaxAttenuation
<1>1. IInv /\ [Next]_vars => Muted
  <2> SUFFICES ASSUME IInv, [Next]_vars, pc # "setup", hw'.phase # hw.phase
               PROVE  hw.atten = MaxAttenuation
    OBVIOUS
  <2>1. Latch
    BY OnlyLatchAndSetupTouchOutputs DEF Setup
  <2>2. hw \in Settings
    BY DEF IInv, TypeOK
  <2> QED
    BY <2>1, <2>2, LatchEffect DEF Settings
<1>2. [][Muted]_vars <=> PhaseMovesOnlyMuted
  BY DEF PhaseMovesOnlyMuted
<1> QED
  BY <1>1, <1>2, Invariance, PTL DEF Spec

\* The receiver implements RfOutput: a boot mutes before it does anything else,
\* and the phase is steered only while muted.
THEOREM OutputImplemented == Spec => OutputSpec
<1>1. Init => Output!Init
  BY DEF Init, Output!Init, Settled, Settings
<1>2. IInv /\ [Next]_vars => [Output!Next]_(Output!vars)
  <2> SUFFICES ASSUME IInv, [Next]_vars
               PROVE  Output!Next \/ UNCHANGED <<hw, Settled>>
    BY DEF Output!vars
  <2> USE DEF IInv
  <2>1. CASE Reset \/ StartFails \/ BootFault
    <3>1. hw' = hw /\ ~Settled'
      BY <2>1 DEF Reset, StartFails, BootFault, ResetTo, Settled
    <3> QED
      BY <3>1 DEF Output!Next, Output!PowerOn, TypeOK, Settings
  <2>2. CASE Setup
    <3>1. hw' \in Settings
      BY <2>2 DEF Setup, TypeOK, Settings
    <3>2. ~Settled'
      BY <2>2 DEF Setup, Executing, Settled
    <3> QED
      BY <3>1, <3>2 DEF Output!Next, Output!PowerOn, Settings
  <2>3. CASE Latch
    <3>1. pc' = pc /\ idx' = idx + 1 /\ idx \in 1..4 /\ pc \in {"boot", "exec"}
      BY <2>3 DEF Latch, Writing, TypeOK
    <3>2. Settled' /\ (Settled => Settled' = Settled)
      <4>1. idx' > 1
        BY <3>1
      <4>2. Settled'
        BY <3>1, <4>1 DEF Settled
      <4>3. Settled => Settled' = Settled
        BY <3>1, <4>1 DEF Settled
      <4> QED
        BY <4>2, <4>3
    <3>3. CASE pc = "boot" /\ idx = 1 /\ hw' = [hw EXCEPT !.atten = MaxAttenuation]
      BY <3>2, <3>3 DEF Output!Next, Output!Mute
    <3>4. CASE /\ Settled /\ Plan[idx].value \in Attenuations
               /\ hw' = [hw EXCEPT !.atten = Plan[idx].value]
      BY <3>2, <3>4 DEF Output!Next, Output!Attenuate
    <3>5. CASE /\ Settled /\ hw.atten = MaxAttenuation /\ Plan[idx].value \in Byte
               /\ hw' = [hw EXCEPT !.phase = Plan[idx].value]
      BY <3>2, <3>5 DEF Output!Next, Output!Steer
    <3> QED
      BY <2>3, <3>3, <3>4, <3>5, LatchEffect
  <2>4. CASE StartRuntime \/ StartWithoutCan
    <3>1. hw' = hw /\ pc = "boot" /\ idx > 1 /\ pc' \in {"idle", "no_can"}
      BY <2>4 DEF StartRuntime, StartWithoutCan, StartupPlan, rf
    <3> QED
      BY <3>1 DEF Settled
  <2>5. CASE Transfer
    BY <2>5 DEF Transfer, Settled
  <2>6. CASE CommandFault \/ Complete
    BY <2>6 DEF CommandFault, Complete, Settled
  <2>7. CASE \E f \in Traffic : Service(f)
    <3>1. hw' = hw /\ pc = "idle" /\ pc' \in {"idle", "exec"}
      BY <2>7
      DEF Service, Ignore, Reject, Replay, SequenceReuse, Ping, Busy, Begin, rf
    <3> QED
      BY <3>1 DEF Settled
  <2>8. CASE UNCHANGED vars
    BY <2>8 DEF vars, rf, Settled
  <2> QED
    BY <2>1, <2>2, <2>3, <2>4, <2>5, <2>6, <2>7, <2>8 DEF Next, Start, Execute
<1>3. Output!Spec => OutputSpec
  BY DEF OutputSpec
<1> QED
  BY <1>1, <1>2, <1>3, Invariance, PTL DEF Spec, Output!Spec

-----------------------------------------------------------------------------
(* The replay cache                                                        *)

\* Carrying a command out twice changes nothing the second time.
LEMMA Idempotent ==
    \A f \in StateChanging, s \in Believed : Reflects(f, ResultingState(f, s))
<1> TAKE f \in StateChanging, s \in Believed
<1>1. f.type \in {"SET_COMBINED", "SET_PHASE", "SET_VGA", "ENTER_SAFE"}
  BY DecodedPayload DEF StateChangingTypes, SettingTypes
<1> QED
  BY <1>1 DEF Reflects, ResultingState, Believed

CacheInv == cache # NoFrame => Reflects(cache, state)

\* A valid replay cache describes the state the node believes in: a replayed
\* ACK is never for a setting that a later command has replaced.
THEOREM CacheAlwaysDescribesState == Spec => []CacheDescribesState
<1>1. Init => CacheInv
  BY DEF Init, CacheInv
<1>2. IInv /\ CacheInv /\ [Next]_vars => CacheInv'
  <2> SUFFICES ASSUME IInv, CacheInv, [Next]_vars
               PROVE  CacheInv'
    OBVIOUS
  <2>1. CASE cache' = NoFrame
    BY <2>1 DEF CacheInv
  <2>2. CASE cache' = cache /\ state' = state
    BY <2>2 DEF CacheInv, Reflects, ResultingState
  <2>3. CASE Complete /\ request.dest # "BROADCAST"
    <3>1. request \in StateChanging /\ state \in Believed
      BY <2>3 DEF Complete, IInv, Executing, TypeOK, Believed
    <3>2. cache' = request /\ state' = ResultingState(request, state)
      BY <2>3 DEF Complete
    <3>3. Reflects(request, ResultingState(request, state))
      BY <3>1, Idempotent
    <3> QED
      BY <3>2, <3>3 DEF CacheInv, Reflects, ResultingState
  <2>4. cache' = NoFrame \/ (cache' = cache /\ state' = state) \/ Complete
    BY DEF Next, Reset, ResetTo, Start, Setup, StartRuntime, StartWithoutCan, StartFails,
           Execute, Transfer, Latch, BootFault, CommandFault, Service, Ignore, Reject,
           Replay, SequenceReuse, Ping, Busy, Begin, vars, runtime
  <2>5. CASE Complete /\ request.dest = "BROADCAST"
    BY <2>5 DEF Complete, CacheInv
  <2> QED
    BY <2>1, <2>2, <2>3, <2>4, <2>5
<1>3. CacheInv => CacheDescribesState
  BY DEF CacheInv, CacheDescribesState
<1> QED
  BY <1>1, <1>2, <1>3, Invariance, PTL DEF Spec

-----------------------------------------------------------------------------
(* Safe lockout                                                            *)

LockoutInv ==
    lockout =>
        /\ pc = "boot" /\ idx > 2 => hw.phase = SafePhase
        /\ pc = "exec" => request.type = "ENTER_SAFE"
        /\ pc \in {"idle", "exec", "no_can"} =>
             hw = [phase |-> SafePhase, atten |-> MaxAttenuation]

\* The plans of a locked-out node, at boot and for ENTER_SAFE, write nothing but
\* the safe setting.
LEMMA LockedOutPlan ==
    ASSUME lockout, pc = "boot" \/ (pc = "exec" /\ request.type = "ENTER_SAFE")
    PROVE  Plan = <<SetVga(MaxAttenuation), SetPhase(SafePhase)>>
BY DEF Plan, StartupPlan, BootPhase, PlanOf

\* A locked-out node holds the safe setting whatever it receives and however its
\* writes fail.
THEOREM LockoutSafe == Spec => []LockoutHoldsSafe
<1>1. Init => LockoutInv
  BY DEF Init, LockoutInv
<1>2. IInv /\ LockoutInv /\ [Next]_vars => LockoutInv'
  <2> SUFFICES ASSUME IInv, LockoutInv, [Next]_vars, lockout'
               PROVE  /\ pc' = "boot" /\ idx' > 2 => hw'.phase = SafePhase
                      /\ pc' = "exec" => request'.type = "ENTER_SAFE"
                      /\ pc' \in {"idle", "exec", "no_can"} =>
                           hw' = [phase |-> SafePhase, atten |-> MaxAttenuation]
    BY DEF LockoutInv
  <2> USE DEF IInv
  <2>1. CASE pc' = "setup"
    BY <2>1
  <2>2. CASE Setup
    BY <2>2 DEF Setup, Executing
  <2>3. CASE StartRuntime \/ StartWithoutCan
    <3>1. /\ hw' = hw /\ lockout' = lockout
          /\ pc = "boot" /\ idx > 2 /\ pc' \in {"idle", "no_can"}
      <4>1. idx > 2
        <5>1. Len(StartupPlan(BootPhase)) = 2
          BY DEF StartupPlan
        <5>2. idx = Len(StartupPlan(BootPhase)) + 1
          BY <2>3 DEF StartRuntime, StartWithoutCan
        <5> QED
          BY <5>1, <5>2
      <4> QED
        BY <2>3, <4>1 DEF StartRuntime, StartWithoutCan, rf, runtime
    <3>2. hw.phase = SafePhase /\ hw.atten = MaxAttenuation /\ hw \in Settings
      BY <3>1 DEF LockoutInv, AttenuationKnown, TypeOK
    <3> QED
      BY <3>1, <3>2 DEF Settings
  <2>4. CASE Transfer
    BY <2>4 DEF Transfer, LockoutInv, runtime
  <2>5. CASE Latch
    <3>1. /\ lockout /\ pc' = pc /\ idx' = idx + 1 /\ request' = request
          /\ pc \in {"boot", "exec"} /\ hw' = Setting(hw, Plan[idx])
          /\ hw \in Settings
      BY <2>5 DEF Latch, Writing, runtime, TypeOK
    <3>2. Plan = <<SetVga(MaxAttenuation), SetPhase(SafePhase)>> /\ idx \in 1..2
      BY <2>5, <3>1, LockedOutPlan DEF LockoutInv, Latch, Writing, TypeOK
    <3>3. CASE idx = 1
      <4>1. hw' = [hw EXCEPT !.atten = MaxAttenuation] /\ ~(idx' > 2)
        BY <3>1, <3>2, <3>3 DEF Setting, SetVga
      <4> QED
        BY <3>1, <4>1 DEF LockoutInv
    <3>4. CASE idx = 2
      <4>1. hw' = [hw EXCEPT !.phase = SafePhase]
        BY <3>1, <3>2, <3>4 DEF Setting, SetPhase
      <4>2. hw'.phase = SafePhase
        BY <3>1, <4>1 DEF Settings
      <4> QED
        BY <3>1, <4>1, <4>2 DEF LockoutInv
    <3> QED
      BY <3>2, <3>3, <3>4
  <2>6. CASE CommandFault \/ Complete
    <3>1. hw' = hw /\ lockout' = lockout /\ pc = "exec" /\ pc' = "idle"
      BY <2>6 DEF CommandFault, Complete, runtime
    <3> QED
      BY <3>1 DEF LockoutInv
  <2>7. CASE \E f \in Traffic : Service(f)
    <3> PICK f \in Traffic : Service(f)
      BY <2>7
    <3>1. hw' = hw /\ lockout' = lockout /\ pc = "idle"
      BY DEF Service, Ignore, Reject, Replay, SequenceReuse, Ping, Busy, Begin, rf, runtime
    <3>2. pc' = "idle" \/ (pc' = "exec" /\ request'.type = "ENTER_SAFE")
      BY <3>1
      DEF Service, Ignore, Reject, Replay, SequenceReuse, Ping, Busy, Begin
    <3> QED
      BY <3>1, <3>2 DEF LockoutInv
  <2>8. CASE UNCHANGED vars
    BY <2>8 DEF vars, rf, runtime, LockoutInv
  <2>9. Reset \/ StartFails \/ BootFault => pc' = "setup"
    BY DEF Reset, StartFails, BootFault, ResetTo
  <2> QED
    BY <2>1, <2>2, <2>3, <2>4, <2>5, <2>6, <2>7, <2>8, <2>9 DEF Next, Start, Execute
<1>3. LockoutInv => LockoutHoldsSafe
  BY DEF LockoutInv, LockoutHoldsSafe
<1> QED
  BY <1>1, <1>2, <1>3, Invariance, PTL DEF Spec

-----------------------------------------------------------------------------
(* The receiver implements CommandNode: whatever fails within a plan, the  *)
(* controller sees commands carried out as a whole or refused.             *)

Reasons == {"HARDWARE", "BUSY", "SEQUENCE_REUSE"}

\* Only unicast commands are cached.
CacheUnicast == cache # NoFrame => cache.dest = "SELF"

\* What is being executed does not have the key of the cached command: Lookup
\* missed, and the cache does not change before the plan ends.
KeyIsNew == pc = "exec" /\ cache # NoFrame => ~SameKey(request, cache)

\* Nothing is handed to the bus between a reset and service, nor within a plan.
Silent == pc \in {"setup", "boot", "exec"} => reply = NoReply

NodeInv == CacheUnicast /\ KeyIsNew /\ Silent

\* A state-changing command names the controller, and this node or all of them.
LEMMA Addressed ==
    \A f \in StateChanging : f.source = "CONTROLLER" /\ f.dest \in {"SELF", "BROADCAST"}
BY DEF StateChanging, Commands, Frames, Decode

\* A frame is told from no frame by its type.
LEMMA NotNoFrame == \A f \in StateChanging : f # NoFrame
<1> TAKE f \in StateChanging
<1>1. f.type \in StateChangingTypes
  BY DecodedPayload
<1> QED
  BY <1>1 DEF NoFrame, StateChangingTypes, SettingTypes

\* A command that misses the cache has a key of its own.
LEMMA MissIsNew ==
    ASSUME TypeOK, CacheUnicast, cache # NoFrame,
           NEW f \in StateChanging, Lookup(f) = "MISS"
    PROVE  ~SameKey(f, cache)
<1>1. f.type \in StateChangingTypes
  BY DecodedPayload
<1>2. CASE f.dest = "BROADCAST"
  BY <1>2 DEF CacheUnicast, SameKey
<1>3. CASE f.dest # "BROADCAST"
  BY <1>1, <1>3 DEF Lookup
<1> QED
  BY <1>2, <1>3

\* A unicast frame that names type and number of the cached command has its key.
LEMMA NamedByReply ==
    ASSUME TypeOK, CacheUnicast, cache # NoFrame,
           NEW f \in StateChanging, f.dest # "BROADCAST",
           f.type = cache.type, f.seq = cache.seq
    PROVE  SameKey(f, cache)
BY Addressed DEF TypeOK, CacheUnicast, SameKey

\* What begins is a decoded, state-changing command.
LEMMA BegunCommand ==
    \A f \in Traffic : (Begin(f) \/ Busy(f)) => f \in StateChanging
BY ReceiverAssumption
DEF Begin, Busy, StateChanging, Commands, StateChangingTypes, SettingTypes

\* The three facts hold in every reachable state.
LEMMA NodeInvariance == Spec => []NodeInv
<1>1. Init => NodeInv
  BY DEF Init, NodeInv, CacheUnicast, KeyIsNew, Silent
<1>2. IInv /\ NodeInv /\ [Next]_vars => NodeInv'
  <2> SUFFICES ASSUME IInv, NodeInv, [Next]_vars
               PROVE  NodeInv'
    OBVIOUS
  <2> USE DEF IInv, NodeInv
  <2>1. CASE Reset \/ StartFails \/ BootFault
    BY <2>1 DEF Reset, StartFails, BootFault, ResetTo, CacheUnicast, KeyIsNew, Silent
  <2>2. CASE Setup
    BY <2>2 DEF Setup, CacheUnicast, KeyIsNew, Silent
  <2>3. CASE StartRuntime
    BY <2>3 DEF StartRuntime, CacheUnicast, KeyIsNew, Silent
  <2>4. CASE StartWithoutCan
    BY <2>4 DEF StartWithoutCan, runtime, CacheUnicast, KeyIsNew, Silent
  <2>5. CASE Transfer \/ Latch
    BY <2>5 DEF Transfer, Latch, runtime, CacheUnicast, KeyIsNew, Silent, SameKey
  <2>6. CASE CommandFault
    BY <2>6 DEF CommandFault, runtime, CacheUnicast, KeyIsNew, Silent
  <2>7. CASE Complete
    <3>1. request.dest # "BROADCAST" => request.dest = "SELF"
      BY <2>7, Addressed DEF Complete, Executing
    <3> QED
      BY <2>7, <3>1 DEF Complete, CacheUnicast, KeyIsNew, Silent
  <2>8. CASE \E f \in Traffic : Service(f)
    <3> PICK f \in Traffic : Service(f)
      BY <2>8
    <3>1. CASE Begin(f)
      <4>1. f \in StateChanging /\ Lookup(f) = "MISS"
        BY <3>1, BegunCommand DEF Begin
      <4>2. cache # NoFrame => ~SameKey(f, cache)
        BY <4>1, MissIsNew
      <4> QED
        BY <3>1, <4>2 DEF Begin, runtime, CacheUnicast, KeyIsNew, Silent, SameKey
    <3>2. CASE ~Begin(f)
      <4>1. cache' = cache /\ pc' = "idle"
        BY <3>2 DEF Service, Ignore, Reject, Replay, SequenceReuse, Ping, Busy, runtime
      <4> QED
        BY <4>1 DEF CacheUnicast, KeyIsNew, Silent
    <3> QED
      BY <3>1, <3>2
  <2>9. CASE UNCHANGED vars
    BY <2>9 DEF vars, runtime, CacheUnicast, KeyIsNew, Silent, SameKey
  <2> QED
    BY <2>1, <2>2, <2>3, <2>4, <2>5, <2>6, <2>7, <2>8, <2>9 DEF Next, Start, Execute
<1> QED
  BY <1>1, <1>2, Invariance, PTL DEF Spec

\* A command with the key of the cached one is never carried out again.
THEOREM CachedKeyRefused == Spec => CachedKeyNeverExecuted
<1> DEFINE New == pc = "idle" /\ pc' = "exec" /\ cache # NoFrame => ~SameKey(request', cache)
<1>1. NodeInv' /\ [Next]_vars => New
  <2> SUFFICES ASSUME NodeInv', [Next]_vars, pc = "idle", pc' = "exec", cache # NoFrame
               PROVE  ~SameKey(request', cache)
    OBVIOUS
  <2>1. cache' = cache
    BY DEF Next, Reset, ResetTo, Start, Setup, StartRuntime, StartWithoutCan, StartFails,
           Execute, Transfer, Latch, BootFault, CommandFault, Complete, Service, Ignore,
           Reject, Replay, SequenceReuse, Ping, Busy, Begin, Writing, vars, runtime
  <2> QED
    BY <2>1 DEF NodeInv, KeyIsNew, SameKey
<1>2. [][New]_vars <=> CachedKeyNeverExecuted
  BY DEF CachedKeyNeverExecuted
<1> QED
  BY <1>1, <1>2, NodeInvariance, PTL DEF Spec

\* To the controller the receiver is a CommandNode.
THEOREM NodeImplemented == Spec => NodeSpec
<1>1. IInv /\ NodeInv /\ [Next]_vars => [Node!Step(reply')]_<<state, cache, reply>>
  <2> SUFFICES ASSUME IInv, NodeInv, [Next]_vars
               PROVE  Node!Step(reply') \/ UNCHANGED <<state, cache, reply>>
    OBVIOUS
  <2> USE DEF IInv, NodeInv
  <2>1. CASE Reset \/ StartFails \/ BootFault
    <3>1. state' = Zeroed /\ cache' = NoFrame /\ reply' = NoReply
      BY <2>1 DEF Reset, StartFails, BootFault, ResetTo
    <3> QED
      BY <3>1 DEF Node!Step, Node!Reset, AtReset
  <2>2. CASE StartRuntime
    <3>1. /\ state' = [phase |-> BootPhase, atten |-> MaxAttenuation]
          /\ cache' = NoFrame /\ reply' = NoReply
      BY <2>2 DEF StartRuntime, Silent
    <3>2. BootPhase \in {SafePhase, OperationalPhase}
      BY DEF BootPhase
    <3> QED
      BY <3>1, <3>2 DEF Node!Step, Node!Reset, AtReset
  <2>3. CASE Setup \/ StartWithoutCan \/ Transfer \/ Latch
    BY <2>3 DEF Setup, StartWithoutCan, Transfer, Latch, runtime
  <2>4. CASE CommandFault
    <3>1. request \in StateChanging /\ state' = state /\ cache' = cache
      BY <2>4 DEF CommandFault, Executing, runtime
    <3>2. CASE request.dest = "BROADCAST"
      BY <2>4, <3>1, <3>2
      DEF CommandFault, SendError, NoReply, Node!Step, Node!Other, Node!node
    <3>3. CASE request.dest # "BROADCAST"
      <4>1. reply' = Error(request, "HARDWARE")
        BY <2>4, <3>3 DEF CommandFault, SendError
      <4>2. ~(cache # NoFrame /\ request.type = cache.type /\ request.seq = cache.seq)
        BY <2>4, <3>1, <3>3, NamedByReply DEF CommandFault, KeyIsNew
      <4> QED
        BY <3>1, <4>1, <4>2 DEF Error, Node!Step, Node!Refuses, Node!node
    <3> QED
      BY <3>2, <3>3
  <2>5. CASE Complete
    <3>1. request \in StateChanging /\ state \in Believed /\ reply = NoReply
      BY <2>5 DEF Complete, Executing, TypeOK, Believed, Silent
    <3>2. ~Node!Replayed(request) /\ ~Node!Reused(request)
      <4>1. request # cache
        BY <2>5, <3>1, NotNoFrame DEF Complete, KeyIsNew, SameKey
      <4>2. cache # NoFrame => ~(request.type = cache.type /\ request.dest = cache.dest
                                 /\ request.seq = cache.seq)
        BY <2>5, <3>1, Addressed DEF Complete, KeyIsNew, SameKey, TypeOK
      <4> QED
        BY <4>1, <4>2 DEF Node!Replayed, Node!Reused, Node!SameKey
    <3>3. state' = Outcomes[request][state]
      BY <2>5, <3>1 DEF Complete, Outcomes, Believed
    <3>4. CASE request.dest = "BROADCAST"
      <4>1. request \in Broadcasts /\ request \notin Unicasts
        BY <3>1, <3>4 DEF Broadcasts, Unicasts
      <4>2. cache' = NoFrame /\ reply' = NoReply
        BY <2>5, <3>1, <3>4 DEF Complete
      <4>3. Node!CarryOut(request)
        BY <3>2, <3>3, <4>1, <4>2 DEF Node!CarryOut
      <4> QED
        BY <4>1, <4>2, <4>3 DEF Node!Step
    <3>5. CASE request.dest # "BROADCAST"
      <4>1. request \in Unicasts
        BY <3>1, <3>5, Addressed DEF Unicasts
      <4>2. cache' = request /\ reply' = Ack(request)
        BY <2>5, <3>5 DEF Complete
      <4>3. Node!CarryOut(request)
        BY <3>2, <3>3, <4>1, <4>2 DEF Node!CarryOut
      <4> QED
        BY <4>1, <4>2, <4>3 DEF Ack, Node!Ack, Node!Step, Node!Acknowledges
    <3> QED
      BY <3>4, <3>5
  <2>6. CASE \E f \in Traffic : Service(f)
    <3> PICK f \in Traffic : Service(f)
      BY <2>6
    <3>1. state' = state /\ cache' = cache
      BY DEF Service, Ignore, Reject, Replay, SequenceReuse, Ping, Busy, Begin, runtime
    <3>2. CASE Ignore(f) \/ Begin(f)
      BY <3>1, <3>2 DEF Ignore, Begin, NoReply, Node!Step, Node!Other, Node!node
    <3>3. CASE Reject(f)
      <4>1. PICK verdict : verdict = Decode(f)
        OBVIOUS
      <4>2. ResultOfDecode(verdict) \notin Reasons
        <5>1. verdict \in {"OK", "IGNORED", "INVALID_ID", "UNSUPPORTED_TYPE", "INVALID_LENGTH",
                           "INVALID_PAYLOAD", "BROADCAST_NOT_ALLOWED"}
          BY <4>1 DEF Decode
        <5> QED
          BY <5>1 DEF ResultOfDecode, Reasons
      <4>3. reply' = NoReply \/ reply' = Error(f, ResultOfDecode(verdict))
        BY <3>3, <4>1 DEF Reject
      <4> QED
        BY <3>1, <4>2, <4>3 DEF NoReply, Error, Reasons, Node!Step, Node!Other, Node!node
    <3>4. CASE Replay(f)
      <4>1. cache \in StateChanging /\ cache # NoFrame
        BY <3>4 DEF Replay, Lookup, TypeOK
      <4>2. cache' \in Unicasts
        BY <3>1, <4>1 DEF Unicasts, CacheUnicast
      <4>3. reply' = Ack(cache')
        BY <3>1, <3>4 DEF Replay
      <4> QED
        BY <3>1, <4>2, <4>3
        DEF Ack, Node!Ack, Node!Step, Node!Acknowledges, Node!Replay, Node!Replayed, Node!node
    <3>5. CASE SequenceReuse(f)
      <4>1. f.dest # "BROADCAST" /\ cache # NoFrame /\ SameKey(f, cache)
        BY <3>5 DEF SequenceReuse, Lookup
      <4>2. reply' = Error(f, "SEQUENCE_REUSE")
        BY <3>5, <4>1 DEF SequenceReuse, SendError
      <4> QED
        BY <3>1, <4>1, <4>2 DEF Error, SameKey, Node!Step, Node!Refuses, Node!node
    <3>6. CASE Ping(f)
      BY <3>1, <3>6 DEF Ping, Status, Node!Step, Node!Other, Node!node
    <3>7. CASE Busy(f)
      <4>1. f \in StateChanging /\ Lookup(f) = "MISS"
        BY <3>7, BegunCommand DEF Busy
      <4>2. CASE f.dest = "BROADCAST"
        BY <3>1, <3>7, <4>2 DEF Busy, SendError, NoReply, Node!Step, Node!Other, Node!node
      <4>3. CASE f.dest # "BROADCAST"
        <5>1. reply' = Error(f, "BUSY")
          BY <3>7, <4>3 DEF Busy, SendError
        <5>2. ~(cache # NoFrame /\ f.type = cache.type /\ f.seq = cache.seq)
          BY <4>1, <4>3, MissIsNew, NamedByReply
        <5> QED
          BY <3>1, <5>1, <5>2 DEF Error, Node!Step, Node!Refuses, Node!node
      <4> QED
        BY <4>2, <4>3
    <3> QED
      BY <3>2, <3>3, <3>4, <3>5, <3>6, <3>7 DEF Service
  <2>7. CASE UNCHANGED vars
    BY <2>7 DEF vars, runtime
  <2> QED
    BY <2>1, <2>2, <2>3, <2>4, <2>5, <2>6, <2>7 DEF Next, Start, Execute
<1>2. [][Node!Step(reply')]_<<state, cache, reply>> <=> NodeSpec
  BY DEF NodeSpec
<1> QED
  BY <1>1, <1>2, Invariance, NodeInvariance, PTL DEF Spec

-----------------------------------------------------------------------------
(* What the node knows of its outputs                                      *)

\* A plan moves the phase at most once, to the value it results in; one that
\* does not move it leaves it as it was believed.
LEMMA PhaseOfPlan ==
    ASSUME TypeOK, Executing, pc \in {"boot", "exec"}
    PROVE  /\ \A i, j \in 1..Len(Plan) :
                Plan[i].device = "PHASE" /\ Plan[j].device = "PHASE" => i = j
           /\ pc = "boot" => Plan[2].value = BootPhase
           /\ pc = "exec" => \A i \in 1..Len(Plan) : Plan[i].device = "PHASE" =>
                                Plan[i].value = ResultingState(request, state).phase
           /\ pc = "exec" /\ (\A i \in 1..Len(Plan) : Plan[i].device # "PHASE") =>
                /\ ResultingState(request, state).phase = state.phase
                /\ request.type = "SET_VGA"
<1>0. \A v : SetVga(v).device = "VGA" /\ SetPhase(v).device = "PHASE" /\ SetPhase(v).value = v
  BY DEF SetVga, SetPhase
<1>1. CASE pc = "boot"
  <2>1. Plan = <<SetVga(MaxAttenuation), SetPhase(BootPhase)>>
    BY <1>1 DEF Plan, StartupPlan
  <2> QED
    BY <1>0, <1>1, <2>1
<1>2. CASE pc = "exec"
  <2>1. request \in StateChanging /\ Plan = PlanOf(request, state)
    BY <1>2 DEF Executing, Plan
  <2>2. CASE request.type = "SET_VGA"
    <3>1. Plan = <<SetVga(AttenuationOf(request))>>
      BY <2>1, <2>2 DEF PlanOf
    <3>2. ResultingState(request, state).phase = state.phase
      BY <2>2 DEF ResultingState, TypeOK
    <3> QED
      BY <1>0, <1>2, <2>2, <3>1, <3>2
  <2>3. CASE request.type = "SET_PHASE"
    <3>1. ResultingState(request, state).phase = PhaseOf(request)
      BY <2>3 DEF ResultingState, TypeOK
    <3>2. CASE Plan = <<SetVga(MaxAttenuation), SetPhase(PhaseOf(request)),
                        SetVga(state.atten)>>
      BY <1>0, <1>2, <3>1, <3>2
    <3>3. CASE Plan = <<SetPhase(PhaseOf(request))>>
      BY <1>0, <1>2, <3>1, <3>3
    <3> QED
      BY <2>1, <2>3, <3>2, <3>3 DEF PlanOf, PhasePlan
  <2>4. CASE request.type = "SET_COMBINED"
    <3>1. ResultingState(request, state).phase = PhaseOf(request)
      BY <2>4 DEF ResultingState
    <3>2. CASE Plan = <<SetVga(MaxAttenuation), SetPhase(PhaseOf(request)),
                        SetVga(AttenuationOf(request))>>
      BY <1>0, <1>2, <3>1, <3>2
    <3>3. CASE Plan = <<SetVga(MaxAttenuation), SetPhase(PhaseOf(request))>>
      BY <1>0, <1>2, <3>1, <3>3
    <3> QED
      BY <2>1, <2>4, <3>2, <3>3 DEF PlanOf, CombinedPlan
  <2>5. CASE request.type = "ENTER_SAFE"
    <3>1. ResultingState(request, state).phase = SafePhase
      BY <2>5 DEF ResultingState
    <3>2. Plan = <<SetVga(MaxAttenuation), SetPhase(SafePhase)>>
      BY <2>1, <2>5 DEF PlanOf
    <3> QED
      BY <1>0, <1>2, <3>1, <3>2
  <2> QED
    BY <2>1, <2>2, <2>3, <2>4, <2>5, DecodedPayload DEF StateChangingTypes, SettingTypes
<1> QED
  BY <1>1, <1>2

\* Outputs with what a command results in reflect it, the phase aside if the
\* command does not set it.
LEMMA ReflectedBy ==
    ASSUME NEW f \in StateChanging, NEW s \in Believed, NEW h \in Settings,
           h.atten = ResultingState(f, s).atten,
           f.type # "SET_VGA" => h.phase = ResultingState(f, s).phase
    PROVE  Reflects(f, h)
<1>0. h = [phase |-> h.phase, atten |-> h.atten]
  BY DEF Settings
<1>1. CASE f.type = "SET_VGA"
  BY <1>0, <1>1 DEF Reflects, ResultingState, Believed, Settings
<1>2. CASE f.type = "SET_PHASE"
  BY <1>0, <1>2 DEF Reflects, ResultingState, Believed, Settings
<1>3. CASE f.type = "SET_COMBINED"
  BY <1>0, <1>3 DEF Reflects, ResultingState
<1>4. CASE f.type = "ENTER_SAFE"
  BY <1>0, <1>4 DEF Reflects, ResultingState
<1> QED
  BY <1>1, <1>2, <1>3, <1>4, DecodedPayload DEF StateChangingTypes, SettingTypes

\* Where the firmware may rely on what it recorded: during a boot, and in
\* service for as long as no write has failed.
Trusted == pc = "boot" \/ (pc \in {"idle", "exec"} /\ diag # "FAULT")

\* A phase this plan has written is latched, whatever failed before it.
PhaseWritten ==
    pc \in {"boot", "exec"} =>
        \A i \in 1..Len(Plan) : i < idx /\ Plan[i].device = "PHASE" => hw.phase = Plan[i].value

\* A word is in flight only within a plan; no line is low but its device's.
LinesKnown ==
    /\ sent => Writing
    /\ Trusted => open = IF sent THEN {Plan[idx].device} ELSE {}

\* The last written commands are the outputs, at boot as far as the plan has got.
LastKnown ==
    /\ pc = "boot" /\ idx > 1 => last.atten = hw.atten
    /\ pc = "boot" /\ idx > 2 => last = hw
    /\ pc # "boot" /\ Trusted => last = hw

\* Between plans the outputs are the believed state; within one, the phase is,
\* until the plan has moved it.
PhaseUntouched == \A i \in 1..Len(Plan) : i < idx => Plan[i].device # "PHASE"
HwKnown ==
    /\ pc = "idle" /\ Trusted => hw = state
    /\ pc = "exec" /\ Trusted /\ PhaseUntouched => hw.phase = state.phase

OutputsInv == PhaseWritten /\ LinesKnown /\ LastKnown /\ HwKnown

\* At the end of a plan the outputs reflect the command, whatever failed before;
\* if nothing did, they are what the command results in.
LEMMA PlanEnd ==
    ASSUME IInv, OutputsInv, pc = "exec", ~Writing
    PROVE  /\ Reflects(request, hw) /\ hw.atten = ResultingState(request, state).atten
           /\ Trusted => hw = ResultingState(request, state)
<1> USE DEF IInv
<1>1. /\ request \in StateChanging /\ state \in Believed /\ hw \in Settings
      /\ ResultingState(request, state) \in Believed
  BY PlanAtHand DEF Executing, TypeOK, Believed
<1>2. idx > Len(Plan) /\ \A i \in 1..Len(Plan) : i < idx
  BY PlanAtHand DEF Writing, TypeOK
<1>3. hw.atten = ResultingState(request, state).atten
  BY <1>2 DEF AttenuationKnown
<1>4. CASE \E i \in 1..Len(Plan) : Plan[i].device = "PHASE"
  <2>1. hw.phase = ResultingState(request, state).phase
    BY <1>2, <1>4, PhaseOfPlan DEF OutputsInv, PhaseWritten
  <2>2. hw = ResultingState(request, state)
    BY <1>1, <1>3, <2>1 DEF Settings, Believed
  <2> QED
    BY <1>1, <1>3, <2>1, <2>2, ReflectedBy
<1>5. CASE \A i \in 1..Len(Plan) : Plan[i].device # "PHASE"
  <2>1. request.type = "SET_VGA" /\ ResultingState(request, state).phase = state.phase
    BY <1>5, PhaseOfPlan
  <2>2. Reflects(request, hw)
    BY <1>1, <1>3, <2>1, ReflectedBy
  <2>3. ASSUME Trusted PROVE hw = ResultingState(request, state)
    <3>1. hw.phase = state.phase
      BY <1>5, <2>3 DEF OutputsInv, HwKnown, PhaseUntouched
    <3> QED
      BY <1>1, <1>3, <2>1, <3>1 DEF Settings, Believed
  <2> QED
    BY <1>3, <2>2, <2>3
<1> QED
  BY <1>4, <1>5

\* A latch writes the same field of the outputs and of the record, and closes
\* the line the plan opened.
LEMMA OutputsLatch == IInv /\ OutputsInv /\ Latch => OutputsInv'
<1> SUFFICES ASSUME IInv, OutputsInv, Latch
             PROVE  OutputsInv'
  OBVIOUS
<1> USE DEF IInv
<1>1. /\ Plan' = Plan /\ pc' = pc /\ state' = state /\ pc \in {"boot", "exec"}
      /\ idx' = idx + 1 /\ sent /\ ~sent' /\ BootPhase' = BootPhase
  BY DEF Latch, Writing, Plan, BootPhase, runtime
<1>2. idx \in 1..Len(Plan) /\ Len(Plan) \in 1..3 /\ Plan[idx] \in Operations
  BY PlanAtHand DEF Latch, Writing, TypeOK
<1>3. Trusted' => Trusted
  BY <1>1 DEF Latch, Trusted
<1>4. /\ hw \in Settings /\ last \in Settings
      /\ hw' = Setting(hw, Plan[idx]) /\ last' = Setting(last, Plan[idx])
  BY DEF Latch, TypeOK
<1>5. \A i \in 1..Len(Plan) : i < idx' => i < idx \/ i = idx
  BY <1>1, <1>2
<1>6. CASE Plan[idx].device = "PHASE"
  <2>1. /\ hw' = [hw EXCEPT !.phase = Plan[idx].value]
        /\ last' = [last EXCEPT !.phase = Plan[idx].value]
    BY <1>4, <1>6 DEF Setting
  <2>2. /\ hw'.phase = Plan[idx].value /\ hw'.atten = hw.atten
        /\ last'.phase = Plan[idx].value /\ last'.atten = last.atten
    BY <1>4, <2>1 DEF Settings
  <2>3. PhaseWritten'
    BY <1>1, <1>2, <1>6, <2>2, PhaseOfPlan DEF PhaseWritten
  <2>4. ~PhaseUntouched'
    BY <1>1, <1>2, <1>6 DEF PhaseUntouched
  <2>5. pc = "boot" => idx > 1
    BY <1>1, <1>2, <1>6, PlanAtHand DEF SetVga
  <2>6. pc = "boot" => hw' = last'
    BY <1>4, <2>1, <2>2, <2>5 DEF OutputsInv, LastKnown, Settings
  <2>7. LastKnown'
    BY <1>1, <1>3, <2>1, <2>6 DEF OutputsInv, LastKnown
  <2>8. HwKnown'
    BY <1>1, <2>4 DEF HwKnown
  <2>9. LinesKnown'
    BY <1>1, <1>3 DEF Latch, OutputsInv, LinesKnown
  <2> QED
    BY <2>3, <2>7, <2>8, <2>9 DEF OutputsInv
<1>7. CASE Plan[idx].device = "VGA"
  <2>1. /\ hw' = [hw EXCEPT !.atten = Plan[idx].value]
        /\ last' = [last EXCEPT !.atten = Plan[idx].value]
    BY <1>4, <1>7 DEF Setting
  <2>2. /\ hw'.atten = Plan[idx].value /\ hw'.phase = hw.phase
        /\ last'.atten = Plan[idx].value
    BY <1>4, <2>1 DEF Settings
  <2>3. PhaseWritten'
    BY <1>1, <1>5, <1>7, <2>2 DEF OutputsInv, PhaseWritten
  <2>4. PhaseUntouched' => PhaseUntouched
    BY <1>1, <1>2 DEF PhaseUntouched
  <2>5. pc = "boot" => ~(idx' > 2)
    <3>1. ASSUME pc = "boot" PROVE idx = 1
      <4>1. Len(Plan) = 2 /\ Plan[2].device = "PHASE"
        BY <3>1, PlanAtHand
      <4> QED
        BY <1>2, <1>7, <4>1
    <3> QED
      BY <1>1, <3>1
  <2>7. LastKnown'
    BY <1>1, <1>3, <2>1, <2>2, <2>5 DEF OutputsInv, LastKnown
  <2>8. HwKnown'
    BY <1>1, <1>3, <2>2, <2>4 DEF OutputsInv, HwKnown
  <2>9. LinesKnown'
    BY <1>1, <1>3 DEF Latch, OutputsInv, LinesKnown
  <2> QED
    BY <2>3, <2>7, <2>8, <2>9 DEF OutputsInv
<1> QED
  BY <1>2, <1>6, <1>7 DEF Operations

\* What is known of the outputs is known in every reachable state.
LEMMA OutputsInvariance == Spec => []OutputsInv
<1>1. Init => OutputsInv
  BY DEF Init, OutputsInv, PhaseWritten, LinesKnown, LastKnown, HwKnown, Trusted
<1>2. IInv /\ OutputsInv /\ [Next]_vars => OutputsInv'
  <2> SUFFICES ASSUME IInv, OutputsInv, [Next]_vars
               PROVE  OutputsInv'
    OBVIOUS
  <2> USE DEF IInv
  <2>1. CASE Reset \/ StartFails \/ BootFault
    BY <2>1
    DEF Reset, StartFails, BootFault, ResetTo, OutputsInv, PhaseWritten, LinesKnown,
        LastKnown, HwKnown, Trusted
  <2>2. CASE Setup
    <3>1. pc' = "boot" /\ idx' = 1 /\ ~sent' /\ open' = {}
      BY <2>2 DEF Setup, Executing, OutputsInv, LinesKnown, Writing
    <3>2. \A i \in 1..Len(Plan') : ~(i < idx')
      BY <3>1
    <3> QED
      BY <3>1, <3>2 DEF OutputsInv, PhaseWritten, LinesKnown, LastKnown, HwKnown
  <2>3. CASE StartRuntime
    <3>1. Len(Plan) = 2 /\ Plan[2].device = "PHASE" /\ Plan[2].value = BootPhase
      BY <2>3, PlanAtHand, PhaseOfPlan DEF StartRuntime
    <3>2. idx = 3
      BY <2>3 DEF StartRuntime, StartupPlan
    <3>3. hw.atten = MaxAttenuation /\ hw.phase = BootPhase /\ hw \in Settings
      BY <2>3, <3>1, <3>2 DEF StartRuntime, AttenuationKnown, OutputsInv, PhaseWritten, TypeOK
    <3>4. hw' = state' /\ last' = hw' /\ open' = {} /\ ~sent'
      <4>1. hw = [phase |-> BootPhase, atten |-> MaxAttenuation]
        BY <3>3 DEF Settings
      <4>2. last = hw /\ open = {}
        BY <2>3, <3>2 DEF StartRuntime, OutputsInv, LastKnown, LinesKnown, Trusted
      <4> QED
        BY <2>3, <4>1, <4>2 DEF StartRuntime
    <3>5. pc' = "idle"
      BY <2>3 DEF StartRuntime
    <3> QED
      BY <3>4, <3>5 DEF OutputsInv, PhaseWritten, LinesKnown, LastKnown, HwKnown
  <2>4. CASE StartWithoutCan
    BY <2>4
    DEF StartWithoutCan, rf, OutputsInv, PhaseWritten, LinesKnown, LastKnown, HwKnown, Trusted
  <2>5. CASE Transfer
    <3>1. Plan' = Plan /\ pc' = pc /\ diag' = diag /\ Writing' = Writing
      BY <2>5 DEF Transfer, Plan, BootPhase, Writing, runtime
    <3>2. LinesKnown'
      BY <2>5, <3>1 DEF Transfer, OutputsInv, LinesKnown, Trusted
    <3>3. PhaseWritten' /\ LastKnown'
      BY <2>5, <3>1 DEF Transfer, OutputsInv, PhaseWritten, LastKnown, Trusted
    <3>4. HwKnown'
      BY <2>5, <3>1 DEF Transfer, runtime, OutputsInv, HwKnown, PhaseUntouched, Trusted
    <3> QED
      BY <3>2, <3>3, <3>4 DEF OutputsInv
  <2>6. CASE Latch
    BY <2>6, OutputsLatch
  <2>7. CASE CommandFault
    BY <2>7
    DEF CommandFault, OutputsInv, PhaseWritten, LinesKnown, LastKnown, HwKnown, Trusted
  <2>8. CASE Complete
    <3>1. /\ pc = "exec" /\ ~Writing /\ pc' = "idle" /\ diag' = diag /\ hw' = hw
          /\ open' = open /\ sent' = sent /\ last' = last
          /\ state' = ResultingState(request, state)
      BY <2>8 DEF Complete
    <3>2. Trusted' => Trusted
      BY <3>1 DEF Trusted
    <3>3. HwKnown' /\ PhaseWritten'
      BY <3>1, <3>2, PlanEnd DEF HwKnown, PhaseWritten
    <3>4. LinesKnown' /\ LastKnown'
      BY <3>1, <3>2 DEF OutputsInv, LinesKnown, LastKnown
    <3> QED
      BY <3>3, <3>4 DEF OutputsInv
  <2>9. CASE \E f \in Traffic : Service(f)
    <3> PICK f \in Traffic : Service(f)
      BY <2>9
    <3>1. /\ hw' = hw /\ open' = open /\ sent' = sent /\ idx' = idx /\ last' = last
          /\ state' = state /\ diag' = diag /\ pc = "idle" /\ pc' \in {"idle", "exec"}
      BY DEF Service, Ignore, Reject, Replay, SequenceReuse, Ping, Busy, Begin, rf, runtime
    <3>2. ~sent /\ idx = 1 /\ (Trusted' => Trusted)
      BY <3>1 DEF OutputsInv, LinesKnown, Writing, Executing, Trusted
    <3>3. LinesKnown' /\ LastKnown'
      BY <3>1, <3>2 DEF OutputsInv, LinesKnown, LastKnown
    <3>4. HwKnown'
      BY <3>1, <3>2 DEF OutputsInv, HwKnown
    <3>5. PhaseWritten'
      <4>1. \A i \in 1..Len(Plan') : ~(i < idx')
        BY <3>1, <3>2
      <4> QED
        BY <4>1 DEF PhaseWritten
    <3> QED
      BY <3>3, <3>4, <3>5 DEF OutputsInv
  <2>10. CASE UNCHANGED vars
    BY <2>10
    DEF vars, rf, runtime, OutputsInv, PhaseWritten, LinesKnown, LastKnown, HwKnown, Trusted,
        PhaseUntouched, Writing, Plan, BootPhase
  <2> QED
    BY <2>1, <2>2, <2>3, <2>4, <2>5, <2>6, <2>7, <2>8, <2>9, <2>10 DEF Next, Start, Execute
<1> QED
  BY <1>1, <1>2, Invariance, PTL DEF Spec

\* The outputs differ from what the firmware believes or recorded only if the
\* retained record says FAULT: nothing diverges silently.
THEOREM DivergenceAlwaysRecorded == Spec => []DivergenceIsRecorded
<1>1. IInv /\ OutputsInv => DivergenceIsRecorded
  <2> SUFFICES ASSUME IInv, OutputsInv, pc = "idle", diag # "FAULT"
               PROVE  hw = state /\ last = hw /\ open = {}
    BY DEF DivergenceIsRecorded
  <2>1. ~sent /\ Trusted
    BY DEF OutputsInv, LinesKnown, Writing, Trusted
  <2> QED
    BY <2>1 DEF OutputsInv, HwKnown, LastKnown, LinesKnown
<1> QED
  BY <1>1, Invariance, OutputsInvariance, PTL

\* An ACK for a command carried out just now means that both devices latched its
\* whole plan, even if an earlier plan was cut short by a fault.
THEOREM FreshAckLatched == Spec => FreshAckMeansLatched
<1> DEFINE Latched == pc = "exec" /\ pc' = "idle" /\ reply'.kind = "ACK" =>
                        Reflects(request, hw) /\ hw.atten = state'.atten /\ reply' = Ack(request)
<1>1. IInv /\ NodeInv /\ OutputsInv /\ [Next]_vars => Latched
  <2> SUFFICES ASSUME IInv, NodeInv, OutputsInv, [Next]_vars,
                      pc = "exec", pc' = "idle", reply'.kind = "ACK"
               PROVE  Reflects(request, hw) /\ hw.atten = state'.atten /\ reply' = Ack(request)
    OBVIOUS
  <2>1. CommandFault \/ Complete
    BY DEF Next, Reset, ResetTo, Start, Setup, StartRuntime, StartWithoutCan, StartFails,
           Execute, Transfer, Latch, BootFault, Service, Ignore,
           Reject, Replay, SequenceReuse, Ping, Busy, Begin, vars
  <2>2. CASE CommandFault
    BY <2>2 DEF CommandFault, SendError, Error, NoReply
  <2>3. CASE Complete
    <3>1. Reflects(request, hw) /\ hw.atten = state'.atten
      BY <2>3, PlanEnd DEF Complete
    <3>2. reply.kind # "ACK"
      BY DEF NodeInv, Silent, NoReply
    <3> QED
      BY <2>3, <3>1, <3>2 DEF Complete
  <2> QED
    BY <2>1, <2>2, <2>3
<1>2. [][Latched]_vars <=> FreshAckMeansLatched
  BY DEF FreshAckMeansLatched
<1> QED
  BY <1>1, <1>2, Invariance, NodeInvariance, OutputsInvariance, PTL DEF Spec
=============================================================================
