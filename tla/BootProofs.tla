----------------------------- MODULE BootProofs ------------------------------
(***************************************************************************)
(* Boots of every image, threshold and width of the streak, interrupted    *)
(* anywhere: what the record says about the boots before this one, and     *)
(* which clock the node runs from.                                         *)
(***************************************************************************)
EXTENDS Boot, TLAPS

\* A record is neither a torn one nor none.
LEMMA Whole == \A r \in Records : r # Torn /\ r # NoRecord
<1> SUFFICES ASSUME NEW r \in Records
             PROVE  r # Torn /\ r # NoRecord
  OBVIOUS
<1>1. "build" \in DOMAIN r
  BY DEF Records
<1>2. "build" \notin DOMAIN Torn /\ "build" \notin DOMAIN NoRecord
  BY DEF Torn, NoRecord
<1> QED
  BY <1>1, <1>2

LEMMA NewTyped == New \in Records
BY BootAssumption DEF New, Records, States, Faults

\* What an update starts from, and what it makes of it, is a record.
LEMMA UpdateTyped ==
    ASSUME rec \in Records \cup {Torn}
    PROVE  /\ Valid \in Records /\ Healthy \in Records
           /\ \A s \in States : WithState(s) \in Records
           /\ \A f \in Faults : WithFault(f) \in Records
<1>1. Valid \in Records
  BY NewTyped DEF Valid
<1>2. /\ "HEALTHY" \in States /\ "FAULT" \in States /\ 0 \in 0..MaxStreak
  BY BootAssumption DEF States
<1>3. Healthy \in Records
  BY <1>1, <1>2 DEF Healthy, Records
<1>4. ASSUME NEW s \in States PROVE WithState(s) \in Records
  BY <1>1, <1>4 DEF WithState, Records
<1>5. ASSUME NEW f \in Faults PROVE WithFault(f) \in Records
  BY <1>1, <1>2, <1>5 DEF WithFault, Records
<1> QED
  BY <1>1, <1>3, <1>4, <1>5

\* So is the record of a boot that begins.
LEMMA BegunTyped ==
    ASSUME rec \in Records \cup {Torn}, build \in Builds
    PROVE  Begun \in Records
<1>1. "BOOTING" \in States /\ "NONE" \in Faults
  BY DEF States, Faults
<1>2. CASE Inherited
  <2>1. rec \in Records /\ rec.streak \in 0..MaxStreak /\ rec.current \in Faults
    BY <1>2 DEF Inherited, Records
  <2>2. StreakAfter(rec) \in 0..MaxStreak
    BY <2>1, BootAssumption DEF StreakAfter
  <2> QED
    BY <1>1, <1>2, <2>1, <2>2 DEF Begun, Records
<1>3. CASE ~Inherited
  BY <1>1, <1>3, NewTyped DEF Begun, Records
<1> QED
  BY <1>2, <1>3

-----------------------------------------------------------------------------
(* Types                                                                   *)

\* The type invariant in three parts: the program, its records, and the history.
Program ==
    /\ pc \in Phases \cup {"begin", "decide", "fail"}
    /\ level \in 0..3
    /\ build \in Builds
    /\ ran \in Builds
    /\ fault \in Faults
    /\ incomplete \in 0..MaxStreak

Memory == rec \in Records \cup {Torn} /\ pending \in Records \cup {NoRecord}

Flags == lockout \in BOOLEAN /\ clean \in BOOLEAN /\ lost \in BOOLEAN /\ failed \in BOOLEAN

LEMMA Parts == TypeOK <=> Program /\ Memory /\ Flags /\ clk \in ClockStates
BY Zenon DEF TypeOK, Program, Memory, Flags

\* Every action either leaves the records alone, finishes a copy, begins one, or
\* loses what there was.
LEMMA MemoryStep == Program /\ Memory /\ [Next]_vars => Memory'
<1> SUFFICES ASSUME Program, Memory, [Next]_vars
             PROVE  Memory'
  OBVIOUS
<1> USE DEF main, history, Memory
<1>1. ASSUME NEW r \in Records, pending' = r, rec' = Torn
      PROVE  Memory'
  BY <1>1
<1>2. CASE Begin
  BY <1>1, <1>2, BegunTyped DEF Begin, Store, Program
<1>3. CASE StartUp \/ ServeLockedOut \/ StayWithoutCan \/ CommandDone
  <2>1. PICK r : Store(r) /\ r \in {Valid} \cup {WithState(s) : s \in States}
    BY <1>3 DEF StartUp, ServeLockedOut, StayWithoutCan, CommandDone, Advance, States
  <2> QED
    BY <1>1, <2>1, UpdateTyped DEF Store
<1>4. CASE Serve
  BY <1>1, <1>4, UpdateTyped DEF Serve, Store
<1>5. CASE CanFailed \/ CommandFault
  BY <1>1, <1>5, UpdateTyped DEF CanFailed, CommandFault, Store, Faults
<1>6. CASE GiveUp \/ Trap
  <2>1. PICK f \in Faults : FirmwareFail(f)
    BY <1>6 DEF GiveUp, Trap, Traps, Faults
  <2> QED
    BY <1>1, <2>1, UpdateTyped DEF FirmwareFail
<1>7. CASE EndStore
  BY <1>7 DEF EndStore
<1>8. CASE SystemReset \/ Reset \/ PowerLoss \/ Flash
  BY <1>8 DEF SystemReset, Reset, PowerLoss, Flash, Restart
<1>9. CASE Decide \/ SetUpClock
  BY <1>9 DEF Decide, SetUpClock
<1>10. CASE UNCHANGED vars
  BY <1>10 DEF vars
<1> QED
  BY <1>2, <1>3, <1>4, <1>5, <1>6, <1>7, <1>8, <1>9, <1>10 DEF Next, Run

LEMMA ProgramStep == Program /\ [Next]_vars => Program'
<1> SUFFICES ASSUME Program, [Next]_vars
             PROVE  Program'
  OBVIOUS
<1> USE DEF main, history, Program, Phases, Faults
<1>1. CASE Begin
  BY <1>1, BootAssumption DEF Begin
<1>2. CASE StartUp \/ ServeLockedOut \/ StayWithoutCan \/ CommandDone
  BY <1>2 DEF StartUp, ServeLockedOut, StayWithoutCan, CommandDone, Advance
<1>3. CASE Serve
  BY <1>3, BootAssumption DEF Serve
<1>4. CASE CanFailed \/ CommandFault
  BY <1>4 DEF CanFailed, CommandFault
<1>5. CASE GiveUp
  BY <1>5 DEF GiveUp, FirmwareFail
<1>6. CASE Trap
  BY <1>6 DEF Trap, FirmwareFail, Traps
<1>7. CASE EndStore \/ Decide \/ SetUpClock
  BY <1>7 DEF EndStore, Decide, SetUpClock
<1>8. CASE SystemReset \/ Reset \/ PowerLoss \/ Flash
  BY <1>8 DEF SystemReset, Reset, PowerLoss, Flash, Restart
<1>9. CASE UNCHANGED vars
  BY <1>9 DEF vars
<1> QED
  BY <1>1, <1>2, <1>3, <1>4, <1>5, <1>6, <1>7, <1>8, <1>9 DEF Next, Run

LEMMA FlagsStep == Flags /\ [Next]_vars => Flags'
<1> SUFFICES ASSUME Flags, [Next]_vars
             PROVE  Flags'
  OBVIOUS
<1> USE DEF main, history
<1>1. CASE Begin
  <2>1. /\ lockout' = lockout /\ clean' = FALSE /\ failed' = FALSE
        /\ lost' = TRUE \/ lost' = FALSE
    BY <1>1 DEF Begin
  <2> QED
    BY <2>1, Zenon DEF Flags
<1>2. CASE Decide
  <2>1. /\ clean' = clean /\ lost' = lost /\ failed' = failed
        /\ lockout' = TRUE \/ lockout' = FALSE
    BY <1>2 DEF Decide
  <2> QED
    BY <2>1, Zenon DEF Flags
<1>3. CASE StartUp \/ ServeLockedOut \/ StayWithoutCan \/ CommandDone \/ SetUpClock \/ EndStore \/ CanFailed
  <2>1. /\ lockout' = lockout /\ clean' = clean /\ lost' = lost /\ failed' = failed
    BY <1>3 DEF StartUp, ServeLockedOut, StayWithoutCan, CommandDone, Advance, SetUpClock,
                EndStore, CanFailed
  <2> QED
    BY <2>1, Zenon DEF Flags
<1>4. CASE Serve
  <2>1. lockout' = lockout /\ clean' = TRUE /\ lost' = FALSE /\ failed' = failed
    BY <1>4 DEF Serve
  <2> QED
    BY <2>1, Zenon DEF Flags
<1>5. CASE CommandFault \/ GiveUp \/ Trap
  <2>1. lockout' = lockout /\ clean' = FALSE /\ lost' = lost /\ failed' = failed
    BY <1>5 DEF CommandFault, GiveUp, Trap, FirmwareFail
  <2> QED
    BY <2>1, Zenon DEF Flags
<1>6. CASE SystemReset \/ Reset \/ PowerLoss \/ Flash
  <2>1. /\ lockout' = lockout /\ lost' = lost
        /\ clean' = clean \/ clean' = TRUE
        /\ failed' = TRUE \/ failed' = FALSE
    BY <1>6 DEF SystemReset, Reset, PowerLoss, Flash
  <2> QED
    BY <2>1, Zenon DEF Flags
<1>7. CASE UNCHANGED vars
  BY <1>7, Zenon DEF vars, Flags
<1> QED
  BY <1>1, <1>2, <1>3, <1>4, <1>5, <1>6, <1>7 DEF Next, Run

-----------------------------------------------------------------------------
(* The clock                                                               *)

\* How far clock_setup() has come says what drives the core; once it is done, the
\* clock is the reported one until it fails.
ClockInv ==
    /\ clk \in ClockStates
    /\ clk.core # "HSI" => clk.waits
    /\ clk.css => clk.core = "PLL" /\ clk.at = "done"
    /\ clk.at = "hse" => clk.core = "HSI"
    /\ clk.at \in {"pll", "pll_switch", "hsi48_switch"} => clk.waits
    /\ pc \in Phases \ {"clock"} => clk.at = "done"
    /\ pc # "fail" /\ clk.at = "done" =>
         \/ clk.source = "HSE_PLL" /\ clk.core = "PLL" /\ clk.css
         \/ clk.source = "HSI48" /\ clk.core = "HSI48" /\ ~clk.hse /\ ~clk.pll

\* Every wait of clock_setup() keeps it.
LEMMA ClockStepKeeps ==
    ASSUME ClockInv, ClockStep, pc = "clock", pc' = pc
    PROVE  ClockInv'
<1> USE DEF ClockInv, ClockStates, Sources
<1>1. CASE HseReady
  BY <1>1 DEF HseReady
<1>2. CASE PllReady
  BY <1>2 DEF PllReady
<1>3. CASE Switched
  BY <1>3 DEF Switched
<1>4. CASE HseFails
  <2>1. PICK core \in {"HSI", "PLL", clk.core} :
          /\ clk' = [clk EXCEPT !.at = "hsi48", !.core = core]
          /\ clk.at \in {"hse", "pll"} => core = clk.core
          /\ clk.at \in {"hse", "pll", "pll_switch"}
    BY <1>4 DEF HseFails
  <2>2. core \in {"HSI", "PLL", "HSI48"} /\ (core # "HSI" => clk.waits)
    BY <2>1
  <2>3. clk' \in ClockStates
    BY <2>1, <2>2
  <2>4. /\ clk'.at = "hsi48" /\ clk'.core = core
        /\ clk'.waits = clk.waits /\ clk'.css = clk.css
    BY <2>1
  <2>5. ~clk.css
    BY <2>1
  <2> QED
    BY <2>2, <2>3, <2>4, <2>5 DEF Phases
<1>5. CASE Hsi48Ready
  BY <1>5 DEF Hsi48Ready
<1>6. CASE Switched48
  BY <1>6 DEF Switched48
<1>7. CASE Hsi48Fails
  BY <1>7 DEF Hsi48Fails
<1> QED
  BY <1>1, <1>2, <1>3, <1>4, <1>5, <1>6, <1>7 DEF ClockStep

LEMMA ClockStarts == ASSUME clk = ClockReset, pc = "begin" PROVE ClockInv
BY DEF ClockReset, ClockInv, ClockStates, Sources, Phases

LEMMA ClockStepInv == ClockInv /\ [Next]_vars => ClockInv'
<1> SUFFICES ASSUME ClockInv, [Next]_vars
             PROVE  ClockInv'
  OBVIOUS
<1> USE DEF main
<1>1. CASE SetUpClock
  BY <1>1, ClockStepKeeps DEF SetUpClock
<1>2. CASE Begin \/ Decide \/ ServeLockedOut \/ Serve \/ CanFailed \/ StayWithoutCan \/ CommandDone
           \/ CommandFault \/ EndStore
  BY <1>2 DEF Begin, Decide, ServeLockedOut, Serve, CanFailed, StayWithoutCan, CommandDone,
              CommandFault, EndStore, Advance, ClockInv, Phases
<1>3. CASE StartUp
  BY <1>3 DEF StartUp, Advance, ClockInv, Phases
<1>4. CASE GiveUp
  BY <1>4 DEF GiveUp, FirmwareFail, ClockInv, Phases
<1>5. CASE Trap
  <2>1. pc' = "fail" /\ (CrystalStops \/ clk' = clk)
    BY <1>5 DEF Trap, FirmwareFail
  <2>2. CASE CrystalStops
    BY <2>1, <2>2 DEF CrystalStops, ClockInv, ClockStates, Phases
  <2> QED
    BY <2>1, <2>2 DEF ClockInv, Phases
<1>6. CASE SystemReset \/ Reset \/ PowerLoss \/ Flash
  <2>1. clk' = ClockReset /\ pc' = "begin"
    BY <1>6 DEF SystemReset, Reset, PowerLoss, Flash, Restart
  <2> QED
    BY <2>1 DEF ClockReset, ClockInv, ClockStates, Sources, Phases
<1>7. CASE UNCHANGED vars
  BY <1>7 DEF vars, ClockInv
<1> QED
  BY <1>1, <1>2, <1>3, <1>4, <1>5, <1>6, <1>7 DEF Next, Run

\* Past clock_setup() the core runs from the clock that is reported.
THEOREM ClockAlwaysAsReported == Spec => []ClockAsReported
<1>1. Init => ClockInv
  BY ClockStarts DEF Init
<1>2. ClockInv => ClockAsReported
  BY DEF ClockInv, ClockAsReported, Phases
<1> QED
  BY <1>1, <1>2, ClockStepInv, PTL DEF Spec

\* The state of a boot is always well-typed.
THEOREM BootTyped == Spec => []TypeOK
<1>1. Init => Program /\ Memory /\ Flags /\ ClockInv
  <2> SUFFICES ASSUME Init
               PROVE  Program /\ Memory /\ Flags /\ ClockInv
    OBVIOUS
  <2>1. Program /\ Memory
    BY BootAssumption DEF Init, Program, Memory, Phases, Faults
  <2>2. Flags
    BY Zenon DEF Init, Flags
  <2>3. ClockInv
    BY ClockStarts DEF Init
  <2> QED
    BY <2>1, <2>2, <2>3
<1>2. Program /\ Memory /\ Flags /\ ClockInv => TypeOK
  BY Parts DEF ClockInv
<1> QED
  BY <1>1, <1>2, ProgramStep, MemoryStep, FlagsStep, ClockStepInv, PTL DEF Spec

-----------------------------------------------------------------------------
(* The record                                                              *)

\* The record there is, or will be when the copy ends.
Latest == IF pending # NoRecord THEN pending ELSE rec

Booting == pc \in Phases \cup {"decide"}

\* Once a boot has begun there is a record, and it is of the image that boots; the
\* record is only torn while another is copied over it.
AtHand ==
    /\ pending # NoRecord => rec = Torn
    /\ pc = "begin" => pending = NoRecord
    /\ pc # "begin" => Latest # Torn
    /\ Booting => Latest.build = build /\ ran = build
    /\ Booting /\ pc # "serve" => ~clean

\* What a record says of the boots before: their last fault and, if the record is
\* of the image that ran last, how many of them failed.
Tells ==
    Latest # Torn =>
        /\ Latest.current = fault
        /\ Latest.build \in {ran, NoBuild}
        /\ Latest.build = ran =>
             /\ Latest.streak <= incomplete
             /\ ~lost => Latest.streak = incomplete
             /\ clean <=> Latest.state = "HEALTHY"

RecordInv == Program /\ Memory /\ AtHand /\ Tells

\* In a boot that is between two copies, an update starts from the record there is.
LEMMA Settled ==
    ASSUME RecordInv, Booting, pending = NoRecord
    PROVE  /\ rec \in Records /\ Valid = rec /\ Latest = rec
           /\ rec.build = build /\ ran = build
BY DEF RecordInv, AtHand, Memory, Latest, Valid, Booting, Phases

\* A copy has begun.
LEMMA Copying ==
    ASSUME NEW r \in Records, pending' = r, rec' = Torn
    PROVE  Latest' = r /\ Latest' # Torn /\ pending' # NoRecord
BY Whole DEF Latest

\* No record changed, nor what is told by it.
LEMMA Untouched ==
    ASSUME RecordInv, rec' = rec, pending' = pending, UNCHANGED history
    PROVE  Tells' /\ Latest' = Latest
BY DEF RecordInv, Tells, Latest, history

\* A step of the start-up, or a command carried out, in a boot that counts so far.
LEMMA AdvanceKeeps ==
    ASSUME RecordInv, NEW from, NEW to, from \in Phases, to \in Phases, NEW r, Advance(from, to, r),
           r = Valid \/ (from # "serve" /\ \E s \in States \ {"HEALTHY"} : r = WithState(s)),
           to = "serve" => from = "serve" \/ ~clean,
           from = "serve" => to = "serve"
    PROVE  AtHand' /\ Tells'
<1> USE DEF main, history
<1>1. /\ pc = from /\ pc' = to /\ pending = NoRecord /\ pending' = r /\ rec' = Torn
      /\ build' = build /\ ran' = ran /\ fault' = fault /\ incomplete' = incomplete
      /\ clean' = clean /\ lost' = lost
  BY DEF Advance, Store
<1>2. Booting /\ Booting' /\ pc # "begin" /\ pc' # "begin"
  BY <1>1 DEF Booting, Phases
<1>3. /\ rec \in Records /\ Valid = rec /\ Latest = rec
      /\ rec.build = build /\ ran = build
  BY <1>1, <1>2, Settled
<1>4. /\ r \in Records
      /\ r.current = rec.current /\ r.build = rec.build /\ r.streak = rec.streak
      /\ r.state = rec.state \/ (from # "serve" /\ r.state # "HEALTHY")
  <2>1. CASE r = Valid
    BY <1>3, <2>1
  <2>2. CASE from # "serve" /\ \E s \in States \ {"HEALTHY"} : r = WithState(s)
    BY <1>3, <2>2 DEF WithState, Records
  <2> QED
    BY <2>1, <2>2
<1>5. Latest' = r /\ Latest' # Torn /\ pending' # NoRecord
  BY <1>1, <1>4, Copying
<1>6. from # "serve" => ~clean
  BY <1>1, <1>2 DEF RecordInv, AtHand
<1>7. AtHand'
  BY <1>1, <1>2, <1>3, <1>4, <1>5, <1>6 DEF AtHand
<1>8. Tells'
  BY <1>1, <1>3, <1>4, <1>5, <1>6, Whole DEF RecordInv, Tells
<1> QED
  BY <1>7, <1>8

\* A boot begins: it is counted if the one before was not clean.
LEMMA BeginKeeps ==
    ASSUME RecordInv, Begin
    PROVE  AtHand' /\ Tells'
<1> USE DEF main, history
<1>1. /\ pc = "begin" /\ pc' = "decide" /\ pending = NoRecord /\ pending' = Begun /\ rec' = Torn
      /\ build' = build /\ ran' = build /\ fault' = "NONE" /\ clean' = FALSE
      /\ incomplete' = IF clean \/ ran # build THEN 0
                        ELSE IF incomplete < MaxStreak THEN incomplete + 1 ELSE incomplete
      /\ lost' = (~clean /\ ran = build /\ (lost \/ ~Inherited))
  BY DEF Begin, Store
<1>2. Begun \in Records
  BY BegunTyped DEF RecordInv, Memory, Program
<1>3. Latest' = Begun /\ Latest' # Torn /\ pending' # NoRecord
  BY <1>1, <1>2, Copying
<1>4. Begun.build = build /\ Begun.current = "NONE" /\ Begun.state = "BOOTING"
  BY DEF Begun, Inherited, New, RecordInv, Memory, Records
<1>5. Begun.streak <= incomplete' /\ (~lost' => Begun.streak = incomplete')
  <2>0. ~lost' <=> clean \/ ran # build \/ (~lost /\ Inherited)
    BY <1>1, Zenon
  <2>1. CASE Inherited
    <3>1. rec \in Records /\ Latest = rec /\ rec.build = build
      BY <1>1, <2>1 DEF Inherited, Latest, RecordInv, Memory
    <3>2. ran = build
      BY <3>1, Whole, BootAssumption DEF RecordInv, Tells, Program
    <3>3. /\ rec.streak <= incomplete
          /\ ~lost => rec.streak = incomplete
          /\ clean <=> rec.state = "HEALTHY"
      BY <3>1, <3>2, Whole DEF RecordInv, Tells
    <3>4. rec.streak \in 0..MaxStreak /\ incomplete \in 0..MaxStreak /\ MaxStreak \in Nat
      BY <3>1, BootAssumption DEF Records, RecordInv, Program
    <3>5. Begun.streak = StreakAfter(rec)
      BY <2>1, <3>1 DEF Begun, Records
    <3>6. CASE clean
      BY <1>1, <3>2, <3>3, <3>5, <3>6 DEF StreakAfter
    <3>7. CASE ~clean
      <4>1. /\ Begun.streak = IF rec.streak < MaxStreak THEN rec.streak + 1 ELSE rec.streak
            /\ incomplete' = IF incomplete < MaxStreak THEN incomplete + 1 ELSE incomplete
        BY <1>1, <3>2, <3>3, <3>5, <3>7 DEF StreakAfter
      <4>2. ~lost' => ~lost
        BY <2>0, <3>2, <3>7
      <4> QED
        BY <3>3, <3>4, <4>1, <4>2
    <3> QED
      BY <3>6, <3>7
  <2>2. CASE ~Inherited
    <3>1. Begun.streak = 0
      BY <2>2 DEF Begun, New
    <3>2. incomplete \in Nat
      BY BootAssumption DEF RecordInv, Program
    <3>3. incomplete' >= 0 /\ (clean \/ ran # build => incomplete' = 0)
      BY <1>1, <3>2
    <3> QED
      BY <2>0, <2>2, <3>1, <3>3
  <2> QED
    BY <2>1, <2>2
<1>6. AtHand'
  BY <1>1, <1>3, <1>4 DEF AtHand, Booting, Phases
<1>7. Tells'
  BY <1>1, <1>3, <1>4, <1>5 DEF Tells
<1> QED
  BY <1>6, <1>7

\* A boot becomes healthy: the count starts again.
LEMMA ServeKeeps ==
    ASSUME RecordInv, Serve
    PROVE  AtHand' /\ Tells'
<1>1. /\ pc = "can" /\ pc' = "serve" /\ pending = NoRecord /\ pending' = Healthy /\ rec' = Torn
      /\ build' = build /\ ran' = ran /\ fault' = fault /\ clean' = TRUE
      /\ incomplete' = 0 /\ lost' = FALSE
  BY DEF Serve, Store
<1>2. Booting /\ Booting'
  BY <1>1 DEF Booting, Phases
<1>3. /\ rec \in Records /\ Valid = rec /\ Latest = rec
      /\ rec.build = build /\ ran = build
  BY <1>1, <1>2, Settled
<1>4. /\ Healthy \in Records
      /\ Healthy.build = build /\ Healthy.streak = 0
      /\ Healthy.state = "HEALTHY" /\ Healthy.current = rec.current
  <2>1. Healthy \in Records
    BY UpdateTyped DEF RecordInv, Memory
  <2> QED
    BY <1>3, <2>1 DEF Healthy, Records
<1>5. Latest' = Healthy /\ Latest' # Torn /\ pending' # NoRecord
  BY <1>1, <1>4, Copying
<1>6. rec.current = fault
  BY <1>3, Whole DEF RecordInv, Tells
<1>7. AtHand'
  BY <1>1, <1>2, <1>3, <1>4, <1>5 DEF AtHand
<1>8. Tells'
  BY <1>1, <1>3, <1>4, <1>5, <1>6 DEF Tells
<1> QED
  BY <1>7, <1>8

\* A fault is recorded: over the record there is, whatever its build, or over none
\* when a copy was interrupted.
LEMMA FaultTells ==
    ASSUME RecordInv, NEW f \in Faults, pending' = WithFault(f), rec' = Torn,
           fault' = f, clean' = FALSE \/ (clean' = clean /\ ~clean),
           UNCHANGED <<ran, incomplete, lost>>
    PROVE  /\ Tells' /\ Latest' # Torn /\ pending' # NoRecord
           /\ Latest'.build = Valid.build
<1>1. /\ Valid \in Records /\ WithFault(f) \in Records
  BY UpdateTyped DEF RecordInv, Memory
<1>2. Latest' = WithFault(f) /\ Latest' # Torn /\ pending' # NoRecord
  BY <1>1, Copying
<1>3. /\ WithFault(f).current = f /\ WithFault(f).state = "FAULT"
      /\ WithFault(f).build = Valid.build /\ WithFault(f).streak = Valid.streak
  BY <1>1 DEF WithFault, Records
<1>4. CASE rec = Torn
  <2>1. Valid.build = NoBuild
    BY <1>4 DEF Valid, New
  <2>2. ran # NoBuild
    BY BootAssumption DEF RecordInv, Program
  <2> QED
    BY <1>2, <1>3, <2>1, <2>2 DEF Tells
<1>5. CASE rec # Torn
  <2>1. Valid = rec /\ Latest = rec
    BY <1>5 DEF Valid, Latest, RecordInv, AtHand
  <2> QED
    BY <1>2, <1>3, <1>5, <2>1 DEF RecordInv, Tells
<1> QED
  BY <1>4, <1>5

LEMMA RecordStep == RecordInv /\ [Next]_vars => AtHand' /\ Tells'
<1> SUFFICES ASSUME RecordInv, [Next]_vars
             PROVE  AtHand' /\ Tells'
  OBVIOUS
<1> USE DEF main, history
<1>1. CASE Begin
  BY <1>1, BeginKeeps
<1>2. CASE Decide \/ SetUpClock
  <2>1. /\ pc # "begin" /\ pc' # "begin" /\ Booting /\ (pc' = "serve" => pc = "serve")
        /\ pc # "serve" /\ rec' = rec /\ pending' = pending /\ build' = build
        /\ UNCHANGED history
    BY <1>2 DEF Decide, SetUpClock, Booting, Phases
  <2>2. Tells' /\ Latest' = Latest
    BY <2>1, Untouched
  <2> QED
    BY <2>1, <2>2 DEF RecordInv, AtHand
<1>3. CASE StartUp \/ ServeLockedOut \/ StayWithoutCan \/ CommandDone
  <2>1. CASE StartUp
    <3>1. PICK from \in {"clock", "ready", "outputs", "phase"},
               to \in {"ready", "outputs", "phase", "can"},
               r \in {Valid, WithState("CLOCK_READY"), WithState("SAFE_OUTPUTS")} :
             Advance(from, to, r)
      BY <2>1 DEF StartUp
    <3> QED
      BY <3>1, AdvanceKeeps DEF Phases, States
  <2>2. CASE ServeLockedOut
    <3>1. Advance("can", "serve", WithState("SAFE_LOCKOUT")) /\ pc = "can"
      BY <2>2 DEF ServeLockedOut, Advance
    <3>2. ~clean
      BY <3>1 DEF RecordInv, AtHand, Booting, Phases
    <3> QED
      BY <3>1, <3>2, AdvanceKeeps DEF Phases, States
  <2>3. CASE StayWithoutCan
    BY <2>3, AdvanceKeeps DEF StayWithoutCan, Phases, States
  <2>4. CASE CommandDone
    BY <2>4, AdvanceKeeps DEF CommandDone, Phases
  <2> QED
    BY <1>3, <2>1, <2>2, <2>3, <2>4
<1>4. CASE Serve
  BY <1>4, ServeKeeps
<1>5. CASE CanFailed \/ CommandFault
  <2>1. /\ pending = NoRecord /\ rec' = Torn /\ Booting /\ Booting'
        /\ build' = build /\ ran' = ran /\ incomplete' = incomplete /\ lost' = lost
        /\ pc' # "begin" /\ pc \in {"can", "serve"}
    BY <1>5 DEF CanFailed, CommandFault, Store, Booting, Phases
  <2>2. CASE CanFailed
    <3>1. pc = "can" /\ clean' = clean
      BY <2>2 DEF CanFailed
    <3>2. ~clean
      BY <2>1, <3>1 DEF RecordInv, AtHand
    <3>3. /\ Tells' /\ Latest' # Torn /\ pending' # NoRecord
          /\ Latest'.build = Valid.build
      BY <2>1, <2>2, <3>1, <3>2, FaultTells DEF CanFailed, Store, Faults
    <3> QED
      BY <2>1, <3>1, <3>2, <3>3, Settled DEF AtHand
  <2>3. CASE CommandFault
    <3>1. clean' = FALSE
      BY <2>3 DEF CommandFault
    <3>2. /\ Tells' /\ Latest' # Torn /\ pending' # NoRecord
          /\ Latest'.build = Valid.build
      BY <2>1, <2>3, <3>1, FaultTells DEF CommandFault, Store, Faults
    <3> QED
      BY <2>1, <3>1, <3>2, Settled DEF AtHand
  <2> QED
    BY <1>5, <2>2, <2>3
<1>6. CASE GiveUp \/ Trap
  <2>1. PICK f \in Faults : FirmwareFail(f)
    BY <1>6 DEF GiveUp, Trap, Traps, Faults
  <2>2. pc' = "fail" /\ rec' = Torn
    BY <2>1 DEF FirmwareFail
  <2>3. Tells' /\ Latest' # Torn
    BY <2>1, FaultTells DEF FirmwareFail
  <2> QED
    BY <2>2, <2>3 DEF AtHand, Booting, Phases
<1>7. CASE EndStore
  <2>1. /\ Latest' = Latest /\ pending' = NoRecord /\ pc' = pc /\ build' = build
        /\ UNCHANGED history
    BY <1>7 DEF EndStore, Latest
  <2> QED
    BY <2>1 DEF RecordInv, AtHand, Tells, Booting
<1>8. CASE SystemReset \/ Reset \/ Flash
  <2>1. /\ pc' = "begin" /\ pending' = NoRecord /\ rec' = rec
        /\ UNCHANGED <<incomplete, clean, ran, lost, fault>>
    BY <1>8 DEF SystemReset, Reset, Flash, Restart
  <2>2. Latest' = rec /\ (rec # Torn => Latest = rec)
    BY <2>1 DEF RecordInv, AtHand, Latest
  <2> QED
    BY <2>1, <2>2 DEF RecordInv, AtHand, Tells, Booting, Phases
<1>9. CASE PowerLoss
  <2>1. pc' = "begin" /\ pending' = NoRecord /\ rec' = Torn
    BY <1>9 DEF PowerLoss, Restart
  <2> QED
    BY <2>1 DEF AtHand, Tells, Latest, Booting, Phases
<1>10. CASE UNCHANGED vars
  BY <1>10, Untouched DEF vars, RecordInv, AtHand, Booting
<1> QED
  BY <1>1, <1>2, <1>3, <1>4, <1>5, <1>6, <1>7, <1>8, <1>9, <1>10 DEF Next, Run

\* At every moment the record, if there is one, tells the truth about the boots
\* before this one, as far as it was not lost with them.
THEOREM RecordTells == Spec => []RecordInv
<1>1. Init => RecordInv
  BY BootAssumption DEF Init, RecordInv, Program, Memory, AtHand, Tells, Latest, Booting, Phases, Faults
<1>2. RecordInv /\ [Next]_vars => RecordInv'
  BY ProgramStep, MemoryStep, RecordStep DEF RecordInv
<1> QED
  BY <1>1, <1>2, PTL DEF Spec

\* The last fault of a boot is the previous fault of the next one, whenever that one
\* finds the record whole and of its build.
THEOREM FaultAlwaysHandedOver == Spec => FaultHandedOver
<1>1. RecordInv /\ [Next]_vars =>
        [pc = "begin" /\ pc' = "decide" /\ Inherited => pending'.previous = fault]_vars
  <2> SUFFICES ASSUME RecordInv, Next, pc = "begin", pc' = "decide", Inherited
               PROVE  pending'.previous = fault
    OBVIOUS
  <2>1. Begin
    BY DEF Next, Run, Decide, SetUpClock, StartUp, ServeLockedOut, Serve, CanFailed, StayWithoutCan,
           CommandDone, CommandFault, GiveUp, EndStore, SystemReset, Trap, FirmwareFail, Reset,
           PowerLoss, Flash, Restart, Advance, main
  <2>2. rec \in Records /\ Latest = rec
    BY DEF RecordInv, AtHand, Memory, Inherited, Latest
  <2>3. pending'.previous = rec.current
    BY <2>1, <2>2 DEF Begin, Store, Begun, Records
  <2> QED
    BY <2>2, <2>3, Whole DEF RecordInv, Tells
<1> QED
  BY <1>1, RecordTells, PTL DEF Spec, FaultHandedOver

\* A node is locked out only after Threshold boots that did not become healthy, and
\* always then as long as no record was lost.
THEOREM LockoutAlwaysExact == Spec => []LockoutExact
<1> USE DEF main, history
<1>1. Init => LockoutExact
  BY DEF Init, LockoutExact, Phases
<1>2. RecordInv /\ LockoutExact /\ [Next]_vars => LockoutExact'
  <2> SUFFICES ASSUME RecordInv, LockoutExact, [Next]_vars
               PROVE  LockoutExact'
    OBVIOUS
  <2>1. CASE Decide
    <3>1. /\ lockout' = (rec # Torn /\ rec.streak >= Threshold)
          /\ incomplete' = incomplete /\ lost' = lost
      BY <2>1 DEF Decide
    <3>2. /\ rec \in Records /\ Latest = rec /\ rec.build = ran
      BY <2>1, Settled DEF Decide, Booting
    <3>3. rec.streak <= incomplete /\ (~lost => rec.streak = incomplete)
      BY <3>2, Whole DEF RecordInv, Tells
    <3>4. rec.streak \in Nat /\ incomplete \in Nat /\ Threshold \in Nat
      BY <3>2, BootAssumption DEF Records, RecordInv, Program
    <3>5. lockout' <=> rec.streak >= Threshold
      BY <3>1, <3>2, Whole
    <3> QED
      BY <3>1, <3>3, <3>4, <3>5 DEF LockoutExact
  <2>2. CASE Serve
    <3>1. ~lockout' /\ incomplete' = 0
      BY <2>2 DEF Serve
    <3> QED
      BY <3>1, BootAssumption DEF LockoutExact
  <2>3. CASE Begin \/ GiveUp \/ Trap \/ SystemReset \/ Reset \/ PowerLoss \/ Flash
    BY <2>3 DEF Begin, GiveUp, Trap, FirmwareFail, SystemReset, Reset, PowerLoss, Flash, Restart,
                LockoutExact, Phases
  <2>4. CASE SetUpClock \/ StartUp \/ ServeLockedOut \/ CanFailed \/ StayWithoutCan
             \/ CommandDone \/ CommandFault \/ EndStore
    <3>1. /\ pc' \in Phases => pc \in Phases
          /\ lockout' = lockout /\ incomplete' = incomplete /\ lost' = lost
      BY <2>4 DEF SetUpClock, StartUp, ServeLockedOut, CanFailed, StayWithoutCan, CommandDone,
                  CommandFault, EndStore, Advance, Phases
    <3> QED
      BY <3>1 DEF LockoutExact
  <2>5. CASE UNCHANGED vars
    BY <2>5 DEF vars, LockoutExact
  <2> QED
    BY <2>1, <2>2, <2>3, <2>4, <2>5 DEF Next, Run
<1> QED
  BY <1>1, <1>2, RecordTells, PTL DEF Spec
=============================================================================
