-------------------------------- MODULE Boot --------------------------------
(***************************************************************************)
(* The retained diagnostic record across resets, and the safe lockout      *)
(* main() derives from it.  The record lives in RAM that no reset clears;  *)
(* each update copies a whole new record over it, so the record is torn,   *)
(* its checksum wrong, from the first word of the copy to the last.        *)
(* A reset or an exception may fall between any two steps.                 *)
(*                                                                         *)
(* The clock tree is Clock's; it starts over at every reset.  Left out:    *)
(* boot count, reset flags, clock source and last commands, which ride     *)
(* along in the record and decide nothing; the watchdog is a reset that    *)
(* may come at any time.                                                   *)
(***************************************************************************)
EXTENDS Naturals, Clock

CONSTANTS
    Builds,             \* firmware_build_id() of the images ever flashed
    NoBuild,            \* build_id 0 of a new record
    Threshold,          \* DIAGNOSTIC_LOCKOUT_THRESHOLD
    MaxStreak           \* UINT8_MAX, where the streak saturates

ASSUME BootAssumption ==
    /\ NoBuild \notin Builds
    /\ Threshold \in Nat \ {0}
    /\ MaxStreak \in Nat /\ MaxStreak >= Threshold

VARIABLES
    pc,         \* where main() is; "fail" inside firmware_fail()
    level,      \* 0 in main(), else the priority of the running exception
    build,      \* the image in flash
    rec,        \* RETAINED_DIAGNOSTICS, or Torn
    pending,    \* the record being copied over it, or NoRecord
    lockout,    \* safe_lockout
    \* History, read by the properties only:
    incomplete, \* boots in a row, of one build, since one was marked healthy
    clean,      \* the boot under way gives no reason to count it
    ran,        \* the image that last began to boot
    lost,       \* the record was lost since the last boot marked healthy
    fault,      \* the last fault of the boot under way
    failed      \* the last reset was firmware_fail()'s own

main == <<pc, level, build, lockout>>
history == <<incomplete, clean, ran, lost, fault, failed>>
vars == <<main, clk, rec, pending, history>>

-----------------------------------------------------------------------------
(* The record                                                              *)

States == {"UNINITIALIZED", "BOOTING", "CLOCK_READY", "SAFE_OUTPUTS", "HEALTHY",
           "SAFE_LOCKOUT", "FAULT"}

\* Exceptions, each with the priority it runs at.
Traps == {<<"UNEXPECTED_INTERRUPT", 1>>, <<"HARD_FAULT", 2>>,
          <<"CLOCK_SECURITY", 3>>, <<"UNEXPECTED_INTERRUPT", 3>>}
Faults == {"NONE", "CLOCK_STARTUP", "SPI", "CAN_INIT", "HARD_FAULT", "CLOCK_SECURITY",
           "UNEXPECTED_INTERRUPT"}

Records == [build : Builds \cup {NoBuild}, state : States, streak : 0..MaxStreak,
            current : Faults, previous : Faults]
NoRecord == [none |-> TRUE]
Torn == [torn |-> TRUE]

New == [build |-> NoBuild, state |-> "UNINITIALIZED", streak |-> 0,
        current |-> "NONE", previous |-> "NONE"]

\* valid_record(): what an update starts from.
Valid == IF rec = Torn THEN New ELSE rec

WithState(s) == [Valid EXCEPT !.state = s]
WithFault(f) == [Valid EXCEPT !.current = f, !.state = "FAULT"]
Healthy == [Valid EXCEPT !.state = "HEALTHY", !.streak = 0]

\* The record found at boot counts: it is whole, and of this build.
Inherited == rec # Torn /\ rec.build = build

\* Mutant: the streak does not saturate.
MutantStreakAfter(r) == IF r.state = "HEALTHY" THEN 0 ELSE r.streak + 1

StreakAfter(r) ==
    IF r.state = "HEALTHY" THEN 0
    ELSE IF r.streak < MaxStreak THEN r.streak + 1 ELSE r.streak

\* Mutant: the last fault is cleared before it is kept as the previous one.
MutantBegun ==
    IF Inherited
    THEN [rec EXCEPT !.state = "BOOTING", !.streak = StreakAfter(rec), !.current = "NONE",
                     !.previous = "NONE"]
    ELSE [New EXCEPT !.build = build, !.state = "BOOTING"]

\* diagnostic_record_begin_boot()
Begun ==
    IF Inherited
    THEN [rec EXCEPT !.state = "BOOTING", !.streak = StreakAfter(rec), !.current = "NONE",
                     !.previous = rec.current]
    ELSE [New EXCEPT !.build = build, !.state = "BOOTING"]

\* The copy begins; what was there is gone.
Store(r) == pending = NoRecord /\ pending' = r /\ rec' = Torn

EndStore ==
    /\ pending # NoRecord
    /\ rec' = pending
    /\ pending' = NoRecord
    /\ UNCHANGED <<main, clk, history>>

-----------------------------------------------------------------------------
Phases == {"clock", "ready", "outputs", "phase", "can", "can_failed", "serve", "no_can"}

TypeOK ==
    /\ pc \in Phases \cup {"begin", "decide", "fail"}
    /\ level \in 0..3
    /\ clk \in ClockStates
    /\ build \in Builds
    /\ rec \in Records \cup {Torn}
    /\ pending \in Records \cup {NoRecord}
    /\ lockout \in BOOLEAN
    /\ incomplete \in 0..MaxStreak
    /\ ran \in Builds
    /\ clean \in BOOLEAN /\ lost \in BOOLEAN /\ failed \in BOOLEAN
    /\ fault \in Faults

\* Power comes up: retained RAM holds noise.
Init ==
    /\ pc = "begin" /\ level = 0
    /\ clk = ClockReset
    /\ build \in Builds /\ ran = build
    /\ rec = Torn
    /\ pending = NoRecord
    /\ lockout = FALSE
    /\ incomplete = 0
    /\ clean = TRUE
    /\ lost = FALSE
    /\ fault = "NONE"
    /\ failed = FALSE

-----------------------------------------------------------------------------
(* main(), from retained_diagnostics_begin() to the service loop           *)

Begin ==
    /\ pc = "begin"
    /\ Store(Begun)
    /\ pc' = "decide"
    /\ incomplete' = IF clean \/ ran # build THEN 0
                     ELSE IF incomplete < MaxStreak THEN incomplete + 1 ELSE incomplete
    /\ lost' = (~clean /\ ran = build /\ (lost \/ ~Inherited))
    /\ ran' = build
    /\ clean' = FALSE
    /\ fault' = "NONE"
    /\ failed' = FALSE
    /\ UNCHANGED <<level, build, lockout, clk>>

Decide ==
    /\ pc = "decide" /\ pending = NoRecord
    /\ lockout' = (rec # Torn /\ rec.streak >= Threshold)
    /\ pc' = "clock"
    /\ UNCHANGED <<level, build, clk, rec, pending, history>>

Advance(from, to, r) ==
    /\ pc = from
    /\ Store(r)
    /\ pc' = to
    /\ UNCHANGED <<level, build, lockout, clk, history>>

\* clock_setup(), wait by wait; an exception that ends it does not come back.
SetUpClock ==
    /\ pc = "clock" /\ pending = NoRecord
    /\ ClockStep
    /\ UNCHANGED <<main, rec, pending, history>>

\* The clock runs and is recorded; then each RF write of the start-up plan.
StartUp ==
    \/ clk.at = "done" /\ Advance("clock", "ready", Valid)
    \/ Advance("ready", "outputs", WithState("CLOCK_READY"))
    \/ Advance("outputs", "phase", WithState("SAFE_OUTPUTS"))
    \/ Advance("phase", "can", Valid)

ServeLockedOut == lockout /\ Advance("can", "serve", WithState("SAFE_LOCKOUT"))

\* Mutant: a locked-out node is marked healthy once its CAN bus is up.
MutantServe ==
    /\ pc = "can"
    /\ Store(Healthy)
    /\ pc' = "serve"
    /\ clean' = ~lockout
    /\ incomplete' = IF lockout THEN incomplete ELSE 0
    /\ lost' = (lockout /\ lost)
    /\ UNCHANGED <<level, build, lockout, clk, ran, fault, failed>>

Serve ==
    /\ pc = "can" /\ ~lockout
    /\ Store(Healthy)
    /\ pc' = "serve"
    /\ clean' = TRUE
    /\ incomplete' = 0
    /\ lost' = FALSE
    /\ UNCHANGED <<level, build, lockout, clk, ran, fault, failed>>

\* Locked out and no CAN: the fault is recorded, and the node stays up.
CanFailed ==
    /\ pc = "can" /\ lockout
    /\ Store(WithFault("CAN_INIT"))
    /\ pc' = "can_failed"
    /\ fault' = "CAN_INIT"
    /\ UNCHANGED <<level, build, lockout, clk, incomplete, clean, ran, lost, failed>>

StayWithoutCan == Advance("can_failed", "no_can", WithState("SAFE_LOCKOUT"))

\* A command ran: its device words are recorded, or its fault.
CommandDone == Advance("serve", "serve", Valid)

CommandFault ==
    /\ pc = "serve"
    /\ Store(WithFault("SPI"))
    /\ fault' = "SPI"
    /\ clean' = FALSE
    /\ UNCHANGED <<main, clk, incomplete, ran, lost, failed>>

-----------------------------------------------------------------------------
(* firmware_fail(), exceptions and resets                                  *)

FirmwareFail(f) ==
    /\ pending' = WithFault(f)
    /\ rec' = Torn
    /\ pc' = "fail"
    /\ fault' = f
    /\ clean' = FALSE
    /\ UNCHANGED <<build, lockout, incomplete, ran, lost, failed>>

\* main() gives up: no clock, a device that does not answer, no CAN.
GiveUp ==
    /\ pending = NoRecord
    /\ \/ pc = "clock" /\ clk.at = "failed" /\ FirmwareFail("CLOCK_STARTUP")
       \/ pc \in {"outputs", "phase"} /\ FirmwareFail("SPI")
       \/ pc = "can" /\ ~lockout /\ FirmwareFail("CAN_INIT")
    /\ UNCHANGED <<level, clk>>

\* An exception preempts main(), or an exception below it, even in the middle
\* of a copy, which is never resumed.
Trap ==
    /\ \E t \in Traps :
         /\ t[2] > level
         /\ IF t[1] = "CLOCK_SECURITY" THEN CrystalStops ELSE UNCHANGED clk
         /\ FirmwareFail(t[1])
         /\ level' = t[2]

Restart ==
    /\ pc' = "begin"
    /\ level' = 0
    /\ clk' = ClockReset
    /\ pending' = NoRecord

SystemReset ==
    /\ pc = "fail" /\ pending = NoRecord
    /\ Restart
    /\ failed' = TRUE
    /\ UNCHANGED <<build, rec, lockout, incomplete, clean, ran, lost, fault>>

\* Watchdog, reset pin: at any moment.
Reset ==
    /\ pc # "begin"
    /\ Restart
    /\ failed' = FALSE
    /\ UNCHANGED <<build, rec, lockout, incomplete, clean, ran, lost, fault>>

\* Power is cut: RAM is lost, and the history of boots starts anew.
PowerLoss ==
    /\ pc # "begin"
    /\ Restart
    /\ rec' = Torn
    /\ clean' = TRUE
    /\ failed' = FALSE
    /\ UNCHANGED <<build, lockout, incomplete, ran, lost, fault>>

\* Another image is flashed, over a debugger, which leaves RAM as it is.
Flash ==
    /\ pc # "begin"
    /\ build' \in Builds \ {build}
    /\ Restart
    /\ failed' = FALSE
    /\ UNCHANGED <<rec, lockout, incomplete, clean, ran, lost, fault>>

-----------------------------------------------------------------------------
Run ==
    \/ Begin \/ Decide \/ SetUpClock \/ StartUp \/ ServeLockedOut \/ Serve \/ CanFailed \/ StayWithoutCan
    \/ CommandDone \/ CommandFault \/ GiveUp \/ EndStore \/ SystemReset

Next == Run \/ Trap \/ Reset \/ PowerLoss \/ Flash

Spec == Init /\ [][Next]_vars

-----------------------------------------------------------------------------
(* Properties                                                              *)

\* A node is locked out only when Threshold boots of its image have ended since
\* one was last marked healthy, that one included if it faulted in service; and
\* always then, however many more follow, as long as no reset or exception tore
\* the record meanwhile (platform/diagnostic_record.c:89-114, main.c:142-146).
LockoutExact ==
    pc \in Phases =>
        /\ lockout => incomplete >= Threshold
        /\ incomplete >= Threshold /\ ~lost => lockout

\* The last fault of a boot, recorded in service or by firmware_fail(), is the
\* previous fault of the next one whenever that one finds the record whole and
\* of its build; a boot without a fault leaves none
\* (platform/diagnostic_record.c:89-92, main.c:134-138).
FaultHandedOver ==
    [][pc = "begin" /\ pc' = "decide" /\ Inherited => pending'.previous = fault]_vars

\* Past clock_setup() the core runs at 48 MHz from the source that is reported, with
\* the crystal watched if and only if it is used, and off if it is not; and at no
\* time does it run that fast on a flash without its wait state
\* (platform/clock.c:44-91, main.c:80-84).
ClockAsReported ==
    /\ clk.core # "HSI" => clk.waits
    /\ clk.css => clk.core = "PLL"
    /\ pc \in Phases \ {"clock"} =>
        \/ clk.source = "HSE_PLL" /\ clk.core = "PLL" /\ clk.css
        \/ clk.source = "HSI48" /\ clk.core = "HSI48" /\ ~clk.hse /\ ~clk.pll

\* docs/hardware-validation.md:31: "Clock-security failure records fault and
\* resets": the boot after such a reset knows the fault.
ClockFailureRecorded ==
    [][pc = "begin" /\ pc' = "decide" /\ failed /\ fault = "CLOCK_SECURITY" =>
         pending'.previous = fault]_vars
=============================================================================
