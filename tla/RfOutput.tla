------------------------------ MODULE RfOutput ------------------------------
(***************************************************************************)
(* What a receiver promises about its RF outputs, with no trace of frames, *)
(* plans or faults: after every set-up the first thing that happens is     *)
(* muting to maximum attenuation, and the phase moves only while muted.    *)
(***************************************************************************)
CONSTANTS Byte, MaxAttenuation, Attenuations

VARIABLES hw, settled   \* settled: the attenuation is one the node has chosen

vars == <<hw, settled>>

Init == hw \in [phase : Byte, atten : Byte] /\ settled = FALSE

PowerOn ==
    /\ hw' \in [phase : Byte, atten : Byte]
    /\ settled' = FALSE

Mute ==
    /\ hw' = [hw EXCEPT !.atten = MaxAttenuation]
    /\ settled' = TRUE

Attenuate(a) ==
    /\ settled
    /\ hw' = [hw EXCEPT !.atten = a]
    /\ UNCHANGED settled

Steer(p) ==
    /\ settled /\ hw.atten = MaxAttenuation
    /\ hw' = [hw EXCEPT !.phase = p]
    /\ UNCHANGED settled

Next == PowerOn \/ Mute \/ (\E a \in Attenuations : Attenuate(a)) \/ (\E p \in Byte : Steer(p))

Spec == Init /\ [][Next]_vars
=============================================================================
