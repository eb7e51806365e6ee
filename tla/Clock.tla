------------------------------- MODULE Clock --------------------------------
(***************************************************************************)
(* clock_setup(): 48 MHz from the crystal and the PLL or, if any of its    *)
(* waits runs out, from the internal oscillator.  A step is one wait for   *)
(* the hardware, its two outcomes, and what the code does up to the next   *)
(* wait.  Every wait ends after CLOCK_STARTUP_ITERATION_LIMIT polls.       *)
(***************************************************************************)

VARIABLE clk        \* where clock_setup() is, and the clock tree

Sources == {"UNKNOWN", "HSE_PLL", "HSI48"}

ClockStates ==
    [at : {"hse", "pll", "pll_switch", "hsi48", "hsi48_switch", "done", "failed"},
     hse : BOOLEAN, pll : BOOLEAN,          \* crystal oscillator and PLL are on
     core : {"HSI", "PLL", "HSI48"},        \* what drives the core
     waits : BOOLEAN,                       \* the flash has its wait state
     css : BOOLEAN,                         \* clock security watches the crystal
     source : Sources]                      \* *clock_source

\* After every reset; the first thing the code does is start the crystal.
ClockReset ==
    [at |-> "hse", hse |-> TRUE, pll |-> FALSE, core |-> "HSI", waits |-> FALSE,
     css |-> FALSE, source |-> "UNKNOWN"]

\* Mutant: the flash is set up when the PLL runs, not before the switch.
MutantHseReady == clk.at = "hse" /\ clk' = [clk EXCEPT !.at = "pll", !.pll = TRUE]

HseReady == clk.at = "hse" /\ clk' = [clk EXCEPT !.at = "pll", !.pll = TRUE, !.waits = TRUE]

PllReady == clk.at = "pll" /\ clk' = [clk EXCEPT !.at = "pll_switch"]

Switched ==
    /\ clk.at = "pll_switch"
    /\ clk' = [clk EXCEPT !.at = "done", !.core = "PLL", !.css = TRUE, !.source = "HSE_PLL"]

\* A wait of try_hse_pll() runs out; a switch may still come about later.
HseFails ==
    /\ clk.at \in {"hse", "pll", "pll_switch"}
    /\ \E core \in IF clk.at = "pll_switch" THEN {"HSI", "PLL"} ELSE {clk.core} :
         clk' = [clk EXCEPT !.at = "hsi48", !.core = core]

Hsi48Ready == clk.at = "hsi48" /\ clk' = [clk EXCEPT !.at = "hsi48_switch", !.waits = TRUE]

Switched48 ==
    /\ clk.at = "hsi48_switch"
    /\ clk' = [clk EXCEPT !.at = "done", !.core = "HSI48", !.css = FALSE,
                          !.pll = FALSE, !.hse = FALSE, !.source = "HSI48"]

Hsi48Fails == clk.at \in {"hsi48", "hsi48_switch"} /\ clk' = [clk EXCEPT !.at = "failed"]

ClockStep ==
    HseReady \/ PllReady \/ Switched \/ HseFails \/ Hsi48Ready \/ Switched48 \/ Hsi48Fails

\* The crystal stops: the core goes on from the oscillator it came up with.
CrystalStops == clk.css /\ clk' = [clk EXCEPT !.core = "HSI", !.css = FALSE]
=============================================================================
