------------------------------ MODULE RfWords -------------------------------
(***************************************************************************)
(* The words the firmware shifts into the two RF devices, and what the     *)
(* devices make of them.  A word is a number; Bits lists its bits from the *)
(* lowest, ValueOf reads them back.                                        *)
(***************************************************************************)
EXTENDS Naturals, Sequences, SequencesExt

PhaseStates == 0..255
UnitAddress == 1                \* PHASE_UNIT_ADDRESS
MaxDb == 23                     \* VGA_MAX_ATTENUATION_DB
FullTurn == 360000              \* PHASE_FULL_TURN_MILLIDEGREES

Bits(word, n) == [i \in 1..n |-> (word \div 2^(i - 1)) % 2]
ValueOf(bits) == FoldRight(LAMBDA bit, value : bit + 2 * value, bits, 0)

\* The calibrated control word of each phase state, D7..D0 below OPT.
OptimizedPhaseState ==
   <<0, 257,   2, 259,   4, 261,   6,   7, 263,   8,   9,  10,  11, 267,  12,  13,
       16,  17,  18, 275,  20,  21,  22,  23, 279,  24,  25,  26,  27, 283,  28,  29,
       32,  33, 287,  35,  36,  37,  38, 294, 295,  40, 296, 297,  42, 299,  44,  45,
      301, 304, 303, 306, 307, 308, 309, 310, 311,  56, 312, 313, 314, 315,  60,  61,
      320, 318, 322, 323,  68, 325,  70, 327, 327,  72, 328,  74,  75, 331,  76,  77,
       80, 337,  82, 339,  84, 340,  86,  87, 343,  88,  89,  90,  91, 347,  92,  93,
       96, 353, 351, 355, 100, 101, 357, 103, 359, 104, 105, 361, 107, 363, 363, 108,
      364, 368, 114, 367, 371, 116, 373, 118, 375, 120, 121, 377, 122, 379, 379, 124,
      125, 381, 126, 128, 385, 130, 387, 132, 389, 134, 135, 391, 136, 137, 138, 139,
      395, 140, 141, 144, 398, 146, 147, 148, 404, 405, 406, 407, 152, 153, 154, 155,
      411, 156, 157, 160, 159, 162, 419, 164, 421, 166, 167, 423, 168, 169, 170, 426,
      427, 172, 429, 174, 175, 178, 179, 180, 181, 182, 183, 439, 184, 185, 186, 187,
      443, 188, 445, 190, 449, 194, 451, 196, 197, 453, 199, 455, 200, 456, 457, 202,
      459, 459, 204, 205, 209, 210, 463, 467, 212, 469, 214, 471, 216, 216, 473, 218,
      475, 475, 220, 221, 480, 478, 482, 483, 228, 484, 230, 231, 487, 232, 233, 489,
      235, 491, 491, 236, 237, 241, 242, 499, 495, 244, 501, 246, 503, 248, 249, 505>>

\* GetOptimizedPhaseState(): C counts from zero.
ControlWord(state) == OptimizedPhaseState[state + 1]

-----------------------------------------------------------------------------
(* Encoding                                                                *)

\* Each bit taken from the bottom pushes the earlier ones up.
ReverseBits(word, n) == FoldLeft(LAMBDA reversed, bit : 2 * reversed + bit, 0, Bits(word, n))

\* MakePSCommand(): [reversed state word][OPT][reversed address], 13 bits.
PhaseCommand(control, unit) ==
    ReverseBits(control % 256, 8) * 32 + (control \div 256) * 16 + ReverseBits(unit, 4)

\* MakeVGACommand()
VgaCommand(db) == db * 4

\* Mutant: the state below the angle, not the nearest one.
MutantPhaseStateFrom(millidegrees) == ((millidegrees * 256) \div FullTurn) % 256

\* phase_state_from_millidegrees(): the nearest state, half a step rounds up and
\* the last half step is state 0 again.
PhaseStateFrom(millidegrees) == ((millidegrees * 256 + FullTurn \div 2) \div FullTurn) % 256

-----------------------------------------------------------------------------
(* The devices: what is on the data line, in order, and what they read.    *)

\* SPI2 sends 13 bits with the highest first, SPI1 eight with the lowest first.
PhaseLine(command) == Reverse(Bits(command, 13))
VgaLine(command) == Bits(command, 8)

\* PE44820: D0 first, then OPT, then the address from A0.
PhaseRead(line) ==
    [control |-> ValueOf(SubSeq(line, 1, 8)) + 256 * line[9],
     unit |-> ValueOf(SubSeq(line, 10, 13))]

\* F0480: the attenuation stands above two unused bits.
VgaRead(line) == ValueOf(SubSeq(line, 3, 8))

\* For every attenuation and every phase state, a word is no wider than its
\* transfer and the device reads from it what was asked for.
EncodingsAgree ==
    /\ \A db \in 0..MaxDb :
         VgaCommand(db) < 256 /\ VgaRead(VgaLine(VgaCommand(db))) = db
    /\ \A s \in PhaseStates :
         LET command == PhaseCommand(ControlWord(s), UnitAddress)
         IN  /\ command < 8192
             /\ PhaseRead(PhaseLine(command))
                  = [control |-> ControlWord(s), unit |-> UnitAddress]
=============================================================================
