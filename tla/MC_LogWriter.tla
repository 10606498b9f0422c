---------------------------- MODULE MC_LogWriter ----------------------------
(* Instantiates LogWriter for TLC: two workers, records of three pieces, so *)
(* that a record can be written in one, two or three calls.                *)
EXTENDS LogWriter, TLC

CONSTANTS w1, w2

MCThreads == {w1, w2}
Symmetry == Permutations(MCThreads)
=============================================================================
