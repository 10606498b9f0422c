---------------------------- MODULE MC_PollFiles ----------------------------
(* Instantiates PollFiles for TLC: two notification handles (with one the  *)
(* thread aborts on its first removal), two open-file slots, two files     *)
(* and the descriptor numbers 3 and 4, so that a closed number is reused.  *)
EXTENDS PollFiles

CONSTANTS h1, h2, k1, k2, f1, f2

MCHandles == {h1, h2}

MCKfh == {k1, k2}

MCFiles == {f1, f2}
=============================================================================
