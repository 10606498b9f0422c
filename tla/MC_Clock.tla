------------------------------ MODULE MC_Clock ------------------------------
(* Readings for Clock: nanoseconds at 0, 1, the half second and the last   *)
(* nanosecond of a second, so that every borrow and carry case occurs,     *)
(* including sums of exactly one second.                                   *)
EXTENDS Clock

MCNanoSecs == {0, 1, 499999999, 500000000, 500000001, 999999999}
=============================================================================
