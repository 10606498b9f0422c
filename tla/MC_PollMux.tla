----------------------------- MODULE MC_PollMux -----------------------------
(* Instantiates PollMux for TLC: three notification handles, so that the  *)
(* thread holds one, two and three at once, and a pipe of two messages.   *)
EXTENDS PollMux

CONSTANTS h1, h2, h3

MCHandles == {h1, h2, h3}
=============================================================================
