---------------------------- MODULE MC_NodeTable ----------------------------
(* Instantiates NodeTable for TLC: two worker threads, two names in the    *)
(* root directory and three object numbers, so that a number can be freed *)
(* and handed out again while another object is still open; four          *)
(* descriptor numbers, so that a freed descriptor number is handed out     *)
(* again and the table can also run out of numbers (EMFILE).               *)
EXTENDS NodeTable

CONSTANTS t1, t2, a, b, i1, i2, i3

MCThreads == {t1, t2}
MCNames == {a, b}
MCInodes == {i1, i2, i3}
MCFdNums == 3..6

\* Threads, names and object numbers are interchangeable model values;
\* descriptor numbers are not (openat takes the lowest).
Symmetry == Permutations(MCThreads) \cup Permutations(MCNames) \cup Permutations(MCInodes)
=============================================================================
