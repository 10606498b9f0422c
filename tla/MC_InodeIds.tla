----------------------------- MODULE MC_InodeIds -----------------------------
(* Instantiates InodeIds for TLC: one file present at mount and one made   *)
(* by Create, two addresses so that a freed one is reused while the other *)
(* is live or free.  Addresses are interchangeable: symmetry.              *)
EXTENDS InodeIds

CONSTANTS f1, f2, a1, a2

MCFiles == {f1, f2}
MCAddrs == {a1, a2}
MCInitFiles == {f1}
Symmetry == Permutations(MCAddrs)
=============================================================================
