------------------------------ MODULE MC_Xattr ------------------------------
(* Inputs for Xattr: lengths and sizes around each other, so that a value  *)
(* fits, fits exactly and does not fit, and size 0.                        *)
EXTENDS Xattr
=============================================================================
