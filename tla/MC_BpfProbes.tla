---------------------------- MODULE MC_BpfProbes ----------------------------
(* Instantiates BpfProbes for TLC: two threads, two inode numbers (one     *)
(* reused by a new inode), two struct file addresses (one freed and        *)
(* reused).                                                                *)
EXTENDS BpfProbes

CONSTANTS t1, t2, f1, f2

MCThreads == {t1, t2}

MCFiles == {f1, f2}
=============================================================================
