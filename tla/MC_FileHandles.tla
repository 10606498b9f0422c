--------------------------- MODULE MC_FileHandles ---------------------------
(* Instantiates FileHandles for TLC: two worker threads and two descriptor *)
(* numbers, so that a number is freed by one Release and reused by the    *)
(* next Open while records of the old file are still unwritten.           *)
EXTENDS FileHandles

CONSTANTS t1, t2

MCThreads == {t1, t2}
MCFds == {3, 4}
=============================================================================
