--------------------------- MODULE MC_ThreadBuffer ---------------------------
EXTENDS ThreadBuffer
====
