------------------------------ MODULE PollFiles ------------------------------
(***************************************************************************)
(* The poll thread (PollMux) composed with the open files it is handed.   *)
(* Poll (src/fuse/src/file.cpp) registers the pollfd of fi->fh, the open   *)
(* file's own descriptor, and the thread closes a registered descriptor    *)
(* when its event arrives (src/fuse/src/FileSystem.cpp).  Open, Read,      *)
(* Write and Release (file.cpp) use fi->fh by number, and the kernel gives *)
(* the lowest free number to the next openat.                              *)
(*                                                                         *)
(* Each PollMux step runs with the closes it makes applied to the          *)
(* process's descriptor table; the file handlers' steps leave the poll     *)
(* thread alone.  Nothing runs after the thread has aborted the process.   *)
(***************************************************************************)
EXTENDS Integers, FiniteSets

CONSTANTS
    Handles, NoHandle, Pipe, Stdin, PipeCap,  \* as in PollMux
    Kfh,      \* the open-file slots of the kernel (struct file)
    Files,    \* the backing files
    FdNums,   \* the descriptor numbers openat may return, in order
    Free      \* a free descriptor number

ASSUME Free \notin Files /\ FdNums \subseteq Nat

VARIABLES
    pipe, writerClosed, used, ready, pt, res, phs, fds, notified, destroyed, closed,
    fdtab,    \* [FdNums -> Files \cup {Free}]: what each descriptor number refers to
    open,     \* [Kfh -> [fd, file]] on the opened slots: fi->fh and the file opened
    fdOf,     \* [Handles -> FdNums \cup {Free}]: the pfd.fd each Poll registered
    io        \* the last Read, Write or Release: [file it is for, file it reached]

pmVars == <<pipe, writerClosed, used, ready, pt, res, phs, fds, notified, destroyed, closed>>

vars == <<pmVars, fdtab, open, fdOf, io>>

PM == INSTANCE PollMux

NoIO == [for |-> Free, reached |-> Free]

Init ==
    /\ PM!Init
    /\ fdtab = [n \in FdNums |-> Free]
    /\ open = <<>>
    /\ fdOf = [h \in Handles |-> Free]
    /\ io = NoIO

\* The process is alive: no exception has escaped the poll thread.
Alive == pt # "crashed"

\* close(n): the number is free again, whichever file it referred to.
CloseAll(tab, ns) == [n \in FdNums |-> IF n \in ns THEN Free ELSE tab[n]]

(* A step of the poll thread or of Poll/Destroy, with the descriptors of   *)
(* the handles it closes closed in the process.                            *)
PollStep ==
    /\ PM!Next
    /\ fdtab' = CloseAll(fdtab, {fdOf[h] : h \in (closed' \ closed) \cap Handles} \ {Free})
    /\ UNCHANGED <<open, io>>

(* Poll(req, ino, fi, ph) on the open slot k: pfd.fd = fi->fh.             *)
PollFile(k, h) ==
    /\ PM!Poll(h)
    /\ fdOf' = [fdOf EXCEPT ![h] = open[k].fd]
    /\ UNCHANGED <<fdtab, open, io>>

(* Open: openat returns the lowest free number, which becomes fi->fh.     *)
Open(k, f) ==
    /\ k \notin DOMAIN open
    /\ \E n \in FdNums :
         /\ fdtab[n] = Free /\ \A m \in FdNums : m < n => fdtab[m] # Free
         /\ fdtab' = [fdtab EXCEPT ![n] = f]
         /\ open' = [x \in DOMAIN open \cup {k} |-> IF x = k THEN [fd |-> n, file |-> f] ELSE open[x]]
    /\ UNCHANGED <<pmVars, fdOf, io>>

(* Read / Write: pread / pwrite on fi->fh.                                 *)
ReadWrite(k) ==
    /\ k \in DOMAIN open
    /\ io' = [for |-> open[k].file, reached |-> fdtab[open[k].fd]]
    /\ UNCHANGED <<pmVars, fdtab, open, fdOf>>

(* Release: close(fi->fh); the kernel frees the slot.                     *)
Release(k) ==
    /\ k \in DOMAIN open
    /\ io' = [for |-> open[k].file, reached |-> fdtab[open[k].fd]]
    /\ fdtab' = CloseAll(fdtab, {open[k].fd})
    /\ open' = [x \in DOMAIN open \ {k} |-> open[x]]
    /\ UNCHANGED <<pmVars, fdOf>>

Next ==
    /\ Alive
    /\ \/ PollStep /\ UNCHANGED fdOf
       \/ \E k \in DOMAIN open, h \in Handles : PollFile(k, h)
       \/ \E k \in Kfh, f \in Files : Open(k, f)
       \/ \E k \in Kfh : ReadWrite(k) \/ Release(k)

Spec == Init /\ [][Next]_vars

-----------------------------------------------------------------------------
(* A Read, Write or Release through an open file reaches that file or, at  *)
(* worst, a closed number: never another file's descriptor.  It is about   *)
(* the poll thread closing fi->fh, a descriptor Release closes again and   *)
(* openat hands to the next file.                                          *)
NoCrossFileIO == io.reached \in {io.for, Free}
====
