---------------------------- MODULE FileHandles ----------------------------
(***************************************************************************)
(* The logical file handles of the access log (LogEntry::Fhs and          *)
(* LogEntry::CurFh in src/fuse/src/LogEntry.cpp) and the handlers that     *)
(* register, look up and log them: Open, Read, Write and Release in        *)
(* src/fuse/src/file.cpp.                                                  *)
(*                                                                         *)
(* The kernel's file handle (fi->fh) is the number of the descriptor Open  *)
(* got from openat, and the process hands out the lowest free number, so a *)
(* number is reused as soon as Release has closed it.  Fhs maps a number   *)
(* to the logical handle the log uses for it.  Each kernel file is given   *)
(* a ghost identity, the number of the request that opened it, which the   *)
(* records carry beside their logical handle so that properties can tell   *)
(* which file a record is really about.                                    *)
(*                                                                         *)
(* A step of a handler runs from one point where another thread or the     *)
(* kernel can observe its effect to the next: Open's openat, end() and     *)
(* reply form one step, because nobody can use the new descriptor before   *)
(* the reply; writeLog is a step of its own, after the reply.              *)
(***************************************************************************)
EXTENDS Integers, Sequences, FiniteSetsExt, TLC

CONSTANTS
    Threads,     \* the worker threads of fuse_session_loop_mt
    Fds,         \* the descriptor numbers open() may return
    MaxRequests  \* bound on the requests the kernel sends

ASSUME Fds \subseteq Nat /\ Fds # {} /\ MaxRequests \in Nat

\* The filehandle field of a record: -1 when not applicable (an open that
\* failed), -2 when start() found no Fhs entry (LogEntry::unknownFh).
NoFh == -1
UnknownFh == -2

\* Ghost identities of kernel files: the number of the request that opened
\* the file; NoFile where the kernel holds no file.
Files == 1..MaxRequests
NoFile == 0

VARIABLES
    fdUsed,   \* the descriptor numbers the handles hold open
    Fhs,      \* LogEntry::Fhs: descriptor number -> logical handle
    CurFh,    \* LogEntry::CurFh: the next logical handle
    kfile,    \* [Fds -> Files \cup {NoFile}]: the kernel file whose fh is the number
    released, \* ghost: the files the kernel has sent Release for
    th,       \* [Threads -> ThreadState]: each worker's request in progress
    log,      \* the records, in the order writeLog wrote them
    requests  \* the number of requests the kernel has sent

vars == <<fdUsed, Fhs, CurFh, kfile, released, th, log, requests>>

Events == {"O", "R", "W", "C"}

Record == [ev : Events, fh : Int, file : Files]

ThreadState == [pc : {"idle", "log", "rl_log"}, ev : Events,
                fh : Int, file : Files \cup {NoFile}]

IdleThread == [pc |-> "idle", ev |-> "O", fh |-> NoFh, file |-> NoFile]

Idle(t) ==
    /\ th[t].pc = "idle"
    /\ requests < MaxRequests
    /\ requests' = requests + 1

Init ==
    /\ fdUsed = {}
    /\ Fhs = [f \in {} |-> 0]
    /\ CurFh = 0
    /\ kfile = [f \in Fds |-> NoFile]
    /\ released = {}
    /\ th = [t \in Threads |-> IdleThread]
    /\ log = <<>>
    /\ requests = 0

-----------------------------------------------------------------------------
\* LogEntry::start for a kernel fh: the logical handle Fhs has for it.
LookupFh(f) == IF f \in DOMAIN Fhs THEN Fhs[f] ELSE UnknownFh

\* Mutation: std::unordered_map::emplace, which keeps an existing entry.
RegisterIfAbsent(f, h) == Fhs @@ (f :> h)

\* end() of an open that succeeded: Fhs[res] = filehandle, overwriting the
\* entry a closed descriptor with the same number left behind.
Register(f, h) == (f :> h) @@ Fhs

\* A failing openat: res = -errno (EACCES, ENOENT, EMFILE).
OpenError == -13

\* Mutation: end() registers a handle whatever openat returned.
EndAnyResult(t, res) ==
    /\ Fhs' = Register(res, CurFh)
    /\ CurFh' = CurFh + 1
    /\ th' = [th EXCEPT ![t] = [pc |-> "log", ev |-> "O", fh |-> CurFh, file |-> requests']]

(* LogEntry::end for an open: on success (res >= 0) the logical handle is *)
(* CurFh++ and Fhs[res] registers it; otherwise the record keeps the error *)
(* and filehandle -1.                                                      *)
End(t, res) ==
    IF res >= 0
      THEN /\ Fhs' = Register(res, CurFh)
           /\ CurFh' = CurFh + 1
           /\ th' = [th EXCEPT ![t] = [pc |-> "log", ev |-> "O", fh |-> CurFh,
                                       file |-> requests']]
      ELSE /\ th' = [th EXCEPT ![t] = [pc |-> "log", ev |-> "O", fh |-> NoFh,
                                       file |-> requests']]
           /\ UNCHANGED <<Fhs, CurFh>>

(* Open: GetOpen, openat(ProcFd, ...), end(res) and the reply.  openat    *)
(* returns the lowest free number, or fails (when every number is taken   *)
(* it must).  The reply hands the number to the kernel as fi->fh.          *)
Open(t) ==
    /\ Idle(t)
    /\ \E res \in IF fdUsed # Fds THEN {Min(Fds \ fdUsed), OpenError} ELSE {OpenError} :
         /\ fdUsed' = IF res >= 0 THEN fdUsed \cup {res} ELSE fdUsed
         /\ kfile' = IF res >= 0 THEN [kfile EXCEPT ![res] = requests'] ELSE kfile
         /\ End(t, res)
    /\ UNCHANGED <<released, log>>

(* Read and Write on the kernel's fh f: GetRead/GetWrite look the logical  *)
(* handle up in Fhs, then the data moves (fuse_reply_data, pwrite) and the *)
(* request is replied to; the record is written after the reply.           *)
ReadWrite(t, f, ev) ==
    /\ Idle(t)
    /\ kfile[f] # NoFile
    /\ th' = [th EXCEPT ![t] = [pc |-> "log", ev |-> ev, fh |-> LookupFh(f),
                                file |-> kfile[f]]]
    /\ UNCHANGED <<fdUsed, Fhs, CurFh, kfile, released, log>>

Read(t, f) == ReadWrite(t, f, "R")

Write(t, f) == ReadWrite(t, f, "W")

(* The kernel releases fh f once no request on the file is unanswered.    *)
(* Release: GetClose looks the logical handle up, close(fh) frees the      *)
(* number, end() and the reply follow.  The Fhs entry stays.               *)
Release(t, f) ==
    /\ Idle(t)
    /\ kfile[f] # NoFile
    /\ kfile' = [kfile EXCEPT ![f] = NoFile]
    /\ released' = released \cup {kfile[f]}
    /\ fdUsed' = fdUsed \ {f}
    /\ th' = [th EXCEPT ![t] = [pc |-> "rl_log", ev |-> "C", fh |-> LookupFh(f),
                                file |-> kfile[f]]]
    /\ UNCHANGED <<Fhs, CurFh, log>>

\* The record of thread t's request, as getBuf formats it.
RecordOf(t) == [ev |-> th[t].ev, fh |-> th[t].fh, file |-> th[t].file]

(* writeLog after the reply of Open, Read and Write.                       *)
WriteRecord(t) ==
    /\ th[t].pc = "log"
    /\ log' = Append(log, RecordOf(t))
    /\ th' = [th EXCEPT ![t] = IdleThread]
    /\ UNCHANGED <<fdUsed, Fhs, CurFh, kfile, released, requests>>

\* Mutation: the condition `!log.unknownFh()` loses its negation.
LoggedIfUnknown(h) == h = UnknownFh

\* Release writes its record only for a handle start() found.
Logged(h) == h # UnknownFh

(* Release's writeLog, skipped when the handle was unknown.                *)
ReleaseRecord(t) ==
    /\ th[t].pc = "rl_log"
    /\ log' = IF Logged(th[t].fh) THEN Append(log, RecordOf(t)) ELSE log
    /\ th' = [th EXCEPT ![t] = IdleThread]
    /\ UNCHANGED <<fdUsed, Fhs, CurFh, kfile, released, requests>>

Next ==
    \E t \in Threads :
        \/ Open(t) \/ WriteRecord(t) \/ ReleaseRecord(t)
        \/ \E f \in Fds : Read(t, f) \/ Write(t, f) \/ Release(t, f)

\* A worker that has started a request runs it to its end: the steps after
\* the first are weakly fair.  The kernel is not obliged to send requests.
Fairness == \A t \in Threads : WF_vars(WriteRecord(t)) /\ WF_vars(ReleaseRecord(t))

Spec == Init /\ [][Next]_vars /\ Fairness

-----------------------------------------------------------------------------
TypeOK ==
    /\ fdUsed \subseteq Fds
    /\ DOMAIN Fhs \subseteq Fds /\ \A f \in DOMAIN Fhs : Fhs[f] \in Nat
    /\ CurFh \in Nat
    /\ kfile \in [Fds -> Files \cup {NoFile}]
    /\ released \subseteq Files
    /\ th \in [Threads -> ThreadState]
    /\ log \in Seq(Record)
    /\ requests \in 0..MaxRequests

\* A record about a file the kernel holds: all but the record of an open
\* that failed.
AboutHandle(r) == r.ev # "O" \/ r.fh # NoFh

(* The logical handle identifies the file: two records about handles carry *)
(* the same filehandle exactly when they are about the same kernel file.   *)
(* It is about Fhs being keyed by descriptor numbers that close() frees    *)
(* and openat reuses, while Release looks its handle up, Open overwrites   *)
(* the stale entry, and the records are written after the replies.         *)
LogHandleIdentifiesFile ==
    \A i, j \in 1..Len(log) :
        AboutHandle(log[i]) /\ AboutHandle(log[j]) =>
            ((log[i].fh = log[j].fh) <=> (log[i].file = log[j].file))

\* The log holds a close record with the logical handle of file x's open.
CloseLogged(x) ==
    \E i, j \in 1..Len(log) :
        /\ log[i].ev = "O" /\ log[i].file = x /\ log[i].fh # NoFh
        /\ log[j].ev = "C" /\ log[j].file = x /\ log[j].fh = log[i].fh

(* Every file the kernel releases eventually has, in the log, a close      *)
(* record carrying the filehandle of its open record (spec 8.2).  It is    *)
(* about Release finding the handle in Fhs and writing its record after    *)
(* the reply, while Open's own record may still be unwritten.              *)
ReleasedFilesCloseLogged ==
    \A x \in Files : x \in released ~> CloseLogged(x)

\* Where a record's event comes in the life of a handle.
Rank(ev) == CASE ev = "O" -> 0 [] ev \in {"R", "W"} -> 1 [] ev = "C" -> 2

(* The records of one file appear in the log in the order of its events:  *)
(* the open first, the close last (spec 5: "events for one handle are      *)
(* emitted in program order").  It is about Open, Read and Write writing   *)
(* their records after they have replied to the kernel.                    *)
HandleRecordsInOrder ==
    \A i, j \in 1..Len(log) :
        i < j /\ log[i].file = log[j].file => Rank(log[i].ev) <= Rank(log[j].ev)
=============================================================================
