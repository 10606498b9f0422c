------------------------------ MODULE LogWriter ------------------------------
(***************************************************************************)
(* FileSystem::writeLog (src/fuse/src/FileSystem.cpp): every worker thread *)
(* writes its record to logFd (standard output) with a loop of write()     *)
(* calls, without a lock, and reports on standard error when the record    *)
(* could not be written or needed more than one write.                     *)
(*                                                                         *)
(* A record is Chunks pieces; write() moves a prefix of what is left.  A   *)
(* pipe or terminal takes a record (less than PIPE_BUF) whole; a regular   *)
(* file may take part of it when the disk or the file size limit is       *)
(* reached, and write() fails (-1) when nothing more fits.  The log is the *)
(* sequence of pieces, tagged with their record, in the order they landed. *)
(***************************************************************************)
EXTENDS Integers, Sequences

CONSTANTS
    Threads,     \* the worker threads
    Chunks,      \* the pieces of a record (SizeEntry bytes)
    MaxRecords   \* bound on the records written

ASSUME Chunks \in Nat \ {0} /\ MaxRecords \in Nat

Records == 1..MaxRecords

VARIABLES
    th,      \* [Threads -> [pc, rec, written, tries]]: a writeLog call in progress
    out,     \* the log: [rec, idx] pieces in the order write() placed them
    warned,  \* the records whose writeLog wrote a message to standard error
    nrec     \* the records begun

vars == <<th, out, warned, nrec>>

Idle == [pc |-> "idle", rec |-> 0, written |-> 0, tries |-> 0]

Init ==
    /\ th = [t \in Threads |-> Idle]
    /\ out = <<>>
    /\ warned = {}
    /\ nrec = 0

-----------------------------------------------------------------------------
(* A handler calls writeLog with its record: written = 0, tries = 0.       *)
Begin(t) ==
    /\ th[t].pc = "idle"
    /\ nrec < MaxRecords
    /\ nrec' = nrec + 1
    /\ th' = [th EXCEPT ![t] = [pc |-> "write", rec |-> nrec + 1, written |-> 0, tries |-> 0]]
    /\ UNCHANGED <<out, warned>>

\* Mutation: `tries > 2`, a retry not reported.
WarnedAfterThird(w, tries) == w # Chunks \/ tries > 2

\* After the loop: "Writing log output failed." when the record is not all
\* written, else the corruption warning when it took more than one write.
Warned(w, tries) == w # Chunks \/ tries > 1

\* The end of writeLog: the message, if any, and the call returns.
Finish(t, w, tries) ==
    /\ warned' = IF Warned(w, tries) THEN warned \cup {th[t].rec} ELSE warned
    /\ th' = [th EXCEPT ![t] = Idle]

\* The pieces from + 1 .. from + n of thread t's record.
Pieces(t, from, n) == [k \in 1..n |-> [rec |-> th[t].rec, idx |-> from + k]]

\* Mutation: the `if (res == -1) break;` is missing.
AdvanceNoBreak(t, res) ==
    LET w == th[t].written + res IN
    /\ out' = out \o Pieces(t, th[t].written, res)
    /\ IF w = Chunks THEN Finish(t, w, th[t].tries + 1)
       ELSE /\ th' = [th EXCEPT ![t].written = w, ![t].tries = @ + 1]
            /\ UNCHANGED warned

(* One pass of the loop for write()'s result res: -1 leaves the loop,     *)
(* otherwise written += res and the loop goes on until all is written.     *)
Advance(t, res) ==
    IF res = -1
      THEN /\ Finish(t, th[t].written, th[t].tries + 1)
           /\ UNCHANGED out
      ELSE LET w == th[t].written + res IN
           /\ out' = out \o Pieces(t, th[t].written, res)
           /\ IF w = Chunks THEN Finish(t, w, th[t].tries + 1)
              ELSE /\ th' = [th EXCEPT ![t].written = w, ![t].tries = @ + 1]
                   /\ UNCHANGED warned

(* write(logFd, data + written, size - written).                           *)
Write(t) ==
    /\ th[t].pc = "write"
    /\ \E res \in {-1} \cup 1..(Chunks - th[t].written) : Advance(t, res)
    /\ UNCHANGED nrec

Next == \E t \in Threads : Begin(t) \/ Write(t)

Spec == Init /\ [][Next]_vars

-----------------------------------------------------------------------------
TypeOK ==
    /\ \A t \in Threads :
         /\ th[t].pc \in {"idle", "write"}
         /\ th[t].rec \in 0..MaxRecords
         /\ th[t].written \in 0..Chunks
         /\ th[t].tries \in Nat
    /\ out \in Seq([rec : Records, idx : 1..Chunks])
    /\ warned \subseteq Records
    /\ nrec \in 0..MaxRecords

\* The log splits into whole records: the pieces 1..Chunks of one record,
\* one record after another.
WholeRecords(s) ==
    /\ Len(s) % Chunks = 0
    /\ \A k \in 0..(Len(s) \div Chunks - 1) : \A j \in 1..Chunks :
         /\ s[k * Chunks + j].idx = j
         /\ s[k * Chunks + j].rec = s[k * Chunks + 1].rec

(* When no writeLog is in progress and none has written a message to      *)
(* standard error, the log is a sequence of whole records.  It is about    *)
(* the unlocked loop of write() calls and the two messages after it, for   *)
(* every order in which the workers' writes land.                          *)
LogWholeUnlessWarned ==
    (\A t \in Threads : th[t].pc = "idle") /\ warned = {} => WholeRecords(out)
=============================================================================
