------------------------------ MODULE PollMux ------------------------------
(***************************************************************************)
(* The poll multiplexer: the thread FileSystem::setupPollPipe starts       *)
(* (src/fuse/src/FileSystem.cpp), the Poll handler that registers a       *)
(* notification handle with it through the pipe (src/fuse/src/file.cpp),  *)
(* and the shutdown message Destroy sends (killPollThread).                *)
(*                                                                         *)
(* The thread owns two vectors: phs, the notification handles, and fds,   *)
(* the pollfds with the pipe's read end at index 0 and the descriptor of  *)
(* phs[i] at index i + 1.  fds is modelled as a std::vector is laid out:   *)
(* a buffer and a size; resize below the size leaves the buffer alone, so *)
(* an index past the size still reads what was stored there, and an index *)
(* past the buffer is undefined.  A registered descriptor is named by its *)
(* handle.  The pipe carries whole messages: a PollMessage is smaller than *)
(* PIPE_BUF, so each write is atomic.                                      *)
(*                                                                         *)
(* Everything the thread does after poll() returns, up to the next poll(), *)
(* touches only its own vectors, the pipe's read end and the handles, so it *)
(* is one step (Serve).                                                    *)
(***************************************************************************)
EXTENDS Integers, Sequences, FiniteSets

CONSTANTS
    Handles,   \* the fuse_pollhandle objects the library hands to Poll
    NoHandle,  \* pm.ph == nullptr: the shutdown message
    Pipe,      \* the pipe's read end, fds[0]
    Stdin,     \* descriptor 0: what resize() writes into new pollfds
    PipeCap    \* messages the pipe holds before write() blocks

ASSUME NoHandle \notin Handles /\ {Pipe, Stdin} \cap Handles = {} /\ PipeCap \in Nat \ {0}

Fds == Handles \cup {Pipe, Stdin}

\* A pollfd: the descriptor, whether poll() set revents, and whether they
\* hold POLLIN.
Entry == [fd : Fds, rev : BOOLEAN, in : BOOLEAN]

Message == [h : Handles \cup {NoHandle}, notify : BOOLEAN]

VARIABLES
    pipe,         \* the messages written to the pipe and not yet read
    writerClosed, \* Destroy has closed the pipe's write end
    used,         \* the handles Poll requests have been given
    ready,        \* the registered descriptors that have an event pending
    pt,           \* the poll thread: "poll", "serve", "exited", "crashed", "ub"
    res,          \* the count poll() returned, as Serve decrements it
    phs,          \* std::vector<fuse_pollhandle*>
    fds,          \* std::vector<pollfd>: [buf, size]
    notified,     \* [Handles -> Nat]: fuse_lowlevel_notify_poll calls per handle
    destroyed,    \* [Handles -> Nat]: fuse_pollhandle_destroy calls per handle
    closed        \* the descriptors the thread has closed

vars == <<pipe, writerClosed, used, ready, pt, res, phs, fds, notified, destroyed, closed>>

-----------------------------------------------------------------------------
(* std::vector<pollfd> operations, indices from 0 as in the code.          *)
InCap(v, i) == i >= 0 /\ i < Len(v.buf)

At(v, i) == v.buf[i + 1]

PushBack(v, e) ==
    [buf |-> IF v.size < Len(v.buf) THEN [v.buf EXCEPT ![v.size + 1] = e]
                                    ELSE Append(v.buf, e),
     size |-> v.size + 1]

\* resize(n): shrinking keeps the buffer; growing value-initialises the new
\* pollfds (descriptor 0, no events).
Resize(v, n) ==
    IF n <= v.size THEN [v EXCEPT !.size = n]
    ELSE [buf |-> [j \in 1..(IF n > Len(v.buf) THEN n ELSE Len(v.buf)) |->
                     IF j > v.size /\ j <= n THEN [fd |-> Stdin, rev |-> FALSE, in |-> FALSE]
                                             ELSE v.buf[j]],
          size |-> n]

SwapAt(v, i, j) ==
    [v EXCEPT !.buf = [@ EXCEPT ![i + 1] = v.buf[j + 1], ![j + 1] = v.buf[i + 1]]]

\* The descriptors of the first size pollfds.
Polled(v) == {At(v, i).fd : i \in 0..(v.size - 1)}

\* Mutation: the handle is removed with pop_back instead of swap-and-pop.
PopBack(s, i) == SubSeq(s, 1, Len(s) - 1)

\* std::swap(phs[cur], phs.back()); phs.resize(phs.size() - 1).
SwapRemove(s, i) == SubSeq([s EXCEPT ![i + 1] = s[Len(s)], ![Len(s)] = s[i + 1]], 1, Len(s) - 1)

-----------------------------------------------------------------------------
(* The scan after poll(): for cur < phs.size() while res != 0, a pollfd    *)
(* fds[cur + 1] with revents gets its handle notified and destroyed, its   *)
(* descriptor closed, and is swap-removed from both vectors; but fds is    *)
(* resized to phs.size() - 1 after phs has already shrunk.  With phs empty *)
(* that is SIZE_MAX: std::length_error, and the uncaught exception aborts  *)
(* the process.  s carries the vectors and the calls made, out the result. *)
RECURSIVE Scan(_)
Scan(s) ==
    IF s.out # "ok" \/ s.cur >= Len(s.phs) \/ s.res = 0 THEN s
    ELSE IF ~InCap(s.fds, s.cur + 1) THEN [s EXCEPT !.out = "ub"]
    ELSE IF ~At(s.fds, s.cur + 1).rev THEN Scan([s EXCEPT !.cur = @ + 1])
    ELSE LET h == s.phs[s.cur + 1]
             e == At(s.fds, s.cur + 1)
             done == [s EXCEPT !.notes = @ \cup {h}, !.dests = @ \cup {h},
                               !.closes = @ \cup {e.fd}]
             p == SwapRemove(s.phs, s.cur)
         IN IF s.fds.size = 0 THEN [done EXCEPT !.out = "ub"]   \* fds.back() of an empty vector
            ELSE LET f == SwapAt(s.fds, s.cur + 1, s.fds.size - 1) IN
                 IF Len(p) = 0 THEN [done EXCEPT !.out = "crashed"]
                 ELSE Scan([done EXCEPT !.phs = p, !.fds = Resize(f, Len(p) - 1),
                                        !.res = @ - 1])

\* Teardown on a shutdown message or a failed read of the pipe: notify
\* (when asked) and destroy every handle, close every pollfd's descriptor.
Teardown(notify) ==
    LET hs == {phs[i] : i \in 1..Len(phs)} IN
    /\ notified' = [h \in Handles |-> notified[h] + IF notify /\ h \in hs THEN 1 ELSE 0]
    /\ destroyed' = [h \in Handles |-> destroyed[h] + IF h \in hs THEN 1 ELSE 0]
    /\ closed' = closed \cup Polled(fds)
    /\ pt' = "exited"

\* Mutation: the `pm.ph == nullptr` test is missing.
IsKillNever(m) == FALSE

IsKill(m) == m.h = NoHandle

-----------------------------------------------------------------------------
Init ==
    /\ pipe = <<>>
    /\ writerClosed = FALSE
    /\ used = {}
    /\ ready = {}
    /\ pt = "poll"
    /\ res = 0
    /\ phs = <<>>
    /\ fds = [buf |-> <<[fd |-> Pipe, rev |-> FALSE, in |-> FALSE]>>, size |-> 1]
    /\ notified = [h \in Handles |-> 0]
    /\ destroyed = [h \in Handles |-> 0]
    /\ closed = {}

(* Poll(req, ino, fi, ph): poll(&pfd, 1, 0) on fi->fh; if it fails the    *)
(* error is replied and ph destroyed; otherwise revents is replied and     *)
(* Fs.poll writes (ph, pfd) to the pipe, blocking while the pipe is full.  *)
Poll(h) ==
    /\ h \notin used /\ ~writerClosed
    /\ used' = used \cup {h}
    /\ \/ /\ destroyed' = [destroyed EXCEPT ![h] = @ + 1]
          /\ UNCHANGED pipe
       \/ /\ Len(pipe) < PipeCap
          /\ pipe' = Append(pipe, [h |-> h, notify |-> FALSE])
          /\ UNCHANGED destroyed
    /\ UNCHANGED <<writerClosed, ready, pt, res, phs, fds, notified, closed>>

(* The file behind a registered handle gets an event.                      *)
Event(h) ==
    /\ h \in used /\ h \notin ready
    /\ ready' = ready \cup {h}
    /\ UNCHANGED <<pipe, writerClosed, used, pt, res, phs, fds, notified, destroyed, closed>>

(* Destroy: killPollThread(false) writes (nullptr, fd -1), then           *)
(* close(pollpipeFd).                                                      *)
Destroy ==
    /\ ~writerClosed
    /\ Len(pipe) < PipeCap
    /\ pipe' = Append(pipe, [h |-> NoHandle, notify |-> FALSE])
    /\ writerClosed' = TRUE
    /\ UNCHANGED <<used, ready, pt, res, phs, fds, notified, destroyed, closed>>

\* poll() sets revents: a closed descriptor reports POLLNVAL, the pipe
\* POLLIN with a message and POLLHUP once its write end is closed, a
\* handle's descriptor its file's events.
Revents(e) ==
    \/ e.fd \in closed
    \/ e.fd = Pipe /\ (pipe # <<>> \/ writerClosed)
    \/ e.fd \in ready

PollIn(e) ==
    /\ e.fd \notin closed
    /\ \/ e.fd = Pipe /\ pipe # <<>>
       \/ e.fd \in ready

(* poll(fds.data(), fds.size(), -1) returns the number of pollfds with     *)
(* revents; it blocks while there are none.                                *)
PollReturns ==
    LET v == [fds EXCEPT !.buf = [j \in 1..Len(fds.buf) |->
                IF j <= fds.size THEN [fds.buf[j] EXCEPT !.rev = Revents(fds.buf[j]), !.in = PollIn(fds.buf[j])]
                                 ELSE fds.buf[j]]]
        n == Cardinality({i \in 0..(fds.size - 1) : At(v, i).rev})
    IN
    /\ pt = "poll"
    /\ n > 0
    /\ fds' = v
    /\ res' = n
    /\ pt' = "serve"
    /\ UNCHANGED <<pipe, writerClosed, used, ready, phs, notified, destroyed, closed>>

(* poll() fails with an error other than EINTR (ENOMEM) while a handle is *)
(* registered: the last pollfd is closed, its handle notified, destroyed   *)
(* and popped.                                                             *)
PollFails ==
    /\ pt = "poll"
    /\ fds.size > 1 /\ phs # <<>>
    /\ LET h == phs[Len(phs)] IN
       /\ closed' = closed \cup {At(fds, fds.size - 1).fd}
       /\ notified' = [notified EXCEPT ![h] = @ + 1]
       /\ destroyed' = [destroyed EXCEPT ![h] = @ + 1]
       /\ phs' = SubSeq(phs, 1, Len(phs) - 1)
       /\ fds' = [fds EXCEPT !.size = @ - 1]
    /\ UNCHANGED <<pipe, writerClosed, used, ready, pt, res>>

\* Apply the scan's calls and outcome.
AfterScan(s) ==
    /\ phs' = s.phs
    /\ fds' = s.fds
    /\ notified' = [h \in Handles |-> notified[h] + IF h \in s.notes THEN 1 ELSE 0]
    /\ destroyed' = [h \in Handles |-> destroyed[h] + IF h \in s.dests THEN 1 ELSE 0]
    /\ closed' = closed \cup s.closes
    /\ ready' = ready \ s.closes
    /\ pt' = IF s.out = "ok" THEN "poll" ELSE s.out
    /\ res' = 0

ScanFrom(p, v, n) ==
    Scan([phs |-> p, fds |-> v, cur |-> 0, res |-> n, notes |-> {}, dests |-> {},
          closes |-> {}, out |-> "ok"])

(* After poll(): if fds.front() has POLLIN, read one message from the     *)
(* pipe.  End of file tears everything down; a failed read returns -1,    *)
(* which the size_t res does not take for an error, so pm is used          *)
(* uninitialised.  A shutdown message tears down, a registration is pushed *)
(* onto both vectors with res--.  Then the scan.  read() blocks while the  *)
(* pipe is empty and its write end open.                                   *)
Serve ==
    /\ pt = "serve"
    /\ IF At(fds, 0).in
         THEN \/ /\ Pipe \in closed
                 /\ pt' = "ub"
                 /\ UNCHANGED <<pipe, ready, phs, fds, res, notified, destroyed, closed>>
              \/ /\ Pipe \notin closed /\ pipe = <<>> /\ writerClosed
                 /\ Teardown(FALSE)
                 /\ UNCHANGED <<pipe, ready, phs, fds, res>>
              \/ /\ Pipe \notin closed /\ pipe # <<>>
                 /\ pipe' = Tail(pipe)
                 /\ LET m == Head(pipe) IN
                    IF IsKill(m)
                      THEN /\ Teardown(m.notify)
                           /\ UNCHANGED <<ready, phs, fds, res>>
                      ELSE AfterScan(ScanFrom(Append(phs, m.h),
                                              PushBack(fds, [fd |-> m.h, rev |-> FALSE, in |-> FALSE]),
                                              res - 1))
         ELSE /\ AfterScan(ScanFrom(phs, fds, res))
              /\ UNCHANGED pipe
    /\ UNCHANGED <<writerClosed, used>>

Next ==
    \/ \E h \in Handles : Poll(h) \/ Event(h)
    \/ Destroy
    \/ PollReturns \/ PollFails \/ Serve

Spec == Init /\ [][Next]_vars

-----------------------------------------------------------------------------
TypeOK ==
    /\ pipe \in Seq(Message) /\ Len(pipe) <= PipeCap
    /\ writerClosed \in BOOLEAN
    /\ used \subseteq Handles /\ ready \subseteq Handles
    /\ pt \in {"poll", "serve", "exited", "crashed", "ub"}
    /\ res \in Nat
    /\ phs \in Seq(Handles)
    /\ fds.buf \in Seq(Entry) /\ fds.size \in 0..Len(fds.buf)
    /\ notified \in [Handles -> Nat] /\ destroyed \in [Handles -> Nat]
    /\ closed \subseteq Fds

(* Every notification handle is destroyed at most once, and notified at    *)
(* most once and never after it was destroyed.  It is about the           *)
(* swap-and-pop removal in the scan, the teardown paths and the error      *)
(* path of poll(), each of which notifies and destroys handles.            *)
HandlesReleasedOnce ==
    \A h \in Handles : destroyed[h] <= 1 /\ notified[h] <= destroyed[h]

(* The poll thread never ends the process: no exception escapes it.  It   *)
(* is about fds.resize(phs.size() - 1) when the last handle is removed.    *)
NoAbort == pt # "crashed"

(* While the thread waits in poll(), it polls the pipe and exactly the     *)
(* descriptors of the handles it holds: fds[0] is the pipe and fds[i + 1]  *)
(* is phs[i]'s.  Otherwise a registration or the shutdown message is       *)
(* never read.  It is about the resize after a handle is removed.         *)
PollSetMatchesHandles ==
    pt = "poll" =>
        /\ fds.size = Len(phs) + 1
        /\ At(fds, 0).fd = Pipe
        /\ \A i \in 1..Len(phs) : At(fds, i).fd = phs[i]
=============================================================================
