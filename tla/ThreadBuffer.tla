---------------------------- MODULE ThreadBuffer ----------------------------
(***************************************************************************)
(* The handlers that reply from a worker's thread_local Fs.Buffer          *)
(* (src/fuse/src/FileSystem.cpp:309): Readdir and Readdirplus              *)
(* (directory.cpp), Readlink (link.cpp), and the resize Getxattr and       *)
(* Listxattr make (node.cpp; their replies are modelled in Xattr).  The    *)
(* buffer keeps its size from one request of the worker to the next.       *)
(*                                                                         *)
(* The kernel lists the directory by Opendir, Readdir(plus) calls at the   *)
(* offset of the last entry it received until a reply is empty, and        *)
(* Releasedir.  A directory entry is its index in readdir order and its    *)
(* record length; "." and ".." are the first two.  An entry's d_off is     *)
(* its index, the position seekdir returns to.  Each Readdirplus entry     *)
(* takes a lookup reference in findChild and, when the kernel receives it, *)
(* gives the kernel one reference (kref).                                  *)
(***************************************************************************)
EXTENDS Integers, Sequences, FiniteSets

CONSTANTS
    NFiles,       \* the named entries of the directory
    EntrySizes,   \* record lengths fuse_add_direntry(_plus) may need
    ReqSizes,     \* the sizes the kernel asks Readdir(plus) for
    XattrSizes,   \* the sizes Getxattr / Listxattr are called with
    LinkLens,     \* lengths of symlink targets
    MaxCalls      \* bound on the requests

\* The kernel asks for a page; every entry is shorter than a page.
ASSUME \A e \in EntrySizes, r \in ReqSizes : 0 < e /\ e < r

\* The entries named "." and "..", and their record length.
Dots == {1, 2}

DotLen == 1

VARIABLES
    dir,     \* the directory in readdir order: record lengths
    buf,     \* Fs.Buffer.size() of the worker
    ls,      \* the kernel's listing: [mode, off, got, end]
    lookup,  \* [entry -> Nat]: lookup references findChild took
    kref,    \* [entry -> Nat]: references the kernel holds from readdirplus replies
    rl,      \* the last Readlink: [len, reply]
    calls    \* requests served

vars == <<dir, buf, ls, lookup, kref, rl, calls>>

Entries == 1..(NFiles + 2)

NoListing == [mode |-> "none", off |-> 0, got |-> <<>>, end |-> "open"]

Init ==
    /\ \E s \in [1..NFiles -> EntrySizes] : dir = <<DotLen, DotLen>> \o s
    /\ buf = 0
    /\ ls = NoListing
    /\ lookup = [e \in Entries |-> 0]
    /\ kref = [e \in Entries |-> 0]
    /\ rl = [len |-> 0, reply |-> 0]
    /\ calls = 0

-----------------------------------------------------------------------------
(* The readdir loop of Readdir and Readdirplus:                            *)
(*   for (cur = data; needed < size; cur += needed) { size -= needed;      *)
(*     entry = readdir(dir); NULL: break; "." / "..": needed = 0, continue;*)
(*     [plus: findChild, nullptr: break;] needed = fuse_add_direntry... }  *)
(* The record f is [pos, size, needed, cand, got, looked, err]: the        *)
(* stream position, the room left, the last entry's length and index, the *)
(* entries counted into the reply, the findChild lookups, errno set.       *)
(* fails are the entries whose findChild fails in this call.               *)
\* d_name is "." or "..".
IsDot(i) == i \in Dots

RECURSIVE Fill(_, _, _)
Fill(plus, fails, f) ==
    IF ~(f.needed < f.size) THEN f
    ELSE LET c == [f EXCEPT !.size = f.size - f.needed,
                            !.got = IF f.needed > 0 THEN Append(f.got, f.cand) ELSE f.got]
             i == c.pos + 1
         IN CASE c.pos >= Len(dir)   -> c
              [] IsDot(i)            -> Fill(plus, fails, [c EXCEPT !.pos = i, !.needed = 0])
              [] plus /\ i \in fails -> [c EXCEPT !.pos = i, !.err = TRUE]
              [] OTHER ->
                   Fill(plus, fails, [c EXCEPT !.pos = i, !.needed = dir[i], !.cand = i,
                                      !.looked = IF plus THEN c.looked \cup {i} ELSE {}])

\* Mutation: `seekdir(dir, off + 1)`, an off-by-one in the resume offset.
ReaddirLoopPastOff(plus, fails, off, size) ==
    Fill(plus, fails, [pos |-> off + 1, size |-> size, needed |-> 0, cand |-> 0,
                       got |-> <<>>, looked |-> {}, err |-> FALSE])

\* seekdir(dir, off), then the loop with size = the kernel's size.
ReaddirLoop(plus, fails, off, size) ==
    Fill(plus, fails, [pos |-> off, size |-> size, needed |-> 0, cand |-> 0,
                       got |-> <<>>, looked |-> {}, err |-> FALSE])

\* The reply: the error when errno is set and nothing was counted, else
\* the Buffer.size() - size bytes, which hold the entries of got.
IsErrorReply(f, size) == f.err /\ f.size = size

\* Mutation: findChild takes a reference only when it inserts the Node.
TakeLookupsNewOnly(f) ==
    [e \in Entries |-> lookup[e] + (IF e \in f.looked /\ lookup[e] = 0 THEN 1 ELSE 0)]

\* findChild's lookup++ (found or emplaced) for each entry it resolved.
TakeLookups(f) == [e \in Entries |-> lookup[e] + (IF e \in f.looked THEN 1 ELSE 0)]

(* Opendir: openat(".") and fdopendir; the kernel starts a listing.        *)
Opendir(plus) ==
    /\ ls.mode = "none" /\ calls < MaxCalls
    /\ ls' = [NoListing EXCEPT !.mode = IF plus THEN "plus" ELSE "plain"]
    /\ calls' = calls + 1
    /\ UNCHANGED <<dir, buf, lookup, kref, rl>>

(* Readdir / Readdirplus at the kernel's offset: Buffer.resize(size), the  *)
(* loop, the reply; the kernel appends the entries it received, moves its  *)
(* offset to the last one's d_off, takes a reference per readdirplus       *)
(* entry, and ends the listing on an empty or error reply.                 *)
Readdir ==
    /\ ls.mode # "none" /\ ls.end = "open" /\ calls < MaxCalls
    /\ \E size \in ReqSizes, fails \in SUBSET Entries :
         LET plus == ls.mode = "plus"
             f == ReaddirLoop(plus, IF plus THEN fails ELSE {}, ls.off, size)
         IN /\ ~plus => fails = {}
            /\ buf' = size
            /\ lookup' = TakeLookups(f)
            /\ IF IsErrorReply(f, size)
                 THEN /\ ls' = [ls EXCEPT !.end = "error"]
                      /\ UNCHANGED kref
                 ELSE /\ ls' = IF f.got = <<>> THEN [ls EXCEPT !.end = "eof"]
                               ELSE [ls EXCEPT !.got = @ \o f.got, !.off = f.got[Len(f.got)]]
                      /\ kref' = IF plus THEN [e \in Entries |-> kref[e] +
                                      Cardinality({k \in DOMAIN f.got : f.got[k] = e})]
                                 ELSE kref
    /\ calls' = calls + 1
    /\ UNCHANGED <<dir, rl>>

(* Releasedir: closedir.                                                   *)
Releasedir ==
    /\ ls.mode # "none"
    /\ ls' = NoListing
    /\ UNCHANGED <<dir, buf, lookup, kref, rl, calls>>
-----------------------------------------------------------------------------
\* readlinkat into a buffer of b bytes: the target, truncated to b.
ReadlinkAt(len, b) == IF len < b THEN len ELSE b

(* The retry loop: readlinkat; a result below the buffer's size is whole,  *)
(* else the buffer doubles.  [res, size].                                  *)
RECURSIVE Retry(_, _)
Retry(len, b) ==
    IF ReadlinkAt(len, b) < b THEN [res |-> ReadlinkAt(len, b), size |-> b]
    ELSE Retry(len, 2 * b)

\* Mutation: `res > Fs.Buffer.size()`, a target that fills the buffer taken as whole.
ReadlinkStrict(len, b) ==
    LET res == IF b = 0 THEN 0 ELSE ReadlinkAt(len, b) IN
    IF res > b THEN Retry(len, len + 1) ELSE [res |-> res, size |-> b]

(* Readlink's reads: none into an empty Buffer (res = 0), else readlinkat; *)
(* when res >= size, Buffer.resize(st_size + 1) from fstat and the loop.   *)
(* fstat of the Node's O_PATH descriptor does not fail.                    *)
ReadlinkRead(len, b) ==
    LET res == IF b = 0 THEN 0 ELSE ReadlinkAt(len, b) IN
    IF res >= b THEN Retry(len, len + 1) ELSE [res |-> res, size |-> b]

(* Readlink on a symlink whose target has length len: the reply is the     *)
(* buffer's first res bytes when res < size, else the error.  The Node's   *)
(* descriptor is the symlink itself, whose target does not change.         *)
Readlink(len) ==
    LET r == ReadlinkRead(len, buf) IN
    /\ calls < MaxCalls
    /\ buf' = r.size
    /\ rl' = [len |-> len, reply |-> IF r.res < r.size THEN r.res ELSE -1]
    /\ calls' = calls + 1
    /\ UNCHANGED <<dir, ls, lookup, kref>>

(* Getxattr / Listxattr: Fs.Buffer.resize(size) before the call.          *)
Getxattr(size) ==
    /\ calls < MaxCalls
    /\ buf' = size
    /\ calls' = calls + 1
    /\ UNCHANGED <<dir, ls, lookup, kref, rl>>

Next ==
    \/ \E plus \in BOOLEAN : Opendir(plus)
    \/ Readdir
    \/ Releasedir
    \/ \E len \in LinkLens : Readlink(len)
    \/ \E size \in XattrSizes : Getxattr(size)

Spec == Init /\ [][Next]_vars

-----------------------------------------------------------------------------
\* The named entries in readdir order: what a full listing returns.
Named == SelectSeq([i \in Entries |-> i], LAMBDA i : i \notin Dots)

Listing == INSTANCE DirListing WITH entries <- Named, mode <- ls.mode, got <- ls.got, end <- ls.end

(* The kernel's listings implement DirListing: every Readdir(plus) reply   *)
(* is the next entries of the directory, at least one, without "." and    *)
(* ".."; an empty reply only after the last.  It is about the loop's       *)
(* dot filter, its dropped last entry, findChild's early break and the    *)
(* error test `errno != 0 && size == Buffer.size()`.                       *)
ListingRefined == Listing!Spec

(* The kernel never holds more references to an entry than findChild      *)
(* counted: every readdirplus entry the kernel receives was resolved by    *)
(* findChild in the same call.                                             *)
KernelRefsCounted == \A e \in Entries : kref[e] <= lookup[e]

(* Every Readlink reply is the whole target, whatever size a Readdir,      *)
(* Getxattr (size 0 empties it) or Readlink of the same worker left the    *)
(* thread_local Buffer at.                                                 *)
ReadlinkWhole == rl.reply = rl.len

(* Every lookup reference Readdirplus takes is handed to the kernel, which *)
(* returns it with a forget: findChild's count equals the kernel's.  It is *)
(* about the entry findChild resolved that the reply does not carry.       *)
RefsMatchLookups == \A e \in Entries : lookup[e] = kref[e]
====
