------------------------------ MODULE NodeTable ------------------------------
(***************************************************************************)
(* The node table of the passthrough filesystem (FileSystem::nodes in      *)
(* src/fuse/inc/FileSystem.hpp) and the request handlers that put nodes    *)
(* into it, take references on them and remove them: Lookup (findChild),   *)
(* Mknod/Create (HandleCreation), Link, Unlink, Rename, Open, Release,     *)
(* Forget (ForgetMulti) and Destroy.                                       *)
(*                                                                         *)
(* The backing directory is the root directory: a map from names to the   *)
(* number of the object (inode) a name refers to.  The process's          *)
(* descriptor table maps descriptor numbers to the objects they refer to; *)
(* openat hands out the lowest free number, and close frees a number      *)
(* whoever holds it.  An object exists while a name links it or a         *)
(* descriptor refers to it; a number no object uses may be handed out     *)
(* again by the next mknodat.                                              *)
(*                                                                         *)
(* Each worker thread runs one request at a time.  A step of a thread is   *)
(* the code between two points where another thread can observe shared    *)
(* state: a syscall on the backing directory or a nodesMutex critical      *)
(* section.  createMutex is held across steps by the creating handlers,    *)
(* so its owner is a variable; nodesMutex is only held inside one step.    *)
(* The log records are modelled in FileHandles, InodeIds and LogWriter.    *)
(***************************************************************************)
EXTENDS Naturals, FiniteSets, TLC

CONSTANTS
    Threads,    \* the worker threads of fuse_session_loop_mt
    Names,      \* the names of the root directory a request may use
    Inodes,     \* the object (inode) numbers of the backing filesystem
    FdNums,     \* the descriptor numbers the process may have open
    NoFd,       \* no descriptor (fd == -1 in the code)
    NoIno,      \* no object: a missing name, a free descriptor number
    NoName,     \* no name argument (an idle thread)
    NoThread,   \* nobody owns createMutex exclusively
    MaxRequests,\* bound on the requests the kernel sends, so the model is finite
    ExternalWriters \* processes outside the mount change the backing directory

ASSUME NoIno \notin Inodes /\ NoName \notin Names /\ NoThread \notin Threads
ASSUME FdNums \subseteq Nat /\ NoFd \notin FdNums
ASSUME MaxRequests \in Nat /\ ExternalWriters \in BOOLEAN

VARIABLES
    dir,         \* [Names -> Inodes \cup {NoIno}]: the backing root directory
    fdtab,       \* [FdNums -> Inodes \cup {NoIno}]: the process's descriptor table
    nodes,       \* the node table: st_ino key -> [fd, lookup]
    kref,        \* [Inodes -> Nat]: entry references the kernel holds, per key
    kfiles,      \* [FdNums -> Nat]: open file handles (fi->fh) the kernel holds
    createOwner, \* the thread holding createMutex exclusively, or NoThread
    th,          \* [Threads -> ThreadState]: each worker's request in progress
    destroyed,   \* Destroy has run: the session is over
    requests     \* the number of requests the kernel has sent

vars == <<dir, fdtab, nodes, kref, kfiles, createOwner, th, destroyed, requests>>

(* The labels after emplace lost to a node already in the table, where the *)
(* thread runs `if (dropFd) ::close(fd);`.                                 *)
DropLabels == {"lk_drop", "mk_drop", "cr_drop"}

Labels == {"idle", "lk_find", "lk_open", "lk_insert", "mk_open", "mk_insert",
           "cr_hopen", "cr_insert", "cr_open", "fg_erase"} \cup DropLabels

\* A worker's locals: where it is, the name argument, the st_ino its
\* fstatat or fstat produced, the descriptor it opened, the node it uses.
ThreadState == [pc : Labels, name : Names \cup {NoName}, ino : Inodes \cup {NoIno},
                fd : FdNums \cup {NoFd}, node : Inodes \cup {NoIno}]

IdleThread == [pc |-> "idle", name |-> NoName, ino |-> NoIno, fd |-> NoFd, node |-> NoIno]

Keys == DOMAIN nodes

NodeRec == [fd : FdNums, lookup : Nat]

\* An object exists while a name links it or a descriptor refers to it.
InUse(i) == (\E n \in Names : dir[n] = i) \/ (\E d \in FdNums : fdtab[d] = i)

FreeInodes == {i \in Inodes : ~InUse(i)}

FreeFds == {d \in FdNums : fdtab[d] = NoIno}

\* openat / open: the lowest free number now refers to object i.
LowestFree == CHOOSE d \in FreeFds : \A e \in FreeFds : d <= e

OpenFd(i) == [fdtab EXCEPT ![LowestFree] = i]

\* close(d): the number is free, whoever held it (EBADF if it already was).
CloseFd(d) == [fdtab EXCEPT ![d] = NoIno]

\* Counts after adding / removing one (references, file handles).
Opened(f, i) == [f EXCEPT ![i] = @ + 1]
Closed(f, i) == [f EXCEPT ![i] = @ - 1]

\* The table without key k; erasing a Node runs ~Node, which closes its fd.
Erase(k) == [x \in Keys \ {k} |-> nodes[x]]

IncLookup(k) == [nodes EXCEPT ![k].lookup = @ + 1]

\* Thread t is free to take the kernel's next request.
Idle(t) ==
    /\ th[t].pc = "idle" /\ ~destroyed
    /\ requests < MaxRequests
    /\ requests' = requests + 1

\* Thread t moves to label l / finishes its request and replies.
Goto(t, l) == th' = [th EXCEPT ![t].pc = l]
Done(t) == th' = [th EXCEPT ![t] = IdleThread]

(* The kernel's lock on the parent directory (i_rwsem).  A lookup holds it *)
(* shared from its request to its reply; mknod, mkdir, symlink, create,    *)
(* link, unlink, rmdir and rename hold it exclusively.  A creating handler *)
(* holds it over the same steps as createMutex.                            *)
LookupInFlight == \E u \in Threads : th[u].pc \in {"lk_find", "lk_open", "lk_insert", "lk_drop"}

VfsShared == createOwner = NoThread

VfsExclusive == createOwner = NoThread /\ ~LookupInFlight

Init ==
    /\ dir \in [Names -> Inodes \cup {NoIno}]
    /\ fdtab = [d \in FdNums |-> NoIno]
    /\ nodes = [k \in {} |-> [fd |-> NoFd, lookup |-> 0]]
    /\ kref = [i \in Inodes |-> 0]
    /\ kfiles = [d \in FdNums |-> 0]
    /\ createOwner = NoThread
    /\ th = [t \in Threads |-> IdleThread]
    /\ destroyed = FALSE
    /\ requests = 0

-----------------------------------------------------------------------------
(* Lookup -> findChild.  fstatat(parent.fd, name) without any lock; a     *)
(* failing fstatat makes findChild return nullptr and Lookup reply the     *)
(* error, which changes no state, so only the successful case is a step.   *)
LookupStat(t, n) ==
    /\ Idle(t)
    /\ VfsShared
    /\ dir[n] # NoIno
    /\ th' = [th EXCEPT ![t] = [IdleThread EXCEPT !.pc = "lk_find", !.name = n, !.ino = dir[n]]]
    /\ UNCHANGED <<dir, fdtab, nodes, kref, kfiles, createOwner, destroyed>>

(* The first critical section: createMutex and nodesMutex shared.  A hit   *)
(* increments lookup and Lookup replies the entry (the kernel's reference).*)
LookupFind(t) ==
    LET k == th[t].ino IN
    /\ th[t].pc = "lk_find"
    /\ createOwner = NoThread
    /\ IF k \in Keys
         THEN /\ nodes' = IncLookup(k)
              /\ kref' = Opened(kref, k)
              /\ Done(t)
         ELSE /\ Goto(t, "lk_open")
              /\ UNCHANGED <<nodes, kref>>
    /\ UNCHANGED <<dir, fdtab, kfiles, createOwner, destroyed, requests>>

\* Mutation: the result of openat is not checked against -1.
LookupOpenUnchecked(t) ==
    LET f == dir[th[t].name] IN
    /\ th[t].pc = "lk_open"
    /\ \/ /\ f # NoIno /\ FreeFds # {}
          /\ fdtab' = OpenFd(f)
          /\ th' = [th EXCEPT ![t].pc = "lk_insert", ![t].fd = LowestFree]
       \/ /\ f = NoIno \/ FreeFds = {}
          /\ th' = [th EXCEPT ![t].pc = "lk_insert", ![t].fd = NoFd]
          /\ UNCHANGED fdtab
    /\ UNCHANGED <<dir, nodes, kref, kfiles, createOwner, destroyed, requests>>

(* openat(parent.fd, name, O_PATH | O_NOFOLLOW), again without createMutex:*)
(* it opens whatever the name refers to now, which need not be th.ino.     *)
(* ENOENT, or EMFILE when no number is free, makes findChild return        *)
(* nullptr and Lookup reply the error.                                     *)
LookupOpen(t) ==
    LET f == dir[th[t].name] IN
    /\ th[t].pc = "lk_open"
    /\ \/ /\ f # NoIno /\ FreeFds # {}
          /\ fdtab' = OpenFd(f)
          /\ th' = [th EXCEPT ![t].pc = "lk_insert", ![t].fd = LowestFree]
       \/ /\ f = NoIno \/ FreeFds = {}
          /\ Done(t)
          /\ UNCHANGED fdtab
    /\ UNCHANGED <<dir, nodes, kref, kfiles, createOwner, destroyed, requests>>

\* emplace found a node under the thread's key: nothing was inserted.
Inserted(t) == th[t].ino \notin Keys

(* emplace(piecewise_construct, st_ino, (fd, st_ino)) and lookup++ under   *)
(* nodesMutex exclusive.  emplace builds the Node before it looks at the   *)
(* key; when a node under that key is already there it wins, and the      *)
(* Node just built is destroyed: ~Node closes the thread's fd.  The thread *)
(* then goes on to its own `if (dropFd) ::close(fd)` after the lock.       *)
Emplace(t) ==
    LET k == th[t].ino IN
    IF k \in Keys
      THEN /\ nodes' = IncLookup(k)
           /\ fdtab' = CloseFd(th[t].fd)
      ELSE /\ nodes' = nodes @@ (k :> [fd |-> th[t].fd, lookup |-> 1])
           /\ UNCHANGED fdtab

\* `if (dropFd) ::close(fd);` after nodesMutex is released: a second close
\* of the number ~Node closed, which another thread's openat may hold by now.
CloseDropped(t) == fdtab' = CloseFd(th[t].fd)

(* findChild's second critical section; Lookup replies the entry, after    *)
(* the close of the dropped descriptor when emplace lost.                  *)
LookupInsert(t) ==
    /\ th[t].pc = "lk_insert"
    /\ Emplace(t)
    /\ IF Inserted(t)
         THEN kref' = Opened(kref, th[t].ino) /\ Done(t)
         ELSE Goto(t, "lk_drop") /\ UNCHANGED kref
    /\ UNCHANGED <<requests, dir, kfiles, createOwner, destroyed>>

LookupDrop(t) ==
    /\ th[t].pc = "lk_drop"
    /\ CloseDropped(t)
    /\ kref' = Opened(kref, th[t].ino)
    /\ Done(t)
    /\ UNCHANGED <<requests, dir, nodes, kfiles, createOwner, destroyed>>

-----------------------------------------------------------------------------
(* Mknod and Create take createMutex exclusive and mknodat a regular file  *)
(* under a free number.  A failing mknodat (the name exists, no free       *)
(* inode) releases the lock and replies the error without a state change.  *)
MakeFile(t, n, next) ==
    /\ Idle(t)
    /\ VfsExclusive
    /\ dir[n] = NoIno
    /\ \E i \in FreeInodes : dir' = [dir EXCEPT ![n] = i]
    /\ createOwner' = t
    /\ th' = [th EXCEPT ![t] = [IdleThread EXCEPT !.pc = next, !.name = n]]
    /\ UNCHANGED <<fdtab, nodes, kref, kfiles, destroyed>>

(* HandleCreation: openat(parentFd, name) and fstat of what it opened; the *)
(* node is keyed by that st_ino.  A failing openat (the name is gone, no   *)
(* free number) returns nullptr: the handler releases createMutex and      *)
(* replies the error, leaving the new file behind.                         *)
HandleOpen(t, from, to) ==
    LET f == dir[th[t].name] IN
    /\ th[t].pc = from
    /\ \/ /\ f # NoIno /\ FreeFds # {}
          /\ fdtab' = OpenFd(f)
          /\ th' = [th EXCEPT ![t].pc = to, ![t].ino = f, ![t].fd = LowestFree]
          /\ UNCHANGED createOwner
       \/ /\ f = NoIno \/ FreeFds = {}
          /\ createOwner' = NoThread
          /\ Done(t)
          /\ UNCHANGED fdtab
    /\ UNCHANGED <<dir, nodes, kref, kfiles, destroyed, requests>>

MknodStart(t, n) == MakeFile(t, n, "mk_open")

MknodOpen(t) == HandleOpen(t, "mk_open", "mk_insert")

(* Mknod: HandleCreation's emplace; then createMutex is released and       *)
(* ReplyEntry, after the close of the dropped descriptor when emplace lost.*)
MknodInsert(t) ==
    /\ th[t].pc = "mk_insert"
    /\ Emplace(t)
    /\ IF Inserted(t)
         THEN /\ kref' = Opened(kref, th[t].ino)
              /\ createOwner' = NoThread
              /\ Done(t)
         ELSE /\ Goto(t, "mk_drop")
              /\ UNCHANGED <<kref, createOwner>>
    /\ UNCHANGED <<requests, dir, kfiles, destroyed>>

MknodDrop(t) ==
    /\ th[t].pc = "mk_drop"
    /\ CloseDropped(t)
    /\ kref' = Opened(kref, th[t].ino)
    /\ createOwner' = NoThread
    /\ Done(t)
    /\ UNCHANGED <<requests, dir, nodes, kfiles, destroyed>>

(* Mkdir (mkdirat) and Symlink (symlinkat) take the same path as Mknod:  *)
(* under createMutex, make the object, HandleCreation, ReplyEntry.  The    *)
(* model does not tell a directory or a symlink from a file.               *)
MkdirStart(t, n) == MakeFile(t, n, "mk_open")

SymlinkStart(t, n) == MakeFile(t, n, "mk_open")

CreateStart(t, n) == MakeFile(t, n, "cr_hopen")

CreateHandleOpen(t) == HandleOpen(t, "cr_hopen", "cr_insert")

(* Create: HandleCreation's emplace; the thread keeps the node pointer.    *)
CreateInsert(t) ==
    /\ th[t].pc = "cr_insert"
    /\ Emplace(t)
    /\ th' = [th EXCEPT ![t].pc = IF Inserted(t) THEN "cr_open" ELSE "cr_drop",
                        ![t].node = th[t].ino,
                        ![t].fd = IF Inserted(t) THEN NoFd ELSE th[t].fd]
    /\ UNCHANGED <<requests, dir, kref, kfiles, createOwner, destroyed>>

CreateDrop(t) ==
    /\ th[t].pc = "cr_drop"
    /\ CloseDropped(t)
    /\ th' = [th EXCEPT ![t].pc = "cr_open", ![t].fd = NoFd]
    /\ UNCHANGED <<requests, dir, nodes, kref, kfiles, createOwner, destroyed>>

\* Mutation: the rollback ignores the lookup counter.
AlwaysUnseen(k) == TRUE

\* `--node->lookup == 0`: nobody but this Create has seen the node.
Unseen(k) == nodes[k].lookup = 1

(* Create, still under createMutex: openat(parentFd, name, fi->flags) for  *)
(* the caller's handle.  On success the handle goes to the kernel with the *)
(* entry.  On failure, under nodesMutex: --lookup, and if that reaches 0   *)
(* unlinkat the name and erase the node.  Then createMutex is released and *)
(* Create replies: fuse_reply_create whenever node != nullptr (with fh -1  *)
(* after a failed open), fuse_reply_err otherwise.                         *)
CreateOpen(t) ==
    LET k == th[t].node
        f == dir[th[t].name]
    IN
    /\ th[t].pc = "cr_open"
    /\ \/ /\ f # NoIno /\ FreeFds # {}
          /\ fdtab' = OpenFd(f)
          /\ kfiles' = Opened(kfiles, LowestFree)
          /\ kref' = Opened(kref, k)
          /\ UNCHANGED <<dir, nodes>>
       \/ /\ Unseen(k)
          /\ dir' = [dir EXCEPT ![th[t].name] = NoIno]
          /\ nodes' = Erase(k)
          /\ fdtab' = CloseFd(nodes[k].fd)
          /\ UNCHANGED <<kref, kfiles>>
       \/ /\ ~Unseen(k)
          /\ nodes' = [nodes EXCEPT ![k].lookup = @ - 1]
          /\ kref' = Opened(kref, k)
          /\ UNCHANGED <<dir, fdtab, kfiles>>
    /\ createOwner' = NoThread
    /\ Done(t)
    /\ UNCHANGED <<destroyed, requests>>

-----------------------------------------------------------------------------
(* Unlink: unlinkat under createMutex; one step, since nothing else runs   *)
(* while the lock is held.  ENOENT changes nothing.                        *)
Unlink(t, n) ==
    /\ Idle(t)
    /\ VfsExclusive
    /\ dir[n] # NoIno
    /\ dir' = [dir EXCEPT ![n] = NoIno]
    /\ UNCHANGED <<fdtab, nodes, kref, kfiles, createOwner, th, destroyed>>

(* Rmdir: unlinkat(..., AT_REMOVEDIR) under createMutex.                   *)
Rmdir(t, n) == Unlink(t, n)

(* Rename: renameat2(parent, a, newparent, b, flags) under createMutex.    *)
Rename(t, a, b) ==
    /\ Idle(t)
    /\ VfsExclusive
    /\ a # b /\ dir[a] # NoIno
    /\ \/ dir' = [dir EXCEPT ![b] = dir[a], ![a] = NoIno]          \* flags 0
       \/ /\ dir[b] = NoIno                                       \* RENAME_NOREPLACE
          /\ dir' = [dir EXCEPT ![b] = dir[a], ![a] = NoIno]
       \/ /\ dir[b] # NoIno                                       \* RENAME_EXCHANGE
          /\ dir' = [dir EXCEPT ![b] = dir[a], ![a] = dir[b]]
    /\ UNCHANGED <<fdtab, nodes, kref, kfiles, createOwner, th, destroyed>>

(* Link: linkat(node->fd, "", parentfd, newname, AT_EMPTY_PATH) under      *)
(* createMutex links the object node->fd refers to; then, without any     *)
(* lock, fstat, lookup++ and the entry reply.  linkat fails for a closed  *)
(* descriptor (EBADF) and for an object that has no name left (ENOENT).   *)
Link(t, k, n) ==
    LET obj == fdtab[nodes[k].fd] IN
    /\ Idle(t)
    /\ VfsExclusive
    /\ kref[k] > 0
    /\ dir[n] = NoIno
    /\ obj # NoIno /\ \E m \in Names : dir[m] = obj
    /\ dir' = [dir EXCEPT ![n] = obj]
    /\ nodes' = IncLookup(k)
    /\ kref' = Opened(kref, k)
    /\ UNCHANGED <<fdtab, kfiles, createOwner, th, destroyed>>

(* Open: openat(ProcFd, "<node fd>", fi->flags) reopens the object node->fd *)
(* refers to; the new descriptor becomes fi->fh.  It fails (and replies    *)
(* the error) when node->fd is closed or no number is free.                *)
Open(t, k) ==
    LET obj == fdtab[nodes[k].fd] IN
    /\ Idle(t)
    /\ kref[k] > 0
    /\ obj # NoIno /\ FreeFds # {}
    /\ fdtab' = OpenFd(obj)
    /\ kfiles' = Opened(kfiles, LowestFree)
    /\ UNCHANGED <<dir, nodes, kref, createOwner, th, destroyed>>

(* Release: close(fi->fh).                                                 *)
Release(t, d) ==
    /\ Idle(t)
    /\ kfiles[d] > 0
    /\ fdtab' = CloseFd(d)
    /\ kfiles' = Closed(kfiles, d)
    /\ UNCHANGED <<dir, nodes, kref, createOwner, th, destroyed>>

-----------------------------------------------------------------------------
(* A process outside the mount (one whose working directory was inside the *)
(* directory before it was mounted over) changes the backing directory    *)
(* directly: no request, no lock of the filesystem or of the kernel's     *)
(* FUSE directory.                                                         *)
ExtUnlink(n) ==
    /\ ExternalWriters /\ ~destroyed
    /\ dir[n] # NoIno
    /\ dir' = [dir EXCEPT ![n] = NoIno]
    /\ UNCHANGED <<fdtab, nodes, kref, kfiles, createOwner, th, destroyed, requests>>

ExtRename(a, b) ==
    /\ ExternalWriters /\ ~destroyed
    /\ a # b /\ dir[a] # NoIno
    /\ dir' = [dir EXCEPT ![b] = dir[a], ![a] = NoIno]
    /\ UNCHANGED <<fdtab, nodes, kref, kfiles, createOwner, th, destroyed, requests>>

ExtCreate(n) ==
    /\ ExternalWriters /\ ~destroyed
    /\ dir[n] = NoIno
    /\ \E i \in FreeInodes : dir' = [dir EXCEPT ![n] = i]
    /\ UNCHANGED <<fdtab, nodes, kref, kfiles, createOwner, th, destroyed, requests>>

-----------------------------------------------------------------------------
(* Forget -> ForgetMulti with one entry: the kernel gives up c of its      *)
(* references to node k.  The first loop runs without a lock and executes *)
(* `cur->lookup -= forgets[i].nlookup == 0`, which C++ parses as           *)
(* lookup -= (nlookup == 0); a node is collected when the result is not 0. *)
\* Mutation: the decrement the spec intends, lookup -= nlookup, unguarded.
ForgetSubtracts(l, c) == l - c

ForgetDecrement(l, c) == l - (IF c = 0 THEN 1 ELSE 0)

Forget(t, k, c) ==
    LET l == ForgetDecrement(nodes[k].lookup, c) IN
    /\ Idle(t)
    /\ c \in 1..kref[k]
    /\ kref' = [kref EXCEPT ![k] = @ - c]
    /\ nodes' = [nodes EXCEPT ![k].lookup = l]
    /\ th' = [th EXCEPT ![t] = [IdleThread EXCEPT !.pc = "fg_erase",
                                                  !.node = IF l # 0 THEN k ELSE NoIno]]
    /\ UNCHANGED <<dir, fdtab, kfiles, createOwner, destroyed>>

(* The second loop, under nodesMutex: erase each collected node whose      *)
(* lookup is still 0; then fuse_reply_none.                                *)
ForgetErase(t) ==
    LET k == th[t].node
        gone == k \in Keys /\ nodes[k].lookup = 0
    IN
    /\ th[t].pc = "fg_erase"
    /\ nodes' = IF gone THEN Erase(k) ELSE nodes
    /\ fdtab' = IF gone THEN CloseFd(nodes[k].fd) ELSE fdtab
    /\ Done(t)
    /\ UNCHANGED <<requests, dir, kref, kfiles, createOwner, destroyed>>

-----------------------------------------------------------------------------
(* Destroy runs when the session loop has ended: no request in flight and  *)
(* the kernel has released its file handles and dropped its references.    *)
(* Under createMutex and nodesMutex it clears the table, closing every     *)
(* node's descriptor.                                                      *)
Destroy ==
    /\ ~destroyed
    /\ \A t \in Threads : th[t].pc = "idle"
    /\ \A d \in FdNums : kfiles[d] = 0
    /\ nodes' = [k \in {} |-> [fd |-> NoFd, lookup |-> 0]]
    /\ fdtab' = [d \in FdNums |-> IF \E k \in Keys : nodes[k].fd = d THEN NoIno ELSE fdtab[d]]
    /\ kref' = [i \in Inodes |-> 0]
    /\ destroyed' = TRUE
    /\ UNCHANGED <<requests, dir, kfiles, createOwner, th>>

Next ==
    \/ \E t \in Threads :
         \/ LookupFind(t) \/ LookupOpen(t) \/ LookupInsert(t) \/ LookupDrop(t)
         \/ MknodOpen(t) \/ MknodInsert(t) \/ MknodDrop(t)
         \/ CreateHandleOpen(t) \/ CreateInsert(t) \/ CreateDrop(t) \/ CreateOpen(t)
         \/ ForgetErase(t)
         \/ \E n \in Names :
              \/ LookupStat(t, n) \/ CreateStart(t, n)
              \/ MknodStart(t, n) \/ MkdirStart(t, n) \/ SymlinkStart(t, n)
              \/ Unlink(t, n) \/ Rmdir(t, n)
         \/ \E a, b \in Names : Rename(t, a, b)
         \/ \E k \in Keys :
              \/ Open(t, k)
              \/ \E n \in Names : Link(t, k, n)
              \/ \E c \in 1..kref[k] : Forget(t, k, c)
         \/ \E d \in FdNums : Release(t, d)
    \/ \E n \in Names : ExtUnlink(n) \/ ExtCreate(n)
    \/ \E a, b \in Names : ExtRename(a, b)
    \/ Destroy

Spec == Init /\ [][Next]_vars

-----------------------------------------------------------------------------
TypeOK ==
    /\ dir \in [Names -> Inodes \cup {NoIno}]
    /\ fdtab \in [FdNums -> Inodes \cup {NoIno}]
    /\ Keys \subseteq Inodes /\ \A k \in Keys : nodes[k] \in NodeRec
    /\ kref \in [Inodes -> Nat] /\ kfiles \in [FdNums -> Nat]
    /\ createOwner \in Threads \cup {NoThread}
    /\ th \in [Threads -> ThreadState]
    /\ destroyed \in BOOLEAN
    /\ requests \in 0..MaxRequests

(* Every descriptor number the process has open is owned by exactly one   *)
(* holder -- a node of the table, a thread in the middle of a request, or  *)
(* a file handle the kernel holds -- and every holder's number is open: no *)
(* leak, and no close of a number someone else holds.  It is about the     *)
(* losing thread of two concurrent lookups or creations, whose descriptor  *)
(* ~Node closes and the handler closes again after nodesMutex, Create's    *)
(* rollback closing the node's, and Destroy closing all of them.           *)
Holders(d) ==
    Cardinality({k \in Keys : nodes[k].fd = d})
    + Cardinality({t \in Threads : th[t].fd = d /\ th[t].pc \notin DropLabels})
    + kfiles[d]

FdsAccounted ==
    \A d \in FdNums : Holders(d) = IF fdtab[d] = NoIno THEN 0 ELSE 1

(* Every node the kernel holds a reference to is still in the table: no    *)
(* node is erased (and its descriptor closed) while an entry reply for it  *)
(* is outstanding.  It is about Create's rollback, which erases the node   *)
(* it made when its lookup drops to 0, racing lookups that join it.        *)
NoDanglingRef ==
    \A k \in Inodes : kref[k] > 0 => k \in Keys

(* No thread uses a node that has been erased: the node pointer Create     *)
(* keeps from HandleCreation to its rollback, and the pointers ForgetMulti *)
(* collects before taking nodesMutex, still point into the table.  An      *)
(* erased Node is freed memory.                                            *)
NodesInUseLive ==
    \A t \in Threads : th[t].node # NoIno => th[t].node \in Keys

(* A node's descriptor refers to the object whose number keys it in the    *)
(* table (Node::ino = st_ino of Node::fd).  findChild keys the node by the *)
(* st_ino of its fstatat but opens the name again later, outside           *)
(* createMutex.                                                            *)
NodeFdMatchesKey ==
    \A k \in Keys : fdtab[nodes[k].fd] = k

(* The kernel never holds more references to a node than its lookup       *)
(* counter records, so forgets can never take it below zero.  It is about  *)
(* Create's failed-open path, which decrements lookup and still replies    *)
(* fuse_reply_create when another thread had joined the node.              *)
LookupCoversKernelRefs ==
    \A k \in Keys : kref[k] <= nodes[k].lookup

(* When no request is in flight, each node's lookup counter equals the     *)
(* number of references the kernel holds (spec section 3: net references   *)
(* acquired minus relinquished).  It is about ForgetMulti's decrement.      *)
Quiescent == \A t \in Threads : th[t].pc = "idle"

LookupMatchesKernelRefs ==
    Quiescent => \A k \in Keys : nodes[k].lookup = kref[k]

=============================================================================
