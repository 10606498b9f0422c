------------------------------ MODULE BpfProbes ------------------------------
(***************************************************************************)
(* The BPF access tracer of src/bpf/testdir/bpf.cpp: kprobe/kretprobe     *)
(* pairs on do_filp_open, vfs_open, filp_close, vfs_unlink and the read/   *)
(* write functions, sharing the hash maps opened (struct file* -> handle  *)
(* uid), inodes (i_ino -> [uid, opened_handles]), save and save_delete    *)
(* (thread id -> the record of the call in progress).                     *)
(*                                                                         *)
(* A probe runs to completion on its CPU, so each probe is one step; the  *)
(* kernel function it wraps runs between the entry and the return step,   *)
(* and other threads' probes and kernel steps interleave there.  The      *)
(* kernel's part is folded into the probe steps: path lookup and the file *)
(* allocation into vfs_open's entry, the result into each return, the     *)
(* descriptor's removal into filp_close's entry and the last fput into    *)
(* its return.  Descriptors, mmaps and in-flight calls hold references to *)
(* a struct file; a rename over a name and link() change i_nlink without  *)
(* a probe.  The path records (OutputFilePaths) and the times are left    *)
(* out.  Ghost fields: the call each event was submitted by, and the open *)
(* (og) and inode generation (ig) it is really about.                     *)
(***************************************************************************)
EXTENDS Integers, Sequences, FiniteSets, TLC

CONSTANTS
    Threads,    \* tasks of the traced processes, sharing one descriptor table
    Logged,     \* the threads CheckToLog passes (pid, uid and gid in the maps)
    NInos,      \* inode numbers 1..NInos
    Files,      \* struct file addresses
    NoFile,     \* NULL, or an ERR_PTR return
    MaxLinks,   \* bound on i_nlink
    MaxCalls    \* bound on the traced calls

ASSUME Logged \subseteq Threads /\ NoFile \notin Files

Inos == 1..NInos

NoIno == -1      \* saved.inode = (unsigned long)-1

NoIg == <<NoIno, 0>>

(* --opened_handles on a u32: 0 - 1 wraps to 2^32 - 1, which TLC's      *)
(* integers cannot hold; 2^30 stands for it, as far from 0 and from the    *)
(* top as MaxCalls increments and decrements can tell.                     *)
U32Wrapped == 2^30

DecU32(h) == IF h = 0 THEN U32Wrapped ELSE h - 1

VARIABLES
    nlink,        \* [Inos -> Nat]: i_nlink
    igen,         \* [Inos -> Nat]: ghost, the inode generation at each number
    file,         \* [Files -> struct file or NoFile]: [ino, gen, og, fds, maps]
    th,           \* [Threads -> [pc, f, ino, call, kind]]: the call in progress
    ncalls,       \* calls begun; also the ghost id of an open
    opened,       \* BPF_HASH(opened, struct file*, u64)
    inodes,       \* BPF_HASH(inodes, unsigned long, struct saved_inode_t)
    gHandle,      \* global_handle_uid[0]
    gInode,       \* global_inode_uid[0]
    save,         \* BPF_HASH(save, u64, struct save_t)
    save_delete,  \* BPF_HASH(save_delete, u64, unsigned long)
    events        \* the event_main ring buffer

vars == <<nlink, igen, file, th, ncalls, opened, inodes, gHandle, gInode, save, save_delete, events>>

bpfVars == <<opened, inodes, gHandle, gInode, save, save_delete, events>>

Idle == [pc |-> "idle", f |-> NoFile, ino |-> NoIno, call |-> 0, kind |-> "none"]

Init ==
    /\ nlink \in [Inos -> 0..1]
    /\ igen = [i \in Inos |-> 0]
    /\ file = [f \in Files |-> NoFile]
    /\ th = [t \in Threads |-> Idle]
    /\ ncalls = 0
    /\ opened = <<>> /\ inodes = <<>>
    /\ gHandle = 0 /\ gInode = 0
    /\ save = <<>> /\ save_delete = <<>>
    /\ events = <<>>

-----------------------------------------------------------------------------
(* BPF hash map calls: insert is BPF_NOEXIST, update BPF_ANY.              *)
Insert(m, k, v) == IF k \in DOMAIN m THEN m ELSE (k :> v) @@ m

Update(m, k, v) == (k :> v) @@ m

\* Mutation: the record is not removed (a missing save.delete(&id)).
DeleteNone(m, k) == m

Delete(m, k) == [x \in DOMAIN m \ {k} |-> m[x]]

CheckToLog(t) == t \in Logged

\* struct save_t with a prepared event_main_t.
NewSave(type) == [type |-> type, fp |-> NoFile, inode |-> NoIno, unlinked |-> FALSE,
                  huid |-> 0, iuid |-> 0, res |-> 0, og |-> 0, ig |-> NoIg]

(* SetEventFileStuff(event, file) on the struct file f, whose fields are *)
(* rec: the inode's uid, taken new with opened_handles = 1 when i_ino is  *)
(* not in inodes; the handle's uid, new when f is not in opened, and then *)
(* opened_handles++ on a known inode.  The updated [s, op, ins, gh, gi].   *)
SetEventFileStuff(s, f, rec) ==
    LET i    == rec.ino
        newI == i \notin DOMAIN inodes
        gi   == IF newI THEN gInode + 1 ELSE gInode
        ins1 == IF newI THEN (i :> [uid |-> gi, handles |-> 1]) @@ inodes ELSE inodes
        newH == f \notin DOMAIN opened
        gh   == IF newH THEN gHandle + 1 ELSE gHandle
    IN [s    |-> [s EXCEPT !.iuid = ins1[i].uid, !.huid = IF newH THEN gh ELSE opened[f],
                           !.og = rec.og, !.ig = <<i, rec.gen>>],
        op   |-> IF newH THEN (f :> gh) @@ opened ELSE opened,
        ins  |-> IF newH /\ ~newI THEN [ins1 EXCEPT ![i].handles = @ + 1] ELSE ins1,
        gh   |-> gh,
        gi   |-> gi]

\* The maps and counters after SetEventFileStuff's result r.
Apply(r) == opened' = r.op /\ inodes' = r.ins /\ gHandle' = r.gh /\ gInode' = r.gi

\* FinalizeAndSubmitMainEvent, with the ghost call it ends.
Submit(t, s) ==
    Append(events, [type |-> s.type, huid |-> s.huid, iuid |-> s.iuid, res |-> s.res,
                    og |-> s.og, ig |-> s.ig, call |-> th[t].call, kind |-> th[t].kind])

-----------------------------------------------------------------------------
(* Kernel helpers.                                                         *)
\* References to f: descriptors, mmaps, and calls in progress on it.
FCount(f) == file[f].fds + file[f].maps
             + Cardinality({t \in Threads : th[t].f = f /\ th[t].pc \in {"close", "rw"}})

FreeFile(f) == file[f] = NoFile /\ \A t \in Threads : th[t].f # f

\* No name and no open file: the number may be given to a new inode.
FreeIno(i) == nlink[i] = 0 /\ \A f \in Files : file[f] # NoFile => file[f].ino # i

\* fput of one held reference: the struct file is freed with the last.
Fput(f) == IF FCount(f) = 1 THEN [file EXCEPT ![f] = NoFile] ELSE file

Begin(t, pc, kind, f, i) ==
    /\ th[t].pc = "idle" /\ ncalls < MaxCalls
    /\ ncalls' = ncalls + 1
    /\ th' = [th EXCEPT ![t] = [pc |-> pc, f |-> f, ino |-> i, call |-> ncalls + 1, kind |-> kind]]

Goto(t, pc, f) == th' = [th EXCEPT ![t].pc = pc, ![t].f = f]

(* Path lookup and open of inode i into a new struct file: an existing  *)
(* name, or O_CREAT of a new inode at a free number.                       *)
CanOpen(i, f) == FreeFile(f) /\ (nlink[i] >= 1 \/ FreeIno(i))

OpenedRec(t, i, fds) ==
    [ino |-> i, gen |-> IF nlink[i] = 0 THEN igen[i] + 1 ELSE igen[i], og |-> th[t].call,
     fds |-> fds, maps |-> 0]

Resolve(t, i, f, fds) ==
    /\ CanOpen(i, f)
    /\ igen' = [igen EXCEPT ![i] = OpenedRec(t, i, fds).gen]
    /\ nlink' = [nlink EXCEPT ![i] = IF @ = 0 THEN 1 ELSE @]
    /\ file' = [file EXCEPT ![f] = OpenedRec(t, i, fds)]

-----------------------------------------------------------------------------
(* kprobe__do_filp_open: a new open record under the thread id.            *)
kprobe__do_filp_open(t) ==
    /\ Begin(t, "open", "O", NoFile, NoIno)
    /\ save' = IF CheckToLog(t) THEN Insert(save, t, NewSave("O")) ELSE save
    /\ UNCHANGED <<nlink, igen, file, opened, inodes, gHandle, gInode, save_delete, events>>

(* kprobe__vfs_open(path, file): save.update, replacing do_filp_open's    *)
(* record, with the struct file path lookup allocated.                     *)
kprobe__vfs_open(t) ==
    /\ th[t].pc = "open"
    /\ \E i \in Inos, f \in Files :
         /\ Resolve(t, i, f, 0)
         /\ Goto(t, "vfsopen", f)
         /\ save' = IF CheckToLog(t) THEN Update(save, t, [NewSave("O") EXCEPT !.fp = f]) ELSE save
    /\ UNCHANGED <<ncalls, opened, inodes, gHandle, gInode, save_delete, events>>

(* kretprobe__vfs_open: on success SetEventFileStuff(saved->fp), else fp  *)
(* = NULL; submit and delete.  A failed open frees the struct file.        *)
kretprobe__vfs_open(t) ==
    /\ th[t].pc = "vfsopen"
    /\ \E ok \in BOOLEAN :
         LET f == th[t].f IN
         /\ file' = IF ok THEN file ELSE [file EXCEPT ![f] = NoFile]
         /\ Goto(t, "openret", IF ok THEN f ELSE NoFile)
         /\ IF t \in DOMAIN save
              THEN LET s0 == [save[t] EXCEPT !.res = IF ok THEN 0 ELSE -1]
                       r  == SetEventFileStuff(s0, s0.fp, file[s0.fp])
                   IN /\ IF ok THEN events' = Submit(t, r.s) /\ Apply(r)
                               ELSE /\ events' = Submit(t, [s0 EXCEPT !.fp = NoFile])
                                    /\ UNCHANGED <<opened, inodes, gHandle, gInode>>
                      /\ save' = Delete(save, t)
              ELSE UNCHANGED bpfVars
    /\ UNCHANGED <<nlink, igen, ncalls, save_delete>>

(* kretprobe__do_filp_open: the file returned (after vfs_open, or opened  *)
(* by atomic_open without vfs_open; rec its fields) or ERR_PTR (NoFile);   *)
(* a record still saved is completed by SetEventFileStuff or the error    *)
(* and submitted.  The kernel installs the descriptor.                     *)
FilpReturn(t, f, rec) ==
    /\ IF t \in DOMAIN save
         THEN LET s0 == [save[t] EXCEPT !.fp = f]
                  r  == SetEventFileStuff(s0, f, rec)
              IN /\ IF f # NoFile THEN events' = Submit(t, r.s) /\ Apply(r)
                    ELSE /\ events' = Submit(t, [s0 EXCEPT !.res = -1])
                         /\ UNCHANGED <<opened, inodes, gHandle, gInode>>
                 /\ save' = Delete(save, t)
         ELSE UNCHANGED <<opened, inodes, gHandle, gInode, save, events>>
    /\ th' = [th EXCEPT ![t] = Idle]
    /\ UNCHANGED <<ncalls, save_delete>>

kretprobe__do_filp_open(t) ==
    \/ /\ th[t].pc = "openret"
       /\ LET f == th[t].f IN
          /\ FilpReturn(t, f, [file[f] EXCEPT !.fds = 1])
          /\ file' = IF f # NoFile THEN [file EXCEPT ![f].fds = 1] ELSE file
       /\ UNCHANGED <<nlink, igen>>
    \/ /\ th[t].pc = "open"
       /\ \/ FilpReturn(t, NoFile, NoFile) /\ UNCHANGED <<nlink, igen, file>>
          \/ \E i \in Inos, f \in Files :
               Resolve(t, i, f, 1) /\ FilpReturn(t, f, OpenedRec(t, i, 1))

(* kprobe__filp_close: close() has taken the descriptor out of the table; *)
(* for a file in opened, the record keeps i_ino and i_nlink == 0 when      *)
(* f_count <= 1, else inode = -1, and SetEventFileStuff fills the event.   *)
kprobe__filp_close(t) ==
    \E f \in Files :
      /\ file[f] # NoFile /\ file[f].fds >= 1
      /\ Begin(t, "close", "C", f, NoIno)
      /\ file' = [file EXCEPT ![f].fds = @ - 1]
      /\ IF CheckToLog(t) /\ f \in DOMAIN opened
           THEN LET i  == file[f].ino
                    s0 == [NewSave("C") EXCEPT !.fp = f,
                             !.inode = IF FCount(f) <= 1 THEN i ELSE NoIno,
                             !.unlinked = FCount(f) <= 1 /\ nlink[i] = 0]
                    r  == SetEventFileStuff(s0, f, file[f])
                IN Apply(r) /\ save' = Insert(save, t, r.s)
           ELSE UNCHANGED <<opened, inodes, gHandle, gInode, save>>
      /\ UNCHANGED <<nlink, igen, save_delete, events>>

(* kretprobe__filp_close: when the close returned 0 and the record holds  *)
(* an inode, opened.delete(fp) and --opened_handles (a u32), deleting the  *)
(* inode at 0 if it was unlinked; submit.  The kernel's flush may fail,   *)
(* and its fput frees the struct file with the last reference.            *)
kretprobe__filp_close(t) ==
    /\ th[t].pc = "close"
    /\ file' = Fput(th[t].f)
    /\ th' = [th EXCEPT ![t] = Idle]
    /\ \E res \in {0, -1} :
         IF t \in DOMAIN save
           THEN LET s  == [save[t] EXCEPT !.res = res]
                    i  == s.inode
                    h  == DecU32(inodes[i].handles)
                IN /\ IF res = 0 /\ i # NoIno
                        THEN /\ opened' = Delete(opened, s.fp)
                             /\ inodes' = IF i \notin DOMAIN inodes THEN inodes
                                          ELSE IF h = 0 /\ s.unlinked THEN Delete(inodes, i)
                                          ELSE [inodes EXCEPT ![i].handles = h]
                        ELSE UNCHANGED <<opened, inodes>>
                   /\ events' = Submit(t, s)
                   /\ save' = Delete(save, t)
           ELSE UNCHANGED <<opened, inodes, save, events>>
    /\ UNCHANGED <<nlink, igen, ncalls, gHandle, gInode, save_delete>>

(* do_readwrite (the probes on vfs_read/write and the iter functions): a   *)
(* file in opened gets a record filled by SetEventFileStuff.  The call     *)
(* holds a reference (fdget on a shared table) until it returns.           *)
do_readwrite(t, type) ==
    \E f \in Files :
      /\ file[f] # NoFile /\ file[f].fds >= 1
      /\ Begin(t, "rw", type, f, NoIno)
      /\ IF CheckToLog(t) /\ f \in DOMAIN opened
           THEN LET r == SetEventFileStuff(NewSave(type), f, file[f])
                IN Apply(r) /\ save' = Insert(save, t, r.s)
           ELSE UNCHANGED <<opened, inodes, gHandle, gInode, save>>
      /\ UNCHANGED <<nlink, igen, file, save_delete, events>>

(* retprobe__readwrites: submit the record; fdput.                         *)
retprobe__readwrites(t) ==
    /\ th[t].pc = "rw"
    /\ file' = Fput(th[t].f)
    /\ th' = [th EXCEPT ![t] = Idle]
    /\ IF t \in DOMAIN save
         THEN events' = Submit(t, save[t]) /\ save' = Delete(save, t)
         ELSE UNCHANGED <<save, events>>
    /\ UNCHANGED <<nlink, igen, ncalls, opened, inodes, gHandle, gInode, save_delete>>

(* kprobe__vfs_unlink: when i_nlink <= 1 and inodes holds the inode with  *)
(* no open handles, save_delete keeps it for deletion; a logged thread    *)
(* saves a delete record with the inode's uid, or -i_ino when unknown.    *)
kprobe__vfs_unlink(t) ==
    \E i \in Inos :
      /\ nlink[i] >= 1
      /\ Begin(t, "unlink", "U", NoFile, i)
      /\ save_delete' = IF nlink[i] <= 1 /\ i \in DOMAIN inodes /\ inodes[i].handles = 0
                          THEN Insert(save_delete, t, i) ELSE save_delete
      /\ save' = IF CheckToLog(t)
                   THEN Insert(save, t, [NewSave("U") EXCEPT
                          !.iuid = IF i \in DOMAIN inodes THEN inodes[i].uid ELSE -i,
                          !.ig = <<i, igen[i]>>])
                   ELSE save
      /\ UNCHANGED <<nlink, igen, file, opened, inodes, gHandle, gInode, events>>

(* kretprobe__vfs_unlink: the kernel drops the name (or fails); on        *)
(* success an inode in save_delete is deleted from inodes; submit.         *)
kretprobe__vfs_unlink(t) ==
    /\ th[t].pc = "unlink"
    /\ \E ok \in BOOLEAN :
         LET i == th[t].ino IN
         /\ ok => nlink[i] >= 1
         /\ nlink' = IF ok THEN [nlink EXCEPT ![i] = @ - 1] ELSE nlink
         /\ inodes' = IF t \in DOMAIN save_delete /\ ok THEN Delete(inodes, save_delete[t]) ELSE inodes
         /\ save_delete' = Delete(save_delete, t)
         /\ IF t \in DOMAIN save
              THEN /\ events' = Submit(t, [save[t] EXCEPT !.res = IF ok THEN 0 ELSE -1])
                   /\ save' = Delete(save, t)
              ELSE UNCHANGED <<save, events>>
    /\ th' = [th EXCEPT ![t] = Idle]
    /\ UNCHANGED <<igen, file, ncalls, opened, gHandle, gInode>>

-----------------------------------------------------------------------------
(* Kernel steps no probe sees.                                             *)
\* dup() or a fork that shares the file: one more descriptor.
Dup(f) ==
    /\ file[f] # NoFile /\ file[f].fds = 1
    /\ file' = [file EXCEPT ![f].fds = 2]
    /\ UNCHANGED <<nlink, igen, th, ncalls, bpfVars>>

\* mmap() of the file, and munmap(), whose fput may be the last.
Mmap(f) ==
    /\ file[f] # NoFile /\ file[f].fds >= 1 /\ file[f].maps = 0
    /\ file' = [file EXCEPT ![f].maps = 1]
    /\ UNCHANGED <<nlink, igen, th, ncalls, bpfVars>>

Munmap(f) ==
    /\ file[f] # NoFile /\ file[f].maps = 1
    /\ file' = IF FCount(f) = 1 THEN [file EXCEPT ![f] = NoFile] ELSE [file EXCEPT ![f].maps = 0]
    /\ UNCHANGED <<nlink, igen, th, ncalls, bpfVars>>

\* link() adds a name; rename() over a name removes one (vfs_rename).
Link(i) ==
    /\ nlink[i] >= 1 /\ nlink[i] < MaxLinks
    /\ nlink' = [nlink EXCEPT ![i] = @ + 1]
    /\ UNCHANGED <<igen, file, th, ncalls, bpfVars>>

RenameOver(i) ==
    /\ nlink[i] >= 1
    /\ nlink' = [nlink EXCEPT ![i] = @ - 1]
    /\ UNCHANGED <<igen, file, th, ncalls, bpfVars>>

Next ==
    \/ \E t \in Threads :
         \/ kprobe__do_filp_open(t) \/ kprobe__vfs_open(t) \/ kretprobe__vfs_open(t)
         \/ kretprobe__do_filp_open(t)
         \/ kprobe__filp_close(t) \/ kretprobe__filp_close(t)
         \/ \E type \in {"R", "W"} : do_readwrite(t, type)
         \/ retprobe__readwrites(t)
         \/ kprobe__vfs_unlink(t) \/ kretprobe__vfs_unlink(t)
    \/ \E f \in Files : Dup(f) \/ Mmap(f) \/ Munmap(f)
    \/ \E i \in Inos : Link(i) \/ RenameOver(i)

Spec == Init /\ [][Next]_vars

-----------------------------------------------------------------------------
(* Every event the ring buffer receives is of the call that submitted it, *)
(* and no call submits two: do_filp_open's record, replaced by vfs_open's  *)
(* update and deleted by vfs_open's return, is not submitted again by     *)
(* do_filp_open's return, and no record outlives its call.                 *)
EventsMatchCalls ==
    \A i, j \in DOMAIN events :
       /\ events[i].type = events[i].kind
       /\ i # j => events[i].call # events[j].call

(* Two events carry the same inode uid exactly when they are about the    *)
(* same inode: the uid of an inode that is gone is not inherited by a new *)
(* inode given its number.  It is about the entries of inodes that         *)
(* vfs_unlink and filp_close must delete.                                  *)
InodeUidIdentifiesInode ==
    \A i, j \in DOMAIN events :
       events[i].iuid > 0 /\ events[j].iuid > 0 =>
         (events[i].iuid = events[j].iuid <=> events[i].ig = events[j].ig)

(* Two events carry the same handle uid exactly when they are about the   *)
(* same open: a struct file address freed and reused does not pass its     *)
(* uid on.  It is about the opened entries filp_close must delete.         *)
HandleUidIdentifiesOpen ==
    \A i, j \in DOMAIN events :
       events[i].huid > 0 /\ events[j].huid > 0 =>
         (events[i].huid = events[j].huid <=> events[i].og = events[j].og)
====
