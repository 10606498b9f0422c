------------------------------ MODULE InodeIds ------------------------------
(***************************************************************************)
(* The logical inode IDs of the access log: LogEntry::Inodes,             *)
(* LogEntry::CurInode and InformNewNode (src/fuse/src/LogEntry.cpp), the  *)
(* lookup start() makes for every record, and the places a Node is made   *)
(* and freed.  The kernel's inode number for a Node is the Node's address *)
(* (reinterpret_cast<fuse_ino_t>(&node)), so Inodes is keyed by addresses, *)
(* and the allocator may hand a freed Node's address to the next one.     *)
(*                                                                         *)
(* Files are the regular files of the backing directory; each has at most *)
(* one Node.  The steps are the node table's, reduced to what the IDs see: *)
(* findChild inserting a Node (and calling InformNewNode under nodesMutex),*)
(* Create inserting one through HandleCreation (and erasing it again when  *)
(* its second open fails), and a request on a Node starting its record.   *)
(* ForgetMulti never erases a Node (its decrement subtracts nothing; see  *)
(* NodeTable), so it frees no address and is not a step here.             *)
(***************************************************************************)
EXTENDS Integers, Sequences, FiniteSets, TLC

CONSTANTS
    Files,       \* the regular files of the backing directory
    Addrs,       \* the addresses a Node may be allocated at
    NoAddr,      \* a file without a Node
    RootIno,     \* FUSE_ROOT_ID, the kernel's inode number of the root
    InitFiles,   \* the files that exist when the filesystem is mounted
    MaxRecords   \* bound on the records written

ASSUME NoAddr \notin Addrs /\ RootIno \notin Addrs \cup {NoAddr} /\ InitFiles \subseteq Files /\ MaxRecords \in Nat

VARIABLES
    exists,    \* the files present in the backing directory
    node,      \* [Files -> Addrs \cup {NoAddr}]: the address of the file's Node
    via,       \* ghost [Files -> {"lookup", "create"}]: what made the Node
    Inodes,    \* LogEntry::Inodes: address -> logical inode ID
    CurInode,  \* LogEntry::CurInode
    log        \* the records: the file they are about, the ID start() found

vars == <<exists, node, via, Inodes, CurInode, log>>

Record == [file : Files, id : Nat, via : {"lookup", "create"}]

\* The addresses the allocator may return: those no live Node occupies.
FreeAddrs == Addrs \ {node[f] : f \in Files}

(* The state after the session's Init, which registers the root:          *)
(* InformNewNode(FUSE_ROOT_ID, false) takes logical inode ID 1.            *)
Init ==
    /\ exists = InitFiles
    /\ node = [f \in Files |-> NoAddr]
    /\ via = [f \in Files |-> "lookup"]
    /\ Inodes = RootIno :> 1
    /\ CurInode = 1
    /\ log = <<>>

-----------------------------------------------------------------------------
(* InformNewNode(inode, created): a known address gets a fresh ID only    *)
(* when created; an unknown one gets ++CurInode.                           *)
InformNewNode(a, created) ==
    IF a \in DOMAIN Inodes
      THEN IF created THEN /\ Inodes' = [Inodes EXCEPT ![a] = CurInode + 1]
                           /\ CurInode' = CurInode + 1
                      ELSE UNCHANGED <<Inodes, CurInode>>
      ELSE /\ Inodes' = (a :> CurInode + 1) @@ Inodes
           /\ CurInode' = CurInode + 1

(* findChild inserting a Node for a regular file it found by fstatat: the *)
(* emplace and, for a new regular-file Node, InformNewNode(res, false),   *)
(* both under the exclusive nodesMutex.                                    *)
Lookup(f) ==
    /\ f \in exists /\ node[f] = NoAddr
    /\ \E a \in FreeAddrs :
         /\ node' = [node EXCEPT ![f] = a]
         /\ InformNewNode(a, FALSE)
    /\ via' = [via EXCEPT ![f] = "lookup"]
    /\ UNCHANGED <<exists, log>>

(* Create, under createMutex: mknodat, then HandleCreation's emplace and,  *)
(* for the new regular-file Node, InformNewNode(node, true) under          *)
(* nodesMutex; the open record is started with the Node's address.  When  *)
(* the second openat fails and nobody else has seen the Node, the rollback *)
(* unlinks the name and erases the Node, freeing its address; Inodes keeps *)
(* the entry.  Create's record is written either way.  A file is created   *)
(* at most once: a name created again is another file.                     *)
Create(f) ==
    /\ f \notin exists /\ via[f] = "lookup"
    /\ Len(log) < MaxRecords
    /\ \E a \in FreeAddrs :
         /\ InformNewNode(a, TRUE)
         /\ \/ /\ node' = [node EXCEPT ![f] = a]
               /\ exists' = exists \cup {f}
            \/ UNCHANGED <<node, exists>>
    /\ via' = [via EXCEPT ![f] = "create"]
    /\ log' = Append(log, [file |-> f, id |-> CurInode + 1, via |-> "create"])

\* start()'s lookup: Inodes[ino], or 0 when absent.
IdOf(a) == IF a \in DOMAIN Inodes THEN Inodes[a] ELSE 0

(* A request on the file's Node (Open, Read, Write, Release, or Create's  *)
(* own record) starts a record with the ID start() finds.                  *)
Access(f) ==
    /\ node[f] # NoAddr
    /\ Len(log) < MaxRecords
    /\ log' = Append(log, [file |-> f, id |-> IdOf(node[f]), via |-> via[f]])
    /\ UNCHANGED <<exists, node, via, Inodes, CurInode>>

Next ==
    \E f \in Files : Lookup(f) \/ Create(f) \/ Access(f)

Spec == Init /\ [][Next]_vars

-----------------------------------------------------------------------------
(* Inodes holds IDs issued by the counter.                                 *)
TypeOK ==
    /\ exists \subseteq Files
    /\ node \in [Files -> Addrs \cup {NoAddr}]
    /\ via \in [Files -> {"lookup", "create"}]
    /\ DOMAIN Inodes \subseteq Addrs \cup {RootIno} /\ \A a \in DOMAIN Inodes : Inodes[a] \in 1..CurInode
    /\ CurInode \in Nat
    /\ log \in Seq(Record)

(* The logical inode ID identifies the file: two records with IDs carry    *)
(* the same ID exactly when they are about the same file (spec 2: a        *)
(* mapping from underlying inode number).  It is about Inodes being keyed  *)
(* by Node addresses, which Create's rollback frees and the allocator     *)
(* reuses.                                                                 *)
LogInodeIdentifiesFile ==
    \A i, j \in 1..Len(log) :
        log[i].id # 0 /\ log[j].id # 0 =>
            ((log[i].id = log[j].id) <=> (log[i].file = log[j].file))
=============================================================================
