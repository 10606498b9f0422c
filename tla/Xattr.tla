------------------------------- MODULE Xattr -------------------------------
(***************************************************************************)
(* The replies of Getxattr and Listxattr (src/fuse/src/node.cpp).  Each   *)
(* handler calls fgetxattr / flistxattr on the Node's descriptor with the *)
(* caller's size, and turns the result into an error, an xattr size reply *)
(* (size 0 asks for the length) or a buffer.  The result is ssize_t and   *)
(* size is size_t: `res > size` converts res to size_t, so -1 compares as *)
(* SIZE_MAX.                                                               *)
(*                                                                         *)
(* The state is one call's inputs: which handler, whether the Node's       *)
(* descriptor was opened O_PATH (findChild) or for reading and writing     *)
(* (Create), the length of the attribute or name list (NoAttr when the     *)
(* attribute does not exist), and the caller's size.                       *)
(***************************************************************************)
EXTENDS Integers

CONSTANTS
    Lengths,   \* lengths of an attribute value or of the name list
    Sizes,     \* sizes the caller passes (0 asks for the length)
    NoAttr     \* the attribute does not exist

ASSUME Lengths \subseteq Nat /\ Sizes \subseteq Nat /\ NoAttr \notin Nat

ENODATA == 61
ERANGE == 34
EBADF == 9

VARIABLES op, fdKind, len, size

vars == <<op, fdKind, len, size>>

Init ==
    /\ op \in {"get", "list"}
    /\ fdKind \in {"path", "rdwr"}
    /\ len \in IF op = "get" THEN Lengths \cup {NoAttr} ELSE Lengths
    /\ size \in Sizes

Next == UNCHANGED vars

Spec == Init /\ [][Next]_vars

-----------------------------------------------------------------------------
(* fgetxattr / flistxattr: [res, errno].  An O_PATH descriptor is refused  *)
(* (EBADF); a missing attribute is ENODATA; size 0 returns the length; a   *)
(* length above size is ERANGE.                                            *)
Syscall(k, l, sz) ==
    CASE k = "path"  -> [res |-> -1, errno |-> EBADF]
      [] l = NoAttr  -> [res |-> -1, errno |-> ENODATA]
      [] sz = 0      -> [res |-> l, errno |-> 0]
      [] l > sz      -> [res |-> -1, errno |-> ERANGE]
      [] OTHER       -> [res |-> l, errno |-> 0]

\* The comparison of ssize_t res with size_t size: res is converted.
AboveSize(res, sz) == res < 0 \/ res > sz

(* Getxattr / Listxattr after the call: a result above size becomes 0 with *)
(* errno ERANGE; -1 replies the error, size 0 the length, otherwise the    *)
(* buffer of res bytes.                                                    *)
Reply(r, sz) ==
    LET res == IF AboveSize(r.res, sz) THEN 0 ELSE r.res
        err == IF AboveSize(r.res, sz) THEN ERANGE ELSE r.errno
    IN CASE res = -1 -> [kind |-> "err", val |-> err]
         [] sz = 0   -> [kind |-> "xattr", val |-> res]
         [] OTHER    -> [kind |-> "buf", val |-> res]

\* Getxattr and Listxattr run the same steps on their own syscall.
Getxattr(k, l, sz) == Reply(Syscall(k, l, sz), sz)

Listxattr(k, l, sz) == Reply(Syscall(k, l, sz), sz)

Handler(o, k, l, sz) == IF o = "get" THEN Getxattr(k, l, sz) ELSE Listxattr(k, l, sz)

-----------------------------------------------------------------------------
\* The reply getxattr(2) / listxattr(2) semantics ask for: the syscall's
\* error, else the length for size 0, else the bytes.
Expected(r, sz) ==
    CASE r.res = -1 -> [kind |-> "err", val |-> r.errno]
      [] sz = 0     -> [kind |-> "xattr", val |-> r.res]
      [] OTHER      -> [kind |-> "buf", val |-> r.res]

(* Every reply is the one the syscall's result calls for: a failed         *)
(* fgetxattr or flistxattr (ENODATA, ERANGE, EBADF) is replied as that     *)
(* error, and a size-0 query with the length.  It is about `res > size`    *)
(* with res = -1 and with size = 0.                                        *)
RepliesMatch ==
    Handler(op, fdKind, len, size) = Expected(Syscall(fdKind, len, size), size)
=============================================================================
