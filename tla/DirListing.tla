----------------------------- MODULE DirListing -----------------------------
(***************************************************************************)
(* What a directory listing through the mount promises the kernel: after   *)
(* opendir, each readdir reply carries the next entries of the directory,  *)
(* at least one, in order, without "." and ".."; an empty reply comes only *)
(* when every entry has been given; a reply may be an error, which ends    *)
(* the listing; releasedir ends it at any time.                            *)
(***************************************************************************)
EXTENDS Naturals, Sequences

VARIABLES
    entries,  \* the directory's entries, in readdir order
    mode,     \* "none", or the kind of listing open: "plain", "plus"
    got,      \* the entries the kernel has received in this listing
    end       \* "open", "eof" (empty reply) or "error"

vars == <<entries, mode, got, end>>

Init ==
    /\ mode = "none" /\ got = <<>> /\ end = "open"

Open ==
    /\ mode = "none"
    /\ mode' \in {"plain", "plus"}
    /\ UNCHANGED <<entries, got, end>>

\* A reply of the next k entries.
Deliver ==
    /\ mode # "none" /\ end = "open"
    /\ \E k \in 1..(Len(entries) - Len(got)) :
         got' = got \o SubSeq(entries, Len(got) + 1, Len(got) + k)
    /\ UNCHANGED <<entries, mode, end>>

Eof ==
    /\ mode # "none" /\ end = "open" /\ got = entries
    /\ end' = "eof"
    /\ UNCHANGED <<entries, mode, got>>

Fail ==
    /\ mode # "none" /\ end = "open"
    /\ end' = "error"
    /\ UNCHANGED <<entries, mode, got>>

Close ==
    /\ mode # "none"
    /\ mode' = "none" /\ got' = <<>> /\ end' = "open"
    /\ UNCHANGED entries

Next == Open \/ Deliver \/ Eof \/ Fail \/ Close

Spec == Init /\ [][Next]_vars
====
