------------------------------- MODULE Clock -------------------------------
(***************************************************************************)
(* The timestamps of the access log (src/fuse/src/LogEntry.cpp):          *)
(* GetRtMonDiff computes, once, realtime minus CLOCK_MONOTONIC_COARSE;     *)
(* GetRTime adds that offset to every later monotonic reading.  A timespec *)
(* is a record [s, ns]; a normalised one has 0 <= ns < 10^9.               *)
(*                                                                         *)
(* The readings are the state: the realtime and monotonic clocks at the   *)
(* first call (rt, mon0) and a later monotonic reading (mon).  The code    *)
(* only adds and subtracts seconds, so the seconds are taken relative to a *)
(* common origin; the nanoseconds are real values at the boundaries.       *)
(* clock_gettime with a valid clock and pointer does not fail, so the      *)
(* error branches (exit, {0, 0}) are not taken.                            *)
(***************************************************************************)
EXTENDS Integers

CONSTANTS
    RtSecs,     \* realtime seconds at the first call
    MonSecs,    \* monotonic seconds
    NanoSecs    \* nanosecond readings

NsPerSec == 1000000000

Timespec(S) == [s : S, ns : NanoSecs]

VARIABLES rt, mon0, mon

vars == <<rt, mon0, mon>>

\* Monotonic time does not go back.
NotBefore(a, b) == a.s > b.s \/ (a.s = b.s /\ a.ns >= b.ns)

Init ==
    /\ rt \in Timespec(RtSecs)
    /\ mon0 \in Timespec(MonSecs)
    /\ mon \in {m \in Timespec(MonSecs) : NotBefore(m, mon0)}

\* The readings are fixed; the properties are about the operators.
Next == UNCHANGED vars

Spec == Init /\ [][Next]_vars

-----------------------------------------------------------------------------
(* GetRtMonDiff: real - mon, borrowing a second when rt.tv_nsec is the    *)
(* smaller.                                                                *)
GetRtMonDiff(r, m) ==
    LET borrow == r.ns < m.ns IN
    [s |-> r.s - (IF borrow THEN 1 ELSE 0) - m.s,
     ns |-> r.ns + (IF borrow THEN NsPerSec ELSE 0) - m.ns]

(* GetRTime: the monotonic reading plus diff, carrying a second when the  *)
(* nanoseconds exceed 10^9.                                                *)
GetRTime(m, diff) ==
    LET ns == m.ns + diff.ns
        carry == ns > NsPerSec
    IN [s |-> m.s + diff.s + (IF carry THEN 1 ELSE 0),
        ns |-> ns - (IF carry THEN NsPerSec ELSE 0)]

-----------------------------------------------------------------------------
\* Reference: the normalised timespec of s seconds plus ns nanoseconds.
Normal(s, ns) == [s |-> s + ns \div NsPerSec, ns |-> ns % NsPerSec]

(* A record's time, GetRTime(mon), is the realtime at mon, normalised: its *)
(* milliseconds tv_nsec / 1000000 fill the three digits SizeTimeNsec gives *)
(* them.  It is about the carry in GetRTime when the nanoseconds add up to *)
(* exactly 10^9.                                                           *)
RTimeExact ==
    GetRTime(mon, GetRtMonDiff(rt, mon0)) =
        Normal(rt.s + mon.s - mon0.s, rt.ns + mon.ns - mon0.ns)
=============================================================================
