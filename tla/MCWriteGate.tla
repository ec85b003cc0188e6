---------------------------- MODULE MCWriteGate ----------------------------
(***************************************************************************)
(* Bounded instances of WriteGate.  Each mix of tickets arrives in every   *)
(* order; the pool is two places so that it fills.                         *)
(***************************************************************************)
EXTENDS WriteGate

T(c, o, i) == [class |-> c, owner |-> o, wal |-> FALSE, probe |-> FALSE, n |-> i]
Wal(c, o, i) == [T(c, o, i) EXCEPT !.wal = TRUE]
ProbeT(c, o, i) == [T(c, o, i) EXCEPT !.probe = TRUE]

MCOwner == {"", "a", "b"}

\* Users of two classes, of whom owner "a" exceeds its share of a full pool,
\* borrow the places of two supervisors, one with more work than its limit.
MixedTickets == {T(5, "a", 1), T(6, "a", 2), T(5, "b", 3),
                 T(7, "a", 4), T(7, "a", 5), T(7, "a", 6), T(8, "b", 7)}

\* Recovery attempts among security fences, a user's readiness probe and a scan;
\* the scan and a fence carry reservations that may not be ready.
RecoveryTickets == {Wal(1, "", 8), T(1, "a", 9), ProbeT(5, "a", 10), Wal(7, "b", 11)}

MCTickets == MixedTickets \cup RecoveryTickets
MCMixes == {MixedTickets, RecoveryTickets \cup {RecoveryTurn}}

\* A scan that never stops, from two supervisors, beside one retention pass and
\* one revocation after another, with recovery attempts that never stop.
EndlessTickets == {T(1, "", 1), T(1, "a", 5), T(7, "a", 2), T(7, "b", 3), T(8, "a", 4)}

EndlessMixes == {EndlessTickets \cup {RecoveryTurn}}

=============================================================================
