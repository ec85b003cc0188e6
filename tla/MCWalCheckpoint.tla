-------------------------- MODULE MCWalCheckpoint --------------------------
(***************************************************************************)
(* Two checkpoints at once beside a writer, a security fence and a         *)
(* readiness probe; or one beside a writer and a security fence, with a    *)
(* security reader and two background readers, one of them maintenance, of *)
(* which one may wait.                                                     *)
(***************************************************************************)
EXTENDS WalCheckpoint, TLC

CONSTANTS c1, c2, w1, f1, p1, s1, b1, m1

TwoCheckpointers == {c1, c2}
TwoWriters == {c1, c2, w1, f1, p1}
OneCheckpointer == {c1}
OneWriters == {c1, w1, f1}
MCFence == {f1}
MCReadiness == {p1}
ThreeReaders == {s1, b1, m1}
MCSecurity == {s1}
MCBackground == {b1, m1}
MCMaintenance == {m1}
None == {}

\* The two checkpoints run the same code.
SwapCheckpointers == Permutations(TwoCheckpointers)

=============================================================================
