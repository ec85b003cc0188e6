------------------------ MODULE AuthorityGateProofs ------------------------
(***************************************************************************)
(* For every set of leases, incarnations and waiters: the safety           *)
(* invariants of AuthorityGate, from one inductive invariant.              *)
(*                                                                         *)
(* None of them is inductive alone.  What carries them is how the gate's   *)
(* three records of a lease agree: g.leases holds exactly the leases that  *)
(* are acquired and are either not closed or still committing, all of them *)
(* were acquired under the incarnation and the channel now in force, and   *)
(* channels are numbered in the order they were made.                      *)
(***************************************************************************)
EXTENDS AuthorityGate, TLAPS

\* g.leases agrees with the fields of every lease.
LeasesAgree ==
    /\ \A l \in Lease :
          l \in leases <=> taken[l] # NoIncarnation /\ (l \notin closed \/ l \in committing)
    /\ \A l \in committing \cup closed : taken[l] # NoIncarnation

\* A counted lease was acquired under the incarnation and channel in force.
LeasesCurrent ==
    \A l \in leases : taken[l] = incarnation /\ epoch[l] = drained

\* No channel above the current one exists, and a call that succeeded did so
\* on a closed one.
ChannelsOrdered ==
    /\ \A c \in closedChans : c <= drained
    /\ \A w \in Waiter :
          /\ waiter[w].chan <= drained
          /\ waiter[w].state = "drained" => waiter[w].chan \in closedChans

\* The inductive invariant.
IInv ==
    /\ TypeOK
    /\ DrainedExact
    /\ NoDoubleClose
    /\ QuiesceCancels
    /\ LeasesAgree
    /\ LeasesCurrent
    /\ ChannelsOrdered

\* The gate NewAuthorityGate returns satisfies the inductive invariant.
LEMMA InitIInv == Init => IInv
<1> SUFFICES ASSUME Init PROVE IInv
    OBVIOUS
<1> USE DEF Init
<1>1. TypeOK
  <2>1. IdleWaiter \in [state : WaitStates, chan : Nat]
    BY DEF IdleWaiter, WaitStates
  <2> QED BY <2>1 DEF TypeOK
<1>2. DrainedExact /\ NoDoubleClose /\ QuiesceCancels
  BY DEF DrainedExact, NoDoubleClose, QuiesceCancels
<1>3. LeasesAgree /\ LeasesCurrent
  BY DEF LeasesAgree, LeasesCurrent
<1>4. ChannelsOrdered
  BY DEF ChannelsOrdered, IdleWaiter
<1> QED BY <1>1, <1>2, <1>3, <1>4 DEF IInv

\* Counting a lease out (delete, and close on the last one) keeps the channel exact.
LEMMA LeaveKeeps ==
    ASSUME NEW l \in Lease, l \in leases, IInv, Leave(l)
    PROVE  /\ leases' = leases \ {l}
           /\ closedChans' \in SUBSET Nat
           /\ twice' = twice
           /\ DrainedExact'
           /\ \A c \in closedChans' : c <= drained
           /\ closedChans \subseteq closedChans'
           /\ UNCHANGED <<incarnation, denied, drained>>
<1>1. drained \notin closedChans /\ drained \in Nat /\ closedChans \in SUBSET Nat
  BY DEF IInv, DrainedExact, TypeOK
<1>2. CASE leases' = {}
  <2>1. /\ leases' = leases \ {l}
        /\ closedChans' = closedChans \cup {drained}
        /\ twice' = twice \cup ({drained} \cap closedChans)
        /\ UNCHANGED <<incarnation, denied, drained>>
    BY <1>2, Zenon DEF Leave
  <2>2. twice' = twice
    BY <1>1, <2>1
  <2>3. DrainedExact'
    BY <1>2, <2>1 DEF DrainedExact
  <2>4. closedChans' \in SUBSET Nat /\ \A c \in closedChans' : c <= drained
    BY <1>1, <2>1 DEF IInv, ChannelsOrdered
  <2> QED BY <2>1, <2>2, <2>3, <2>4
<1>3. CASE leases' # {}
  BY <1>1, <1>3 DEF IInv, DrainedExact, ChannelsOrdered, Leave, TypeOK
<1> QED BY <1>2, <1>3

\* Every step of the gate keeps the inductive invariant.
LEMMA NextIInv == IInv /\ [Next]_vars => IInv'
<1> SUFFICES ASSUME IInv, [Next]_vars PROVE IInv'
    OBVIOUS
<1> USE DEF IInv, gateVars, leaseVars
<1>1. ASSUME NEW l \in Lease, Acquire(l) PROVE IInv'
  <2> USE <1>1 DEF Acquire
  <2>1. drained' \in Nat /\ drained <= drained' /\ (leases # {} => drained' = drained)
    BY DEF TypeOK
  <2>2. TypeOK'
    BY <2>1 DEF TypeOK
  <2>3. DrainedExact'
    BY <2>1 DEF DrainedExact, TypeOK, ChannelsOrdered
  <2>4. NoDoubleClose' /\ QuiesceCancels'
    BY DEF NoDoubleClose, QuiesceCancels
  <2>5. LeasesAgree'
    BY IncarnationAssumption DEF LeasesAgree, TypeOK
  <2>6. LeasesCurrent'
    BY <2>1 DEF LeasesCurrent, TypeOK
  <2>7. ChannelsOrdered'
    BY <2>1 DEF ChannelsOrdered, TypeOK
  <2> QED BY <2>2, <2>3, <2>4, <2>5, <2>6, <2>7
<1>2. ASSUME NEW l \in Lease, ContextEnds(l) PROVE IInv'
  BY <1>2 DEF ContextEnds, TypeOK, DrainedExact, NoDoubleClose, QuiesceCancels,
              LeasesAgree, LeasesCurrent, ChannelsOrdered
<1>3. ASSUME NEW l \in Lease, CommitBegin(l) PROVE IInv'
  BY <1>3 DEF CommitBegin, Checked, TypeOK, DrainedExact, NoDoubleClose,
              QuiesceCancels, LeasesAgree, LeasesCurrent, ChannelsOrdered
<1>4. ASSUME NEW l \in Lease, CommitEnd(l) PROVE IInv'
  <2>0. l \in leases
    BY <1>4 DEF CommitEnd, LeasesAgree
  <2>1. CASE l \in closed
    <3>1. Leave(l)
      BY <1>4, <2>1 DEF CommitEnd
    <3>2. TypeOK' /\ QuiesceCancels' /\ NoDoubleClose'
      BY <1>4, <2>0, <3>1, LeaveKeeps DEF CommitEnd, TypeOK, QuiesceCancels, NoDoubleClose
    <3>3. LeasesAgree' /\ LeasesCurrent'
      BY <1>4, <2>0, <2>1, <3>1, LeaveKeeps DEF CommitEnd, TypeOK, LeasesAgree, LeasesCurrent
    <3>4. ChannelsOrdered'
      BY <1>4, <2>0, <3>1, LeaveKeeps DEF CommitEnd, TypeOK, ChannelsOrdered
    <3> QED BY <2>0, <3>1, <3>2, <3>3, <3>4, LeaveKeeps
  <2>2. CASE l \notin closed
    <3>0. UNCHANGED <<incarnation, leases, drained, closedChans, twice, denied>>
      BY <1>4, <2>0, <2>2, Zenon DEF CommitEnd
    <3>1. TypeOK' /\ QuiesceCancels' /\ NoDoubleClose' /\ DrainedExact'
      BY <3>0, <1>4, <2>0, <2>2 DEF CommitEnd, TypeOK, QuiesceCancels, NoDoubleClose, DrainedExact
    <3>2. LeasesAgree' /\ LeasesCurrent'
      BY <1>4, <2>0, <2>2 DEF CommitEnd, TypeOK, LeasesAgree, LeasesCurrent
    <3>3. ChannelsOrdered'
      BY <1>4, <2>0, <2>2 DEF CommitEnd, TypeOK, ChannelsOrdered
    <3> QED BY <3>1, <3>2, <3>3
  <2> QED BY <2>1, <2>2
<1>5. ASSUME NEW l \in Lease, Close(l) PROVE IInv'
  <2>0. l \in leases
    BY <1>5 DEF Close, LeasesAgree
  <2>1. CASE l \in committing
    <3>0. UNCHANGED <<incarnation, leases, drained, closedChans, twice, denied>>
      BY <1>5, <2>0, <2>1, Zenon DEF Close
    <3>1. TypeOK' /\ QuiesceCancels' /\ NoDoubleClose' /\ DrainedExact'
      BY <3>0, <1>5, <2>0, <2>1 DEF Close, TypeOK, QuiesceCancels, NoDoubleClose, DrainedExact
    <3>2. LeasesAgree' /\ LeasesCurrent'
      BY <1>5, <2>0, <2>1 DEF Close, TypeOK, LeasesAgree, LeasesCurrent
    <3>3. ChannelsOrdered'
      BY <1>5, <2>0, <2>1 DEF Close, TypeOK, ChannelsOrdered
    <3> QED BY <3>1, <3>2, <3>3
  <2>2. CASE l \notin committing
    <3>1. Leave(l)
      BY <1>5, <2>2 DEF Close
    <3>2. TypeOK' /\ QuiesceCancels' /\ NoDoubleClose'
      BY <1>5, <2>0, <3>1, LeaveKeeps DEF Close, TypeOK, QuiesceCancels, NoDoubleClose
    <3>3. LeasesAgree' /\ LeasesCurrent'
      BY <1>5, <2>0, <2>2, <3>1, LeaveKeeps DEF Close, TypeOK, LeasesAgree, LeasesCurrent
    <3>4. ChannelsOrdered'
      BY <1>5, <2>0, <3>1, LeaveKeeps DEF Close, TypeOK, ChannelsOrdered
    <3> QED BY <2>0, <3>1, <3>2, <3>3, <3>4, LeaveKeeps
  <2> QED BY <2>1, <2>2
<1>6. ASSUME BeginQuiesce PROVE IInv'
  BY <1>6 DEF BeginQuiesce, TypeOK, DrainedExact, NoDoubleClose, QuiesceCancels,
              LeasesAgree, LeasesCurrent, ChannelsOrdered
<1>7. ASSUME NEW w \in Waiter, WaitBegin(w) PROVE IInv'
  BY <1>7 DEF WaitBegin, TypeOK, WaitStates, DrainedExact, NoDoubleClose, QuiesceCancels,
              LeasesAgree, LeasesCurrent, ChannelsOrdered
<1>8. ASSUME NEW w \in Waiter, WaitReturn(w) PROVE IInv'
  BY <1>8 DEF WaitReturn, TypeOK, WaitStates, DrainedExact, NoDoubleClose, QuiesceCancels,
              LeasesAgree, LeasesCurrent, ChannelsOrdered
<1>9. ASSUME NEW w \in Waiter, WaitGiveUp(w) PROVE IInv'
  BY <1>9 DEF WaitGiveUp, TypeOK, WaitStates, DrainedExact, NoDoubleClose, QuiesceCancels,
              LeasesAgree, LeasesCurrent, ChannelsOrdered
<1>10. ASSUME NEW i \in Incarnation, Rotate(i) PROVE IInv'
  BY <1>10 DEF Rotate, TypeOK, DrainedExact, NoDoubleClose, QuiesceCancels, LeasesAgree,
               LeasesCurrent, ChannelsOrdered
<1>11. ASSUME NEW i \in Incarnation, Activate(i) PROVE IInv'
  BY <1>11 DEF Activate, TypeOK, DrainedExact, NoDoubleClose, QuiesceCancels, LeasesAgree,
               LeasesCurrent, ChannelsOrdered
<1>12. CASE UNCHANGED vars
  BY <1>12 DEF vars, TypeOK, DrainedExact, NoDoubleClose, QuiesceCancels, LeasesAgree,
               LeasesCurrent, ChannelsOrdered
<1> QED BY <1>1, <1>2, <1>3, <1>4, <1>5, <1>6, <1>7, <1>8, <1>9, <1>10, <1>11, <1>12 DEF Next

\* The inductive invariant implies what the code's comments promise.
LEMMA IInvSuffices == IInv => NoCommitDuringInstall /\ DrainMeansEnded
<1> SUFFICES ASSUME IInv PROVE NoCommitDuringInstall /\ DrainMeansEnded
    OBVIOUS
<1>1. NoCommitDuringInstall
  BY DEF IInv, TypeOK, NoCommitDuringInstall, LeasesAgree, LeasesCurrent
<1>2. DrainMeansEnded
  <2> SUFFICES ASSUME NEW w \in Waiter, waiter[w].state = "drained",
                      NEW l \in Lease, taken[l] # NoIncarnation,
                      epoch[l] <= waiter[w].chan
               PROVE  l \notin leases /\ l \notin committing
      BY DEF DrainMeansEnded
  <2>1. waiter[w].chan <= drained /\ waiter[w].chan \in closedChans
    BY DEF IInv, ChannelsOrdered
  <2>2. waiter[w].chan \in Nat /\ drained \in Nat
    BY DEF IInv, TypeOK
  <2>3. l \notin leases
    BY <2>1, <2>2 DEF IInv, LeasesCurrent, DrainedExact
  <2>4. l \notin committing
    BY <2>3 DEF IInv, LeasesAgree
  <2> QED BY <2>3, <2>4
<1> QED BY <1>1, <1>2

\* The inductive invariant holds in every reachable state.
LEMMA Invariance == Spec => []IInv
BY InitIInv, NextIInv, PTL DEF Spec

\* The gate's state keeps its shape (gate.go:20-34).
THEOREM TypeCorrect == Spec => []TypeOK
<1>1. IInv => TypeOK
  BY DEF IInv
<1> QED BY Invariance, <1>1, PTL

\* No durable effect runs under an incarnation other than the one in force,
\* so none runs during an install (gate.go:81).
THEOREM CommitNeverDuringInstall == Spec => []NoCommitDuringInstall
BY Invariance, IInvSuffices, PTL

\* The drained channel says exactly whether a lease is left, and is never
\* closed twice (gate.go:53-55, 107-112, 131-134).
THEOREM ChannelExact == Spec => []DrainChannelExact
<1>1. IInv => DrainChannelExact
  BY DEF IInv, DrainChannelExact
<1> QED BY Invariance, <1>1, PTL

\* A WaitDrained call that succeeded waited for every lease before it and for
\* every effect of theirs (gate.go:80).
THEOREM DrainSound == Spec => []DrainMeansEnded
BY Invariance, IInvSuffices, PTL

\* Quiesce leaves no admitted lease with a live context (gate.go:136-143).
THEOREM QuiesceSound == Spec => []QuiesceCancels
<1>1. IInv => QuiesceCancels
  BY DEF IInv
<1> QED BY Invariance, <1>1, PTL

=============================================================================
