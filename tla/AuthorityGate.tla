--------------------------- MODULE AuthorityGate ---------------------------
(***************************************************************************)
(* The process-wide server-authority fence of internal/authoritygate: one  *)
(* incarnation, admission leases, and a quiesce that drains them so that   *)
(* the root supervisor can install another incarnation.                    *)
(*                                                                         *)
(* Every critical section of g.mu is one action.  Lease.Commit releases    *)
(* the mutex around the caller's durable effect, so it is two actions,     *)
(* CommitBegin and CommitEnd; WaitDrained reads the drained channel under  *)
(* the mutex and waits on it outside, so it is WaitBegin followed by       *)
(* WaitReturn or WaitGiveUp.  A channel is named by the order in which     *)
(* make() built it; the set `closedChans' holds those that were closed.    *)
(***************************************************************************)
EXTENDS Naturals, FiniteSets

CONSTANTS
    Lease,        \* the AuthorityLease values Acquire can return
    Incarnation,  \* the incarnation digests the supervisor installs
    Waiter,       \* the goroutines that call WaitDrained
    NoIncarnation \* the incarnation of a lease that was never acquired

ASSUME IncarnationAssumption == NoIncarnation \notin Incarnation

VARIABLES
    incarnation,  \* g.incarnation
    denied,       \* g.denied
    leases,       \* g.leases
    drained,      \* g.drained: the number of the current channel
    closedChans,  \* the channels that have been closed
    twice,        \* the channels that were closed again: in Go, a panic
    taken,        \* l.incarnation of each lease
    cancelled,    \* the leases whose context has ended
    closed,       \* the leases with l.closed
    committing,   \* the leases with l.committing
    epoch,        \* history: the channel in force when a lease was acquired
    waiter        \* what each WaitDrained call is doing

gateVars == <<incarnation, denied, leases, drained, closedChans, twice>>
leaseVars == <<taken, cancelled, closed, committing, epoch>>
vars == <<gateVars, leaseVars, waiter>>

WaitStates == {"idle", "waiting", "drained", "gaveUp"}

IdleWaiter == [state |-> "idle", chan |-> 0]

----------------------------------------------------------------------------

\* NewAuthorityGate closes the first channel: a gate without leases is drained.
Init ==
    /\ incarnation \in Incarnation
    /\ denied \in BOOLEAN
    /\ leases = {}
    /\ drained = 0
    /\ closedChans = {0}
    /\ twice = {}
    /\ taken = [l \in Lease |-> NoIncarnation]
    /\ cancelled = {} /\ closed = {} /\ committing = {}
    /\ epoch = [l \in Lease |-> 0]
    /\ waiter = [w \in Waiter |-> IdleWaiter]

\* Mutant: the first lease in keeps the channel that is already closed.
AcquireKeepsChannel(l) ==
    /\ taken[l] = NoIncarnation
    /\ ~denied
    /\ taken' = [taken EXCEPT ![l] = incarnation]
    /\ epoch' = [epoch EXCEPT ![l] = drained]
    /\ leases' = leases \cup {l}
    /\ UNCHANGED <<incarnation, denied, drained, closedChans, twice,
                   cancelled, closed, committing, waiter>>

\* The gate admits a caller whose own context is still live.
Acquire(l) ==
    /\ taken[l] = NoIncarnation
    /\ ~denied
    /\ drained' = IF leases = {} THEN drained + 1 ELSE drained
    /\ taken' = [taken EXCEPT ![l] = incarnation]
    /\ epoch' = [epoch EXCEPT ![l] = drained']
    /\ leases' = leases \cup {l}
    /\ UNCHANGED <<incarnation, denied, closedChans, twice,
                   cancelled, closed, committing, waiter>>

\* The context Acquire was given ends; the lease's context ends with it.
ContextEnds(l) ==
    /\ taken[l] # NoIncarnation
    /\ l \notin cancelled
    /\ cancelled' = cancelled \cup {l}
    /\ UNCHANGED <<gateVars, taken, closed, committing, epoch, waiter>>

\* AuthorityLease.check: may this lease still act for the server?
Checked(l) ==
    /\ taken[l] # NoIncarnation
    /\ l \notin closed
    /\ ~denied
    /\ incarnation = taken[l]
    /\ l \notin cancelled

CommitBegin(l) ==
    /\ Checked(l)
    /\ l \notin committing
    /\ committing' = committing \cup {l}
    /\ UNCHANGED <<gateVars, taken, cancelled, closed, epoch, waiter>>

\* delete(g.leases, l), and the last lease out closes the channel.
Leave(l) ==
    /\ leases' = leases \ {l}
    /\ IF leases' = {}
       THEN /\ closedChans' = closedChans \cup {drained}
            /\ twice' = twice \cup ({drained} \cap closedChans)
       ELSE UNCHANGED <<closedChans, twice>>
    /\ UNCHANGED <<incarnation, denied, drained>>

\* Mutant: the deferred half counts the lease out whether or not it was closed.
CommitEndAlwaysLeaves(l) ==
    /\ l \in committing
    /\ committing' = committing \ {l}
    /\ Leave(l)
    /\ UNCHANGED <<taken, cancelled, closed, epoch, waiter>>

\* Mutant: a lease closed during its effect is never counted out.
CommitEndNeverLeaves(l) ==
    /\ l \in committing
    /\ committing' = committing \ {l}
    /\ UNCHANGED <<gateVars, taken, cancelled, closed, epoch, waiter>>

\* The deferred half of Commit, run when the durable effect has returned.
CommitEnd(l) ==
    /\ l \in committing
    /\ committing' = committing \ {l}
    /\ IF l \in closed THEN Leave(l) ELSE UNCHANGED gateVars
    /\ UNCHANGED <<taken, cancelled, closed, epoch, waiter>>

\* Mutant: Close counts the lease out while its effect is still in flight.
CloseDuringCommit(l) ==
    /\ taken[l] # NoIncarnation
    /\ l \notin closed
    /\ closed' = closed \cup {l}
    /\ cancelled' = cancelled \cup {l}
    /\ Leave(l)
    /\ UNCHANGED <<taken, committing, epoch, waiter>>

\* Close is idempotent; a lease whose effect is in flight leaves with it.
Close(l) ==
    /\ taken[l] # NoIncarnation
    /\ l \notin closed
    /\ closed' = closed \cup {l}
    /\ cancelled' = cancelled \cup {l}
    /\ IF l \in committing THEN UNCHANGED gateVars ELSE Leave(l)
    /\ UNCHANGED <<taken, committing, epoch, waiter>>

BeginQuiesce ==
    /\ denied' = TRUE
    /\ cancelled' = cancelled \cup leases
    /\ UNCHANGED <<incarnation, leases, drained, closedChans, twice,
                   taken, closed, committing, epoch, waiter>>

WaitBegin(w) ==
    /\ waiter[w].state # "waiting"
    /\ denied
    /\ waiter' = [waiter EXCEPT ![w] = [state |-> "waiting", chan |-> drained]]
    /\ UNCHANGED <<gateVars, leaseVars>>

WaitReturn(w) ==
    /\ waiter[w].state = "waiting"
    /\ waiter[w].chan \in closedChans
    /\ waiter' = [waiter EXCEPT ![w].state = "drained"]
    /\ UNCHANGED <<gateVars, leaseVars>>

\* The context of WaitDrained ends first.
WaitGiveUp(w) ==
    /\ waiter[w].state = "waiting"
    /\ waiter' = [waiter EXCEPT ![w].state = "gaveUp"]
    /\ UNCHANGED <<gateVars, leaseVars>>

Rotate(i) ==
    /\ denied
    /\ leases = {}
    /\ incarnation' = i
    /\ UNCHANGED <<denied, leases, drained, closedChans, twice, leaseVars, waiter>>

\* Only the incarnation in force can be activated.
Activate(i) ==
    /\ denied
    /\ leases = {}
    /\ i = incarnation
    /\ denied' = FALSE
    /\ UNCHANGED <<incarnation, leases, drained, closedChans, twice, leaseVars, waiter>>

Next ==
    \/ \E l \in Lease :
          \/ Acquire(l) \/ ContextEnds(l)
          \/ CommitBegin(l) \/ CommitEnd(l) \/ Close(l)
    \/ \E w \in Waiter : WaitBegin(w) \/ WaitReturn(w) \/ WaitGiveUp(w)
    \/ BeginQuiesce
    \/ \E i \in Incarnation : Rotate(i) \/ Activate(i)

Spec == Init /\ [][Next]_vars

\* Durable effects return, holders close a lease whose context has ended
\* (networking.AuthorityRunner defers Close around the work), and a waiter
\* whose channel is closed is scheduled.
Fairness ==
    /\ \A l \in Lease : /\ WF_vars(CommitEnd(l))
                        /\ WF_vars(l \in cancelled /\ Close(l))
    /\ \A w \in Waiter : WF_vars(WaitReturn(w))

FairSpec == Spec /\ Fairness

----------------------------------------------------------------------------

\* The shape of the gate, its leases and its waiters.
TypeOK ==
    /\ incarnation \in Incarnation
    /\ denied \in BOOLEAN
    /\ leases \in SUBSET Lease
    /\ drained \in Nat
    /\ closedChans \in SUBSET Nat
    /\ twice \in SUBSET Nat
    /\ taken \in [Lease -> Incarnation \cup {NoIncarnation}]
    /\ cancelled \in SUBSET Lease
    /\ closed \in SUBSET Lease
    /\ committing \in SUBSET Lease
    /\ epoch \in [Lease -> Nat]
    /\ waiter \in [Waiter -> [state : WaitStates, chan : Nat]]

\* gate.go:81, "A commit admitted before quiesce may finish during drain,
\* never during install": a durable effect in flight belongs to a lease the
\* gate still counts, taken under the incarnation still in force.
NoCommitDuringInstall ==
    \A l \in committing : l \in leases /\ taken[l] = incarnation

\* The channel a waiter would read now is closed exactly when no lease is
\* left: WaitDrained neither returns early nor waits for nobody.
DrainedExact == (drained \in closedChans) <=> (leases = {})

\* Close, Commit and their races close each channel at most once.
NoDoubleClose == twice = {}

\* The drained channel is closed exactly when no lease is left, and once: a
\* waiter neither returns early nor waits for nobody, and no race panics.
DrainChannelExact == DrainedExact /\ NoDoubleClose

\* While the gate is denied every counted lease has lost its context, so no
\* holder can start a durable effect that a drain would have to outlast.
QuiesceCancels == denied => leases \subseteq cancelled

\* Waiting for the drain ends: quiesced work is cancelled, closed and counted
\* out, also when a Close overtakes the effect that is still in flight.
DrainCompletes ==
    \A w \in Waiter : (waiter[w].state = "waiting") ~> (waiter[w].state # "waiting")

\* gate.go:80, "WaitDrained cannot succeed until the callback AND lease end":
\* once a call has succeeded, every lease acquired before it began waiting is
\* out of the gate with no effect in flight, however late the waiter runs.
DrainMeansEnded ==
    \A w \in Waiter : waiter[w].state = "drained" =>
        \A l \in Lease :
            (taken[l] # NoIncarnation /\ epoch[l] <= waiter[w].chan)
                => l \notin leases /\ l \notin committing

=============================================================================
