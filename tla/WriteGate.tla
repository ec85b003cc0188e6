----------------------------- MODULE WriteGate -----------------------------
(***************************************************************************)
(* The write gate of internal/dbwork (gate.go): the one application-level  *)
(* lock in front of SQLite's single writer.  Callers queue tickets by      *)
(* class and owner in one bounded pool, background work is deferred while  *)
(* users queue, the next holder is picked in one place and announced on a  *)
(* broadcast channel, and WAL recovery can hold, then pause, the gate for  *)
(* one reserved turn.                                                      *)
(*                                                                         *)
(* Every critical section of g.mu is one action.  A ticket stands for a    *)
(* caller with one class and owner, which may acquire again once it was    *)
(* answered.  Data the gate only compares is kept as what the comparisons  *)
(* tell apart: ticket ids and arrival stamps (`since', read just before    *)
(* the mutex) as the order of the waiting tickets, recovery epochs as the  *)
(* phase of the one attempt in force, and the write generation as its      *)
(* distance from the last copy fence, where only 0, 1 and more differ.     *)
(* Statistics, timings and stack traces decide nothing and are left out.   *)
(***************************************************************************)
EXTENDS Naturals, Sequences, FiniteSets, SequencesExt

CONSTANTS
    Ticket,                  \* the acquisitions: see TicketRecord
    Owner,                   \* fairness keys: accounts and supervisor operations
    NoOwner,                 \* "": work without a fairness key shares one queue
    NoTicket,                \* nil
    WriterQueueCapacity,     \* the bound on queued tickets (99 in the code)
    OwnerQueueShare,         \* queued tickets an owner keeps in a full pool (2)
    RecoverySecurityReserve, \* security turns during one pressure hold (128)
    Mixes                    \* who comes: sets of tickets, with the recovery turn
                             \* where the WAL can reach the hard threshold

\* The class ladder, most important first (class.go).
SecurityFence == 1
BackgroundMedia == 7
Maintenance == 8
Class == 1 .. 8
UserClass == 1 .. 6
BackgroundClass == {BackgroundMedia, Maintenance}

\* `wal': the write carries a qualified WAL reservation; `probe': a readiness
\* probe, which takes the gate and cannot append frames; `n' tells tickets apart.
TicketRecord == [class : Class, owner : Owner, wal : BOOLEAN, probe : BOOLEAN, n : Nat]

\* The checkpoint owner's reserved turn (ticket.recovery).
RecoveryTurn == [class |-> Maintenance, owner |-> NoOwner, wal |-> FALSE,
                 probe |-> FALSE, n |-> 0]

ASSUME TicketAssumption ==
    /\ NoOwner \in Owner
    /\ Ticket \subseteq TicketRecord /\ RecoveryTurn \notin Ticket
    /\ NoTicket \notin Ticket \cup {RecoveryTurn}

ASSUME BoundsAssumption ==
    /\ WriterQueueCapacity \in Nat \ {0} /\ OwnerQueueShare \in Nat \ {0}
    /\ RecoverySecurityReserve \in Nat \ {0}
    /\ Mixes \subseteq SUBSET (Ticket \cup {RecoveryTurn})

VARIABLES
    pool,        \* arrival order, class queues, deferred queues, their counters
    active,      \* g.active
    holder,      \* the ticket behind holderClass, holderOwner and holderProbe
    grant,       \* g.grant
    recovery,    \* phase (holdEpoch, pauseEpoch), holdSecurity, recoveryTicket
    generation,  \* writeGeneration since the owner's copyFence, 2 for "more"
    turn,        \* recoverWAL's copy fence: "unread", "fenced", then "asked" for its turn
    call,        \* where each caller stands, the reserved turn included
    aged,        \* maintenance tickets that waited GateAgePromotionInterval
    blocked,     \* tickets whose WAL reservation is not ready
    probed,      \* the ledger was probed and wakeWALWaiters has not run yet
    announced    \* notify was closed since the grant last moved

gateVars == <<pool, active, holder, grant, announced>>
ownerVars == <<recovery, turn>>
walVars == <<blocked, probed>>
vars == <<gateVars, generation, ownerVars, call, aged, walVars>>

\* A caller is idle, or was last refused, until it acquires (again); one that is
\* not in the mix never comes.
CallStates == {"never", "idle", "refused", "waiting", "holding"}

----------------------------------------------------------------------------
(* classQueue: owners in rotation, first in first out for one owner.        *)

EmptyQueue == [rotation |-> <<>>, tickets |-> [o \in Owner |-> <<>>]]

\* The rotation once o has a ticket.
Joined(q, o) == IF q.tickets[o] = <<>> THEN Append(q.rotation, o) ELSE q.rotation

\* A ticket joins its owner's line behind the others, or in front of them.
Push(q, t) == [rotation |-> Joined(q, t.owner),
               tickets  |-> [q.tickets EXCEPT ![t.owner] = Append(@, t)]]
PushFront(q, t) == [rotation |-> Joined(q, t.owner),
                    tickets  |-> [q.tickets EXCEPT ![t.owner] = <<t>> \o @]]

\* A served owner moves to the back; an owner with nothing left leaves.
Drop(q, t, served) ==
    LET rest   == RemoveFirst(q.tickets[t.owner], t)
        others == RemoveFirst(q.rotation, t.owner)
    IN  [rotation |-> IF rest = <<>> THEN others
                      ELSE IF served THEN Append(others, t.owner) ELSE q.rotation,
         tickets  |-> [q.tickets EXCEPT ![t.owner] = rest]]

\* The ticket this queue would serve next.
FrontTicket(q) == IF q.rotation = <<>> THEN NoTicket ELSE q.tickets[q.rotation[1]][1]

Tickets(q) == UNION {ToSet(q.tickets[o]) : o \in Owner}

----------------------------------------------------------------------------
(* The pool: every helper below maps a pool to the pool it leaves behind.   *)

EmptyPool == [order |-> <<>>,
              queues |-> [c \in Class |-> EmptyQueue],
              deferred |-> [c \in Class |-> EmptyQueue],
              userQueued |-> 0, ownerQueued |-> [o \in Owner \ {NoOwner} |-> 0]]

Background(t) == t.class \in BackgroundClass

IsDeferred(P, t) == t \in Tickets(P.deferred[t.class])

\* What owner o has waiting in class c: its admitted tickets, then the deferred.
Line(P, c, o) == P.queues[c].tickets[o] \o P.deferred[c].tickets[o]

BackgroundQueued(P) ==
    Cardinality(UNION {Tickets(P.queues[c]) : c \in BackgroundClass})

\* userQueued and ownerQueued follow a user ticket into and out of its queue.
CountIn(P, t) ==
    IF Background(t) THEN P
    ELSE [P EXCEPT !.userQueued = @ + 1,
                   !.ownerQueued = [o \in DOMAIN @ |-> IF o = t.owner THEN @[o] + 1 ELSE @[o]]]

\* Mutant: only the total is counted down, the owner's share is not.
CountOutTotalOnly(P, t) == IF Background(t) THEN P ELSE [P EXCEPT !.userQueued = @ - 1]

CountOut(P, t) ==
    IF Background(t) THEN P
    ELSE [P EXCEPT !.userQueued = @ - 1,
                   !.ownerQueued = [o \in DOMAIN @ |-> IF o = t.owner THEN @[o] - 1 ELSE @[o]]]

\* enqueueLocked of a ticket that is not deferred, and of one that is.
Enqueue(P, t) == [CountIn(P, t) EXCEPT !.queues[t.class] = Push(@, t)]
Defer(P, t) == [P EXCEPT !.deferred[t.class] = Push(@, t)]

RemoveWaiter(P, t, served) ==
    IF IsDeferred(P, t) THEN [P EXCEPT !.deferred[t.class] = Drop(@, t, served)]
    ELSE [CountOut(P, t) EXCEPT !.queues[t.class] = Drop(@, t, served)]

\* A ticket that leaves the gate's queues for good: its id is compared no more.
Depart(P, t, served) == [RemoveWaiter(P, t, served) EXCEPT !.order = RemoveFirst(@, t)]

\* The ids of the tickets of S, and the newest and the oldest of them.
Ids(P, S) == {i \in DOMAIN P.order : P.order[i] \in S}
Newest(P, S) == P.order[Max(Ids(P, S))]
Oldest(P, S) == P.order[Min(Ids(P, S))]

\* Mutant: an owner exactly at its share already pays.
VictimAtShare(P, g, arrival) ==
    LET atShare == {t \in UNION {Tickets(P.queues[c]) : c \in UserClass} :
                      /\ t # g /\ t.class >= arrival.class
                      /\ t.owner # NoOwner /\ P.ownerQueued[t.owner] >= OwnerQueueShare}
    IN  IF atShare = {} THEN NoTicket ELSE Newest(P, atShare)

\* makeRoomLocked: the ticket that makes room for arrival, or NoTicket.  An
\* owner over its share pays for an arrival within its own; otherwise the least
\* important class below the arrival's pays.  The pending grant never does.
Victim(P, g, arrival) ==
    LET overShare == {t \in UNION {Tickets(P.queues[c]) : c \in UserClass} :
                        /\ t # g /\ t.class >= arrival.class
                        /\ t.owner # NoOwner /\ P.ownerQueued[t.owner] > OwnerQueueShare}
        below     == {t \in UNION {Tickets(P.queues[c]) : c \in UserClass} :
                        t # g /\ t.class > arrival.class}
        least     == {t \in below : \A u \in below : u.class <= t.class}
    IN  IF /\ arrival.owner = NoOwner \/ P.ownerQueued[arrival.owner] < OwnerQueueShare
           /\ overShare # {}
        THEN Newest(P, overShare)
        ELSE IF below # {} THEN Newest(P, least) ELSE NoTicket

\* makeBackgroundRoomLocked: the background ticket a user borrows the place of.
Borrowed(P) ==
    LET admitted == UNION {Tickets(P.queues[c]) : c \in BackgroundClass}
    IN  IF P.userQueued + BackgroundQueued(P) < WriterQueueCapacity \/ admitted = {}
        THEN NoTicket ELSE Newest(P, admitted)

\* Mutant: the borrowed ticket queues behind its owner's newer work.
ReturnToBack(P, t) == Defer(RemoveWaiter(P, t, FALSE), t)

\* The borrowed ticket goes back to its supervisor's pending work, in front.
ReturnToDeferred(P, t) ==
    [RemoveWaiter(P, t, FALSE) EXCEPT !.deferred[t.class] = PushFront(@, t)]

\* Mutant: a user is queued on top of a pool that background work fills.
NoBackgroundRoom(P) == P

MakeBackgroundRoom(P) ==
    IF Borrowed(P) = NoTicket THEN P ELSE ReturnToDeferred(P, Borrowed(P))

BackgroundTicketLimit(c) == IF c = Maintenance THEN 1 ELSE 2

\* Mutant: waiting never promotes maintenance.
RungWithoutAge(t) == t.class

\* promotedPriority: maintenance earns the media rung by waiting; then it ties.
Rung(t) == IF t \in aged /\ call[t] = "waiting" THEN BackgroundMedia ELSE t.class

\* The best rung wins, and on one rung the earlier arrival.
Earliest(P, S) == Oldest(P, {t \in S : \A u \in S : Rung(t) <= Rung(u)})

\* Mutant: the holder's own ticket is not counted against its supervisor.
OutstandingQueued(P, h, c, o) == Len(P.queues[c].tickets[o])

\* The tickets of owner o in class c that are queued or hold the gate.
Outstanding(P, h, c, o) ==
    Len(P.queues[c].tickets[o])
      + (IF h # NoTicket /\ h.class = c /\ h.owner = o THEN 1 ELSE 0)

\* The first owner of the rotor that is under its limit offers its oldest ticket.
Offers(P, h) ==
    {t \in UNION {Tickets(P.deferred[c]) : c \in BackgroundClass} :
        LET rotor == P.deferred[t.class].rotation
            under(i) == Outstanding(P, h, t.class, rotor[i]) < BackgroundTicketLimit(t.class)
        IN  \E i \in 1 .. Len(rotor) :
                /\ under(i) /\ \A j \in 1 .. i - 1 : ~under(j)
                /\ t = P.deferred[t.class].tickets[rotor[i]][1]}

AdmitOne(P, h) ==
    IF BackgroundQueued(P) >= WriterQueueCapacity \/ Offers(P, h) = {} THEN P
    ELSE LET t == Earliest(P, Offers(P, h)) IN Enqueue(RemoveWaiter(P, t, TRUE), t)

\* admitBackgroundLocked: at most one round per place in the pool.
AdmitBackground(P, h, r) ==
    IF P.userQueued # 0 \/ r.phase # "none" THEN P
    ELSE LET admit[n \in 0 .. WriterQueueCapacity] ==
                 IF n = 0 THEN P ELSE AdmitOne(admit[n - 1], h)
         IN  admit[WriterQueueCapacity]

----------------------------------------------------------------------------
(* pickWinnerLocked: the one place that decides who is next.                *)

Ready(t) == t # NoTicket /\ t \notin blocked

NextUser(P) ==
    LET fronts == {c \in UserClass : Ready(FrontTicket(P.queues[c]))}
    IN  IF fronts = {} THEN NoTicket
        ELSE FrontTicket(P.queues[CHOOSE c \in fronts : \A d \in fronts : c <= d])

NextBackground(P) ==
    LET fronts == {t \in {FrontTicket(P.queues[c]) : c \in BackgroundClass} : Ready(t)}
    IN  IF fronts = {} THEN NoTicket ELSE Earliest(P, fronts)

\* Mutant: a pressure hold passes every security fence.
PickWithoutReserve(P, h, r) ==
    IF r.phase = "pause" THEN r.ticket
    ELSE IF r.phase = "hold"
    THEN IF Ready(FrontTicket(P.queues[SecurityFence]))
         THEN FrontTicket(P.queues[SecurityFence]) ELSE NoTicket
    ELSE IF P.userQueued > 0 THEN NextUser(P)
    ELSE NextBackground(AdmitBackground(P, h, r))

\* Mutant: background work overtakes users that wait for WAL space.
PickOvertakesUsers(P, h, r) ==
    IF r.phase = "pause" THEN r.ticket
    ELSE IF r.phase = "hold"
    THEN IF r.security < RecoverySecurityReserve /\ Ready(FrontTicket(P.queues[SecurityFence]))
         THEN FrontTicket(P.queues[SecurityFence]) ELSE NoTicket
    ELSE IF NextUser(P) # NoTicket THEN NextUser(P)
    ELSE NextBackground(AdmitBackground(P, h, r))

PickWinner(P, h, r) ==
    IF r.phase = "pause" THEN r.ticket
    ELSE IF r.phase = "hold"
    THEN IF r.security < RecoverySecurityReserve /\ Ready(FrontTicket(P.queues[SecurityFence]))
         THEN FrontTicket(P.queues[SecurityFence]) ELSE NoTicket
    ELSE IF P.userQueued > 0 THEN NextUser(P)
    ELSE NextBackground(AdmitBackground(P, h, r))

\* Mutant: the new grant is not broadcast.
SettleSilently(P, h, r) ==
    /\ IF h = NoTicket
       THEN pool' = AdmitBackground(P, h, r) /\ grant' = PickWinner(P, h, r)
       ELSE pool' = P /\ UNCHANGED grant
    /\ announced' = (grant' = NoTicket \/ (grant' = grant /\ announced))

\* What most critical sections end with: pick again when nobody holds the gate
\* (which admits background work), and close the notify channel.
Settle(P, h, r) ==
    /\ IF h = NoTicket
       THEN pool' = AdmitBackground(P, h, r) /\ grant' = PickWinner(P, h, r)
       ELSE pool' = P /\ UNCHANGED grant
    /\ announced' = TRUE

----------------------------------------------------------------------------

NoRecovery == [phase |-> "none", security |-> 0, ticket |-> NoTicket]

Init ==
    /\ pool = EmptyPool
    /\ active = FALSE /\ holder = NoTicket /\ grant = NoTicket /\ announced = TRUE
    /\ recovery = NoRecovery /\ turn = "unread" /\ generation = 0
    /\ \E mix \in Mixes : call = [t \in Ticket \cup {RecoveryTurn} |->
                                    IF t \in mix THEN "idle" ELSE "never"]
    /\ aged = {} /\ blocked = {} /\ probed = FALSE

Answered(t) == call[t] \in {"idle", "refused"}

\* acquire, a pool full of user tickets with no victim: the arrival is refused.
RefuseArrival(t) ==
    /\ Answered(t)
    /\ ~Background(t) /\ pool.userQueued >= WriterQueueCapacity
    /\ Victim(pool, grant, t) = NoTicket
    /\ call' = [call EXCEPT ![t] = "refused"]
    /\ UNCHANGED <<gateVars, generation, ownerVars, aged, walVars>>

\* acquire: take a number, make room, queue (background work defers first).
Acquire(t) ==
    LET full == ~Background(t) /\ pool.userQueued >= WriterQueueCapacity
        v    == IF full THEN Victim(pool, grant, t) ELSE NoTicket
        P1   == IF v = NoTicket THEN pool ELSE Depart(pool, v, FALSE)
        P2   == [P1 EXCEPT !.order = Append(@, t)]
        P3   == IF Background(t) THEN Defer(P2, t) ELSE Enqueue(MakeBackgroundRoom(P2), t)
    IN  /\ Answered(t)
        /\ full => v # NoTicket
        /\ call' = [u \in DOMAIN call |-> CASE u = t -> "waiting"
                                            [] u = v -> "refused"
                                            [] OTHER -> call[u]]
        /\ aged' = aged \ {t}
        /\ Settle(AdmitBackground(P3, holder, recovery), holder, recovery)
        /\ UNCHANGED <<active, holder, generation, ownerVars, walVars>>

\* acquireTicket: the waiter that finds itself granted begins.
Take(t) ==
    /\ call[t] = "waiting" /\ ~active /\ grant = t
    /\ pool' = IF t = RecoveryTurn THEN pool ELSE Depart(pool, t, TRUE)
    /\ grant' = NoTicket
    /\ active' = TRUE /\ holder' = t
    /\ generation' = IF t.probe \/ generation = 2 THEN generation ELSE generation + 1
    /\ recovery' = [recovery EXCEPT
                      !.security = IF recovery.phase # "none" /\ t.class = SecurityFence
                                   THEN @ + 1 ELSE @,
                      !.ticket = IF t = RecoveryTurn THEN NoTicket ELSE @]
    /\ call' = [call EXCEPT ![t] = "holding"]
    /\ UNCHANGED <<turn, aged, walVars, announced>>

\* Mutant: a second call of release frees the gate again.
ReleaseAgain(t) ==
    /\ call[t] \in {"holding", "idle"}
    /\ call' = [call EXCEPT ![t] = "idle"]
    /\ active' = FALSE /\ holder' = NoTicket
    /\ Settle(pool, NoTicket, recovery)
    /\ UNCHANGED <<generation, ownerVars, aged, walVars>>

\* The release function: sync.Once makes every later call a no-op.
Release(t) ==
    /\ call[t] = "holding"
    /\ call' = [call EXCEPT ![t] = "idle"]
    /\ active' = FALSE /\ holder' = NoTicket
    /\ Settle(pool, NoTicket, recovery)
    /\ UNCHANGED <<generation, ownerVars, aged, walVars>>

\* Mutant: a waiter that gives up keeps its place in the queue.
AbandonKeepsPlace(t) ==
    LET r == IF t = RecoveryTurn THEN [recovery EXCEPT !.ticket = NoTicket] ELSE recovery
    IN  /\ recovery' = r
        /\ Settle(AdmitBackground(pool, holder, r), holder, r)
        /\ UNCHANGED <<active, holder, generation, turn, aged, walVars>>

\* Mutant: a granted waiter that gives up takes the grant with it.
AbandonLosesGrant(t) ==
    LET P == IF t = RecoveryTurn THEN pool ELSE Depart(pool, t, FALSE)
        r == IF t = RecoveryTurn THEN [recovery EXCEPT !.ticket = NoTicket] ELSE recovery
    IN  /\ recovery' = r
        /\ pool' = AdmitBackground(P, holder, r)
        /\ grant' = IF grant = t THEN NoTicket ELSE grant
        /\ UNCHANGED <<active, holder, generation, turn, aged, walVars, announced>>

\* removeWaiterLocked of either kind, admission, and a new pick.
Abandon(t) ==
    LET P == IF t = RecoveryTurn THEN pool ELSE Depart(pool, t, FALSE)
        r == IF t = RecoveryTurn THEN [recovery EXCEPT !.ticket = NoTicket] ELSE recovery
    IN  /\ recovery' = r
        /\ Settle(AdmitBackground(P, holder, r), holder, r)
        /\ UNCHANGED <<active, holder, generation, turn, aged, walVars>>

\* The caller's context ends (abandonWaiterLocked).
Cancel(t) ==
    /\ call[t] = "waiting"
    /\ call' = [call EXCEPT ![t] = "idle"]
    /\ Abandon(t)

\* walCapacityWait ran out on a reservation that is still not ready.
CapacityTimeout(t) ==
    /\ call[t] = "waiting" /\ t \in blocked
    /\ call' = [call EXCEPT ![t] = "refused"]
    /\ Abandon(t)

\* Time passes: a maintenance ticket earns its rung, the oldest first.
Age ==
    LET young == {t \in Ticket \ aged : call[t] = "waiting" /\ t.class = Maintenance}
    IN  /\ young # {}
        /\ aged' = aged \cup {Oldest(pool, young)}
        /\ UNCHANGED <<gateVars, generation, ownerVars, call, walVars>>

\* The tickets whose WAL reservation the ledger can hold back.
Reserving == {t \in Ticket : t.wal /\ call[t] # "never"}

\* A debit, a measured overrun or a reset moves the ledger under the holder.
LedgerMoves ==
    /\ active
    /\ blocked' \in SUBSET Reserving
    /\ UNCHANGED <<gateVars, generation, ownerVars, call, aged, probed>>

\* CheckpointSchedule.Tick probes the disk, then wakes the gate's waiters.
Probe ==
    /\ ~probed /\ Reserving # {}
    /\ probed' = TRUE
    /\ blocked' \in SUBSET Reserving
    /\ UNCHANGED <<gateVars, generation, ownerVars, call, aged>>

WakeWALWaiters ==
    /\ probed
    /\ probed' = FALSE
    /\ Settle(pool, holder, recovery)
    /\ UNCHANGED <<active, holder, generation, ownerVars, call, aged, blocked>>

----------------------------------------------------------------------------
(* WAL recovery's side of the gate; one checkpoint owner at a time.         *)

EnterPressureHold ==
    LET r    == [NoRecovery EXCEPT !.phase = "hold"]
        kept == IF grant # NoTicket /\ grant.class = SecurityFence THEN grant ELSE NoTicket
        free == ~active /\ kept = NoTicket
    IN  /\ call[RecoveryTurn] # "never" /\ recovery.phase = "none"
        /\ recovery' = r
        /\ grant' = IF free THEN PickWinner(pool, NoTicket, r) ELSE kept
        /\ announced' = (free \/ announced)
        /\ UNCHANGED <<pool, active, holder, generation, turn, call, aged, walVars>>

\* Mutant: the pause leaves a security fence its pending grant.
PauseKeepsGrant ==
    /\ recovery.phase = "hold"
    /\ recovery' = [recovery EXCEPT !.phase = "pause"]
    /\ UNCHANGED <<gateVars, generation, turn, call, aged, walVars>>

EnterBeginPause ==
    /\ recovery.phase = "hold"
    /\ recovery' = [recovery EXCEPT !.phase = "pause"]
    /\ grant' = IF grant = RecoveryTurn THEN grant ELSE NoTicket
    /\ UNCHANGED <<pool, active, holder, generation, turn, call, aged, walVars, announced>>

\* recoverWAL: wait until the gate is idle, then read the copy fence.
CheckpointCopyFence ==
    /\ recovery.phase = "pause" /\ turn = "unread" /\ ~active
    /\ turn' = "fenced" /\ generation' = 0
    /\ UNCHANGED <<gateVars, recovery, call, aged, walVars>>

AcquireRecoveryTurn ==
    /\ recovery.phase = "pause" /\ recovery.ticket = NoTicket
    /\ turn = "fenced" /\ turn' = "asked"
    /\ recovery' = [recovery EXCEPT !.ticket = RecoveryTurn]
    /\ call' = [call EXCEPT ![RecoveryTurn] = "waiting"]
    /\ IF ~active /\ grant = NoTicket
       THEN grant' = RecoveryTurn /\ announced' = TRUE
       ELSE UNCHANGED <<grant, announced>>
    /\ UNCHANGED <<pool, active, holder, generation, aged, walVars>>

\* Mutant: ending a recovery reopens the gate without picking anyone.
EndWithoutPick ==
    /\ recovery.phase # "none" /\ call[RecoveryTurn] # "holding"
    /\ recovery' = NoRecovery /\ turn' = "unread"
    /\ call' = [call EXCEPT ![RecoveryTurn] = "idle"]
    /\ UNCHANGED <<gateVars, generation, aged, walVars>>

\* endRecovery, deferred by the owner: a turn still waiting is refused.
EndRecovery ==
    /\ recovery.phase # "none" /\ call[RecoveryTurn] # "holding"
    /\ recovery' = NoRecovery /\ turn' = "unread"
    /\ call' = [call EXCEPT ![RecoveryTurn] = "idle"]
    /\ Settle(pool, holder, NoRecovery)
    /\ UNCHANGED <<active, holder, generation, aged, walVars>>

Next ==
    \/ \E t \in Ticket : Acquire(t) \/ RefuseArrival(t) \/ CapacityTimeout(t)
    \/ \E t \in Ticket \cup {RecoveryTurn} : Take(t) \/ Release(t) \/ Cancel(t)
    \/ Age \/ LedgerMoves \/ Probe \/ WakeWALWaiters
    \/ EnterPressureHold \/ EnterBeginPause \/ CheckpointCopyFence
    \/ AcquireRecoveryTurn \/ EndRecovery

Spec == Init /\ [][Next]_vars

\* What the fairness below is about, each as the part of its action that no
\* other action does: a granted caller begins, a holder returns, a capacity
\* timer fires, waiters are woken, a recovery ends.
Begins(t) == call[t] = "waiting" /\ ~active /\ grant = t /\ holder' = t
Returns(t) == call[t] = "holding" /\ call' = [call EXCEPT ![t] = "idle"]
TimesOut(t) == call[t] = "waiting" /\ t \in blocked /\ call' = [call EXCEPT ![t] = "refused"]
Wakes == probed /\ probed' = FALSE
Ends == recovery.phase # "none" /\ call[RecoveryTurn] # "holding" /\ recovery' = NoRecovery

\* Holders return (a hold past StuckWait is a defect), time passes, the
\* housekeeping loop keeps ticking, the capacity timer of a qualified
\* reservation fires, and the checkpoint owner's deferred endRecovery runs.  A
\* granted waiter is scheduled: strongly, because recovery attempts, which
\* withdraw grants, are at least CheckpointPollInterval apart, but no waiter in
\* particular.  Nothing makes a caller arrive or give up.
Fairness ==
    /\ SF_holder(\E t \in Ticket : Begins(t)) /\ WF_holder(Begins(RecoveryTurn))
    /\ \A t \in Ticket \cup {RecoveryTurn} : WF_call(Returns(t))
    /\ \A t \in Ticket : WF_call(TimesOut(t))
    /\ WF_vars(Age) /\ WF_probed(Wakes) /\ WF_recovery(Ends)

FairSpec == Spec /\ Fairness

----------------------------------------------------------------------------

Waiting == {t \in Ticket : call[t] = "waiting"}

QueueRecord == [rotation : Seq(Owner), tickets : [Owner -> Seq(Ticket)]]

RecoveryRecord == [phase : {"none", "hold", "pause"}, security : Nat,
                   ticket : {NoTicket, RecoveryTurn}]

\* The shape of the gate.
TypeOK ==
    /\ pool \in [order : Seq(Ticket), queues : [Class -> QueueRecord],
                 deferred : [Class -> QueueRecord],
                 userQueued : Nat, ownerQueued : [Owner \ {NoOwner} -> Nat]]
    /\ active \in BOOLEAN /\ turn \in {"unread", "fenced", "asked"} /\ generation \in 0 .. 2
    /\ holder \in Ticket \cup {RecoveryTurn, NoTicket}
    /\ grant \in Ticket \cup {RecoveryTurn, NoTicket}
    /\ recovery \in RecoveryRecord
    /\ call \in [Ticket \cup {RecoveryTurn} -> CallStates]
    /\ aged \in SUBSET Ticket /\ blocked \in SUBSET Ticket
    /\ probed \in BOOLEAN /\ announced \in BOOLEAN

\* At most one caller is inside the gate, and g.active says whether one is.
OneWriter ==
    /\ \A t, u \in DOMAIN call : call[t] = "holding" /\ call[u] = "holding" => t = u
    /\ active <=> \E t \in DOMAIN call : call[t] = "holding"
    /\ active => grant = NoTicket

\* Every waiting caller has exactly one place, queued or deferred; callers that
\* are refused, cancelled or served keep none; a rotation lists exactly the
\* owners that have tickets, once each.
EveryWaiterHasOnePlace ==
    /\ \A c \in Class, o \in Owner :
          /\ IsInjective(Line(pool, c, o))
          /\ ToSet(Line(pool, c, o)) = {t \in Waiting : t.class = c /\ t.owner = o}
    /\ \A q \in {pool.queues[c] : c \in Class} \cup {pool.deferred[c] : c \in Class} :
          /\ IsInjective(q.rotation)
          /\ ToSet(q.rotation) = {o \in Owner : q.tickets[o] # <<>>}
    /\ \A c \in UserClass : Tickets(pool.deferred[c]) = {}

\* The counters admission decides by agree with the queues.
CountersAgree ==
    LET users == UNION {Tickets(pool.queues[c]) : c \in UserClass}
    IN  /\ pool.userQueued = Cardinality(users)
        /\ \A o \in Owner \ {NoOwner} :
              pool.ownerQueued[o] = Cardinality({t \in users : t.owner = o})

\* The pool never holds more than WriterQueueCapacity tickets, users and
\* background together.
PoolBounded == pool.userQueued + BackgroundQueued(pool) <= WriterQueueCapacity

\* A supervisor never has more background tickets out (queued or holding the
\* gate) than its limit, however often its tickets were lent to users.
SupervisorLimit ==
    \A c \in BackgroundClass, o \in Owner :
        Cardinality({t \in Ticket : /\ t.class = c /\ t.owner = o
                                    /\ t = holder \/ t \in Tickets(pool.queues[c])})
            <= BackgroundTicketLimit(c)

\* The pool is sound on every path that queues, defers, lends, refuses or serves:
\* well typed, one place for each waiter and none for others, exact counters, and
\* the limits of the pool and of a supervisor hold, also while places are lent.
PoolSound ==
    TypeOK /\ EveryWaiterHasOnePlace /\ CountersAgree /\ PoolBounded /\ SupervisorLimit

\* t came before u.
Older(order, t, u) == \E i, j \in DOMAIN order : i < j /\ order[i] = t /\ order[j] = u

\* One owner's tickets stay in arrival order in every line, and its deferred
\* tickets are newer than its admitted ones, also after lending places to users.
OwnerFIFO ==
    \A c \in Class, o \in Owner : \A i, j \in DOMAIN Line(pool, c, o) :
        i < j => Older(pool.order, Line(pool, c, o)[i], Line(pool, c, o)[j])

\* gate.go:36-38, 643: a pending grant belongs to a live queued waiter; it is
\* never background work while a user queues, never anything but the reserved
\* turn in a pause, and only a security fence within its reserve in a hold.
GrantIsLegal ==
    grant # NoTicket =>
        /\ call[grant] = "waiting"
        /\ recovery.phase = "pause" => grant = RecoveryTurn
        /\ grant = RecoveryTurn => recovery.phase = "pause"
        /\ grant \in Ticket =>
             /\ grant \in Tickets(pool.queues[grant.class])
             /\ Background(grant) => pool.userQueued = 0
             /\ recovery.phase = "hold" => grant.class = SecurityFence

\* gate.go:634-636, no "free gate with nobody able to acquire it": when nobody
\* holds the gate and nobody is granted it, a pause or hold excludes every
\* waiter, or the waiters that come first wait for WAL space.
NoLostGrant ==
    (~active /\ grant = NoTicket /\ ~probed) =>
        IF recovery.phase = "pause" THEN recovery.ticket = NoTicket
        ELSE IF recovery.phase = "hold"
        THEN \/ recovery.security >= RecoverySecurityReserve
             \/ \A t \in Waiting : t.class = SecurityFence =>
                    \E u \in Waiting \cap blocked : u.class = SecurityFence
        ELSE /\ \A t \in Waiting : ~Background(t) =>
                    \E u \in Waiting \cap blocked : u.class = t.class
             /\ Waiting # {} => Waiting \cap blocked # {}

\* The broadcast follows every move of the grant: a granted waiter that went
\* to sleep on an older notify channel is woken.
GrantAnnounced == grant # NoTicket => announced

\* A free gate is never left with a waiter that could begin and does not know:
\* there is a grant, and its waiter was told.
GrantReachesWaiter == NoLostGrant /\ GrantAnnounced

\* A pressure hold lets at most RecoverySecurityReserve security fences begin.
SecurityReserve == recovery.security <= RecoverySecurityReserve

\* gate.go:54-56: background work is never refused for capacity; a user loses
\* its place only in a full pool, never with the grant in hand, and either to a
\* more important class or down to, never below, its owner's share.
RefusalsAreFair ==
    [][\A v \in Ticket : (call[v] = "waiting" /\ call'[v] = "refused" /\ v \notin blocked) =>
          /\ ~Background(v)
          /\ pool.userQueued >= WriterQueueCapacity
          /\ v # grant
          /\ \E a \in Ticket :
                /\ Answered(a) /\ call'[a] = "waiting"
                /\ a.class <= v.class
                /\ a.class < v.class \/ (v.owner # NoOwner /\ v.owner # a.owner
                                         /\ pool'.ownerQueued[v.owner] >= OwnerQueueShare)]_vars

\* gate.go:877-878: the reserved turn is the only acquisition after the proof
\* copy's fence, so while it holds the gate the write generation is exactly one
\* past the fence, whatever queued, gave up or held the gate meanwhile.
ReservedTurnIsNext == call[RecoveryTurn] = "holding" => generation = 1

\* Who may begin: the grant is legal in the present phase although it was
\* decided in an earlier step, a hold lets no more fences begin than its reserve,
\* and nothing begins between the proof copy's fence and the reserved turn.
GrantSound == GrantIsLegal /\ SecurityReserve /\ ReservedTurnIsNext

\* gate.go:34-37, "A busy scan therefore cannot starve retention or a WAL
\* reset": unless users keep queueing, every background caller gets its turn,
\* although media work and recovery attempts never stop.
BackgroundServed ==
    \A t \in {u \in Ticket : Background(u)} :
        \/ (call[t] = "waiting") ~> (call[t] # "waiting")
        \/ []<>(pool.userQueued > 0)

\* gate.go:114-117, "A revocation is never kept waiting behind a checkpoint for
\* long": every security fence is answered although recoveries keep holding,
\* pausing and withdrawing grants, and other writers keep arriving.
FenceServed ==
    \A t \in {u \in Ticket : u.class = SecurityFence} :
        (call[t] = "waiting") ~> (call[t] # "waiting")

\* Everyone who waits is answered: fences always, background work unless users
\* keep queueing.
Served == BackgroundServed /\ FenceServed

\* The gate without its queues: what WalCheckpoint relies on.
Slot == INSTANCE WriterSlot WITH
    Writer    <- Ticket,
    Fence     <- {t \in Ticket : t.class = SecurityFence},
    Readiness <- {t \in Ticket : t.probe},
    Watcher   <- {RecoveryTurn},
    Turn      <- RecoveryTurn,
    Nobody    <- NoTicket,
    Reserve   <- RecoverySecurityReserve,
    slot      <- holder,
    phase     <- recovery.phase,
    fences    <- recovery.security,
    since     <- [o \in {RecoveryTurn} |-> generation],
    reserved  <- IF turn # "asked" THEN "free"
                 ELSE IF call[RecoveryTurn] = "waiting" THEN "asked" ELSE "done"

\* Queues, deferral, refusals, withdrawn grants and giving up never make the
\* gate behave otherwise than the slot: nobody begins in a pause but the
\* reserved turn, and nobody but a bounded number of fences in a hold.
ImplementsSlot == Slot!SlotSpec

=============================================================================
