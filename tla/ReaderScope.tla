---------------------------- MODULE ReaderScope ----------------------------
(***************************************************************************)
(* Reader admission of internal/dbwork (reader_tracking.go and             *)
(* reader_pressure.go).  Reads are never gated, except while a WAL reset   *)
(* asks for a gap: new readers other than security reads then wait, in two *)
(* bounded groups, until readers are reopened, their timer refuses them or *)
(* their context ends.                                                     *)
(*                                                                         *)
(* Every critical section of s.mu is one action.  A reader is one          *)
(* connection that may read again once its lease is closed (the rows sets  *)
(* of one connection share one lease).  Channels are kept as what their    *)
(* users can observe: whether the owner's drained channel is closed, and   *)
(* which waiters sleep on a resume channel that is closed by now.          *)
(***************************************************************************)
EXTENDS Naturals, FiniteSets

CONSTANTS
    Reader,               \* connections that read
    SecurityReader,       \* readers of class ClassSecurityFence
    BackgroundReader,     \* readers of the background classes
    MaintenanceReader,    \* background readers that are no cold-read demand
    ForegroundWaiterLimit,\* readerForegroundWaiterLimit (24)
    BackgroundWaiterLimit \* readerBackgroundWaiterLimit (2)

ASSUME ReaderAssumption ==
    /\ SecurityReader \subseteq Reader /\ BackgroundReader \subseteq Reader
    /\ SecurityReader \cap BackgroundReader = {}
    /\ MaintenanceReader \subseteq BackgroundReader
    /\ ForegroundWaiterLimit \in Nat /\ BackgroundWaiterLimit \in Nat

VARIABLES
    reading,    \* s.active: the readers with a lease
    waiting,    \* the readers inside admit's loop
    woken,      \* waiters whose resume channel was closed
    waitCount,  \* waitingForeground and waitingBackground
    demand,     \* coldReadDemand
    gap,        \* resume and pressure: "none", "paused", or "copying" (pressure only)
    drained,    \* the owner's drained channel: "none", "open", "closed"
    backoff     \* nextPressure lies ahead: "no", "yes"

scopeVars == <<reading, waiting, woken, waitCount, demand, gap, drained, backoff>>

ScopeInit ==
    /\ reading = {} /\ waiting = {} /\ woken = {}
    /\ waitCount = [g \in {"foreground", "background"} |-> 0]
    /\ demand = 0 /\ gap = "none" /\ drained = "none" /\ backoff = "no"

Group(r) == IF r \in BackgroundReader THEN "background" ELSE "foreground"
WaiterLimit(r) == IF r \in BackgroundReader THEN BackgroundWaiterLimit ELSE ForegroundWaiterLimit

\* What a reader adds to coldReadDemand from its admission to its end.
Demand(r) == IF r \in MaintenanceReader THEN 0 ELSE 1

MustWait(r) == gap = "paused" /\ r \notin SecurityReader

----------------------------------------------------------------------------
(* admit and close.                                                         *)

Admit(r) ==
    /\ r \notin reading \cup waiting /\ ~MustWait(r)
    /\ reading' = reading \cup {r}
    /\ demand' = demand + Demand(r)
    /\ UNCHANGED <<waiting, woken, waitCount, gap, drained, backoff>>

\* A reader that finds its group full is refused before it waits; its demand
\* is taken back by the deferred function, and nothing else changes.
StartWait(r) ==
    /\ r \notin reading \cup waiting /\ MustWait(r)
    /\ waitCount[Group(r)] < WaiterLimit(r)
    /\ waiting' = waiting \cup {r}
    /\ waitCount' = [waitCount EXCEPT ![Group(r)] = @ + 1]
    /\ demand' = demand + Demand(r)
    /\ UNCHANGED <<reading, woken, gap, drained, backoff>>

\* Mutant: a waiter leaves without being counted out.
StopWaitUncounted(r) ==
    /\ waiting' = waiting \ {r} /\ woken' = woken \ {r}
    /\ UNCHANGED waitCount

StopWait(r) ==
    /\ waiting' = waiting \ {r} /\ woken' = woken \ {r}
    /\ waitCount' = [waitCount EXCEPT ![Group(r)] = @ - 1]

\* A woken waiter looks again: another pause sends it back to sleep.
WaitAgain(r) ==
    /\ r \in woken /\ gap = "paused"
    /\ woken' = woken \ {r}
    /\ UNCHANGED <<reading, waiting, waitCount, demand, gap, drained, backoff>>

AdmitWaiter(r) ==
    /\ r \in woken /\ gap # "paused"
    /\ StopWait(r)
    /\ reading' = reading \cup {r}
    /\ UNCHANGED <<demand, gap, drained, backoff>>

\* Mutant: a reader that gives up stays counted as demand.
GiveUpKeepsDemand(r) ==
    /\ r \in waiting
    /\ StopWait(r)
    /\ UNCHANGED <<reading, demand, gap, drained, backoff>>

\* ReaderPressureWait passes, or the context ends, also one that ended by the
\* time the waiter was woken.
GiveUp(r) ==
    /\ r \in waiting
    /\ StopWait(r)
    /\ demand' = demand - Demand(r)
    /\ UNCHANGED <<reading, gap, drained, backoff>>

\* Mutant: any reader that ends in a gap reports it drained.
CloseReaderEarly(r) ==
    /\ r \in reading
    /\ reading' = reading \ {r}
    /\ demand' = demand - Demand(r)
    /\ drained' = IF drained = "open" THEN "closed" ELSE drained
    /\ UNCHANGED <<waiting, woken, waitCount, gap, backoff>>

CloseReader(r) ==
    /\ r \in reading
    /\ reading' = reading \ {r}
    /\ demand' = demand - Demand(r)
    /\ drained' = IF drained = "open" /\ reading' = {} THEN "closed" ELSE drained
    /\ UNCHANGED <<waiting, woken, waitCount, gap, backoff>>

----------------------------------------------------------------------------
(* The reset's side: one pressure owner at a time.                          *)

\* Mutant: a gap that finds no reader waits for one to end.
OpenGapUnchecked ==
    /\ gap' = "paused" /\ drained' = "open"
    /\ UNCHANGED <<reading, waiting, woken, waitCount, demand, backoff>>

OpenGap ==
    /\ gap' = "paused"
    /\ drained' = IF reading = {} THEN "closed" ELSE "open"
    /\ UNCHANGED <<reading, waiting, woken, waitCount, demand, backoff>>

Pause == gap = "none" /\ backoff = "no" /\ OpenGap

\* Mutant: readers are let in again, but the sleeping ones are not woken.
ResumeSilently ==
    /\ gap = "paused"
    /\ gap' = "copying" /\ drained' = "none"
    /\ UNCHANGED <<reading, waiting, woken, waitCount, demand, backoff>>

ResumePressureReaders ==
    /\ gap = "paused"
    /\ gap' = "copying" /\ drained' = "none"
    /\ woken' = waiting
    /\ UNCHANGED <<reading, waiting, waitCount, demand, backoff>>

PausePressureReaders == gap = "copying" /\ OpenGap

\* The reopening function; any failure delays the next gap.
Reopen(outcome) ==
    /\ gap # "none"
    /\ gap' = "none" /\ drained' = "none"
    /\ backoff' = IF outcome = "failed" THEN "yes" ELSE "no"
    /\ woken' = IF gap = "paused" THEN waiting ELSE woken
    /\ UNCHANGED <<reading, waiting, waitCount, demand>>

BackoffEnds ==
    /\ backoff = "yes" /\ backoff' = "no"
    /\ UNCHANGED <<reading, waiting, woken, waitCount, demand, gap, drained>>

ReaderNext ==
    \E r \in Reader :
        \/ Admit(r) \/ StartWait(r) \/ WaitAgain(r) \/ AdmitWaiter(r)
        \/ GiveUp(r) \/ CloseReader(r)

\* An owner may resume, pause again and reopen whenever it likes, except that
\* it resumes only after a drain (recoverWAL): WalCheckpoint has the real one.
ScopeNext ==
    \/ ReaderNext
    \/ Pause \/ PausePressureReaders \/ BackoffEnds
    \/ drained = "closed" /\ ResumePressureReaders
    \/ \E outcome \in {"failed", "done"} : Reopen(outcome)

ScopeSpec == ScopeInit /\ [][ScopeNext]_scopeVars

----------------------------------------------------------------------------

\* The shape of the scope.
ScopeTypeOK ==
    /\ reading \in SUBSET Reader /\ waiting \in SUBSET Reader /\ woken \in SUBSET Reader
    /\ waitCount \in [{"foreground", "background"} -> Nat]
    /\ demand \in Nat
    /\ gap \in {"none", "paused", "copying"}
    /\ drained \in {"none", "open", "closed"}
    /\ backoff \in {"no", "yes"}

\* A closed drained channel in a gap means that every reader from before it has
\* ended: only security reads, which pass, may have begun since, whatever
\* waiters a former gap woke late.
GapIsDrained == gap = "paused" /\ drained = "closed" => reading \subseteq SecurityReader

\* An open drained channel has a reader left to close it: the owner's wait for
\* the drain can end without its deadline.
DrainHasCloser == drained = "open" => gap = "paused" /\ reading # {}

\* The drained channel means what its waiter takes it for, closed and open.
GapExact == GapIsDrained /\ DrainHasCloser

ForegroundWaiters == waiting \ BackgroundReader
BackgroundWaiters == waiting \cap BackgroundReader
Demanding == (reading \cup waiting) \ MaintenanceReader

\* The counters the waiter limits compare with are exact, and the limits hold,
\* on every way out of the wait.
WaitersCounted ==
    /\ waitCount["foreground"] = Cardinality(ForegroundWaiters)
    /\ waitCount["background"] = Cardinality(BackgroundWaiters)
    /\ waitCount["foreground"] <= ForegroundWaiterLimit
    /\ waitCount["background"] <= BackgroundWaiterLimit

\* A reader sleeps only while readers are paused: reopening wakes all of them.
NoSleeperWhenOpen == gap # "paused" => waiting \subseteq woken

\* cold_read_priority.go:5-8: coldReadDemand counts exactly the leases, and
\* waits for one, above maintenance; a leak would make cold work yield for ever.
DemandExact == demand = Cardinality(Demanding)

\* Readers are counted exactly on every way in and out.
ScopeCounters == WaitersCounted /\ DemandExact

\* A reader that waits is let in without help from its timer, although resets
\* pause readers again and again and wake it into the next pause.
WaiterLeaves == \A r \in Reader : r \in waiting ~> r \notin waiting

=============================================================================
