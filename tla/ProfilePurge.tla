---------------------------- MODULE ProfilePurge ----------------------------
(***************************************************************************)
(* The physical half of a profile's retirement: internal/phasedpurge's     *)
(* engine (Turn) under the owner in identity/profile_purge.go.  A retired  *)
(* profile has a durable job whose cursor walks a compiled plan of units,  *)
(* children before parents.  One turn is one transaction: it passes units  *)
(* with nothing to do, removes at most one row, goes back to the start of  *)
(* a phase when a parent still has children, and after the last unit       *)
(* verifies all of them before it deletes the job.                         *)
(*                                                                         *)
(* Everything below is durable, so a crash is a turn that did not commit:  *)
(* a stuttering step.  Rows are what the units tell apart: their table,    *)
(* the row they belong to and their places in two orders: no query says    *)
(* ORDER BY, and SQLite may take one index for the unit of a table and     *)
(* another for the probe of its children.  No unit of this owner keeps a   *)
(* key in its cursor, none is drained by the turn that changes, and the    *)
(* effect meter, which no unit here can exceed, is left out, as are errors *)
(* of a plan or a cursor that validatePlan and validateCursor refuse.      *)
(* A child here belongs to one row that the profile itself scopes:         *)
(* units that go through several hops (of sessions, queues and tokens) or  *)
(* scrub a row, children of two parents and shared avatars are left out.   *)
(***************************************************************************)
EXTENDS Naturals, Sequences, FiniteSets

CONSTANTS
    Job,           \* the jobs, numbered in the order of their ids
    Plan,          \* profilePurgeRegistry: a sequence of units, see UnitRecord
    Table,         \* the tables the plan names
    NoTable,       \* "": a unit whose rows are scoped by the profile itself
    Universe,      \* the rows each job's profile may have
    Window,        \* purgeParentProbe: the parents a child unit looks at (16)
    ReadLimit,     \* reads of one turn (128)
    OwnerReads,    \* reads the owner spends outside the units (12)
    Budgets        \* bounds on what may happen in one behaviour, see BudgetRecord

\* `kind': what it does, on which families ("revoked": deletes those already
\* revoked); `of': the table of the parents a child unit goes through; `guards':
\* the tables whose rows block a parent; `reads': the unit's readBound.
UnitRecord == [phase : Nat, table : Table, kind : {"delete", "tokens", "revoke", "revoked"},
               of : Table \cup {NoTable}, guards : SUBSET Table, reads : Nat]

\* `id': the row's place in the order of its own unit; `seen': its place in the
\* order of the probe of its children; `of': its parent's id, if any.
RowRecord == [table : Table, id : Nat, seen : Nat, of : Nat, parent : Table \cup {NoTable}]

\* Rows that come after retirement, turns that fail, and starts of a binary with
\* another plan.
BudgetRecord == [late : Nat, fails : Nat, upgrades : Nat]

N == Len(Plan)

\* validatePlan.
PlanIsValid ==
    /\ Plan \in Seq(UnitRecord) /\ N > 0
    /\ \A i \in 1 .. N :
          /\ Plan[i].reads >= 1 /\ Plan[i].reads + OwnerReads <= ReadLimit
          /\ i > 1 => Plan[i - 1].phase <= Plan[i].phase

\* A unit that reaches rows the way r is reached.
LooksFor(u, r) == u.table = r.table /\ u.of = r.parent

RemovesSessions(u) == u.table = "playback_sessions" /\ u.of = NoTable /\ u.kind = "delete"

\* profile_purge_registry.go:10-18: guards are emitted for every blocking child
\* of the rows a unit deletes, and a child's unit comes before its parent's.
GuardsAreComplete(rows) ==
    \A i \in 1 .. N :
        /\ Plan[i].kind # "revoke" =>
              \A r \in rows : r.parent = Plan[i].table => r.table \in Plan[i].guards
        /\ Plan[i].of # NoTable =>
              \E k \in i .. N : /\ Plan[k].table = Plan[i].of /\ Plan[k].of = NoTable
                               /\ Plan[k].kind # "revoked"

\* Every row the profile itself scopes has a unit: one that deletes it, or one
\* that revokes it and one that deletes what is revoked.  Other rows hang on them,
\* one hop away.
PlanCovers(rows) ==
    /\ \A i \in 1 .. N : Plan[i].kind = "tokens" => Plan[i].of # NoTable
    /\ \A r \in rows :
          LET some(kind) == \E i \in 1 .. N : LooksFor(Plan[i], r) /\ Plan[i].kind = kind
          IN  r.parent = NoTable => some("delete") \/ (some("revoke") /\ some("revoked"))
    /\ \A r \in rows, p \in rows :
          r.parent # NoTable /\ p.table = r.parent => p.parent = NoTable

\* Every guarded table of a unit has a unit of its own earlier in the same phase,
\* so that a rewind always has somewhere to go, and the sessions are removed
\* before the first family is revoked.
RewindsHaveRoom ==
    \A i \in 1 .. N :
        /\ \A t \in Plan[i].guards : \E m \in 1 .. i - 1 :
              Plan[m].table = t /\ Plan[m].phase = Plan[i].phase
        /\ Plan[i].kind = "revoke" => \E m \in 1 .. i - 1 : RemovesSessions(Plan[m])

ASSUME PurgeAssumption ==
    /\ Job \subseteq Nat /\ NoTable \notin Table /\ "playback_sessions" \in Table
    /\ Universe \in [Job -> SUBSET RowRecord]
    /\ Window \in Nat \ {0} /\ Budgets \subseteq BudgetRecord
    /\ OwnerReads \in Nat /\ ReadLimit \in Nat

ASSUME PlanAssumption ==
    /\ PlanIsValid /\ RewindsHaveRoom
    /\ \A j \in Job : GuardsAreComplete(Universe[j]) /\ PlanCovers(Universe[j])

VARIABLES
    job,      \* what is stored for each profile: see Init
    digest,   \* purgeStoredCursor.Digest: of this plan, of another, or no cursor yet
    budget    \* how many events of each kind are left

vars == <<job, digest, budget>>

Digest == {"none", "this", "other"}

----------------------------------------------------------------------------
(* What a unit finds and does.  s is the stored state of one job.           *)

Parent(R, r) == {p \in R : p.table = r.parent /\ p.id = r.of}

\* A foreign key holds in every committed state.
Owned(R) == \A r \in R : r.parent # NoTable => Parent(R, r) # {}

\* The first rows of S in the probe's own order, as many as a child unit probes.
Probed(S) == {p \in S : Cardinality({q \in S : q.seen < p.seen}) < Window}

\* The parents a unit goes through; tokens go only with a revoked family.
Parents(s, u) ==
    {p \in s.rows : p.table = u.of /\ (u.kind = "tokens" => p \in s.revoked)}

\* The rows in a unit's scope: what it may remove and what Empty asks for.
Candidates(s, u) ==
    {r \in s.rows : /\ r.table = u.table
                    /\ u.kind = "revoke" => r \notin s.revoked
                    /\ u.kind = "revoked" => r \in s.revoked
                    /\ u.of # NoTable => Parent(Probed(Parents(s, u)), r) # {}}

\* Mutant: the unit takes the row at the other end of the index.
Highest(S) == {r \in S : \A q \in S : q.id <= r.id}

\* The lowest remaining indexed head, in the order of the unit.
Lowest(S) == {r \in S : \A q \in S : r.id <= q.id}

\* Mutant: a parent is removed while it still has children.
NeverBlocked(s, u, p) == FALSE

\* A guard finds an owned child of the chosen row.
Blocked(s, u, p) ==
    \E c \in s.rows : c.table \in u.guards /\ c.parent = p.table /\ c.of = p.id

\* What Run answers when it finds head: Changed, Rewind, or ErrNoProgress.
Outcome(s, u, head) ==
    IF u.kind = "revoke"
    THEN IF \E r \in s.rows : r.table = "playback_sessions" THEN "stuck" ELSE "changed"
    ELSE IF Blocked(s, u, head) THEN "rewind" ELSE "changed"

\* The one row it changes.
Changed(s, u, head) ==
    IF u.kind = "revoke" THEN [s EXCEPT !.revoked = @ \cup {head}]
    ELSE [s EXCEPT !.rows = @ \ {head}, !.revoked = @ \ {head}]

----------------------------------------------------------------------------
(* phasedpurge.Turn.  Reach, Stop and PhaseStart each hold the one place.   *)

ReadsTo[i \in 0 .. N] == IF i = 0 THEN 0 ELSE ReadsTo[i - 1] + Plan[i].reads

\* The last unit a turn that starts at unit i gets to: limit units at most, and
\* none whose reads do not fit.
Reach(i, limit) ==
    {k \in i .. N :
        /\ k < i + limit /\ OwnerReads + ReadsTo[k] - ReadsTo[i - 1] <= ReadLimit
        /\ \A m \in k + 1 .. N :
              m < i + limit => OwnerReads + ReadsTo[m] - ReadsTo[i - 1] > ReadLimit}

\* The first unit from i to last with rows in its scope, else the one after last.
Stop(s, i, last) ==
    {k \in i .. last + 1 :
        /\ k > last \/ Candidates(s, Plan[k]) # {}
        /\ \A m \in i .. k - 1 : Candidates(s, Plan[m]) = {}}

\* Mutant: a rewind stays where it is.
PhaseStartHere(k) == {k}

\* The first unit of k's phase.
PhaseStart(k) == {i \in 1 .. k : /\ Plan[i].phase = Plan[k].phase
                                 /\ i > 1 => Plan[i - 1].phase # Plan[k].phase}

\* Mutant: a verification that found a row goes on where it was.
RestartKeepsVerify(s, k) == [s EXCEPT !.unit = k, !.missed = {}]

\* Cursor{Unit: start}: what was verified counts no more.
Restart(s, k) == [s EXCEPT !.unit = k, !.verify = 0, !.missed = {}]

\* Save: the cursor goes into the transaction of the effect, under this plan's
\* digest.
Save(j, s) ==
    /\ job' = [job EXCEPT ![j] = [s EXCEPT !.state = "pending", !.due = TRUE]]
    /\ digest' = [digest EXCEPT ![j] = "this"]

\* markProfilePurgeBlocked of a hard failure, after the turn was rolled back.
Park(j) ==
    /\ job' = [job EXCEPT ![j].state = "parked", ![j].due = FALSE]
    /\ UNCHANGED digest

\* The loop over the units: pass those with nothing to do, change one row, or
\* rewind.  A rewind from the start of its own phase is ErrNoProgress.
Clean(j, s) ==
    \E last \in Reach(s.unit, 4) : \E k \in Stop(s, s.unit, last) :
        \/ k > last /\ Save(j, [s EXCEPT !.unit = k])
        \/ /\ k <= last
           /\ \E head \in Lowest(Candidates(s, Plan[k])), start \in PhaseStart(k) :
                LET o == Outcome(s, Plan[k], head)
                IN  \/ o = "changed" /\ Save(j, [Changed(s, Plan[k], head) EXCEPT !.unit = k])
                    \/ o = "rewind" /\ start < k /\ Save(j, Restart(s, start))
                    \/ o = "rewind" /\ start = k /\ Park(j)
                    \/ o = "stuck" /\ Park(j)

\* The loop over the proofs.  A unit with a row left sends the cursor back; after
\* the last one Finalize deletes the job in the same transaction.
Verify(j, s) ==
    \E last \in Reach(s.verify + 1, 8) : \E k \in Stop(s, s.verify + 1, last) :
        \/ k <= last /\ \E start \in PhaseStart(k) : Save(j, Restart(s, start))
        \/ k > last /\ last < N /\ Save(j, [s EXCEPT !.verify = last])
        \/ /\ k > last /\ last = N /\ UNCHANGED digest
           /\ job' = [job EXCEPT ![j].state = "gone", ![j].verify = N]

----------------------------------------------------------------------------

Init ==
    /\ job \in [Job -> [rows : SUBSET UNION {Universe[j] : j \in Job}, revoked : {{}},
                        unit : {1}, verify : {0}, state : {"live"}, due : {TRUE},
                        disturbed : {FALSE}, missed : {{}}]]
    /\ \A j \in Job : job[j].rows \subseteq Universe[j] /\ Owned(job[j].rows)
    /\ digest = [j \in Job |-> "none"]
    /\ budget \in Budgets

\* RetireDirectProfile: the job is stored with the denial.
Retire(j) ==
    /\ job[j].state = "live"
    /\ job' = [job EXCEPT ![j].state = "pending"]
    /\ UNCHANGED <<digest, budget>>

\* Mutant: jobs that failed are not looked at again.
ReadyPending(s) == s.state = "pending"

Ready(s) == s.state = "pending" \/ (s.state = "blocked" /\ s.due)

\* purgeNextJobTx: pending jobs are due at 0, in the order of their ids, and
\* come before a failed one, whose time is later.
Chosen(j) ==
    /\ Ready(job[j])
    /\ \A i \in Job \ {j} : Ready(job[i]) =>
          \/ job[i].state = "blocked"
          \/ job[j].state = "pending" /\ j < i

\* PurgeProfileStep, one committed turn.  A cursor that was saved under another
\* plan is refused, never read against this one.
Turn(j) ==
    /\ Chosen(j)
    /\ \/ digest[j] = "other" /\ Park(j)
       \/ digest[j] # "other" /\ job[j].unit <= N /\ Clean(j, job[j])
       \/ digest[j] # "other" /\ job[j].unit > N /\ Verify(j, job[j])
    /\ UNCHANGED budget

\* The server is started again from a binary that was built with another plan.
\* Plan is the one in force; a job without a cursor begins with it.
Upgrade ==
    /\ budget.upgrades > 0
    /\ digest' = [j \in Job |-> IF digest[j] = "this" THEN "other" ELSE digest[j]]
    /\ budget' = [budget EXCEPT !.upgrades = @ - 1]
    /\ UNCHANGED job

\* A turn that failed and was rolled back; the job waits for its backoff.
Fail(j) ==
    /\ Chosen(j) /\ budget.fails > 0
    /\ job' = [job EXCEPT ![j].state = "blocked", ![j].due = FALSE]
    /\ budget' = [budget EXCEPT !.fails = @ - 1]
    /\ UNCHANGED digest

\* next_attempt_ms of a failed job has come.
BackoffEnds(j) ==
    /\ job[j].state = "blocked" /\ ~job[j].due
    /\ job' = [job EXCEPT ![j].due = TRUE]
    /\ UNCHANGED <<digest, budget>>

\* No unit that is still to be verified in this pass looks for a new row r.
Passed(s, r) ==
    s.unit > N /\ \A k \in s.verify + 1 .. N :
                     ~LooksFor(Plan[k], r) \/ Plan[k].kind = "revoked"

\* A writer that got past the denial adds a row between two turns.
LateRow(j, r) ==
    /\ job[j].state \notin {"live", "gone"} /\ budget.late > 0
    /\ r \notin job[j].rows /\ Owned(job[j].rows \cup {r})
    /\ job' = [job EXCEPT ![j].rows = @ \cup {r},
                          ![j].disturbed = @ \/ r.table = "playback_sessions",
                          ![j].missed = IF Passed(job[j], r) THEN @ \cup {r} ELSE @]
    /\ budget' = [budget EXCEPT !.late = @ - 1]
    /\ UNCHANGED digest

Next ==
    \/ Upgrade
    \/ \E j \in Job : \/ Retire(j) \/ Turn(j) \/ Fail(j) \/ BackoffEnds(j)
                      \/ \E r \in Universe[j] : LateRow(j, r)

\* The worker's loop never stops (it ticks without a signal), and time passes.
Fairness ==
    /\ WF_vars(\E j \in Job : Turn(j))
    /\ \A j \in Job : WF_vars(BackoffEnds(j))

Spec == Init /\ [][Next]_vars
FairSpec == Spec /\ Fairness

----------------------------------------------------------------------------

JobRecord(j) ==
    [rows : SUBSET Universe[j], revoked : SUBSET Universe[j], unit : 1 .. N + 1,
     verify : 0 .. N, state : {"live", "pending", "blocked", "parked", "gone"},
     due : BOOLEAN, disturbed : BOOLEAN, missed : SUBSET Universe[j]]

\* validateCursor: a stored cursor names a unit, or a place in the verification,
\* never both, and a completed verification is never stored.
TypeOK ==
    /\ DOMAIN job = Job
    /\ \A j \in Job :
          /\ job[j] \in JobRecord(j)
          /\ job[j].unit <= N => job[j].verify = 0
          /\ job[j].verify = N <=> job[j].state = "gone"
    /\ digest \in [Job -> Digest]
    /\ budget \in BudgetRecord

\* profile_purge_registry.go:25-26, "no private child loses the ownership path
\* required to resume cleanup": whatever was removed, and whenever the purge
\* stopped, each row that is left still has the row it belongs to.
CustodyKept == \A j \in Job : Owned(job[j].rows)

\* A purge is reported finished with rows left only if those rows came in behind
\* the last verification: rows that came before it began, or in front of it, or
\* while an earlier one ran, are gone.
FinishedIsClean == \A j \in Job : job[j].state = "gone" => job[j].rows \subseteq job[j].missed

\* The stored state of a purge is sound after every turn.
PurgeSound == TypeOK /\ CustodyKept /\ FinishedIsClean

\* profile_purge.go:41-43: only a job that contradicts the plan is parked for
\* good.  In a plan whose children share a phase with their parents no rewind is
\* ever refused, so what is left is a cursor saved under another plan, or a
\* playback session that came in after its unit was passed and before the families
\* were revoked.
ParkedHasCause ==
    \A j \in Job : job[j].state = "parked" =>
        \/ digest[j] = "other"
        \/ job[j].disturbed /\ \E r \in job[j].rows : r.table = "playback_sessions"

\* Rewinds within a phase and restarts of the verification do not go round in
\* circles, and neither a job that failed nor one that is parked holds up the
\* others: every retired profile's job ends.  This holds where the probe of the
\* children walks the parents in the order of the parents' own unit, and fails
\* where it does not (a Universe in which id and seen disagree).
PurgesEnd ==
    \A j \in Job : job[j].state = "pending" ~> job[j].state \in {"gone", "parked"}

=============================================================================
