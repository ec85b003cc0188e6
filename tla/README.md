# Verification of the Portico server's concurrency core

Portico is a self-hosted media server: one Go process (`src/server`) in front of one
SQLite database in WAL mode, with web, desktop and TypeScript clients around it. Every
request, scan, retention pass and revocation of the process goes through a few small
packages that decide who may write, who may read, when the log is reset and whose
authority an effect carries; what was committed then travels outwards, to the windows of
a browser and to an owner's services, and a user's changes travel inwards, with retries.
These paths are the subject of this project: they are where an order of steps that no
test wrote can stop the whole server, let an effect escape a revocation, apply a change
twice, or lose a notice.

## 1. The system

| component (package) | state it keeps | operations | interacts with |
|---|---|---|---|
| `authoritygate` | the authority incarnation in force, the deny bit, the leases counted against it, the channel closed when none is left | `Acquire`, `Lease.Check`, `Lease.Commit`, `Lease.Close`, `BeginQuiesce`, `WaitDrained`, `Rotate`, `Activate` | the networking runner quiesces, drains and rotates; durable effects run inside `Commit` |
| `dbwork` write gate (`gate.go`, `class.go`) | queues by class and owner, deferred background queues, counters, the pending grant, the holder, the recovery hold and pause, the write generation | `Acquire` and the release it returns, cancellation, the capacity time-out, age promotion, `enterPressureHold`, `enterBeginPause`, `checkpointCopyFence`, `acquireRecoveryTurn`, `endRecovery` | every write transaction; WAL recovery; the WAL reservation ledger |
| `dbwork` reader admission (`reader_tracking.go`, `reader_pressure.go`) | open read scopes, waiters per group, cold-read demand, the gap's resume and drained channels, the backoff | `admit`, `close`, `pause`, `resumePressureReaders`, `pausePressureReaders`, the reopening `pause` returns | every read scope; WAL recovery |
| `dbwork` checkpoints (`wal.go`) | where each checkpoint stands, its copy fence | `checkpoint`: PASSIVE copies, soft TRUNCATE, `recoverWAL` | takes the write gate and the reader gap, resets SQLite's log |
| `dbwork` WAL ledger (`wal_reservation.go`) | measured frames, reservations, readiness | `ready`, `take`, `measured`, `retained`, `probe`, `reset`, `wakeWALWaiters` | write gate (a ticket is ready or not) |
| `dbwork` transactions (`write.go`, `commit.go`) | one open transaction, its before- and after-commit calls, the changing-commit count, subscriptions | `Begin`, `Commit`, `Rollback`, `AfterCommit`, `BeforeCommit`, `notifyCommit`, `WakeOnTables` | write gate, event feed |
| `eventfeed` | pending hints, the event ring, subscribers, the streams and polls admitted per key | `Run`, `flushPendingHints`, `retireOwnFlushWake`, `Wake`, `Subscribe`, `Read`, `AdmitStream`, `AdmitPoll` | commit wakes; retention |
| `usermutation` | receipts and the cutoffs below which a key is rejected | `Check`, `Save`, `Lookup`, `RetireAccount`, `RetireFamily`, `Prune` | each idempotent request |
| `phasedpurge`, `identity` profile purge | a durable job per retired profile: cursor (unit, verification), state, backoff | `RetireDirectProfile`, `PurgeProfileStep`, `Turn`, `markProfilePurgeBlocked` | the purge worker, one transaction a turn; writers of the profile's tables |
| `webhooks` | webhooks with their authority generation and the owner's review, queued deliveries, the admissions of sends, the pause of a failing destination | the fan-out trigger, `Create`, `Update`, `Delete`, `SendTest`, `RetireOwnerTx`, `Step`, `admitSend`, `attempt`, `post`, `settle` | commits (after-commit calls), the transfer of ownership, HTTP receivers |
| client-core `user-mutations.ts` | a durable queue of changes shared by the tabs of a browser, a lease per entry | `run`, `pump`, `perform`, `reconcile`, `acknowledge`, `dismissReviewed` | `usermutation` over HTTP, other tabs through the store |
| client-core `event-feed.ts`, `playback-v1/events.ts` | each window's cursor and mode, the named lock, the channel between windows | `start`, `stop`, `loop`, `streamOnce`, `pollOnce`, `deliver`, `sharedStreamOpener` | the stream and poll routes of `eventfeed` |
| `linearbuffer`, `linearinput`, `playback`, `downloads`, `backup`, `identity`, `access`, `networking`, ... | product state in SQLite and on disk | see `PROJECT.json`, `components` | all of them through `dbwork` |

How they interact: callers queue for the write gate with a class and an owner, run one
SQLite transaction, release; each commit wakes the event feed and may start a checkpoint;
a checkpoint that finds the log beyond the hard threshold holds the gate, opens a gap
among the readers, copies, pauses the gate, proves that nothing was appended, takes one
reserved turn to truncate, and gives everything back. Interaction is by mutex-protected
fields plus channels that are captured under the mutex and waited on after it, which is
the pattern most of the hazards below come from.

What is hard here, and what makes each part correct:

* **A value captured under a mutex is used after it.** The authority gate's drained
  channel, the write gate's notify channel and pending grant, the readers' resume channel,
  the result of a PASSIVE checkpoint. Correct: whoever waits on a channel is woken by what
  it waits for, and whoever acts on a value acts on one that is still true.
* **One step of several fails.** `recoverWAL` takes three resources and returns from
  twelve places. Correct: what was taken is given back, once.
* **A pool at its bound.** The gate evicts, defers, lends and returns places. Correct: the
  bounds hold, the counters agree with the queues, nobody is refused whom the policy
  protects, and one owner's work keeps its order.
* **Everyone waiting on everyone.** A hold stops writers, a gap stops readers, a pause
  stops both. Correct: each of them ends, and fences and maintenance are served although
  other work never stops.
* **Work in many small commits.** A purge is cut into turns, with crashes, failures and new
  rows between them. Correct: what is left can always be resumed, finished means empty, and
  it does finish.
* **Answers that come late, twice or never.** A change of a user is retried by another tab
  or another sign-in, a webhook's request outlives the configuration it was made for, a
  frame is heard before the greeting. Correct: an effect happens at most once and in order,
  what the person is told is what happened, and what was finished stays finished.
* **A wake that is lost.** Commit, count and wake are three steps; the feed's loop gives
  back the wake its own flush caused. Correct: nobody sleeps on something to do.

`PROJECT.json` lists each hazard at its line, with the properties that would catch it.

## 2. The modules

| module | models | remarks |
|---|---|---|
| `AuthorityGate` | `authoritygate/gate.go` | one action per critical section; `Commit` is two (`CommitBegin`, `CommitEnd`), because its callback runs outside the mutex |
| `WriteGate` | `dbwork/gate.go`, `class.go`, and how `wal_reservation.go` makes a ticket ready | one action per critical section of `g.mu`, each ending with the pick that the code makes before it unlocks (`Settle`) |
| `WriterSlot` | the gate as its users see it | the abstract specification: one slot, a recovery phase, a write generation |
| `ReaderScope` | `reader_tracking.go`, `reader_pressure.go` | readers of every class, the gap and its channels |
| `WalCheckpoint` | `wal.go` | EXTENDS `WriterSlot` and `ReaderScope`: checkpoints over the promised gate and the detailed readers |
| `EventRing` | `Hub.Read` on `api_events` | the ring with its retention, pages and gaps; shared by the next two |
| `EventFeed` | `eventfeed/feed.go` and the stream route | EXTENDS `EventRing`: from a commit to the frames of a stream |
| `SharedStream` | client-core's event feed | EXTENDS `EventRing`: windows over a stream that may read at any time |
| `MutationReceipts` | `usermutation/store.go` | the server's side; `ServerSpec` is what the client may rely on |
| `UserMutations` | client-core `user-mutations.ts` | EXTENDS `MutationReceipts`: tabs, wire and server together |
| `WebhookDispatch` | `webhooks` and the schema's fan-out trigger | |
| `ProfilePurge` | `phasedpurge/engine.go` under the owner in `identity` | retired profiles, the compiled plan and its turns |
| `MC…` | | bounded instances for TLC |
| `…Proofs` | | theorems checked by TLAPS |

```
   WriteGate --implements--> WriterSlot <--extends-- WalCheckpoint --extends--> ReaderScope
   UserMutations --extends--> MutationReceipts
   EventFeed --extends--> EventRing <--extends-- SharedStream
```

The composition uses the abstract slot and not the detailed gate: `ImplementsSlot` shows
that every step of the gate is a step of the slot or leaves it alone, so what
`WalCheckpoint` concludes about any writers of the slot holds for the gate's tickets.

### AuthorityGate
`incarnation`, `denied`, `leases` and `drained` are the fields of `Gate`. A channel is a
number, `closedChans` the closed ones and `twice` those closed a second time (a panic in
Go). `taken`, `cancelled`, `closed` and `committing` are the fields of the leases; `epoch`
remembers which channel a lease was counted against, for stating `DrainMeansEnded` only.
`ContextEnds` is a caller's context ending by itself. A waiter captures its channel
(`WaitBegin`), and returns (`WaitReturn`) or gives up (`WaitGiveUp`) later.

### WriteGate
The pool is a record of the arrival order, the class queues (owners in rotation, FIFO for
one owner), the deferred queues and the two counters admission decides by. `Acquire`
includes admission, the choice of a victim (`Victim`), borrowing a background place
(`MakeBackgroundRoom`) and the admission of deferred work (`AdmitBackground`); `Take`,
`Release`, `Cancel`, `CapacityTimeout`, `Age` and the recovery operations each include the
pick that follows. Ticket ids and arrival times are kept as an order, recovery epochs as
a phase, and the write generation as 0, 1 or more since the owner's fence: the code only
compares them. `LedgerMoves` is any change of the ledger that makes a reservation ready or
not; `Probe` and `WakeWALWaiters` are the housekeeping that notices it.

### ReaderScope
`reading` and `waiting` are the scopes, `woken` the waiters whose resume channel was
closed; one that finds a new gap goes back to sleep on the new channel (`WaitAgain`).
`drained` is the gap's drained channel. `Reopen` ends a gap or a copy, with a backoff when
the attempt failed.

### WalCheckpoint
`at` is where each checkpoint stands. `idle` (was nobody who may append running at its
fence), `full` (did its last pass copy all it saw) and, in the slot, `since` (what was
written after its fence) are what it remembers of its copy; `wal` tells whether frames are
left to copy, `copier` and `grown` what SQLite's running PASSIVE pass does not see. Every
call that can fail can fail, every wait with a deadline can time out; every exit goes
through the same deferred calls in the same order as the code.

### MutationReceipts and UserMutations
One writer transaction of the server (`Check`, the domain's effect, `Save`) is one action,
`Execute`. `receipts`, `globalCut` and `accountCut` are the tables; `horizon` is the clock
less the retention and may be set back. `applied` and `refusals` are history. The client's
store changes only by compare-and-swap, so a whole change callback is one action; `perform`
is cut at its awaits (the lookup, the request, the confirming lookup). A request stays on
the wire after its tab gave up on it and may be served again and again; a tab may freeze
and lose its lease, come back, be reloaded, or change its sign-in while a pump awaits. The
client compares its sign-in when an answer's headers arrive (`index.ts:424-440`), not when
it stores what the answer says: `heard` marks the answers whose headers came in time, and
`Switch` chooses for each answer in hand whether they had. Only an accepted answer is
compared once more (`user-mutations.ts:397`). A lookup that finds the receipt may refuse it
to a reader who may no longer see the target (`LookBarred`), as a 403 or as a 404 that says
something else than "never seen".

### EventRing, EventFeed and SharedStream
The ring is `low..top`, with the ids one viewer may see in `mine`; a page may be cut before
any event but its first (its byte budget). A commit, its count and the wake of the loop are
three steps. `pass` is where the loop's pass is and what it found, `woken`, `cut` and
`retired` are what a stream's handler has to take up, `holder` is the installation's place.
`Admit` replaces the holder under the lock and `CancelPrior` cancels the stream it replaced
(`prior`) after it, as `AdmitStream` does.
`missed` is history: rows a pass read before it failed. On the client's side a window is
stopped, between calls, following, leading or closed; `inbox` is the channel, `lock` the
named lock, and `known` the events a window got or fetched again; `early`, `passed` and
`skipped` are history. A call that breaks counts as a failure unless the answer was a 409,
and a 404 or 405 takes the window to polling at once (`Breaks`). The lock is the browser's
own (Web Locks), which cannot be lost while it is held. The lease that stands in for it on a
plain-HTTP page (`tab-lease.ts`, `event-feed.ts:150-152` and `214-222`) is left out, and two
windows may lead there for a moment: that one window leads is an assumption of this module
and no property of it. A run begins in a past of `Past` events, with each window where it
left off. A frame's token is sealed afresh, so the client's comparison of tokens never drops
a frame and is left out; a greeting with another token of the position where the call began
makes the client fetch once more than the model does. The order
of retention (`at_ms`) is the order of ids as long as the clock is not set back.

### WebhookDispatch
A writer transaction is one action, `webhook_events_fan_out` included. `closing` holds the
webhooks whose sends a committed change has yet to cancel: `cancelSends` runs after the
commit and before the gate is free, so no other transaction comes between. An attempt is
cut at its waits (`Start`, `Admit`, `Build`, `Post`, `Answer`, `Record`); each database call
can fail; `Crash` loses `send`, `active` and `paused`. Times are `due` or not, and a pause
ends at any time. One title stands for what deliveries are about and changes again and
again, and one kind for `title.added` and `title.updated`; plain events fold too, as every
event with a subject does (`Folds`); every webhook hears of everything. A result is let in
twice: by the re-read of the row (`StillAdmitted`) and by the UPDATE's own
`AND state='pending'` (`Recorded`). `known`, `dropped`, `owed` and the fields `late`
and `blind` of a row are history.

### ProfilePurge
One turn of the worker is one action, `Turn`: the choice of the job, the loop over the units
(`Clean`) or over the proofs (`Verify`), the one row that changes, and the cursor saved with
it. All of it is one transaction over durable state, so a crash is a turn that did not
happen; `Fail` is one that was rolled back and marked. A unit's Run and Empty are what its
compiled SQL selects (`Candidates`, `Probed`, `Blocked`). No query of a unit says ORDER BY,
so a row has two places: `id` in the order of its own unit, `seen` in that of the probe of
its children, and the specification relates the two in no way. `Upgrade` starts a binary
whose plan has another digest: a cursor saved under the old one parks its job at its next
turn. `LateRow` is a writer that got past
the denial. The plan is a constant; the run takes six units of the registry with their own
phases and read bounds, so that a verification takes two turns. `missed` (late rows behind
the verification) and `disturbed` (a late playback session) are history.

## 3. What is checked

Every passing run checks every reachable state of its instance. Deadlock is checked in the
runs whose system never stops by itself; in `mutations`, `mutations_live`, `feed`,
`windows`, `windows_gap`, `webhooks` and `purge` what may happen is bounded by a budget and nothing
is left to do once it is spent, so a stop is no error there. Each property has a mutant: a
plausible mistake in the code for which TLC finds the property violated under the same
configuration. A property that is a conjunction of named parts has a mutant for each part
where parts could fail alone. Type invariants and simple invariants that are proved for
every value of the constants (section 4) are not checked again.

| run | instance | distinct states | properties |
|---|---|---|---|
| `authority` | 3 leases, 2 incarnations, 2 waiters | 171 064 | `NoCommitDuringInstall`, `DrainChannelExact`, `DrainMeansEnded`, `DrainCompletes` |
| `gate` | two mixes, 2 places: 7 tickets of users and two supervisors; or 2 fences, a probe, a scan, reservations and recovery | 166 028 | `OneWriter`, `PoolSound` (`TypeOK`, `EveryWaiterHasOnePlace`, `CountersAgree`, `PoolBounded`, `SupervisorLimit`), `OwnerFIFO`, `GrantSound` (`GrantIsLegal`, `SecurityReserve`, `ReservedTurnIsNext`), `GrantReachesWaiter` (`NoLostGrant`, `GrantAnnounced`), `RefusalsAreFair`, `ImplementsSlot` |
| `gate_endless` | 2 fences, 2 scans, 1 retention pass, recovery | 36 130 | `Served` (`BackgroundServed`, `FenceServed`) |
| `wal_two` | 2 checkpoints, a writer, a fence, a probe | 868 230 | `NoTailUnderGate`, `RecoveryOwned` |
| `wal_readers` | 1 checkpoint, a writer, a fence, a probe, readers of each class | 83 348 | `GapExact` (`GapIsDrained`, `DrainHasCloser`), `ScopeCounters` (`WaitersCounted`, `DemandExact`), `ResetInGap`, `NobodyStuck` (`RecoveryEnds`, `WaiterLeaves`) |
| `mutations` | 2 keys of one target, 2 tabs, 2 sign-ins | 727 296 | `TypeOK`, `AppliedOnce`, `ToldTheTruth` (`ConfirmedWasApplied`, `NoDraftLost`), `EffectsInOrder`, `ConfirmedIsFinal` |
| `mutations_live` | one change, with a freeze, a change of sign-in, a receipt withheld or server upkeep | 20 648 | `Settles` |
| `feed` | 2 writers, 2 connections, pages of 2 | 329 491 | `NothingLeftBehind`, `NoLostWake`, `QuietStreamIsClose`, `StreamKeepsPlace`, `EventsArrive` |
| `windows` | 2 windows, pages of 2 | 278 981 | `WindowInv` (`TypeOK`, `GapHasCause`), `CatchesUp` |
| `windows_gap` | as `windows` | (violation) | `NoSilentGap` |
| `webhooks` | 2 webhooks, 2 attempts, queues of 2 | 156 273 | `SendsHaveAuthority` (`SendIsCurrent`, `FreshApproval`), `QueueConsistent` (`TypeOK`, `NoStrandedRow`), `InOrder`, `LagHasCause`, `FinishedIsFinal`, `DeliveriesEnd` |
| `purge` | 2 profiles, 6 units of the registry, 2 late rows and a failing turn, or a late row and an upgrade | 83 415 | `PurgeSound` (`TypeOK`, `CustodyKept`, `FinishedIsClean`), `ParkedHasCause`, `PurgesEnd` |

What they say:

* *Authority.* A durable effect in flight belongs to the incarnation in force; the drained
  channel is closed exactly when no lease is counted, and never twice; a wait that returned
  nil outlasted every lease from before it; every wait ends. (That a denied gate counts only
  leases whose context has ended is proved.)
* *Write gate.* One writer at a time whatever releases are repeated; every waiter has
  exactly one place; the counters agree with the queues; pool and supervisor limits hold;
  a refusal hits only an arrival or a victim the policy names; one owner's tickets are
  served in order; the pending grant is one that may begin in the present phase, is
  announced, and is never missing while someone could begin; the reserved turn is the
  first writer after the fence; revocations in one hold stay within their reserve; fences
  are served, and maintenance is served unless users keep queueing.
* *Readers.* A drained gap holds security reads only; an open drained channel has a reader
  left to close it; the counters are exact; a waiter is let in without its timer. (That no
  reader sleeps past a reopening is proved.)
* *Checkpoints.* Whoever is about to TRUNCATE under the gate has nothing left to copy, so
  the writers' pause is short; hold, gap and turn each belong to exactly one attempt that
  has yet to give them back; the reserved turn truncates in a gap with security reads only,
  although readers were let in during the copy; every attempt ends with gate and readers
  open.
* *Mutations.* A key takes effect at most once over all retries, sign-ins, cleanups and
  clock changes; what is shown as saved was applied under the sign-in that made it; a draft
  is let go only after it was applied or refused for good; changes of one target take
  effect in the order they were made; nothing reopens a confirmed change; a change does not
  stay pending.
* *Feed.* Giving back its own wake never costs the loop a peer's; no stream sleeps on an
  event, one that only others' events pass by stays within a page, a retired stream never
  takes its successor's place, and every event is sent although pages are cut.
* *Windows.* Whichever window leads, stops, closes or loses the stream, every running one
  catches up, and a window loses events in two ways only (below).
* *Webhooks.* A request under way is for a delivery the webhook stands for now, and its
  present owner approved destination and secret; deliveries go in order and each of them
  ends; no change strands a row; a late answer settles nothing; a receiver lags behind the
  title only when its queue was full, the title could not be read, or for the reason below.
* *Purge.* However turns, failures and late rows interleave, no row loses the row it belongs
  to, a purge that reports itself finished has left only rows that came in behind its last
  verification, a job is parked for good only because of a playback session that came in
  after its unit was passed or of a cursor of another plan, and, where the unit of a table
  and the probe of its children walk one order (see below), every job ends: rewinds and
  restarts do not go in circles.

### What the checks found
* `windows_gap` (a finding in `PROJECT.json`). A follower hears events from the channel
  before the leader has greeted it, and they move its cursor (`event-feed.ts:197`). Only the
  leader's greeting makes it fetch what was sent while it was away (`event-feed.ts:201`). If
  its call ends before that, it resumes behind events it never got, although the comments at
  `event-feed.ts:13-14` and `173-174` say that nothing in between is lost.
* A call fetches its state again at its first greeting only (`event-feed.ts:201`). When its
  leader closes without a word and the window that is granted the lock stands further on,
  the follower ignores that one's greeting, and the next event it hears moves its cursor
  past the events in between, although `event-feed.ts:17-18` says that one tab "passes each
  event to the others". This takes three windows, of which `windows` has two, and was found
  by the proof: an earlier form of `GapHasCause` knew the first way only and could not be
  made inductive, and an instance with three windows (one past event, one new one, one
  window closed) refuted it in 17 steps.
* `GapHasCause`, checked for two windows and proved for any number, shows that there is no
  third way: a window that
  has moved past an event it does not know heard one before it was greeted, and was since
  greeted by nobody or from exactly where its call began (`early`), or a later leader passed
  it by (`passed`), in this call or an earlier one (`skipped`), and no resync followed.
* `eventfeed/feed.go:141`: a pass that fails after some rows has moved past them and never
  wakes their readers, against the comment at `feed.go:104`. `NoLostWake` pins the loss to
  exactly those rows (`missed`); another event, a poll or a new stream makes up for it.
* `0001_baseline.sql:7353`: a delivery folds further changes while `attempts` is 0, and the
  attempt is counted only when it has ended. A title that changes after the payload was read
  and before the result is recorded is folded into a delivery that does not show it, and the
  receiver is not told. `webhooks.go:818` speaks of repeats "that have not been sent yet",
  `api/guide/09-webhooks.md:146` of changes "before the first attempt". `LagHasCause` names
  this case (`late`) and shows that besides a full queue and an unreadable title there is no
  other.
* `profile_purge.go:753-754` and `780-781`: neither the unit of a table nor the probe of its
  children says ORDER BY; the unit takes the first row it finds, the probe looks at the
  first 16 parents. The purge ends because the row a unit is blocked on is among those the
  probe looks at, which is so where SQLite walks one index for both. `PurgesEnd` holds under that assumption, which is stated in
  `MCProfilePurge` (`seen` is `id`); with `seen` of the two `saved_resources` exchanged TLC
  refutes it in seven steps: the unit meets a row with children and rewinds, the probe does
  not reach that row, and the job takes turn after turn without removing anything, ahead of
  the other pending jobs. The assumption was compared with the plans SQLite 3.40.1 makes for
  the queries of the registry over the baseline schema. Without planner statistics it does
  not hold for two of the pairs of a unit and a probe: `download-requests` (phase 75) walks the unique index
  on (`profile_key`, `operation_id`), the probe of `download-request-items` the index
  `download_requests_viewer` on (`profile_key`, `created_ms`, `id`), and
  `download-preparation-authority` (76) differs from its `download-preparations` in the same
  way. With 20 requests in opposite orders these statements leave 20 requests and 8 items
  for ever. After ANALYZE both use one index. The other 54 pairs agree.

### Bounds, and why they are enough
* Constants of the code that only matter as limits are small, so that they are reached:
  `WriterQueueCapacity` 2 (99), `OwnerQueueShare` 1 (2), `RecoverySecurityReserve` 1
  (128), the readers' waiter limits 1 and 2. `BackgroundTicketLimit` is the code's own.
* Tickets: a full pool, one arrival too many and an eviction need capacity plus two
  tickets; an owner over its share needs two of one owner; lending needs a pool full of
  both kinds and a user. A ticket may acquire again after each answer, so histories are
  unbounded.
* The write generation counts 0, 1 and "more" since the fence: the code compares for
  equality with the fence and with its successor.
* Three leases: one admitted, one committing, one taken after a rotation. Channel numbers
  are bounded by the leases, which are taken once each.
* Two checkpoints: every interference is between an attempt and one other. The run with
  readers has one, because its states multiply; `RecoveryOwned` of the other run shows
  that only one of them has the gap at a time.
* `wal_two` uses symmetry of the two checkpoints, `mutations` that of tabs and of sign-ins;
  neither has a liveness property.
* Windows: two are a leader and a follower that takes over from it. A follower that outlives
  its leader under another one needs a third; with three windows and `Past` 1 the safety
  part takes 1 719 085 states up to symmetry and passes, but the liveness part is out of
  reach, so the run keeps two and the theorem covers the rest. `Past` is 0 in `windows`,
  where whatever a window can miss happens in the run, and 1 in `windows_gap`.
* Budgets. The later modules bound how many events of each kind happen in one behaviour, and
  give several budgets as initial states: each is a family of behaviours around one kind of
  trouble (a freeze, a change of sign-in, cleanups, a receipt withheld from its reader (`bars`); a failing pass, streams that retire each
  other, retention; a crash, a failing call, edits, two transfers). A budget is as large as
  the shortest history in which that trouble meets the rest, plus one event: two changes of
  one target for their order, two transfers with three edits for a review that outlives its
  owner, three events for a queue of two. `MaxRows` is what the budgets of webhooks allow.
* `MaxAttempts` 2 (8), `MaxQueued` 2 (1000), `MaxTests` 1 (5), `BatchLimit` 2 (8),
  `ParallelWebhooks` 1 (4) so that webhooks wait for a slot; `PageLimit`, `LagWake`,
  `FlushLimit` and `ReadLimit` 2 so that pages and passes end early; `PruneLimit` 1.
* Purge: a child unit looks at one parent (16), so that a second parent with a child is out
  of its window; the read limits are the code's own. Two late rows are one that disturbs the
  units and one that disturbs the verification that found the first. One upgrade is enough to
  park whatever has a cursor; with a late row before it the job is in any place of its plan.

### Fairness, and why the code justifies it
* Go's runtime runs every goroutine that can run: a callback returns, a granted waiter
  takes its grant, a writer releases, a woken waiter looks again. These are weak fairness
  on the step of one goroutine; `Lease` closes are fair once the lease's context has ended,
  as its users are cancelled by it.
* The grant can be moved while the waiter is on its way, so taking it is strongly fair for
  the gate as a whole (some ticket that can begin again and again does begin), not for each
  ticket: being served is what is to be shown. Likewise `AdmitWaiter` is strongly fair,
  since a waiter woken in a gap goes back to sleep.
* Timers end: `Age` (the promotion interval), `TimesOut` (the capacity time-out), and the
  deadlines of a checkpoint's waits. A caller's cancellation is never assumed, nor is the
  arrival of anything.
* Checkpoint steps are weakly fair; each of its waits has a deadline in the code, which is
  why none of them needs to succeed.
* Mutations: a live tab runs its timers and callbacks, leases run out, a frozen tab comes
  back. A request and a lookup that are tried for ever are answered some time (strong
  fairness), which is the assumption about the network; nothing is assumed of one try.
* Feed and windows: a committed transaction announces itself, the loop and the handlers go
  on until they wait, frames and messages arrive, a free lock is granted. No commit, start
  or failure is assumed.
* Webhooks: a commit that touches the tables, a test, and the worker's timer call `Step` again, goroutines run, a request ends by its
  time-out with any answer, and time passes. That a receiver ever accepts is not assumed.
* Purge: the worker's loop looks again after a turn that worked or failed, on a signal, and
  at its safety tick without one; a backoff ends. No retirement and no late row is assumed.
* Fairness is stated by what a step changes (`Begins(t)`, `Returns(t)`, ... in
  `WriteGate`), on the variable it changes: it is equivalent to fairness of the action
  that makes the step, and it keeps the evaluation of ENABLED cheap.

## 4. What is proved

TLAPS proves these for all values of the constants that satisfy the named assumptions:

| theorem | property |
|---|---|
| `AuthorityGateProofs!TypeCorrect`, `CommitNeverDuringInstall`, `ChannelExact`, `DrainSound`, `QuiesceSound` | `TypeOK`, `NoCommitDuringInstall`, `DrainChannelExact`, `DrainMeansEnded`, `QuiesceCancels` |
| `WalCheckpointProofs!ScopeTypeCorrect`, `GapSound`, `NobodyOversleeps`, `CountersExact` (the readers on their own) | `ScopeTypeOK`, `GapExact`, `NoSleeperWhenOpen`, `ScopeCounters` |
| `WalCheckpointProofs!TypeCorrectness`, `NeverTailUnderGate`, `AttemptIsOwned`, `TurnResetsInGap` | `TypeOK`, `NoTailUnderGate`, `RecoveryOwned`, `ResetInGap` |
| `SharedStreamProofs!GapsHaveACause` | `WindowInv` |
| `EventFeedProofs!TypeCorrect`, `LoopLeavesNothing`, `NoStreamOversleeps`, `QuietStreamsStayClose`, `PlaceIsKept` | `TypeOK`, `NothingLeftBehind`, `NoLostWake`, `QuietStreamIsClose`, `StreamKeepsPlace` |
| `WriteGateProofs!OneWriterInside`, `PoolStaysSound`, `OwnersKeepOrder`, `GrantsAreSound`, `GrantsReachWaiters`, `RefusalsStayFair`, `GateIsASlot` | `OneWriter`, `PoolSound`, `OwnerFIFO`, `GrantSound`, `GrantReachesWaiter`, `RefusalsAreFair`, `ImplementsSlot` |
| `UserMutationsProofs!EffectAtMostOnce`, `IsAClient`, `MutationsApplyOnce`, `MutationTypes`, `PersonIsToldTheTruth`, `EffectsKeepOrder`, `ConfirmedStaysConfirmed` | `AppliedOnce` of the server and, by refinement of `ServerSpec`, of the composition; `TypeOK`, `ToldTheTruth`, `EffectsInOrder`, `ConfirmedIsFinal` |
| `WebhookDispatchProofs!AuthorityOfSends`, `QueueIsConsistent`, `DeliveriesInOrder`, `LagIsExcused`, `FinishedStays` | `SendsHaveAuthority`, `QueueConsistent`, `InOrder`, `LagHasCause`, `FinishedIsFinal` |
| `ProfilePurgeProofs!PurgeIsSound`, `ParkedForACause` | `PurgeSound`, `ParkedHasCause` |

`GateInvariant`, `MutationInvariant`, `WebhookInvariant` and `InboxesAccount` are the
inductive invariants the theorems of their modules follow from.

The arguments:

* **AuthorityGate.** The invariant adds to the properties that the counted leases are
  exactly those acquired and either not closed or still committing (`LeasesAgree`), that
  they were acquired under the incarnation and channel in force (`LeasesCurrent`), and that
  no channel above the current one is closed or waited on (`ChannelsOrdered`). Without the
  first, `CommitEnd` could count out a lease that `Close` had already counted out; the
  second is what `Rotate` needs its drained gate for.
* **ReaderScope.** `GapIsDrained` and `DrainHasCloser` need each other: the one says what a
  closed channel means, the other that an open one still has a reader, and `CloseReader`
  moves from the second to the first. The counters are cardinalities, so the proof rests
  on lemmas about adding to and removing from a finite set (`Reader` is assumed finite).
* **WriteGate.** `GateInv` has five parts. `PoolInv` says that the pool holds exactly the
  callers that wait: the line of each owner in each class is its waiters in arrival order
  (`Sorted`), admitted before deferred ones; a rotation lists the owners with tickets; the
  counters are cardinalities of the waiting users; pool and supervisors are within their
  limits. It is preserved helper by helper: one lemma for each operator on queues (`Push`,
  `PushFront`, `Drop`), one for each on pools, and each action composes them. A borrowed
  ticket is the newest admitted one, which is why putting it in front of its owner's deferred
  work keeps the order; an offered ticket is the oldest deferred one of its owner, which is
  why admitting it does. Admission runs up to `WriterQueueCapacity` rounds
  (a recursive function): each round keeps the pool fine, and a least counterexample among
  the rounds does not exist. `GrantOK` says of a pending grant what lets it begin
  (`LegalFor`), and of a missing one why nobody may begin (`NobodyFor`); it follows from what
  `PickWinner` returns, and otherwise from how little an action moves. `HolderOK` ties
  `active`, `holder` and the callers together, `RecoveryOK` the phase, the reserved turn and
  the generation: nobody began between the fence and the turn. For the refinement every
  action is matched with a step of the slot or with none. `RecoverySecurityReserve` is
  assumed positive (128 in the code).
* **WalCheckpoint.** `CopyInv` relates what a checkpoint remembers to the slot: a
  checkpoint that was idle at its fence, copied in full and saw no write since has left no
  frame behind.
  `RecoveryOwned` is inductive with it (`OwnInv`): phases, gap and turn determine the one
  attempt that has them, so a step of another attempt cannot touch them. `ResetInGap` adds
  that from the final drain on the gap is drained (`FinalGap`) and inherits `GapInv` of the
  readers, whose proof is reused through their next-state relation.
* **EventFeed.** `LoopInv` says at each place of the pass what may still be unread, and
  that a peer's commit it does not know of (`Peer`) has a step of its own left: the count
  tells them apart, which is what makes giving back the wake safe. `WakeInv` says of every
  sleeping stream who still owes it a wake (`Owed`): the loop's pass has found the row, the
  loop will read it, or it is one of `missed`. `CloseInv` bounds the rows since everybody
  was woken last.
* **SharedStream.** `FeedInv` follows an event from the ring to the windows. `StreamOK`: the
  frames on their way are in order and show every event between where the leader stands and
  where the stream does; a page has this from the ring (`PageOK`), reading on keeps it
  (`StreamReads`), and so does receiving the first frame (`StreamHead`). `Complete`: once a
  window is greeted, its inbox up to a message accounts for every event up to that message's
  position, and the whole inbox for every event up to the leader's: the window knows the
  event, or it comes earlier in the inbox, or a greeting from beyond it does. What a leader
  may post (`MayPost`) keeps that for all others at once, hearing the first message keeps it
  for the rest (`HeadHeard`). A window without a cause of loss therefore knows all it has
  moved past (`WindowOK`). What it knew where its call began has to be kept as well: a
  greeting from there brings nothing. The proof is by window and message and needs no
  bound on either; the budgets are arbitrary. It uses that the leader is the window with the
  lock, which is inductive here because the lock is never lost (`FeedInv`).
* **MutationReceipts.** A key that took effect is `Spent`: its receipt is there, or a cutoff
  rejects it. Pruning and retirement move a key from the first to the second (`Remembered`),
  and cutoffs never move back, whatever the clock does.
* **UserMutations.** `MutationInv` says of every piece of the client's knowledge that it is
  true: an entry marked confirmed took effect under its sign-in, one marked refused was
  refused, an answer on its way or in a tab's hand fits what the server did, and a tab in a
  stage that needs the lease has the entry's sign-in, or heard its answer while it had
  (`Heard`). These stay true because effects
  and refusals are never undone and a key that was spent without an effect never gets one.
  For the order, a change that the server may still apply has no pending change of its
  target in front of it. The composition's steps are the server's own or leave it alone
  (`IsAClient`), so `AppliedOnce` is inherited.
* **WebhookDispatch.** `WebhookInv` says that a live admission is for the webhook as it
  stands, or the webhook is in `closing` and its sends are about to be cancelled; that a
  batch is the front of what waits for its webhook, and delivered rows come before waiting
  ones; that a row is waiting exactly while its webhook can still send it. For
  `LagHasCause` it follows the last row about the title: its payload shows the title, or it
  has yet to be built, or one of the excuses holds. What a new owner has yet to review is
  tied to the generation of the rows made before. `MaxRows` and the budgets bound the model
  and are arbitrary.
* **ProfilePurge.** `Pending` says what a verification that spans several commits still
  knows: a row it has not missed is found by a unit ahead of it, or hangs on a row that is,
  and a row it has missed is behind all of them. Rows change only while nothing is
  verified, so this has to survive only late rows and units that found nothing. The proof
  assumes of the plan (`PlanAssumption`) what the registry is built to satisfy: guards for
  every child of a row that is deleted, which alone carries `CustodyKept`, and children's
  units in front of their parents' (`GuardsAreComplete`); a unit for every row the profile
  itself scopes, and children one hop away (`PlanCovers`). `ParkedHasCause` rests on
  `CauseInv` (until a late session comes in none is left behind the unit that removes them)
  and on `RewindsHaveRoom`, which each of the registry's 229 units satisfies: every guarded
  table has a unit earlier in the same phase (the rule of `profile_purge_registry.go:10-13`),
  so a rewind is never refused, and the sessions (phase 104) go before a family is revoked
  (112). Both theorems hold for any two orders of the rows, so an order mismatch can keep a
  purge from ending but not make it end wrongly or park.

Only model-checked: all liveness (`DrainCompletes`, `Served`, `NobodyStuck`,
`Settles`, `EventsArrive`, `CatchesUp`, `DeliveriesEnd`, `PurgesEnd`), as
the prover does not treat fairness and ENABLED. Every safety property of a passing run has a
theorem. Induction over data is used in one form only:
a set of naturals that is not empty has a least element (`WFMin` of the library, whose
parameters are constants), which serves for rounds of a loop and for the newest or oldest of
a set; the induction theorems that take a predicate are out of the provers' reach.

## 5. What is not modelled, and why

* SQLite is modelled as what the code relies on: one writer at a time, a PASSIVE
  checkpoint that copies what no reader pins and may be busy, a TRUNCATE that resets an
  entirely copied log. Its own locking is not.
* Durations. A timer may end at any time after it began; that a deadline is 250 ms long
  decides nothing here. Metrics, logs and stack traces are left out.
* The network and browsers are what the code relies on: a request may be lost, late or
  served again, a lock is held by one window and freed when it closes, a channel brings
  messages in order. Payloads, signatures and status texts are left out. The lease of
  plain-HTTP pages (`tab-lease.ts`) and with it two leaders at once are left out of
  `SharedStream`. A secret that has to be entered again (`index.ts:419`) is left out of
  `UserMutations`.
* In `eventfeed`: parked polls and their permits, several viewers, key rotation of cursors.
  In `webhooks`: create receipts, revision conflicts, the pruning of the log, subscriptions
  to single events. In the purge: keys in the cursor and units drained by the turn that
  changes, which other owners of the engine use; the effect meter (`ErrEffects`), which no unit
  of this owner can exceed; errors of a plan or a cursor, which validation refuses; a target
  that was superseded, whose job is retried for ever (`profile_purge.go:338-350`); units that go through several hops or scrub a row, children of two parents,
  avatars and preparations.
* The ledger's arithmetic: a reservation is ready or not. See the plan.
* The components listed as not modelled in `PROJECT.json`, each with its reason: most are
  sequential code over SQL whose correctness is about data or formats, or talk to media
  tools, the network or the file system.

## 6. Plan

1. `WalLedger` (`wal_reservation.go`), refining what `WriteGate` assumes of reservations;
   nested transactions (`write.go`); poll permits of the feed; the lease of plain-HTTP pages
   (`tab-lease.ts`) under `SharedStream`; `linearbuffer`.
2. Proofs: that a stream of `EventFeed` is one `SharedStream` may assume, so that the two
   compose as `WriteGate` and `WalCheckpoint` do.

The order puts first what the rest of the server depends on most, and keeps one run for
each module's distinct question.
