--------------------------- MODULE WebhookDispatch ---------------------------
(***************************************************************************)
(* internal/webhooks: how the server tells an owner's services what has    *)
(* happened.  An event becomes a row per webhook that wants it, in the     *)
(* transaction that made the change (a trigger of the schema).  The        *)
(* dispatcher reads the rows that are due, posts them, each webhook's in   *)
(* order and some webhooks at a time, and records each result.             *)
(*                                                                         *)
(* A writer transaction is one action.  The calls a transaction leaves for *)
(* after its commit run before the write gate is free again: until then    *)
(* `closing' keeps other transactions out.  An attempt is cut where it     *)
(* waits: admission, the reads of its payload, the request, its answer and *)
(* the record of it.  A crash loses what the process remembers.            *)
(*                                                                         *)
(* The catalogue is one title, of which webhooks hear as often as it       *)
(* changes (title.added and title.updated are one kind: a title is added   *)
(* once, and an update is left out while its addition waits untried).      *)
(* "plain" is an event of another type, always about one subject.  A row's *)
(* place is its order (created_ms and rowid), and a row that is finished   *)
(* stays: the log's bound is about what a page lists.                      *)
(***************************************************************************)
EXTENDS Naturals, Sequences, FiniteSets, FiniteSetsExt

CONSTANTS
    Hook,             \* the webhooks
    MaxAttempts,      \* attempts of one delivery: len(retryDelays)+1
    MaxQueued,        \* deliveries that may wait for one webhook
    MaxTests,         \* tests that may wait for one webhook
    BatchLimit,       \* deliveries of one webhook in one step
    ParallelWebhooks, \* webhooks served at a time
    MaxRows,          \* deliveries of one webhook in one behaviour (what Budgets let happen)
    Edits,            \* what one change of a webhook may save
    Budgets           \* bounds on what may happen in one behaviour

Fields == {"url", "events", "secret", "on", "off"}

ASSUME WebhookAssumption ==
    /\ MaxAttempts \in Nat \ {0} /\ MaxQueued \in Nat /\ MaxTests \in Nat
    /\ MaxRows \in Nat /\ BatchLimit \in Nat \ {0} /\ ParallelWebhooks \in Nat \ {0}
    /\ Edits \subseteq SUBSET Fields
    /\ \A edit \in Edits : edit # {} /\ ~({"on", "off"} \subseteq edit)

\* What the budgets bound.
Kinds == {"creates", "events", "tests", "changes", "transfers", "errors", "crashes"}

ASSUME BudgetAssumption ==
    /\ Budgets \subseteq [Kinds -> Nat]
    /\ \A b \in Budgets : b["events"] + b["tests"] <= MaxRows

VARIABLES
    hook,     \* webhooks: authority_generation, enabled and the owner's review
    rows,     \* webhook_deliveries of each webhook
    title,    \* how often the title has changed
    closing,  \* the webhooks whose sends a committed change has yet to cancel
    send,     \* the step: what it does for each webhook
    active,   \* Store.active: the deliveries with an admission
    paused,   \* Dispatcher.paused: the webhooks left alone for a while
    known,    \* history: the state of the title each receiver accepted last
    dropped,  \* history: webhooks whose queue had no place for the last change
    owed,     \* history: what a new owner has yet to save
    budget    \* how many events of each kind are left

history == <<known, dropped, owed>>
vars == <<hook, rows, title, closing, send, active, paused, history, budget>>

Spend(what) == budget[what] > 0 /\ budget' = [budget EXCEPT ![what] = @ - 1]

\* The webhook's part of the step before an admission: where it is, what is left
\* of its batch and the generation read with it.
Part(where, batch, gen) ==
    [at |-> where, batch |-> batch, gen |-> gen, live |-> FALSE, sees |-> 0, code |-> "none"]

\* sees is the title in the payload, code the outcome of the attempt.
Rest == Part("rest", {}, 0)

\* late and blind are history: a change was folded into a payload already read,
\* and a payload was made without a look at the title.
Row(h, kind, t) ==
    [gen |-> hook[h].gen, kind |-> kind, state |-> "pending", attempts |-> 0,
     due |-> kind # "title", title |-> t, late |-> FALSE, blind |-> FALSE]

NoHook == [gen |-> 0, enabled |-> FALSE, review |-> FALSE, reviewed |-> FALSE,
           replaced |-> FALSE, there |-> FALSE]

Init ==
    /\ hook = [h \in Hook |-> NoHook]
    /\ rows = [h \in Hook |-> <<>>]
    /\ title = 0 /\ closing = {}
    /\ send = [h \in Hook |-> Rest] /\ active = {} /\ paused = {}
    /\ known = [h \in Hook |-> 0] /\ dropped = {}
    /\ owed = [h \in Hook |-> {}]
    /\ budget \in Budgets

----------------------------------------------------------------------------
(* The rows. *)

Pending(h, i) == i \in DOMAIN rows[h] /\ rows[h][i].state = "pending"
Waiting(h) == {i \in DOMAIN rows[h] : Pending(h, i)}

\* What the step selects and what an admission and a record check again.
Eligible(h, i) ==
    /\ Pending(h, i) /\ hook[h].there
    /\ rows[h][i].gen = hook[h].gen
    /\ ~hook[h].review
    /\ hook[h].enabled \/ rows[h][i].kind = "test"

Sending(h) == send[h].at \in {"build", "post", "sent", "record"}

\* The delivery a webhook's part of the step is at.
Current(h) == Min(send[h].batch)

\* The payload is made: what changes from now on it does not show.
Built(h, i) == send[h].at \in {"post", "sent", "record"} /\ i = Current(h)

GateFree == closing = {}

Wants(h) == hook[h].there /\ hook[h].enabled /\ ~hook[h].review
Full(h) == Cardinality(Waiting(h)) >= MaxQueued

\* Mutant: the index that folds covers finished deliveries too.
FoldsEver(h, i, kind) == i \in DOMAIN rows[h] /\ rows[h][i].kind = kind

\* A delivery that was not attempted yet stands for further events of its type and
\* subject.
Folds(h, i, kind) == Pending(h, i) /\ rows[h][i].attempts = 0 /\ rows[h][i].kind = kind

\* webhook_events_fan_out, in the transaction of the change.
Event(kind) ==
    /\ GateFree /\ Spend("events")
    /\ LET now == IF kind = "title" THEN title + 1 ELSE title
           lost == {h \in Hook : Wants(h) /\ Full(h)}
           fold == {h \in Hook : Wants(h) /\ \E i \in DOMAIN rows[h] : Folds(h, i, kind)}
           new == {h \in Hook : Wants(h)} \ (lost \cup fold)
       IN
       /\ title' = now
       /\ rows' = [h \in Hook |->
            IF h \in new THEN Append(rows[h], Row(h, kind, now))
            ELSE IF h \in fold /\ kind = "title"
            THEN [i \in DOMAIN rows[h] |->
                    [rows[h][i] EXCEPT !.late = @ \/ (Folds(h, i, kind) /\ Built(h, i))]]
            ELSE rows[h]]
       /\ dropped' = IF kind = "title"
                     THEN (dropped \ (new \cup fold)) \cup (lost \ fold) ELSE dropped
    /\ UNCHANGED <<hook, closing, send, active, paused, known, owed>>

\* SendTest, also for a webhook that is turned off.
SendTest(h) ==
    /\ GateFree /\ hook[h].there /\ ~hook[h].review
    /\ Cardinality({i \in Waiting(h) : rows[h][i].kind = "test"}) < MaxTests
    /\ Spend("tests")
    /\ rows' = [rows EXCEPT ![h] = Append(@, Row(h, "test", title))]
    /\ UNCHANGED <<hook, title, closing, send, active, paused, history>>

\* next_attempt_ms passes: the delay of a new title, or of a retry.
Due(h, i) ==
    /\ Pending(h, i) /\ ~rows[h][i].due
    /\ rows' = [rows EXCEPT ![h][i].due = TRUE]
    /\ UNCHANGED <<hook, title, closing, send, active, paused, history, budget>>

----------------------------------------------------------------------------
(* The owner's changes. *)

\* Mutant: those that ended are given up too.
GiveUpEnded(h) == [i \in DOMAIN rows[h] |-> [rows[h][i] EXCEPT !.state = "failed"]]

\* Mutant: tests are kept.
GiveUpEvents(h) ==
    [i \in DOMAIN rows[h] |->
        IF Pending(h, i) /\ rows[h][i].kind # "test"
        THEN [rows[h][i] EXCEPT !.state = "failed"] ELSE rows[h][i]]

\* Deliveries that waited are given up, never sent to what the webhook is now.
GiveUpAll(h) ==
    [i \in DOMAIN rows[h] |->
        IF Pending(h, i) THEN [rows[h][i] EXCEPT !.state = "failed"] ELSE rows[h][i]]

Create(h) ==
    /\ GateFree /\ hook[h].gen = 0
    /\ Spend("creates")
    /\ \E on \in BOOLEAN :
          hook' = [hook EXCEPT ![h] = [NoHook EXCEPT !.gen = 1, !.enabled = on, !.there = TRUE]]
    /\ UNCHANGED <<rows, title, closing, send, active, paused, history>>

\* Update, made against the revision in force (another one changes nothing).
\* Under review a webhook is enabled only once its destination was saved and its
\* secret replaced.
Update(h, edit) ==
    LET reviewed == hook[h].reviewed \/ (hook[h].review /\ {"url", "events"} \subseteq edit)
        replaced == hook[h].replaced \/ (hook[h].review /\ "secret" \in edit)
        approved == "on" \in edit /\ reviewed /\ replaced
    IN
    /\ GateFree /\ hook[h].there
    /\ hook[h].review /\ "on" \in edit => approved
    /\ Spend("changes")
    /\ hook' = [hook EXCEPT ![h] =
          [gen |-> hook[h].gen + 1,
           enabled |-> "on" \in edit \/ (hook[h].enabled /\ "off" \notin edit),
           review |-> hook[h].review /\ ~approved,
           reviewed |-> reviewed, replaced |-> replaced, there |-> TRUE]]
    /\ rows' = [rows EXCEPT ![h] = GiveUpAll(h)]
    /\ closing' = {h}
    /\ owed' = [owed EXCEPT ![h] =
          @ \ ((IF {"url", "events"} \subseteq edit THEN {"destination"} ELSE {})
               \cup (IF "secret" \in edit THEN {"secret"} ELSE {}))]
    /\ UNCHANGED <<title, send, active, paused, known, dropped>>

\* Delete; the rows go with the webhook.
Delete(h) ==
    /\ GateFree /\ hook[h].there
    /\ Spend("changes")
    /\ hook' = [hook EXCEPT ![h].there = FALSE]
    /\ rows' = [rows EXCEPT ![h] = <<>>]
    /\ closing' = {h}
    /\ UNCHANGED <<title, send, active, paused, history>>

\* Mutant: what an earlier owner saved still counts.
RetireOwnerKeepsReview ==
    /\ GateFree
    /\ Spend("transfers")
    /\ hook' = [h \in Hook |->
          IF hook[h].there
          THEN [hook[h] EXCEPT !.gen = @ + 1, !.enabled = FALSE, !.review = TRUE]
          ELSE hook[h]]
    /\ rows' = [h \in Hook |-> GiveUpAll(h)]
    /\ closing' = Hook
    /\ owed' = [h \in Hook |-> IF hook[h].there THEN {"destination", "secret"} ELSE {}]
    /\ UNCHANGED <<title, send, active, paused, known, dropped>>

\* RetireOwnerTx, in the transaction that accepts a new owner.
RetireOwner ==
    /\ GateFree
    /\ Spend("transfers")
    /\ hook' = [h \in Hook |->
          IF hook[h].there
          THEN [hook[h] EXCEPT !.gen = @ + 1, !.enabled = FALSE, !.review = TRUE,
                               !.reviewed = FALSE, !.replaced = FALSE]
          ELSE hook[h]]
    /\ rows' = [h \in Hook |-> GiveUpAll(h)]
    /\ closing' = Hook
    /\ owed' = [h \in Hook |-> IF hook[h].there THEN {"destination", "secret"} ELSE {}]
    /\ UNCHANGED <<title, send, active, paused, known, dropped>>

\* Mutant: the generation to keep is read before it moves.
RetiredOfOthers(h) == h \in closing /\ (send[h].gen # hook[h].gen - 1 \/ ~hook[h].there)

\* The admission is of an earlier generation, or of a webhook that is gone.
Retired(h) == h \in closing /\ (send[h].gen # hook[h].gen \/ ~hook[h].there)

\* cancelSends, as the change's after-commit call.
CancelSends ==
    /\ closing # {}
    /\ send' = [h \in Hook |->
          [send[h] EXCEPT !.live = @ /\ ~Retired(h)]]
    /\ closing' = {}
    /\ UNCHANGED <<hook, rows, title, active, paused, history, budget>>

----------------------------------------------------------------------------
(* The dispatcher's step. *)

AllRest == \A h \in Hook : send[h].at = "rest"
Open(h) == {i \in DOMAIN rows[h] : Eligible(h, i)}

\* The destinations that have something to send and are not left alone.
Select ==
    LET order == {h \in Hook \ paused : Open(h) # {}} IN
    /\ AllRest /\ order # {}
    /\ send' = [h \in Hook |-> IF h \in order THEN Part("read", {}, 0) ELSE Rest]
    /\ UNCHANGED <<hook, rows, title, closing, active, paused, history, budget>>

\* A destination's batch: the first that wait, up to one that is not due.
Batch(h) == {i \in Open(h) :
                /\ Cardinality({j \in Open(h) : j < i}) < BatchLimit
                /\ \A j \in Open(h) : j <= i => rows[h][j].due}

ReadBatch(h) ==
    /\ send[h].at = "read"
    /\ send' = [send EXCEPT ![h] =
          IF Batch(h) = {} THEN Rest
          ELSE Part("ready", Batch(h), hook[h].gen)]
    /\ UNCHANGED <<hook, rows, title, closing, active, paused, history, budget>>

\* A query fails: the step returns before anything is sent.
SelectFails ==
    /\ \E h \in Hook : send[h].at = "read"
    /\ Spend("errors")
    /\ send' = [h \in Hook |-> Rest]
    /\ UNCHANGED <<hook, rows, title, closing, active, paused, history>>

\* A slot is free for the webhook's goroutine.
Start(h) ==
    /\ send[h].at = "ready"
    /\ \A g \in Hook : send[g].at # "read"
    /\ Cardinality({g \in Hook : send[g].at = "admit" \/ Sending(g)}) < ParallelWebhooks
    /\ send' = [send EXCEPT ![h].at = "admit"]
    /\ UNCHANGED <<hook, rows, title, closing, active, paused, history, budget>>

\* The row the batch holds is still what the webhook stands for.
MayBeSent(h) == Eligible(h, Current(h)) /\ rows[h][Current(h)].gen = send[h].gen

\* admitSend: the row is looked at again in a writer transaction, and the send is
\* registered in it.
Admit(h) ==
    /\ send[h].at = "admit" /\ GateFree
    /\ IF MayBeSent(h) /\ <<h, Current(h)>> \notin active
       THEN /\ send' = [send EXCEPT ![h].at = "build", ![h].live = TRUE]
            /\ active' = active \cup {<<h, Current(h)>>}
       ELSE /\ send' = [send EXCEPT ![h] = Rest]
            /\ UNCHANGED active
    /\ UNCHANGED <<hook, rows, title, closing, paused, history, budget>>

AdmitFails(h) ==
    /\ send[h].at = "admit"
    /\ Spend("errors")
    /\ send' = [send EXCEPT ![h] = Rest]
    /\ UNCHANGED <<hook, rows, title, closing, active, paused, history>>

\* payload, with the title it has now (present).  When the title cannot be read
\* the one of the row goes out; a payload that is too large is not sent.
Build(h) ==
    /\ send[h].at = "build"
    /\ LET i == Current(h)
           there == i \in DOMAIN rows[h]
       IN
       \/ /\ send' = [send EXCEPT ![h].at = "post", ![h].sees = title]
          /\ rows' = IF there THEN [rows EXCEPT ![h][i].late = FALSE, ![h][i].blind = FALSE]
                              ELSE rows
          /\ UNCHANGED budget
       \/ /\ there /\ Spend("errors")
          /\ send' = [send EXCEPT ![h].at = "post", ![h].sees = rows[h][i].title]
          /\ rows' = [rows EXCEPT ![h][i].blind = TRUE]
       \/ /\ Spend("errors")
          /\ send' = [send EXCEPT ![h].at = "record", ![h].code = "payload_too_large"]
          /\ UNCHANGED rows
    /\ UNCHANGED <<hook, title, closing, active, paused, history>>

\* post: nothing is sent once the admission was cancelled.
Post(h) ==
    /\ send[h].at = "post"
    /\ send' = IF send[h].live THEN [send EXCEPT ![h].at = "sent"]
               ELSE [send EXCEPT ![h].at = "record", ![h].code = "authority_retired"]
    /\ UNCHANGED <<hook, rows, title, closing, active, paused, history, budget>>

\* An answer, an error or the end of the attempt's time.
Answer(h) ==
    /\ send[h].at = "sent"
    /\ \E code \in {"accepted", "refused"} :
          /\ send' = [send EXCEPT ![h].at = "record", ![h].code = code]
          /\ known' = IF code = "accepted" /\ rows[h] # <<>> /\ rows[h][Current(h)].kind = "title"
                      THEN [known EXCEPT ![h] = send[h].sees] ELSE known
    /\ UNCHANGED <<hook, rows, title, closing, active, paused, dropped, owed, budget>>

\* The row after an attempt.
Attempted(row, code) ==
    LET n == row.attempts + 1 IN
    CASE code = "accepted" -> [row EXCEPT !.attempts = n, !.state = "delivered"]
      [] code = "payload_too_large" \/ (code # "accepted" /\ n >= MaxAttempts) ->
            [row EXCEPT !.attempts = n, !.state = "failed"]
      [] OTHER -> [row EXCEPT !.attempts = n, !.due = FALSE]

\* Mutant: the admission of an attempt is never taken back.
ReleaseNever(h) == UNCHANGED active

\* The admission is released when the attempt returns.
Release(h) == active' = active \ {<<h, Current(h)>>}

\* Mutant: a failed attempt lets the batch go on.
ContinueAnyway(h) ==
    LET left == send[h].batch \ {Current(h)} IN
    IF left # {} THEN Part("admit", left, send[h].gen) ELSE Rest

\* What the batch does next: only a delivery lets it go on.
Continue(h) ==
    LET left == send[h].batch \ {Current(h)} IN
    IF send[h].code = "accepted" /\ left # {} THEN Part("admit", left, send[h].gen) ELSE Rest

\* currentDeliveryTx: the delivery is still the one that was admitted.
StillAdmitted(h) == MayBeSent(h)

\* The statement that records the attempt names a row that waits.
Recorded(h) ==
    IF Pending(h, Current(h))
    THEN [rows EXCEPT ![h][Current(h)] = Attempted(@, send[h].code)] ELSE rows

\* The transaction after the attempt, settle, and the end of the admission.
Record(h) ==
    /\ send[h].at = "record" /\ GateFree
    /\ IF StillAdmitted(h)
       THEN /\ rows' = Recorded(h)
            /\ paused' = IF send[h].code = "accepted" THEN paused \ {h} ELSE paused \cup {h}
            /\ send' = [send EXCEPT ![h] = Continue(h)]
       ELSE /\ send' = [send EXCEPT ![h] = Rest]
            /\ UNCHANGED <<rows, paused>>
    /\ Release(h)
    /\ UNCHANGED <<hook, title, closing, history, budget>>

RecordFails(h) ==
    /\ send[h].at = "record"
    /\ Spend("errors")
    /\ send' = [send EXCEPT ![h] = Rest]
    /\ Release(h)
    /\ UNCHANGED <<hook, rows, title, closing, paused, history>>

PauseEnds(h) ==
    /\ h \in paused
    /\ paused' = paused \ {h}
    /\ UNCHANGED <<hook, rows, title, closing, send, active, history, budget>>

\* The process ends and is started again.
Crash ==
    /\ Spend("crashes")
    /\ send' = [h \in Hook |-> Rest]
    /\ active' = {} /\ paused' = {} /\ closing' = {}
    /\ UNCHANGED <<hook, rows, title, history>>

----------------------------------------------------------------------------

Attempt(h) ==
    \/ Start(h) \/ Admit(h) \/ Build(h) \/ Post(h) \/ Answer(h) \/ Record(h)

Next ==
    \/ \E kind \in {"title", "plain"} : Event(kind)
    \/ RetireOwner \/ CancelSends \/ Select \/ SelectFails \/ Crash
    \/ \E h \in Hook :
          \/ SendTest(h) \/ Create(h) \/ Delete(h)
          \/ \E edit \in Edits : Update(h, edit)
          \/ \E i \in DOMAIN rows[h] : Due(h, i)
          \/ ReadBatch(h) \/ Attempt(h) \/ AdmitFails(h) \/ RecordFails(h) \/ PauseEnds(h)

Spec == Init /\ [][Next]_vars

\* The worker's timer calls the step again and again, its goroutines run, every
\* request ends by its time-out, and time passes.
Fairness ==
    /\ WF_vars(Select) /\ WF_vars(CancelSends)
    /\ \A h \in Hook :
          /\ WF_vars(ReadBatch(h)) /\ WF_vars(Attempt(h)) /\ WF_vars(PauseEnds(h))
          /\ WF_vars(\E i \in DOMAIN rows[h] : Due(h, i))

FairSpec == Spec /\ Fairness

----------------------------------------------------------------------------

\* The type of the state; an admission is registered exactly while its attempt
\* is under way.
TypeOK ==
    /\ \A h \in Hook :
          /\ hook[h].gen \in Nat /\ (hook[h].there => hook[h].gen > 0)
          /\ hook[h].review => ~hook[h].enabled
          /\ Len(rows[h]) <= MaxRows
          /\ \A i \in DOMAIN rows[h] : rows[h][i].attempts \in 0..MaxAttempts
          /\ known[h] \in 0..title
    /\ paused \subseteq Hook /\ closing \subseteq Hook
    /\ active = {<<h, Current(h)>> : h \in {g \in Hook : Sending(g)}}

InFlight(h) == send[h].at = "sent" /\ send[h].live

\* authority.go:77-78, "A cached queue row alone never authorizes an HTTP
\* request": a request under way, unless a change just committed is about to
\* cancel it, is for a delivery the webhook stands for as it is now.
SendIsCurrent ==
    \A h \in Hook : InFlight(h) /\ h \notin closing => Eligible(h, Current(h))

\* webhooks.go:111-112: after a transfer nothing is sent, tests included, until
\* the new owner saved the destination and replaced the secret, whatever was
\* saved under an earlier owner.
FreshApproval ==
    \A h \in Hook : InFlight(h) /\ h \notin closing => owed[h] = {}

\* A request under way has the authority of the webhook as it is now and of its
\* present owner.
SendsHaveAuthority == SendIsCurrent /\ FreshApproval

\* dispatch.go:36, "Deliveries to one webhook go in order, one at a time":
\* nothing older waits behind a request, whatever failed, was retried after a
\* crash or was queued meanwhile.
InOrder ==
    \A h \in Hook : InFlight(h) => \A i \in Waiting(h) : Current(h) <= i

\* A delivery that waits can be sent: no change of a webhook leaves one behind
\* that no step would select.
NoStrandedRow == \A h \in Hook : \A i \in Waiting(h) : Eligible(h, i)

\* Deliveries, admissions and webhooks agree: nothing that waits is stranded, and
\* an admission is registered exactly while its attempt is under way.
QueueConsistent == TypeOK /\ NoStrandedRow

\* A finished delivery never changes: a late answer does not settle one that was
\* given up, and no change of a webhook gives up one that ended.
FinishedIsFinal ==
    [][\A h \in Hook : \A i \in DOMAIN rows[h] \cap DOMAIN rows'[h] :
          rows[h][i].state # "pending" =>
             /\ rows'[h][i].state = rows[h][i].state
             /\ rows'[h][i].attempts = rows[h][i].attempts]_vars

Titles(h) == {i \in DOMAIN rows[h] : rows[h][i].kind = "title" /\ rows[h][i].gen = hook[h].gen}

\* Once its last delivery about the title arrived, a receiver has the title as it
\* is now, unless the queue was full, the title could not be read, or the change
\* was folded into that delivery while its first attempt was under way (attempts
\* is counted after it).  The last excuse is a loss, and this pins it: the guide
\* and webhooks.go:818 say the delivery carries the current state.
LagHasCause ==
    \A h \in Hook : Titles(h) # {} =>
        LET i == Max(Titles(h)) IN
        (rows[h][i].state = "delivered" /\ ~rows[h][i].late /\ ~rows[h][i].blind
            /\ h \notin dropped) => known[h] = title

\* Every delivery ends, as delivered or given up.
DeliveriesEnd ==
    \A h \in Hook, i \in 1..MaxRows : Pending(h, i) ~> ~Pending(h, i)

=============================================================================
