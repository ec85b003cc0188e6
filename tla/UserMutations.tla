---------------------------- MODULE UserMutations ----------------------------
(***************************************************************************)
(* client-core/user-mutations.ts: the coordinator that keeps a user's      *)
(* changes in a durable store shared by the tabs of a browser and brings   *)
(* them to the server, composed with the server's receipts.                *)
(*                                                                         *)
(* The store changes only by compare-and-swap (change), so a whole change  *)
(* callback is one action.  perform is cut where it awaits: the lookup of  *)
(* the receipt, the request, and the lookup that confirms it.  A server    *)
(* answer and the tab that takes it up are separate actions.  A request    *)
(* stays on the wire when its tab has given up on it, and may be served    *)
(* more than once.  A tab may be frozen (its lease is not renewed and runs *)
(* out) and go on later, or be reloaded.                                   *)
(***************************************************************************)
EXTENDS MutationReceipts, SequencesExt

CONSTANTS
    Tab,         \* the coordinators: leaseOwner
    NoTab,       \* no leaseOwner
    Target,      \* the target of each key's change
    Budgets      \* bounds on what may happen in one behaviour (see budget)

ASSUME ClientAssumption ==
    /\ NoTab \notin Tab
    /\ DOMAIN Target = Key
    /\ Budgets \subseteq [runs : [Key -> Nat], freezes : Nat, switches : Nat,
                         reviews : Nat, upkeep : Nat, bars : Nat]

VARIABLES
    queue,    \* state.entries: the keys in the order they were admitted
    entry,    \* the entry of each key
    scope,    \* options.scope() of each tab: its live sign-in
    late,     \* the sign-in a pump still in its await read before a change of it
    work,     \* running and recovering: what each tab is doing for a key
    frozen,   \* the tabs whose timers and callbacks do not run
    wire,     \* the requests the server may still serve
    budget,   \* how many calls of run for each key, freezes and reloads,
              \* changes of a sign-in, reconciles, server upkeeps and lookups
              \* refused to a reader are left
    released, \* history: the keys whose draft a person let go
    givenUp   \* history: the keys that left "pending" unconfirmed

signIn == <<scope, late>>
clientVars == <<queue, entry, signIn, work, frozen, wire, budget,
                released, givenUp>>
vars == <<serverVars, clientVars>>

States == {"none", "pending", "review", "quarantined", "confirmed"}
Proofs == {"none", "applied", "conflict", "refused"}
Stages == {"idle", "look", "post", "sent", "check", "again"}

\* attempts is capped at one, for only a first attempt differs; leased says that
\* leaseUntilMs has not passed.  A pump may come at any time, so dueMs is left out.
Entries == [state : States, scope : Family \cup {NoFamily}, attempts : 0..1,
            owner : Tab \cup {NoTab}, leased : BOOLEAN,
            proof : Proofs]

NoEntry == [state |-> "none", scope |-> NoFamily, attempts |-> 0,
            owner |-> NoTab, leased |-> FALSE, proof |-> "none"]

\* The perform or reconcile of a key in a tab: its family, the server's answer,
\* whether its headers came before the sign-in changed, and reconcile's witness.
Idle == [stage |-> "idle", family |-> NoFamily, answer |-> "none", heard |-> FALSE,
         saw |-> NoEntry]

Pending(k) == entry[k].state = "pending"
Mine(t, k) == Pending(k) /\ entry[k].owner = t
Live(t) == t \notin frozen
Running(t, k) == work[t][k].stage \notin {"idle", "again"}
InScope(t, k) == scope[t] = work[t][k].family
Position(k) == CHOOSE i \in DOMAIN queue : queue[i] = k
Before(j, k) == Position(j) < Position(k)
Rest(k) == RemoveAt(queue, Position(k))   \* a key has one place

\* A review that holds back further changes of its target.
Blocks(k) == entry[k].state = "review" /\ entry[k].proof = "conflict"

Spend(what) == budget[what] > 0 /\ budget' = [budget EXCEPT ![what] = @ - 1]

Unlease(e) == [e EXCEPT !.owner = NoTab, !.leased = FALSE]

----------------------------------------------------------------------------

Init ==
    /\ ServerInit
    /\ queue = <<>>
    /\ entry = [k \in Key |-> NoEntry]
    /\ \E f \in Family : scope = [t \in Tab |-> f]
    /\ late = [t \in Tab |-> {}]
    /\ work = [t \in Tab |-> [k \in Key |-> Idle]]
    /\ frozen = {} /\ wire = {}
    /\ budget \in Budgets
    /\ released = {} /\ givenUp = {}

\* run admits a new entry; a key or intent already in the store is joined
\* without a change, and a conflict of the target under review refuses it.
Run(t, k) ==
    /\ Live(t) /\ scope[t] # NoFamily
    /\ budget.runs[k] > 0 /\ entry[k].state = "none"
    /\ \A j \in ToSet(queue) :
          ~(Blocks(j) /\ entry[j].scope = scope[t] /\ Target[j] = Target[k])
    /\ queue' = Append(queue, k)
    /\ entry' = [entry EXCEPT ![k] = [NoEntry EXCEPT !.state = "pending", !.scope = scope[t]]]
    /\ budget' = [budget EXCEPT !.runs[k] = @ - 1]
    /\ UNCHANGED <<serverVars, signIn, work, frozen, wire, released, givenUp>>

\* The sign-in a pump goes by: it reads it before it awaits the store.
PumpScope(t) == IF late[t] = {} THEN scope[t] ELSE CHOOSE f \in late[t] : TRUE

\* pump, first half: entries of another sign-in are quarantined, and the
\* leases of the work this tab runs are renewed.
Swept(t, k) ==
    CASE Pending(k) /\ entry[k].scope # PumpScope(t) ->
            [Unlease(entry[k]) EXCEPT !.state = "quarantined"]
      [] Mine(t, k) /\ entry[k].scope = PumpScope(t) /\ Running(t, k) ->
            [entry[k] EXCEPT !.leased = TRUE]
      [] OTHER -> entry[k]

\* Mutant: an entry behind another one of its target may be taken.
ReadyAnyPlace(t, k) ==
    LET open == {j \in ToSet(queue) : Swept(t, j).state = "pending"}
        leased == {j \in open : Swept(t, j).leased}
    IN /\ k \in open
       /\ ~Running(t, k) /\ ~Swept(t, k).leased
       /\ \A j \in leased : Target[j] # Target[k]

\* Whether k may be taken by t: the first pending change of its target, 
\* with no live lease on it or on another change of the target.
Ready(t, k) ==
    LET open == {j \in ToSet(queue) : Swept(t, j).state = "pending"}
        leased == {j \in open : Swept(t, j).leased}
    IN /\ k \in open
       /\ \A j \in open : Target[j] = Target[k] /\ j # k => Before(k, j)
       /\ ~Running(t, k) /\ ~Swept(t, k).leased
       /\ \A j \in leased : Target[j] # Target[k]

\* At most two leases are live in the shared store, in the order of the queue.
Picks(t) ==
    LET open == {j \in ToSet(queue) : Swept(t, j).state = "pending"}
        occupied == Cardinality({j \in open : Swept(t, j).leased})
        ready == {k \in ToSet(queue) : Ready(t, k)}
    IN {k \in ready : occupied + Cardinality({j \in ready : Before(j, k)}) < 2}

\* pump.  The work it starts looks its receipt up first when it is a retry.
Pump(t) ==
    /\ Live(t)
    /\ LET picks == Picks(t) IN
       /\ entry' = [k \in Key |->
            IF k \in picks
            THEN [Swept(t, k) EXCEPT !.owner = t, !.leased = TRUE, !.attempts = 1]
            ELSE Swept(t, k)]
       /\ work' = [work EXCEPT ![t] = [k \in Key |->
            IF k \in picks
            THEN [Idle EXCEPT !.stage = IF entry[k].attempts > 0 THEN "look" ELSE "post",
                              !.family = PumpScope(t)]
            ELSE work[t][k]]]
    /\ late' = [late EXCEPT ![t] = {}]
    /\ givenUp' = givenUp \cup {k \in Key : entry'[k].state = "quarantined"}
    /\ UNCHANGED <<serverVars, queue, scope, frozen, wire, budget, released>>

----------------------------------------------------------------------------
(* perform, from one await to the next. *)

\* Mutant: a tab that lost its lease writes all the same.
UpdateAnyway(t, k, e) == entry' = [entry EXCEPT ![k] = Unlease(e)]

\* update: only the holder of the lease changes a pending entry.
Update(t, k, e) == entry' = IF Mine(t, k) THEN [entry EXCEPT ![k] = Unlease(e)]
                                          ELSE entry

\* perform ends by leaving the entry in a state, or pending for a retry.
End(t, k, state, proof) ==
    /\ Update(t, k, [entry[k] EXCEPT !.state = state, !.proof = proof])
    /\ work' = [work EXCEPT ![t][k] = Idle]
    /\ givenUp' = IF Mine(t, k) /\ state \in {"review", "quarantined"}
                  THEN givenUp \cup {k} ELSE givenUp
    /\ UNCHANGED <<serverVars, queue, signIn, frozen, wire, budget, released>>

Retry(t, k) == End(t, k, "pending", "none")

\* complete: an applied receipt confirms, a conflict asks for a review.
Complete(t, k, status) ==
    IF status = "applied" THEN End(t, k, "confirmed", "applied")
                          ELSE End(t, k, "review", "conflict")

\* refusal: what the four hundreds leave behind.
Refuse(t, k, answer) ==
    CASE answer = "denied" -> End(t, k, "quarantined", "none")
      [] answer \in {"gone", "hidden"} -> End(t, k, "review", "none")
      [] answer = "clash" -> End(t, k, "review", "conflict")
      [] answer = "invalid" -> End(t, k, "review", "refused")

Step(t, k, w) ==
    /\ work' = [work EXCEPT ![t][k] = w]
    /\ UNCHANGED <<serverVars, queue, entry, signIn, frozen, wire, budget, released, givenUp>>

\* The tab's sign-in is no longer the one the work began under.  Nobody compares
\* them once an answer that ends the work was heard.
ScopeLost(t, k) ==
    /\ Live(t) /\ Running(t, k) /\ ~InScope(t, k)
    /\ work[t][k].heard => work[t][k].answer = "accepted"
    /\ End(t, k, "quarantined", "none")

\* The server answers a lookup; the answer is on its way to the tab.
Look(t, k) ==
    /\ work[t][k].stage \in {"look", "check", "again"}
    /\ work[t][k].answer = "none"
    /\ Step(t, k, [work[t][k] EXCEPT !.answer = LookupAnswer(work[t][k].family, k)])

\* The lookup finds the receipt, but its reader may not see its target any more
\* (userMutationReceiptAccess): a 404 like one of a target that is gone, or a 403.
LookBarred(t, k) ==
    /\ work[t][k].stage \in {"look", "check", "again"}
    /\ work[t][k].answer = "none"
    /\ Finds(work[t][k].family, k)
    /\ \E answer \in {"hidden", "denied"} :
          work' = [work EXCEPT ![t][k] = [work[t][k] EXCEPT !.answer = answer]]
    /\ Spend("bars")
    /\ UNCHANGED <<serverVars, queue, entry, signIn, frozen, wire, released, givenUp>>

\* mutationExchange compares the sign-in when the headers of an answer come; its
\* body is read, and what it says is stored, later.
Heard(t, k) == work[t][k].answer # "none" /\ (InScope(t, k) \/ work[t][k].heard)

GoOn(t, k, stage) ==
    Step(t, k, [work[t][k] EXCEPT !.stage = stage, !.answer = "none", !.heard = FALSE])

\* The lookup before a retry.
Looked(t, k) ==
    /\ Live(t) /\ work[t][k].stage = "look" /\ Heard(t, k)
    /\ LET answer == work[t][k].answer IN
       CASE answer \in {"applied", "conflict"} -> Complete(t, k, answer)
         [] answer = "unknown" -> GoOn(t, k, "post")
         [] OTHER -> Refuse(t, k, answer)

\* The request goes out.
Send(t, k) ==
    /\ Live(t) /\ InScope(t, k)
    /\ work[t][k].stage = "post"
    /\ work' = [work EXCEPT ![t][k].stage = "sent"]
    /\ wire' = wire \cup {[tab |-> t, key |-> k, family |-> work[t][k].family]}
    /\ UNCHANGED <<serverVars, queue, entry, signIn, frozen, budget, released, givenUp>>

Awaits(m) == /\ work[m.tab][m.key].stage = "sent"
             /\ work[m.tab][m.key].answer = "none"
             /\ work[m.tab][m.key].family = m.family

\* The server serves a request, whose tab may no longer wait for it.
Serve(m) ==
    /\ m \in wire
    /\ \E answer \in Answers :
          /\ Execute(m.family, m.key, answer)
          /\ work' = IF Awaits(m) THEN [work EXCEPT ![m.tab][m.key].answer = answer]
                                  ELSE work
    /\ UNCHANGED <<queue, entry, signIn, frozen, wire, budget, released, givenUp>>

\* The answer to the request: an accepted one is confirmed by its receipt, if
\* the sign-in is still the same.
Sent(t, k) ==
    /\ Live(t) /\ work[t][k].stage = "sent" /\ Heard(t, k)
    /\ \/ work[t][k].answer = "accepted" /\ InScope(t, k) /\ GoOn(t, k, "check")
       \/ work[t][k].answer # "accepted" /\ Refuse(t, k, work[t][k].answer)

\* Mutant: an accepted request is taken for a confirmation.
CheckedByStatus(t, k) ==
    /\ Live(t) /\ work[t][k].stage = "check" /\ Heard(t, k)
    /\ Complete(t, k, "applied")

\* The lookup after it: while it finds no receipt the entry stays pending.
Checked(t, k) ==
    /\ Live(t) /\ work[t][k].stage = "check" /\ Heard(t, k)
    /\ LET answer == work[t][k].answer IN
       CASE answer \in {"applied", "conflict"} -> Complete(t, k, answer)
         [] answer \in {"unknown", "hidden"} -> Retry(t, k)
         [] OTHER -> Refuse(t, k, answer)

\* No answer in time, an unreadable one, or a server that is busy.
Fails(t, k) ==
    /\ Live(t)
    /\ work[t][k].stage \in {"look", "sent", "check"}
    /\ work[t][k].answer = "none"
    /\ Retry(t, k)

\* reconcile's lookup fails: nothing changes.
ReconcileFails(t, k) ==
    /\ Live(t) /\ work[t][k].stage = "again" /\ work[t][k].answer = "none"
    /\ Step(t, k, Idle)

----------------------------------------------------------------------------
(* The person's side, and time. *)

\* reconcile(key): look the receipt of a settled entry up again.
Reconcile(t, k) ==
    /\ Live(t) /\ work[t][k].stage = "idle"
    /\ entry[k].state \in {"review", "confirmed"} /\ entry[k].scope = scope[t]
    /\ Spend("reviews")
    /\ work' = [work EXCEPT ![t][k] = [stage |-> "again", family |-> scope[t], answer |-> "none",
                                       heard |-> FALSE, saw |-> entry[k]]]
    /\ UNCHANGED <<serverVars, queue, entry, signIn, frozen, wire, released, givenUp>>

\* Only a receipt, and only an entry that is still as it was read, is rewritten.
Reconciled(t, k) ==
    /\ Live(t) /\ work[t][k].stage = "again" /\ work[t][k].answer # "none"
    /\ LET answer == work[t][k].answer IN
       entry' = IF answer \in {"applied", "conflict"} /\ InScope(t, k)
                   /\ entry[k] = work[t][k].saw
                THEN [entry EXCEPT ![k].proof = answer,
                                   ![k].state = IF answer = "applied" THEN "confirmed"
                                                                      ELSE "review"]
                ELSE entry
    /\ work' = [work EXCEPT ![t][k] = Idle]
    /\ UNCHANGED <<serverVars, queue, signIn, frozen, wire, budget, released, givenUp>>

\* Mutant: the key keeps its place in the queue.
LetGoKeepsPlace(k) ==
    /\ entry' = [entry EXCEPT ![k] = NoEntry]
    /\ released' = released \cup {k}
    /\ UNCHANGED <<serverVars, queue, signIn, work, frozen, wire, budget, givenUp>>

\* An entry leaves the store.
LetGo(k) ==
    /\ queue' = Rest(k)
    /\ entry' = [entry EXCEPT ![k] = NoEntry]
    /\ released' = released \cup {k}
    /\ UNCHANGED <<serverVars, signIn, work, frozen, wire, budget, givenUp>>

\* acknowledge; a confirmed Stop is let go the same way by drainStopConsumers.
Acknowledge(t, k) ==
    /\ Live(t) /\ scope[t] = entry[k].scope
    /\ entry[k].state = "confirmed"
    /\ LetGo(k)

\* Mutant: any review may be dismissed, an expired receipt included.
DismissAnyReview(t, k) ==
    /\ Live(t) /\ scope[t] = entry[k].scope
    /\ entry[k].state = "review"
    /\ LetGo(k)

\* dismissReviewed: never without the server's word.
DismissReviewed(t, k) ==
    /\ Live(t) /\ scope[t] = entry[k].scope
    /\ entry[k].state = "review" /\ entry[k].proof \in {"conflict", "refused"}
    /\ LetGo(k)

\* Mutant: the lease of a tab that was reloaded does not run out.
LeaseEndsWhenFrozen(k) ==
    /\ Pending(k) /\ entry[k].leased
    /\ entry[k].owner \in frozen
    /\ entry' = [entry EXCEPT ![k].leased = FALSE]
    /\ UNCHANGED <<serverVars, queue, signIn, work, frozen, wire, budget, released, givenUp>>

\* leaseUntilMs passes: its owner is frozen or gone, for it would renew it.
LeaseEnds(k) ==
    /\ Pending(k) /\ entry[k].leased
    /\ entry[k].owner \in frozen \/ ~Running(entry[k].owner, k)
    /\ entry' = [entry EXCEPT ![k].leased = FALSE]
    /\ UNCHANGED <<serverVars, queue, signIn, work, frozen, wire, budget, released, givenUp>>

Freeze(t) ==
    /\ Live(t)
    /\ frozen' = frozen \cup {t}
    /\ Spend("freezes")
    /\ UNCHANGED <<serverVars, queue, entry, signIn, work, wire, released, givenUp>>

Thaw(t) ==
    /\ t \in frozen
    /\ frozen' = frozen \ {t}
    /\ UNCHANGED <<serverVars, queue, entry, signIn, work, wire, budget, released, givenUp>>

\* The tab is reloaded, disposed of, or cannot write its store: its work ends
\* and the entry keeps a lease that must run out.
Abandon(t) ==
    /\ \E k \in Key : work[t][k] # Idle
    /\ work' = [work EXCEPT ![t] = [k \in Key |-> Idle]]
    /\ late' = [late EXCEPT ![t] = {}]
    /\ Spend("freezes")
    /\ UNCHANGED <<serverVars, queue, entry, scope, frozen, wire, released, givenUp>>

\* The tab signs out, or in as another family, perhaps while a pump of it awaits
\* the store, or the body of an answer whose headers have come.
Switch(t, f) ==
    /\ Live(t) /\ scope[t] # f
    /\ scope' = [scope EXCEPT ![t] = f]
    /\ late' \in {late, [late EXCEPT ![t] = IF @ = {} THEN {scope[t]} ELSE @]}
    /\ \E ks \in SUBSET {k \in Key : Running(t, k) /\ Heard(t, k)} :
          work' = [work EXCEPT ![t] =
                     [k \in Key |-> IF k \in ks THEN [work[t][k] EXCEPT !.heard = TRUE]
                                               ELSE work[t][k]]]
    /\ Spend("switches")
    /\ UNCHANGED <<serverVars, queue, entry, frozen, wire, released, givenUp>>

----------------------------------------------------------------------------

\* A maintenance step of the server.
Upkeep ==
    /\ Spend("upkeep") /\ Maintain
    /\ UNCHANGED <<queue, entry, signIn, work, frozen, wire, released, givenUp>>

Perform(t, k) == Looked(t, k) \/ Send(t, k) \/ Sent(t, k) \/ Checked(t, k)

Next ==
    \/ Upkeep
    \/ \E m \in wire : Serve(m)
    \/ \E k \in Key : LeaseEnds(k)
    \/ \E t \in Tab :
          \/ Pump(t) \/ Freeze(t) \/ Thaw(t) \/ Abandon(t)
          \/ \E f \in Family \cup {NoFamily} : Switch(t, f)
          \/ \E k \in Key :
                \/ Run(t, k) \/ Look(t, k) \/ LookBarred(t, k) \/ Perform(t, k)
                \/ Fails(t, k) \/ ScopeLost(t, k)
                \/ Reconcile(t, k) \/ Reconciled(t, k) \/ ReconcileFails(t, k)
                \/ Acknowledge(t, k) \/ DismissReviewed(t, k)

Spec == Init /\ [][Next]_vars

\* A live tab runs its timers and callbacks, time passes, a frozen tab comes
\* back, and a request or a lookup that is tried for ever is answered some time.
Fairness ==
    /\ \A t \in Tab :
          /\ WF_vars(Pump(t)) /\ WF_vars(Thaw(t))
          /\ \A k \in Key :
                /\ WF_vars(Perform(t, k) \/ Fails(t, k) \/ ScopeLost(t, k))
                /\ SF_vars(Look(t, k))
                /\ SF_vars(\E m \in wire : m.tab = t /\ m.key = k /\ Awaits(m) /\ Serve(m))
    /\ \A k \in Key : WF_vars(LeaseEnds(k))

FairSpec == Spec /\ Fairness

----------------------------------------------------------------------------

\* The type of the client's state.
TypeOK ==
    /\ queue \in Seq(Key)
    /\ entry \in [Key -> Entries]
    /\ scope \in [Tab -> Family \cup {NoFamily}]
    /\ \A t \in Tab : late[t] \subseteq Family \cup {NoFamily}
    /\ \A t \in Tab, k \in Key :
          /\ work[t][k].stage \in Stages
          /\ work[t][k].answer \in Answers \cup {"none"}
    /\ frozen \subseteq Tab
    /\ wire \subseteq [tab : Tab, key : Key, family : Family]
    /\ \A k \in Key : entry[k].state = "none" <=> k \notin ToSet(queue)

\* What the person is told is saved was saved: a confirmed entry took effect,
\* under the sign-in that made it.
ConfirmedWasApplied ==
    \A k \in Key : entry[k].state = "confirmed" =>
        \E i \in DOMAIN applied : applied[i] = <<k, entry[k].scope>>

\* No draft is lost: one that was let go took effect or was refused for good.
NoDraftLost ==
    \A k \in released : \E f \in Family :
        <<k, f>> \in ToSet(applied) \cup refusals

\* What the person is told about a change is what became of it.
ToldTheTruth == ConfirmedWasApplied /\ NoDraftLost

\* A change takes effect only when nothing admitted before it for its target is
\* still pending, unless it was reported as failed before.
EffectsInOrder ==
    [][applied' # applied =>
        LET k == Last(applied')[1] IN
        k \in ToSet(queue) \ givenUp =>
            \A j \in ToSet(queue) : Target[j] = Target[k] /\ Before(j, k) => ~Pending(j)]_vars

\* A confirmed entry stays confirmed until it is let go: no tab that lost its
\* lease, and no late answer, reopens it.
ConfirmedIsFinal ==
    [][\A k \in Key : entry[k].state = "confirmed" =>
          entry'[k].state \in {"confirmed", "none"}]_vars

\* A change does not stay pending for ever.
Settles == \A k \in Key : Pending(k) ~> ~Pending(k)

=============================================================================
