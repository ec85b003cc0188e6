----------------------- MODULE WebhookDispatchProofs -----------------------
(***************************************************************************)
(* WebhookDispatch for any webhooks, limits and edits, with crashes,       *)
(* transfers and failures at any time: what is sent is current, approved   *)
(* and in order, no delivery is stranded, a finished one is never settled  *)
(* again, and a receiver that lags behind has a reason to.                 *)
(***************************************************************************)
EXTENDS WebhookDispatch, FiniteSetTheorems, WellFoundedInduction, TLAPS

HookRecord == [gen : Nat, enabled : BOOLEAN, review : BOOLEAN, reviewed : BOOLEAN,
               replaced : BOOLEAN, there : BOOLEAN]

RowRecord == [gen : Nat, kind : {"title", "plain", "test"},
              state : {"pending", "delivered", "failed"}, attempts : 0 .. MaxAttempts,
              due : BOOLEAN, title : Nat, late : BOOLEAN, blind : BOOLEAN]

Places == {"rest", "read", "ready", "admit", "build", "post", "sent", "record"}
Codes == {"none", "accepted", "refused", "payload_too_large", "authority_retired"}

SendRecord == [at : Places, batch : SUBSET Nat, gen : Nat, live : BOOLEAN, sees : Nat,
               code : Codes]

\* The types of the variables.
Typed ==
    /\ hook \in [Hook -> HookRecord]
    /\ rows \in [Hook -> Seq(RowRecord)]
    /\ title \in Nat /\ closing \in SUBSET Hook
    /\ send \in [Hook -> SendRecord]
    /\ active \in SUBSET (Hook \X Nat) /\ paused \in SUBSET Hook
    /\ known \in [Hook -> Nat] /\ dropped \in SUBSET Hook
    /\ owed \in [Hook -> SUBSET {"destination", "secret"}]
    /\ budget \in [Kinds -> Nat]

\* A webhook: it exists once; what a new owner owes is owed until it was saved.
HookOK(h) ==
    /\ hook[h].there => hook[h].gen > 0
    /\ hook[h].review => ~hook[h].enabled
    /\ hook[h].gen = 0 => owed[h] = {}
    /\ hook[h].there /\ ~hook[h].review => owed[h] = {}
    /\ hook[h].reviewed => "destination" \notin owed[h]
    /\ hook[h].replaced => "secret" \notin owed[h]

\* Its deliveries: none without the webhook, none of a later generation; what
\* waits is eligible, has an attempt left and is newer than all that arrived.
RowsOK(h) ==
    /\ Len(rows[h]) + budget["events"] + budget["tests"] <= MaxRows
    /\ ~hook[h].there => rows[h] = <<>>
    /\ \A i \in DOMAIN rows[h] :
          /\ rows[h][i].gen <= hook[h].gen
          /\ rows[h][i].title <= title
          /\ rows[h][i].state = "pending" => rows[h][i].attempts < MaxAttempts
          /\ rows[h][i].gen = hook[h].gen /\ rows[h][i].kind = "title" => Wants(h)
    /\ \A i \in Waiting(h) : Eligible(h, i)
    /\ \A i \in DOMAIN rows[h], j \in Waiting(h) : rows[h][i].state = "delivered" => i < j

\* Its part of the step: a batch is the front of what waits, and an admission is
\* of the webhook as it is, or about to be cancelled.
SendOK(h) ==
    /\ send[h].at \in {"rest", "read"} => send[h].batch = {}
    /\ send[h].at \notin {"rest", "read"} => send[h].batch # {}
    /\ hook[h].there => send[h].batch \subseteq DOMAIN rows[h]
    /\ hook[h].gen = 0 => send[h].batch = {}
    /\ \A i \in send[h].batch, j \in Waiting(h) : j < i => j \in send[h].batch
    /\ send[h].live => Sending(h)
    /\ send[h].live => IF h \in closing THEN Retired(h) ELSE MayBeSent(h)
    /\ send[h].sees <= title /\ known[h] <= title

\* Queries come before the first send of a step.
Phased == (\E h \in Hook : send[h].at = "read") =>
              \A h \in Hook : send[h].at \in {"rest", "read", "ready"}

\* The last delivery about the title, of the webhook as it is.
LastTitle(h, i) == i \in Titles(h) /\ \A j \in Titles(h) : j <= i

Clear(h, i) == ~rows[h][i].late /\ ~rows[h][i].blind /\ h \notin dropped

\* A payload that is under way and not excused shows the title as it is; nothing
\* that arrived in this generation is followed by a send of an earlier one.
LagOK(h) ==
    /\ \A i \in DOMAIN rows[h] :
          /\ LastTitle(h, i) /\ Clear(h, i) /\ rows[h][i].state = "delivered"
                => known[h] = title
          /\ LastTitle(h, i) /\ Clear(h, i) /\ Built(h, i) /\ MayBeSent(h)
                => /\ send[h].code \notin {"payload_too_large", "authority_retired"}
                        => send[h].sees = title
                   /\ send[h].code = "accepted" => known[h] = title
          /\ Sending(h) /\ rows[h][i].state = "delivered" /\ rows[h][i].gen = hook[h].gen
                => MayBeSent(h)
    /\ send[h].code # "none" => send[h].at = "record"

\* The parts of the invariant that are about one webhook.
HookInv(h) == HookOK(h) /\ RowsOK(h) /\ SendOK(h) /\ LagOK(h)

\* An admission is registered exactly while its attempt is under way.
ActiveOK == active = {<<h, Current(h)>> : h \in {g \in Hook : Sending(g)}}

WebhookInv == Typed /\ (\A h \in Hook : HookInv(h)) /\ Phased /\ ActiveOK

----------------------------------------------------------------------------
(* The delivery at the front, and the last one. *)

\* A set of naturals that is not empty has a least element.
LEMMA Least ==
    ASSUME NEW S \in SUBSET Nat, S # {}
    PROVE  \E m \in S : \A k \in S : m <= k
<1> DEFINE R == OpToRel(<, Nat)
<1>1. IsWellFoundedOn(R, Nat)
  BY NatLessThanWellFounded
<1>2. \A x, y \in Nat : x < y => <<x, y>> \in R
  BY DEF OpToRel
<1> HIDE DEF R
<1>3. PICK m \in S : \A y \in S : ~(<<y, m>> \in R)
  BY <1>1, WFMin
<1>4. ASSUME NEW k \in S PROVE m <= k
  <2>1. ~(<<k, m>> \in R)
    BY <1>3
  <2>2. ~(k < m)
    BY <2>1, <1>2
  <2> QED BY <2>2
<1> QED BY <1>4

\* ... and a greatest one, when it is bounded.
LEMMA Greatest ==
    ASSUME NEW n \in Nat, NEW S \in SUBSET (0 .. n), S # {}
    PROVE  \E m \in S : \A k \in S : k <= m
<1> DEFINE U == {m \in Nat : \A k \in S : k <= m}
<1>1. n \in U
  OBVIOUS
<1>2. PICK m \in U : \A k \in U : m <= k
  BY <1>1, Least
<1>3. CASE m \in S
  BY <1>3
<1>4. CASE m \notin S
  <2>1. \A k \in S : k <= m - 1 /\ m - 1 \in Nat
    BY <1>4
  <2>2. m - 1 \in U
    BY <2>1
  <2> QED BY <2>2, <1>2
<1> QED BY <1>3, <1>4

\* Min is the least element.
LEMMA MinIs ==
    ASSUME NEW S \in SUBSET Nat, S # {}
    PROVE  Min(S) \in S /\ Min(S) \in Nat /\ \A k \in S : Min(S) <= k
<1>1. \E m \in S : \A k \in S : m <= k
  BY Least
<1>2. Min(S) \in S /\ \A k \in S : Min(S) <= k
  BY <1>1 DEF Min
<1> QED BY <1>2

\* Max is the greatest one.
LEMMA MaxIs ==
    ASSUME NEW n \in Nat, NEW S \in SUBSET (0 .. n), S # {}
    PROVE  Max(S) \in S /\ \A k \in S : k <= Max(S)
<1>1. PICK m \in S : \A k \in S : k <= m
  BY Greatest
<1>2. \A k \in S : m >= k
  BY <1>1
<1>3. Max(S) \in S /\ \A k \in S : Max(S) >= k
  BY <1>2 DEF Max
<1> QED BY <1>3

\* The delivery a webhook's part of the step is at is the first of its batch.
LEMMA CurrentIs ==
    ASSUME Typed, NEW h \in Hook, send[h].batch # {}
    PROVE  /\ Current(h) \in send[h].batch /\ Current(h) \in Nat
           /\ \A k \in send[h].batch : Current(h) <= k
<1>1. send[h].batch \in SUBSET Nat
  BY DEF Typed, SendRecord
<1> QED BY <1>1, MinIs DEF Current

\* A function on 1..n is a sequence.
LEMMA FunctionIsSeq ==
    ASSUME NEW S, NEW n \in Nat, NEW t \in [1 .. n -> S]
    PROVE  t \in Seq(S) /\ Len(t) = n
  OBVIOUS

\* One member of a sequence is replaced.
LEMMA ReplaceOne ==
    ASSUME NEW S, NEW s \in Seq(S), NEW i \in DOMAIN s, NEW x \in S
    PROVE  /\ [s EXCEPT ![i] = x] \in Seq(S)
           /\ Len([s EXCEPT ![i] = x]) = Len(s)
           /\ DOMAIN [s EXCEPT ![i] = x] = DOMAIN s
           /\ [s EXCEPT ![i] = x][i] = x
           /\ \A k \in DOMAIN s \ {i} : [s EXCEPT ![i] = x][k] = s[k]
  OBVIOUS

\* What spending one event of a kind does to the budget.
LEMMA SpendIs ==
    ASSUME Typed, NEW what \in Kinds, Spend(what)
    PROVE  /\ budget' \in [Kinds -> Nat] /\ budget[what] > 0
           /\ \A k \in Kinds : budget'[k] = IF k = what THEN budget[k] - 1 ELSE budget[k]
           /\ budget'["events"] + budget'["tests"] <= budget["events"] + budget["tests"]
<1>1. budget \in [Kinds -> Nat]
  BY DEF Typed
<1>2. budget' \in [Kinds -> Nat] /\ budget[what] > 0
      /\ \A k \in Kinds : budget'[k] = IF k = what THEN budget[k] - 1 ELSE budget[k]
  BY <1>1 DEF Spend
<1>3. budget'["events"] <= budget["events"] /\ budget'["tests"] <= budget["tests"]
      /\ budget["events"] \in Nat /\ budget["tests"] \in Nat
      /\ budget'["events"] \in Nat /\ budget'["tests"] \in Nat
  BY <1>1, <1>2 DEF Kinds
<1> QED BY <1>2, <1>3

LEMMA BudgetKept ==
    ASSUME Typed, UNCHANGED budget
    PROVE  /\ budget' \in [Kinds -> Nat]
           /\ budget'["events"] + budget'["tests"] <= budget["events"] + budget["tests"]
<1>1. budget["events"] \in Nat /\ budget["tests"] \in Nat
  BY DEF Typed, Kinds
<1> QED BY <1>1 DEF Typed

\* A step that leaves a webhook and its deliveries alone keeps what holds of them.
LEMMA SameRows ==
    ASSUME Typed, NEW h \in Hook, HookInv(h),
           hook'[h] = hook[h], rows'[h] = rows[h], owed'[h] = owed[h], title' = title,
           budget'["events"] + budget'["tests"] <= budget["events"] + budget["tests"],
           budget' \in [Kinds -> Nat]
    PROVE  /\ HookOK(h)' /\ RowsOK(h)'
           /\ \A i : Pending(h, i)' <=> Pending(h, i)
           /\ \A i : Eligible(h, i)' <=> Eligible(h, i)
           /\ Waiting(h)' = Waiting(h)
           /\ \A i : LastTitle(h, i)' <=> LastTitle(h, i)
<1>1. HookOK(h)'
  BY DEF HookInv, HookOK
<1>2. /\ \A i : Pending(h, i)' <=> Pending(h, i)
      /\ \A i : Eligible(h, i)' <=> Eligible(h, i)
      /\ Wants(h)' <=> Wants(h)
  BY DEF Pending, Eligible, Wants
<1>3. Waiting(h)' = Waiting(h)
  BY <1>2 DEF Waiting
<1>4. RowsOK(h)'
  <2>1. Len(rows[h]) \in Nat
    BY DEF Typed
  <2>2. budget["events"] \in Nat /\ budget["tests"] \in Nat
        /\ budget'["events"] \in Nat /\ budget'["tests"] \in Nat
    BY DEF Typed, Kinds
  <2>3. Len(rows'[h]) + budget'["events"] + budget'["tests"] <= MaxRows
    BY <2>1, <2>2, WebhookAssumption DEF HookInv, RowsOK
  <2> QED BY <1>2, <1>3, <2>3 DEF HookInv, RowsOK
<1>5. \A i : LastTitle(h, i)' <=> LastTitle(h, i)
  BY DEF LastTitle, Titles
<1> QED BY <1>1, <1>2, <1>3, <1>4, <1>5

\* A webhook that a step leaves alone keeps its part of the invariant.
LEMMA Frame ==
    ASSUME Typed, NEW h \in Hook, HookInv(h),
           hook'[h] = hook[h], rows'[h] = rows[h], send'[h] = send[h],
           known'[h] = known[h], owed'[h] = owed[h], title' = title,
           (h \in closing') <=> (h \in closing), (h \in dropped') <=> (h \in dropped),
           budget'["events"] + budget'["tests"] <= budget["events"] + budget["tests"],
           budget' \in [Kinds -> Nat]
    PROVE  HookInv(h)'
<1>1. /\ HookOK(h)' /\ RowsOK(h)'
      /\ \A i : Eligible(h, i)' <=> Eligible(h, i)
      /\ Waiting(h)' = Waiting(h)
      /\ \A i : LastTitle(h, i)' <=> LastTitle(h, i)
  BY SameRows
<1>5. Current(h)' = Current(h) /\ (Sending(h)' <=> Sending(h))
      /\ \A i : Built(h, i)' <=> Built(h, i)
  BY DEF Current, Sending, Built
<1>6. (MayBeSent(h)' <=> MayBeSent(h)) /\ (Retired(h)' <=> Retired(h))
  BY <1>1, <1>5 DEF MayBeSent, Retired
<1>7. SendOK(h)'
  BY <1>1, <1>5, <1>6 DEF HookInv, SendOK
<1>8. \A i : Clear(h, i)' <=> Clear(h, i)
  BY DEF Clear
<1>9. LagOK(h)'
  BY <1>1, <1>5, <1>6, <1>8 DEF HookInv, LagOK
<1> QED BY <1>1, <1>7, <1>9 DEF HookInv

\* A webhook whose part of the step is over, or has not sent anything.
LEMMA Quiet ==
    ASSUME Typed, NEW h \in Hook, HookInv(h),
           hook'[h] = hook[h], rows'[h] = rows[h], owed'[h] = owed[h],
           known'[h] = known[h], title' = title,
           (h \in dropped') <=> (h \in dropped),
           budget'["events"] + budget'["tests"] <= budget["events"] + budget["tests"],
           budget' \in [Kinds -> Nat],
           send'[h].at \in {"rest", "read", "ready", "admit"},
           send'[h].at \in {"rest", "read"} => send'[h].batch = {},
           send'[h].at \notin {"rest", "read"} => send'[h].batch # {},
           hook[h].there => send'[h].batch \subseteq DOMAIN rows[h],
           hook[h].gen = 0 => send'[h].batch = {},
           \A i \in send'[h].batch, j \in Waiting(h) : j < i => j \in send'[h].batch,
           send'[h].live = FALSE, send'[h].sees = 0, send'[h].code = "none"
    PROVE  HookInv(h)'
<1>1. /\ HookOK(h)' /\ RowsOK(h)'
      /\ \A i : Eligible(h, i)' <=> Eligible(h, i)
      /\ Waiting(h)' = Waiting(h)
      /\ \A i : LastTitle(h, i)' <=> LastTitle(h, i)
  BY SameRows
<1>2. ~Sending(h)' /\ \A i : ~Built(h, i)'
  BY DEF Sending, Built
<1>3. title \in Nat
  BY DEF Typed
<1>4. SendOK(h)'
  BY <1>1, <1>2, <1>3 DEF HookInv, SendOK
<1>5. \A i : Clear(h, i)' <=> Clear(h, i)
  BY DEF Clear
<1>6. LagOK(h)'
  BY <1>1, <1>2, <1>5 DEF HookInv, LagOK
<1> QED BY <1>1, <1>4, <1>6 DEF HookInv

\* In particular one whose part is over.
LEMMA ToRest ==
    ASSUME Typed, NEW h \in Hook, HookInv(h),
           hook'[h] = hook[h], rows'[h] = rows[h], owed'[h] = owed[h],
           known'[h] = known[h], title' = title,
           (h \in dropped') <=> (h \in dropped),
           budget'["events"] + budget'["tests"] <= budget["events"] + budget["tests"],
           budget' \in [Kinds -> Nat],
           send'[h] = Rest
    PROVE  HookInv(h)'
<1>1. /\ send'[h].at = "rest" /\ send'[h].batch = {} /\ send'[h].live = FALSE
      /\ send'[h].sees = 0 /\ send'[h].code = "none"
  BY DEF Rest, Part
<1> QED BY <1>1, Quiet

\* The step's record of a webhook it does nothing for.
LEMMA RestTyped == Rest \in SendRecord
  BY DEF Rest, Part, SendRecord, Places, Codes

\* ... and of one before its admission.
LEMMA PartTyped ==
    ASSUME NEW where \in Places, NEW batch \in SUBSET Nat, NEW gen \in Nat
    PROVE  /\ Part(where, batch, gen) \in SendRecord
           /\ Part(where, batch, gen).at = where /\ Part(where, batch, gen).batch = batch
           /\ Part(where, batch, gen).gen = gen /\ Part(where, batch, gen).live = FALSE
           /\ Part(where, batch, gen).sees = 0 /\ Part(where, batch, gen).code = "none"
  BY DEF Part, SendRecord, Codes

\* Steps that leave the dispatcher alone.
LEMMA SameSends ==
    ASSUME Phased, ActiveOK, UNCHANGED <<send, active>>
    PROVE  Phased' /\ ActiveOK'
<1>1. Phased'
  BY DEF Phased
<1>2. \A h : Current(h)' = Current(h) /\ (Sending(h)' <=> Sending(h))
  BY DEF Current, Sending
<1> QED BY <1>1, <1>2 DEF ActiveOK

\* Nobody is sending: nothing is registered.
LEMMA Idle ==
    ASSUME \A h \in Hook : ~Sending(h)
    PROVE  {<<h, Current(h)>> : h \in {g \in Hook : Sending(g)}} = {}
  OBVIOUS

----------------------------------------------------------------------------
(* The dispatcher's step. *)

LEMMA SelectStep ==
    ASSUME WebhookInv, Select
    PROVE  WebhookInv'
<1> DEFINE order == {h \in Hook \ paused : Open(h) # {}}
<1>1. /\ AllRest
      /\ send' = [h \in Hook |-> IF h \in order THEN Part("read", {}, 0) ELSE Rest]
      /\ UNCHANGED <<hook, rows, title, closing, active, paused, history, budget>>
  BY DEF Select
<1> HIDE DEF order
<1>2. Part("read", {}, 0) \in SendRecord
  BY PartTyped DEF Places
<1>3. Typed'
  BY <1>1, <1>2, RestTyped DEF WebhookInv, Typed, history
<1>4. \A h \in Hook : /\ send'[h].at \in {"rest", "read"} /\ send'[h].batch = {}
                      /\ send'[h].live = FALSE /\ send'[h].sees = 0 /\ send'[h].code = "none"
  BY <1>1 DEF Rest, Part
<1>5. ASSUME NEW h \in Hook PROVE HookInv(h)'
  <2>1. budget \in [Kinds -> Nat] /\ budget["events"] \in Nat /\ budget["tests"] \in Nat
    BY DEF WebhookInv, Typed, Kinds
  <2>2. HookInv(h) /\ Typed
    BY DEF WebhookInv
  <2>3. /\ hook'[h] = hook[h] /\ rows'[h] = rows[h] /\ owed'[h] = owed[h]
        /\ known'[h] = known[h] /\ title' = title /\ dropped' = dropped /\ budget' = budget
    BY <1>1 DEF history
  <2>4. /\ send'[h].at \in {"rest", "read"} /\ send'[h].batch = {}
        /\ send'[h].live = FALSE /\ send'[h].sees = 0 /\ send'[h].code = "none"
    BY <1>4
  <2>5. budget'["events"] + budget'["tests"] <= budget["events"] + budget["tests"]
    BY <2>1, <2>3
  <2> QED BY <2>1, <2>2, <2>3, <2>4, <2>5, Quiet
<1>6. Phased'
  BY <1>4 DEF Phased
<1>7. ActiveOK'
  <2>1. \A h \in Hook : ~Sending(h) /\ ~Sending(h)'
    BY <1>1, <1>4 DEF Sending, AllRest
  <2> QED BY <2>1, <1>1 DEF WebhookInv, ActiveOK
<1> QED BY <1>3, <1>5, <1>6, <1>7 DEF WebhookInv

\* Every query fails before anything was sent: nothing was registered either.
LEMMA SelectFailsStep ==
    ASSUME WebhookInv, SelectFails
    PROVE  WebhookInv'
<1>1. /\ \E h \in Hook : send[h].at = "read"
      /\ send' = [h \in Hook |-> Rest] /\ Spend("errors")
      /\ UNCHANGED <<hook, rows, title, closing, active, paused, history>>
  BY DEF SelectFails
<1>2. /\ budget' \in [Kinds -> Nat]
      /\ budget'["events"] + budget'["tests"] <= budget["events"] + budget["tests"]
  BY <1>1, SpendIs DEF WebhookInv, Kinds
<1>3. Typed'
  BY <1>1, <1>2, RestTyped DEF WebhookInv, Typed, history
<1>4. ASSUME NEW h \in Hook PROVE HookInv(h)'
  BY <1>1, <1>2, ToRest DEF WebhookInv, history
<1>5. \A h \in Hook : send'[h].at = "rest"
  BY <1>1 DEF Rest, Part
<1>6. ActiveOK'
  <2>1. \A h \in Hook : ~Sending(h) /\ ~Sending(h)'
    BY <1>1, <1>5 DEF WebhookInv, Phased, Sending
  <2> QED BY <2>1, <1>1 DEF WebhookInv, ActiveOK
<1> QED BY <1>3, <1>4, <1>5, <1>6 DEF WebhookInv, Phased

LEMMA CrashStep ==
    ASSUME WebhookInv, Crash
    PROVE  WebhookInv'
<1>1. /\ send' = [h \in Hook |-> Rest] /\ Spend("crashes")
      /\ active' = {} /\ paused' = {} /\ closing' = {}
      /\ UNCHANGED <<hook, rows, title, history>>
  BY DEF Crash
<1>2. /\ budget' \in [Kinds -> Nat]
      /\ budget'["events"] + budget'["tests"] <= budget["events"] + budget["tests"]
  BY <1>1, SpendIs DEF WebhookInv, Kinds
<1>3. Typed'
  BY <1>1, <1>2, RestTyped DEF WebhookInv, Typed, history
<1>4. ASSUME NEW h \in Hook PROVE HookInv(h)'
  BY <1>1, <1>2, ToRest DEF WebhookInv, history
<1>5. \A h \in Hook : send'[h].at = "rest"
  BY <1>1 DEF Rest, Part
<1>6. ActiveOK'
  <2>1. \A h \in Hook : ~Sending(h)'
    BY <1>5 DEF Sending
  <2> QED BY <2>1, <1>1 DEF ActiveOK
<1> QED BY <1>3, <1>4, <1>5, <1>6 DEF WebhookInv, Phased

\* A step of one webhook that moves nothing else keeps the others' part.
LEMMA Others ==
    ASSUME WebhookInv, NEW h \in Hook, NEW r \in SendRecord,
           send' = [send EXCEPT ![h] = r],
           \A g \in Hook \ {h} : rows'[g] = rows[g] /\ known'[g] = known[g],
           UNCHANGED <<hook, title, closing, owed, dropped>>,
           budget'["events"] + budget'["tests"] <= budget["events"] + budget["tests"],
           budget' \in [Kinds -> Nat]
    PROVE  \A g \in Hook \ {h} : HookInv(g)' /\ send'[g] = send[g]
<1> TAKE g \in Hook \ {h}
<1>1. send'[g] = send[g]
  BY DEF WebhookInv, Typed
<1> QED BY <1>1, Frame DEF WebhookInv

\* What is registered when one webhook's part moves.
LEMMA ActiveMoves ==
    ASSUME WebhookInv, NEW h \in Hook, \A g \in Hook \ {h} : send'[g] = send[g],
           \/ ~Sending(h) /\ ~Sending(h)' /\ active' = active
           \/ Sending(h) /\ Sending(h)' /\ active' = active /\ Current(h)' = Current(h)
           \/ ~Sending(h) /\ Sending(h)' /\ active' = active \cup {<<h, Current(h)'>>}
           \/ Sending(h) /\ ~Sending(h)' /\ active' = active \ {<<h, Current(h)>>}
    PROVE  ActiveOK'
<1>1. \A g \in Hook \ {h} : (Sending(g)' <=> Sending(g)) /\ Current(g)' = Current(g)
  BY DEF Sending, Current
<1>2. active = {<<g, Current(g)>> : g \in {g \in Hook : Sending(g)}}
  BY DEF WebhookInv, ActiveOK
<1>3. active' = {<<g, Current(g)'>> : g \in {g \in Hook : Sending(g)'}}
  BY <1>1, <1>2
<1> QED BY <1>3 DEF ActiveOK

\* Queries come first when one webhook's part moves.
LEMMA PhasedMoves ==
    ASSUME WebhookInv, NEW h \in Hook, \A g \in Hook \ {h} : send'[g] = send[g],
           send'[h].at # "read",
           \/ send'[h].at \in {"rest", "ready"}
           \/ send[h].at \notin {"rest", "read", "ready"}
           \/ \A g \in Hook : send[g].at # "read"
    PROVE  Phased'
  BY DEF WebhookInv, Phased

\* One webhook's part ends; it may have been registered until now.
LEMMA EndsStep ==
    ASSUME WebhookInv, NEW h \in Hook, send' = [send EXCEPT ![h] = Rest],
           IF Sending(h) THEN Release(h) ELSE active' = active,
           UNCHANGED <<hook, rows, title, closing, known, owed, dropped>>,
           paused' \in SUBSET Hook,
           budget'["events"] + budget'["tests"] <= budget["events"] + budget["tests"],
           budget' \in [Kinds -> Nat]
    PROVE  WebhookInv'
<1>1. send'[h] = Rest /\ send'[h].at = "rest"
  BY DEF WebhookInv, Typed, Rest, Part
<1>2. \A g \in Hook \ {h} : HookInv(g)' /\ send'[g] = send[g]
  BY RestTyped, Others
<1>3. HookInv(h)'
  BY <1>1, ToRest DEF WebhookInv
<1>4. Phased'
  BY <1>1, <1>2, PhasedMoves
<1>5. ~Sending(h)'
  BY <1>1 DEF Sending
<1>6. ActiveOK'
  BY <1>2, <1>5, ActiveMoves DEF Release
<1>7. active' \in SUBSET (Hook \X Nat)
  BY DEF Release, WebhookInv, Typed
<1>8. Typed'
  BY <1>7, RestTyped DEF WebhookInv, Typed
<1> QED BY <1>2, <1>3, <1>4, <1>6, <1>8 DEF WebhookInv

LEMMA AdmitFailsStep ==
    ASSUME WebhookInv, NEW h \in Hook, AdmitFails(h)
    PROVE  WebhookInv'
<1>1. /\ budget' \in [Kinds -> Nat]
      /\ budget'["events"] + budget'["tests"] <= budget["events"] + budget["tests"]
  BY SpendIs DEF AdmitFails, WebhookInv, Kinds
<1>2. ~Sending(h)
  BY DEF AdmitFails, Sending
<1>3. paused' \in SUBSET Hook
  BY DEF AdmitFails, WebhookInv, Typed
<1> QED BY <1>1, <1>2, <1>3, EndsStep DEF AdmitFails, history

LEMMA RecordFailsStep ==
    ASSUME WebhookInv, NEW h \in Hook, RecordFails(h)
    PROVE  WebhookInv'
<1>1. /\ budget' \in [Kinds -> Nat]
      /\ budget'["events"] + budget'["tests"] <= budget["events"] + budget["tests"]
  BY SpendIs DEF RecordFails, WebhookInv, Kinds
<1>2. Sending(h)
  BY DEF RecordFails, Sending
<1>3. paused' \in SUBSET Hook
  BY DEF RecordFails, WebhookInv, Typed
<1> QED BY <1>1, <1>2, <1>3, EndsStep DEF RecordFails, history

\* A batch is the front of what waits.
LEMMA BatchIsFront ==
    ASSUME WebhookInv, NEW h \in Hook
    PROVE  /\ Batch(h) \subseteq DOMAIN rows[h] /\ Batch(h) \in SUBSET Nat
           /\ hook[h].gen = 0 => Batch(h) = {}
           /\ \A i \in Batch(h), j \in Waiting(h) : j < i => j \in Batch(h)
<1>1. rows[h] \in Seq(RowRecord) /\ DOMAIN rows[h] = 1 .. Len(rows[h]) /\ Len(rows[h]) \in Nat
  BY DEF WebhookInv, Typed
<1>2. Batch(h) \subseteq DOMAIN rows[h] /\ Batch(h) \in SUBSET Nat
  BY <1>1 DEF Batch, Open
<1>3. hook[h].gen = 0 => Batch(h) = {}
  <2>1. hook[h].there => hook[h].gen > 0
    BY DEF WebhookInv, HookInv, HookOK
  <2> QED BY <2>1 DEF Batch, Open, Eligible
<1>4. ASSUME NEW i \in Batch(h), NEW j \in Waiting(h), j < i PROVE j \in Batch(h)
  <2>1. j \in Open(h) /\ i \in Open(h)
    BY DEF WebhookInv, HookInv, RowsOK, Open, Waiting, Batch
  <2>a. Open(h) \subseteq 1 .. Len(rows[h])
    BY <1>1 DEF Open
  <2>b. i \in Nat /\ j \in Nat
    BY <1>1, <2>1, <2>a
  <2> DEFINE before(k) == {l \in Open(h) : l < k}
  <2>2. IsFiniteSet(1 .. Len(rows[h]))
    BY <1>1, FS_Interval
  <2>3. before(i) \subseteq 1 .. Len(rows[h]) /\ before(j) \subseteq before(i)
    BY <1>1, <1>4, <2>1, <2>a, <2>b
  <2>4. IsFiniteSet(before(i))
    BY <2>2, <2>3, FS_Subset
  <2>5. Cardinality(before(j)) <= Cardinality(before(i)) /\ IsFiniteSet(before(j))
    BY <2>3, <2>4, FS_Subset
  <2>6. Cardinality(before(i)) \in Nat /\ Cardinality(before(j)) \in Nat
    BY <2>4, <2>5, FS_CardinalityType
  <2>7. Cardinality(before(i)) < BatchLimit
    BY DEF Batch
  <2> HIDE DEF before
  <2>8. Cardinality(before(j)) < BatchLimit
    BY <2>5, <2>6, <2>7, WebhookAssumption
  <2>9. ASSUME NEW k \in Open(h), k <= j PROVE rows[h][k].due
    <3>1. k <= i
      BY <1>1, <1>4, <2>a, <2>b, <2>9
    <3> QED BY <3>1 DEF Batch
  <2> USE DEF before
  <2> QED BY <2>1, <2>8, <2>9 DEF Batch
<1> QED BY <1>2, <1>3, <1>4

LEMMA ReadBatchStep ==
    ASSUME WebhookInv, NEW h \in Hook, ReadBatch(h)
    PROVE  WebhookInv'
<1>1. ~Sending(h) /\ paused' \in SUBSET Hook /\ budget' \in [Kinds -> Nat]
      /\ budget'["events"] + budget'["tests"] <= budget["events"] + budget["tests"]
  <2>1. ~Sending(h)
    BY DEF Sending, ReadBatch
  <2>2. budget["events"] + budget["tests"] \in Nat
    BY DEF WebhookInv, Typed, Kinds
  <2> QED BY <2>1, <2>2 DEF ReadBatch, WebhookInv, Typed
<1>2. CASE Batch(h) = {}
  <2>1. send' = [send EXCEPT ![h] = Rest]
    BY <1>2 DEF ReadBatch
  <2> QED BY <1>1, <2>1, EndsStep DEF ReadBatch, history
<1>3. CASE Batch(h) # {}
  <2> DEFINE r == Part("ready", Batch(h), hook[h].gen)
  <2>1. send' = [send EXCEPT ![h] = r]
    BY <1>3 DEF ReadBatch
  <2>2. hook[h].gen \in Nat
    BY DEF WebhookInv, Typed, HookRecord
  <2>3. /\ r.at = "ready" /\ r.batch = Batch(h) /\ r.live = FALSE /\ r.sees = 0
        /\ r.code = "none" /\ r \in SendRecord
    <3>1. Batch(h) \in SUBSET Nat
      BY BatchIsFront
    <3> QED BY <2>2, <3>1 DEF Part, SendRecord, Places, Codes
  <2>4. r \in SendRecord
    BY <2>3
  <2> HIDE DEF r
  <2>5. send'[h] = r
    BY <2>1 DEF WebhookInv, Typed
  <2>6. \A g \in Hook \ {h} : HookInv(g)' /\ send'[g] = send[g]
    BY <1>1, <2>1, <2>4, Others DEF ReadBatch, history
  <2>7. /\ send'[h].at = "ready" /\ send'[h].batch = Batch(h) /\ send'[h].live = FALSE
        /\ send'[h].sees = 0 /\ send'[h].code = "none"
    BY <2>3, <2>5
  <2>8. HookInv(h)'
    <3>1. UNCHANGED <<hook, rows, title, known, owed, dropped>>
      BY DEF ReadBatch, history
    <3>2. Typed /\ HookInv(h)
      BY DEF WebhookInv
    <3> QED BY <1>1, <1>3, <2>7, <3>1, <3>2, BatchIsFront, Quiet
  <2>9. Phased'
    BY <2>6, <2>7, PhasedMoves
  <2>10. ActiveOK'
    BY <1>1, <2>6, <2>7, ActiveMoves DEF Sending, ReadBatch
  <2>11. Typed'
    BY <2>1, <2>4 DEF WebhookInv, Typed, ReadBatch, history
  <2> QED BY <2>6, <2>8, <2>9, <2>10, <2>11 DEF WebhookInv
<1> QED BY <1>2, <1>3

LEMMA StartStep ==
    ASSUME WebhookInv, NEW h \in Hook, Start(h)
    PROVE  WebhookInv'
<1> DEFINE r == [send[h] EXCEPT !.at = "admit"]
<1>1. /\ send[h].at = "ready" /\ \A g \in Hook : send[g].at # "read"
      /\ send' = [send EXCEPT ![h] = r]
      /\ UNCHANGED <<hook, rows, title, closing, active, paused, history, budget>>
  BY DEF Start
<1>2. send[h] \in SendRecord
  BY DEF WebhookInv, Typed
<1>3. /\ r \in SendRecord /\ r.at = "admit" /\ r.batch = send[h].batch
      /\ r.live = send[h].live /\ r.sees = send[h].sees /\ r.code = send[h].code
  BY <1>2 DEF SendRecord, Places
<1> HIDE DEF r
<1>4. send'[h] = r
  BY <1>1 DEF WebhookInv, Typed
<1>5. /\ budget' \in [Kinds -> Nat]
      /\ budget'["events"] + budget'["tests"] <= budget["events"] + budget["tests"]
  BY <1>1, BudgetKept DEF WebhookInv
<1>6. \A g \in Hook \ {h} : HookInv(g)' /\ send'[g] = send[g]
  BY <1>1, <1>3, <1>5, Others DEF history
<1>7. HookInv(h)'
  <2>1. HookInv(h) /\ Typed
    BY DEF WebhookInv
  <2>2. ~Sending(h) /\ ~Sending(h)' /\ \A i : ~Built(h, i)'
    BY <1>1, <1>3, <1>4 DEF Sending, Built
  <2>3. HookOK(h)' /\ RowsOK(h)' /\ Waiting(h)' = Waiting(h)
        /\ \A i : LastTitle(h, i)' <=> LastTitle(h, i)
    BY <1>1, <1>5, <2>1, SameRows DEF history
  <2>4. SendOK(h)'
    BY <1>1, <1>3, <1>4, <2>1, <2>2, <2>3 DEF HookInv, SendOK, history
  <2>5. LagOK(h)'
    BY <1>1, <1>3, <1>4, <2>1, <2>2, <2>3 DEF HookInv, LagOK, Clear, history
  <2> QED BY <2>3, <2>4, <2>5 DEF HookInv
<1>8. Phased'
  BY <1>1, <1>3, <1>4, <1>6, PhasedMoves
<1>9. ActiveOK'
  BY <1>1, <1>3, <1>4, <1>6, ActiveMoves DEF Sending
<1>10. Typed'
  BY <1>1, <1>3 DEF WebhookInv, Typed, history
<1> QED BY <1>6, <1>7, <1>8, <1>9, <1>10 DEF WebhookInv

\* An admission looks at the row again: what is admitted is current.
LEMMA AdmitStep ==
    ASSUME WebhookInv, NEW h \in Hook, Admit(h)
    PROVE  WebhookInv'
<1>1. /\ send[h].at = "admit" /\ closing = {} /\ ~Sending(h)
      /\ UNCHANGED <<hook, rows, title, closing, paused, history, budget>>
  BY DEF Admit, GateFree, Sending
<1>2. /\ budget' \in [Kinds -> Nat] /\ paused' \in SUBSET Hook
      /\ budget'["events"] + budget'["tests"] <= budget["events"] + budget["tests"]
  BY <1>1, BudgetKept DEF WebhookInv, Typed
<1>3. CASE ~(MayBeSent(h) /\ <<h, Current(h)>> \notin active)
  BY <1>1, <1>2, <1>3, EndsStep DEF Admit, history
<1>4. CASE MayBeSent(h) /\ <<h, Current(h)>> \notin active
  <2> DEFINE r == [send[h] EXCEPT !.at = "build", !.live = TRUE]
  <2>1. send[h] \in SendRecord /\ send[h].batch # {}
    BY <1>1 DEF WebhookInv, Typed, HookInv, SendOK
  <2>2. /\ r \in SendRecord /\ r.at = "build" /\ r.batch = send[h].batch
        /\ r.live = TRUE /\ r.gen = send[h].gen /\ r.sees = send[h].sees /\ r.code = send[h].code
    BY <2>1 DEF SendRecord, Places
  <2>3. send' = [send EXCEPT ![h] = r]
    BY <1>4 DEF Admit
  <2>4. active' = active \cup {<<h, Current(h)>>}
    BY <1>4 DEF Admit
  <2> HIDE DEF r
  <2>5. send'[h] = r
    BY <2>3 DEF WebhookInv, Typed
  <2>6. \A g \in Hook \ {h} : HookInv(g)' /\ send'[g] = send[g]
    BY <1>1, <1>2, <2>2, <2>3, Others DEF history
  <2>7. Current(h)' = Current(h) /\ Sending(h)' /\ (\A i : ~Built(h, i)')
    BY <2>2, <2>5 DEF Current, Sending, Built
  <2>8. HookInv(h)'
    <3>1. HookInv(h) /\ Typed
      BY DEF WebhookInv
    <3>2. /\ HookOK(h)' /\ RowsOK(h)' /\ Waiting(h)' = Waiting(h)
          /\ \A i : Eligible(h, i)' <=> Eligible(h, i)
          /\ \A i : LastTitle(h, i)' <=> LastTitle(h, i)
      BY <1>1, <1>2, <3>1, SameRows DEF history
    <3>3. MayBeSent(h)'
      BY <1>1, <1>4, <2>2, <2>5, <2>7, <3>2 DEF MayBeSent
    <3>4. SendOK(h)'
      BY <1>1, <2>2, <2>5, <2>7, <3>1, <3>2, <3>3 DEF HookInv, SendOK, history
    <3>5. LagOK(h)'
      BY <1>1, <2>2, <2>5, <2>7, <3>1, <3>2, <3>3 DEF HookInv, LagOK, Clear, history
    <3> QED BY <3>2, <3>4, <3>5 DEF HookInv
  <2>9. Phased'
    BY <1>1, <2>2, <2>5, <2>6, PhasedMoves
  <2>10. ActiveOK'
    BY <1>1, <2>4, <2>6, <2>7, ActiveMoves
  <2>11. Typed'
    <3>1. Current(h) \in Nat
      BY <2>1, CurrentIs DEF WebhookInv
    <3>2. active' \in SUBSET (Hook \X Nat)
      BY <2>4, <3>1 DEF WebhookInv, Typed
    <3> QED BY <1>1, <2>2, <2>3, <3>2 DEF WebhookInv, Typed, history
  <2> QED BY <2>6, <2>8, <2>9, <2>10, <2>11 DEF WebhookInv
<1> QED BY <1>3, <1>4

\* The parts of a send a step leaves as they are while it is under way.
SameAdmission(h) ==
    /\ Sending(h) /\ Sending(h)' /\ send'[h] \in SendRecord
    /\ send'[h].batch = send[h].batch /\ send'[h].gen = send[h].gen
    /\ send'[h].live = send[h].live

\* An attempt goes on: what it holds and what its authority is stay.
LEMMA GoesOn ==
    ASSUME WebhookInv, NEW h \in Hook, SameAdmission(h),
           send' = [send EXCEPT ![h] = send'[h]],
           UNCHANGED <<hook, rows, title, closing, active, paused, owed, dropped>>,
           known' \in [Hook -> Nat], \A g \in Hook \ {h} : known'[g] = known[g],
           send'[h].sees <= title, known'[h] <= title,
           budget'["events"] + budget'["tests"] <= budget["events"] + budget["tests"],
           budget' \in [Kinds -> Nat],
           LagOK(h)'
    PROVE  WebhookInv'
<1>1. Current(h)' = Current(h) /\ send'[h].at \in {"build", "post", "sent", "record"}
  BY DEF Current, SameAdmission, Sending
<1>2. \A g \in Hook \ {h} : HookInv(g)' /\ send'[g] = send[g]
  BY Others DEF SameAdmission
<1>3. HookInv(h)'
  <2>1. HookInv(h) /\ Typed
    BY DEF WebhookInv
  <2>2. /\ HookOK(h)' /\ RowsOK(h)' /\ Waiting(h)' = Waiting(h)
        /\ \A i : Eligible(h, i)' <=> Eligible(h, i)
    BY <2>1, SameRows
  <2>3. (MayBeSent(h)' <=> MayBeSent(h)) /\ (Retired(h)' <=> Retired(h))
    BY <1>1, <2>2 DEF MayBeSent, Retired, SameAdmission
  <2>4. SendOK(h)'
    BY <1>1, <2>1, <2>2, <2>3 DEF HookInv, SendOK, SameAdmission, Sending
  <2> QED BY <2>2, <2>4 DEF HookInv
<1>4. Phased'
  BY <1>1, <1>2, PhasedMoves DEF SameAdmission, Sending
<1>5. ActiveOK'
  BY <1>1, <1>2, ActiveMoves DEF SameAdmission
<1>6. Typed'
  BY DEF WebhookInv, Typed, SameAdmission
<1> QED BY <1>2, <1>3, <1>4, <1>5, <1>6 DEF WebhookInv

\* Nothing goes out once the admission was cancelled.
LEMMA PostStep ==
    ASSUME WebhookInv, NEW h \in Hook, Post(h)
    PROVE  WebhookInv'
<1>1. /\ send[h].at = "post"
      /\ UNCHANGED <<hook, rows, title, closing, active, paused, owed, known, dropped, budget>>
  BY DEF Post, history
<1>2. send[h] \in SendRecord /\ HookInv(h) /\ Typed
  BY DEF WebhookInv, Typed
<1>3. \/ send' = [send EXCEPT ![h] = [send[h] EXCEPT !.at = "sent"]]
      \/ send' = [send EXCEPT ![h] = [send[h] EXCEPT !.at = "record", !.code = "authority_retired"]]
  BY DEF Post
<1>4. /\ send'[h] \in SendRecord /\ send'[h].at \in {"sent", "record"}
      /\ send'[h].batch = send[h].batch /\ send'[h].gen = send[h].gen
      /\ send'[h].live = send[h].live /\ send'[h].sees = send[h].sees
      /\ \/ send'[h].code = send[h].code
         \/ send'[h].code = "authority_retired" /\ send'[h].at = "record"
  <2>1. CASE send' = [send EXCEPT ![h] = [send[h] EXCEPT !.at = "sent"]]
    BY <1>2, <2>1 DEF WebhookInv, Typed, SendRecord, Places
  <2>2. CASE send' = [send EXCEPT ![h] =
                        [send[h] EXCEPT !.at = "record", !.code = "authority_retired"]]
    BY <1>2, <2>2 DEF WebhookInv, Typed, SendRecord, Places, Codes
  <2> QED BY <1>3, <2>1, <2>2
<1>5. send' = [send EXCEPT ![h] = send'[h]]
  BY <1>3 DEF WebhookInv, Typed
<1>6. SameAdmission(h)
  BY <1>1, <1>4 DEF SameAdmission, Sending
<1>7. /\ budget' \in [Kinds -> Nat]
      /\ budget'["events"] + budget'["tests"] <= budget["events"] + budget["tests"]
  BY <1>1, BudgetKept DEF WebhookInv
<1>8. /\ \A i : Eligible(h, i)' <=> Eligible(h, i)
      /\ \A i : LastTitle(h, i)' <=> LastTitle(h, i)
  BY <1>1, <1>2, <1>7, SameRows
<1>9. Current(h)' = Current(h)
  BY <1>4 DEF Current
<1>10. MayBeSent(h)' <=> MayBeSent(h)
  BY <1>1, <1>4, <1>8, <1>9 DEF MayBeSent
<1>11. \A i : (Built(h, i) /\ Built(h, i)') \/ ~Built(h, i)'
  BY <1>1, <1>4, <1>9 DEF Built
<1>12. send[h].code = "none"
  BY <1>1, <1>2 DEF HookInv, LagOK
<1>13. LagOK(h)'
  <2>1. \A i : Clear(h, i)' <=> Clear(h, i)
    BY <1>1 DEF Clear
  <2>2. Sending(h)
    BY <1>1 DEF Sending
  <2> QED BY <1>1, <1>2, <1>4, <1>8, <1>10, <1>11, <1>12, <2>1, <2>2 DEF HookInv, LagOK
<1>14. send'[h].sees <= title /\ known'[h] <= title /\ known' \in [Hook -> Nat]
  BY <1>1, <1>2, <1>4 DEF HookInv, SendOK, Typed
<1> QED BY <1>1, <1>5, <1>6, <1>7, <1>13, <1>14, GoesOn

\* An answer about a title that is still current comes from a payload that shows it.
LEMMA AnswerStep ==
    ASSUME WebhookInv, NEW h \in Hook, Answer(h)
    PROVE  WebhookInv'
<1>1. PICK code \in {"accepted", "refused"} :
         /\ send' = [send EXCEPT ![h] = [send[h] EXCEPT !.at = "record", !.code = code]]
         /\ known' = IF code = "accepted" /\ rows[h] # <<>> /\ rows[h][Current(h)].kind = "title"
                     THEN [known EXCEPT ![h] = send[h].sees] ELSE known
  BY DEF Answer
<1>2. /\ send[h].at = "sent"
      /\ UNCHANGED <<hook, rows, title, closing, active, paused, owed, dropped, budget>>
  BY DEF Answer
<1>3. send[h] \in SendRecord /\ HookInv(h) /\ Typed
  BY DEF WebhookInv, Typed
<1>4. /\ send'[h] \in SendRecord /\ send'[h].at = "record" /\ send'[h].code = code
      /\ send'[h].batch = send[h].batch /\ send'[h].gen = send[h].gen
      /\ send'[h].live = send[h].live /\ send'[h].sees = send[h].sees
  BY <1>1, <1>3 DEF WebhookInv, Typed, SendRecord, Places, Codes
<1>5. send' = [send EXCEPT ![h] = send'[h]]
  BY <1>1, <1>3 DEF Typed
<1>6. SameAdmission(h) /\ Sending(h)
  BY <1>2, <1>4 DEF SameAdmission, Sending
<1>7. /\ budget' \in [Kinds -> Nat]
      /\ budget'["events"] + budget'["tests"] <= budget["events"] + budget["tests"]
  BY <1>2, BudgetKept DEF WebhookInv
<1>8. /\ \A i : Eligible(h, i)' <=> Eligible(h, i)
      /\ \A i : LastTitle(h, i)' <=> LastTitle(h, i)
  BY <1>2, <1>3, <1>7, SameRows
<1>9. Current(h)' = Current(h)
  BY <1>4 DEF Current
<1>10. MayBeSent(h)' <=> MayBeSent(h)
  BY <1>2, <1>4, <1>8, <1>9 DEF MayBeSent
<1>11. \A i : Built(h, i)' <=> i = Current(h)
  BY <1>4, <1>9 DEF Built
<1>12. Built(h, Current(h))
  BY <1>2 DEF Built
<1>13. send[h].sees \in Nat /\ known \in [Hook -> Nat]
       /\ send[h].sees <= title /\ known[h] <= title
  BY <1>3 DEF HookInv, SendOK, Typed, SendRecord
<1>14. /\ known' \in [Hook -> Nat] /\ \A g \in Hook \ {h} : known'[g] = known[g]
       /\ known'[h] <= title /\ send'[h].sees <= title
  BY <1>1, <1>4, <1>13
<1>15. \A i : Clear(h, i)' <=> Clear(h, i)
  BY <1>2 DEF Clear
<1>16. send[h].code = "none"
  BY <1>2, <1>3 DEF HookInv, LagOK
<1>17. rows[h] \in Seq(RowRecord) /\ hook[h] \in HookRecord
  BY <1>3 DEF Typed
<1>18. ASSUME NEW i \in DOMAIN rows[h], LastTitle(h, i), Clear(h, i), rows[h][i].state = "delivered"
       PROVE  known'[h] = title
  <2>1. MayBeSent(h)
    BY <1>3, <1>6, <1>18 DEF HookInv, LagOK, LastTitle, Titles
  <2>2. /\ Current(h) \in DOMAIN rows[h] /\ Current(h) \in Waiting(h)
        /\ rows[h][Current(h)].gen = hook[h].gen
    BY <2>1 DEF MayBeSent, Eligible, Pending, Waiting
  <2>3. i < Current(h)
    BY <1>3, <1>18, <2>2 DEF HookInv, RowsOK
  <2>4. i \in Nat /\ Current(h) \in Nat
    BY <1>17, <2>2
  <2>5. Current(h) \notin Titles(h)
    BY <1>18, <2>3, <2>4 DEF LastTitle
  <2>6. rows[h][Current(h)].kind # "title"
    BY <2>2, <2>5 DEF Titles
  <2> QED BY <1>1, <1>3, <1>18, <2>6 DEF HookInv, LagOK
<1>19. ASSUME NEW i \in DOMAIN rows[h], LastTitle(h, i), Clear(h, i), MayBeSent(h), i = Current(h)
       PROVE  send'[h].sees = title /\ (send'[h].code = "accepted" => known'[h] = title)
  <2>1. send[h].sees = title
    BY <1>3, <1>12, <1>16, <1>19 DEF HookInv, LagOK
  <2>2. rows[h][i].kind = "title" /\ rows[h] # <<>>
    BY <1>19 DEF LastTitle, Titles
  <2>3. code = "accepted" => known'[h] = send[h].sees
    BY <1>1, <1>13, <1>19, <2>2
  <2> QED BY <1>4, <2>1, <2>3
<1>20. LagOK(h)'
  BY <1>2, <1>3, <1>4, <1>6, <1>8, <1>10, <1>11, <1>15, <1>18, <1>19 DEF HookInv, LagOK, SameAdmission
<1> QED BY <1>2, <1>5, <1>6, <1>7, <1>14, <1>20, GoesOn

LEMMA PauseEndsStep ==
    ASSUME WebhookInv, NEW h \in Hook, PauseEnds(h)
    PROVE  WebhookInv'
<1>1. /\ UNCHANGED <<hook, rows, title, closing, send, active, known, dropped, owed, budget>>
      /\ paused' \in SUBSET Hook
  BY DEF PauseEnds, WebhookInv, Typed, history
<1>2. Typed'
  BY <1>1 DEF WebhookInv, Typed
<1>3. \A g \in Hook : HookInv(g)'
  BY <1>1, BudgetKept, Frame DEF WebhookInv
<1> QED BY <1>1, <1>2, <1>3, SameSends DEF WebhookInv

\* What a change has made stale is cancelled before another transaction begins.
LEMMA CancelSendsStep ==
    ASSUME WebhookInv, CancelSends
    PROVE  WebhookInv'
<1>1. /\ send' = [h \in Hook |-> [send[h] EXCEPT !.live = @ /\ ~Retired(h)]]
      /\ closing' = {}
      /\ UNCHANGED <<hook, rows, title, active, paused, known, dropped, owed, budget>>
  BY DEF CancelSends, history
<1>2. ASSUME NEW h \in Hook
      PROVE  /\ send'[h] \in SendRecord /\ send'[h].at = send[h].at
             /\ send'[h].batch = send[h].batch /\ send'[h].gen = send[h].gen
             /\ send'[h].live = (send[h].live /\ ~Retired(h))
             /\ send'[h].sees = send[h].sees /\ send'[h].code = send[h].code
  <2>1. send[h] \in SendRecord
    BY DEF WebhookInv, Typed
  <2>2. send'[h] = [send[h] EXCEPT !.live = send[h].live /\ ~Retired(h)]
    BY <1>1
  <2>3. (send[h].live /\ ~Retired(h)) \in BOOLEAN
    OBVIOUS
  <2> QED BY <2>1, <2>2, <2>3 DEF SendRecord
<1>3. Typed'
  <2>1. send' \in [Hook -> SendRecord]
    BY <1>1, <1>2
  <2> QED BY <1>1, <2>1 DEF WebhookInv, Typed
<1>4. /\ budget' \in [Kinds -> Nat]
      /\ budget'["events"] + budget'["tests"] <= budget["events"] + budget["tests"]
  BY <1>1, BudgetKept DEF WebhookInv
<1>5. \A h \in Hook : /\ Current(h)' = Current(h) /\ (Sending(h)' <=> Sending(h))
                      /\ \A i : Built(h, i)' <=> Built(h, i)
  BY <1>2 DEF Current, Sending, Built
<1>6. ASSUME NEW h \in Hook PROVE HookInv(h)'
  <2>1. HookInv(h) /\ Typed
    BY DEF WebhookInv
  <2>2. /\ HookOK(h)' /\ RowsOK(h)' /\ Waiting(h)' = Waiting(h)
        /\ \A i : Eligible(h, i)' <=> Eligible(h, i)
        /\ \A i : LastTitle(h, i)' <=> LastTitle(h, i)
    BY <1>1, <1>4, <2>1, SameRows
  <2>3. MayBeSent(h)' <=> MayBeSent(h)
    BY <1>1, <1>2, <1>5, <2>2 DEF MayBeSent
  <2>4. send'[h].live => MayBeSent(h)
    BY <1>2, <2>1 DEF HookInv, SendOK
  <2>5. SendOK(h)'
    BY <1>1, <1>2, <1>5, <2>1, <2>2, <2>3, <2>4 DEF HookInv, SendOK
  <2>6. LagOK(h)'
    BY <1>1, <1>2, <1>5, <2>1, <2>2, <2>3 DEF HookInv, LagOK, Clear
  <2> QED BY <2>2, <2>5, <2>6 DEF HookInv
<1>7. Phased'
  BY <1>2 DEF WebhookInv, Phased
<1>8. ActiveOK'
  BY <1>1, <1>5 DEF WebhookInv, ActiveOK
<1> QED BY <1>3, <1>6, <1>7, <1>8 DEF WebhookInv

----------------------------------------------------------------------------
(* Steps that only mark deliveries. *)

\* The deliveries of a webhook keep what matters for their order and their state.
SameButMarks(h) ==
    /\ rows'[h] \in Seq(RowRecord) /\ Len(rows'[h]) = Len(rows[h])
    /\ \A i \in DOMAIN rows[h] :
          /\ rows'[h][i].gen = rows[h][i].gen /\ rows'[h][i].kind = rows[h][i].kind
          /\ rows'[h][i].state = rows[h][i].state
          /\ rows'[h][i].attempts = rows[h][i].attempts
          /\ rows'[h][i].title = rows[h][i].title

LEMMA Marked ==
    ASSUME Typed, NEW h \in Hook, HookInv(h), SameButMarks(h),
           hook'[h] = hook[h], owed'[h] = owed[h], title' \in Nat, title <= title',
           budget'["events"] + budget'["tests"] <= budget["events"] + budget["tests"],
           budget' \in [Kinds -> Nat]
    PROVE  /\ HookOK(h)' /\ RowsOK(h)'
           /\ DOMAIN rows'[h] = DOMAIN rows[h]
           /\ \A i : Pending(h, i)' <=> Pending(h, i)
           /\ \A i : Eligible(h, i)' <=> Eligible(h, i)
           /\ Waiting(h)' = Waiting(h)
           /\ \A i : LastTitle(h, i)' <=> LastTitle(h, i)
<1>1. HookOK(h)'
  BY DEF HookInv, HookOK
<1>2. /\ rows[h] \in Seq(RowRecord) /\ Len(rows[h]) \in Nat /\ title \in Nat
      /\ DOMAIN rows[h] = 1 .. Len(rows[h])
  BY DEF Typed
<1>3. DOMAIN rows'[h] = DOMAIN rows[h]
  BY <1>2 DEF SameButMarks
<1>4. \A i : Pending(h, i)' <=> Pending(h, i)
  BY <1>3 DEF Pending, SameButMarks
<1>5. \A i : Eligible(h, i)' <=> Eligible(h, i)
  BY <1>3, <1>4 DEF Eligible, Pending, SameButMarks
<1>6. Waiting(h)' = Waiting(h)
  BY <1>3, <1>4 DEF Waiting
<1>7. Wants(h)' <=> Wants(h)
  BY DEF Wants
<1>8. RowsOK(h)'
  <2>1. budget["events"] \in Nat /\ budget["tests"] \in Nat
        /\ budget'["events"] \in Nat /\ budget'["tests"] \in Nat
    BY DEF Typed, Kinds
  <2>2. Len(rows'[h]) + budget'["events"] + budget'["tests"] <= MaxRows
    BY <1>2, <2>1, WebhookAssumption DEF HookInv, RowsOK, SameButMarks
  <2>3. ~hook'[h].there => rows'[h] = <<>>
    BY <1>2 DEF HookInv, RowsOK, SameButMarks
  <2>4. ASSUME NEW i \in DOMAIN rows'[h]
        PROVE  /\ rows'[h][i].gen <= hook'[h].gen
               /\ rows'[h][i].title <= title'
               /\ rows'[h][i].state = "pending" => rows'[h][i].attempts < MaxAttempts
               /\ rows'[h][i].gen = hook'[h].gen /\ rows'[h][i].kind = "title" => Wants(h)'
    <3>1. i \in DOMAIN rows[h] /\ rows[h][i] \in RowRecord
      BY <1>2, <1>3
    <3>2. rows[h][i].title \in Nat
      BY <3>1 DEF RowRecord
    <3>3. rows[h][i].title <= title
      BY <3>1 DEF HookInv, RowsOK
    <3>4. rows'[h][i].title <= title'
      BY <1>2, <3>1, <3>2, <3>3 DEF SameButMarks
    <3> QED BY <1>7, <3>1, <3>4 DEF HookInv, RowsOK, SameButMarks
  <2>5. \A i \in Waiting(h)' : Eligible(h, i)'
    BY <1>5, <1>6 DEF HookInv, RowsOK
  <2>6. \A i \in DOMAIN rows'[h], j \in Waiting(h)' : rows'[h][i].state = "delivered" => i < j
    BY <1>3, <1>6 DEF HookInv, RowsOK, SameButMarks
  <2> QED BY <2>2, <2>3, <2>4, <2>5, <2>6 DEF RowsOK
<1>9. Titles(h)' = Titles(h)
  BY <1>3 DEF Titles, SameButMarks
<1>10. \A i : LastTitle(h, i)' <=> LastTitle(h, i)
  BY <1>9 DEF LastTitle
<1> QED BY <1>1, <1>3, <1>4, <1>5, <1>6, <1>8, <1>10

LEMMA DueStep ==
    ASSUME WebhookInv, NEW h \in Hook, NEW i \in DOMAIN rows[h], Due(h, i)
    PROVE  WebhookInv'
<1>1. /\ UNCHANGED <<hook, title, closing, send, active, paused, known, dropped, owed, budget>>
      /\ rows' = [rows EXCEPT ![h][i].due = TRUE]
  BY DEF Due, history
<1>2. HookInv(h) /\ Typed
  BY DEF WebhookInv
<1>3. rows[h] \in Seq(RowRecord) /\ rows[h][i] \in RowRecord
      /\ DOMAIN rows[h] = 1 .. Len(rows[h]) /\ Len(rows[h]) \in Nat
  BY <1>2 DEF Typed
<1> DEFINE r == [rows[h][i] EXCEPT !.due = TRUE]
<1>4. /\ r \in RowRecord /\ r.gen = rows[h][i].gen /\ r.kind = rows[h][i].kind
      /\ r.state = rows[h][i].state /\ r.attempts = rows[h][i].attempts
      /\ r.title = rows[h][i].title /\ r.late = rows[h][i].late /\ r.blind = rows[h][i].blind
  BY <1>3 DEF RowRecord
<1>5. rows' = [rows EXCEPT ![h] = [rows[h] EXCEPT ![i] = r]]
  BY <1>1
<1> HIDE DEF r
<1>6. rows'[h] = [rows[h] EXCEPT ![i] = r]
  BY <1>2, <1>5 DEF Typed
<1>7. rows'[h] \in Seq(RowRecord) /\ Len(rows'[h]) = Len(rows[h])
  BY <1>3, <1>4, <1>6
<1>8. SameButMarks(h)
  BY <1>3, <1>4, <1>6, <1>7 DEF SameButMarks
<1>9. /\ budget' \in [Kinds -> Nat]
      /\ budget'["events"] + budget'["tests"] <= budget["events"] + budget["tests"]
  BY <1>1, BudgetKept DEF WebhookInv
<1>10. title' \in Nat /\ title <= title'
  BY <1>1, <1>2 DEF Typed
<1>11. /\ HookOK(h)' /\ RowsOK(h)' /\ DOMAIN rows'[h] = DOMAIN rows[h]
       /\ \A j : Eligible(h, j)' <=> Eligible(h, j)
       /\ Waiting(h)' = Waiting(h)
       /\ \A j : LastTitle(h, j)' <=> LastTitle(h, j)
  BY <1>1, <1>2, <1>8, <1>9, <1>10, Marked
<1>12. Current(h)' = Current(h) /\ (Sending(h)' <=> Sending(h))
       /\ \A j : Built(h, j)' <=> Built(h, j)
  BY <1>1 DEF Current, Sending, Built
<1>13. (MayBeSent(h)' <=> MayBeSent(h)) /\ (Retired(h)' <=> Retired(h))
  <2>1. ASSUME Eligible(h, Current(h)) PROVE rows'[h][Current(h)].gen = rows[h][Current(h)].gen
    BY <1>8, <2>1 DEF SameButMarks, Eligible, Pending
  <2> QED BY <1>1, <1>11, <1>12, <2>1 DEF MayBeSent, Retired
<1>14. SendOK(h)'
  BY <1>1, <1>2, <1>11, <1>12, <1>13 DEF HookInv, SendOK
<1>15. \A j \in DOMAIN rows[h] :
          /\ Clear(h, j)' <=> Clear(h, j)
          /\ rows'[h][j].state = rows[h][j].state /\ rows'[h][j].gen = rows[h][j].gen
  BY <1>1, <1>3, <1>4, <1>6 DEF Clear
<1>16. LagOK(h)'
  BY <1>1, <1>2, <1>11, <1>12, <1>13, <1>15 DEF HookInv, LagOK
<1>17. HookInv(h)'
  BY <1>11, <1>14, <1>16 DEF HookInv
<1>18. ASSUME NEW g \in Hook \ {h} PROVE HookInv(g)'
  <2>1. rows'[g] = rows[g]
    BY <1>2, <1>5 DEF Typed
  <2> QED BY <1>1, <1>9, <2>1, Frame DEF WebhookInv
<1>19. Typed'
  <2>1. rows' \in [Hook -> Seq(RowRecord)]
    BY <1>2, <1>5, <1>6, <1>7 DEF Typed
  <2> QED BY <1>1, <2>1 DEF WebhookInv, Typed
<1> QED BY <1>1, <1>17, <1>18, <1>19, SameSends DEF WebhookInv

\* The marks a payload leaves on the delivery it is made for.
MarkedBy(h, late, blind) ==
    rows' = [rows EXCEPT ![h] = [rows[h] EXCEPT ![Current(h)] =
                [rows[h][Current(h)] EXCEPT !.late = late, !.blind = blind]]]

LEMMA MarkedByIs ==
    ASSUME WebhookInv, NEW h \in Hook, Current(h) \in DOMAIN rows[h],
           NEW late \in BOOLEAN, NEW blind \in BOOLEAN, MarkedBy(h, late, blind)
    PROVE  /\ SameButMarks(h) /\ rows' \in [Hook -> Seq(RowRecord)]
           /\ \A g \in Hook \ {h} : rows'[g] = rows[g]
           /\ \A i \in DOMAIN rows[h] \ {Current(h)} : rows'[h][i] = rows[h][i]
           /\ rows'[h][Current(h)].blind = blind
<1> DEFINE i == Current(h)
<1>1. rows[h] \in Seq(RowRecord) /\ rows[h][i] \in RowRecord /\ rows \in [Hook -> Seq(RowRecord)]
      /\ DOMAIN rows[h] = 1 .. Len(rows[h]) /\ Len(rows[h]) \in Nat
  BY DEF WebhookInv, Typed
<1> DEFINE r == [rows[h][i] EXCEPT !.late = late, !.blind = blind]
<1>2. /\ r \in RowRecord /\ r.gen = rows[h][i].gen /\ r.kind = rows[h][i].kind
      /\ r.state = rows[h][i].state /\ r.attempts = rows[h][i].attempts
      /\ r.title = rows[h][i].title /\ r.blind = blind
  BY <1>1 DEF RowRecord
<1>3. rows' = [rows EXCEPT ![h] = [rows[h] EXCEPT ![i] = r]]
  BY DEF MarkedBy
<1> HIDE DEF r, i
<1>4. rows'[h] = [rows[h] EXCEPT ![i] = r] /\ i \in DOMAIN rows[h]
  BY <1>1, <1>3 DEF i
<1>5. rows'[h] \in Seq(RowRecord) /\ Len(rows'[h]) = Len(rows[h])
  BY <1>1, <1>2, <1>4
<1>6. SameButMarks(h)
  BY <1>1, <1>2, <1>4, <1>5 DEF SameButMarks
<1>7. rows' \in [Hook -> Seq(RowRecord)]
  BY <1>1, <1>3, <1>4, <1>5
<1>8. \A k \in DOMAIN rows[h] \ {i} : rows'[h][k] = rows[h][k]
  BY <1>1, <1>4
<1>9. rows'[h][i].blind = blind
  BY <1>1, <1>2, <1>4
<1> QED BY <1>1, <1>3, <1>6, <1>7, <1>8, <1>9 DEF i

\* What the three outcomes of making a payload have in common.
LEMMA BuildIs ==
    ASSUME WebhookInv, NEW h \in Hook, Build(h)
    PROVE  /\ SameAdmission(h) /\ send' = [send EXCEPT ![h] = send'[h]]
           /\ send'[h].at \in {"post", "record"} /\ send'[h].sees <= title
           /\ rows' \in [Hook -> Seq(RowRecord)] /\ SameButMarks(h)
           /\ \A g \in Hook \ {h} : rows'[g] = rows[g]
           /\ \A i \in DOMAIN rows[h] \ {Current(h)} : rows'[h][i] = rows[h][i]
           /\ budget' \in [Kinds -> Nat]
           /\ budget'["events"] + budget'["tests"] <= budget["events"] + budget["tests"]
           /\ \/ send'[h].sees = title /\ send'[h].code = "none"
              \/ /\ rows'[h][Current(h)].blind /\ send'[h].code = "none"
              \/ send'[h].code = "payload_too_large" /\ send'[h].at = "record"
<1> DEFINE i == Current(h)
<1>1. send[h] \in SendRecord /\ HookInv(h) /\ Typed /\ send[h].at = "build"
  BY DEF WebhookInv, Typed, Build
<1>2. rows \in [Hook -> Seq(RowRecord)] /\ rows[h] \in Seq(RowRecord) /\ title \in Nat
  BY <1>1 DEF Typed
<1>3. send[h].code = "none" /\ send[h].sees <= title
  BY <1>1 DEF HookInv, LagOK, SendOK
<1>4. UNCHANGED rows => /\ SameButMarks(h) /\ rows' \in [Hook -> Seq(RowRecord)]
                        /\ \A g \in Hook \ {h} : rows'[g] = rows[g]
                        /\ \A k \in DOMAIN rows[h] \ {i} : rows'[h][k] = rows[h][k]
  BY <1>2 DEF SameButMarks
<1>5. CASE /\ send' = [send EXCEPT ![h].at = "post", ![h].sees = title]
           /\ rows' = IF i \in DOMAIN rows[h]
                      THEN [rows EXCEPT ![h][i].late = FALSE, ![h][i].blind = FALSE] ELSE rows
           /\ UNCHANGED budget
  <2> DEFINE s == [send[h] EXCEPT !.at = "post", !.sees = title]
  <2>1. /\ s \in SendRecord /\ s.at = "post" /\ s.batch = send[h].batch /\ s.gen = send[h].gen
        /\ s.live = send[h].live /\ s.sees = title /\ s.code = "none"
    BY <1>1, <1>2, <1>3 DEF SendRecord, Places
  <2>2. send' = [send EXCEPT ![h] = s]
    BY <1>5
  <2> HIDE DEF s
  <2>3. send'[h] = s
    BY <1>1, <2>2 DEF Typed
  <2>4. SameAdmission(h)
    BY <1>1, <2>1, <2>3 DEF SameAdmission, Sending
  <2>5. i \in DOMAIN rows[h] => MarkedBy(h, FALSE, FALSE)
    BY <1>5 DEF MarkedBy
  <2>6. /\ SameButMarks(h) /\ rows' \in [Hook -> Seq(RowRecord)]
        /\ \A g \in Hook \ {h} : rows'[g] = rows[g]
        /\ \A k \in DOMAIN rows[h] \ {i} : rows'[h][k] = rows[h][k]
    <3>1. CASE i \in DOMAIN rows[h]
      BY <2>5, <3>1, MarkedByIs
    <3>2. CASE i \notin DOMAIN rows[h]
      BY <1>4, <1>5, <3>2
    <3> QED BY <3>1, <3>2
  <2>7. /\ budget' \in [Kinds -> Nat]
        /\ budget'["events"] + budget'["tests"] <= budget["events"] + budget["tests"]
    BY <1>1, <1>5, BudgetKept
  <2>8. title <= title
    BY <1>2
  <2> QED BY <2>1, <2>2, <2>3, <2>4, <2>6, <2>7, <2>8
<1>6. CASE /\ i \in DOMAIN rows[h] /\ Spend("errors")
           /\ send' = [send EXCEPT ![h].at = "post", ![h].sees = rows[h][i].title]
           /\ rows' = [rows EXCEPT ![h][i].blind = TRUE]
  <2>1. rows[h][i] \in RowRecord /\ rows[h][i].title \in Nat /\ rows[h][i].title <= title
    <3>1. rows[h][i] \in RowRecord /\ rows[h][i].title <= title
      BY <1>1, <1>2, <1>6 DEF HookInv, RowsOK
    <3> QED BY <3>1 DEF RowRecord
  <2> DEFINE s == [send[h] EXCEPT !.at = "post", !.sees = rows[h][i].title]
  <2>2. /\ s \in SendRecord /\ s.at = "post" /\ s.batch = send[h].batch /\ s.gen = send[h].gen
        /\ s.live = send[h].live /\ s.sees = rows[h][i].title /\ s.code = "none"
    BY <1>1, <1>3, <2>1 DEF SendRecord, Places
  <2>3. send' = [send EXCEPT ![h] = s]
    BY <1>6
  <2> HIDE DEF s
  <2>4. send'[h] = s
    BY <1>1, <2>3 DEF Typed
  <2>5. SameAdmission(h)
    BY <1>1, <2>2, <2>4 DEF SameAdmission, Sending
  <2>6. MarkedBy(h, rows[h][i].late, TRUE)
    <3>1. [rows[h][i] EXCEPT !.blind = TRUE] = [rows[h][i] EXCEPT !.late = rows[h][i].late, !.blind = TRUE]
      BY <2>1 DEF RowRecord
    <3> QED BY <1>6, <3>1 DEF MarkedBy
  <2>7. rows[h][i].late \in BOOLEAN
    BY <2>1 DEF RowRecord
  <2>8. /\ SameButMarks(h) /\ rows' \in [Hook -> Seq(RowRecord)]
        /\ \A g \in Hook \ {h} : rows'[g] = rows[g]
        /\ \A k \in DOMAIN rows[h] \ {i} : rows'[h][k] = rows[h][k]
        /\ rows'[h][i].blind
    BY <1>6, <2>6, <2>7, MarkedByIs
  <2>9. /\ budget' \in [Kinds -> Nat]
        /\ budget'["events"] + budget'["tests"] <= budget["events"] + budget["tests"]
    BY <1>1, <1>6, SpendIs DEF Kinds
  <2> QED BY <2>1, <2>2, <2>3, <2>4, <2>5, <2>8, <2>9
<1>7. CASE /\ Spend("errors") /\ UNCHANGED rows
           /\ send' = [send EXCEPT ![h].at = "record", ![h].code = "payload_too_large"]
  <2> DEFINE s == [send[h] EXCEPT !.at = "record", !.code = "payload_too_large"]
  <2>1. /\ s \in SendRecord /\ s.at = "record" /\ s.batch = send[h].batch /\ s.gen = send[h].gen
        /\ s.live = send[h].live /\ s.sees = send[h].sees /\ s.code = "payload_too_large"
    BY <1>1 DEF SendRecord, Places, Codes
  <2>2. send' = [send EXCEPT ![h] = s]
    BY <1>7
  <2> HIDE DEF s
  <2>3. send'[h] = s
    BY <1>1, <2>2 DEF Typed
  <2>4. SameAdmission(h)
    BY <1>1, <2>1, <2>3 DEF SameAdmission, Sending
  <2>5. /\ budget' \in [Kinds -> Nat]
        /\ budget'["events"] + budget'["tests"] <= budget["events"] + budget["tests"]
    BY <1>1, <1>7, SpendIs DEF Kinds
  <2> QED BY <1>3, <1>4, <1>7, <2>1, <2>2, <2>3, <2>4, <2>5
<1> QED BY <1>5, <1>6, <1>7 DEF Build

\* A payload that does not show the title as it is leaves a mark on its delivery.
LEMMA BuildStep ==
    ASSUME WebhookInv, NEW h \in Hook, Build(h)
    PROVE  WebhookInv'
<1>1. /\ send[h].at = "build" /\ Sending(h)
      /\ UNCHANGED <<hook, title, closing, active, paused, known, dropped, owed>>
  BY DEF Build, Sending, history
<1>2. HookInv(h) /\ Typed
  BY DEF WebhookInv
<1>3. title' \in Nat /\ title <= title' /\ rows[h] \in Seq(RowRecord)
  BY <1>1, <1>2 DEF Typed
<1>4. /\ HookOK(h)' /\ RowsOK(h)' /\ DOMAIN rows'[h] = DOMAIN rows[h]
      /\ \A j : Eligible(h, j)' <=> Eligible(h, j)
      /\ Waiting(h)' = Waiting(h)
      /\ \A j : LastTitle(h, j)' <=> LastTitle(h, j)
  BY <1>1, <1>2, <1>3, BuildIs, Marked
<1>5. Current(h)' = Current(h) /\ Sending(h)' /\ \A j : Built(h, j)' <=> j = Current(h)
  BY BuildIs DEF Current, Sending, Built, SameAdmission
<1>6. (MayBeSent(h)' <=> MayBeSent(h)) /\ (Retired(h)' <=> Retired(h))
  <2>1. ASSUME Eligible(h, Current(h)) PROVE rows'[h][Current(h)].gen = rows[h][Current(h)].gen
    BY <2>1, BuildIs DEF SameButMarks, Eligible, Pending
  <2> QED BY <1>1, <1>4, <1>5, <2>1, BuildIs DEF MayBeSent, Retired, SameAdmission
<1>7. SendOK(h)'
  <2>1. known'[h] <= title' /\ send'[h].sees <= title'
    BY <1>1, <1>2, BuildIs DEF HookInv, SendOK
  <2> QED BY <1>1, <1>2, <1>4, <1>5, <1>6, <2>1, BuildIs DEF HookInv, SendOK, SameAdmission
<1>8. ASSUME NEW i \in DOMAIN rows[h], LastTitle(h, i), Clear(h, i)', rows[h][i].state = "delivered"
      PROVE  known'[h] = title'
  <2>1. MayBeSent(h)
    BY <1>1, <1>2, <1>8 DEF HookInv, LagOK, LastTitle, Titles
  <2>2. i # Current(h)
    BY <1>8, <2>1 DEF MayBeSent, Eligible, Pending
  <2>3. rows'[h][i] = rows[h][i]
    BY <2>2, BuildIs
  <2>4. Clear(h, i)
    BY <1>1, <1>8, <2>3 DEF Clear
  <2> QED BY <1>1, <1>2, <1>8, <2>4 DEF HookInv, LagOK
<1>9. LagOK(h)'
  <2>1. \A i \in DOMAIN rows[h] : rows'[h][i].state = rows[h][i].state /\ rows'[h][i].gen = rows[h][i].gen
    BY BuildIs DEF SameButMarks
  <2>2. ASSUME Clear(h, Current(h))'
        PROVE  /\ send'[h].code \notin {"payload_too_large", "authority_retired"}
                    => send'[h].sees = title'
               /\ send'[h].code # "accepted"
    BY <1>1, <1>5, <2>2, BuildIs DEF Clear
  <2>3. send'[h].code # "none" => send'[h].at = "record"
    BY BuildIs
  <2> QED BY <1>1, <1>2, <1>4, <1>5, <1>6, <1>8, <2>1, <2>2, <2>3 DEF HookInv, LagOK
<1>10. ASSUME NEW g \in Hook \ {h} PROVE HookInv(g)' /\ send'[g] = send[g]
  <2>1. \A k \in Hook \ {h} : rows'[k] = rows[k] /\ known'[k] = known[k]
    BY <1>1, BuildIs
  <2>2. send'[h] \in SendRecord
    BY BuildIs DEF SameAdmission
  <2> QED BY <1>1, <2>1, <2>2, BuildIs, Others
<1>11. Phased'
  BY <1>1, <1>10, BuildIs, PhasedMoves
<1>12. ActiveOK'
  BY <1>1, <1>5, <1>10, ActiveMoves
<1>13. Typed'
  <2>1. send'[h] \in SendRecord /\ send' = [send EXCEPT ![h] = send'[h]]
    BY BuildIs DEF SameAdmission
  <2>2. send' \in [Hook -> SendRecord]
    BY <1>2, <2>1 DEF Typed
  <2>3. rows' \in [Hook -> Seq(RowRecord)] /\ budget' \in [Kinds -> Nat]
    BY BuildIs
  <2> QED BY <1>1, <1>2, <2>2, <2>3 DEF Typed
<1> QED BY <1>4, <1>7, <1>9, <1>10, <1>11, <1>12, <1>13 DEF WebhookInv, HookInv

\* A delivery after an attempt: delivered, failed, or waiting with an attempt left.
LEMMA AttemptedIs ==
    ASSUME NEW row \in RowRecord, row.attempts < MaxAttempts, row.state = "pending",
           NEW code \in Codes
    PROVE  /\ Attempted(row, code) \in RowRecord
           /\ Attempted(row, code).gen = row.gen /\ Attempted(row, code).kind = row.kind
           /\ Attempted(row, code).title = row.title
           /\ Attempted(row, code).late = row.late /\ Attempted(row, code).blind = row.blind
           /\ Attempted(row, code).state = "delivered" <=> code = "accepted"
           /\ Attempted(row, code).state = "pending" => Attempted(row, code).attempts < MaxAttempts
<1> DEFINE n == row.attempts + 1
<1>1. row.attempts \in 0 .. MaxAttempts /\ MaxAttempts \in Nat
  BY WebhookAssumption DEF RowRecord
<1>2. n \in 0 .. MaxAttempts
  BY <1>1
<1> HIDE DEF n
<1>3. CASE code = "accepted"
  <2>1. Attempted(row, code) = [row EXCEPT !.attempts = n, !.state = "delivered"]
    BY <1>3 DEF Attempted, n
  <2> QED BY <1>2, <1>3, <2>1 DEF RowRecord
<1>4. CASE code # "accepted" /\ (code = "payload_too_large" \/ n >= MaxAttempts)
  <2>1. Attempted(row, code) = [row EXCEPT !.attempts = n, !.state = "failed"]
    BY <1>4 DEF Attempted, n
  <2> QED BY <1>2, <1>4, <2>1 DEF RowRecord
<1>5. CASE code # "accepted" /\ code # "payload_too_large" /\ ~(n >= MaxAttempts)
  <2>1. Attempted(row, code) = [row EXCEPT !.attempts = n, !.due = FALSE]
    BY <1>5 DEF Attempted, n
  <2>2. n < MaxAttempts
    BY <1>1, <1>2, <1>5
  <2> QED BY <1>2, <1>5, <2>1, <2>2 DEF RowRecord
<1> QED BY <1>3, <1>4, <1>5

\* What a batch does next: nothing, or the rest of it.
LEMMA ContinueIs ==
    ASSUME WebhookInv, NEW h \in Hook
    PROVE  /\ Continue(h) \in SendRecord /\ Continue(h).at \in {"rest", "admit"}
           /\ Continue(h).live = FALSE /\ Continue(h).sees = 0 /\ Continue(h).code = "none"
           /\ Continue(h).batch \subseteq send[h].batch \ {Current(h)}
           /\ Continue(h).at = "rest" => Continue(h).batch = {}
           /\ Continue(h).at = "admit" => /\ Continue(h).batch # {}
                                          /\ Continue(h).batch = send[h].batch \ {Current(h)}
                                          /\ send[h].code = "accepted"
<1>1. send[h].batch \in SUBSET Nat /\ send[h].gen \in Nat
  BY DEF WebhookInv, Typed, SendRecord
<1> DEFINE left == send[h].batch \ {Current(h)}
<1>2. CASE send[h].code = "accepted" /\ left # {}
  <2>1. Continue(h) = Part("admit", left, send[h].gen) /\ left \in SUBSET Nat
    BY <1>1, <1>2 DEF Continue
  <2> QED BY <1>1, <1>2, <2>1 DEF Part, SendRecord, Places, Codes
<1>3. CASE ~(send[h].code = "accepted" /\ left # {})
  <2>1. Continue(h) = Rest
    BY <1>3 DEF Continue
  <2> QED BY <2>1, RestTyped DEF Rest, Part
<1> QED BY <1>2, <1>3

\* A result that counts: the delivery was still the one that was admitted.
LEMMA SettleStep ==
    ASSUME WebhookInv, NEW h \in Hook, send[h].at = "record", MayBeSent(h),
           rows' = [rows EXCEPT ![h][Current(h)] = Attempted(@, send[h].code)],
           send' = [send EXCEPT ![h] = Continue(h)],
           Release(h), paused' \in SUBSET Hook,
           UNCHANGED <<hook, title, closing, known, dropped, owed, budget>>
    PROVE  WebhookInv'
<1> DEFINE i == Current(h)
           r == Attempted(rows[h][i], send[h].code)
<1>1. HookInv(h) /\ Typed /\ Sending(h)
  BY DEF WebhookInv, Sending
<1>2. /\ rows[h] \in Seq(RowRecord) /\ rows \in [Hook -> Seq(RowRecord)]
      /\ DOMAIN rows[h] = 1 .. Len(rows[h]) /\ Len(rows[h]) \in Nat
  BY <1>1 DEF Typed
<1>3. i \in DOMAIN rows[h] /\ i \in Waiting(h) /\ rows[h][i].state = "pending"
      /\ rows[h][i].gen = hook[h].gen /\ hook[h].there
  BY DEF MayBeSent, Eligible, Pending, Waiting
<1>4. rows[h][i] \in RowRecord /\ rows[h][i].attempts < MaxAttempts /\ send[h].code \in Codes
  BY <1>1, <1>2, <1>3 DEF HookInv, RowsOK, Typed, SendRecord
<1>5. /\ r \in RowRecord /\ r.gen = rows[h][i].gen /\ r.kind = rows[h][i].kind
      /\ r.title = rows[h][i].title /\ r.late = rows[h][i].late /\ r.blind = rows[h][i].blind
      /\ r.state = "delivered" <=> send[h].code = "accepted"
      /\ r.state = "pending" => r.attempts < MaxAttempts
  BY <1>3, <1>4, AttemptedIs
<1> DEFINE q == [rows[h] EXCEPT ![i] = r]
<1>6. rows' = [rows EXCEPT ![h] = q]
  OBVIOUS
<1> HIDE DEF r
<1>7. /\ i \in send[h].batch /\ i \in Nat /\ \A k \in send[h].batch : i <= k
  BY <1>1, CurrentIs DEF HookInv, SendOK
<1> HIDE DEF i
<1> HIDE DEF q
<1>8a. rows'[h] = q
  BY <1>2, <1>6
<1>8. /\ q \in Seq(RowRecord) /\ Len(q) = Len(rows[h]) /\ DOMAIN q = DOMAIN rows[h]
      /\ q[i] = r /\ \A k \in DOMAIN rows[h] \ {i} : q[k] = rows[h][k]
  <2>1. rows[h] \in Seq(RowRecord) /\ i \in DOMAIN rows[h] /\ r \in RowRecord
    BY <1>2, <1>3, <1>5
  <2> QED BY ONLY <2>1, ReplaceOne DEF q
<1>9. rows'[h] \in Seq(RowRecord) /\ Len(rows'[h]) = Len(rows[h]) /\ DOMAIN rows'[h] = DOMAIN rows[h]
  BY <1>8a, <1>8
<1>10. rows'[h][i] = r /\ \A k \in DOMAIN rows[h] \ {i} : rows'[h][k] = rows[h][k]
  BY <1>8a, <1>8
<1>11. send'[h] = Continue(h)
  BY <1>1 DEF Typed
<1>12. Waiting(h)' \subseteq Waiting(h)
  BY <1>3, <1>9, <1>10 DEF Waiting, Pending
<1>13. \A k \in Waiting(h)' : Eligible(h, k)'
  <2> TAKE k \in Waiting(h)'
  <2>1. Eligible(h, k) /\ k \in DOMAIN rows[h]
    BY <1>1, <1>12 DEF HookInv, RowsOK, Waiting
  <2>2. rows'[h][k].gen = rows[h][k].gen /\ rows'[h][k].kind = rows[h][k].kind
    BY <1>5, <1>10, <2>1
  <2>3. Pending(h, k)'
    BY DEF Waiting
  <2> QED BY <2>1, <2>2, <2>3 DEF Eligible
<1>14. \A k \in Waiting(h)' : send[h].code = "accepted" => i < k
  <2> SUFFICES ASSUME NEW k \in Waiting(h)', send[h].code = "accepted" PROVE i < k
    OBVIOUS
  <2>1. k \in Waiting(h) /\ k \in Nat
    BY <1>2, <1>12 DEF Waiting
  <2>2. k # i
    BY <1>5, <1>10, <2>1 DEF Waiting, Pending
  <2>3. k < i => k \in send[h].batch
    BY <1>1, <1>7, <2>1 DEF HookInv, SendOK
  <2> QED BY <1>7, <2>1, <2>2, <2>3
<1>15. RowsOK(h)'
  <2>1. \A k \in DOMAIN rows'[h] :
          /\ rows'[h][k].gen <= hook'[h].gen
          /\ rows'[h][k].title <= title'
          /\ rows'[h][k].state = "pending" => rows'[h][k].attempts < MaxAttempts
          /\ rows'[h][k].gen = hook'[h].gen /\ rows'[h][k].kind = "title" => Wants(h)'
    BY <1>1, <1>3, <1>5, <1>9, <1>10 DEF HookInv, RowsOK, Wants
  <2>2. ASSUME NEW k \in DOMAIN rows'[h], NEW j \in Waiting(h)', rows'[h][k].state = "delivered"
        PROVE  k < j
    BY <1>1, <1>5, <1>9, <1>10, <1>12, <1>14, <2>2 DEF HookInv, RowsOK
  <2>3. Len(rows'[h]) + budget'["events"] + budget'["tests"] <= MaxRows
    BY <1>1, <1>9 DEF HookInv, RowsOK
  <2> QED BY <1>3, <1>13, <2>1, <2>2, <2>3 DEF RowsOK
<1>16. HookOK(h)'
  BY <1>1 DEF HookInv, HookOK
<1>17. ~Sending(h)' /\ \A k : ~Built(h, k)'
  BY <1>11, ContinueIs DEF Sending, Built
<1>18. SendOK(h)'
  <2>1. ASSUME NEW k \in send'[h].batch, NEW j \in Waiting(h)', j < k
        PROVE  j \in send'[h].batch
    <3>1. send'[h].batch = send[h].batch \ {i} /\ send[h].code = "accepted"
      BY <1>11, <2>1, ContinueIs DEF i
    <3>2. j \in send[h].batch
      BY <1>1, <1>12, <2>1, <3>1 DEF HookInv, SendOK
    <3>3. j # i
      BY <1>14, <1>7, <2>1, <3>1
    <3> QED BY <3>1, <3>2, <3>3
  <2>2. known'[h] <= title' /\ send'[h].sees <= title'
    <3>1. send'[h].sees = 0
      BY <1>11, ContinueIs
    <3>2. title \in Nat /\ known[h] <= title
      BY <1>1 DEF HookInv, SendOK, Typed
    <3> QED BY <3>1, <3>2
  <2>3. /\ send'[h].batch \subseteq send[h].batch
        /\ send'[h].at \in {"rest", "admit"} /\ send'[h].live = FALSE
        /\ send'[h].at = "rest" => send'[h].batch = {}
        /\ send'[h].at = "admit" => send'[h].batch # {}
    BY <1>11, ContinueIs
  <2> QED BY <1>1, <1>9, <2>1, <2>2, <2>3 DEF HookInv, SendOK
<1>19. Titles(h)' = Titles(h)
  BY <1>3, <1>5, <1>9, <1>10 DEF Titles
<1>20. ASSUME NEW k \in DOMAIN rows'[h], LastTitle(h, k)', Clear(h, k)', rows'[h][k].state = "delivered"
       PROVE  known'[h] = title'
  <2>1. LastTitle(h, k) /\ Clear(h, k) /\ k \in DOMAIN rows[h]
    BY <1>5, <1>9, <1>10, <1>19, <1>20 DEF LastTitle, Clear
  <2>2. CASE k # i
    BY <1>1, <1>10, <1>20, <2>1, <2>2 DEF HookInv, LagOK
  <2>3. CASE k = i
    <3>1. send[h].code = "accepted" /\ Built(h, k)
      BY <1>5, <1>10, <1>20, <2>3 DEF Built, i
    <3> QED BY <1>1, <2>1, <3>1 DEF HookInv, LagOK
  <2> QED BY <2>2, <2>3
<1>21. LagOK(h)'
  BY <1>11, <1>17, <1>20, ContinueIs DEF LagOK
<1>22. ASSUME NEW g \in Hook \ {h} PROVE HookInv(g)' /\ send'[g] = send[g]
  <2>1. \A k \in Hook \ {h} : rows'[k] = rows[k] /\ known'[k] = known[k]
    BY <1>2, <1>6
  <2>2. Continue(h) \in SendRecord
    BY ContinueIs
  <2> QED BY <1>1, <2>1, <2>2, BudgetKept, Others
<1>23. Phased'
  BY <1>11, <1>22, ContinueIs, PhasedMoves
<1>24. ActiveOK'
  BY <1>1, <1>17, <1>22, ActiveMoves DEF Release
<1>25. Typed'
  <2>1. send' \in [Hook -> SendRecord]
    BY <1>1, ContinueIs DEF Typed
  <2>2. rows' \in [Hook -> Seq(RowRecord)]
    BY <1>2, <1>6, <1>8, <1>9
  <2>3. active' \in SUBSET (Hook \X Nat)
    BY <1>1 DEF Typed, Release
  <2> QED BY <1>1, <2>1, <2>2, <2>3 DEF Typed
<1> QED BY <1>15, <1>16, <1>18, <1>21, <1>22, <1>23, <1>24, <1>25 DEF WebhookInv, HookInv

LEMMA RecordStep ==
    ASSUME WebhookInv, NEW h \in Hook, Record(h)
    PROVE  WebhookInv'
<1>1. send[h].at = "record" /\ Sending(h) /\ Release(h)
      /\ UNCHANGED <<hook, title, closing, known, dropped, owed, budget>>
  BY DEF Record, Sending, history
<1>2. paused' \in SUBSET Hook
  BY DEF Record, WebhookInv, Typed
<1>3. CASE StillAdmitted(h)
  <2>1. Pending(h, Current(h)) /\ MayBeSent(h)
    BY <1>3 DEF StillAdmitted, MayBeSent, Eligible
  <2>2. rows' = [rows EXCEPT ![h][Current(h)] = Attempted(@, send[h].code)]
    BY <1>3, <2>1 DEF Record, Recorded
  <2> QED BY <1>1, <1>2, <1>3, <2>1, <2>2, SettleStep DEF Record
<1>4. CASE ~StillAdmitted(h)
  BY <1>1, <1>2, <1>4, BudgetKept, EndsStep DEF Record, WebhookInv
<1> QED BY <1>3, <1>4

----------------------------------------------------------------------------
(* New deliveries. *)

\* A webhook's new delivery.
Queues(h, row) == rows'[h] = Append(rows[h], row)

\* A delivery is queued behind the others of its webhook.
LEMMA Appended ==
    ASSUME Typed, NEW h \in Hook, HookInv(h), NEW row \in RowRecord,
           Queues(h, row),
           row.state = "pending", row.attempts = 0, row.gen = hook[h].gen,
           hook[h].there, ~hook[h].review, hook[h].enabled \/ row.kind = "test",
           row.kind = "title" => Wants(h),
           hook'[h] = hook[h], owed'[h] = owed[h], send'[h] = send[h], known'[h] = known[h],
           closing' = closing, title' \in Nat, title <= title', row.title <= title',
           budget' \in [Kinds -> Nat],
           budget'["events"] + budget'["tests"] + 1 <= budget["events"] + budget["tests"]
    PROVE  /\ HookOK(h)' /\ RowsOK(h)' /\ SendOK(h)'
           /\ rows'[h] \in Seq(RowRecord)
           /\ DOMAIN rows'[h] = DOMAIN rows[h] \cup {Len(rows[h]) + 1}
           /\ \A i \in DOMAIN rows[h] : rows'[h][i] = rows[h][i] /\ i < Len(rows[h]) + 1
           /\ rows'[h][Len(rows[h]) + 1] = row /\ Len(rows[h]) + 1 \notin DOMAIN rows[h]
           /\ Sending(h) => (MayBeSent(h)' <=> MayBeSent(h)) /\ Current(h) \in DOMAIN rows[h]
           /\ Current(h)' = Current(h) /\ (Sending(h)' <=> Sending(h))
<1>0. PICK n \in Nat : n = Len(rows[h]) + 1
  BY DEF Typed
<1>1. /\ rows[h] \in Seq(RowRecord) /\ Len(rows[h]) \in Nat
      /\ DOMAIN rows[h] = 1 .. Len(rows[h]) /\ title \in Nat
  BY DEF Typed
<1>2. /\ rows'[h] \in Seq(RowRecord) /\ Len(rows'[h]) = n
      /\ DOMAIN rows'[h] = DOMAIN rows[h] \cup {n}
      /\ \A i \in DOMAIN rows[h] : rows'[h][i] = rows[h][i] /\ i < n
      /\ rows'[h][n] = row /\ n \notin DOMAIN rows[h]
  BY <1>0, <1>1 DEF Queues
<1>3. HookOK(h)'
  BY DEF HookInv, HookOK
<1>4. /\ \A i \in DOMAIN rows[h] : (Pending(h, i)' <=> Pending(h, i))
                                  /\ (Eligible(h, i)' <=> Eligible(h, i))
      /\ Eligible(h, n)'
  <2>1. ASSUME NEW i \in DOMAIN rows[h]
        PROVE  (Pending(h, i)' <=> Pending(h, i)) /\ (Eligible(h, i)' <=> Eligible(h, i))
    <3>1. i \in DOMAIN rows'[h] /\ rows'[h][i] = rows[h][i]
      BY <1>2
    <3> QED BY <3>1 DEF Pending, Eligible
  <2>2. Eligible(h, n)'
    <3>1. n \in DOMAIN rows'[h] /\ rows'[h][n] = row
      BY <1>2
    <3> QED BY <3>1 DEF Pending, Eligible
  <2> QED BY <2>1, <2>2
<1>5. Waiting(h)' = Waiting(h) \cup {n}
  BY <1>2, <1>4 DEF Waiting, Eligible, Pending
<1>6. RowsOK(h)'
  <2>1. budget["events"] \in Nat /\ budget["tests"] \in Nat
        /\ budget'["events"] \in Nat /\ budget'["tests"] \in Nat
    BY DEF Typed, Kinds
  <2>2. Len(rows'[h]) + budget'["events"] + budget'["tests"] <= MaxRows
    <3>1. Len(rows[h]) + budget["events"] + budget["tests"] <= MaxRows
      BY DEF HookInv, RowsOK
    <3>2. n = Len(rows[h]) + 1
      BY <1>0
    <3>3. Len(rows'[h]) = Len(rows[h]) + 1
      BY <1>2, <3>2
    <3>4. budget'["events"] + budget'["tests"] + 1 <= budget["events"] + budget["tests"]
      OBVIOUS
    <3>5. MaxRows \in Nat
      BY WebhookAssumption
    <3>6. \A l, m, a, c, d, e \in Nat :
              l + a + c <= m /\ d + e + 1 <= a + c => (l + 1) + d + e <= m
      OBVIOUS
    <3> QED BY ONLY <1>1, <2>1, <3>1, <3>3, <3>4, <3>5, <3>6
  <2>3. ASSUME NEW i \in DOMAIN rows'[h]
        PROVE  /\ rows'[h][i].gen <= hook'[h].gen
               /\ rows'[h][i].title <= title'
               /\ rows'[h][i].state = "pending" => rows'[h][i].attempts < MaxAttempts
               /\ rows'[h][i].gen = hook'[h].gen /\ rows'[h][i].kind = "title" => Wants(h)'
    <3>1. Wants(h)' <=> Wants(h)
      BY DEF Wants
    <3>2. CASE i = n
      <4>1. row.gen \in Nat /\ 0 < MaxAttempts
        BY WebhookAssumption DEF RowRecord
      <4> QED BY <1>2, <3>1, <3>2, <4>1
    <3>3. CASE i \in DOMAIN rows[h]
      <4>1. rows[h][i] \in RowRecord /\ rows[h][i].title <= title
        BY <1>1, <3>3 DEF HookInv, RowsOK
      <4>2. rows[h][i].title \in Nat
        BY <4>1 DEF RowRecord
      <4>3. rows[h][i].title <= title'
        BY <1>1, <4>1, <4>2
      <4> QED BY <1>2, <3>1, <3>3, <4>3 DEF HookInv, RowsOK
    <3> QED BY <1>2, <3>2, <3>3
  <2>4. \A i \in Waiting(h)' : Eligible(h, i)'
    <3>1. \A i \in Waiting(h) : Eligible(h, i) /\ i \in DOMAIN rows[h]
      BY DEF HookInv, RowsOK, Waiting
    <3> QED BY <1>4, <1>5, <3>1
  <2>5. \A i \in DOMAIN rows'[h], j \in Waiting(h)' : rows'[h][i].state = "delivered" => i < j
    BY <1>2, <1>5 DEF HookInv, RowsOK
  <2> QED BY <2>2, <2>3, <2>4, <2>5 DEF RowsOK
<1>7. Current(h)' = Current(h) /\ (Sending(h)' <=> Sending(h))
  BY DEF Current, Sending
<1>8. ASSUME Sending(h) PROVE Current(h) \in DOMAIN rows[h]
  <2>1. send[h].batch # {} /\ send[h].batch \subseteq DOMAIN rows[h]
    BY <1>8 DEF HookInv, SendOK, Sending
  <2> QED BY <2>1, CurrentIs
<1>9. ASSUME Sending(h) PROVE MayBeSent(h)' <=> MayBeSent(h)
  BY <1>2, <1>4, <1>7, <1>8, <1>9 DEF MayBeSent
<1>10. SendOK(h)'
  <2>1. Retired(h)' <=> Retired(h)
    BY DEF Retired
  <2>2. \A i \in send[h].batch, j \in Waiting(h)' : j < i => j \in send[h].batch
    <3> TAKE i \in send[h].batch, j \in Waiting(h)'
    <3>1. i \in DOMAIN rows[h] /\ i < n /\ i \in Nat
      BY <1>1, <1>2 DEF HookInv, SendOK
    <3>2. j = n => ~(j < i)
      BY <1>0, <1>1, <3>1
    <3> QED BY <1>5, <3>2 DEF HookInv, SendOK
  <2>3. send[h].sees <= title' /\ known[h] <= title'
    <3>1. send[h].sees \in Nat /\ known[h] \in Nat
      BY DEF Typed, SendRecord
    <3> QED BY <1>1, <3>1 DEF HookInv, SendOK
  <2> QED BY <1>2, <1>7, <1>9, <2>1, <2>2, <2>3 DEF HookInv, SendOK
<1> QED BY <1>2, <1>3, <1>6, <1>7, <1>8, <1>9, <1>10, <1>0

\* One about anything but the title leaves the last word on the title as it is.
LEMMA AppendedOther ==
    ASSUME Typed, NEW h \in Hook, HookInv(h), NEW row \in RowRecord,
           Queues(h, row),
           row.state = "pending", row.attempts = 0, row.gen = hook[h].gen,
           hook[h].there, ~hook[h].review, hook[h].enabled \/ row.kind = "test",
           row.kind # "title", row.title <= title,
           hook'[h] = hook[h], owed'[h] = owed[h], send'[h] = send[h], known'[h] = known[h],
           closing' = closing, title' = title, (h \in dropped') <=> (h \in dropped),
           budget' \in [Kinds -> Nat],
           budget'["events"] + budget'["tests"] + 1 <= budget["events"] + budget["tests"]
    PROVE  HookInv(h)' /\ rows'[h] \in Seq(RowRecord)
<1>1. title' \in Nat /\ title <= title'
  BY DEF Typed
<1>2. /\ HookOK(h)' /\ RowsOK(h)' /\ SendOK(h)'
      /\ rows'[h] \in Seq(RowRecord)
      /\ DOMAIN rows'[h] = DOMAIN rows[h] \cup {Len(rows[h]) + 1}
      /\ \A i \in DOMAIN rows[h] : rows'[h][i] = rows[h][i] /\ i < Len(rows[h]) + 1
      /\ rows'[h][Len(rows[h]) + 1] = row /\ Len(rows[h]) + 1 \notin DOMAIN rows[h]
      /\ Sending(h) => (MayBeSent(h)' <=> MayBeSent(h)) /\ Current(h) \in DOMAIN rows[h]
      /\ Current(h)' = Current(h) /\ (Sending(h)' <=> Sending(h))
  BY <1>1, Appended
<1>3. Titles(h)' = Titles(h)
  BY <1>2 DEF Titles
<1>4. \A i : LastTitle(h, i)' <=> LastTitle(h, i)
  BY <1>3 DEF LastTitle
<1>5. \A i \in DOMAIN rows[h] : Clear(h, i)' <=> Clear(h, i)
  BY <1>2 DEF Clear
<1>6. \A i : (Built(h, i)' <=> Built(h, i)) /\ (Built(h, i) => Sending(h))
  BY <1>2 DEF Built, Sending
<1>7. ASSUME NEW i \in DOMAIN rows'[h], rows'[h][i].state = "delivered"
      PROVE  i \in DOMAIN rows[h] /\ rows'[h][i] = rows[h][i]
  BY <1>2, <1>7
<1>8. \A i : LastTitle(h, i) => i \in DOMAIN rows[h]
  BY DEF LastTitle, Titles
<1>9. LagOK(h)'
  <2>1. ASSUME NEW i \in DOMAIN rows'[h], LastTitle(h, i)', Clear(h, i)',
               rows'[h][i].state = "delivered"
        PROVE  known'[h] = title'
    BY <1>4, <1>5, <1>7, <2>1 DEF HookInv, LagOK
  <2>2. ASSUME NEW i \in DOMAIN rows'[h], LastTitle(h, i)', Clear(h, i)', MayBeSent(h)',
               Built(h, i)'
        PROVE  /\ send'[h].code \notin {"payload_too_large", "authority_retired"}
                     => send'[h].sees = title'
               /\ send'[h].code = "accepted" => known'[h] = title'
    <3>1. i \in DOMAIN rows[h] /\ LastTitle(h, i) /\ Clear(h, i) /\ Built(h, i) /\ Sending(h)
      BY <1>4, <1>5, <1>6, <1>8, <2>2
    <3>2. MayBeSent(h)
      BY <1>2, <2>2, <3>1
    <3> QED BY <3>1, <3>2 DEF HookInv, LagOK
  <2>3. ASSUME NEW i \in DOMAIN rows'[h], Sending(h)', rows'[h][i].state = "delivered",
               rows'[h][i].gen = hook'[h].gen
        PROVE  MayBeSent(h)'
    <3>1. i \in DOMAIN rows[h] /\ rows'[h][i] = rows[h][i]
      BY <1>7, <2>3
    <3>2. Sending(h) /\ MayBeSent(h)
      BY <1>2, <2>3, <3>1 DEF HookInv, LagOK
    <3> QED BY <1>2, <3>2
  <2>4. send'[h].code # "none" => send'[h].at = "record"
    BY DEF HookInv, LagOK
  <2> QED BY <2>1, <2>2, <2>3, <2>4 DEF LagOK
<1> QED BY <1>2, <1>9 DEF HookInv

\* One about the title is the last word, and not sent yet.
LEMMA AppendedTitle ==
    ASSUME Typed, NEW h \in Hook, HookInv(h), NEW row \in RowRecord,
           Queues(h, row),
           row.state = "pending", row.attempts = 0, row.gen = hook[h].gen,
           Wants(h), row.kind = "title", row.title <= title',
           hook'[h] = hook[h], owed'[h] = owed[h], send'[h] = send[h], known'[h] = known[h],
           closing' = closing, title' \in Nat, title <= title',
           budget' \in [Kinds -> Nat],
           budget'["events"] + budget'["tests"] + 1 <= budget["events"] + budget["tests"]
    PROVE  HookInv(h)' /\ rows'[h] \in Seq(RowRecord)
<1>1. hook[h].there /\ ~hook[h].review /\ hook[h].enabled
  BY DEF Wants
<1>2. /\ HookOK(h)' /\ RowsOK(h)' /\ SendOK(h)'
      /\ rows'[h] \in Seq(RowRecord)
      /\ DOMAIN rows'[h] = DOMAIN rows[h] \cup {Len(rows[h]) + 1}
      /\ \A i \in DOMAIN rows[h] : rows'[h][i] = rows[h][i] /\ i < Len(rows[h]) + 1
      /\ rows'[h][Len(rows[h]) + 1] = row /\ Len(rows[h]) + 1 \notin DOMAIN rows[h]
      /\ Sending(h) => (MayBeSent(h)' <=> MayBeSent(h)) /\ Current(h) \in DOMAIN rows[h]
      /\ Current(h)' = Current(h) /\ (Sending(h)' <=> Sending(h))
  BY <1>1, Appended
<1>0. PICK n \in Nat : n = Len(rows[h]) + 1
  BY DEF Typed
<1>3. n \in Nat /\ DOMAIN rows[h] = 1 .. Len(rows[h]) /\ Len(rows[h]) \in Nat
  BY <1>0 DEF Typed
<1>4. ASSUME NEW i \in DOMAIN rows'[h], LastTitle(h, i)' PROVE i = n
  <2>1. n \in Titles(h)'
    BY <1>0, <1>2 DEF Titles
  <2>2. n <= i /\ i \in Nat
    BY <1>0, <1>2, <1>3, <1>4, <2>1 DEF LastTitle
  <2> QED BY <1>0, <1>2, <1>3, <2>2
<1>5. ~Built(h, n)'
  BY <1>0, <1>2 DEF Built, Sending
<1>6. rows'[h][n].state # "delivered"
  BY <1>0, <1>2
<1>7. ASSUME NEW i \in DOMAIN rows'[h], i # n
      PROVE  i \in DOMAIN rows[h] /\ rows'[h][i] = rows[h][i]
  <2>1. DOMAIN rows'[h] = DOMAIN rows[h] \cup {n}
    BY <1>0, <1>2
  <2>2. i \in DOMAIN rows[h]
    BY <1>7, <2>1
  <2> QED BY <1>2, <2>2
<1>8. LagOK(h)'
  <2>1. \A i \in DOMAIN rows'[h] : LastTitle(h, i)' => i = n
    BY <1>4
  <2>2. ASSUME NEW i \in DOMAIN rows'[h], Sending(h)', rows'[h][i].state = "delivered",
               rows'[h][i].gen = hook'[h].gen
        PROVE  MayBeSent(h)'
    <3>1. i \in DOMAIN rows[h] /\ rows'[h][i] = rows[h][i]
      BY <1>6, <1>7, <2>2
    <3>2. Sending(h) /\ MayBeSent(h)
      BY <1>2, <2>2, <3>1 DEF HookInv, LagOK
    <3> QED BY <1>2, <3>2
  <2>3. send'[h].code # "none" => send'[h].at = "record"
    BY DEF HookInv, LagOK
  <2> QED BY <1>5, <1>6, <2>1, <2>2, <2>3 DEF LagOK
<1> QED BY <1>2, <1>8 DEF HookInv

\* A change that is folded into a delivery which waits: into one whose payload is
\* made already it comes too late.
Folded(h) ==
    rows'[h] = [i \in DOMAIN rows[h] |->
                  [rows[h][i] EXCEPT !.late = @ \/ (Folds(h, i, "title") /\ Built(h, i))]]

LEMMA FoldedStep ==
    ASSUME Typed, NEW h \in Hook, HookInv(h), Folded(h),
           NEW k \in DOMAIN rows[h], Folds(h, k, "title"), h \notin dropped',
           hook'[h] = hook[h], owed'[h] = owed[h], send'[h] = send[h], known'[h] = known[h],
           closing' = closing, title' \in Nat, title <= title',
           budget' \in [Kinds -> Nat],
           budget'["events"] + budget'["tests"] <= budget["events"] + budget["tests"]
    PROVE  HookInv(h)' /\ rows'[h] \in Seq(RowRecord)
<1>1. rows[h] \in Seq(RowRecord) /\ DOMAIN rows[h] = 1 .. Len(rows[h]) /\ Len(rows[h]) \in Nat
  BY DEF Typed
<1>2. ASSUME NEW i \in DOMAIN rows[h]
      PROVE  /\ rows'[h][i] \in RowRecord
             /\ rows'[h][i].gen = rows[h][i].gen /\ rows'[h][i].kind = rows[h][i].kind
             /\ rows'[h][i].state = rows[h][i].state
             /\ rows'[h][i].attempts = rows[h][i].attempts
             /\ rows'[h][i].title = rows[h][i].title
             /\ rows'[h][i].late = (rows[h][i].late \/ (Folds(h, i, "title") /\ Built(h, i)))
             /\ rows'[h][i].blind = rows[h][i].blind
  <2> DEFINE b == rows[h][i].late \/ (Folds(h, i, "title") /\ Built(h, i))
  <2>1. rows[h][i] \in RowRecord
    BY <1>1
  <2>2. rows'[h][i] = [rows[h][i] EXCEPT !.late = b]
    BY DEF Folded
  <2>3. b \in BOOLEAN
    OBVIOUS
  <2> HIDE DEF b
  <2>4. /\ rows'[h][i] \in RowRecord
        /\ rows'[h][i].gen = rows[h][i].gen /\ rows'[h][i].kind = rows[h][i].kind
        /\ rows'[h][i].state = rows[h][i].state
        /\ rows'[h][i].attempts = rows[h][i].attempts
        /\ rows'[h][i].title = rows[h][i].title
        /\ rows'[h][i].late = b /\ rows'[h][i].blind = rows[h][i].blind
    BY <2>1, <2>2, <2>3 DEF RowRecord
  <2> QED BY <2>4 DEF b
<1>3. rows'[h] \in Seq(RowRecord) /\ Len(rows'[h]) = Len(rows[h])
  <2>1. DOMAIN rows'[h] = 1 .. Len(rows[h])
    BY <1>1 DEF Folded
  <2>2. rows'[h] \in [1 .. Len(rows[h]) -> RowRecord]
    BY <1>1, <1>2, <2>1 DEF Folded
  <2> QED BY ONLY <1>1, <2>2, FunctionIsSeq
<1>4. SameButMarks(h)
  BY <1>2, <1>3 DEF SameButMarks
<1>5. /\ HookOK(h)' /\ RowsOK(h)' /\ DOMAIN rows'[h] = DOMAIN rows[h]
      /\ \A j : Eligible(h, j)' <=> Eligible(h, j)
      /\ Waiting(h)' = Waiting(h)
      /\ \A j : LastTitle(h, j)' <=> LastTitle(h, j)
  BY <1>4, Marked
<1>6. Current(h)' = Current(h) /\ (Sending(h)' <=> Sending(h))
      /\ \A j : Built(h, j)' <=> Built(h, j)
  BY DEF Current, Sending, Built
<1>7. (MayBeSent(h)' <=> MayBeSent(h)) /\ (Retired(h)' <=> Retired(h))
  <2>1. ASSUME Eligible(h, Current(h)) PROVE rows'[h][Current(h)].gen = rows[h][Current(h)].gen
    BY <1>2, <2>1 DEF Eligible, Pending
  <2> QED BY <1>5, <1>6, <2>1 DEF MayBeSent, Retired
<1>8. SendOK(h)'
  <2>1. send[h].sees <= title' /\ known[h] <= title'
    <3>1. send[h].sees \in Nat /\ known[h] \in Nat /\ title \in Nat
      BY DEF Typed, SendRecord
    <3> QED BY <3>1 DEF HookInv, SendOK
  <2> QED BY <1>5, <1>6, <1>7, <2>1 DEF HookInv, SendOK
<1>9. k \in Waiting(h) /\ k \in Nat /\ rows[h][k].kind = "title" /\ rows[h][k].gen = hook[h].gen
  <2>1. k \in Waiting(h) /\ rows[h][k].kind = "title"
    BY DEF Folds, Waiting
  <2> QED BY <1>1, <2>1 DEF HookInv, RowsOK, Eligible
<1>10. k \in Titles(h)
  BY <1>9 DEF Titles
<1>11. ASSUME NEW i \in DOMAIN rows[h], LastTitle(h, i) PROVE k <= i /\ i \in Nat
  BY <1>1, <1>10, <1>11 DEF LastTitle
<1>12. ASSUME NEW i \in DOMAIN rows[h], LastTitle(h, i), rows[h][i].state = "delivered"
       PROVE  FALSE
  <2>1. i < k
    BY <1>9, <1>12 DEF HookInv, RowsOK
  <2> QED BY <1>9, <1>11, <1>12, <2>1
<1>13. ASSUME NEW i \in DOMAIN rows[h], LastTitle(h, i), Built(h, i), Clear(h, i)'
       PROVE  FALSE
  <2>1. send[h].batch # {} /\ i = Current(h)
    BY <1>13 DEF Built, HookInv, SendOK
  <2>2. i \in send[h].batch /\ \A j \in send[h].batch : i <= j
    BY <2>1, CurrentIs
  <2>3. k = i
    <3>1. k < i => k \in send[h].batch
      BY <1>9, <2>2 DEF HookInv, SendOK
    <3> QED BY <1>9, <1>11, <1>13, <2>2, <3>1
  <2>4. rows'[h][i].late
    BY <1>2, <1>13, <2>3
  <2> QED BY <1>13, <2>4 DEF Clear
<1>14. LagOK(h)'
  <2>1. ASSUME NEW i \in DOMAIN rows'[h], Sending(h)', rows'[h][i].state = "delivered",
               rows'[h][i].gen = hook'[h].gen
        PROVE  MayBeSent(h)'
    BY <1>2, <1>5, <1>6, <1>7, <2>1 DEF HookInv, LagOK
  <2>2. send'[h].code # "none" => send'[h].at = "record"
    BY DEF HookInv, LagOK
  <2>3. \A i \in DOMAIN rows'[h] : ~(LastTitle(h, i)' /\ rows'[h][i].state = "delivered")
    BY <1>2, <1>5, <1>12
  <2>4. \A i \in DOMAIN rows'[h] : ~(LastTitle(h, i)' /\ Built(h, i)' /\ Clear(h, i)')
    BY <1>5, <1>6, <1>13
  <2> QED BY <2>1, <2>2, <2>3, <2>4 DEF LagOK
<1> QED BY <1>3, <1>5, <1>8, <1>14 DEF HookInv

\* A webhook a change of the title passes by: it wants no events, or had no place.
LEMMA PassedStep ==
    ASSUME Typed, NEW h \in Hook, HookInv(h), rows'[h] = rows[h], ~Wants(h) \/ h \in dropped',
           hook'[h] = hook[h], owed'[h] = owed[h], send'[h] = send[h], known'[h] = known[h],
           closing' = closing, title' \in Nat, title <= title',
           budget' \in [Kinds -> Nat],
           budget'["events"] + budget'["tests"] <= budget["events"] + budget["tests"]
    PROVE  HookInv(h)'
<1>1. SameButMarks(h)
  BY DEF SameButMarks, Typed
<1>2. /\ HookOK(h)' /\ RowsOK(h)' /\ DOMAIN rows'[h] = DOMAIN rows[h]
      /\ \A j : Eligible(h, j)' <=> Eligible(h, j)
      /\ Waiting(h)' = Waiting(h)
      /\ \A j : LastTitle(h, j)' <=> LastTitle(h, j)
  BY <1>1, Marked
<1>3. Current(h)' = Current(h) /\ (Sending(h)' <=> Sending(h))
      /\ \A j : Built(h, j)' <=> Built(h, j)
  BY DEF Current, Sending, Built
<1>4. (MayBeSent(h)' <=> MayBeSent(h)) /\ (Retired(h)' <=> Retired(h))
  BY <1>2, <1>3 DEF MayBeSent, Retired
<1>5. SendOK(h)'
  <2>1. send[h].sees <= title' /\ known[h] <= title'
    <3>1. send[h].sees \in Nat /\ known[h] \in Nat /\ title \in Nat
      BY DEF Typed, SendRecord
    <3> QED BY <3>1 DEF HookInv, SendOK
  <2> QED BY <1>2, <1>3, <1>4, <2>1 DEF HookInv, SendOK
<1>6. \A i \in DOMAIN rows[h] : LastTitle(h, i) => ~Clear(h, i)'
  <2>1. \A i \in DOMAIN rows[h] : LastTitle(h, i) => Wants(h)
    BY DEF LastTitle, Titles, HookInv, RowsOK
  <2> QED BY <2>1 DEF Clear
<1>7. LagOK(h)'
  BY <1>2, <1>3, <1>4, <1>6 DEF HookInv, LagOK
<1> QED BY <1>2, <1>5, <1>7 DEF HookInv

\* The row of something new.
LEMMA RowIs ==
    ASSUME Typed, NEW h \in Hook, NEW kind \in {"title", "plain", "test"}, NEW t \in Nat
    PROVE  /\ Row(h, kind, t) \in RowRecord
           /\ Row(h, kind, t).state = "pending" /\ Row(h, kind, t).attempts = 0
           /\ Row(h, kind, t).gen = hook[h].gen /\ Row(h, kind, t).kind = kind
           /\ Row(h, kind, t).title = t
<1>1. hook[h].gen \in Nat
  BY DEF Typed, HookRecord
<1>2. 0 \in 0 .. MaxAttempts
  BY WebhookAssumption
<1> QED BY <1>1, <1>2 DEF Row, RowRecord

\* An event never orphans a delivery, and the last word on the title stays the last.
LEMMA EventStep ==
    ASSUME WebhookInv, NEW kind \in {"title", "plain"}, Event(kind)
    PROVE  WebhookInv'
<1> DEFINE now == IF kind = "title" THEN title + 1 ELSE title
           lost == {h \in Hook : Wants(h) /\ Full(h)}
           fold == {h \in Hook : Wants(h) /\ \E i \in DOMAIN rows[h] : Folds(h, i, kind)}
           new == {h \in Hook : Wants(h)} \ (lost \cup fold)
<1>1. /\ Spend("events") /\ title' = now
      /\ rows' = [h \in Hook |->
            IF h \in new THEN Append(rows[h], Row(h, kind, now))
            ELSE IF h \in fold /\ kind = "title"
            THEN [i \in DOMAIN rows[h] |->
                    [rows[h][i] EXCEPT !.late = @ \/ (Folds(h, i, kind) /\ Built(h, i))]]
            ELSE rows[h]]
      /\ dropped' = IF kind = "title"
                     THEN (dropped \ (new \cup fold)) \cup (lost \ fold) ELSE dropped
      /\ UNCHANGED <<hook, closing, send, active, paused, known, owed>>
  BY DEF Event
<1>2. Typed
  BY DEF WebhookInv
<1>3. now \in Nat /\ title <= now /\ (kind = "plain" => now = title)
  BY <1>2 DEF Typed
<1>4. /\ budget' \in [Kinds -> Nat]
      /\ budget'["events"] + budget'["tests"] <= budget["events"] + budget["tests"]
      /\ budget'["events"] + budget'["tests"] + 1 <= budget["events"] + budget["tests"]
  <2>1. "events" \in Kinds /\ "tests" \in Kinds
    BY DEF Kinds
  <2>2. /\ budget' \in [Kinds -> Nat] /\ budget["events"] > 0
        /\ budget'["events"] = budget["events"] - 1 /\ budget'["tests"] = budget["tests"]
    BY <1>1, <1>2, <2>1, SpendIs
  <2>3. budget["events"] \in Nat /\ budget["tests"] \in Nat
    BY <1>2, <2>1 DEF Typed
  <2> QED BY <2>2, <2>3
<1> HIDE DEF now, lost, fold, new
<1>5. ASSUME NEW h \in Hook PROVE HookInv(h)' /\ rows'[h] \in Seq(RowRecord)
  <2>1. HookInv(h)
    BY DEF WebhookInv
  <2>2. /\ hook'[h] = hook[h] /\ owed'[h] = owed[h] /\ send'[h] = send[h]
        /\ known'[h] = known[h] /\ closing' = closing
    BY <1>1
  <2>3. CASE h \in new
    <3>1. Queues(h, Row(h, kind, now)) /\ Wants(h)
      BY <1>1, <2>3 DEF Queues, new
    <3>2. /\ Row(h, kind, now) \in RowRecord
          /\ Row(h, kind, now).state = "pending" /\ Row(h, kind, now).attempts = 0
          /\ Row(h, kind, now).gen = hook[h].gen /\ Row(h, kind, now).kind = kind
          /\ Row(h, kind, now).title = now
      BY <1>2, <1>3, RowIs
    <3>3. now <= now
      BY <1>3
    <3>4. CASE kind = "title"
      BY <1>1, <1>2, <1>3, <1>4, <2>1, <2>2, <3>1, <3>2, <3>3, <3>4, AppendedTitle
    <3>5. CASE kind = "plain"
      <4>1. dropped' = dropped /\ title' = title
        BY <1>1, <1>3, <3>5
      <4>2. hook[h].there /\ ~hook[h].review /\ hook[h].enabled
        BY <3>1 DEF Wants
      <4> QED BY <1>2, <1>3, <1>4, <2>1, <2>2, <3>1, <3>2, <3>3, <3>5, <4>1, <4>2, AppendedOther
    <3> QED BY <3>4, <3>5
  <2>4. CASE h \in fold /\ kind = "title"
    <3>1. h \notin new /\ kind = "title" /\ h \notin dropped'
      BY <1>1, <2>4 DEF new, fold
    <3>2. PICK k \in DOMAIN rows[h] : Folds(h, k, "title")
      BY <2>4 DEF fold
    <3>3. Folded(h)
      BY <1>1, <2>4, <3>1 DEF Folded
    <3> QED BY <1>1, <1>2, <1>3, <1>4, <2>1, <2>2, <3>1, <3>2, <3>3, FoldedStep
  <2>5. CASE h \notin new /\ ~(h \in fold /\ kind = "title")
    <3>1. rows'[h] = rows[h] /\ rows[h] \in Seq(RowRecord)
      BY <1>1, <1>2, <2>5 DEF Typed
    <3>2. CASE kind = "title"
      <4>1. ~Wants(h) \/ h \in dropped'
        BY <1>1, <2>5, <3>2 DEF new, lost
      <4> QED BY <1>1, <1>2, <1>3, <1>4, <2>1, <2>2, <3>1, <4>1, PassedStep
    <3>3. CASE kind = "plain"
      <4>1. dropped' = dropped /\ title' = title
        BY <1>1, <1>3, <3>3
      <4> QED BY <1>2, <1>4, <2>1, <2>2, <3>1, <4>1, Frame
    <3> QED BY <3>2, <3>3
  <2> QED BY <2>3, <2>4, <2>5
<1>6. Typed'
  <2>1. rows' \in [Hook -> Seq(RowRecord)]
    <3>1. DOMAIN rows' = Hook /\ rows' = [h \in Hook |-> rows'[h]]
      BY <1>1
    <3> QED BY <1>5, <3>1
  <2>2. dropped' \in SUBSET Hook
    BY <1>1, <1>2 DEF Typed, lost
  <2> QED BY <1>1, <1>2, <1>3, <1>4, <2>1, <2>2 DEF Typed
<1> QED BY <1>1, <1>5, <1>6, SameSends DEF WebhookInv

LEMMA SendTestStep ==
    ASSUME WebhookInv, NEW h \in Hook, SendTest(h)
    PROVE  WebhookInv'
<1>1. /\ Spend("tests") /\ hook[h].there /\ ~hook[h].review
      /\ rows' = [rows EXCEPT ![h] = Append(rows[h], Row(h, "test", title))]
      /\ UNCHANGED <<hook, title, closing, send, active, paused, known, dropped, owed>>
  BY DEF SendTest, history
<1>2. Typed /\ HookInv(h) /\ title \in Nat /\ title <= title
  BY DEF WebhookInv, Typed
<1>3. /\ budget' \in [Kinds -> Nat]
      /\ budget'["events"] + budget'["tests"] <= budget["events"] + budget["tests"]
      /\ budget'["events"] + budget'["tests"] + 1 <= budget["events"] + budget["tests"]
  <2>1. "events" \in Kinds /\ "tests" \in Kinds
    BY DEF Kinds
  <2>2. /\ budget' \in [Kinds -> Nat] /\ budget["tests"] > 0
        /\ budget'["tests"] = budget["tests"] - 1 /\ budget'["events"] = budget["events"]
    BY <1>1, <1>2, <2>1, SpendIs
  <2>3. budget["events"] \in Nat /\ budget["tests"] \in Nat
    BY <1>2, <2>1 DEF Typed
  <2> QED BY <2>2, <2>3
<1> DEFINE row == Row(h, "test", title)
<1>4. /\ row \in RowRecord /\ row.state = "pending" /\ row.attempts = 0
      /\ row.gen = hook[h].gen /\ row.kind = "test" /\ row.title = title
  BY <1>2, RowIs
<1> HIDE DEF row
<1>5. Queues(h, row)
  BY <1>1, <1>2 DEF Queues, Typed, row
<1>6. HookInv(h)' /\ rows'[h] \in Seq(RowRecord)
  <2>1. /\ hook'[h] = hook[h] /\ owed'[h] = owed[h] /\ send'[h] = send[h]
        /\ known'[h] = known[h] /\ closing' = closing /\ dropped' = dropped /\ title' = title
    BY <1>1
  <2>2. row.kind # "title"
    BY <1>4
  <2> QED BY <1>1, <1>2, <1>3, <1>4, <1>5, <2>1, <2>2, AppendedOther
<1>7. \A g \in Hook \ {h} : rows'[g] = rows[g]
  BY <1>1, <1>2 DEF Typed
<1>8. ASSUME NEW g \in Hook \ {h} PROVE HookInv(g)'
  BY <1>1, <1>3, <1>7, Frame DEF WebhookInv
<1>9. Typed'
  <2>1. rows' \in [Hook -> Seq(RowRecord)]
    <3>1. rows' = [g \in Hook |-> rows'[g]]
      BY <1>1, <1>2 DEF Typed
    <3>2. \A g \in Hook : rows'[g] \in Seq(RowRecord)
      BY <1>2, <1>6, <1>7 DEF Typed
    <3> QED BY <3>1, <3>2
  <2> QED BY <1>1, <1>2, <1>3, <2>1 DEF Typed
<1> QED BY <1>1, <1>6, <1>8, <1>9, SameSends DEF WebhookInv

----------------------------------------------------------------------------
(* The owner's changes. *)

\* What waited is given up; what was finished stays as it was.
GivenUp(h) == rows'[h] = GiveUpAll(h)

LEMMA GivenUpIs ==
    ASSUME Typed, NEW h \in Hook, GivenUp(h)
    PROVE  /\ rows'[h] \in Seq(RowRecord) /\ Len(rows'[h]) = Len(rows[h])
           /\ DOMAIN rows'[h] = DOMAIN rows[h]
           /\ \A i \in DOMAIN rows[h] :
                 /\ rows'[h][i].state # "pending"
                 /\ rows'[h][i].gen = rows[h][i].gen /\ rows'[h][i].title = rows[h][i].title
                 /\ rows[h][i].state # "pending" => rows'[h][i] = rows[h][i]
<1>1. rows[h] \in Seq(RowRecord) /\ DOMAIN rows[h] = 1 .. Len(rows[h]) /\ Len(rows[h]) \in Nat
  BY DEF Typed
<1>2. ASSUME NEW i \in DOMAIN rows[h]
      PROVE  /\ rows'[h][i] \in RowRecord /\ rows'[h][i].state # "pending"
             /\ rows'[h][i].gen = rows[h][i].gen /\ rows'[h][i].title = rows[h][i].title
             /\ rows[h][i].state # "pending" => rows'[h][i] = rows[h][i]
  <2>1. rows[h][i] \in RowRecord
    BY <1>1
  <2>2. CASE rows[h][i].state = "pending"
    <3>1. rows'[h][i] = [rows[h][i] EXCEPT !.state = "failed"]
      BY <2>2 DEF GivenUp, GiveUpAll, Pending
    <3> QED BY <2>1, <2>2, <3>1 DEF RowRecord
  <2>3. CASE rows[h][i].state # "pending"
    <3>1. rows'[h][i] = rows[h][i]
      BY <2>3 DEF GivenUp, GiveUpAll, Pending
    <3> QED BY <2>1, <2>3, <3>1
  <2> QED BY <2>2, <2>3
<1>3. rows'[h] \in [1 .. Len(rows[h]) -> RowRecord]
  <2>1. rows'[h] = [i \in DOMAIN rows[h] |-> rows'[h][i]]
    BY DEF GivenUp, GiveUpAll
  <2> QED BY <1>1, <1>2, <2>1
<1>4. rows'[h] \in Seq(RowRecord) /\ Len(rows'[h]) = Len(rows[h])
  BY ONLY <1>1, <1>3, FunctionIsSeq
<1>5. DOMAIN rows'[h] = DOMAIN rows[h]
  BY DEF GivenUp, GiveUpAll
<1> QED BY <1>2, <1>4, <1>5

\* The part of the invariant a change of the webhook makes true again: nothing of
\* an earlier generation counts, and a send under way is about to be cancelled.
LEMMA Supersedes ==
    ASSUME Typed, NEW h \in Hook, HookInv(h), GivenUp(h), HookOK(h)',
           hook[h].there, hook'[h].there, hook[h].gen \in Nat, hook'[h].gen = hook[h].gen + 1,
           h \notin closing, h \in closing',
           send'[h] = send[h], known'[h] = known[h], title' = title,
           budget' \in [Kinds -> Nat],
           budget'["events"] + budget'["tests"] <= budget["events"] + budget["tests"]
    PROVE  HookInv(h)' /\ rows'[h] \in Seq(RowRecord)
<1>1. /\ rows'[h] \in Seq(RowRecord) /\ Len(rows'[h]) = Len(rows[h])
      /\ DOMAIN rows'[h] = DOMAIN rows[h]
      /\ \A i \in DOMAIN rows[h] :
            /\ rows'[h][i].state # "pending"
            /\ rows'[h][i].gen = rows[h][i].gen /\ rows'[h][i].title = rows[h][i].title
  BY GivenUpIs
<1>2. Waiting(h)' = {}
  BY <1>1 DEF Waiting, Pending
<1>3. \A i \in DOMAIN rows[h] : rows'[h][i].gen # hook'[h].gen /\ rows'[h][i].gen <= hook'[h].gen
  <2> TAKE i \in DOMAIN rows[h]
  <2>1. rows[h][i] \in RowRecord /\ rows[h][i].gen <= hook[h].gen
    BY DEF HookInv, RowsOK, Typed
  <2>2. rows[h][i].gen \in Nat
    BY <2>1 DEF RowRecord
  <2> QED BY <1>1, <2>1, <2>2
<1>4. RowsOK(h)'
  <2>1. Len(rows'[h]) + budget'["events"] + budget'["tests"] <= MaxRows
    <3>1. Len(rows[h]) + budget["events"] + budget["tests"] <= MaxRows
      BY DEF HookInv, RowsOK
    <3>2. budget["events"] \in Nat /\ budget["tests"] \in Nat
          /\ budget'["events"] \in Nat /\ budget'["tests"] \in Nat /\ Len(rows[h]) \in Nat
      BY DEF Typed, Kinds
    <3>3. budget'["events"] + budget'["tests"] <= budget["events"] + budget["tests"]
      OBVIOUS
    <3>4. MaxRows \in Nat /\ Len(rows'[h]) = Len(rows[h])
      BY <1>1, WebhookAssumption
    <3>5. \A l, m, a, c, d, e \in Nat :
              l + a + c <= m /\ d + e <= a + c => l + d + e <= m
      OBVIOUS
    <3> QED BY ONLY <3>1, <3>2, <3>3, <3>4, <3>5
  <2>2. \A i \in DOMAIN rows'[h] : rows'[h][i].title <= title'
    BY <1>1 DEF HookInv, RowsOK
  <2> QED BY <1>1, <1>2, <1>3, <2>1, <2>2 DEF RowsOK
<1>5. ~MayBeSent(h)'
  BY <1>1 DEF MayBeSent, Eligible, Pending
<1>6. Current(h)' = Current(h) /\ (Sending(h)' <=> Sending(h))
  BY DEF Current, Sending
<1>7. send[h].live => Retired(h)'
  <2>1. send[h].live => MayBeSent(h)
    BY DEF HookInv, SendOK
  <2>2. MayBeSent(h) => send[h].gen = hook[h].gen
    BY DEF MayBeSent, Eligible
  <2> QED BY <2>1, <2>2 DEF Retired
<1>8. SendOK(h)'
  BY <1>1, <1>2, <1>6, <1>7 DEF HookInv, SendOK
<1>9. Titles(h)' = {}
  BY <1>1, <1>3 DEF Titles
<1>10. LagOK(h)'
  <2>1. \A i : ~LastTitle(h, i)'
    BY <1>9 DEF LastTitle
  <2> QED BY <1>1, <1>3, <2>1 DEF HookInv, LagOK
<1> QED BY <1>1, <1>4, <1>8, <1>10 DEF HookInv

\* A webhook that is gone has no deliveries, and nothing is sent for it.
LEMMA Gone ==
    ASSUME Typed, NEW h \in Hook, HookInv(h), HookOK(h)', rows'[h] = <<>>,
           ~hook'[h].there, hook'[h].gen = hook[h].gen, h \in closing',
           send'[h] = send[h], known'[h] = known[h], title' = title,
           budget' \in [Kinds -> Nat],
           budget'["events"] + budget'["tests"] <= budget["events"] + budget["tests"]
    PROVE  HookInv(h)' /\ rows'[h] \in Seq(RowRecord)
<1>1. rows'[h] \in Seq(RowRecord) /\ Len(rows'[h]) = 0 /\ DOMAIN rows'[h] = {}
  OBVIOUS
<1>2. Waiting(h)' = {}
  BY <1>1 DEF Waiting
<1>3. RowsOK(h)'
  <2>1. Len(rows'[h]) + budget'["events"] + budget'["tests"] <= MaxRows
    <3>1. Len(rows[h]) + budget["events"] + budget["tests"] <= MaxRows
      BY DEF HookInv, RowsOK
    <3>2. budget["events"] \in Nat /\ budget["tests"] \in Nat
          /\ budget'["events"] \in Nat /\ budget'["tests"] \in Nat /\ Len(rows[h]) \in Nat
      BY DEF Typed, Kinds
    <3>3. budget'["events"] + budget'["tests"] <= budget["events"] + budget["tests"]
      OBVIOUS
    <3>4. MaxRows \in Nat /\ Len(rows'[h]) = 0
      BY <1>1, WebhookAssumption
    <3>5. \A l, m, a, c, d, e \in Nat :
              l + a + c <= m /\ d + e <= a + c => 0 + d + e <= m
      OBVIOUS
    <3> QED BY ONLY <3>1, <3>2, <3>3, <3>4, <3>5
  <2> QED BY <1>1, <1>2, <2>1 DEF RowsOK
<1>4. Sending(h)' <=> Sending(h)
  BY DEF Sending
<1>5. Retired(h)'
  BY DEF Retired
<1>6. SendOK(h)'
  BY <1>1, <1>2, <1>4, <1>5 DEF HookInv, SendOK
<1>7. LagOK(h)'
  BY <1>1 DEF HookInv, LagOK
<1> QED BY <1>1, <1>3, <1>6, <1>7 DEF HookInv

LEMMA CreateStep ==
    ASSUME WebhookInv, NEW h \in Hook, Create(h)
    PROVE  WebhookInv'
<1>1. /\ hook[h].gen = 0 /\ closing = {} /\ Spend("creates")
      /\ UNCHANGED <<rows, title, closing, send, active, paused, known, dropped, owed>>
  BY DEF Create, GateFree, history
<1>2. PICK on \in BOOLEAN :
         hook' = [hook EXCEPT ![h] = [NoHook EXCEPT !.gen = 1, !.enabled = on, !.there = TRUE]]
  BY DEF Create
<1>3. Typed /\ HookInv(h)
  BY DEF WebhookInv
<1> DEFINE w == [NoHook EXCEPT !.gen = 1, !.enabled = on, !.there = TRUE]
<1>4. /\ w \in HookRecord /\ w.gen = 1 /\ w.there /\ ~w.review /\ ~w.reviewed /\ ~w.replaced
  BY DEF NoHook, HookRecord
<1> HIDE DEF w
<1>5. hook'[h] = w /\ \A g \in Hook \ {h} : hook'[g] = hook[g]
  BY <1>2, <1>3 DEF Typed, w
<1>6. /\ budget' \in [Kinds -> Nat]
      /\ budget'["events"] + budget'["tests"] <= budget["events"] + budget["tests"]
  BY <1>1, <1>3, SpendIs DEF Kinds
<1>7. ~hook[h].there /\ rows[h] = <<>> /\ send[h].batch = {} /\ owed[h] = {}
  BY <1>1, <1>3 DEF HookInv, HookOK, RowsOK, SendOK
<1>8. ~Sending(h) /\ ~send[h].live
  BY <1>3, <1>7 DEF HookInv, SendOK, Sending
<1>9. DOMAIN rows[h] = {} /\ Waiting(h)' = {}
  BY <1>1, <1>7 DEF Waiting
<1>10. HookOK(h)'
  BY <1>1, <1>4, <1>5, <1>7 DEF HookOK
<1>11. RowsOK(h)'
  <2>1. Len(rows[h]) + budget["events"] + budget["tests"] <= MaxRows
    BY <1>3 DEF HookInv, RowsOK
  <2>2. budget["events"] \in Nat /\ budget["tests"] \in Nat
        /\ budget'["events"] \in Nat /\ budget'["tests"] \in Nat /\ Len(rows[h]) \in Nat
    BY <1>3, <1>6 DEF Typed, Kinds
  <2>3. MaxRows \in Nat
    BY WebhookAssumption
  <2>4. \A l, m, a, c, d, e \in Nat :
            l + a + c <= m /\ d + e <= a + c => l + d + e <= m
    OBVIOUS
  <2>5. Len(rows[h]) + budget'["events"] + budget'["tests"] <= MaxRows
    BY ONLY <1>6, <2>1, <2>2, <2>3, <2>4
  <2> QED BY <1>1, <1>4, <1>5, <1>9, <2>5 DEF RowsOK
<1>12. SendOK(h)'
  BY <1>1, <1>3, <1>7, <1>8, <1>9 DEF HookInv, SendOK
<1>13. LagOK(h)'
  BY <1>1, <1>3, <1>9 DEF HookInv, LagOK
<1>14. ASSUME NEW g \in Hook \ {h} PROVE HookInv(g)'
  BY <1>1, <1>5, <1>6, Frame DEF WebhookInv
<1>15. Typed'
  <2>1. hook' \in [Hook -> HookRecord]
    BY <1>2, <1>3, <1>4 DEF Typed, w
  <2> QED BY <1>1, <1>3, <1>6, <2>1 DEF Typed
<1> QED BY <1>1, <1>10, <1>11, <1>12, <1>13, <1>14, <1>15, SameSends DEF WebhookInv, HookInv

\* A webhook's change, whatever it saves: what was approved stays approved only
\* of the same owner.
LEMMA UpdateStep ==
    ASSUME WebhookInv, NEW h \in Hook, NEW edit \in Edits, Update(h, edit)
    PROVE  WebhookInv'
<1> DEFINE reviewed == hook[h].reviewed \/ (hook[h].review /\ {"url", "events"} \subseteq edit)
           replaced == hook[h].replaced \/ (hook[h].review /\ "secret" \in edit)
           approved == "on" \in edit /\ reviewed /\ replaced
           enabled == "on" \in edit \/ (hook[h].enabled /\ "off" \notin edit)
           saved == (IF {"url", "events"} \subseteq edit THEN {"destination"} ELSE {})
                        \cup (IF "secret" \in edit THEN {"secret"} ELSE {})
           w == [gen |-> hook[h].gen + 1, enabled |-> enabled,
                 review |-> hook[h].review /\ ~approved,
                 reviewed |-> reviewed, replaced |-> replaced, there |-> TRUE]
<1>1. /\ closing = {} /\ hook[h].there /\ (hook[h].review /\ "on" \in edit => approved)
      /\ Spend("changes")
      /\ hook' = [hook EXCEPT ![h] = w]
      /\ rows' = [rows EXCEPT ![h] = GiveUpAll(h)]
      /\ closing' = {h}
      /\ owed' = [owed EXCEPT ![h] = owed[h] \ saved]
      /\ UNCHANGED <<title, send, active, paused, known, dropped>>
  <2>1. /\ closing = {} /\ hook[h].there /\ (hook[h].review /\ "on" \in edit => approved)
        /\ Spend("changes")
    BY DEF Update, GateFree
  <2>2. hook' = [hook EXCEPT ![h] = w]
    BY DEF Update
  <2>3. rows' = [rows EXCEPT ![h] = GiveUpAll(h)] /\ closing' = {h}
    BY DEF Update
  <2>4. owed' = [owed EXCEPT ![h] = owed[h] \ saved]
    BY DEF Update
  <2>5. UNCHANGED <<title, send, active, paused, known, dropped>>
    BY DEF Update
  <2> QED BY <2>1, <2>2, <2>3, <2>4, <2>5
<1>2. Typed /\ HookInv(h) /\ hook[h] \in HookRecord /\ hook[h].gen \in Nat
  BY DEF WebhookInv, Typed, HookRecord
<1>3. /\ w \in HookRecord /\ w.gen = hook[h].gen + 1 /\ w.review = (hook[h].review /\ ~approved)
      /\ w.reviewed = reviewed /\ w.replaced = replaced /\ w.enabled = enabled
      /\ w.there
  <2>1. /\ hook[h].gen + 1 \in Nat /\ (hook[h].review /\ ~approved) \in BOOLEAN
        /\ reviewed \in BOOLEAN /\ replaced \in BOOLEAN /\ enabled \in BOOLEAN
    BY <1>2 DEF HookRecord
  <2> HIDE DEF reviewed, replaced, approved, enabled
  <2> QED BY <1>2, <2>1 DEF HookRecord
<1> HIDE DEF w
<1>4. hook'[h] = w /\ \A g \in Hook \ {h} : hook'[g] = hook[g]
  BY <1>1, <1>2 DEF Typed
<1>5. GivenUp(h) /\ \A g \in Hook \ {h} : rows'[g] = rows[g]
  BY <1>1, <1>2 DEF Typed, GivenUp
<1>6. owed'[h] = owed[h] \ saved /\ \A g \in Hook \ {h} : owed'[g] = owed[g]
  BY <1>1, <1>2 DEF Typed
<1>7. /\ budget' \in [Kinds -> Nat]
      /\ budget'["events"] + budget'["tests"] <= budget["events"] + budget["tests"]
  BY <1>1, <1>2, SpendIs DEF Kinds
<1>8. HookOK(h)'
  <2>1. owed[h] \subseteq {"destination", "secret"} /\ HookOK(h)
    BY <1>2 DEF Typed, HookInv
  <2>2. w.there => w.gen > 0
    BY <1>2, <1>3
  <2>3. w.review => ~w.enabled
    BY <1>1, <1>3, <2>1 DEF HookOK
  <2>4. w.reviewed => "destination" \notin owed'[h]
    BY <1>3, <1>6, <2>1 DEF HookOK
  <2>5. w.replaced => "secret" \notin owed'[h]
    BY <1>3, <1>6, <2>1 DEF HookOK
  <2>6. ~w.review => owed'[h] = {}
    <3>1. CASE ~hook[h].review
      BY <1>1, <1>6, <2>1, <3>1 DEF HookOK
    <3>2. CASE approved
      <4>1. "destination" \notin owed'[h] /\ "secret" \notin owed'[h]
        BY <1>3, <2>4, <2>5, <3>2
      <4> QED BY <1>6, <2>1, <4>1
    <3> QED BY <1>3, <3>1, <3>2
  <2>7. w.gen # 0
    BY <1>2, <1>3
  <2> QED BY <1>4, <2>2, <2>3, <2>4, <2>5, <2>6, <2>7 DEF HookOK
<1> HIDE DEF reviewed, replaced, approved, enabled, saved
<1>9. HookInv(h)' /\ rows'[h] \in Seq(RowRecord)
  BY <1>1, <1>2, <1>3, <1>4, <1>5, <1>7, <1>8, Supersedes
<1>10. ASSUME NEW g \in Hook \ {h} PROVE HookInv(g)'
  BY <1>1, <1>4, <1>5, <1>6, <1>7, Frame DEF WebhookInv
<1>11. Typed'
  <2>1. hook' \in [Hook -> HookRecord]
    BY <1>1, <1>2, <1>3 DEF Typed
  <2>2. rows' \in [Hook -> Seq(RowRecord)]
    <3>1. rows' = [g \in Hook |-> rows'[g]]
      BY <1>1, <1>2 DEF Typed
    <3>2. \A g \in Hook : rows'[g] \in Seq(RowRecord)
      BY <1>2, <1>5, <1>9 DEF Typed
    <3> QED BY <3>1, <3>2
  <2>3. owed' \in [Hook -> SUBSET {"destination", "secret"}]
    BY <1>1, <1>2 DEF Typed
  <2> QED BY <1>1, <1>2, <1>7, <2>1, <2>2, <2>3 DEF Typed
<1> QED BY <1>1, <1>9, <1>10, <1>11, SameSends DEF WebhookInv

LEMMA DeleteStep ==
    ASSUME WebhookInv, NEW h \in Hook, Delete(h)
    PROVE  WebhookInv'
<1> DEFINE w == [hook[h] EXCEPT !.there = FALSE]
<1>1. /\ closing = {} /\ hook[h].there /\ Spend("changes")
      /\ hook' = [hook EXCEPT ![h] = w]
      /\ rows' = [rows EXCEPT ![h] = <<>>]
      /\ closing' = {h}
      /\ UNCHANGED <<title, send, active, paused, known, dropped, owed>>
  BY DEF Delete, GateFree, history
<1>2. Typed /\ HookInv(h) /\ hook[h] \in HookRecord
  BY DEF WebhookInv, Typed
<1>3. /\ w \in HookRecord /\ w.gen = hook[h].gen /\ w.review = hook[h].review
      /\ w.reviewed = hook[h].reviewed /\ w.replaced = hook[h].replaced
      /\ w.enabled = hook[h].enabled /\ ~w.there
  BY <1>2 DEF HookRecord
<1> HIDE DEF w
<1>4. hook'[h] = w /\ \A g \in Hook \ {h} : hook'[g] = hook[g]
  BY <1>1, <1>2 DEF Typed
<1>5. rows'[h] = <<>> /\ \A g \in Hook \ {h} : rows'[g] = rows[g]
  BY <1>1, <1>2 DEF Typed
<1>6. /\ budget' \in [Kinds -> Nat]
      /\ budget'["events"] + budget'["tests"] <= budget["events"] + budget["tests"]
  BY <1>1, <1>2, SpendIs DEF Kinds
<1>7. HookOK(h)'
  BY <1>1, <1>2, <1>3, <1>4 DEF HookInv, HookOK
<1>8. HookInv(h)' /\ rows'[h] \in Seq(RowRecord)
  BY <1>1, <1>2, <1>3, <1>4, <1>5, <1>6, <1>7, Gone
<1>9. ASSUME NEW g \in Hook \ {h} PROVE HookInv(g)'
  BY <1>1, <1>4, <1>5, <1>6, Frame DEF WebhookInv
<1>10. Typed'
  <2>1. hook' \in [Hook -> HookRecord]
    BY <1>1, <1>2, <1>3 DEF Typed
  <2>2. rows' \in [Hook -> Seq(RowRecord)]
    BY <1>1, <1>2, <1>5, <1>8 DEF Typed
  <2> QED BY <1>1, <1>2, <1>6, <2>1, <2>2 DEF Typed
<1> QED BY <1>1, <1>8, <1>9, <1>10, SameSends DEF WebhookInv

\* A transfer: every webhook there is owes its new owner's approval.
LEMMA RetireOwnerStep ==
    ASSUME WebhookInv, RetireOwner
    PROVE  WebhookInv'
<1>1. /\ closing = {} /\ Spend("transfers")
      /\ hook' = [h \in Hook |->
            IF hook[h].there
            THEN [hook[h] EXCEPT !.gen = @ + 1, !.enabled = FALSE, !.review = TRUE,
                                 !.reviewed = FALSE, !.replaced = FALSE]
            ELSE hook[h]]
      /\ rows' = [h \in Hook |-> GiveUpAll(h)]
      /\ closing' = Hook
      /\ owed' = [h \in Hook |-> IF hook[h].there THEN {"destination", "secret"} ELSE {}]
      /\ UNCHANGED <<title, send, active, paused, known, dropped>>
  BY DEF RetireOwner, GateFree
<1>2. Typed
  BY DEF WebhookInv
<1>3. /\ budget' \in [Kinds -> Nat]
      /\ budget'["events"] + budget'["tests"] <= budget["events"] + budget["tests"]
  BY <1>1, <1>2, SpendIs DEF Kinds
<1>4. ASSUME NEW h \in Hook
      PROVE  HookInv(h)' /\ rows'[h] \in Seq(RowRecord) /\ hook'[h] \in HookRecord
  <2>1. HookInv(h) /\ hook[h] \in HookRecord /\ hook[h].gen \in Nat
    BY <1>2 DEF WebhookInv, Typed, HookRecord
  <2>2. GivenUp(h)
    BY <1>1 DEF GivenUp
  <2>3. CASE hook[h].there
    <3> DEFINE n == hook[h].gen + 1
    <3>1. hook'[h] = [hook[h] EXCEPT !.gen = n, !.enabled = FALSE, !.review = TRUE,
                                     !.reviewed = FALSE, !.replaced = FALSE]
      BY <1>1, <2>3
    <3>n. n \in Nat
      BY <2>1
    <3> HIDE DEF n
    <3>2. /\ hook'[h] \in HookRecord /\ hook'[h].gen = n /\ hook'[h].there
          /\ ~hook'[h].enabled /\ hook'[h].review /\ ~hook'[h].reviewed /\ ~hook'[h].replaced
      BY <2>1, <2>3, <3>1, <3>n DEF HookRecord
    <3> USE DEF n
    <3>3. HookOK(h)'
      BY <2>1, <3>2 DEF HookOK
    <3> QED BY <1>1, <1>2, <1>3, <2>1, <2>2, <2>3, <3>2, <3>3, Supersedes
  <2>4. CASE ~hook[h].there
    <3>1. hook'[h] = hook[h] /\ owed'[h] = {}
      BY <1>1, <2>4
    <3>2. HookOK(h)'
      BY <2>1, <3>1 DEF HookInv, HookOK
    <3>3. rows'[h] = <<>>
      <4>1. rows[h] = <<>>
        BY <2>1, <2>4 DEF HookInv, RowsOK
      <4>2. rows'[h] \in Seq(RowRecord) /\ Len(rows'[h]) = 0
        BY <1>2, <2>2, <4>1, GivenUpIs
      <4> QED BY <4>2
    <3> QED BY <1>1, <1>2, <1>3, <2>1, <2>4, <3>1, <3>2, <3>3, Gone
  <2> QED BY <2>3, <2>4
<1>5. Typed'
  <2>1. hook' \in [Hook -> HookRecord]
    <3>1. hook' = [h \in Hook |-> hook'[h]]
      BY <1>1
    <3> QED BY <1>4, <3>1
  <2>2. rows' \in [Hook -> Seq(RowRecord)]
    <3>1. rows' = [h \in Hook |-> rows'[h]]
      BY <1>1
    <3> QED BY <1>4, <3>1
  <2>3. owed' \in [Hook -> SUBSET {"destination", "secret"}]
    BY <1>1
  <2> QED BY <1>1, <1>2, <1>3, <2>1, <2>2, <2>3 DEF Typed
<1> QED BY <1>1, <1>4, <1>5, SameSends DEF WebhookInv

----------------------------------------------------------------------------
(* The invariant, and what follows from it. *)

LEMMA InitInv == Init => WebhookInv
<1> SUFFICES ASSUME Init PROVE WebhookInv
  OBVIOUS
<1>1. NoHook \in HookRecord /\ ~NoHook.there /\ ~NoHook.review /\ ~NoHook.reviewed
      /\ ~NoHook.replaced /\ NoHook.gen = 0
  BY DEF NoHook, HookRecord
<1>2. budget \in [Kinds -> Nat] /\ budget["events"] + budget["tests"] <= MaxRows
  BY BudgetAssumption DEF Init
<1>3. Typed
  <2>1. hook \in [Hook -> HookRecord] /\ send \in [Hook -> SendRecord]
    BY <1>1, RestTyped DEF Init
  <2>2. rows \in [Hook -> Seq(RowRecord)]
    BY DEF Init
  <2>3. /\ title \in Nat /\ closing \in SUBSET Hook /\ active \in SUBSET (Hook \X Nat)
        /\ paused \in SUBSET Hook /\ known \in [Hook -> Nat] /\ dropped \in SUBSET Hook
        /\ owed \in [Hook -> SUBSET {"destination", "secret"}]
    BY DEF Init
  <2> QED BY <1>2, <2>1, <2>2, <2>3 DEF Typed
<1>4. ASSUME NEW h \in Hook PROVE HookInv(h)
  <2>1. /\ hook[h] = NoHook /\ rows[h] = <<>> /\ title = 0 /\ send[h] = Rest
        /\ known[h] = 0 /\ owed[h] = {}
    BY DEF Init
  <2>2. /\ send[h].at = "rest" /\ send[h].batch = {} /\ ~send[h].live
        /\ send[h].sees = 0 /\ send[h].code = "none"
    BY <2>1 DEF Rest, Part
  <2>3. DOMAIN rows[h] = {} /\ Len(rows[h]) = 0 /\ Waiting(h) = {} /\ ~Sending(h)
    BY <2>1, <2>2 DEF Waiting, Sending
  <2>4. HookOK(h)
    BY <1>1, <2>1 DEF HookOK
  <2>5. RowsOK(h)
    <3>1. budget["events"] \in Nat /\ budget["tests"] \in Nat
      BY <1>2 DEF Kinds
    <3>2. Len(rows[h]) + budget["events"] + budget["tests"] <= MaxRows
      BY <1>2, <2>3, <3>1
    <3> QED BY <2>1, <2>3, <3>2 DEF RowsOK
  <2>6. SendOK(h)
    BY <2>1, <2>2, <2>3 DEF SendOK
  <2>7. LagOK(h)
    BY <2>2, <2>3 DEF LagOK
  <2> QED BY <2>4, <2>5, <2>6, <2>7 DEF HookInv
<1>5. \A h \in Hook : send[h].at = "rest"
  BY DEF Init, Rest, Part
<1>6. ActiveOK
  <2>1. \A h \in Hook : ~Sending(h)
    BY <1>5 DEF Sending
  <2> QED BY <2>1 DEF ActiveOK, Init
<1> QED BY <1>3, <1>4, <1>5, <1>6 DEF WebhookInv, Phased

LEMMA NextInv == WebhookInv /\ [Next]_vars => WebhookInv'
<1> SUFFICES ASSUME WebhookInv, [Next]_vars PROVE WebhookInv'
  OBVIOUS
<1>1. ASSUME NEW kind \in {"title", "plain"}, Event(kind) PROVE WebhookInv'
  BY <1>1, EventStep
<1>2. CASE RetireOwner
  BY <1>2, RetireOwnerStep
<1>3. CASE CancelSends
  BY <1>3, CancelSendsStep
<1>4. CASE Select
  BY <1>4, SelectStep
<1>5. CASE SelectFails
  BY <1>5, SelectFailsStep
<1>6. CASE Crash
  BY <1>6, CrashStep
<1>7. ASSUME NEW h \in Hook, SendTest(h) PROVE WebhookInv'
  BY <1>7, SendTestStep
<1>8. ASSUME NEW h \in Hook, Create(h) PROVE WebhookInv'
  BY <1>8, CreateStep
<1>9. ASSUME NEW h \in Hook, Delete(h) PROVE WebhookInv'
  BY <1>9, DeleteStep
<1>10. ASSUME NEW h \in Hook, NEW edit \in Edits, Update(h, edit) PROVE WebhookInv'
  BY <1>10, UpdateStep
<1>11. ASSUME NEW h \in Hook, NEW i \in DOMAIN rows[h], Due(h, i) PROVE WebhookInv'
  BY <1>11, DueStep
<1>12. ASSUME NEW h \in Hook, ReadBatch(h) PROVE WebhookInv'
  BY <1>12, ReadBatchStep
<1>13. ASSUME NEW h \in Hook, Attempt(h) PROVE WebhookInv'
  BY <1>13, StartStep, AdmitStep, BuildStep, PostStep, AnswerStep, RecordStep DEF Attempt
<1>14. ASSUME NEW h \in Hook, AdmitFails(h) PROVE WebhookInv'
  BY <1>14, AdmitFailsStep
<1>15. ASSUME NEW h \in Hook, RecordFails(h) PROVE WebhookInv'
  BY <1>15, RecordFailsStep
<1>16. ASSUME NEW h \in Hook, PauseEnds(h) PROVE WebhookInv'
  BY <1>16, PauseEndsStep
<1>17. CASE UNCHANGED vars
  <2>1. UNCHANGED <<hook, rows, title, closing, send, active, paused, known, dropped, owed, budget>>
    BY <1>17 DEF vars, history
  <2>2. Typed'
    BY <2>1 DEF WebhookInv, Typed
  <2>3. \A h \in Hook : HookInv(h)'
    BY <2>1, BudgetKept, Frame DEF WebhookInv
  <2> QED BY <2>1, <2>2, <2>3, SameSends DEF WebhookInv
<1> QED BY <1>1, <1>2, <1>3, <1>4, <1>5, <1>6, <1>7, <1>8, <1>9, <1>10, <1>11, <1>12,
           <1>13, <1>14, <1>15, <1>16, <1>17 DEF Next

\* The invariant the theorems below rest on: webhooks.go, dispatch.go and
\* authority.go keep it through every interleaving of events, attempts, owner's
\* changes, transfers, failures and crashes.
THEOREM WebhookInvariant == Spec => []WebhookInv
<1>1. Init => WebhookInv
  BY InitInv
<1>2. WebhookInv /\ [Next]_vars => WebhookInv'
  BY NextInv
<1> QED BY <1>1, <1>2, PTL DEF Spec

\* authority.go:77-78 and webhooks.go:111-112: a request under way is for a delivery
\* the webhook stands for as it is now, and of an owner who approved it.
THEOREM AuthorityOfSends == Spec => []SendsHaveAuthority
<1>1. WebhookInv => SendsHaveAuthority
  <2> SUFFICES ASSUME WebhookInv, NEW h \in Hook, InFlight(h), h \notin closing
               PROVE  Eligible(h, Current(h)) /\ owed[h] = {}
    BY DEF SendsHaveAuthority, SendIsCurrent, FreshApproval
  <2>1. Eligible(h, Current(h))
    BY DEF WebhookInv, HookInv, SendOK, InFlight, MayBeSent
  <2> QED BY <2>1 DEF WebhookInv, HookInv, HookOK, Eligible
<1> QED BY <1>1, WebhookInvariant, PTL

\* Deliveries, admissions and webhooks agree, and no change of a webhook leaves a
\* delivery behind that no step would select (GiveUp in webhooks.go).
THEOREM QueueIsConsistent == Spec => []QueueConsistent
<1>1. WebhookInv => QueueConsistent
  <2> SUFFICES ASSUME WebhookInv PROVE QueueConsistent
    OBVIOUS
  <2>1. ASSUME NEW h \in Hook
        PROVE  /\ hook[h].gen \in Nat /\ (hook[h].there => hook[h].gen > 0)
               /\ hook[h].review => ~hook[h].enabled
               /\ Len(rows[h]) <= MaxRows
               /\ \A i \in DOMAIN rows[h] : rows[h][i].attempts \in 0 .. MaxAttempts
               /\ known[h] \in 0 .. title
    <3>1. Typed /\ HookInv(h)
      BY DEF WebhookInv
    <3>2. hook[h].gen \in Nat /\ title \in Nat /\ known[h] \in Nat /\ rows[h] \in Seq(RowRecord)
      BY <3>1 DEF Typed, HookRecord
    <3>3. ASSUME NEW i \in DOMAIN rows[h] PROVE rows[h][i].attempts \in 0 .. MaxAttempts
      <4>1. rows[h][i] \in RowRecord
        BY <3>2
      <4> QED BY <4>1 DEF RowRecord
    <3>4. Len(rows[h]) <= MaxRows
      <4>1. Len(rows[h]) + budget["events"] + budget["tests"] <= MaxRows
        BY <3>1 DEF HookInv, RowsOK
      <4>2. Len(rows[h]) \in Nat /\ budget["events"] \in Nat /\ budget["tests"] \in Nat
        BY <3>1 DEF Typed, Kinds
      <4> QED BY <4>1, <4>2, WebhookAssumption
    <3> QED BY <3>1, <3>2, <3>3, <3>4 DEF HookInv, HookOK, SendOK
  <2>2. TypeOK
    BY <2>1 DEF TypeOK, WebhookInv, Typed, ActiveOK
  <2>3. NoStrandedRow
    BY DEF NoStrandedRow, WebhookInv, HookInv, RowsOK
  <2> QED BY <2>2, <2>3 DEF QueueConsistent
<1> QED BY <1>1, WebhookInvariant, PTL

\* dispatch.go:36: nothing older waits behind a request of the same webhook.
THEOREM DeliveriesInOrder == Spec => []InOrder
<1>1. WebhookInv => InOrder
  <2> SUFFICES ASSUME WebhookInv, NEW h \in Hook, InFlight(h), NEW i \in Waiting(h)
               PROVE  Current(h) <= i
    BY DEF InOrder
  <2>1. HookInv(h) /\ Typed
    BY DEF WebhookInv
  <2>2. send[h].batch # {}
    BY <2>1 DEF HookInv, SendOK, InFlight
  <2>3. /\ Current(h) \in send[h].batch /\ Current(h) \in Nat
        /\ \A k \in send[h].batch : Current(h) <= k
    BY <2>1, <2>2, CurrentIs
  <2>4. i \in Nat
    BY <2>1 DEF Typed, Waiting
  <2>5. i < Current(h) => i \in send[h].batch
    BY <2>1, <2>3 DEF HookInv, SendOK
  <2> QED BY <2>3, <2>4, <2>5
<1> QED BY <1>1, WebhookInvariant, PTL

\* A receiver whose last delivery about the title arrived and is not excused knows
\* the title as it is now (present in payload.go, and the fold in the schema).
THEOREM LagIsExcused == Spec => []LagHasCause
<1>1. WebhookInv => LagHasCause
  <2> SUFFICES ASSUME WebhookInv, NEW h \in Hook, Titles(h) # {},
                      rows[h][Max(Titles(h))].state = "delivered",
                      ~rows[h][Max(Titles(h))].late, ~rows[h][Max(Titles(h))].blind,
                      h \notin dropped
               PROVE  known[h] = title
    BY DEF LagHasCause
  <2>1. HookInv(h) /\ Typed
    BY DEF WebhookInv
  <2>2. Len(rows[h]) \in Nat /\ DOMAIN rows[h] = 1 .. Len(rows[h])
    BY <2>1 DEF Typed
  <2>3. Titles(h) \in SUBSET (0 .. Len(rows[h]))
    BY <2>2 DEF Titles
  <2>4. Max(Titles(h)) \in Titles(h) /\ \A k \in Titles(h) : k <= Max(Titles(h))
    BY <2>2, <2>3, MaxIs
  <2>5. LastTitle(h, Max(Titles(h))) /\ Max(Titles(h)) \in DOMAIN rows[h]
    BY <2>4 DEF LastTitle, Titles
  <2> QED BY <2>1, <2>5 DEF HookInv, LagOK, Clear
<1> QED BY <1>1, WebhookInvariant, PTL

\* A late answer never settles a delivery that was given up: no step changes the
\* state or the attempts of one that is finished (currentDeliveryTx).
THEOREM FinishedStays == Spec => FinishedIsFinal
<1> DEFINE Stays == \A h \in Hook : \A i \in DOMAIN rows[h] \cap DOMAIN rows'[h] :
                        rows[h][i].state # "pending" =>
                           /\ rows'[h][i].state = rows[h][i].state
                           /\ rows'[h][i].attempts = rows[h][i].attempts
<1>1. ASSUME WebhookInv, [Next]_vars PROVE Stays
  <2> SUFFICES ASSUME NEW h \in Hook, NEW i \in DOMAIN rows[h], i \in DOMAIN rows'[h],
                      rows[h][i].state # "pending"
               PROVE  /\ rows'[h][i].state = rows[h][i].state
                      /\ rows'[h][i].attempts = rows[h][i].attempts
    OBVIOUS
  <2>1. Typed /\ rows \in [Hook -> Seq(RowRecord)] /\ rows[h] \in Seq(RowRecord)
        /\ rows[h][i] \in RowRecord /\ DOMAIN rows[h] = 1 .. Len(rows[h]) /\ Len(rows[h]) \in Nat
    BY <1>1 DEF WebhookInv, Typed
  <2>2. CASE rows'[h] = rows[h]
    BY <2>2
  <2>3. CASE \E kind \in {"title", "plain"} : Event(kind)
    <3>1. PICK kind \in {"title", "plain"} : Event(kind)
      BY <2>3
    <3>2. PICK row :
             \/ rows'[h] = Append(rows[h], row)
             \/ rows'[h] = [k \in DOMAIN rows[h] |->
                   [rows[h][k] EXCEPT !.late = @ \/ (Folds(h, k, kind) /\ Built(h, k))]]
             \/ rows'[h] = rows[h]
      BY <3>1 DEF Event
    <3>3. CASE rows'[h] = Append(rows[h], row)
      BY <2>1, <3>3
    <3>4. CASE rows'[h] = [k \in DOMAIN rows[h] |->
                   [rows[h][k] EXCEPT !.late = @ \/ (Folds(h, k, kind) /\ Built(h, k))]]
      BY <2>1, <3>4 DEF RowRecord
    <3> QED BY <2>2, <3>2, <3>3, <3>4
  <2>4. CASE \E g \in Hook : SendTest(g)
    BY <2>1, <2>4 DEF SendTest
  <2>5. CASE \E g \in Hook : \E k \in DOMAIN rows[g] : Due(g, k)
    <3>1. PICK g \in Hook : \E k \in DOMAIN rows[g] : Due(g, k)
      BY <2>5
    <3>2. PICK k \in DOMAIN rows[g] : Due(g, k)
      BY <3>1
    <3>3. rows[g][k].state = "pending" /\ rows' = [rows EXCEPT ![g][k].due = TRUE]
      BY <3>2 DEF Due, Pending
    <3> QED BY <2>1, <3>3 DEF RowRecord
  <2>6. CASE rows'[h] = GiveUpAll(h)
    <3>1. rows'[h][i] = rows[h][i]
      BY <1>1, <2>1, <2>6, GivenUpIs DEF GivenUp
    <3> QED BY <3>1
  <2>7. CASE \E g \in Hook : Build(g)
    <3>1. PICK g \in Hook : Build(g)
      BY <2>7
    <3>2. SameButMarks(g) /\ \A k \in Hook \ {g} : rows'[k] = rows[k]
      BY <1>1, <3>1, BuildIs
    <3> QED BY <2>2, <3>2 DEF SameButMarks
  <2>8. CASE \E g \in Hook : Record(g) /\ MayBeSent(g)
    <3>1. PICK g \in Hook : Record(g) /\ MayBeSent(g)
      BY <2>8
    <3>2. rows' = [rows EXCEPT ![g][Current(g)] = Attempted(@, send[g].code)]
      BY <3>1 DEF Record, Recorded, StillAdmitted, MayBeSent, Eligible
    <3>3. rows[g][Current(g)].state = "pending"
      BY <3>1 DEF MayBeSent, Eligible, Pending
    <3> QED BY <2>1, <3>2, <3>3
  <2>9. rows'[h] = <<>> => FALSE
    OBVIOUS
  <2>10. \A g \in Hook, edit \in Edits : Update(g, edit) => rows'[h] = rows[h] \/ rows'[h] = GiveUpAll(h)
    BY <2>1 DEF Update
  <2>11. RetireOwner => rows'[h] = GiveUpAll(h)
    BY DEF RetireOwner
  <2>12. \A g \in Hook : Delete(g) => rows'[h] = rows[h] \/ rows'[h] = <<>>
    BY <2>1 DEF Delete
  <2>13. \A g \in Hook : Record(g) => MayBeSent(g) \/ rows'[h] = rows[h]
    BY DEF Record, StillAdmitted
  <2>14. \/ CancelSends \/ Select \/ SelectFails \/ Crash \/ UNCHANGED vars
         \/ \E g \in Hook : \/ Create(g) \/ ReadBatch(g) \/ Start(g) \/ Admit(g) \/ Post(g)
                            \/ Answer(g) \/ AdmitFails(g) \/ RecordFails(g) \/ PauseEnds(g)
         => rows'[h] = rows[h]
    BY DEF CancelSends, Select, SelectFails, Crash, vars, Create, ReadBatch, Start, Admit,
           Post, Answer, AdmitFails, RecordFails, PauseEnds
  <2> QED BY <1>1, <2>2, <2>3, <2>4, <2>5, <2>6, <2>7, <2>8, <2>9, <2>10, <2>11, <2>12,
             <2>13, <2>14 DEF Next, Attempt
<1>2. WebhookInv /\ [Next]_vars => [Stays]_vars
  BY <1>1
<1> QED BY <1>2, WebhookInvariant, PTL DEF Spec, FinishedIsFinal

=============================================================================
