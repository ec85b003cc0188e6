------------------------- MODULE UserMutationsProofs -------------------------
(***************************************************************************)
(* MutationReceipts for any keys, families and times and any client: a     *)
(* change takes effect at most once.  UserMutations for any tabs, keys and *)
(* budgets: the coordinators are one of those clients, what they tell the  *)
(* person is true, a confirmed entry stays confirmed, and the changes of a *)
(* target take effect in the order they were admitted.                     *)
(***************************************************************************)
EXTENDS UserMutations, TLAPS

Receipts == [family : Family \cup {NoFamily}, status : {"none", "applied", "conflict"}]

ReceiptType ==
    /\ receipts \in [Key -> Receipts]
    /\ globalCut \in Nat /\ accountCut \in Nat /\ horizon \in Nat
    /\ revoked \subseteq Family /\ erased \in BOOLEAN
    /\ applied \in Seq(Key \X Family)

\* A key that took effect is one a request cannot be new with: it has its receipt
\* or a durable cutoff rejects it, or nobody can send it any more.
Spent(k) == Has(k) \/ Issued[k] < DurableCut \/ erased

Remembered ==
    /\ \A i \in DOMAIN applied : Spent(applied[i][1])
    /\ erased => revoked = Family

ReceiptInv == ReceiptType /\ Remembered /\ AppliedOnce

\* What a step of the server does to a key: it never makes a spent one new,
SpentStays == \A k \in Key : Spent(k) => Spent(k)'

\* and it drops receipts and applies nothing,
Drops ==
    /\ applied' = applied /\ refusals \subseteq refusals'
    /\ \A k \in Key : receipts'[k] = receipts[k] \/ receipts'[k] = NoReceipt

\* or it gives a new key its first receipt.
Adds(f, k, status) ==
    /\ ~Spent(k)
    /\ receipts' = [receipts EXCEPT ![k] = [family |-> f, status |-> status]]
    /\ applied' = IF status = "applied" THEN Append(applied, <<k, f>>) ELSE applied
    /\ refusals' = IF status = "conflict" THEN refusals \cup {<<k, f>>} ELSE refusals

Moves == \/ Drops
         \/ \E f \in Family, k \in Key, status \in {"applied", "conflict"} : Adds(f, k, status)

Good == ReceiptInv' /\ SpentStays /\ Moves

LEMMA MaxFact ==
    ASSUME NEW a \in Nat, NEW b \in Nat
    PROVE  MaxOf(a, b) \in Nat /\ MaxOf(a, b) >= a /\ MaxOf(a, b) >= b
           /\ (MaxOf(a, b) = a \/ MaxOf(a, b) = b)
BY DEF MaxOf

\* The cutoffs are numbers, and a request is measured against the durable ones.
LEMMA CutFact ==
    ASSUME ReceiptType
    PROVE  /\ DurableCut \in Nat /\ Cutoff \in Nat /\ Advanced \in Nat
           /\ DurableCut <= Cutoff /\ DurableCut >= globalCut /\ DurableCut >= accountCut
           /\ Advanced >= globalCut
<1>1. globalCut \in Nat /\ accountCut \in Nat /\ horizon \in Nat
  BY DEF ReceiptType
<1>2. DurableCut \in Nat /\ DurableCut >= globalCut /\ DurableCut >= accountCut
  BY <1>1, MaxFact DEF DurableCut
<1>3. Cutoff \in Nat /\ DurableCut <= Cutoff
  BY <1>1, <1>2, MaxFact DEF Cutoff, DurableCut
<1>4. Advanced \in Nat /\ Advanced >= globalCut
  BY <1>1, MaxFact DEF Advanced
<1> QED
  BY <1>2, <1>3, <1>4

\* Durable cutoffs that move forward reject whatever they rejected.
LEMMA CutsGrow ==
    ASSUME ReceiptType, globalCut' \in Nat, accountCut' \in Nat,
           globalCut' >= globalCut, accountCut' >= accountCut
    PROVE  /\ DurableCut' \in Nat /\ DurableCut' >= DurableCut
           /\ DurableCut' >= globalCut' /\ DurableCut' >= accountCut'
BY DEF ReceiptType, DurableCut, MaxOf

\* A step that applies nothing and drops only receipts that are spent otherwise.
LEMMA CleanupStep ==
    ASSUME ReceiptInv, UNCHANGED <<applied, erased, revoked>>, refusals \subseteq refusals',
           globalCut' \in Nat, accountCut' \in Nat, horizon' \in Nat,
           globalCut' >= globalCut, accountCut' >= accountCut,
           NEW d \in SUBSET Key, Delete(d),
           erased \/ \A k \in d : Issued[k] < globalCut' \/ Issued[k] < accountCut'
                                  \/ Issued[k] < DurableCut
    PROVE  Good
<1>1. receipts' \in [Key -> Receipts]
  BY DEF Delete, NoReceipt, Receipts, ReceiptInv, ReceiptType
<1>2. ReceiptType'
  BY <1>1 DEF ReceiptInv, ReceiptType
<1>3. AppliedOnce'
  BY DEF ReceiptInv, AppliedOnce
<1>4. ASSUME NEW k \in Key, Spent(k) PROVE Spent(k)'
  <2>1. Issued[k] \in Nat
    BY ReceiptAssumption
  <2>2. /\ DurableCut' \in Nat /\ DurableCut \in Nat /\ DurableCut' >= DurableCut
        /\ DurableCut' >= globalCut' /\ DurableCut' >= accountCut'
    BY CutsGrow, CutFact DEF ReceiptInv
  <2>3. CASE k \in d
    BY <1>4, <2>1, <2>2, <2>3 DEF Spent
  <2>4. CASE k \notin d
    <3>1. receipts'[k] = receipts[k]
      BY <2>4 DEF Delete
    <3> QED
      BY <1>4, <2>1, <2>2, <3>1 DEF Spent, Has
  <2> QED
    BY <2>3, <2>4
<1>5. ASSUME NEW i \in DOMAIN applied PROVE Spent(applied[i][1])'
  <2>1. PICK k \in Key : k = applied[i][1]
    BY DEF ReceiptInv, ReceiptType
  <2>2. Spent(k)'
    BY <1>4, <2>1 DEF ReceiptInv, Remembered
  <2> QED
    BY <2>1, <2>2 DEF Spent, Has
<1>6. Drops
  BY DEF Drops, Delete
<1> QED
  BY <1>2, <1>3, <1>4, <1>5, <1>6 DEF Good, Moves, SpentStays, ReceiptInv, Remembered

LEMMA ReceiptInit == ServerInit => ReceiptInv
<1> SUFFICES ASSUME ServerInit PROVE ReceiptInv
  OBVIOUS
<1>1. applied \in Seq(Key \X Family) /\ DOMAIN applied = {}
  BY DEF ServerInit
<1>2. receipts \in [Key -> Receipts]
  BY DEF ServerInit, Receipts, NoReceipt
<1>3. ReceiptType
  BY <1>1, <1>2 DEF ServerInit, ReceiptType
<1> QED
  BY <1>1, <1>3 DEF ServerInit, ReceiptInv, Remembered, AppliedOnce

LEMMA ReceiptStep == ReceiptInv /\ [ServerNext]_serverVars => Good
<1> SUFFICES ASSUME ReceiptInv, [ServerNext]_serverVars PROVE Good
  OBVIOUS
<1>0. /\ DurableCut \in Nat /\ Cutoff \in Nat /\ Advanced \in Nat
      /\ DurableCut <= Cutoff /\ Advanced >= globalCut
      /\ globalCut \in Nat /\ accountCut \in Nat /\ horizon \in Nat
  BY CutFact DEF ReceiptInv, ReceiptType
<1>1. ASSUME UNCHANGED <<receipts, applied, erased, revoked>>, refusals \subseteq refusals',
             globalCut' \in Nat, accountCut' \in Nat, horizon' \in Nat,
             globalCut' >= globalCut, accountCut' >= accountCut
      PROVE  Good
  <2>1. Delete({})
    BY <1>1 DEF Delete, ReceiptInv, ReceiptType
  <2> QED
    BY <1>1, <2>1, CleanupStep
<1>2. ASSUME NEW f \in Family, NEW k \in Key, NEW answer \in Answers, Execute(f, k, answer)
      PROVE  Good
  <2>0. UNCHANGED <<accountCut, horizon, revoked, erased>>
    BY <1>2 DEF Execute
  <2>1. CASE Replay(f, k, answer)
    <3>1. /\ UNCHANGED <<receipts, applied>> /\ refusals \subseteq refusals'
          /\ globalCut' = globalCut \/ globalCut' = Advanced
      BY <2>1 DEF Replay
    <3> QED
      BY <1>0, <1>1, <2>0, <3>1
  <2>2. CASE FirstTime(f, k, answer) /\ UNCHANGED <<receipts, applied, globalCut>>
    <3>1. refusals \subseteq refusals'
      BY <2>2 DEF FirstTime
    <3> QED
      BY <1>0, <1>1, <2>0, <2>2, <3>1
  <2>3. ASSUME FirstTime(f, k, answer), NEW status \in {"applied", "conflict"},
               receipts' = [receipts EXCEPT ![k] = [family |-> f, status |-> status]],
               applied' = IF status = "applied" THEN Append(applied, <<k, f>>) ELSE applied,
               refusals' = IF status = "conflict" THEN refusals \cup {<<k, f>>} ELSE refusals,
               globalCut' = Advanced
        PROVE  Good
    <3>1. ReceiptType'
      <4>1. applied' \in Seq(Key \X Family)
        BY <2>3 DEF ReceiptInv, ReceiptType
      <4>2. receipts' \in [Key -> Receipts]
        BY <2>3 DEF ReceiptInv, ReceiptType, Receipts
      <4> QED
        BY <1>0, <2>0, <2>3, <4>1, <4>2 DEF ReceiptInv, ReceiptType
    <3>2. ~Spent(k)
      <4>1. f \notin revoked /\ ~Expired(k) /\ ~Has(k)
        BY <2>3 DEF FirstTime
      <4>2. ~erased
        BY <4>1 DEF ReceiptInv, Remembered
      <4> QED
        BY <1>0, <4>1, <4>2, ReceiptAssumption DEF Spent, Expired
    <3>3. \A i \in DOMAIN applied : applied[i][1] # k
      BY <3>2 DEF ReceiptInv, Remembered
    <3>4. Has(k)'
      BY <2>3, ReceiptAssumption DEF Has, NoReceipt, ReceiptInv, ReceiptType
    <3>5. DurableCut' \in Nat /\ DurableCut' >= DurableCut
      BY <1>0, <2>0, <2>3, CutsGrow DEF ReceiptInv
    <3>6. ASSUME NEW j \in Key, Spent(j) PROVE Spent(j)'
      <4>1. j # k
        BY <3>2, <3>6
      <4>2. Issued[j] \in Nat /\ receipts'[j] = receipts[j]
        BY <2>3, <4>1, ReceiptAssumption DEF ReceiptInv, ReceiptType
      <4> QED
        BY <1>0, <2>0, <3>5, <3>6, <4>2 DEF Spent, Has
    <3>7. ASSUME NEW i \in DOMAIN applied, applied'[i] = applied[i] PROVE Spent(applied[i][1])'
      <4>1. PICK j \in Key : j = applied[i][1]
        BY DEF ReceiptInv, ReceiptType
      <4>2. Spent(j)'
        BY <3>6, <4>1 DEF ReceiptInv, Remembered
      <4> QED
        BY <3>7, <4>1, <4>2 DEF Spent, Has
    <3>8. ReceiptInv'
      <4>1. CASE UNCHANGED applied
        BY <2>0, <3>1, <3>7, <4>1 DEF ReceiptInv, Remembered, AppliedOnce
      <4>2. CASE applied' = Append(applied, <<k, f>>)
        <5>1. /\ DOMAIN applied' = DOMAIN applied \cup {Len(applied) + 1}
              /\ \A i \in DOMAIN applied : applied'[i] = applied[i]
              /\ applied'[Len(applied) + 1] = <<k, f>> /\ Len(applied) + 1 \notin DOMAIN applied
          BY <4>2 DEF ReceiptInv, ReceiptType
        <5>2. ASSUME NEW i \in DOMAIN applied' PROVE Spent(applied[i][1])'
          <6>1. CASE i \in DOMAIN applied
            BY <3>7, <5>1, <6>1
          <6>2. CASE i = Len(applied) + 1
            BY <3>4, <5>1, <6>2 DEF Spent, Has
          <6> QED
            BY <5>1, <6>1, <6>2
        <5>3. AppliedOnce'
          BY <3>3, <5>1 DEF ReceiptInv, AppliedOnce
        <5> QED
          BY <2>0, <3>1, <5>2, <5>3 DEF ReceiptInv, Remembered
      <4> QED
        BY <2>3, <4>1, <4>2
    <3>9. Adds(f, k, status)
      BY <2>3, <3>2 DEF Adds
    <3> QED
      BY <3>6, <3>8, <3>9 DEF Good, SpentStays, Moves
  <2> QED
    BY <1>2, <2>1, <2>2, <2>3 DEF Execute, FirstTime
<1>3. CASE Prune
  <2>1. PICK d \in Oldest(Prunable) : Delete(d)
    BY <1>3 DEF Prune
  <2>2. globalCut' = Advanced /\ UNCHANGED <<accountCut, horizon, revoked, erased, applied, refusals>>
    BY <1>3 DEF Prune
  <2>3. d \in SUBSET Key /\ d \subseteq Prunable
    BY DEF Oldest, Prunable
  <2>4. erased \/ \A k \in d : Issued[k] < globalCut' \/ Issued[k] < accountCut'
    BY <2>2, <2>3 DEF Prunable
  <2> QED
    BY <1>0, <2>1, <2>2, <2>3, <2>4, CleanupStep
<1>4. ASSUME NEW cut \in 0..MaxTime, RetireAccount(cut) PROVE Good
  <2>1. PICK d \in Oldest({k \in Key : Has(k) /\ Issued[k] < accountCut'}) : Delete(d)
    BY <1>4 DEF RetireAccount
  <2>2. accountCut' = MaxOf(accountCut, cut)
        /\ UNCHANGED <<globalCut, horizon, revoked, erased, applied, refusals>>
    BY <1>4 DEF RetireAccount
  <2>3. accountCut' \in Nat /\ accountCut' >= accountCut
    BY <1>0, <2>2, MaxFact, ReceiptAssumption
  <2>4. d \in SUBSET Key /\ \A k \in d : Issued[k] < accountCut'
    BY DEF Oldest
  <2> QED
    BY <1>0, <2>1, <2>2, <2>3, <2>4, CleanupStep
<1>5. ASSUME NEW f \in Family, RetireFamily(f) PROVE Good
  <2>1. PICK d \in Oldest({k \in Key : Has(k) /\ Bound(f, k) /\ Issued[k] < DurableCut}) : Delete(d)
    BY <1>5 DEF RetireFamily
  <2>2. UNCHANGED <<globalCut, accountCut, horizon, revoked, erased, applied, refusals>>
    BY <1>5 DEF RetireFamily
  <2>3. d \in SUBSET Key /\ \A k \in d : Issued[k] < DurableCut
    BY DEF Oldest
  <2> QED
    BY <1>0, <2>1, <2>2, <2>3, CleanupStep
<1>6. ASSUME NEW cut \in 0..MaxTime, SetClock(cut) PROVE Good
  BY <1>0, <1>1, <1>6, ReceiptAssumption DEF SetClock
<1>7. ASSUME revoked \subseteq revoked', revoked' \subseteq Family, erased' \in BOOLEAN,
             erased => erased', erased' => revoked' = Family,
             UNCHANGED <<receipts, globalCut, accountCut, horizon, applied, refusals>>
      PROVE  Good
  <2>1. ReceiptType' /\ AppliedOnce'
    BY <1>7 DEF ReceiptInv, ReceiptType, AppliedOnce
  <2>2. DurableCut' = DurableCut
    BY <1>7 DEF DurableCut
  <2>3. ASSUME NEW k \in Key, Spent(k) PROVE Spent(k)'
    BY <1>7, <2>2, <2>3 DEF Spent, Has
  <2>4. ASSUME NEW i \in DOMAIN applied PROVE Spent(applied[i][1])'
    <3>1. PICK k \in Key : k = applied[i][1] /\ Spent(k)
      BY DEF ReceiptInv, ReceiptType, Remembered
    <3> QED
      BY <1>7, <2>2, <3>1 DEF Spent, Has
  <2>5. Drops
    BY <1>7 DEF Drops
  <2> QED
    BY <1>7, <2>1, <2>3, <2>4, <2>5 DEF Good, SpentStays, Moves, ReceiptInv, Remembered
<1>8. ASSUME NEW f \in Family, RevokeFamily(f) PROVE Good
  BY <1>7, <1>8 DEF RevokeFamily, ReceiptInv, ReceiptType, Remembered
<1>9. CASE EraseAccount
  BY <1>7, <1>9 DEF EraseAccount, ReceiptInv, ReceiptType
<1>10. CASE UNCHANGED serverVars
  BY <1>0, <1>1, <1>10 DEF serverVars
<1> QED
  BY <1>2, <1>3, <1>4, <1>5, <1>6, <1>8, <1>9, <1>10 DEF ServerNext, Maintain

\* A change takes effect at most once, whatever clients send, in whichever order
\* receipts are pruned, accounts and families retired, and the clock set back.
THEOREM EffectAtMostOnce == ServerSpec => []AppliedOnce
<1>1. ReceiptInv => AppliedOnce
  BY DEF ReceiptInv
<1>2. ReceiptInv /\ [ServerNext]_serverVars => ReceiptInv'
  BY ReceiptStep DEF Good
<1> QED
  BY <1>1, <1>2, ReceiptInit, PTL DEF ServerSpec

----------------------------------------------------------------------------
(* What a client may rely on. *)

\* The effect of a key under a family, and under any.
Took(k, f) == \E i \in DOMAIN applied : applied[i] = <<k, f>>
TookKey(k) == \E f \in Family : Took(k, f)

\* A receipt tells what became of its key.
ReceiptTrue(k) ==
    Has(k) =>
        /\ receipts[k].family \in Family
        /\ receipts[k].status \in {"applied", "conflict"}
        /\ receipts[k].status = "applied" => Took(k, receipts[k].family)
        /\ receipts[k].status = "conflict" =>
              <<k, receipts[k].family>> \in refusals /\ ~TookKey(k)

ServerInv == ReceiptInv /\ \A k \in Key : ReceiptTrue(k)

\* What a client was told once stays true: effects and refusals are not undone,
\* and a spent key without an effect never has one.
Keeps ==
    /\ refusals \subseteq refusals'
    /\ SpentStays
    /\ \A k \in Key, f \in Family : Took(k, f) => Took(k, f)'
    /\ \A k \in Key : Spent(k) /\ ~TookKey(k) => ~TookKey(k)'

LEMMA TookIsSpent ==
    ASSUME ReceiptInv, NEW k \in Key, TookKey(k)
    PROVE  Spent(k)
<1>1. PICK f \in Family, i \in DOMAIN applied : applied[i] = <<k, f>>
  BY DEF TookKey, Took
<1> QED
  BY <1>1 DEF ReceiptInv, Remembered

LEMMA HasIsSpent == \A k \in Key : Has(k) => Spent(k)
BY DEF Spent

\* Keys one step of the server gives their effect.
LEMMA NewEffect ==
    ASSUME ReceiptInv, NEW f \in Family, NEW k \in Key, NEW status \in {"applied", "conflict"},
           Adds(f, k, status)
    PROVE  /\ \A j \in Key, g \in Family : Took(j, g) => Took(j, g)'
           /\ \A j \in Key, g \in Family : Took(j, g)' =>
                 Took(j, g) \/ (j = k /\ g = f /\ status = "applied")
           /\ status = "applied" => Took(k, f)'
<1>1. CASE status = "conflict"
  BY <1>1 DEF Adds, Took
<1>2. CASE status = "applied"
  <2>1. applied' = Append(applied, <<k, f>>) /\ applied \in Seq(Key \X Family)
    BY <1>2 DEF Adds, ReceiptInv, ReceiptType
  <2>2. /\ DOMAIN applied' = DOMAIN applied \cup {Len(applied) + 1}
        /\ \A i \in DOMAIN applied : applied'[i] = applied[i]
        /\ applied'[Len(applied) + 1] = <<k, f>>
    BY <2>1
  <2>3. ASSUME NEW j \in Key, NEW g \in Family, Took(j, g) PROVE Took(j, g)'
    <3>1. PICK i \in DOMAIN applied : applied[i] = <<j, g>>
      BY <2>3 DEF Took
    <3>2. i \in DOMAIN applied' /\ applied'[i] = <<j, g>>
      BY <2>2, <3>1
    <3> QED
      BY <3>2 DEF Took
  <2>4. ASSUME NEW j \in Key, NEW g \in Family, Took(j, g)'
        PROVE  Took(j, g) \/ (j = k /\ g = f)
    <3>1. PICK i \in DOMAIN applied' : applied'[i] = <<j, g>>
      BY <2>4 DEF Took
    <3>2. CASE i \in DOMAIN applied
      BY <2>2, <3>1, <3>2 DEF Took
    <3>3. CASE i = Len(applied) + 1
      BY <2>2, <3>1, <3>3
    <3> QED
      BY <2>2, <3>1, <3>2, <3>3
  <2>5. Took(k, f)'
    <3>1. Len(applied) + 1 \in DOMAIN applied'
      BY <2>2
    <3> QED
      BY <2>2, <3>1 DEF Took
  <2> QED
    BY <1>2, <2>3, <2>4, <2>5
<1> QED
  BY <1>1, <1>2

LEMMA ServerStep ==
    ASSUME ServerInv, [ServerNext]_serverVars
    PROVE  ServerInv' /\ Keeps
<1>1. ReceiptInv' /\ SpentStays /\ Moves
  BY ReceiptStep DEF ServerInv, Good
<1>2. CASE Drops
  <2>1. /\ \A k \in Key, f \in Family : Took(k, f)' <=> Took(k, f)
        /\ \A k \in Key : TookKey(k)' <=> TookKey(k)
    BY <1>2 DEF Drops, Took, TookKey
  <2>2. ASSUME NEW k \in Key PROVE ReceiptTrue(k)'
    <3>1. CASE receipts'[k] = NoReceipt
      BY <3>1 DEF ReceiptTrue, Has
    <3>2. CASE receipts'[k] = receipts[k]
      <4>1. ReceiptTrue(k) /\ refusals \subseteq refusals'
        BY <1>2 DEF ServerInv, Drops
      <4>2. ASSUME Has(k)' PROVE Has(k)
        BY <3>2, <4>2 DEF Has
      <4>3. ASSUME NEW f \in Family PROVE Took(k, f)' <=> Took(k, f)
        BY <2>1
      <4> QED
        BY <2>1, <3>2, <4>1, <4>2, <1>2 DEF ReceiptTrue, Took, Drops
    <3> QED
      BY <1>2, <3>1, <3>2 DEF Drops
  <2> QED
    BY <1>1, <1>2, <2>1, <2>2 DEF ServerInv, Keeps, Drops
<1>3. ASSUME NEW f \in Family, NEW k \in Key, NEW status \in {"applied", "conflict"},
             Adds(f, k, status)
      PROVE  ServerInv' /\ Keeps
  <2>0. ReceiptInv
    BY DEF ServerInv
  <2>1. /\ \A j \in Key, g \in Family : Took(j, g) => Took(j, g)'
        /\ \A j \in Key, g \in Family : Took(j, g)' =>
              Took(j, g) \/ (j = k /\ g = f /\ status = "applied")
        /\ status = "applied" => Took(k, f)'
    BY <1>3, <2>0, NewEffect
  <2>2. ~Spent(k) /\ refusals \subseteq refusals'
    BY <1>3 DEF Adds
  <2>3. ~TookKey(k)
    BY <2>0, <2>2, TookIsSpent
  <2>4. ASSUME NEW j \in Key, j # k \/ status = "conflict", ~TookKey(j) PROVE ~TookKey(j)'
    BY <2>1, <2>4 DEF TookKey
  <2>5. ASSUME NEW j \in Key PROVE ReceiptTrue(j)'
    <3>0. receipts \in [Key -> Receipts]
      BY <2>0 DEF ReceiptInv, ReceiptType
    <3>1. CASE j = k
      <4>1. receipts'[k].family = f /\ receipts'[k].status = status
        BY <1>3, <3>0 DEF Adds
      <4>2. status = "conflict" => <<k, f>> \in refusals' /\ ~TookKey(k)'
        BY <1>3, <2>3, <2>4 DEF Adds
      <4>3. status = "applied" => Took(k, receipts[k].family)'
        BY <2>1, <4>1 DEF Took
      <4> QED
        BY <3>1, <4>1, <4>2, <4>3 DEF ReceiptTrue
    <3>2. CASE j # k
      <4>1. receipts'[j] = receipts[j]
        BY <1>3, <3>0, <3>2 DEF Adds
      <4>2. ReceiptTrue(j) /\ (Has(j)' => Has(j))
        BY <4>1 DEF ServerInv, Has
      <4>3. ASSUME Has(j)' PROVE receipts'[j].status = "applied" => Took(j, receipts[j].family)'
        <5>1. PICK g \in Family : g = receipts[j].family
          BY <4>2, <4>3 DEF ReceiptTrue
        <5>2. receipts[j].status = "applied" => Took(j, g)'
          BY <2>1, <4>2, <4>3, <5>1 DEF ReceiptTrue
        <5> QED
          BY <4>1, <5>1, <5>2 DEF Took
      <4>4. ~TookKey(j) => ~TookKey(j)'
        BY <2>4, <3>2
      <4> QED
        BY <2>2, <4>1, <4>2, <4>3, <4>4 DEF ReceiptTrue
    <3> QED
      BY <3>1, <3>2
  <2>6. ASSUME NEW j \in Key, Spent(j), ~TookKey(j) PROVE ~TookKey(j)'
    BY <2>2, <2>4, <2>6
  <2> QED
    BY <1>1, <2>1, <2>2, <2>5, <2>6 DEF ServerInv, Keeps
<1> QED
  BY <1>1, <1>2, <1>3 DEF Moves

\* A step that leaves the server alone.
LEMMA ServerRests ==
    ASSUME ServerInv, UNCHANGED serverVars
    PROVE  ServerInv' /\ Keeps
BY ServerStep

LEMMA ServerStart == ServerInit => ServerInv
<1> SUFFICES ASSUME ServerInit PROVE ServerInv
  OBVIOUS
<1>1. ASSUME NEW k \in Key PROVE ~Has(k)
  BY DEF ServerInit, Has
<1> QED
  BY <1>1, ReceiptInit DEF ServerInv, ReceiptTrue

----------------------------------------------------------------------------
(* The coordinators. *)

Works == [stage : Stages, family : Family \cup {NoFamily},
          answer : Answers \cup {"none"}, heard : BOOLEAN, saw : Entries]

ClientType ==
    /\ queue \in Seq(Key)
    /\ entry \in [Key -> Entries]
    /\ scope \in [Tab -> Family \cup {NoFamily}]
    /\ late \in [Tab -> SUBSET (Family \cup {NoFamily})]
    /\ work \in [Tab -> [Key -> Works]]
    /\ frozen \subseteq Tab
    /\ wire \subseteq [tab : Tab, key : Key, family : Family]

\* A key has one place in the store, or none.
Queued(k) == \E i \in DOMAIN queue : queue[i] = k

OnePlace ==
    /\ \A i, j \in DOMAIN queue : queue[i] = queue[j] => i = j
    /\ \A k \in Key : entry[k].state = "none" <=> ~Queued(k)

\* What an entry says of its key is what the server did.
EntryTrue(k, e) ==
    /\ e.state # "none" => e.scope \in Family
    /\ e.state = "confirmed" => Took(k, e.scope)
    /\ e.proof \in {"conflict", "refused"} => e.scope \in Family /\ <<k, e.scope>> \in refusals
    /\ e.state = "review" => k \in givenUp

EntriesTrue == \A k \in Key, e \in Entries : entry[k] = e => EntryTrue(k, e)

\* The answer a tab holds fits the question it asked, and is still true.
AnswerTrue(k, w) ==
    /\ w.stage # "idle" => w.family \in Family
    /\ w.stage \in {"idle", "post"} => w.answer = "none"
    /\ w.stage \in {"look", "check", "again"} =>
          w.answer \in {"none", "denied", "gone", "hidden", "applied", "conflict", "unknown"}
    /\ w.stage = "sent" =>
          w.answer \in {"none", "accepted", "denied", "gone", "clash", "invalid"}
    /\ w.answer = "applied" => Took(k, w.family)
    /\ w.answer \in {"conflict", "clash", "invalid"} => <<k, w.family>> \in refusals
    /\ w.answer = "conflict" => Spent(k) /\ ~TookKey(k)
    /\ w.stage = "again" => w.saw.scope = w.family /\ w.saw.state \in {"review", "confirmed"}

AnswersTrue == \A t \in Tab, k \in Key, w \in Works : work[t][k] = w => AnswerTrue(k, w)

\* A tab that holds an entry works on it under the sign-in that made it.
HeldTrue ==
    \A t \in Tab, k \in Key :
        Mine(t, k) /\ Running(t, k) => entry[k].scope = work[t][k].family

\* A draft that was let go took effect, or was given up and refused.
LetGoTrue ==
    \A k \in released :
        \/ TookKey(k)
        \/ k \in givenUp /\ \E f \in Family : <<k, f>> \in refusals

\* A change that the server may still apply has no pending change of its target
\* ahead of it.
Out(k) == (\E m \in wire : m.key = k) \/ (\E t \in Tab : Running(t, k))
Open(k) == Out(k) /\ k \notin givenUp /\ ~TookKey(k)

NoneAhead(k) ==
    Open(k) =>
        \E i \in DOMAIN queue :
            /\ queue[i] = k
            /\ \A j \in DOMAIN queue : j < i /\ Target[queue[j]] = Target[k] => ~Pending(queue[j])

NoneOvertakes == \A k \in Key : NoneAhead(k)

ClientInv ==
    /\ ClientType /\ OnePlace /\ EntriesTrue /\ AnswersTrue /\ HeldTrue
    /\ LetGoTrue /\ released \subseteq Key /\ NoneOvertakes

LEMMA EntryStays ==
    ASSUME Keeps, givenUp \subseteq givenUp',
           NEW k \in Key, NEW e \in Entries, EntryTrue(k, e)
    PROVE  EntryTrue(k, e)'
<1>1. e.state = "confirmed" => Took(k, e.scope)'
  BY DEF EntryTrue, Keeps
<1> QED
  BY <1>1 DEF EntryTrue, Keeps

LEMMA AnswerStays ==
    ASSUME Keeps, NEW k \in Key, NEW w \in Works, AnswerTrue(k, w)
    PROVE  AnswerTrue(k, w)'
<1>1. w.answer = "applied" => Took(k, w.family)'
  BY DEF AnswerTrue, Keeps
<1>2. w.answer = "conflict" => Spent(k)' /\ ~TookKey(k)'
  BY DEF AnswerTrue, Keeps, SpentStays
<1> QED
  BY <1>1, <1>2 DEF AnswerTrue, Keeps

LEMMA TookStays ==
    ASSUME Keeps, NEW k \in Key, TookKey(k)
    PROVE  TookKey(k)'
BY DEF Keeps, TookKey

LEMMA EntriesKept ==
    ASSUME ClientType, EntriesTrue, Keeps, givenUp \subseteq givenUp',
           \A k \in Key, e \in Entries : entry'[k] = e /\ e # entry[k] => EntryTrue(k, e)'
    PROVE  EntriesTrue'
<1>1. ASSUME NEW k \in Key, NEW e \in Entries, entry'[k] = e, e = entry[k]
      PROVE  EntryTrue(k, e)'
  BY <1>1, EntryStays DEF EntriesTrue
<1> QED
  BY <1>1 DEF EntriesTrue

LEMMA AnswersKept ==
    ASSUME ClientType, AnswersTrue, Keeps,
           \A t \in Tab, k \in Key, w \in Works :
              work'[t][k] = w /\ w # work[t][k] => AnswerTrue(k, w)'
    PROVE  AnswersTrue'
<1>1. ASSUME NEW t \in Tab, NEW k \in Key, NEW w \in Works, work'[t][k] = w, w = work[t][k]
      PROVE  AnswerTrue(k, w)'
  BY <1>1, AnswerStays DEF AnswersTrue
<1> QED
  BY <1>1 DEF AnswersTrue

LEMMA LetGoKept ==
    ASSUME LetGoTrue, released' = released, released \subseteq Key, Keeps,
           givenUp \subseteq givenUp'
    PROVE  LetGoTrue'
<1>1. ASSUME NEW k \in released, TookKey(k) PROVE TookKey(k)'
  BY <1>1, TookStays
<1> QED
  BY <1>1 DEF LetGoTrue, Keeps

LEMMA AheadKept ==
    ASSUME ClientType, NoneOvertakes, Keeps, givenUp \subseteq givenUp', queue' = queue,
           \A k \in Key : Pending(k)' => Pending(k),
           NEW k \in Key, Out(k)' => Out(k)
    PROVE  NoneAhead(k)'
<1>1. SUFFICES ASSUME Open(k)' PROVE NoneAhead(k)'
  BY DEF NoneAhead
<1>2. Open(k)
  BY <1>1, TookStays DEF Open
<1>3. PICK i \in DOMAIN queue :
        /\ queue[i] = k
        /\ \A j \in DOMAIN queue : j < i /\ Target[queue[j]] = Target[k] => ~Pending(queue[j])
  BY <1>2 DEF NoneOvertakes, NoneAhead
<1>4. ASSUME NEW j \in DOMAIN queue, j < i, Target[queue[j]] = Target[k]
      PROVE  ~Pending(queue[j])'
  <2>1. PICK x \in Key : x = queue[j]
    BY DEF ClientType
  <2>2. ~Pending(x)'
    BY <1>3, <1>4, <2>1
  <2> QED
    BY <2>1, <2>2 DEF Pending
<1>5. \A j \in DOMAIN queue' : j < i /\ Target[queue'[j]] = Target[k] => ~Pending(queue[j])'
  BY <1>4
<1> QED
  BY <1>3, <1>5 DEF NoneAhead

\* A step that keeps the queue and starts no work.
LEMMA Settle ==
    ASSUME ClientInv, ClientType', Keeps, UNCHANGED <<queue, released>>,
           givenUp \subseteq givenUp',
           \A k \in Key, e \in Entries : entry'[k] = e /\ e # entry[k] => EntryTrue(k, e)',
           \A t \in Tab, k \in Key, w \in Works :
              work'[t][k] = w /\ w # work[t][k] => AnswerTrue(k, w)',
           \A k \in Key : entry'[k].state = "none" <=> entry[k].state = "none",
           \A k \in Key : Pending(k)' => Pending(k),
           \A k \in Key : Out(k)' => Out(k),
           \A t \in Tab, k \in Key : Mine(t, k)' /\ Running(t, k)' =>
              /\ Mine(t, k) /\ Running(t, k)
              /\ entry'[k].scope = entry[k].scope /\ work'[t][k].family = work[t][k].family
    PROVE  ClientInv'
<1>1. EntriesTrue'
  BY EntriesKept DEF ClientInv
<1>2. AnswersTrue'
  BY AnswersKept DEF ClientInv
<1>3. HeldTrue'
  BY DEF ClientInv, HeldTrue
<1>4. LetGoTrue'
  BY LetGoKept DEF ClientInv
<1>5. NoneOvertakes'
  BY AheadKept DEF ClientInv, NoneOvertakes
<1>6. OnePlace'
  BY DEF ClientInv, OnePlace, Queued
<1> QED
  BY <1>1, <1>2, <1>3, <1>4, <1>5, <1>6 DEF ClientInv

LEMMA InHand ==
    ASSUME ClientInv, NEW t \in Tab, NEW k \in Key
    PROVE  work[t][k] \in Works /\ AnswerTrue(k, work[t][k])
<1>1. PICK w \in Works : w = work[t][k]
  BY DEF ClientInv, ClientType
<1>2. AnswerTrue(k, w)
  BY <1>1 DEF ClientInv, AnswersTrue
<1> QED
  BY <1>1, <1>2

LEMMA InStore ==
    ASSUME ClientInv, NEW k \in Key
    PROVE  entry[k] \in Entries /\ EntryTrue(k, entry[k])
<1>1. PICK e \in Entries : e = entry[k]
  BY DEF ClientInv, ClientType
<1>2. EntryTrue(k, e)
  BY <1>1 DEF ClientInv, EntriesTrue
<1> QED
  BY <1>1, <1>2

\* One piece of work moves on, and its request may go out.
LEMMA WorkMoves ==
    ASSUME ClientInv, Keeps, UNCHANGED <<queue, entry, scope, late, frozen, released, givenUp>>,
           NEW t \in Tab, NEW k \in Key, NEW w \in Works,
           work' = [work EXCEPT ![t][k] = w], AnswerTrue(k, w)',
           w.stage \notin {"idle", "again"} => Running(t, k) /\ w.family = work[t][k].family,
           \/ wire' = wire
           \/ Running(t, k) /\ w.family \in Family
              /\ wire' = wire \cup {[tab |-> t, key |-> k, family |-> w.family]}
    PROVE  ClientInv'
<1>0. work \in [Tab -> [Key -> Works]]
  BY DEF ClientInv, ClientType
<1>1. /\ work' \in [Tab -> [Key -> Works]]
      /\ work'[t][k] = w
      /\ \A s \in Tab, j \in Key : s # t \/ j # k => work'[s][j] = work[s][j]
  BY <1>0
<1>2. ClientType'
  BY <1>1 DEF ClientInv, ClientType
<1>3. \A s \in Tab, j \in Key : Running(s, j)' =>
         Running(s, j) /\ work'[s][j].family = work[s][j].family
  BY <1>1 DEF Running
<1>4. \A j \in Key : Out(j)' => Out(j)
  <2>1. CASE wire' = wire
    BY <1>3, <2>1 DEF Out
  <2>2. CASE Running(t, k) /\ wire' = wire \cup {[tab |-> t, key |-> k, family |-> w.family]}
    BY <1>3, <2>2 DEF Out
  <2> QED
    BY <2>1, <2>2
<1>5. \A s \in Tab, j \in Key : Mine(s, j)' => Mine(s, j)
  BY DEF Mine, Pending
<1>6. \A s \in Tab, j \in Key, v \in Works : work'[s][j] = v /\ v # work[s][j] => AnswerTrue(j, v)'
  BY <1>1
<1>7. \A j \in Key : Pending(j)' => Pending(j)
  BY DEF Pending
<1> QED
  BY <1>2, <1>3, <1>4, <1>5, <1>6, <1>7, Settle

\* One entry changes and one piece of work may end.
LEMMA EntryMoves ==
    ASSUME ClientInv, Keeps, UNCHANGED <<queue, scope, late, frozen, wire, released>>,
           givenUp \subseteq givenUp',
           NEW k \in Key, NEW e \in Entries,
           entry' = [entry EXCEPT ![k] = e], EntryTrue(k, e)',
           e.state # "none", entry[k].state # "none",
           e.scope = entry[k].scope, e.owner \in {NoTab, entry[k].owner},
           e.state = "pending" => Pending(k),
           work' = work \/ \E t \in Tab : work' = [work EXCEPT ![t][k] = Idle]
    PROVE  ClientInv'
<1>0. work \in [Tab -> [Key -> Works]] /\ entry \in [Key -> Entries]
  BY DEF ClientInv, ClientType
<1>1. entry' \in [Key -> Entries] /\ entry'[k] = e /\ \A j \in Key : j # k => entry'[j] = entry[j]
  BY <1>0
<1>2. Idle \in Works
  BY ClientAssumption DEF Idle, Works, Stages, NoEntry, Entries, States, Proofs
<1>3. /\ work' \in [Tab -> [Key -> Works]]
      /\ \A s \in Tab, j \in Key : work'[s][j] = work[s][j] \/ work'[s][j] = Idle
  BY <1>0, <1>2
<1>4. ClientType'
  BY <1>1, <1>3 DEF ClientInv, ClientType
<1>5. \A j \in Key : AnswerTrue(j, Idle)'
  BY DEF AnswerTrue, Idle
<1>6. \A s \in Tab, j \in Key, v \in Works : work'[s][j] = v /\ v # work[s][j] => AnswerTrue(j, v)'
  BY <1>3, <1>5
<1>7. \A s \in Tab, j \in Key : Running(s, j)' =>
         Running(s, j) /\ work'[s][j].family = work[s][j].family
  BY <1>3 DEF Running, Idle
<1>8. \A j \in Key : Out(j)' => Out(j)
  BY <1>7 DEF Out
<1>9. \A j \in Key : Pending(j)' => Pending(j)
  BY <1>1 DEF Pending
<1>10. \A s \in Tab, j \in Key : Mine(s, j)' => Mine(s, j) /\ entry'[j].scope = entry[j].scope
  <2>1. ASSUME NEW s \in Tab, Mine(s, k)' PROVE Mine(s, k)
    BY <1>1, <1>9, <2>1, ClientAssumption DEF Mine
  <2>2. ASSUME NEW s \in Tab, NEW j \in Key, j # k, Mine(s, j)' PROVE Mine(s, j)
    BY <1>1, <2>2 DEF Mine, Pending
  <2> QED
    BY <1>1, <2>1, <2>2
<1>11. \A j \in Key, v \in Entries : entry'[j] = v /\ v # entry[j] => EntryTrue(j, v)'
  BY <1>1
<1>12. \A j \in Key : entry'[j].state = "none" <=> entry[j].state = "none"
  BY <1>1
<1> QED
  BY <1>4, <1>6, <1>7, <1>8, <1>9, <1>10, <1>11, <1>12, Settle

LEMMA IdleFact == Idle \in Works /\ NoEntry \in Entries
BY ClientAssumption DEF Idle, Works, Stages, NoEntry, Entries, States, Proofs

LEMMA IdleTrue == \A k \in Key : AnswerTrue(k, Idle) /\ AnswerTrue(k, Idle)'
BY DEF AnswerTrue, Idle

\* Work ends, and leaves what its family was told.
LEMMA EndStep ==
    ASSUME ClientInv, ServerInv, NEW t \in Tab, NEW k \in Key, Running(t, k),
           NEW state \in States \ {"none"}, NEW proof \in Proofs,
           End(t, k, state, proof),
           state = "confirmed" => Took(k, work[t][k].family),
           proof \in {"conflict", "refused"} => <<k, work[t][k].family>> \in refusals
    PROVE  ClientInv'
<1>0. /\ UNCHANGED <<serverVars, queue, scope, late, frozen, wire, released>>
      /\ Keeps /\ givenUp \subseteq givenUp'
      /\ work' = [work EXCEPT ![t][k] = Idle]
  BY ServerRests DEF End, signIn
<1>1. CASE Mine(t, k)
  <2>1. PICK x \in Entries : x = entry[k]
    BY InStore
  <2>2. PICK e \in Entries : e = Unlease([x EXCEPT !.state = state, !.proof = proof])
    BY <2>1, ClientAssumption DEF Unlease, Entries
  <2>3. /\ e.state = state /\ e.proof = proof /\ e.scope = entry[k].scope /\ e.owner = NoTab
    BY <2>1, <2>2 DEF Unlease, Entries
  <2>4. entry' = [entry EXCEPT ![k] = e]
    BY <1>1, <2>1, <2>2 DEF End, Update
  <2>5. /\ entry[k].scope = work[t][k].family /\ entry[k].scope \in Family
        /\ Pending(k) /\ entry[k].state # "none"
    <3>1. Pending(k) /\ entry[k].state # "none"
      BY <1>1 DEF Mine, Pending
    <3>2. entry[k].scope \in Family
      BY <3>1, InStore DEF EntryTrue
    <3> QED
      BY <1>1, <3>1, <3>2 DEF ClientInv, HeldTrue
  <2>6. state = "review" => k \in givenUp'
    BY <1>1 DEF End
  <2>7. EntryTrue(k, e)'
    <3>1. PICK f \in Family : f = e.scope
      BY <2>3, <2>5
    <3>2. state = "confirmed" => Took(k, f)'
      BY <1>0, <2>3, <2>5, <3>1 DEF Keeps
    <3>3. proof \in {"conflict", "refused"} => <<k, f>> \in refusals'
      BY <1>0, <2>3, <2>5, <3>1 DEF Keeps
    <3> QED
      BY <2>3, <2>6, <3>1, <3>2, <3>3 DEF EntryTrue
  <2> QED
    BY <1>0, <2>3, <2>4, <2>5, <2>7, EntryMoves
<1>2. CASE ~Mine(t, k)
  <2>1. entry' = entry /\ givenUp' = givenUp
    BY <1>2 DEF End, Update
  <2>2. Idle.stage = "idle"
    BY DEF Idle
  <2> QED
    BY <1>0, <2>1, <2>2, IdleFact, IdleTrue, WorkMoves
<1> QED
  BY <1>1, <1>2

LEMMA CompleteStep ==
    ASSUME ClientInv, ServerInv, NEW t \in Tab, NEW k \in Key, Running(t, k),
           NEW status \in {"applied", "conflict"}, work[t][k].answer = status,
           Complete(t, k, status)
    PROVE  ClientInv'
<1>0. AnswerTrue(k, work[t][k])
  BY InHand
<1>1. CASE status = "applied"
  <2>1. End(t, k, "confirmed", "applied")
    BY <1>1 DEF Complete
  <2> QED
    BY <1>0, <1>1, <2>1, EndStep DEF AnswerTrue, States, Proofs
<1>2. CASE status = "conflict"
  <2>1. End(t, k, "review", "conflict")
    BY <1>2 DEF Complete
  <2> QED
    BY <1>0, <1>2, <2>1, EndStep DEF AnswerTrue, States, Proofs
<1> QED
  BY <1>1, <1>2

LEMMA RefuseStep ==
    ASSUME ClientInv, ServerInv, NEW t \in Tab, NEW k \in Key, Running(t, k),
           NEW answer \in {"denied", "gone", "hidden", "clash", "invalid"},
           work[t][k].answer = answer, Refuse(t, k, answer)
    PROVE  ClientInv'
<1>0. AnswerTrue(k, work[t][k])
  BY InHand
<1>1. CASE answer = "denied"
  <2>1. End(t, k, "quarantined", "none")
    BY <1>1 DEF Refuse
  <2> QED
    BY <2>1, EndStep DEF States, Proofs
<1>2. CASE answer \in {"gone", "hidden"}
  <2>1. End(t, k, "review", "none")
    BY <1>2 DEF Refuse
  <2> QED
    BY <2>1, EndStep DEF States, Proofs
<1>3. CASE answer = "clash"
  <2>1. End(t, k, "review", "conflict")
    BY <1>3 DEF Refuse
  <2> QED
    BY <1>0, <1>3, <2>1, EndStep DEF AnswerTrue, States, Proofs
<1>4. CASE answer = "invalid"
  <2>1. End(t, k, "review", "refused")
    BY <1>4 DEF Refuse
  <2> QED
    BY <1>0, <1>4, <2>1, EndStep DEF AnswerTrue, States, Proofs
<1> QED
  BY <1>1, <1>2, <1>3, <1>4

LEMMA RetryStep ==
    ASSUME ClientInv, ServerInv, NEW t \in Tab, NEW k \in Key, Running(t, k), Retry(t, k)
    PROVE  ClientInv'
BY EndStep DEF Retry, States, Proofs

\* What the server answers a lookup with is what it did.
LEMMA LookupTrue ==
    ASSUME ServerInv, NEW f \in Family, NEW k \in Key
    PROVE  /\ LookupAnswer(f, k) \in {"denied", "gone", "applied", "conflict", "unknown"}
           /\ LookupAnswer(f, k) = "applied" => Took(k, f)
           /\ LookupAnswer(f, k) = "conflict" => <<k, f>> \in refusals /\ Spent(k) /\ ~TookKey(k)
<1>1. CASE f \in revoked
  BY <1>1 DEF LookupAnswer, Finds
<1>2. CASE f \notin revoked /\ Expired(k)
  BY <1>2 DEF LookupAnswer, Finds
<1>3. CASE Finds(f, k)
  <2>1. LookupAnswer(f, k) = receipts[k].status /\ receipts[k].family = f
    BY <1>3 DEF LookupAnswer, Finds, Bound
  <2>2. ReceiptTrue(k) /\ Spent(k)
    BY <1>3, HasIsSpent DEF ServerInv, Finds
  <2> QED
    BY <1>3, <2>1, <2>2 DEF ReceiptTrue, Finds
<1>4. CASE f \notin revoked /\ ~Expired(k) /\ ~Finds(f, k)
  BY <1>4 DEF LookupAnswer
<1> QED
  BY <1>1, <1>2, <1>3, <1>4

\* Work that moves on without a change of the store.
LEMMA StepMoves ==
    ASSUME ClientInv, ServerInv, NEW t \in Tab, NEW k \in Key, NEW w \in Works,
           Step(t, k, w), AnswerTrue(k, w),
           w.stage \notin {"idle", "again"} => Running(t, k) /\ w.family = work[t][k].family
    PROVE  ClientInv'
<1>1. /\ Keeps /\ work' = [work EXCEPT ![t][k] = w]
      /\ UNCHANGED <<queue, entry, scope, late, frozen, released, givenUp, wire>>
  BY ServerRests DEF Step, signIn
<1>2. AnswerTrue(k, w)'
  BY <1>1, AnswerStays
<1> QED
  BY <1>1, <1>2, WorkMoves

LEMMA LookStep ==
    ASSUME ClientInv, ServerInv, NEW t \in Tab, NEW k \in Key, Look(t, k)
    PROVE  ClientInv'
<1>1. PICK v \in Works : v = work[t][k] /\ AnswerTrue(k, v)
  BY InHand
<1>2. v.stage \in {"look", "check", "again"} /\ v.family \in Family
  BY <1>1 DEF Look, AnswerTrue
<1>3. PICK a : a = LookupAnswer(v.family, k)
  OBVIOUS
<1>4. /\ a \in {"denied", "gone", "applied", "conflict", "unknown"}
      /\ a = "applied" => Took(k, v.family)
      /\ a = "conflict" => <<k, v.family>> \in refusals /\ Spent(k) /\ ~TookKey(k)
  BY <1>2, <1>3, LookupTrue
<1>5. PICK w \in Works : w = [v EXCEPT !.answer = a]
  BY <1>4 DEF Works, Answers
<1>6. w.stage = v.stage /\ w.family = v.family /\ w.answer = a /\ w.saw = v.saw
  BY <1>5 DEF Works
<1>7. AnswerTrue(k, w)
  BY <1>1, <1>2, <1>4, <1>6 DEF AnswerTrue
<1>8. Step(t, k, w)
  BY <1>1, <1>3, <1>5 DEF Look
<1>9. w.stage \notin {"idle", "again"} => Running(t, k) /\ w.family = work[t][k].family
  BY <1>1, <1>6 DEF Running
<1> QED
  BY <1>7, <1>8, <1>9, StepMoves

LEMMA LookBarredStep ==
    ASSUME ClientInv, ServerInv, NEW t \in Tab, NEW k \in Key, LookBarred(t, k)
    PROVE  ClientInv'
<1>1. PICK v \in Works : v = work[t][k] /\ AnswerTrue(k, v)
  BY InHand
<1>2. v.stage \in {"look", "check", "again"} /\ v.family \in Family
  BY <1>1 DEF LookBarred, AnswerTrue
<1>3. PICK a \in {"hidden", "denied"} :
        work' = [work EXCEPT ![t][k] = [work[t][k] EXCEPT !.answer = a]]
  BY DEF LookBarred
<1>4. PICK w \in Works : w = [v EXCEPT !.answer = a]
  BY <1>3 DEF Works, Answers
<1>5. w.stage = v.stage /\ w.family = v.family /\ w.answer = a /\ w.saw = v.saw
  BY <1>4 DEF Works
<1>6. AnswerTrue(k, w)
  BY <1>1, <1>2, <1>3, <1>5 DEF AnswerTrue
<1>7. Keeps /\ UNCHANGED <<queue, entry, scope, late, frozen, released, givenUp, wire>>
  BY ServerRests DEF LookBarred, signIn
<1>8. AnswerTrue(k, w)'
  BY <1>6, <1>7, AnswerStays
<1>9. work' = [work EXCEPT ![t][k] = w]
  BY <1>1, <1>3, <1>4
<1>10. w.stage \notin {"idle", "again"} => Running(t, k) /\ w.family = work[t][k].family
  BY <1>1, <1>5 DEF Running
<1> QED
  BY <1>7, <1>8, <1>9, <1>10, WorkMoves

\* Work that goes on to its next stage with no answer in hand.
LEMMA NextStage ==
    ASSUME ClientInv, ServerInv, NEW t \in Tab, NEW k \in Key, Running(t, k),
           NEW stage \in {"post", "check"}, GoOn(t, k, stage)
    PROVE  ClientInv'
<1>1. PICK v \in Works : v = work[t][k] /\ AnswerTrue(k, v)
  BY InHand
<1>2. PICK w \in Works : w = [v EXCEPT !.stage = stage, !.answer = "none", !.heard = FALSE]
  BY DEF Works, Stages
<1>3. w.stage = stage /\ w.family = v.family /\ w.answer = "none"
  BY <1>2 DEF Works
<1>4. v.family \in Family
  BY <1>1 DEF Running, AnswerTrue
<1>5. AnswerTrue(k, w)
  BY <1>3, <1>4 DEF AnswerTrue
<1> QED
  BY <1>1, <1>2, <1>3, <1>5, StepMoves DEF GoOn

LEMMA LookedStep ==
    ASSUME ClientInv, ServerInv, NEW t \in Tab, NEW k \in Key, Looked(t, k)
    PROVE  ClientInv'
<1>1. AnswerTrue(k, work[t][k]) /\ Running(t, k)
  BY InHand DEF Looked, Running
<1>2. PICK answer : answer = work[t][k].answer
  OBVIOUS
<1>3. answer \in {"denied", "gone", "hidden", "applied", "conflict", "unknown"}
  BY <1>1, <1>2 DEF Looked, Heard, AnswerTrue
<1>4. CASE answer \in {"applied", "conflict"}
  BY <1>1, <1>2, <1>4, CompleteStep DEF Looked
<1>5. CASE answer = "unknown"
  BY <1>1, <1>2, <1>5, NextStage DEF Looked
<1>6. CASE answer \in {"denied", "gone", "hidden"}
  <2>1. Refuse(t, k, answer)
    BY <1>2, <1>6 DEF Looked
  <2> QED
    BY <1>1, <1>2, <1>6, <2>1, RefuseStep
<1> QED
  BY <1>3, <1>4, <1>5, <1>6

LEMMA SendStep ==
    ASSUME ClientInv, ServerInv, NEW t \in Tab, NEW k \in Key, Send(t, k)
    PROVE  ClientInv'
<1>1. PICK v \in Works : v = work[t][k] /\ AnswerTrue(k, v)
  BY InHand
<1>2. PICK w \in Works : w = [v EXCEPT !.stage = "sent"]
  BY DEF Works, Stages
<1>3. w.stage = "sent" /\ w.family = v.family /\ w.answer = v.answer
  BY <1>2 DEF Works
<1>4. v.stage = "post" /\ v.family \in Family /\ v.answer = "none"
  BY <1>1 DEF Send, AnswerTrue
<1>5. AnswerTrue(k, w)
  BY <1>3, <1>4 DEF AnswerTrue
<1>6. /\ Keeps /\ UNCHANGED <<queue, entry, scope, late, frozen, released, givenUp>>
  BY ServerRests DEF Send, signIn
<1>7. work \in [Tab -> [Key -> Works]]
  BY DEF ClientInv, ClientType
<1>8. work' = [work EXCEPT ![t][k] = w]
  BY <1>1, <1>2, <1>7 DEF Send
<1>9. wire' = wire \cup {[tab |-> t, key |-> k, family |-> w.family]}
  BY <1>1, <1>3 DEF Send
<1>10. Running(t, k) /\ AnswerTrue(k, w)'
  BY <1>1, <1>4, <1>5, <1>6, AnswerStays DEF Running
<1> QED
  BY <1>1, <1>3, <1>4, <1>6, <1>8, <1>9, <1>10, WorkMoves

\* What a request is answered with is what the server did.
LEMMA ExecuteTrue ==
    ASSUME NEW f \in Family, NEW k \in Key, NEW answer \in Answers, Execute(f, k, answer)
    PROVE  /\ answer \in {"accepted", "denied", "gone", "clash", "invalid"}
           /\ answer \in {"clash", "invalid"} => <<k, f>> \in refusals'
<1>1. CASE Replay(f, k, answer)
  BY <1>1 DEF Replay
<1>2. CASE FirstTime(f, k, answer)
  BY <1>2 DEF FirstTime
<1> QED
  BY <1>1, <1>2 DEF Execute

LEMMA ServeStep ==
    ASSUME ClientInv, ServerInv, NEW m \in wire, Serve(m)
    PROVE  ClientInv' /\ ServerNext
<1>1. m.tab \in Tab /\ m.key \in Key /\ m.family \in Family
  BY DEF ClientInv, ClientType
<1>2. PICK answer \in Answers :
        /\ Execute(m.family, m.key, answer)
        /\ work' = IF Awaits(m) THEN [work EXCEPT ![m.tab][m.key].answer = answer] ELSE work
  BY DEF Serve
<1>3. ServerNext
  BY <1>1, <1>2 DEF ServerNext
<1>4. Keeps
  BY <1>3, ServerStep
<1>5. UNCHANGED <<queue, entry, scope, late, frozen, released, givenUp, wire>>
  BY DEF Serve, signIn
<1>6. PICK t \in Tab, k \in Key, f \in Family : t = m.tab /\ k = m.key /\ f = m.family
  BY <1>1
<1>7. PICK v \in Works : v = work[t][k] /\ AnswerTrue(k, v)
  BY InHand
<1>8. work \in [Tab -> [Key -> Works]]
  BY DEF ClientInv, ClientType
<1>9. CASE Awaits(m)
  <2>1. v.stage = "sent" /\ v.family = f
    BY <1>6, <1>7, <1>9 DEF Awaits
  <2>2. PICK w \in Works : w = [v EXCEPT !.answer = answer]
    BY <1>2 DEF Works
  <2>3. w.stage = "sent" /\ w.family = f /\ w.answer = answer
    BY <2>1, <2>2 DEF Works
  <2>4. work' = [work EXCEPT ![t][k] = w]
    BY <1>2, <1>6, <1>7, <1>8, <1>9, <2>2
  <2>5. /\ answer \in {"accepted", "denied", "gone", "clash", "invalid"}
        /\ answer \in {"clash", "invalid"} => <<k, f>> \in refusals'
    BY <1>2, <1>6, ExecuteTrue
  <2>6. AnswerTrue(k, w)'
    BY <2>3, <2>5 DEF AnswerTrue
  <2>7. Running(t, k) /\ work[t][k].family = f
    BY <1>7, <2>1 DEF Running
  <2> QED
    BY <1>3, <1>4, <1>5, <2>3, <2>4, <2>6, <2>7, WorkMoves
<1>10. CASE ~Awaits(m)
  <2>1. work' = work
    BY <1>2, <1>10
  <2>2. work' = [work EXCEPT ![t][k] = v]
    BY <1>7, <1>8, <2>1
  <2>3. AnswerTrue(k, v)'
    BY <1>4, <1>7, AnswerStays
  <2>4. v.stage \notin {"idle", "again"} => Running(t, k) /\ v.family = work[t][k].family
    BY <1>7 DEF Running
  <2> QED
    BY <1>3, <1>4, <1>5, <2>2, <2>3, <2>4, WorkMoves
<1> QED
  BY <1>9, <1>10

LEMMA SentStep ==
    ASSUME ClientInv, ServerInv, NEW t \in Tab, NEW k \in Key, Sent(t, k)
    PROVE  ClientInv'
<1>1. AnswerTrue(k, work[t][k]) /\ Running(t, k)
  BY InHand DEF Sent, Running
<1>2. PICK answer : answer = work[t][k].answer
  OBVIOUS
<1>3. answer \in {"accepted", "denied", "gone", "clash", "invalid"}
  BY <1>1, <1>2 DEF Sent, Heard, AnswerTrue
<1>4. CASE answer = "accepted"
  BY <1>1, <1>2, <1>4, NextStage DEF Sent
<1>5. CASE answer # "accepted"
  <2>1. Refuse(t, k, answer)
    BY <1>2, <1>5 DEF Sent
  <2> QED
    BY <1>1, <1>2, <1>3, <1>5, <2>1, RefuseStep
<1> QED
  BY <1>4, <1>5

LEMMA CheckedStep ==
    ASSUME ClientInv, ServerInv, NEW t \in Tab, NEW k \in Key, Checked(t, k)
    PROVE  ClientInv'
<1>1. AnswerTrue(k, work[t][k]) /\ Running(t, k)
  BY InHand DEF Checked, Running
<1>2. PICK answer : answer = work[t][k].answer
  OBVIOUS
<1>3. answer \in {"denied", "gone", "hidden", "applied", "conflict", "unknown"}
  BY <1>1, <1>2 DEF Checked, Heard, AnswerTrue
<1>4. CASE answer \in {"applied", "conflict"}
  BY <1>1, <1>2, <1>4, CompleteStep DEF Checked
<1>5. CASE answer \in {"unknown", "hidden"}
  BY <1>1, <1>2, <1>5, RetryStep DEF Checked
<1>6. CASE answer \in {"denied", "gone"}
  <2>1. Refuse(t, k, answer)
    BY <1>2, <1>6 DEF Checked
  <2> QED
    BY <1>1, <1>2, <1>6, <2>1, RefuseStep
<1> QED
  BY <1>3, <1>4, <1>5, <1>6

LEMMA FailsStep ==
    ASSUME ClientInv, ServerInv, NEW t \in Tab, NEW k \in Key, Fails(t, k) \/ ScopeLost(t, k)
    PROVE  ClientInv'
<1>1. CASE Fails(t, k)
  BY <1>1, RetryStep DEF Fails, Running
<1>2. CASE ScopeLost(t, k)
  BY <1>2, EndStep DEF ScopeLost, States, Proofs
<1> QED
  BY <1>1, <1>2

LEMMA ReconcileStep ==
    ASSUME ClientInv, ServerInv, NEW t \in Tab, NEW k \in Key, Reconcile(t, k)
    PROVE  ClientInv'
<1>1. PICK e \in Entries : e = entry[k] /\ EntryTrue(k, e)
  BY InStore
<1>2. e.state \in {"review", "confirmed"} /\ e.scope = scope[t] /\ e.scope \in Family
  BY <1>1 DEF Reconcile, EntryTrue
<1>3. PICK w \in Works :
        w = [stage |-> "again", family |-> scope[t], answer |-> "none", heard |-> FALSE,
             saw |-> entry[k]]
  BY <1>1, <1>2 DEF Works, Stages
<1>4. w.stage = "again" /\ w.family = scope[t] /\ w.answer = "none" /\ w.saw = entry[k]
  BY <1>3
<1>5. AnswerTrue(k, w)
  BY <1>1, <1>2, <1>4 DEF AnswerTrue
<1>6. /\ Keeps /\ work' = [work EXCEPT ![t][k] = w]
      /\ UNCHANGED <<queue, entry, scope, late, frozen, released, givenUp, wire>>
  BY <1>3, ServerRests DEF Reconcile, signIn
<1>7. AnswerTrue(k, w)'
  BY <1>5, <1>6, AnswerStays
<1> QED
  BY <1>4, <1>6, <1>7, WorkMoves

LEMMA ReconcileFailsStep ==
    ASSUME ClientInv, ServerInv, NEW t \in Tab, NEW k \in Key, ReconcileFails(t, k)
    PROVE  ClientInv'
<1>1. Step(t, k, Idle) /\ Idle.stage = "idle"
  BY DEF ReconcileFails, Idle
<1> QED
  BY <1>1, IdleFact, IdleTrue, StepMoves

\* A conflict in hand is never about a change that was confirmed.
LEMMA NoConflictOfConfirmed ==
    ASSUME ClientInv, NEW t \in Tab, NEW k \in Key, work[t][k].answer = "conflict"
    PROVE  entry[k].state # "confirmed"
<1>1. AnswerTrue(k, work[t][k]) /\ EntryTrue(k, entry[k])
  BY InHand, InStore
<1> QED
  BY <1>1 DEF AnswerTrue, EntryTrue, TookKey

LEMMA ReconciledStep ==
    ASSUME ClientInv, ServerInv, NEW t \in Tab, NEW k \in Key, Reconciled(t, k)
    PROVE  ClientInv'
<1>1. /\ Keeps /\ work' = [work EXCEPT ![t][k] = Idle]
      /\ UNCHANGED <<queue, scope, late, frozen, released, givenUp, wire>>
  BY ServerRests DEF Reconciled, signIn
<1>2. PICK v \in Works : v = work[t][k] /\ AnswerTrue(k, v)
  BY InHand
<1>3. PICK x \in Entries : x = entry[k] /\ EntryTrue(k, x)
  BY InStore
<1>4. CASE v.answer \in {"applied", "conflict"} /\ InScope(t, k) /\ x = v.saw
  <2>1. PICK e \in Entries :
          e = [x EXCEPT !.proof = v.answer,
                        !.state = IF v.answer = "applied" THEN "confirmed" ELSE "review"]
    BY <1>4 DEF Entries, States, Proofs
  <2>2. /\ e.proof = v.answer /\ e.scope = x.scope /\ e.owner = x.owner
        /\ e.state = IF v.answer = "applied" THEN "confirmed" ELSE "review"
    BY <2>1 DEF Entries
  <2>3. entry' = [entry EXCEPT ![k] = e]
    <3>1. entry' = [entry EXCEPT ![k].proof = v.answer,
                                 ![k].state = IF v.answer = "applied" THEN "confirmed" ELSE "review"]
      BY <1>2, <1>3, <1>4 DEF Reconciled
    <3>2. entry \in [Key -> Entries]
      BY DEF ClientInv, ClientType
    <3> QED
      BY <1>3, <2>1, <3>1, <3>2
  <2>4. v.stage = "again" /\ x.scope = v.family /\ x.state \in {"review", "confirmed"}
    BY <1>2, <1>4 DEF Reconciled, AnswerTrue
  <2>5. PICK f \in Family : f = v.family
    BY <1>2, <2>4 DEF AnswerTrue
  <2>6. v.answer = "applied" => Took(k, f)'
    BY <1>1, <1>2, <2>5 DEF AnswerTrue, Keeps
  <2>7. v.answer = "conflict" => <<k, f>> \in refusals' /\ k \in givenUp'
    <3>1. v.answer = "conflict" => x.state = "review"
      BY <1>2, <1>3, <2>4, NoConflictOfConfirmed
    <3> QED
      BY <1>1, <1>2, <1>3, <2>5, <3>1 DEF AnswerTrue, EntryTrue, Keeps
  <2>8. EntryTrue(k, e)'
    BY <1>4, <2>2, <2>4, <2>5, <2>6, <2>7 DEF EntryTrue
  <2> QED
    BY <1>1, <1>3, <2>2, <2>3, <2>4, <2>8, EntryMoves
<1>5. CASE ~(v.answer \in {"applied", "conflict"} /\ InScope(t, k) /\ x = v.saw)
  <2>1. entry' = entry /\ Idle.stage = "idle"
    BY <1>2, <1>3, <1>5 DEF Reconciled, Idle
  <2> QED
    BY <1>1, <2>1, IdleFact, IdleTrue, WorkMoves
<1> QED
  BY <1>4, <1>5

LEMMA LeaseEndsStep ==
    ASSUME ClientInv, ServerInv, NEW k \in Key, LeaseEnds(k)
    PROVE  ClientInv'
<1>1. PICK x \in Entries : x = entry[k] /\ EntryTrue(k, x)
  BY InStore
<1>2. PICK e \in Entries : e = [x EXCEPT !.leased = FALSE]
  BY DEF Entries
<1>3. e.state = x.state /\ e.scope = x.scope /\ e.owner = x.owner /\ e.proof = x.proof
  BY <1>2 DEF Entries
<1>4. /\ Keeps /\ UNCHANGED <<queue, scope, late, frozen, released, givenUp, wire, work>>
  BY ServerRests DEF LeaseEnds, signIn
<1>5. entry' = [entry EXCEPT ![k] = e]
  <2>1. entry \in [Key -> Entries]
    BY DEF ClientInv, ClientType
  <2> QED
    BY <1>1, <1>2, <2>1 DEF LeaseEnds
<1>6. EntryTrue(k, e)
  BY <1>1, <1>3 DEF EntryTrue
<1>7. EntryTrue(k, e)'
  BY <1>4, <1>6, EntryStays
<1>8. x.state = "pending"
  BY <1>1 DEF LeaseEnds, Pending
<1> QED
  BY <1>1, <1>3, <1>4, <1>5, <1>7, <1>8, EntryMoves DEF Pending

\* Two works that differ at most in whether an answer was heard.
OnlyHeard(v, w) ==
    w.stage = v.stage /\ w.family = v.family /\ w.answer = v.answer /\ w.saw = v.saw

\* A change of the sign-in alters no work but for what it has heard.
LEMMA HeardWork ==
    ASSUME ClientType, NEW t \in Tab, NEW f, Switch(t, f)
    PROVE  /\ work' \in [Tab -> [Key -> Works]]
           /\ \A s \in Tab, k \in Key : OnlyHeard(work[s][k], work'[s][k])
<1>1. PICK ks \in SUBSET Key :
        work' = [work EXCEPT ![t] =
                   [k \in Key |-> IF k \in ks THEN [work[t][k] EXCEPT !.heard = TRUE]
                                             ELSE work[t][k]]]
  BY DEF Switch
<1>2. work \in [Tab -> [Key -> Works]]
  BY DEF ClientType
<1>3. ASSUME NEW v \in Works
      PROVE  [v EXCEPT !.heard = TRUE] \in Works /\ OnlyHeard(v, [v EXCEPT !.heard = TRUE])
  BY DEF Works, OnlyHeard
<1>4. ASSUME NEW s \in Tab, NEW k \in Key
      PROVE  work'[s][k] \in Works /\ OnlyHeard(work[s][k], work'[s][k])
  <2>1. work'[s][k] = work[s][k] \/ work'[s][k] = [work[s][k] EXCEPT !.heard = TRUE]
    BY <1>1, <1>2
  <2>2. work[s][k] \in Works /\ OnlyHeard(work[s][k], work[s][k])
    BY <1>2 DEF OnlyHeard
  <2> QED
    BY <1>3, <2>1, <2>2
<1>5. work' \in [Tab -> [Key -> Works]]
  <2>1. ASSUME NEW s \in Tab PROVE work'[s] \in [Key -> Works]
    <3>1. DOMAIN work'[s] = Key /\ work'[s] = [k \in Key |-> work'[s][k]]
      BY <1>1, <1>2
    <3> QED
      BY <1>4, <3>1
  <2>2. work' = [s \in Tab |-> work'[s]]
    BY <1>1, <1>2
  <2> QED
    BY <2>1, <2>2
<1> QED
  BY <1>4, <1>5

\* A step that changes neither the store nor, but for ending it or for what it has
\* heard, any work.
LEMMA Passes ==
    ASSUME ClientInv, ClientType', Keeps, UNCHANGED <<queue, entry, wire, released, givenUp>>,
           \A t \in Tab, k \in Key :
              work'[t][k] = Idle \/ OnlyHeard(work[t][k], work'[t][k])
    PROVE  ClientInv'
<1>1. \A t \in Tab, k \in Key : Running(t, k)' =>
         Running(t, k) /\ work'[t][k].family = work[t][k].family
  BY DEF Running, Idle, OnlyHeard
<1>2. \A k \in Key : Out(k)' => Out(k)
  BY <1>1 DEF Out
<1>3. /\ \A k \in Key : Pending(k)' => Pending(k)
      /\ \A t \in Tab, k \in Key : Mine(t, k)' => Mine(t, k)
  BY DEF Mine, Pending
<1>4. \A t \in Tab, k \in Key, w \in Works : work'[t][k] = w /\ w # work[t][k] => AnswerTrue(k, w)'
  <2>1. SUFFICES ASSUME NEW t \in Tab, NEW k \in Key, NEW w \in Works,
                        work'[t][k] = w, OnlyHeard(work[t][k], w)
                 PROVE  AnswerTrue(k, w)'
    BY IdleTrue
  <2>2. PICK v \in Works : v = work[t][k] /\ AnswerTrue(k, v)
    BY InHand
  <2>3. AnswerTrue(k, v)'
    BY <2>2, AnswerStays
  <2> QED
    BY <2>1, <2>2, <2>3 DEF AnswerTrue, OnlyHeard
<1> QED
  BY <1>1, <1>2, <1>3, <1>4, Settle

LEMMA TabStep ==
    ASSUME ClientInv, ServerInv, NEW t \in Tab,
           \/ Freeze(t) \/ Thaw(t) \/ Abandon(t)
           \/ \E f \in Family \cup {NoFamily} : Switch(t, f)
    PROVE  ClientInv'
<1>0. ClientType
  BY DEF ClientInv
<1>1. CASE Freeze(t) \/ Thaw(t)
  <2>1. /\ UNCHANGED <<serverVars, queue, entry, scope, late, work, wire, released, givenUp>>
        /\ frozen' \subseteq frozen \cup {t}
    BY <1>1 DEF Freeze, Thaw, signIn
  <2>2. ClientType'
    BY <1>0, <2>1 DEF ClientType
  <2> QED
    BY <2>1, <2>2, ServerRests, Passes DEF OnlyHeard
<1>2. CASE Abandon(t)
  <2>1. /\ UNCHANGED <<serverVars, queue, entry, scope, frozen, wire, released, givenUp>>
        /\ work' = [work EXCEPT ![t] = [k \in Key |-> Idle]]
        /\ late' = [late EXCEPT ![t] = {}]
    BY <1>2 DEF Abandon
  <2>2. /\ work' \in [Tab -> [Key -> Works]]
        /\ \A s \in Tab, k \in Key : work'[s][k] \in {work[s][k], Idle}
    BY <1>0, <2>1, IdleFact DEF ClientType
  <2>3. ClientType'
    BY <1>0, <2>1, <2>2 DEF ClientType
  <2> QED
    BY <2>1, <2>2, <2>3, ServerRests, Passes DEF OnlyHeard
<1>3. ASSUME NEW f \in Family \cup {NoFamily}, Switch(t, f) PROVE ClientInv'
  <2>1. /\ UNCHANGED <<serverVars, queue, entry, frozen, wire, released, givenUp>>
        /\ scope' = [scope EXCEPT ![t] = f]
    BY <1>3 DEF Switch
  <2>2. late' \in [Tab -> SUBSET (Family \cup {NoFamily})]
    <3>1. /\ late \in [Tab -> SUBSET (Family \cup {NoFamily})]
          /\ scope[t] \in Family \cup {NoFamily}
      BY <1>0 DEF ClientType
    <3>2. PICK l \in SUBSET (Family \cup {NoFamily}) :
            l = IF late[t] = {} THEN {scope[t]} ELSE late[t]
      BY <3>1
    <3>3. late' = late \/ late' = [late EXCEPT ![t] = l]
      BY <1>3, <3>1, <3>2 DEF Switch
    <3> QED
      BY <3>1, <3>3
  <2>3. work' \in [Tab -> [Key -> Works]]
    BY <1>0, <1>3, HeardWork DEF ClientType, Switch
  <2>4. ClientType'
    BY <1>0, <2>1, <2>2, <2>3 DEF ClientType
  <2>5. \A s \in Tab, k \in Key : OnlyHeard(work[s][k], work'[s][k])
    BY <1>0, <1>3, HeardWork DEF ClientType, Switch
  <2> QED
    BY <2>1, <2>4, <2>5, ServerRests, Passes
<1> QED
  BY <1>1, <1>2, <1>3

LEMMA UpkeepStep ==
    ASSUME ClientInv, ServerInv, Upkeep
    PROVE  ClientInv' /\ ServerNext
<1>1. ServerNext
  BY DEF Upkeep, ServerNext
<1>2. Keeps
  BY <1>1, ServerStep
<1>3. UNCHANGED <<queue, entry, scope, late, work, frozen, wire, released, givenUp>>
  BY DEF Upkeep, signIn
<1>4. ClientType'
  BY <1>3 DEF ClientInv, ClientType
<1> QED
  BY <1>1, <1>2, <1>3, <1>4, Passes DEF OnlyHeard

\* A key that is not in the store is not one the server may still apply.
LEMMA OpenIsQueued ==
    ASSUME ClientInv, NEW k \in Key, Open(k)
    PROVE  Queued(k)
BY DEF ClientInv, NoneOvertakes, NoneAhead, Queued

\* A step that leaves the work, the wire and the other keys alone.
LEMMA StaysOpen ==
    ASSUME Keeps, UNCHANGED <<wire, work, givenUp>>, NEW k \in Key, Open(k)'
    PROVE  Open(k)
BY TookStays DEF Open, Out, Running

LEMMA RunStep ==
    ASSUME ClientInv, ServerInv, NEW t \in Tab, NEW k \in Key, Run(t, k)
    PROVE  ClientInv'
<1>0. ClientType /\ OnePlace /\ LetGoTrue /\ released \subseteq Key
  BY DEF ClientInv
<1>1. /\ Keeps /\ UNCHANGED <<scope, late, work, frozen, wire, released, givenUp>>
      /\ queue' = Append(queue, k) /\ entry[k].state = "none"
  BY ServerRests DEF Run, signIn
<1>2. PICK e \in Entries : e = [NoEntry EXCEPT !.state = "pending", !.scope = scope[t]]
  BY <1>0, IdleFact DEF ClientType, Entries, States
<1>3. /\ e.state = "pending" /\ e.scope = scope[t] /\ e.owner = NoTab /\ e.proof = "none"
      /\ scope[t] \in Family
  BY <1>0, <1>2 DEF NoEntry, Run, ClientType
<1>4. entry' = [entry EXCEPT ![k] = e] /\ entry \in [Key -> Entries]
  BY <1>0, <1>2 DEF Run, ClientType
<1>5. entry' \in [Key -> Entries] /\ entry'[k] = e /\ \A j \in Key : j # k => entry'[j] = entry[j]
  BY <1>4
<1>6. PICK n \in Nat : n = Len(queue)
  BY <1>0 DEF ClientType
<1>7. /\ queue' \in Seq(Key) /\ DOMAIN queue = 1..n /\ DOMAIN queue' = 1..(n + 1)
      /\ queue'[n + 1] = k /\ \A i \in 1..n : queue'[i] = queue[i] /\ queue[i] \in Key
  BY <1>0, <1>1, <1>6 DEF ClientType
<1>8. \A i \in 1..n : queue[i] # k
  BY <1>0, <1>1, <1>7 DEF OnePlace, Queued
<1>9. ClientType'
  BY <1>0, <1>1, <1>5, <1>7 DEF ClientType
<1>10. OnePlace'
  <2>1. \A i, j \in DOMAIN queue' : queue'[i] = queue'[j] => i = j
    BY <1>0, <1>7, <1>8 DEF OnePlace
  <2>2. Queued(k)'
    BY <1>7 DEF Queued
  <2>3. \A j \in Key : j # k => (Queued(j)' <=> Queued(j))
    BY <1>7 DEF Queued
  <2> QED
    BY <1>0, <1>3, <1>5, <2>1, <2>2, <2>3 DEF OnePlace
<1>11. EntriesTrue'
  <2>1. EntryTrue(k, e)'
    BY <1>3 DEF EntryTrue
  <2> QED
    BY <1>0, <1>1, <1>5, <2>1, EntriesKept DEF ClientInv
<1>12. AnswersTrue'
  BY <1>0, <1>1, AnswersKept DEF ClientInv
<1>13. HeldTrue'
  <2>1. ASSUME NEW s \in Tab PROVE ~Mine(s, k)'
    BY <1>3, <1>5, ClientAssumption DEF Mine
  <2>2. ASSUME NEW s \in Tab, NEW j \in Key, j # k, Mine(s, j)', Running(s, j)'
        PROVE  entry'[j].scope = work'[s][j].family
    BY <1>1, <1>5, <2>2 DEF Mine, Pending, Running, ClientInv, HeldTrue
  <2> QED
    BY <2>1, <2>2 DEF HeldTrue
<1>14. LetGoTrue'
  BY <1>0, <1>1, LetGoKept
<1>15. ASSUME NEW x \in Key PROVE NoneAhead(x)'
  <2>1. SUFFICES ASSUME Open(x)' PROVE NoneAhead(x)'
    BY DEF NoneAhead
  <2>2. Open(x)
    BY <1>1, <2>1, StaysOpen
  <2>3. PICK i \in DOMAIN queue :
          /\ queue[i] = x
          /\ \A j \in DOMAIN queue : j < i /\ Target[queue[j]] = Target[x] => ~Pending(queue[j])
    BY <2>2 DEF ClientInv, NoneOvertakes, NoneAhead
  <2>4. ASSUME NEW j \in DOMAIN queue', j < i, Target[queue'[j]] = Target[x]
        PROVE  ~Pending(queue[j])'
    <3>1. j \in 1..n /\ queue'[j] = queue[j] /\ queue[j] \in Key /\ queue[j] # k
      BY <1>7, <1>8, <2>3, <2>4
    <3>2. ~Pending(queue[j])
      BY <1>7, <2>3, <2>4, <3>1
    <3> QED
      BY <1>5, <3>1, <3>2 DEF Pending
  <2>5. i \in DOMAIN queue' /\ queue'[i] = x
    BY <1>7, <2>3
  <2> QED
    BY <2>4, <2>5 DEF NoneAhead
<1> QED
  BY <1>1, <1>0, <1>9, <1>10, <1>11, <1>12, <1>13, <1>14, <1>15 DEF ClientInv, NoneOvertakes

LEMMA PositionIs ==
    ASSUME ClientInv, NEW i \in DOMAIN queue
    PROVE  Position(queue[i]) = i
BY DEF ClientInv, OnePlace, Position

\* Taking one place out of a sequence moves those behind it up by one.
LEMMA Removed ==
    ASSUME NEW S, NEW s \in Seq(S), NEW n \in 1..Len(s)
    PROVE  /\ RemoveAt(s, n) \in Seq(S) /\ Len(RemoveAt(s, n)) = Len(s) - 1
           /\ \A i \in 1..(Len(s) - 1) :
                 RemoveAt(s, n)[i] = IF i < n THEN s[i] ELSE s[i + 1]
<1>1. PICK l \in Nat : l = Len(s)
  OBVIOUS
<1>2. PICK a : a = SubSeq(s, 1, n - 1)
  OBVIOUS
<1>3. PICK b : b = SubSeq(s, n + 1, l)
  OBVIOUS
<1>4. a \in Seq(S) /\ Len(a) = n - 1 /\ \A i \in 1..(n - 1) : a[i] = s[i]
  BY <1>1, <1>2
<1>5. b \in Seq(S) /\ Len(b) = l - n /\ \A i \in 1..(l - n) : b[i] = s[n + i]
  BY <1>1, <1>3
<1>6. RemoveAt(s, n) = a \o b
  BY <1>1, <1>2, <1>3 DEF RemoveAt
<1>7. a \o b \in Seq(S) /\ Len(a \o b) = l - 1
  <2>0. \A x \in Seq(S), y \in Seq(S) : x \o y \in Seq(S) /\ Len(x \o y) = Len(x) + Len(y)
    OBVIOUS
  <2>1. a \o b \in Seq(S) /\ Len(a \o b) = Len(a) + Len(b)
    BY <1>4, <1>5, <2>0
  <2>2. n \in Int /\ Len(a) = n - 1 /\ Len(b) = l - n
    BY <1>1, <1>4, <1>5
  <2> QED
    BY <1>1, <2>1, <2>2
<1>8. ASSUME NEW i \in 1..(l - 1) PROVE (a \o b)[i] = IF i < n THEN s[i] ELSE s[i + 1]
  <2>0. i \in Int /\ n \in Int
    BY <1>1
  <2>1. ASSUME i < n PROVE (a \o b)[i] = s[i]
    BY <1>1, <1>4, <1>5, <2>1
  <2>2. ASSUME ~(i < n) PROVE (a \o b)[i] = s[i + 1]
    <3>1. (a \o b)[i] = b[i - (n - 1)]
      BY <1>1, <1>4, <1>5, <2>2
    <3>2. i - (n - 1) \in 1..(l - n) /\ n + (i - (n - 1)) = i + 1
      BY <1>1, <2>2
    <3>3. b[i - (n - 1)] = s[i + 1]
      BY <1>5, <3>2
    <3> QED
      BY <3>1, <3>3
  <2>3. PICK v : v = (a \o b)[i]
    OBVIOUS
  <2>4. v = IF i < n THEN s[i] ELSE s[i + 1]
    BY ONLY <2>1, <2>2, <2>3
  <2> QED
    BY ONLY <2>3, <2>4
<1> QED
  BY <1>1, <1>6, <1>7, <1>8

LEMMA LetGoStep ==
    ASSUME ClientInv, ServerInv, NEW k \in Key, LetGo(k), UNCHANGED serverVars,
           \/ entry[k].state = "confirmed"
           \/ entry[k].state = "review" /\ entry[k].proof \in {"conflict", "refused"}
    PROVE  ClientInv'
<1>0. ClientType /\ OnePlace /\ LetGoTrue /\ released \subseteq Key
  BY DEF ClientInv
<1>1. /\ Keeps /\ UNCHANGED <<scope, late, work, frozen, wire, givenUp>>
      /\ released' = released \cup {k}
      /\ queue' = RemoveAt(queue, Position(k)) /\ entry' = [entry EXCEPT ![k] = NoEntry]
  BY ServerRests DEF LetGo, Rest, signIn
<1>2. PICK l \in Nat : l = Len(queue)
  BY <1>0 DEF ClientType
<1>3. queue \in Seq(Key) /\ DOMAIN queue = 1..l
  BY <1>0, <1>2 DEF ClientType
<1>4. PICK n \in 1..l : queue[n] = k
  BY <1>0, <1>3 DEF OnePlace, Queued
<1>5. queue' = RemoveAt(queue, n)
  BY <1>1, <1>3, <1>4, PositionIs
<1>6. /\ queue' \in Seq(Key) /\ DOMAIN queue' = 1..(l - 1)
      /\ \A i \in 1..(l - 1) : queue'[i] = IF i < n THEN queue[i] ELSE queue[i + 1]
  <2>1. /\ queue' \in Seq(Key) /\ Len(queue') = l - 1
        /\ \A i \in 1..(l - 1) : queue'[i] = IF i < n THEN queue[i] ELSE queue[i + 1]
    BY <1>2, <1>3, <1>5, Removed
  <2> QED
    BY <2>1
<1>7. \A i, j \in 1..l : queue[i] = queue[j] => i = j
  BY <1>0, <1>3 DEF OnePlace
<1>8. \A i \in 1..(l - 1) : queue'[i] \in Key /\ queue'[i] # k
  <2>1. ASSUME NEW i \in 1..(l - 1), i < n PROVE queue'[i] \in Key /\ queue'[i] # k
    BY <1>3, <1>4, <1>6, <1>7, <2>1
  <2>2. ASSUME NEW i \in 1..(l - 1), ~(i < n) PROVE queue'[i] \in Key /\ queue'[i] # k
    <3>1. i + 1 \in 1..l /\ i + 1 # n
      BY <2>2
    <3> QED
      BY <1>3, <1>4, <1>6, <1>7, <2>2, <3>1
  <2> QED
    BY <2>1, <2>2
<1>9. \A i \in 1..l : i # n => \E j \in 1..(l - 1) : queue'[j] = queue[i] /\ j = IF i < n THEN i ELSE i - 1
  <2>1. ASSUME NEW i \in 1..l, i < n PROVE i \in 1..(l - 1) /\ queue'[i] = queue[i]
    BY <1>6, <2>1
  <2>2. ASSUME NEW i \in 1..l, i > n PROVE i - 1 \in 1..(l - 1) /\ queue'[i - 1] = queue[i]
    <3>1. i - 1 \in 1..(l - 1) /\ ~(i - 1 < n) /\ (i - 1) + 1 = i
      BY <2>2
    <3> QED
      BY <1>6, <3>1
  <2> QED
    BY <2>1, <2>2
<1>10. entry' \in [Key -> Entries] /\ entry'[k] = NoEntry /\ \A j \in Key : j # k => entry'[j] = entry[j]
  BY <1>0, <1>1, IdleFact DEF ClientType
<1>11. ClientType'
  BY <1>0, <1>1, <1>6, <1>10 DEF ClientType
<1>12. NoEntry.state = "none" /\ NoEntry.proof = "none"
  BY DEF NoEntry
<1>13. OnePlace'
  <2>1. ASSUME NEW i \in 1..(l - 1), NEW j \in 1..(l - 1), queue'[i] = queue'[j] PROVE i = j
    <3>1. i \in 1..l /\ i + 1 \in 1..l /\ j \in 1..l /\ j + 1 \in 1..l
      OBVIOUS
    <3>2. CASE i < n /\ j < n
      BY <1>6, <1>7, <2>1, <3>1, <3>2
    <3>3. CASE i < n /\ ~(j < n)
      BY <1>6, <1>7, <2>1, <3>1, <3>3
    <3>4. CASE ~(i < n) /\ j < n
      BY <1>6, <1>7, <2>1, <3>1, <3>4
    <3>5. CASE ~(i < n) /\ ~(j < n)
      <4>1. i + 1 = j + 1
        BY <1>6, <1>7, <2>1, <3>1, <3>5
      <4> QED
        BY <4>1
    <3> QED
      BY <3>2, <3>3, <3>4, <3>5
  <2>2. ~Queued(k)'
    BY <1>6, <1>8 DEF Queued
  <2>3. ASSUME NEW j \in Key, j # k PROVE Queued(j)' <=> Queued(j)
    <3>1. ASSUME Queued(j) PROVE Queued(j)'
      <4>1. PICK i \in 1..l : queue[i] = j
        BY <1>3, <3>1 DEF Queued
      <4>2. \E x \in 1..(l - 1) : queue'[x] = j
        BY <1>4, <1>9, <2>3, <4>1
      <4> QED
        BY <1>6, <4>2 DEF Queued
    <3>2. ASSUME Queued(j)' PROVE Queued(j)
      <4>1. PICK i \in 1..(l - 1) : queue'[i] = j
        BY <1>6, <3>2 DEF Queued
      <4>2. i \in 1..l /\ i + 1 \in 1..l
        OBVIOUS
      <4>3. queue[i] = j \/ queue[i + 1] = j
        BY <1>6, <4>1
      <4> QED
        BY <1>3, <4>2, <4>3 DEF Queued
    <3> QED
      BY <3>1, <3>2
  <2> QED
    BY <1>0, <1>6, <1>10, <1>12, <2>1, <2>2, <2>3 DEF OnePlace
<1>14. EntriesTrue'
  <2>1. EntryTrue(k, NoEntry)'
    BY <1>12 DEF EntryTrue
  <2> QED
    BY <1>0, <1>1, <1>10, <2>1, EntriesKept DEF ClientInv
<1>15. AnswersTrue'
  BY <1>0, <1>1, AnswersKept DEF ClientInv
<1>16. HeldTrue'
  <2>1. ASSUME NEW s \in Tab PROVE ~Mine(s, k)'
    BY <1>10, <1>12 DEF Mine, Pending
  <2>2. ASSUME NEW s \in Tab, NEW j \in Key, j # k, Mine(s, j)', Running(s, j)'
        PROVE  entry'[j].scope = work'[s][j].family
    BY <1>1, <1>10, <2>2 DEF Mine, Pending, Running, ClientInv, HeldTrue
  <2> QED
    BY <2>1, <2>2 DEF HeldTrue
<1>17. \/ TookKey(k)
       \/ k \in givenUp /\ \E f \in Family : <<k, f>> \in refusals
  <2>1. EntryTrue(k, entry[k])
    BY InStore
  <2> QED
    BY <2>1 DEF EntryTrue, TookKey
<1>18. LetGoTrue'
  <2>1. ASSUME NEW j \in released', TookKey(j) PROVE TookKey(j)'
    BY <1>0, <1>1, <2>1, TookStays
  <2> QED
    BY <1>0, <1>1, <1>17, <2>1 DEF LetGoTrue, Keeps
<1>19. ~Open(k)'
  BY <1>1, <1>17, TookStays DEF Open
<1>20. ASSUME NEW x \in Key, x # k PROVE NoneAhead(x)'
  <2>1. SUFFICES ASSUME Open(x)' PROVE NoneAhead(x)'
    BY DEF NoneAhead
  <2>2. Open(x)
    BY <1>1, <2>1, StaysOpen
  <2>3. PICK i \in 1..l :
          /\ queue[i] = x
          /\ \A j \in 1..l : j < i /\ Target[queue[j]] = Target[x] => ~Pending(queue[j])
    BY <1>3, <2>2 DEF ClientInv, NoneOvertakes, NoneAhead
  <2>4. PICK y \in 1..(l - 1) : queue'[y] = x /\ y = IF i < n THEN i ELSE i - 1
    BY <1>4, <1>9, <1>20, <2>3
  <2>5. ASSUME NEW j \in 1..(l - 1), j < y, Target[queue'[j]] = Target[x]
        PROVE  ~Pending(queue[j])'
    <3>1. PICK o \in 1..l : queue[o] = queue'[j] /\ o < i
      <4>1. CASE j < n
        BY <1>6, <2>4, <2>5, <4>1
      <4>2. CASE ~(j < n)
        <5>1. j + 1 \in 1..l /\ j + 1 < i /\ queue'[j] = queue[j + 1]
          BY <1>6, <2>4, <2>5, <4>2
        <5> QED
          BY <5>1
      <4> QED
        BY <4>1, <4>2
    <3>2. ~Pending(queue[o])
      BY <2>3, <2>5, <3>1
    <3>3. queue'[j] \in Key /\ queue'[j] # k
      BY <1>8
    <3>4. entry'[queue'[j]] = entry[queue[o]]
      BY <1>10, <3>1, <3>3
    <3> QED
      BY <3>2, <3>4 DEF Pending
  <2> QED
    BY <1>6, <2>4, <2>5 DEF NoneAhead
<1>21. NoneOvertakes'
  BY <1>19, <1>20 DEF NoneOvertakes, NoneAhead
<1>22. released' \subseteq Key
  BY <1>0, <1>1
<1> QED
  BY <1>11, <1>13, <1>14, <1>15, <1>16, <1>18, <1>21, <1>22 DEF ClientInv

LEMMA PumpScopeType ==
    ASSUME ClientInv, NEW t \in Tab
    PROVE  PumpScope(t) \in Family \cup {NoFamily}
<1>1. late[t] \subseteq Family \cup {NoFamily} /\ scope[t] \in Family \cup {NoFamily}
  BY DEF ClientInv, ClientType
<1>2. late[t] # {} => (CHOOSE f \in late[t] : TRUE) \in late[t]
  OBVIOUS
<1> QED
  BY <1>1, <1>2 DEF PumpScope

\* The sweep quarantines or keeps a pending entry, and leaves the others alone.
LEMMA SweptFact ==
    ASSUME ClientInv, NEW t \in Tab, NEW k \in Key
    PROVE  /\ Swept(t, k) \in Entries
           /\ Swept(t, k).scope = entry[k].scope /\ Swept(t, k).proof = entry[k].proof
           /\ \/ Swept(t, k).state = entry[k].state /\ Swept(t, k).owner = entry[k].owner
              \/ Pending(k) /\ Swept(t, k).state = "quarantined"
           /\ Swept(t, k).state = "pending" => Pending(k) /\ entry[k].scope = PumpScope(t)
<1>1. PICK x \in Entries : x = entry[k]
  BY InStore
<1>2. CASE Pending(k) /\ entry[k].scope # PumpScope(t)
  <2>1. Swept(t, k) = [Unlease(x) EXCEPT !.state = "quarantined"]
    BY <1>1, <1>2 DEF Swept
  <2> QED
    BY <1>1, <1>2, <2>1, ClientAssumption DEF Unlease, Entries, States
<1>3. CASE Mine(t, k) /\ entry[k].scope = PumpScope(t) /\ Running(t, k)
  <2>1. Swept(t, k) = [x EXCEPT !.leased = TRUE]
    BY <1>1, <1>3 DEF Swept
  <2>2. Pending(k)
    BY <1>3 DEF Mine
  <2> QED
    BY <1>1, <1>3, <2>1, <2>2 DEF Entries
<1>4. CASE ~(Pending(k) /\ entry[k].scope # PumpScope(t))
           /\ ~(Mine(t, k) /\ entry[k].scope = PumpScope(t) /\ Running(t, k))
  <2>1. Swept(t, k) = x
    BY <1>1, <1>4 DEF Swept
  <2> QED
    BY <1>1, <1>4, <2>1 DEF Pending
<1> QED
  BY <1>2, <1>3, <1>4

\* What is picked is pending, of the sign-in that picks it, and the first of its
\* target that the sweep leaves pending.
LEMMA PickFact ==
    ASSUME ClientInv, NEW t \in Tab, NEW k \in Picks(t)
    PROVE  /\ k \in Key /\ Queued(k) /\ Ready(t, k)
           /\ Pending(k) /\ entry[k].scope = PumpScope(t) /\ entry[k].scope \in Family
           /\ Swept(t, k).state = "pending"
<1>1. k \in ToSet(queue) /\ Ready(t, k) /\ Swept(t, k).state = "pending"
  BY DEF Picks, Ready
<1>2. Queued(k) /\ k \in Key
  BY <1>1 DEF ToSet, Queued, ClientInv, ClientType
<1>3. Pending(k) /\ entry[k].scope = PumpScope(t)
  BY <1>1, <1>2, SweptFact
<1>4. entry[k].scope \in Family
  BY <1>2, <1>3, InStore DEF EntryTrue, Pending
<1> QED
  BY <1>1, <1>2, <1>3, <1>4

LEMMA PumpStep ==
    ASSUME ClientInv, ServerInv, NEW t \in Tab, Pump(t)
    PROVE  ClientInv'
<1>0. ClientType /\ OnePlace /\ EntriesTrue /\ AnswersTrue /\ HeldTrue
      /\ LetGoTrue /\ released \subseteq Key /\ NoneOvertakes
  BY DEF ClientInv
<1>1. /\ Keeps /\ UNCHANGED <<queue, scope, frozen, wire, released>>
      /\ givenUp \subseteq givenUp' /\ late' = [late EXCEPT ![t] = {}]
  BY ServerRests DEF Pump
<1>2. PICK P \in SUBSET Key : P = Picks(t)
  BY PickFact
<1>3. /\ entry' = [k \in Key |->
            IF k \in P
            THEN [Swept(t, k) EXCEPT !.owner = t, !.leased = TRUE, !.attempts = 1]
            ELSE Swept(t, k)]
      /\ work' = [work EXCEPT ![t] = [k \in Key |->
            IF k \in P
            THEN [Idle EXCEPT !.stage = IF entry[k].attempts > 0 THEN "look" ELSE "post",
                              !.family = PumpScope(t)]
            ELSE work[t][k]]]
  BY <1>2 DEF Pump
<1>4. ASSUME NEW k \in P
      PROVE  /\ entry'[k] \in Entries /\ entry'[k].state = "pending" /\ Pending(k)
             /\ entry'[k].scope = entry[k].scope /\ entry'[k].proof = entry[k].proof
             /\ entry'[k].owner = t
             /\ entry[k].scope = PumpScope(t) /\ PumpScope(t) \in Family
  <2>1. k \in Key /\ Pending(k) /\ entry[k].scope = PumpScope(t) /\ entry[k].scope \in Family
        /\ Swept(t, k).state = "pending"
    BY <1>2, PickFact
  <2>2. PICK x \in Entries : x = Swept(t, k)
    BY <2>1, SweptFact
  <2>3. x.scope = entry[k].scope /\ x.proof = entry[k].proof /\ x.state = "pending"
    BY <2>1, <2>2, SweptFact
  <2>4. entry'[k] = [x EXCEPT !.owner = t, !.leased = TRUE, !.attempts = 1]
    BY <1>3, <2>1, <2>2
  <2>5. PICK e \in Entries : e = [x EXCEPT !.owner = t, !.leased = TRUE, !.attempts = 1]
    <3>1. 1 \in 0..1
      OBVIOUS
    <3> QED
      BY <3>1 DEF Entries
  <2>6. e.state = x.state /\ e.scope = x.scope /\ e.proof = x.proof /\ e.owner = t
    BY <2>5 DEF Entries
  <2> QED
    BY <2>1, <2>3, <2>4, <2>5, <2>6
<1>5. ASSUME NEW k \in Key \ P
      PROVE  /\ entry'[k] \in Entries
             /\ entry'[k].scope = entry[k].scope /\ entry'[k].proof = entry[k].proof
             /\ \/ entry'[k].state = entry[k].state /\ entry'[k].owner = entry[k].owner
                \/ Pending(k) /\ entry'[k].state = "quarantined"
             /\ entry'[k].state = "pending" => Swept(t, k).state = "pending"
  BY <1>3, SweptFact
<1>6. entry' \in [Key -> Entries]
  BY <1>3, <1>4, <1>5
<1>7. /\ work \in [Tab -> [Key -> Works]]
      /\ \A s \in Tab, k \in Key : s # t \/ k \notin P => work'[s][k] = work[s][k]
      /\ \A k \in P : work'[t][k] =
            [Idle EXCEPT !.stage = IF entry[k].attempts > 0 THEN "look" ELSE "post",
                         !.family = PumpScope(t)]
  BY <1>0, <1>3 DEF ClientType
<1>8. ASSUME NEW k \in P
      PROVE  /\ work'[t][k] \in Works /\ work'[t][k].family = PumpScope(t)
             /\ work'[t][k].stage \in {"look", "post"} /\ work'[t][k].answer = "none"
  <2>1. PICK v \in {"look", "post"} : v = IF entry[k].attempts > 0 THEN "look" ELSE "post"
    OBVIOUS
  <2>2. work'[t][k] = [stage |-> v, family |-> PumpScope(t), answer |-> "none",
                       heard |-> FALSE, saw |-> NoEntry]
    BY <1>7, <2>1 DEF Idle
  <2>3. PumpScope(t) \in Family
    BY <1>4
  <2> QED
    BY <2>1, <2>2, <2>3, IdleFact DEF Works, Stages
<1>9. work' \in [Tab -> [Key -> Works]]
  BY <1>3, <1>7, <1>8
<1>10. ClientType'
  BY <1>0, <1>1, <1>6, <1>9 DEF ClientType
<1>11. \A k \in Key : /\ entry'[k].state = "none" <=> entry[k].state = "none"
                      /\ Pending(k)' => Pending(k)
  BY <1>4, <1>5 DEF Pending
<1>12. OnePlace'
  BY <1>0, <1>1, <1>11 DEF OnePlace, Queued
<1>13. EntriesTrue'
  <2>1. ASSUME NEW k \in Key, NEW e \in Entries, entry'[k] = e PROVE EntryTrue(k, e)'
    <3>1. PICK x \in Entries : x = entry[k] /\ EntryTrue(k, x)
      BY InStore
    <3>2. EntryTrue(k, x)'
      BY <1>1, <3>1, EntryStays
    <3>3. /\ e.scope = x.scope /\ e.proof = x.proof
          /\ e.state = x.state \/ (x.state = "pending" /\ e.state = "quarantined")
      BY <1>4, <1>5, <2>1, <3>1 DEF Pending
    <3> QED
      BY <3>2, <3>3 DEF EntryTrue
  <2> QED
    BY <2>1 DEF EntriesTrue
<1>14. AnswersTrue'
  <2>1. ASSUME NEW k \in P, NEW w \in Works, work'[t][k] = w PROVE AnswerTrue(k, w)'
    BY <1>4, <1>8, <2>1 DEF AnswerTrue
  <2> QED
    BY <1>0, <1>1, <1>7, <2>1, AnswersKept
<1>15. HeldTrue'
  <2>1. ASSUME NEW s \in Tab, NEW k \in P, Mine(s, k)' PROVE entry'[k].scope = work'[s][k].family
    <3>1. s = t
      BY <1>4, <2>1 DEF Mine
    <3> QED
      BY <1>4, <1>8, <3>1
  <2>2. ASSUME NEW s \in Tab, NEW k \in Key \ P, Mine(s, k)', Running(s, k)'
        PROVE  entry'[k].scope = work'[s][k].family
    <3>1. Mine(s, k)
      BY <1>5, <2>2 DEF Mine, Pending
    <3>2. work'[s][k] = work[s][k] /\ Running(s, k)
      BY <1>7, <2>2 DEF Running
    <3> QED
      BY <1>0, <1>5, <3>1, <3>2 DEF HeldTrue
  <2> QED
    BY <2>1, <2>2 DEF HeldTrue
<1>16. LetGoTrue'
  BY <1>0, <1>1, LetGoKept
<1>17. ASSUME NEW k \in P PROVE NoneAhead(k)'
  <2>1. Queued(k) /\ Ready(t, k)
    BY <1>2, PickFact
  <2>2. PICK i \in DOMAIN queue : queue[i] = k
    BY <2>1 DEF Queued
  <2>3. queue \in Seq(Key) /\ i \in Int /\ \A j \in DOMAIN queue : j \in Int /\ queue[j] \in Key
    BY <1>0 DEF ClientType
  <2>4. ASSUME NEW j \in DOMAIN queue, j < i, Target[queue[j]] = Target[k], Pending(queue[j])'
        PROVE  FALSE
    <3>1. PICK x \in Key : x = queue[j]
      BY <2>3
    <3>2. entry'[x].state = "pending"
      BY <1>1, <2>4, <3>1 DEF Pending
    <3>3. Swept(t, x).state = "pending" /\ x \in ToSet(queue)
      <4>1. CASE x \in P
        BY <1>2, <4>1, PickFact, <3>1 DEF ToSet
      <4>2. CASE x \notin P
        BY <1>5, <3>1, <3>2, <4>2 DEF ToSet
      <4> QED
        BY <4>1, <4>2
    <3>4. j # i
      BY <2>3, <2>4
    <3>5. x # k
      BY <1>0, <2>2, <3>1, <3>4 DEF OnePlace
    <3>6. Before(k, x)
      BY <2>1, <2>4, <3>1, <3>3, <3>5 DEF Ready
    <3>7. Position(k) = i /\ Position(x) = j
      BY <2>2, <3>1, PositionIs
    <3> QED
      BY <2>3, <2>4, <3>6, <3>7 DEF Before
  <2>5. i \in DOMAIN queue' /\ queue'[i] = k
        /\ \A j \in DOMAIN queue' : j < i /\ Target[queue'[j]] = Target[k] => ~Pending(queue[j])'
    BY <1>1, <2>2, <2>4
  <2> QED
    BY <2>5 DEF NoneAhead
<1>18. ASSUME NEW k \in Key \ P PROVE NoneAhead(k)'
  <2>1. Out(k)' => Out(k)
    BY <1>1, <1>7 DEF Out, Running
  <2> QED
    BY <1>0, <1>1, <1>11, <2>1, AheadKept
<1>19. NoneOvertakes'
  BY <1>17, <1>18 DEF NoneOvertakes
<1> QED
  BY <1>0, <1>1, <1>10, <1>12, <1>13, <1>14, <1>15, <1>16, <1>19 DEF ClientInv

----------------------------------------------------------------------------

MutationInv == ServerInv /\ ClientInv

LEMMA MutationStart == Init => MutationInv
<1> SUFFICES ASSUME Init PROVE MutationInv
  OBVIOUS
<1>1. ServerInv
  BY ServerStart DEF Init
<1>2. /\ queue = <<>> /\ entry = [k \in Key |-> NoEntry]
      /\ work = [t \in Tab |-> [k \in Key |-> Idle]]
      /\ frozen = {} /\ wire = {} /\ released = {} /\ late = [t \in Tab |-> {}]
      /\ scope \in [Tab -> Family \cup {NoFamily}]
  BY DEF Init
<1>3. queue \in Seq(Key) /\ DOMAIN queue = {}
  BY <1>2
<1>4. ClientType
  BY <1>2, <1>3, IdleFact DEF ClientType
<1>5. /\ \A k \in Key : entry[k] = NoEntry /\ ~Pending(k)
      /\ \A t \in Tab, k \in Key : work[t][k] = Idle /\ ~Running(t, k)
  BY <1>2 DEF Pending, Running, Idle, NoEntry
<1>6. OnePlace
  BY <1>3, <1>5 DEF OnePlace, Queued, NoEntry
<1>7. EntriesTrue
  BY <1>5 DEF EntriesTrue, EntryTrue, NoEntry
<1>8. AnswersTrue
  BY <1>5, IdleTrue DEF AnswersTrue
<1>9. HeldTrue /\ LetGoTrue /\ released \subseteq Key
  BY <1>2, <1>5 DEF HeldTrue, LetGoTrue
<1>10. NoneOvertakes
  BY <1>2, <1>5 DEF NoneOvertakes, NoneAhead, Open, Out
<1> QED
  BY <1>1, <1>4, <1>6, <1>7, <1>8, <1>9, <1>10 DEF MutationInv, ClientInv

\* The steps of a tab for one key, each of which leaves the server alone.
KeyStep(t, k) ==
    \/ Run(t, k) \/ Look(t, k) \/ LookBarred(t, k) \/ Perform(t, k)
    \/ Fails(t, k) \/ ScopeLost(t, k)
    \/ Reconcile(t, k) \/ Reconciled(t, k) \/ ReconcileFails(t, k)
    \/ Acknowledge(t, k) \/ DismissReviewed(t, k)

LEMMA EndLeavesServer ==
    ASSUME NEW t, NEW k, NEW state, NEW proof, End(t, k, state, proof)
    PROVE  UNCHANGED serverVars
BY DEF End

LEMMA RefuseLeavesServer ==
    ASSUME NEW t, NEW k, NEW answer \in {"denied", "gone", "hidden", "clash", "invalid"},
           Refuse(t, k, answer)
    PROVE  UNCHANGED serverVars
BY EndLeavesServer DEF Refuse

LEMMA KeyStepLeavesServer ==
    ASSUME ClientInv, NEW t \in Tab, NEW k \in Key, KeyStep(t, k)
    PROVE  UNCHANGED serverVars
<1>0. PICK answer : answer = work[t][k].answer
  OBVIOUS
<1>1. AnswerTrue(k, work[t][k])
  BY InHand
<1>2. CASE Looked(t, k)
  <2>1. answer \in {"denied", "gone", "hidden", "applied", "conflict", "unknown"}
    BY <1>0, <1>1, <1>2 DEF Looked, Heard, AnswerTrue
  <2>2. CASE answer \in {"applied", "conflict"}
    BY <1>0, <1>2, <2>2, EndLeavesServer DEF Looked, Complete
  <2>3. CASE answer = "unknown"
    BY <1>0, <1>2, <2>3 DEF Looked, GoOn, Step
  <2>4. CASE answer \in {"denied", "gone", "hidden"}
    <3>1. Refuse(t, k, answer)
      BY <1>0, <1>2, <2>4 DEF Looked
    <3> QED
      BY <2>4, <3>1, RefuseLeavesServer
  <2> QED
    BY <2>1, <2>2, <2>3, <2>4
<1>3. CASE Sent(t, k)
  <2>1. answer \in {"accepted", "denied", "gone", "clash", "invalid"}
    BY <1>0, <1>1, <1>3 DEF Sent, Heard, AnswerTrue
  <2>2. CASE answer = "accepted"
    BY <1>0, <1>3, <2>2 DEF Sent, GoOn, Step
  <2>3. CASE answer # "accepted"
    <3>1. Refuse(t, k, answer)
      BY <1>0, <1>3, <2>3 DEF Sent
    <3> QED
      BY <2>1, <2>3, <3>1, RefuseLeavesServer
  <2> QED
    BY <2>2, <2>3
<1>4. CASE Checked(t, k)
  <2>1. answer \in {"denied", "gone", "hidden", "applied", "conflict", "unknown"}
    BY <1>0, <1>1, <1>4 DEF Checked, Heard, AnswerTrue
  <2>2. CASE answer \in {"applied", "conflict"}
    BY <1>0, <1>4, <2>2, EndLeavesServer DEF Checked, Complete
  <2>3. CASE answer \in {"unknown", "hidden"}
    BY <1>0, <1>4, <2>3, EndLeavesServer DEF Checked, Retry
  <2>4. CASE answer \in {"denied", "gone"}
    <3>1. Refuse(t, k, answer)
      BY <1>0, <1>4, <2>4 DEF Checked
    <3> QED
      BY <2>4, <3>1, RefuseLeavesServer
  <2> QED
    BY <2>1, <2>2, <2>3, <2>4
<1>5. CASE Run(t, k) \/ Look(t, k) \/ LookBarred(t, k) \/ Send(t, k) \/ Reconcile(t, k) \/ Reconciled(t, k)
           \/ ReconcileFails(t, k)
  BY <1>5 DEF Run, Look, LookBarred, Send, Reconcile, Reconciled, ReconcileFails, Step
<1>6. CASE Fails(t, k) \/ ScopeLost(t, k)
  BY <1>6, EndLeavesServer DEF Fails, Retry, ScopeLost
<1>7. CASE Acknowledge(t, k) \/ DismissReviewed(t, k)
  BY <1>7 DEF Acknowledge, DismissReviewed, LetGo
<1> QED
  BY <1>2, <1>3, <1>4, <1>5, <1>6, <1>7 DEF KeyStep, Perform

LEMMA KeyStepKeeps ==
    ASSUME ClientInv, ServerInv, NEW t \in Tab, NEW k \in Key, KeyStep(t, k)
    PROVE  ClientInv'
<1>1. CASE Run(t, k)
  BY <1>1, RunStep
<1>2. CASE Look(t, k) \/ LookBarred(t, k)
  BY <1>2, LookStep, LookBarredStep
<1>3. CASE Perform(t, k)
  BY <1>3, LookedStep, SendStep, SentStep, CheckedStep DEF Perform
<1>4. CASE Fails(t, k) \/ ScopeLost(t, k)
  BY <1>4, FailsStep
<1>5. CASE Reconcile(t, k)
  BY <1>5, ReconcileStep
<1>6. CASE Reconciled(t, k)
  BY <1>6, ReconciledStep
<1>7. CASE ReconcileFails(t, k)
  BY <1>7, ReconcileFailsStep
<1>8. CASE Acknowledge(t, k)
  BY <1>8, LetGoStep DEF Acknowledge, LetGo
<1>9. CASE DismissReviewed(t, k)
  BY <1>9, LetGoStep DEF DismissReviewed, LetGo
<1> QED
  BY <1>1, <1>2, <1>3, <1>4, <1>5, <1>6, <1>7, <1>8, <1>9 DEF KeyStep

TabMoves(t) ==
    Freeze(t) \/ Thaw(t) \/ Abandon(t) \/ \E f \in Family \cup {NoFamily} : Switch(t, f)

LEMMA TabMovesLeaveServer ==
    ASSUME NEW t \in Tab, TabMoves(t) \/ Pump(t)
    PROVE  UNCHANGED serverVars
BY DEF TabMoves, Pump, Freeze, Thaw, Abandon, Switch

LEMMA NextCases ==
    Next <=> \/ Upkeep
             \/ \E m \in wire : Serve(m)
             \/ \E k \in Key : LeaseEnds(k)
             \/ \E t \in Tab : Pump(t) \/ TabMoves(t) \/ \E k \in Key : KeyStep(t, k)
BY Zenon DEF Next, TabMoves, KeyStep

\* Every step is a step of the server or leaves it alone, and keeps the invariant.
LEMMA MutationStep ==
    ASSUME MutationInv, [Next]_vars
    PROVE  MutationInv' /\ [ServerNext]_serverVars
<1>0. ServerInv /\ ClientInv
  BY DEF MutationInv
<1>1. ASSUME [ServerNext]_serverVars, ClientInv' PROVE MutationInv' /\ [ServerNext]_serverVars
  BY <1>0, <1>1, ServerStep DEF MutationInv
<1>2. CASE Upkeep
  BY <1>0, <1>1, <1>2, UpkeepStep
<1>3. ASSUME NEW m \in wire, Serve(m) PROVE MutationInv' /\ [ServerNext]_serverVars
  BY <1>0, <1>1, <1>3, ServeStep
<1>4. ASSUME NEW k \in Key, LeaseEnds(k) PROVE MutationInv' /\ [ServerNext]_serverVars
  <2>1. UNCHANGED serverVars
    BY <1>4 DEF LeaseEnds
  <2> QED
    BY <1>0, <1>1, <1>4, <2>1, LeaseEndsStep
<1>5. ASSUME NEW t \in Tab, Pump(t) PROVE MutationInv' /\ [ServerNext]_serverVars
  BY <1>0, <1>1, <1>5, PumpStep, TabMovesLeaveServer
<1>6. ASSUME NEW t \in Tab, TabMoves(t) PROVE MutationInv' /\ [ServerNext]_serverVars
  <2>1. ClientInv'
    BY <1>0, <1>6, TabStep DEF TabMoves
  <2> QED
    BY <1>1, <1>6, <2>1, TabMovesLeaveServer
<1>7. ASSUME NEW t \in Tab, NEW k \in Key, KeyStep(t, k)
      PROVE  MutationInv' /\ [ServerNext]_serverVars
  BY <1>0, <1>1, <1>7, KeyStepKeeps, KeyStepLeavesServer
<1>8. CASE UNCHANGED vars
  <2>1. UNCHANGED <<serverVars, queue, entry, scope, late, work, frozen, wire, released, givenUp>>
    BY <1>8 DEF vars, clientVars, signIn
  <2>2. ClientType' /\ Keeps
    BY <1>0, <2>1, ServerRests DEF ClientInv, ClientType
  <2>3. ClientInv'
    BY <1>0, <2>1, <2>2, Passes DEF OnlyHeard
  <2> QED
    BY <1>1, <2>1, <2>3
<1> QED
  BY <1>2, <1>3, <1>4, <1>5, <1>6, <1>7, <1>8, NextCases

\* The store, the leases, the answers in hand and the receipts stay true to each
\* other, whatever tabs, keys and families there are.
THEOREM MutationInvariant == Spec => []MutationInv
<1>1. MutationInv /\ [Next]_vars => MutationInv'
  BY MutationStep
<1> QED
  BY <1>1, MutationStart, PTL DEF Spec

\* The coordinators, however many tabs run them and however they freeze, reload
\* or change their sign-in, use the server as one of its clients.
THEOREM IsAClient == Spec => ServerSpec
<1>1. Init => ServerInit
  BY DEF Init
<1>2. MutationInv /\ [Next]_vars => [ServerNext]_serverVars
  BY MutationStep
<1> QED
  BY <1>1, <1>2, MutationInvariant, PTL DEF Spec, ServerSpec

\* A change of the whole system takes effect at most once.
THEOREM MutationsApplyOnce == Spec => []AppliedOnce
BY IsAClient, EffectAtMostOnce, PTL

\* The client's state has its type, and a key is in the queue exactly while it
\* has an entry.
THEOREM MutationTypes == Spec => []TypeOK
<1>1. MutationInv => TypeOK
  <2> SUFFICES ASSUME ClientInv PROVE TypeOK
    BY DEF MutationInv
  <2>1. \A k \in Key : entry[k].state = "none" <=> k \notin ToSet(queue)
    BY DEF ClientInv, OnePlace, Queued, ToSet
  <2>2. ASSUME NEW t \in Tab, NEW k \in Key
        PROVE  work[t][k].stage \in Stages /\ work[t][k].answer \in Answers \cup {"none"}
    BY InHand DEF Works
  <2> QED
    BY <2>1, <2>2 DEF TypeOK, ClientInv, ClientType
<1> QED
  BY <1>1, MutationInvariant, PTL

\* What a person is told is saved was applied, under the sign-in that made it,
\* and a draft that is let go was applied or refused for good.
THEOREM PersonIsToldTheTruth == Spec => []ToldTheTruth
<1>1. MutationInv => ToldTheTruth
  <2> SUFFICES ASSUME ClientInv, ServerInv PROVE ToldTheTruth
    BY DEF MutationInv
  <2>1. ConfirmedWasApplied
    BY InStore DEF ConfirmedWasApplied, EntryTrue, Took
  <2>2. NoDraftLost
    <3>1. ASSUME NEW k \in released, TookKey(k)
          PROVE  \E f \in Family : <<k, f>> \in ToSet(applied)
      BY <3>1 DEF TookKey, Took, ToSet
    <3> QED
      BY <3>1 DEF ClientInv, LetGoTrue, NoDraftLost
  <2> QED
    BY <2>1, <2>2 DEF ToldTheTruth
<1> QED
  BY <1>1, MutationInvariant, PTL

\* Only a request in service changes what was applied, and it applies its key.
LEMMA ServeApplies ==
    ASSUME MutationInv, [Next]_vars, applied' # applied
    PROVE  \E m \in wire : Last(applied')[1] = m.key /\ ~Spent(m.key) /\ m.key \in Key
<1>0. ServerInv /\ ClientInv /\ ReceiptInv /\ applied \in Seq(Key \X Family)
  BY DEF MutationInv, ServerInv, ReceiptInv, ReceiptType
<1>1. ~UNCHANGED serverVars
  BY DEF serverVars
<1>2. ~Upkeep
  BY DEF Upkeep, Maintain, Prune, RetireAccount, SetClock, RetireFamily, RevokeFamily, EraseAccount
<1>3. PICK m \in wire : Serve(m)
  <2>1. ~UNCHANGED vars
    BY <1>1 DEF vars
  <2>2. ASSUME NEW k \in Key, LeaseEnds(k) PROVE FALSE
    BY <1>1, <2>2 DEF LeaseEnds
  <2>3. ASSUME NEW t \in Tab, Pump(t) \/ TabMoves(t) PROVE FALSE
    BY <1>1, <2>3, TabMovesLeaveServer
  <2>4. ASSUME NEW t \in Tab, NEW k \in Key, KeyStep(t, k) PROVE FALSE
    BY <1>0, <1>1, <2>4, KeyStepLeavesServer
  <2> QED
    BY <1>2, <2>1, <2>2, <2>3, <2>4, NextCases
<1>4. PICK k \in Key, f \in Family : k = m.key /\ f = m.family
  BY <1>0 DEF ClientInv, ClientType
<1>5. PICK answer \in Answers : Execute(f, k, answer)
  BY <1>3, <1>4 DEF Serve
<1>6. applied' = Append(applied, <<k, f>>)
  <2>1. FirstTime(f, k, answer)
    BY <1>5 DEF Execute, Replay
  <2> QED
    BY <2>1 DEF FirstTime
<1>7. PICK g \in Family, j \in Key, status \in {"applied", "conflict"} : Adds(g, j, status)
  <2>1. ServerNext
    BY <1>5 DEF ServerNext
  <2>2. Moves
    BY <1>0, <2>1, ReceiptStep DEF Good
  <2> QED
    BY <2>2 DEF Moves, Drops
<1>8. applied' = Append(applied, <<j, g>>) /\ ~Spent(j)
  BY <1>7 DEF Adds
<1>9. \A x \in Key \X Family : applied' = Append(applied, x) => Last(applied') = x
  BY <1>0 DEF Last
<1>10. Last(applied') = <<k, f>> /\ Last(applied') = <<j, g>>
  BY <1>6, <1>8, <1>9
<1>11. j = k
  BY <1>10
<1> QED
  BY <1>4, <1>8, <1>10, <1>11

\* A change takes effect only when nothing admitted before it for its target is
\* still pending, unless it was reported as failed before.
THEOREM EffectsKeepOrder == Spec => EffectsInOrder
<1>1. ASSUME MutationInv, [Next]_vars, applied' # applied
      PROVE  LET k == Last(applied')[1] IN
             k \in ToSet(queue) \ givenUp =>
                \A j \in ToSet(queue) : Target[j] = Target[k] /\ Before(j, k) => ~Pending(j)
  <2>0. ServerInv /\ ClientInv /\ ReceiptInv
    BY <1>1 DEF MutationInv, ServerInv
  <2>1. PICK m \in wire : Last(applied')[1] = m.key /\ ~Spent(m.key) /\ m.key \in Key
    BY <1>1, ServeApplies
  <2>2. PICK k \in Key : k = m.key
    BY <2>1
  <2>3. SUFFICES ASSUME k \notin givenUp, NEW j \in ToSet(queue), Target[j] = Target[k],
                        Before(j, k)
                 PROVE  ~Pending(j)
    BY <2>1, <2>2
  <2>4. Open(k)
    BY <2>0, <2>1, <2>2, <2>3, TookIsSpent DEF Open, Out
  <2>5. PICK i \in DOMAIN queue :
          /\ queue[i] = k
          /\ \A n \in DOMAIN queue : n < i /\ Target[queue[n]] = Target[k] => ~Pending(queue[n])
    BY <2>0, <2>4 DEF ClientInv, NoneOvertakes, NoneAhead
  <2>6. PICK n \in DOMAIN queue : queue[n] = j
    BY <2>3 DEF ToSet
  <2>7. Position(k) = i /\ Position(j) = n
    BY <2>0, <2>5, <2>6, PositionIs
  <2> QED
    BY <2>3, <2>5, <2>6, <2>7 DEF Before
<1> QED
  BY <1>1, MutationInvariant, PTL DEF Spec, EffectsInOrder

ConfirmedStays ==
    \A k \in Key : entry[k].state = "confirmed" => entry'[k].state \in {"confirmed", "none"}

LEMMA ConfirmedWhenEnds ==
    ASSUME ClientInv, NEW t \in Tab, NEW k \in Key, NEW state, NEW proof, End(t, k, state, proof)
    PROVE  ConfirmedStays
<1>1. CASE Mine(t, k)
  <2>1. Pending(k) /\ entry \in [Key -> Entries]
    BY <1>1 DEF Mine, ClientInv, ClientType
  <2>2. PICK e : entry' = [entry EXCEPT ![k] = e]
    BY <1>1 DEF End, Update
  <2> QED
    BY <2>1, <2>2 DEF ConfirmedStays, Pending
<1>2. CASE ~Mine(t, k)
  BY <1>2 DEF End, Update, ConfirmedStays
<1> QED
  BY <1>1, <1>2

LEMMA ConfirmedWhenRefused ==
    ASSUME ClientInv, NEW t \in Tab, NEW k \in Key,
           NEW answer \in {"denied", "gone", "hidden", "clash", "invalid"}, Refuse(t, k, answer)
    PROVE  ConfirmedStays
BY ConfirmedWhenEnds DEF Refuse

LEMMA ConfirmedInKeyStep ==
    ASSUME ClientInv, NEW t \in Tab, NEW k \in Key, KeyStep(t, k)
    PROVE  ConfirmedStays
<1>0. PICK answer : answer = work[t][k].answer
  OBVIOUS
<1>1. AnswerTrue(k, work[t][k]) /\ entry \in [Key -> Entries]
  BY InHand DEF ClientInv, ClientType
<1>2. CASE Looked(t, k)
  <2>1. answer \in {"denied", "gone", "hidden", "applied", "conflict", "unknown"}
    BY <1>0, <1>1, <1>2 DEF Looked, Heard, AnswerTrue
  <2>2. CASE answer \in {"applied", "conflict"}
    BY <1>0, <1>2, <2>2, ConfirmedWhenEnds DEF Looked, Complete
  <2>3. CASE answer = "unknown"
    BY <1>0, <1>2, <2>3 DEF Looked, GoOn, Step, ConfirmedStays
  <2>4. CASE answer \in {"denied", "gone", "hidden"}
    <3>1. Refuse(t, k, answer)
      BY <1>0, <1>2, <2>4 DEF Looked
    <3> QED
      BY <2>4, <3>1, ConfirmedWhenRefused
  <2> QED
    BY <2>1, <2>2, <2>3, <2>4
<1>3. CASE Sent(t, k)
  <2>1. answer \in {"accepted", "denied", "gone", "clash", "invalid"}
    BY <1>0, <1>1, <1>3 DEF Sent, Heard, AnswerTrue
  <2>2. CASE answer = "accepted"
    BY <1>0, <1>3, <2>2 DEF Sent, GoOn, Step, ConfirmedStays
  <2>3. CASE answer # "accepted"
    <3>1. Refuse(t, k, answer)
      BY <1>0, <1>3, <2>3 DEF Sent
    <3> QED
      BY <2>1, <2>3, <3>1, ConfirmedWhenRefused
  <2> QED
    BY <2>2, <2>3
<1>4. CASE Checked(t, k)
  <2>1. answer \in {"denied", "gone", "hidden", "applied", "conflict", "unknown"}
    BY <1>0, <1>1, <1>4 DEF Checked, Heard, AnswerTrue
  <2>2. CASE answer \in {"applied", "conflict"}
    BY <1>0, <1>4, <2>2, ConfirmedWhenEnds DEF Checked, Complete
  <2>3. CASE answer \in {"unknown", "hidden"}
    BY <1>0, <1>4, <2>3, ConfirmedWhenEnds DEF Checked, Retry
  <2>4. CASE answer \in {"denied", "gone"}
    <3>1. Refuse(t, k, answer)
      BY <1>0, <1>4, <2>4 DEF Checked
    <3> QED
      BY <2>4, <3>1, ConfirmedWhenRefused
  <2> QED
    BY <2>1, <2>2, <2>3, <2>4
<1>5. CASE Look(t, k) \/ LookBarred(t, k) \/ Send(t, k) \/ Reconcile(t, k) \/ ReconcileFails(t, k)
  BY <1>5 DEF Look, LookBarred, Send, Reconcile, ReconcileFails, Step, ConfirmedStays
<1>6. CASE Fails(t, k) \/ ScopeLost(t, k)
  BY <1>6, ConfirmedWhenEnds DEF Fails, Retry, ScopeLost
<1>7. CASE Acknowledge(t, k) \/ DismissReviewed(t, k)
  <2>1. entry' = [entry EXCEPT ![k] = NoEntry] /\ NoEntry.state = "none"
    BY <1>7 DEF Acknowledge, DismissReviewed, LetGo, NoEntry
  <2> QED
    BY <1>1, <2>1 DEF ConfirmedStays
<1>8. CASE Run(t, k)
  <2>1. entry[k].state = "none" /\ \E e : entry' = [entry EXCEPT ![k] = e]
    BY <1>8 DEF Run
  <2> QED
    BY <1>1, <2>1 DEF ConfirmedStays
<1>9. CASE Reconciled(t, k)
  <2>1. CASE entry' = entry
    BY <2>1 DEF ConfirmedStays
  <2>2. CASE answer = "conflict"
    <3>1. entry[k].state # "confirmed"
      BY <1>0, <2>2, NoConflictOfConfirmed
    <3>2. entry' = entry \/ entry' = [entry EXCEPT ![k].proof = answer, ![k].state = "review"]
      BY <1>0, <1>9, <2>2 DEF Reconciled
    <3>3. \A j \in Key : j # k => entry'[j] = entry[j]
      BY <1>1, <3>2
    <3> QED
      BY <3>1, <3>3 DEF ConfirmedStays
  <2>3. CASE answer = "applied" /\ entry' # entry
    <3>1. entry' = [entry EXCEPT ![k].proof = answer, ![k].state = "confirmed"]
      BY <1>0, <1>9, <2>3 DEF Reconciled
    <3>2. PICK x \in Entries : x = entry[k]
      BY <1>1
    <3>3. entry'[k] = [x EXCEPT !.proof = answer, !.state = "confirmed"]
          /\ \A j \in Key : j # k => entry'[j] = entry[j]
      BY <1>1, <3>1, <3>2
    <3>4. entry'[k].state = "confirmed"
      BY <3>2, <3>3 DEF Entries
    <3> QED
      BY <3>3, <3>4 DEF ConfirmedStays
  <2>4. answer \notin {"applied", "conflict"} => entry' = entry
    BY <1>0, <1>9 DEF Reconciled
  <2> QED
    BY <2>1, <2>2, <2>3, <2>4
<1> QED
  BY <1>2, <1>3, <1>4, <1>5, <1>6, <1>7, <1>8, <1>9 DEF KeyStep, Perform

LEMMA ConfirmedInPump ==
    ASSUME ClientInv, NEW t \in Tab, Pump(t)
    PROVE  ConfirmedStays
<1>1. SUFFICES ASSUME NEW k \in Key, entry[k].state = "confirmed"
               PROVE  entry'[k].state = "confirmed"
  BY DEF ConfirmedStays
<1>2. ~Pending(k)
  BY <1>1 DEF Pending
<1>3. k \notin Picks(t)
  BY <1>2, PickFact
<1>4. entry'[k] = Swept(t, k)
  BY <1>3 DEF Pump
<1> QED
  BY <1>1, <1>2, <1>4, SweptFact

\* A confirmed entry stays confirmed until it is let go, whichever tab comes back
\* late and whatever a reconcile finds.
THEOREM ConfirmedStaysConfirmed == Spec => ConfirmedIsFinal
<1>1. ASSUME MutationInv, [Next]_vars PROVE ConfirmedStays
  <2>0. ClientInv
    BY <1>1 DEF MutationInv
  <2>1. CASE entry' = entry
    BY <2>1 DEF ConfirmedStays
  <2>2. CASE Upkeep \/ UNCHANGED vars
    BY <2>1, <2>2 DEF Upkeep, vars, clientVars
  <2>3. ASSUME NEW m \in wire, Serve(m) PROVE ConfirmedStays
    BY <2>1, <2>3 DEF Serve
  <2>4. ASSUME NEW k \in Key, LeaseEnds(k) PROVE ConfirmedStays
    <3>1. entry \in [Key -> Entries] /\ Pending(k) /\ \E e : entry' = [entry EXCEPT ![k] = e]
      BY <2>0, <2>4 DEF LeaseEnds, ClientInv, ClientType
    <3> QED
      BY <3>1 DEF ConfirmedStays, Pending
  <2>5. ASSUME NEW t \in Tab, TabMoves(t) PROVE ConfirmedStays
    BY <2>1, <2>5 DEF TabMoves, Freeze, Thaw, Abandon, Switch
  <2> QED
    BY <1>1, <2>0, <2>2, <2>3, <2>4, <2>5, ConfirmedInPump, ConfirmedInKeyStep, NextCases
<1> QED
  BY <1>1, MutationInvariant, PTL DEF Spec, ConfirmedIsFinal, ConfirmedStays

=============================================================================
