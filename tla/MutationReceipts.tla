-------------------------- MODULE MutationReceipts --------------------------
(***************************************************************************)
(* internal/usermutation: the receipts that make a user's change safe to   *)
(* retry.  A change carries a key that holds the time it was issued.  One  *)
(* writer transaction runs Check, the domain effect and Save, so it is one *)
(* action, Execute; LookupTx only reads.  A receipt may be deleted once a  *)
(* durable cutoff rejects its key, and the cutoffs are kept per server and *)
(* per account.  The module follows one account and its sign-in families.  *)
(*                                                                         *)
(* `horizon' is now-RetentionMs of the wall clock, which an operator may   *)
(* set back (by less than FutureSkewMs, so that no key becomes a future    *)
(* one); the cutoffs never move back.                                      *)
(***************************************************************************)
EXTENDS Naturals, Sequences, FiniteSets

CONSTANTS
    Key,        \* the mutation keys
    Family,     \* the sign-in families of the account
    NoFamily,   \* no family: a key without a receipt, a tab signed out
    Issued,     \* IssuedMs of each key
    MaxTime,    \* bound on the times considered
    PruneLimit, \* most receipts one cleanup deletes
    Outcomes    \* what the domain may make of a change that is new to it

ASSUME ReceiptAssumption ==
    /\ NoFamily \notin Family
    /\ MaxTime \in Nat
    /\ Issued \in [Key -> Nat]
    /\ PruneLimit \in Nat
    /\ Outcomes \subseteq {"applied", "conflict", "clash", "invalid", "gone"}

VARIABLES
    receipts,   \* user_mutation_receipts: family and status, by key
    globalCut,  \* user_mutation_global.retired_before_ms
    accountCut, \* user_mutation_accounts.retired_before_ms
    horizon,    \* the wall clock less RetentionMs
    revoked,    \* the families whose authority was revoked
    erased,     \* the account was erased: owner_account_id is NULL
    applied,    \* history: the effects in commit order, <<key, family>>
    refusals    \* history: the keys a family was refused for good

serverVars == <<receipts, globalCut, accountCut, horizon, revoked, erased,
                applied, refusals>>

NoReceipt == [family |-> NoFamily, status |-> "none"]

Answers == {"applied", "conflict", "accepted", "unknown", "hidden", "gone", "denied",
            "clash", "invalid"}

MaxOf(a, b) == IF a < b THEN b ELSE a

Has(k) == receipts[k] # NoReceipt

\* The bindings of a receipt, cut down to the family it was committed for.
Bound(f, k) == receipts[k].family = f

\* The cutoff a request is measured against.
Cutoff == MaxOf(MaxOf(globalCut, accountCut), horizon)

\* The cutoffs that outlive a clock set back.
DurableCut == MaxOf(globalCut, accountCut)

Expired(k) == Issued[k] < Cutoff

----------------------------------------------------------------------------

ServerInit ==
    /\ receipts = [k \in Key |-> NoReceipt]
    /\ globalCut = 0 /\ accountCut = 0 /\ horizon = 0
    /\ revoked = {} /\ erased = FALSE
    /\ applied = <<>> /\ refusals = {}

\* LookupTx finds a receipt of this family.
Finds(f, k) == f \notin revoked /\ ~Expired(k) /\ Has(k) /\ Bound(f, k)

\* LookupTx and the route that calls it.  A receipt of another family is
\* reported as unknown, never shown.
LookupAnswer(f, k) ==
    CASE f \in revoked -> "denied"
      [] f \notin revoked /\ Expired(k) -> "gone"
      [] Finds(f, k) -> receipts[k].status
      [] OTHER -> "unknown"

\* Check advances the global cutoff in the same transaction.
Advanced == MaxOf(globalCut, horizon)

\* Check refuses, or replays the receipt of the same family; the transaction
\* of a refused request is rolled back.
Replay(f, k, answer) ==
    /\ \/ f \in revoked /\ answer = "denied" /\ UNCHANGED globalCut
       \/ f \notin revoked /\ Expired(k) /\ answer = "gone" /\ UNCHANGED globalCut
       \/ /\ f \notin revoked /\ ~Expired(k) /\ Has(k)
          /\ answer = IF Bound(f, k) THEN "accepted" ELSE "clash"
          /\ globalCut' = IF Bound(f, k) THEN Advanced ELSE globalCut
    /\ refusals' = IF answer = "clash" THEN refusals \cup {<<k, f>>} ELSE refusals
    /\ UNCHANGED <<receipts, applied>>

\* A new key: the domain applies the change, or records a conflict, with its
\* receipt; or it refuses and nothing of the transaction remains.
FirstTime(f, k, answer) ==
    /\ f \notin revoked /\ ~Expired(k) /\ ~Has(k)
    /\ \/ /\ answer = "accepted"
          /\ \E status \in {"applied", "conflict"} \cap Outcomes :
                /\ receipts' = [receipts EXCEPT ![k] = [family |-> f, status |-> status]]
                /\ applied' = IF status = "applied" THEN Append(applied, <<k, f>>)
                                                    ELSE applied
                /\ refusals' = IF status = "conflict" THEN refusals \cup {<<k, f>>}
                                                      ELSE refusals
          /\ globalCut' = Advanced
       \/ /\ answer \in {"clash", "invalid", "gone"} \cap Outcomes
          /\ refusals' = IF answer = "gone" THEN refusals   \* the target is not found
                         ELSE refusals \cup {<<k, f>>}
          /\ UNCHANGED <<receipts, applied, globalCut>>

\* One request's writer transaction and the answer it gives.
Execute(f, k, answer) ==
    /\ Replay(f, k, answer) \/ FirstTime(f, k, answer)
    /\ UNCHANGED <<accountCut, horizon, revoked, erased>>

----------------------------------------------------------------------------
(* Cleanup: at most one of these per writer transaction. *)

Delete(ks) == receipts' = [k \in Key |-> IF k \in ks THEN NoReceipt ELSE receipts[k]]

\* What one bounded cleanup may delete of ks: the oldest of them.
Oldest(ks) == {d \in SUBSET ks :
                 /\ \/ d = ks /\ Cardinality(ks) <= PruneLimit
                    \/ Cardinality(d) = PruneLimit /\ d # ks
                 /\ \A i \in d, j \in ks \ d : Issued[i] <= Issued[j]}

\* An erased account's receipts go first, whatever their age, then what is left
\* of a retired account (cleanup_pending), then what the global cutoff rejects.
Prunable ==
    LET retired == {k \in Key : Has(k) /\ Issued[k] < accountCut} IN
    CASE erased -> {k \in Key : Has(k)}
      [] ~erased /\ retired # {} -> retired
      [] OTHER -> {k \in Key : Has(k) /\ Issued[k] < Advanced}

\* Prune, the maintenance pass: the cutoff moves before anything is deleted.
Prune ==
    /\ globalCut' = Advanced
    /\ \E d \in Oldest(Prunable) : Delete(d)
    /\ UNCHANGED <<accountCut, horizon, revoked, erased, applied, refusals>>

\* RetireAccount: the account's cutoff moves before anything is deleted.
RetireAccount(cut) ==
    /\ ~erased
    /\ accountCut' = MaxOf(accountCut, cut)
    /\ \E d \in Oldest({k \in Key : Has(k) /\ Issued[k] < accountCut'}) : Delete(d)
    /\ UNCHANGED <<globalCut, horizon, revoked, erased, applied, refusals>>

\* Mutant: every receipt of the family goes.
RetireFamilyAtOnce(f) ==
    /\ f \in revoked
    /\ \E d \in Oldest({k \in Key : Has(k) /\ Bound(f, k)}) : Delete(d)
    /\ UNCHANGED <<globalCut, accountCut, horizon, revoked, erased, applied, refusals>>

\* RetireFamily, whose caller revokes the family first.
RetireFamily(f) ==
    /\ f \in revoked
    /\ \E d \in Oldest({k \in Key : Has(k) /\ Bound(f, k) /\ Issued[k] < DurableCut}) :
          Delete(d)
    /\ UNCHANGED <<globalCut, accountCut, horizon, revoked, erased, applied, refusals>>

\* The rest of the server: sign-outs, erasure, and the clock in both directions.
RevokeFamily(f) ==
    /\ revoked' = revoked \cup {f}
    /\ UNCHANGED <<receipts, globalCut, accountCut, horizon, erased, applied, refusals>>

EraseAccount ==
    /\ erased' = TRUE
    /\ revoked' = Family
    /\ UNCHANGED <<receipts, globalCut, accountCut, horizon, applied, refusals>>

SetClock(t) ==
    /\ horizon' = t
    /\ UNCHANGED <<receipts, globalCut, accountCut, revoked, erased, applied, refusals>>

Maintain ==
    \/ Prune
    \/ \E cut \in 0..MaxTime : RetireAccount(cut) \/ SetClock(cut)
    \/ \E f \in Family : RetireFamily(f) \/ RevokeFamily(f)
    \/ EraseAccount

\* The server on its own, with any client.
ServerNext ==
    \/ \E f \in Family, k \in Key, answer \in Answers : Execute(f, k, answer)
    \/ Maintain

ServerSpec == ServerInit /\ [][ServerNext]_serverVars

----------------------------------------------------------------------------

\* A change takes effect at most once, however often and under whichever
\* family its key is sent, and although its receipt is deleted in the end.
AppliedOnce ==
    \A i, j \in DOMAIN applied : applied[i][1] = applied[j][1] => i = j

=============================================================================
