-------------------------- MODULE MCUserMutations --------------------------
(***************************************************************************)
(* Bounded instance of UserMutations: two changes of one target, two tabs  *)
(* and two sign-ins.  Each budget is a family of behaviours of its own, so *)
(* the checked states are their union: two changes with a frozen or        *)
(* reloaded tab; one key used twice over a change of the sign-in and the   *)
(* server's upkeep; one key over clock steps, cleanups and a receipt that  *)
(* is withheld from its reader; two changes with a reconcile and such a    *)
(* receipt; and a freeze, a sign-in and a reconcile for a single change.   *)
(***************************************************************************)
EXTENDS UserMutations

CONSTANTS k1, k2

MCIssued == (k1 :> 0) @@ (k2 :> 1)
MCTarget == (k1 :> "pins") @@ (k2 :> "pins")

Allow(r1, r2, f, s, v, u, b) ==
    [runs |-> (k1 :> r1) @@ (k2 :> r2), freezes |-> f,
     switches |-> s, reviews |-> v, upkeep |-> u, bars |-> b]

MCBudgets == {Allow(1, 1, 1, 0, 0, 0, 0),
              Allow(2, 0, 0, 1, 0, 2, 0),
              Allow(2, 0, 0, 0, 0, 3, 1),
              Allow(1, 1, 0, 0, 1, 0, 1),
              Allow(1, 0, 1, 1, 1, 0, 0)}

LiveBudgets == {Allow(1, 0, 1, 0, 0, 0, 0), Allow(1, 0, 0, 1, 0, 0, 0),
                Allow(1, 0, 0, 0, 0, 1, 0), Allow(1, 0, 0, 0, 0, 0, 1)}

Sym == Permutations(Tab) \cup Permutations(Family)

=============================================================================
