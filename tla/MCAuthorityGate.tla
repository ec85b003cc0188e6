-------------------------- MODULE MCAuthorityGate --------------------------
(***************************************************************************)
(* Bounded instance of AuthorityGate.  Three leases let one lease be       *)
(* admitted, one be committing and one arrive after a rotation; two        *)
(* waiters let one still hold a channel the other has already left.        *)
(***************************************************************************)
EXTENDS AuthorityGate

=============================================================================
