----------------------- MODULE MCSubscriptionService -----------------------
(***************************************************************************)
(* Instances of SubscriptionService for TLC.  The publish transactions and *)
(* the sessions are interchangeable.                                       *)
(***************************************************************************)
EXTENDS SubscriptionService

Symmetry == Permutations(Trx) \cup Permutations(Session)
=============================================================================
