----------------------------- MODULE MCTenants -----------------------------
(***************************************************************************)
(* A small instance of Tenants: slots are interchangeable, and so are the  *)
(* ids that are not given to a tenant yet.                                 *)
(***************************************************************************)
EXTENDS Tenants, TLC

MCSymmetry == Permutations(Requests) \cup Permutations(Ids \ {Seeded})
=============================================================================
