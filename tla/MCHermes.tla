------------------------------ MODULE MCHermes ------------------------------
(***************************************************************************)
(* HermesPlugin on small instances.  Host ids, actions and sessions are    *)
(* interchangeable where an instance lists all of them alike.              *)
(***************************************************************************)
EXTENDS HermesPlugin, TLC

Symmetry == Permutations(Sessions)

=============================================================================
