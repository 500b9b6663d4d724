------------------------------- MODULE MCOwner -------------------------------
(***************************************************************************)
(* OwnerStore on small instances.  Ids and sessions are interchangeable, and *)
(* so are the threads of one process.                                      *)
(***************************************************************************)
EXTENDS OwnerStore, TLC

Symmetry == Permutations(Threads) \cup Permutations(Ids) \cup Permutations(Sessions)

=============================================================================
