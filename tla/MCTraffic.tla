----------------------------- MODULE MCTraffic -----------------------------
(***************************************************************************)
(* TrafficLog on a small instance.                                         *)
(***************************************************************************)
EXTENDS TrafficLog

CONSTANTS hooks, command

(* A record is three bytes, so a file is over after its first record.       *)
ChunkSizes == {1, 2, 4}
ReadBudgets == {4, 40}

Symmetric == Permutations(Instances)

=============================================================================
