----------------------------- MODULE MCService -----------------------------
(***************************************************************************)
(* ScanService on small instances: callers are interchangeable.            *)
(***************************************************************************)
EXTENDS ScanService, TLC

=============================================================================
