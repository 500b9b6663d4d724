------------------------------- MODULE Episode -------------------------------
(***************************************************************************)
(* What the token protocol promises about the memory of the scanner: while *)
(* a session is intact nothing found out about it is forgotten, and where  *)
(* it is forgotten the session was visibly interrupted first.  The plugin, *)
(* the store and the scanner together implement it (HermesPlugin,          *)
(* EpisodeKept).                                                           *)
(***************************************************************************)
CONSTANTS Sessions, Facts

VARIABLES known,   \* what is remembered of each session
          intact   \* whether the next scan of each session starts from it

vars == <<known, intact>>

Init ==
  /\ known = [s \in Sessions |-> {}]
  /\ intact = [s \in Sessions |-> TRUE]

(* An answered scan, or no scan at all: an intact memory is kept or grows,  *)
(* an interrupted one is replaced by a new one.                            *)
Learn(s) ==
  /\ intact'[s]
  /\ intact[s] => known[s] \subseteq known'[s]

(* A failed scan, or a new signing key: the memory will not be read again.  *)
Interrupt(s) == intact[s] /\ ~intact'[s] /\ known'[s] = known[s]

(* What is stored during an interruption (an answer signed with the old     *)
(* key) is not read either.                                                *)
Ignore(s) == ~intact[s] /\ ~intact'[s]

Next ==
  /\ known' \in [Sessions -> SUBSET Facts]
  /\ intact' \in [Sessions -> BOOLEAN]
  /\ \A s \in Sessions : Learn(s) \/ Interrupt(s) \/ Ignore(s)

Spec == Init /\ [][Next]_vars

=============================================================================
