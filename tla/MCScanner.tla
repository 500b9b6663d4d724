----------------------------- MODULE MCScanner -----------------------------
(***************************************************************************)
(* Scanner on small instances.                                             *)
(***************************************************************************)
EXTENDS Scanner

CONSTANTS good, bad

LibraryVerdict == [e \in {good, bad} |-> IF e = good THEN "known_good" ELSE "known_bad"]

OwnersCall(e) == [use |-> e, request |-> FALSE, owner |-> TRUE, grant |-> FALSE,
                  secret |-> FALSE]

(* A call of the agent's own to either entity, one the owner granted, one   *)
(* that reads a secret.                                                    *)
SessionCalls ==
  {OwnersCall(good), [OwnersCall(bad) EXCEPT !.grant = TRUE],
   [OwnersCall(None) EXCEPT !.secret = TRUE]}

Text(shown, names, instructs) ==
  [shown |-> shown, names |-> names, instructs |-> instructs]

SessionTexts ==
  {Text("text", good, FALSE), Text("text", bad, TRUE), Text("dropped", good, TRUE),
   Text("empty", None, FALSE)}

(* A send to either entity, relieved in each of the ways there are, and in  *)
(* none.                                                                   *)
RelievedCalls ==
  {[OwnersCall(e) EXCEPT !.request = named, !.owner = byOwner, !.grant = granted] :
     e \in {good, bad}, named \in BOOLEAN, byOwner \in BOOLEAN, granted \in BOOLEAN}

OneCall == {OwnersCall(good)}
OneText == {Text("text", good, FALSE)}

=============================================================================
