----------------------------- MODULE StateToken -----------------------------
(***************************************************************************)
(* The signed state token of the scanner (sentrook/state/token.py).  The   *)
(* scanner keeps nothing between two scans of a session: what it has found *)
(* out travels in a token that the plugin stores and sends back.  The      *)
(* operators below are what the scanner does with a token: it verifies it  *)
(* for the request at hand, falls back to a fresh state when it cannot, and *)
(* mints the next one.                                                     *)
(***************************************************************************)
EXTENDS Naturals

CONSTANTS Sessions,  \* session_refs
          Facts,     \* what the sticky session flags can record
          None       \* the absent value (null in the code)

ASSUME NoneAssumption == None \notin Sessions

(* The claims of a token.  `key` is the key it was signed with; `known`     *)
(* stands for the flags; `seq` 0 is the null max_input_seq (input_seq       *)
(* starts at 1); equal `salt`s are equal hashes of equal entities.          *)
Tokens == [sid : Sessions \cup {None}, key : Nat, step : Nat, seq : Nat,
           salt : Nat, known : SUBSET Facts]

NoToken == [sid |-> None, key |-> 0, step |-> 0, seq |-> 0, salt |-> 0,
            known |-> {}]

(* decode_state's early returns, in their order.                           *)
TokenStatus(token, sid, key, expected) ==
  CASE token = NoToken /\ expected = 0 -> "first_step"
    [] token = NoToken /\ expected # 0 -> "missing"
    [] token # NoToken /\ token.key # key -> "invalid"
    [] token # NoToken /\ token.key = key /\ token.sid # sid -> "mismatch"
    [] token # NoToken /\ token.key = key /\ token.sid = sid
         /\ token.step # expected -> "stale"
    [] OTHER -> "valid"

(* The scanner still knows what earlier scans of the session found out:     *)
(* the negation of SessionState.fresh.                                     *)
Continues(token, sid, key, expected) ==
  TokenStatus(token, sid, key, expected) \in {"first_step", "valid"}

SessionState == [salt : Nat, seq : Nat, known : SUBSET Facts]

FreshState(salt) == [salt |-> salt, seq |-> 0, known |-> {}]

DecodeState(token, sid, key, expected, newSalt) ==
  IF TokenStatus(token, sid, key, expected) = "valid"
  THEN [salt |-> token.salt, seq |-> token.seq, known |-> token.known]
  ELSE FreshState(newSalt)

(* Mutant: the token is bound to the step after the one it answers.         *)
EncodeStateNext(state, sid, key, step) ==
  [sid |-> sid, key |-> key, step |-> step + 1, seq |-> state.seq,
   salt |-> state.salt, known |-> state.known]

EncodeState(state, sid, key, step) ==
  [sid |-> sid, key |-> key, step |-> step, seq |-> state.seq,
   salt |-> state.salt, known |-> state.known]

=============================================================================
