----------------------------- MODULE AiraSession -----------------------------
(***************************************************************************)
(* The AIRA probe over a session: batches of calls, each call scanned with  *)
(* the others as its siblings, the flags the token carries from one        *)
(* answered scan to the next, and what the history shows of fetches and of *)
(* writes with a secret's placeholder in them.                             *)
(***************************************************************************)
EXTENDS AiraRules

CONSTANTS
  Calls,       \* the calls of the session by name, as analysed
  Inner,       \* the content of each written file, as a command analysed
  Plugins,     \* packages that are plugins
  Steps,       \* the commands of a skill that a call saves, as analysed
  PackSets,    \* the packs of the deployments
  Window,      \* history_limit
  MaxCalls, MaxLosses  \* bounds of the runs

ASSUME SessionAssumption ==
  /\ Window \in Nat \ {0} /\ MaxCalls \in Nat /\ MaxLosses \in Nat
  /\ PackSets # {} /\ None \notin DOMAIN Calls

Library == DOMAIN Calls

VARIABLES
  packs,     \* of the deployment
  history,   \* the calls scanned so far
  flags,     \* of the token
  batch,     \* the calls of the turn
  answers,   \* envelopes of those already scanned, None for a scan that failed
  approved,  \* the host has approved the turn's calls
  losses,
  held       \* ghost: an answered scan since the last loss read credentials

vars == <<packs, history, flags, batch, answers, approved, losses, held>>

Init ==
  /\ packs \in PackSets /\ history = <<>> /\ flags = {} /\ batch = <<>> /\ answers = <<>>
  /\ approved = FALSE /\ losses = 0 /\ held = FALSE

CarriedSeq ==
  SubSeq(history, IF Len(history) > Window THEN Len(history) - Window + 1 ELSE 1, Len(history))
Carried == Range(CarriedSeq)

WritesOf(call) == IF call.kind \in WriteKinds THEN Destinations(call) ELSE {}

(* What preparation and the token give the detectors for this call.         *)

FilesOf(call) == IF call.kind \in {"file_write", "file_edit"} THEN Destinations(call) ELSE {}
Executed(call) == {p.path : p \in {q \in call.paths : "executable" \in q.roles}}

(* The last write of a file that the call runs, 0 if there is none.         *)
LastWrite(call) ==
  Max({0} \cup {i \in DOMAIN CarriedSeq : FilesOf(Calls[CarriedSeq[i]]) \cap Executed(call) # {}})

RunFile(call) ==
  LET last == IF call.kind = "exec" THEN LastWrite(call) ELSE 0
  IN  IF last = 0 THEN None ELSE CHOOSE p \in FilesOf(Calls[CarriedSeq[last]]) \cap Executed(call) : TRUE

Fetches(c) ==
  \/ Calls[c].kind = "web_fetch"
  \/ Calls[c].kind = "exec" /\ \E w \in UNION {Range(l) : l \in Calls[c].lines} : w \in FetchHeads

Context(call, siblings) ==
  [packs |-> packs, flags |-> flags, source |-> "pending", approved |-> approved,
   plugins |-> Plugins,
   entities |-> Known(call) \cup UNION {Known(Calls[c]) : c \in siblings \cup Carried},
   written |-> RunFile(call),
   fetched |-> call.kind = "exec" /\ \E i \in 1..LastWrite(call) - 1 : Fetches(CarriedSeq[i]),
   placeholders |-> UNION {WritesOf(Calls[c]) : c \in {d \in Carried \cup siblings : "placeholder" \in Calls[d].content}}]

(* The written file as a command; interpreter source has no shape.          *)
WrittenCall(call) ==
  LET file == RunFile(call)
  IN  IF file \notin DOMAIN Inner THEN None ELSE [Inner[file] EXCEPT !.cwd = call.cwd]

Batched(call, siblings, resolved) ==
  [pending |-> call, written |-> WrittenCall(call), resolved |-> resolved,
   siblings |-> {Calls[c] : c \in siblings}]

EnvelopeOf(c, siblings) ==
  AiraEnvelope(Batched(Calls[c], siblings, IF c \in DOMAIN Steps THEN Steps[c] ELSE {}),
               Context(Calls[c], siblings))
Alone(call) == AiraEnvelope(Batched(call, {}, {}), Context(call, {}))

Others(i) == {batch[j] : j \in DOMAIN batch \ {i}}

-----------------------------------------------------------------------------
Turn(calls, granted) ==
  /\ batch = <<>> /\ Len(history) + Len(calls) <= MaxCalls
  /\ batch' = calls /\ approved' = granted /\ answers' = <<>>
  /\ UNCHANGED <<packs, history, flags, losses, held>>

(* The next call of the turn is scanned; a scan that is answered returns a   *)
(* token with the flags its probes set.                                    *)
Scan(answered) ==
  LET i == Len(answers) + 1
  IN  /\ i \in DOMAIN batch
      /\ \E envelope \in {EnvelopeOf(batch[i], Others(i))} :
           /\ answers' = Append(answers, IF answered THEN envelope ELSE None)
           /\ flags' = IF answered THEN flags \cup envelope.flags ELSE flags
      /\ held' = (held \/ (answered /\ Credentials(Calls[batch[i]], Context(Calls[batch[i]], {})) # {}))
      /\ history' = Append(history, batch[i])
      /\ UNCHANGED <<packs, batch, approved, losses>>

EndTurn ==
  /\ batch # <<>> /\ Len(answers) = Len(batch)
  /\ batch' = <<>> /\ answers' = <<>> /\ approved' = FALSE
  /\ UNCHANGED <<packs, history, flags, losses, held>>

(* The token is lost, and the session starts afresh.                        *)
Lose ==
  /\ flags # {} /\ losses < MaxLosses
  /\ losses' = losses + 1 /\ flags' = {} /\ held' = FALSE
  /\ UNCHANGED <<packs, history, batch, answers, approved>>

Next ==
  \/ \E a \in Library, b \in Library \cup {None}, granted \in BOOLEAN :
       a # b /\ Turn(IF b = None THEN <<a>> ELSE <<a, b>>, granted)
  \/ \E answered \in BOOLEAN : Scan(answered)
  \/ EndTurn
  \/ Lose

Spec == Init /\ [][Next]_vars

-----------------------------------------------------------------------------
(* The properties look at every call of the library as the next one.        *)

Signals == {"sensitivity", "reach", "irreversibility", "self_modification", "concealment"}
Value(envelope, signal) == ValueOr(envelope.claims, signal, 0)

CarriesSecrets(e) ==
  Value(e, "sensitivity") >= 800 /\ Value(e, "reach") = Scale /\ Value(e, "irreversibility") = Scale

(* After credentials were read in a scan that was answered, every send off   *)
(* the host is scored as carrying them, until the token is lost.            *)
SecretsFollow ==
  held => \A c \in Library : Sinks(Calls[c]) # {} => CarriesSecrets(EnvelopeOf(c, {}))

TamperingIn(c, siblings) == Guardrail(Calls[c], Context(Calls[c], siblings))

(* A call of a batch that tampers with a guardrail lifts every call of the   *)
(* batch: none of its answers comes without the floor.                      *)
TamperingCoversBatch ==
  \A i \in DOMAIN answers : answers[i] # None =>
    \A j \in DOMAIN batch :
      LET found == TamperingIn(batch[j], Others(j))
      IN  found # {} =>
            /\ Value(answers[i], "self_modification") = Scale
            /\ (\E f \in found : f.floors # {}) =>
                 \E f \in answers[i].floors : f.floor = "guardrail_tampering"

=============================================================================
