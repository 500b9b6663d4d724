---------------------------- MODULE HermesPlugin ----------------------------
(***************************************************************************)
(* The Hermes plugin's scan protocol (integrations/hermes/plugin):         *)
(* __init__.py's hooks, build_planir of planir.py and the session and      *)
(* review files of store.py, with the scanner at the other end of          *)
(* post_scan.  One action per hook, split where another thread, another    *)
(* session or a crash can come in between.                                 *)
(*                                                                         *)
(* A session file is read and written under the session's lock.  The lock  *)
(* of session s is taken exactly while scan[s] is not Idle: pre_tool_call  *)
(* keeps it over the HTTP request, so the other hooks wait.                *)
(***************************************************************************)
EXTENDS Naturals, Sequences, StateToken, PlanirCheck, PluginPolicy

CONSTANTS HostIds,       \* tool_call_ids of the host
          Actions,       \* what a tool call can do
          Plain,         \* the actions with no entity to hash
          Risks,         \* risks the scanner can answer with
          Unattended,    \* sessions nobody can answer a review of
          IdReuse,       \* how often a host id may occur in one turn
          HistoryLimit,  \* history_limit of the configuration
          SeenKeep,      \* save_session keeps 2000 seen call ids
          ReviewsKeep,   \* put_review keeps 500 reviews
          MaxTurns, MaxReqs, MaxBatch, MaxKeys  \* bounds of a run

ASSUME HostAssumption ==
  /\ None \notin HostIds /\ None \notin Actions
  /\ Plain \subseteq Actions /\ Unattended \subseteq Sessions /\ Risks \subseteq Nat
  /\ IdReuse \in Nat /\ MaxTurns \in Nat /\ MaxReqs \in Nat
  /\ MaxBatch \in Nat /\ MaxKeys \in Nat

ASSUME LimitAssumption ==
  /\ HistoryLimit \in Nat \ {0} /\ ReviewsKeep \in Nat \ {0}
  /\ SeenKeep \in Nat /\ SeenKeep >= 2 * HistoryLimit

VARIABLES
  session,  \* the session files: what store.py persists of each session
  reviews,  \* reviews.json: the open approval prompts, oldest first
  scan,     \* the pre_tool_call at work on each session, or Idle
  calls,    \* the host's tool calls of each session's current message
  used,     \* how often each host id occurred in the current turn
  key,      \* the scanner's signing key
  nextReq,  \* the next request_id
  lost      \* requests whose review was overwritten, evicted, answered by
            \* another call's prompt, or whose answer could not be written

vars == <<session, reviews, scan, calls, used, key, nextReq, lost>>

-----------------------------------------------------------------------------
(* Data.                                                                   *)

Newest(q, n) ==
  LET drop == IF Len(q) > n THEN Len(q) - n ELSE 0
  IN  [i \in 1..(Len(q) - drop) |-> q[i + drop]]

(* A call_id is the host's id, "turn:id" for a repeat, "turn:step" without. *)
CallIds == [turn : Nat, id : HostIds \cup {None}, step : Nat]

(* An action fingerprint: with no entity it carries no salted hash.         *)
Fingerprints == [action : Actions \cup {None}, salt : Nat]
NoFp == [action |-> None, salt |-> 0]
FingerprintOf(action, salt) ==
  [action |-> action, salt |-> IF action \in Plain THEN 0 ELSE salt]

(* _rule_key, and the "sentrook:error:" key of a request with no scan.      *)
RuleKeys == [fp : Fingerprints, req : Nat]
RuleKey(fp, req) == [fp |-> fp, req |-> IF fp = NoFp THEN req ELSE 0]

Entries == [step : Nat, turn : Nat, call : CallIds, host : HostIds \cup {None},
            fp : Fingerprints, decision : Decisions, req : Nat]

Inputs == [seq : Nat, call : CallIds, facts : SUBSET Facts]

SessionFiles == [next : Nat, inputSeq : Nat, token : Tokens, turn : Nat,
                 seen : Seq(HostIds), history : Seq(Entries),
                 buffer : SUBSET Inputs]

EmptySession == [next |-> 1, inputSeq |-> 0, token |-> NoToken, turn |-> 0,
                 seen |-> <<>>, history |-> <<>>, buffer |-> {}]

Requests == [id : Nat, step : Nat, turn : Nat, token : Tokens,
             pending : CallIds, siblings : SUBSET CallIds,
             history : Seq(Entries), inputs : SUBSET Inputs]

Reviews == [key : RuleKeys, sid : Sessions, req : Nat, onError : BOOLEAN]

(* The pre_tool_call at work: before the answer ("sent") and when the       *)
(* verdict is in, but not yet saved ("decided").                           *)
Idle == [phase |-> "idle"]
Sent == [phase : {"sent"}, call : Nat \ {0}, sess : SessionFiles, req : Requests]
Decided == [phase : {"decided"}, call : Nat \ {0}, sess : SessionFiles,
            req : Requests, directive : {"run", "block", "approve"}, rule : RuleKeys]

(* A call of the host, with the request that scanned it, the rule key it    *)
(* was asked under, and the answer still to be written into a history.      *)
Answers == [sid : Sessions, req : Nat, final : Decisions, choice : Choices]
States == {"new", "scanning", "asking", "answering", "running", "refused", "done"}
HostCalls == [host : HostIds \cup {None}, action : Actions, st : States,
              req : Nat, rule : RuleKeys, answer : Answers \cup {None}]

NewCall(host, action) ==
  [host |-> host, action |-> action, st |-> "new", req |-> 0,
   rule |-> RuleKey(NoFp, 0), answer |-> None]

-----------------------------------------------------------------------------
Init ==
  /\ session = [s \in Sessions |-> EmptySession]
  /\ reviews = <<>>
  /\ scan = [s \in Sessions |-> Idle]
  /\ calls = [s \in Sessions |-> <<>>]
  /\ used = [s \in Sessions |-> [h \in HostIds |-> 0]]
  /\ key = 1
  /\ nextReq = 1
  /\ lost = {}

(* Mutant: the lock is released once the answer is in, before the write.    *)
UnlockedEarly(s) == scan[s] = Idle \/ scan[s].phase = "decided"

Unlocked(s) == scan[s] = Idle

(* save_session: the history and the seen ids are trimmed on every write.   *)
Saved(sess) ==
  [sess EXCEPT !.history = Newest(@, 2 * HistoryLimit), !.seen = Newest(@, SeenKeep)]

SetCall(s, i, c) == calls' = [calls EXCEPT ![s] = [@ EXCEPT ![i] = c]]

-----------------------------------------------------------------------------
(* The host: a turn, and a message with its tool calls.                    *)

(* Nothing of the current message is still to run.  Whether the host reports *)
(* a call it refused to run is left open.                                  *)
Over(s) == \A i \in DOMAIN calls[s] : calls[s][i].st \in {"refused", "done"}

InNextTurn(sess) == [sess EXCEPT !.turn = @ + 1]

(* on_pre_llm_call.  The host starts a turn when the last one is over.      *)
PreLlmCall(s) ==
  /\ Unlocked(s)
  /\ session[s].turn < MaxTurns
  /\ Over(s)
  /\ session' = [session EXCEPT ![s] = Saved(InNextTurn(@))]
  /\ calls' = [calls EXCEPT ![s] = <<>>]
  /\ used' = [used EXCEPT ![s] = [h \in HostIds |-> 0]]
  /\ UNCHANGED <<reviews, scan, key, nextReq, lost>>

(* on_post_api_request: merge_turn records the batch, whose ids the model's *)
(* provider chose.  Distinct within a message; IdReuse says what a provider *)
(* may do within a turn.                                                   *)
PostApiRequest(s) ==
  /\ session[s].turn > 0
  /\ Over(s)
  /\ \E n \in 1..MaxBatch :
       \E host \in [1..n -> HostIds \cup {None}], act \in [1..n -> Actions] :
         /\ \A i, j \in 1..n : i # j /\ host[i] = host[j] => host[i] = None
         /\ \A i \in 1..n : host[i] # None => used[s][host[i]] < IdReuse
         /\ calls' = [calls EXCEPT ![s] = [i \in 1..n |-> NewCall(host[i], act[i])]]
         /\ used' = [used EXCEPT ![s] =
              [h \in HostIds |-> IF \E i \in 1..n : host[i] = h THEN @[h] + 1 ELSE @[h]]]
  /\ UNCHANGED <<session, reviews, scan, key, nextReq, lost>>

-----------------------------------------------------------------------------
(* on_pre_tool_call.                                                       *)

InSeq(x, q) == \E i \in DOMAIN q : q[i] = x

(* Mutant: a repeat is not re-minted.                                       *)
CallIdAsGiven(sess, host) ==
  IF host = None THEN [turn |-> sess.turn, id |-> None, step |-> sess.next]
  ELSE [turn |-> 0, id |-> host, step |-> 0]

(* "Host ids are not reliable across a session; re-mint a repeat."          *)
CallIdFor(sess, host) ==
  CASE host = None -> [turn |-> sess.turn, id |-> None, step |-> sess.next]
    [] host # None /\ InSeq(host, sess.seen) ->
         [turn |-> sess.turn, id |-> host, step |-> 0]
    [] OTHER -> [turn |-> 0, id |-> host, step |-> 0]

SiblingIds(batch, host) ==
  {[turn |-> 0, id |-> batch[i].host, step |-> 0] :
     i \in {j \in DOMAIN batch : batch[j].host \notin {None, host}}}

(* The inputs a request carries: those of calls in the history window.      *)
SentInputs(sess) ==
  LET window == Newest(sess.history, HistoryLimit)
  IN  {it \in sess.buffer : \E i \in DOMAIN window : window[i].call = it.call}

(* build_planir: the request, and what it does to the session in memory.    *)
Request(sess, batch, host, id) ==
  [id |-> id, step |-> sess.next, turn |-> sess.turn, token |-> sess.token,
   pending |-> CallIdFor(sess, host), siblings |-> SiblingIds(batch, host),
   history |-> Newest(sess.history, HistoryLimit), inputs |-> SentInputs(sess)]

(* Mutant: a call without an id is remembered as seen.                      *)
NumberedAlways(sess, host) ==
  [sess EXCEPT !.next = @ + 1, !.seen = Append(@, host)]

Numbered(sess, host) ==
  [sess EXCEPT !.next = @ + 1,
               !.seen = IF host = None THEN @ ELSE Append(@, host)]

PreToolCall(s, i) ==
  LET c == calls[s][i]
  IN  /\ Unlocked(s)
      /\ c.st = "new"
      /\ nextReq <= MaxReqs
      /\ nextReq' = nextReq + 1
      /\ scan' = [scan EXCEPT ![s] =
           [phase |-> "sent", call |-> i, sess |-> Numbered(session[s], c.host),
            req |-> Request(session[s], calls[s], c.host, nextReq)]]
      /\ SetCall(s, i, [c EXCEPT !.st = "scanning", !.req = nextReq])
      /\ UNCHANGED <<session, reviews, used, key, lost>>

(* put_review: a rule key has one review; the oldest ones are dropped.      *)
PutReview(rs, r) ==
  IF \E i \in DOMAIN rs : rs[i].key = r.key
  THEN [i \in DOMAIN rs |-> IF rs[i].key = r.key THEN r ELSE rs[i]]
  ELSE Newest(Append(rs, r), ReviewsKeep)

OpenReqs(rs) == {rs[i].req : i \in DOMAIN rs}

Ask(s, directive, rule, req, onError) ==
  /\ reviews' = IF directive = "approve"
                THEN PutReview(reviews, [key |-> rule, sid |-> s, req |-> req,
                                         onError |-> onError])
                ELSE reviews
  /\ lost' = lost \cup (OpenReqs(reviews) \ OpenReqs(reviews'))

(* The history entry of the call being scanned.                            *)
Entry(s, fp, decision) ==
  LET req == scan[s].req
  IN  [step |-> req.step, turn |-> req.turn, call |-> req.pending,
       host |-> calls[s][scan[s].call].host, fp |-> fp,
       decision |-> decision, req |-> req.id]

Conclude(s, sess, directive, rule) ==
  scan' = [scan EXCEPT ![s] =
    [phase |-> "decided", call |-> @.call, sess |-> sess, req |-> @.req,
     directive |-> directive, rule |-> rule]]

(* The scanner's side of an answered request: it decodes the token, finds   *)
(* out something from the inputs it has not scanned (a probe that fails     *)
(* finds nothing), and mints the next token.                               *)
NewInputs(req, state) == {it \in req.inputs : it.seq > state.seq}

ScannerState(s) ==
  LET req == scan[s].req
  IN  DecodeState(req.token, s, key, req.step - 1, req.id)

(* scanned_max_seq: the highest of the numbers sent and the one known.      *)
IsMaxSeq(top, req, state) ==
  top >= state.seq /\ \A it \in req.inputs : top >= it.seq

(* Mutant: the token carries only what this scan found out.                 *)
NextTokenForgets(s, top, learned) ==
  EncodeState([ScannerState(s) EXCEPT !.seq = top, !.known = learned],
              s, key, scan[s].req.step)

NextToken(s, top, learned) ==
  EncodeState([ScannerState(s) EXCEPT !.seq = top, !.known = @ \cup learned],
              s, key, scan[s].req.step)

(* What an answered scan and a failed one leave in the session: an answer   *)
(* replaces the token and empties the buffer, a failure only spends a step. *)
Scanned(sess, token, entry) ==
  [sess EXCEPT !.token = token, !.buffer = {}, !.history = Append(@, entry)]

(* Mutant: a failed scan empties the buffer too.                            *)
UnscannedCleared(sess, entry) ==
  [sess EXCEPT !.buffer = {}, !.history = Append(@, entry)]

Unscanned(sess, entry) == [sess EXCEPT !.history = Append(@, entry)]

ScanAnswered(s) ==
  LET req == scan[s].req
      c   == calls[s][scan[s].call]
      fp  == FingerprintOf(c.action, ScannerState(s).salt)
  IN  /\ scan[s].phase = "sent"
      /\ WellFormed(req)
      /\ \E top \in {it.seq : it \in req.inputs} \cup {ScannerState(s).seq},
            learned \in SUBSET UNION {it.facts : it \in NewInputs(req, ScannerState(s))},
            risk \in Risks, enforced \in Verdicts, snoozed \in BOOLEAN :
           LET d == Directive(Decide(risk, enforced), s \in Unattended,
                          snoozed /\ SnoozeApplies(enforced))
           IN  /\ IsMaxSeq(top, req, ScannerState(s))
               /\ Conclude(s, Scanned(scan[s].sess, NextToken(s, top, learned),
                                      Entry(s, fp, ScannedDecision[d])),
                           d, RuleKey(fp, req.id))
               /\ Ask(s, d, RuleKey(fp, req.id), req.id, FALSE)
      /\ UNCHANGED <<session, calls, used, key, nextReq>>

(* No usable answer: refused, timed out, malformed, or never sent.          *)
ScanFailed(s) ==
  LET req == scan[s].req
  IN  /\ scan[s].phase = "sent"
      /\ \E kind \in FailureKinds :
           LET d == ErrorDirective(kind, s \in Unattended)
           IN  /\ Conclude(s, Unscanned(scan[s].sess, Entry(s, NoFp, ErrorDecision[d])),
                           d, RuleKey(NoFp, req.id))
               /\ Ask(s, d, RuleKey(NoFp, req.id), req.id, TRUE)
      /\ UNCHANGED <<session, calls, used, key, nextReq>>

(* The session file is written, the lock released, the directive returned.  *)
ScanSaved(s) ==
  LET i == scan[s].call
  IN  /\ scan[s].phase = "decided"
      /\ session' = [session EXCEPT ![s] = Saved(scan[s].sess)]
      /\ scan' = [scan EXCEPT ![s] = Idle]
      /\ SetCall(s, i, [calls[s][i] EXCEPT
           !.st = [run |-> "running", block |-> "refused", approve |-> "asking"][scan[s].directive],
           !.rule = scan[s].rule])
      /\ UNCHANGED <<reviews, used, key, nextReq, lost>>

(* Mutant: an exception lets the call run.                                  *)
ScanRaisedOpen(s) ==
  LET i == scan[s].call
  IN  /\ ~Unlocked(s)
      /\ scan' = [scan EXCEPT ![s] = Idle]
      /\ SetCall(s, i, [calls[s][i] EXCEPT !.st = "running"])
      /\ UNCHANGED <<session, reviews, used, key, nextReq, lost>>

(* An exception on the way (a full disk, say): the call is blocked and the  *)
(* session file keeps its old contents.                                    *)
ScanRaised(s) ==
  LET i == scan[s].call
  IN  /\ ~Unlocked(s)
      /\ scan' = [scan EXCEPT ![s] = Idle]
      /\ SetCall(s, i, [calls[s][i] EXCEPT !.st = "refused"])
      /\ UNCHANGED <<session, reviews, used, key, nextReq, lost>>

-----------------------------------------------------------------------------
(* on_post_approval_response: the review is taken from the file, then, in a *)
(* second step, the answer is written into the history of its session.      *)

ChoiceState(choice) == IF choice = "approve" THEN "running" ELSE "refused"

ReviewsOf(rule) == {i \in DOMAIN reviews : reviews[i].key = rule}

Without(rs, i) == [j \in 1..(Len(rs) - 1) |-> IF j < i THEN rs[j] ELSE rs[j + 1]]

AnswerPopped(s, i) ==
  LET c == calls[s][i]
  IN  /\ c.st = "asking"
      /\ \E choice \in Choices, n \in ReviewsOf(c.rule) :
           LET r == reviews[n]
           IN  /\ SetCall(s, i, [c EXCEPT !.st = "answering",
                    !.answer = [sid |-> r.sid, req |-> r.req, choice |-> choice,
                                final |-> FinalDecision(r.onError, choice)]])
               /\ reviews' = Without(reviews, n)
               /\ lost' = lost \cup IF r.req = c.req THEN {} ELSE {r.req, c.req}
      /\ UNCHANGED <<session, scan, used, key, nextReq>>

(* No review under the key, or the reviews file could not be read or        *)
(* written: the hook returns early and the answer is not recorded.          *)
AnswerUnjoined(s, i) ==
  LET c == calls[s][i]
  IN  /\ c.st = "asking"
      /\ \E choice \in Choices : SetCall(s, i, [c EXCEPT !.st = ChoiceState(choice)])
      /\ lost' = lost \cup {c.req}
      /\ UNCHANGED <<session, reviews, scan, used, key, nextReq>>

(* Mutant: the answer is joined by the fingerprint of its request.          *)
WithDecisionByFp(history, req, final) ==
  [i \in DOMAIN history |->
     IF \E k \in DOMAIN history : history[k].req = req /\ history[k].fp = history[i].fp
     THEN [history[i] EXCEPT !.decision = final] ELSE history[i]]

WithDecision(history, req, final) ==
  [i \in DOMAIN history |->
     IF history[i].req = req THEN [history[i] EXCEPT !.decision = final] ELSE history[i]]

WithAnswer(sess, answer) ==
  [sess EXCEPT !.history = WithDecision(@, answer.req, answer.final)]

AnswerRecorded(s, i) ==
  LET c == calls[s][i]
      a == c.answer
  IN  /\ c.st = "answering"
      /\ Unlocked(a.sid)
      /\ session' = [session EXCEPT ![a.sid] = Saved(WithAnswer(@, a))]
      /\ SetCall(s, i, [c EXCEPT !.st = ChoiceState(a.choice), !.answer = None])
      /\ UNCHANGED <<reviews, scan, used, key, nextReq, lost>>

AnswerRaised(s, i) ==
  LET c == calls[s][i]
  IN  /\ c.st = "answering"
      /\ SetCall(s, i, [c EXCEPT !.st = ChoiceState(c.answer.choice), !.answer = None])
      /\ lost' = lost \cup {c.answer.req}
      /\ UNCHANGED <<session, reviews, scan, used, key, nextReq>>

-----------------------------------------------------------------------------
(* on_post_tool_call: the result of a call that ran is buffered for the     *)
(* next scan, under the latest history entry with the call's host id.       *)

EntriesOf(sess, host) == {i \in DOMAIN sess.history : sess.history[i].host = host}

Ran(entry, status) ==
  /\ status \notin {"blocked", "cancelled"}
  /\ entry.decision \in NotRun => status = "ok"

(* Mutant: the input is numbered before the count is raised.                *)
BufferedUncounted(sess, n, status, facts) ==
  IF Ran(sess.history[n], status)
  THEN [sess EXCEPT !.inputSeq = @ + 1,
          !.buffer = @ \cup {[seq |-> sess.inputSeq, call |-> sess.history[n].call,
                              facts |-> facts]}]
  ELSE sess

Buffered(sess, n, status, facts) ==
  IF Ran(sess.history[n], status)
  THEN [sess EXCEPT !.inputSeq = @ + 1,
          !.buffer = @ \cup {[seq |-> sess.inputSeq + 1, call |-> sess.history[n].call,
                              facts |-> facts]}]
  ELSE sess

PostToolCall(s, i) ==
  LET c      == calls[s][i]
      joined == IF c.host = None THEN {} ELSE EntriesOf(session[s], c.host)
  IN  /\ c.st \in {"running", "refused"}
      /\ c.host # None => Unlocked(s)
      /\ \/ joined = {} /\ UNCHANGED session
         \/ \E n \in joined, facts \in SUBSET Facts,
               status \in IF c.st = "running" THEN {"ok", "error", "cancelled"}
                         ELSE {"blocked", "error"} :
              /\ \A j \in joined : j <= n
              /\ session' = [session EXCEPT ![s] = Saved(Buffered(@, n, status, facts))]
      /\ SetCall(s, i, [c EXCEPT !.st = "done"])
      /\ UNCHANGED <<reviews, scan, used, key, nextReq, lost>>

-----------------------------------------------------------------------------
(* The process dies: the files stay, the host's calls and the locks do not. *)
Crash ==
  /\ scan' = [s \in Sessions |-> Idle]
  /\ calls' = [s \in Sessions |-> <<>>]
  /\ UNCHANGED <<session, reviews, used, key, nextReq, lost>>

(* The scanner is redeployed with another signing key.                      *)
RotateKey ==
  /\ key < MaxKeys
  /\ key' = key + 1
  /\ UNCHANGED <<session, reviews, scan, calls, used, nextReq, lost>>

SessionStep(s) ==
  \/ PreLlmCall(s) \/ PostApiRequest(s)
  \/ ScanAnswered(s) \/ ScanFailed(s) \/ ScanSaved(s) \/ ScanRaised(s)

CallStep(s, i) ==
  \/ PreToolCall(s, i) \/ PostToolCall(s, i)
  \/ AnswerPopped(s, i) \/ AnswerUnjoined(s, i)
  \/ AnswerRecorded(s, i) \/ AnswerRaised(s, i)

Next ==
  \/ \E s \in Sessions : SessionStep(s) \/ \E i \in DOMAIN calls[s] : CallStep(s, i)
  \/ Crash
  \/ RotateKey

Spec == Init /\ [][Next]_vars

-----------------------------------------------------------------------------
(* Type invariant.                                                         *)
TypeOK ==
  /\ session \in [Sessions -> SessionFiles]
  /\ reviews \in Seq(Reviews)
  /\ scan \in [Sessions -> {Idle} \cup Sent \cup Decided]
  /\ calls \in [Sessions -> Seq(HostCalls)]
  /\ used \in [Sessions -> [HostIds -> Nat]]
  /\ key \in Nat \ {0}
  /\ nextReq \in Nat \ {0}
  /\ lost \subseteq Nat

(* Every request the plugin sends passes the scanner's structural checks:   *)
(* steps without a gap, no call_id twice, no result of a call outside the   *)
(* window.  A request that fails one is answered 422, its call is not       *)
(* scanned, and its entry stays in the history of the requests to come.     *)
RequestsWellFormed ==
  \A s \in Sessions : scan[s] # Idle => WellFormed(scan[s].req)

(* The scanner starts over only for a reason the plugin can see: no scan    *)
(* was answered yet, the last one failed, or the signing key changed.       *)
(* After an answered scan the stored token fits the next request, whatever  *)
(* raised, crashed or waited for the lock in between.                       *)
TokenStatusExplained ==
  \A s \in Sessions :
    LET q       == session[s].history
        status  == TokenStatus(session[s].token, s, key, session[s].next - 1)
        scanned == q # <<>> /\ q[Len(q)].fp # NoFp
    IN  /\ status # "mismatch"
        /\ status = "first_step" <=> q = <<>>
        /\ status = "valid" => scanned
        /\ status \in {"missing", "stale"} => ~scanned

(* A buffered result is always news to the scanner: while the token is      *)
(* valid its max_input_seq is below everything still to be sent, so no      *)
(* result is taken for one that was scanned before.                        *)
BufferedIsNew ==
  \A s \in Sessions : \A it \in session[s].buffer :
    /\ it.seq > session[s].token.seq
    /\ it.seq <= session[s].inputSeq

(* The history agrees with what happened: an entry of a call that is        *)
(* running has a decision that lets it run, one of a call that was refused  *)
(* has a NOT_RUN decision.  Exempt are the requests in `lost`, whose answer *)
(* could not be joined.                                                    *)
DecisionMatchesOutcome ==
  \A s \in Sessions : \A i \in DOMAIN calls[s] :
    LET c == calls[s][i]
    IN  c.req \notin lost =>
          \A k \in DOMAIN session[s].history :
            LET e == session[s].history[k]
            IN  e.req = c.req =>
                  /\ c.st = "running" => e.decision \notin NotRun
                  /\ c.st = "refused" => e.decision \in NotRun

(* No call runs that the session file does not show: its entry is in the    *)
(* history, or so many calls followed that save_session dropped it.  An     *)
(* exception between the answer of the scan and the write never lets the    *)
(* call through.                                                           *)
RunsAreRecorded ==
  \A s \in Sessions : \A i \in DOMAIN calls[s] :
    LET c == calls[s][i]
        q == session[s].history
    IN  c.st \in {"asking", "answering", "running"} =>
          \/ \E k \in DOMAIN q : q[k].req = c.req
          \/ Len(q) = 2 * HistoryLimit /\ \A k \in DOMAIN q : q[k].req > c.req

(* A decision in the history changes only from a provisional one, and an    *)
(* answer is never overwritten by a later one.                             *)
DecisionsSettle ==
  [][\A s \in Sessions :
       \A i \in DOMAIN session[s].history, j \in DOMAIN session'[s].history :
         LET old == session[s].history[i]
             new == session'[s].history[j]
         IN  old.req = new.req /\ old.decision # new.decision =>
               old.decision \in {"review_timed_out", "blocked_on_error"}]_vars

(* Step and input numbers are never given out twice: no hook writes back a  *)
(* session it read before another hook changed it.                         *)
NumbersNeverReused ==
  [][\A s \in Sessions :
       /\ session'[s].next >= session[s].next
       /\ session'[s].inputSeq >= session[s].inputSeq
       /\ session'[s].turn >= session[s].turn]_vars

(* A result leaves the buffer only with an answered scan, and only if that  *)
(* scan carried it or its call had dropped out of the window: a failed      *)
(* scan, an exception, an approval or a crash never loses what the agent    *)
(* has read and the scanner has not.                                       *)
ClearedOnlyByAnswer ==
  [][\A s \in Sessions :
       \A it \in session[s].buffer \ session'[s].buffer :
         LET q   == session'[s].history
             req == scan[s].req
         IN  /\ scan[s] # Idle /\ q[Len(q)].fp # NoFp
             /\ \/ it \in req.inputs
                \/ \A i \in DOMAIN req.history : req.history[i].call # it.call]_vars

(* The scanner's memory of a session, carried by the token the plugin keeps, *)
(* implements Episode: nothing found out about a session is forgotten       *)
(* between two answered scans that follow each other, whatever crashes or   *)
(* raises in between.                                                      *)
E == INSTANCE Episode WITH
  known  <- [s \in Sessions |-> session[s].token.known],
  intact <- [s \in Sessions |->
               Continues(session[s].token, s, key, session[s].next - 1)]

EpisodeKept == E!Spec

=============================================================================
