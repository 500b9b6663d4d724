------------------------------- MODULE Scanner -------------------------------
(***************************************************************************)
(* Scans of one session (sentrook/scan.py, Scanner.scan): preparation, the *)
(* five probes on a thread pool, convergence, and the token that carries   *)
(* what was found out to the next scan.  Around it, the session as the     *)
(* plugins have it: calls the agent makes, results it reads, a request     *)
(* that may come without an answer, the token of the last answer.          *)
(*                                                                         *)
(* A call has at most one key entity (a host or a recipient), a result     *)
(* names at most one.                                                      *)
(***************************************************************************)
EXTENDS Integers, Sequences, SequencesExt, Convergence

CONSTANTS
  Entities,      \* hosts and recipients
  None,          \* no entity
  Sinks,         \* entities that are sent to; the others supply code
  Verdict,       \* what the entity library says of each entity
  Calls,         \* the calls the agent may make
  Texts,         \* the results it may read
  UntrustedCap,  \* UNTRUSTED_CAP of the token
  Window,        \* history_limit of the plugin
  Views,         \* what the call views in use say of reputations
  MaxSteps, MaxFailures  \* bounds of a run

Verdicts == {"known_good", "known_bad", "unknown"}

(* `use` is the call's key entity; `request`, `owner` and `grant`: the      *)
(* request names it, the request is the owner's, a destination grant covers *)
(* it; `secret`: the call reads credentials.                               *)
CallShapes == [use : Entities \cup {None}, request : BOOLEAN, owner : BOOLEAN,
               grant : BOOLEAN, secret : BOOLEAN]

(* A tool result: what it names, whether it instructs the agent, and how    *)
(* the plugin sends it: as text, as "" or without its content.             *)
TextShapes == [shown : {"text", "empty", "dropped"},
               names : Entities \cup {None}, instructs : BOOLEAN]

ASSUME ScannerAssumption ==
  /\ None \notin Entities /\ Sinks \subseteq Entities
  /\ Verdict \in [Entities -> Verdicts]
  /\ Calls \subseteq CallShapes /\ Texts \subseteq TextShapes
  /\ \A t \in Texts : t.shown = "empty" => t.names = None /\ ~t.instructs
  /\ \A c \in Calls : c.use = None => ~c.request /\ ~c.grant
  /\ UntrustedCap \in Nat \ {0} /\ Window \in Nat \ {0}
  /\ Views \subseteq {"reputation", "plain"} /\ MaxSteps \in Nat /\ MaxFailures \in Nat

VARIABLES
  token,      \* the claims of the token the plugin stores
  fits,       \* whether it is of the last step, so that it will be accepted
  history,    \* the calls made, by step
  results,    \* the results read, by input_seq
  buffer,     \* the results no answered scan was sent
  scan,       \* the scan at work, or Idle
  futures,    \* the probes in the pool
  envelopes,  \* what the main thread has collected of them
  failures,   \* counts failures (bound)
  source,     \* history variable: how each entity first came up
  forgotten,  \* history variable: entities read of that the scanner lost
  examined,   \* history variable: results an exposure probe has answered on
  excused     \* history variable: results read before a degraded answer

session == <<token, fits, history, results, buffer>>
pool == <<futures, envelopes>>
memory == <<source, forgotten, examined, excused>>
vars == <<session, scan, pool, failures, memory>>

-----------------------------------------------------------------------------
(* The state of a session, and preparation.                                *)

States == [flags : SUBSET Flags, untrusted : Seq(Entities), seq : Nat]
FreshState == [flags |-> {}, untrusted |-> <<>>, seq |-> 0]

(* The entities of the library's kinds a request shows, in table order: the *)
(* call's, then what its results name, in the order they are sent.         *)
WithText(sent) == {i \in sent : results[i].shown = "text"}
Named(sent) == {results[i].names : i \in WithText(sent)} \ {None}

(* The steps of the history in a request.                                  *)
WindowSteps == {k \in DOMAIN history : k > Len(history) - Window}

SentInputs == {i \in buffer : results[i].step \in WindowSteps}

(* An entity of the history before any result that names it: its later      *)
(* echo is not taken for untrusted content.  The step of a result is that   *)
(* of its call.                                                            *)
UsedAt(e) == {k \in WindowSteps : history[k].use = e}
ReadAt(e, sent) ==
  {results[i].step : i \in {j \in WithText(sent) : results[j].names = e}}
AgentFirst(e, sent) ==
  UsedAt(e) # {} /\ ReadAt(e, sent) # {} /\ Min(UsedAt(e)) < Min(ReadAt(e, sent))

(* What the results sent add to the untrusted set.                          *)
Additions(sent) == {e \in Named(sent) : ~AgentFirst(e, sent)}

(* The rows of the entity table: the call's entity, then what each result   *)
(* names.                                                                  *)
Row(call, i) == IF i = 0 THEN call.use ELSE results[i].names

(* add_untrusted, in table order: the newest are kept.                      *)
AddUntrusted(untrusted, call, sent) ==
  LET list[i \in 0..Len(results)] ==
        LET before == IF i = 0 THEN untrusted ELSE list[i - 1]
            e == Row(call, i)
        IN  IF /\ i = 0 \/ i \in WithText(sent)
               /\ e \in Additions(sent) \ ToSet(before)
            THEN Append(before, e) ELSE before
      all == list[Len(results)]
  IN  SubSeq(all, Max({1, Len(all) - UntrustedCap + 1}), Len(all))

(* The row of the entity table for the call's key entity.                   *)
Entity(call, state, sent) ==
  [id |-> call.use, sink |-> call.use \in Sinks, request |-> call.request,
   owner |-> call.owner, grant |-> call.grant,
   remembered |-> call.use \in ToSet(state.untrusted),
   read |-> call.use \in Named(sent),
   agentFirst |-> AgentFirst(call.use, sent)]

(* The highest number scanned, as the set of that number.                   *)
ScannedMaxSeq(state, sent) ==
  LET seqs == {state.seq} \cup sent
  IN  {n \in seqs : \A i \in seqs : i <= n}

(* Where the call view wants what the library says of the call's entities,  *)
(* the oracle answers before the pool.                                     *)
PhaseFor(view) == IF view = "reputation" THEN "oracle" ELSE "pool"

(* The inputs with content above the highest number scanned.                *)
NewInputs(state, sent) ==
  {i \in WithText(sent) : i > state.seq}

(* What prepare makes of a request.                                         *)
Prepared(call, view, state, sent, top, fresh) ==
  [phase |-> PhaseFor(view), call |-> call, view |-> view,
   ent |-> Entity(call, state, sent),
   state |-> [state EXCEPT !.untrusted = AddUntrusted(@, call, sent)],
   new |-> NewInputs(state, sent),
   instructing |-> {i \in NewInputs(state, sent) : results[i].instructs},
   top |-> top,
   dropped |-> \E i \in sent : results[i].shown = "dropped",
   fresh |-> fresh,
   reputation |-> {}]

-----------------------------------------------------------------------------
(* The probes: what each can answer on a prepared request `s`.              *)

SafeExposure == 100
HighExposure == 900
StickyExposure == 700
HeldSensitivity == 800

Raised == {Failed("error")}
ApiFailed == {Failed("error"), Failed("timeout")}

(* An answer on all new results; a high one taints the session.             *)
JevExposure(s) ==
  LET high == s.instructing # {}
      claim == Claim("jev_exposure", "exposure",
                     IF high THEN HighExposure ELSE SafeExposure, None)
  IN  IF s.new = {} THEN {Skipped}
      ELSE {Answered({claim}, {}, IF high THEN {"tainted"} ELSE {},
                     [NoEvidence EXCEPT !.inputs = s.new])} \cup ApiFailed

(* The model's opinion of the call itself is one and the same here; its     *)
(* evidence is what the library said of the call's entity, if the view has  *)
(* it.                                                                     *)
JevCall(s) ==
  {Answered({Claim("jev_call", "misalignment", 100, None),
             Claim("jev_call", "sensitivity", 600, None),
             Claim("jev_call", "reach", 600, None),
             Claim("jev_call", "irreversibility", 600, None),
             Claim("jev_call", "model_certainty", 900, None)}, {}, {},
            [NoEvidence EXCEPT !.entities = s.reputation])} \cup ApiFailed

Aira(s) ==
  {IF s.call.secret
   THEN Answered({Claim("aira", "sensitivity", 900, None)}, {},
                 {"holds_sensitive"}, NoEvidence)
   ELSE Answered({}, {}, {}, NoEvidence)} \cup Raised

UnknownDistrust(e) == IF e \in Sinks THEN 300 ELSE 500

(* The library's verdict; without an answer it is the null library's, and   *)
(* the evidence says so.                                                   *)
LookedUp(e, verdict, coverage, fallback) ==
  Answered({Claim("entity_oracle", "distrust",
                  CASE verdict = "known_bad" -> Scale
                    [] verdict = "known_good" -> 0
                    [] verdict = "unknown" -> UnknownDistrust(e), e),
            Claim("entity_oracle", "coverage", coverage, None)},
           IF verdict = "known_bad"
           THEN {[min |-> Scale, enforce |-> "block", subject |-> e]} ELSE {},
           {},
           [NoEvidence EXCEPT !.entities = {<<e, verdict>>}, !.fallback = fallback])

EntityOracle(s) ==
  IF s.call.use = None THEN {Answered({}, {}, {}, NoEvidence)}
  ELSE LET e == s.call.use
       IN  {LookedUp(e, Verdict[e],
                     IF Verdict[e] = "unknown" THEN 850 ELSE Scale, FALSE),
            LookedUp(e, "unknown", 700, TRUE)} \cup Raised

(* The origin of the key entity: named or granted, read before it was used, *)
(* or the agent's own.                                                     *)
OriginValue(ent) ==
  IF ent.request \/ ent.grant THEN 0
  ELSE IF ent.remembered \/ (ent.read /\ ~ent.agentFirst) THEN Scale
  ELSE 400

OriginClaims(ent) ==
  IF ent.id = None THEN {}
  ELSE {Claim("context", "untrusted_origin", OriginValue(ent), ent.id)}

RequestOriginClaims(ent) ==
  {Claim("context", "request_origin", IF ent.owner THEN 0 ELSE 800, None)}

(* Mutant: the probe does not read the flags of the session.                *)
NoStickyClaims(s) == {}

StickyClaims(s) ==
  (IF "tainted" \in s.state.flags
   THEN {Claim("context", "exposure", StickyExposure, None)} ELSE {})
  \cup
  (IF "holds_sensitive" \in s.state.flags /\ s.ent.sink
   THEN {Claim("context", "sensitivity", HeldSensitivity, None)} ELSE {})

(* The lowest that applies.                                                *)
ContextCoverage(s) ==
  IF s.fresh THEN {Claim("context", "coverage", 700, None)}
  ELSE IF s.dropped THEN {Claim("context", "coverage", 800, None)} ELSE {}

Context(s) ==
  {Answered(OriginClaims(s.ent) \cup RequestOriginClaims(s.ent)
              \cup StickyClaims(s) \cup ContextCoverage(s), {}, {}, NoEvidence)}
  \cup Raised

Answers(p, s) ==
  CASE p = "jev_exposure" -> JevExposure(s)
    [] p = "jev_call" -> JevCall(s)
    [] p = "aira" -> Aira(s)
    [] p = "entity_oracle" -> EntityOracle(s)
    [] p = "context" -> Context(s)

IsFailure(e) == e.status \in {"error", "timeout"} \/ e.evidence.fallback

-----------------------------------------------------------------------------
Idle == [phase |-> "idle"]

(* A probe's future: an envelope, or none yet, or none any more.            *)
Off == [status |-> "off"]
Running == [status |-> "running"]
Done == [status |-> "done"]

(* What the main thread has of a probe: an envelope, or none yet.           *)
NoEnvelope == [status |-> "none"]

Init ==
  /\ token = FreshState
  /\ fits = TRUE
  /\ history = <<>>
  /\ results = <<>>
  /\ buffer = {}
  /\ scan = Idle
  /\ futures = [p \in Probes |-> Off]
  /\ envelopes = [p \in Probes |-> NoEnvelope]
  /\ failures = 0
  /\ source = [e \in Entities |-> "unseen"]
  /\ forgotten = {}
  /\ examined = {}
  /\ excused = {}

(* pool.submit for every probe that has not answered.                      *)
Submitted(answered) ==
  [p \in Probes |-> IF p \in answered THEN Off ELSE Running]

Fails(yes) ==
  /\ failures' = IF yes THEN failures + 1 ELSE failures
  /\ failures' <= MaxFailures

(* The entities a request loses sight of: those of a token it cannot be     *)
(* given, of results whose calls have left the window or whose text is      *)
(* dropped, and those beyond the cap.                                      *)
LostSight(state, sent) ==
  LET unread == (buffer \ sent) \cup {i \in sent : results[i].shown = "dropped"}
      held == ToSet(state.untrusted) \cup Additions(sent)
  IN  (IF fits THEN {} ELSE ToSet(token.untrusted))
        \cup ({results[i].names : i \in unread} \ {None})
        \cup held

(* A request, to a service whose questions have one of the views: the call  *)
(* joins the history once it is decided.                                   *)
Request(call, view) ==
  LET state == IF fits THEN token ELSE FreshState
      lost == LostSight(state, SentInputs)
  IN  /\ scan = Idle
      /\ Len(history) < MaxSteps
      /\ \E top \in ScannedMaxSeq(state, SentInputs) :
           scan' = Prepared(call, view, state, SentInputs, top, ~fits)
      /\ futures' = IF PhaseFor(view) = "pool" THEN Submitted({}) ELSE futures
      /\ forgotten' = (forgotten \cup lost) \ ToSet(scan'.state.untrusted)
      /\ source' = [e \in Entities |->
                      IF e = call.use /\ source[e] = "unseen" THEN "agent"
                                                             ELSE source[e]]
      /\ UNCHANGED <<session, envelopes, failures, examined, excused>>

(* The library's answer comes first where the call view wants it; the view  *)
(* lists what is known, good or bad.                                       *)
OracleAnswers ==
  /\ scan.phase = "oracle"
  /\ \E e \in EntityOracle(scan) :
       /\ envelopes' = [envelopes EXCEPT !["entity_oracle"] = e]
       /\ scan' = [scan EXCEPT
            !.phase = "pool",
            !.reputation = {x \in e.evidence.entities : x[2] # "unknown"}]
       /\ Fails(IsFailure(e))
  /\ futures' = Submitted({"entity_oracle"})
  /\ UNCHANGED <<session, memory>>

(* A thread of the pool ends: with an envelope, and with "done" when the    *)
(* main thread no longer waits for it.                                     *)
ProbeEnds(p) ==
  /\ futures[p] = Running
  /\ IF envelopes[p] = NoEnvelope
     THEN \E e \in Answers(p, scan) :
            /\ futures' = [futures EXCEPT ![p] = e]
            /\ Fails(IsFailure(e))
     ELSE /\ futures' = [futures EXCEPT ![p] = Done]
          /\ UNCHANGED failures
  /\ UNCHANGED <<session, scan, envelopes, memory>>

ProbeOrder == <<"jev_exposure", "jev_call", "aira", "entity_oracle", "context">>

(* Mutant: a probe that has failed ends the collection.                     *)
AwaitedUntilFailure(p) ==
  /\ scan.phase = "pool"
  /\ envelopes[p] = NoEnvelope
  /\ \A i, j \in DOMAIN ProbeOrder :
       ProbeOrder[j] = p /\ i < j =>
         /\ envelopes[ProbeOrder[i]] # NoEnvelope
         /\ envelopes[ProbeOrder[i]].status \in {"ok", "skipped"}

(* The main thread takes the futures in the order of ALL_PROBES.            *)
Awaited(p) ==
  /\ scan.phase = "pool"
  /\ envelopes[p] = NoEnvelope
  /\ \A i, j \in DOMAIN ProbeOrder :
       ProbeOrder[j] = p /\ i < j => envelopes[ProbeOrder[i]] # NoEnvelope

Collect(p) ==
  /\ Awaited(p)
  /\ futures[p] # Running
  /\ envelopes' = [envelopes EXCEPT ![p] = futures[p]]
  /\ futures' = [futures EXCEPT ![p] = Done]
  /\ UNCHANGED <<session, scan, failures, memory>>

(* PROBE_TIMEOUT_S have passed: the late answer will not count.             *)
GiveUp(p) ==
  /\ Awaited(p)
  /\ futures[p] = Running
  /\ envelopes' = [envelopes EXCEPT ![p] = Failed("timeout")]
  /\ Fails(TRUE)
  /\ UNCHANGED <<session, scan, futures, memory>>

(* The end of the `with` block: the pool is left when its threads are over. *)
PoolLeft == \A p \in Probes : envelopes[p] # NoEnvelope /\ futures[p] # Running

Response(s) == Converged(s.ent, envelopes, s.fresh \/ s.dropped)

(* Mutant: the flags of this scan replace those of the session.             *)
NextTokenOfScan(s) ==
  [flags |-> Response(s).flags, untrusted |-> s.state.untrusted, seq |-> s.top]

NextToken(s) ==
  [flags |-> s.state.flags \cup Response(s).flags,
   untrusted |-> s.state.untrusted, seq |-> s.top]

Converge ==
  /\ scan.phase = "pool"
  /\ PoolLeft
  /\ scan' = [scan EXCEPT !.phase = "answered"]
  /\ UNCHANGED <<session, pool, failures, memory>>

(* Over: the call is decided and joins the history.                        *)
Decided ==
  /\ scan.phase = "answered"
  /\ scan' = Idle
  /\ history' = Append(history, scan.call)
  /\ futures' = [p \in Probes |-> Off]
  /\ envelopes' = [p \in Probes |-> NoEnvelope]
  /\ UNCHANGED <<results, source, forgotten>>

(* The plugin gets the answer: token and buffer are those of a new step.    *)
Deliver ==
  /\ Decided
  /\ token' = NextToken(scan)
  /\ fits' = TRUE
  /\ buffer' = {}
  /\ examined' = (IF scan.fresh THEN {} ELSE examined)
                   \cup envelopes["jev_exposure"].evidence.inputs
  /\ excused' = IF Response(scan).status = "degraded"
                THEN DOMAIN results ELSE excused
  /\ UNCHANGED failures

(* The plugin does not: it keeps token and buffer, and the step is taken.   *)
Lose ==
  /\ Decided
  /\ fits' = FALSE
  /\ Fails(TRUE)
  /\ UNCHANGED <<token, buffer, examined, excused>>

(* The call of the last step has run, and the agent has read its result.    *)
Result(text) ==
  /\ scan = Idle
  /\ history # <<>>
  /\ \A i \in DOMAIN results : results[i].step # Len(history)
  /\ results' = Append(results, [step |-> Len(history), shown |-> text.shown,
                                 names |-> text.names,
                                 instructs |-> text.instructs])
  /\ buffer' = buffer \cup {Len(results) + 1}
  /\ source' = [e \in Entities |->
                  IF e = text.names /\ source[e] = "unseen" THEN "content"
                                                           ELSE source[e]]
  /\ UNCHANGED <<token, fits, history, scan, pool, failures, forgotten,
                 examined, excused>>

MainThread ==
  \/ OracleAnswers
  \/ \E p \in Probes : Collect(p) \/ GiveUp(p)
  \/ Converge
  \/ Deliver
  \/ Lose

Next ==
  \/ \E call \in Calls, view \in Views : Request(call, view)
  \/ MainThread
  \/ \E p \in Probes : ProbeEnds(p)
  \/ \E text \in Texts : Result(text)

(* A thread that can go on does.  The probes end: they compute, or wait for *)
(* clients with timeouts of their own.                                     *)
Spec == Init /\ [][Next]_vars

FairSpec == Spec /\ WF_vars(MainThread) /\ \A p \in Probes : WF_vars(ProbeEnds(p))

(* The main thread alone.                                                  *)
MainFairSpec == Spec /\ WF_vars(MainThread)

-----------------------------------------------------------------------------
(* Properties.                                                             *)

Envelopes == [status : Statuses, claims : SUBSET [probe : Probes, signal : STRING,
                 value : 0..Scale, subject : Entities \cup {None}],
              floors : SUBSET [min : 0..Scale, enforce : {"review", "block"},
                               subject : Entities],
              flags : SUBSET Flags,
              evidence : [entities : SUBSET (Entities \X Verdicts),
                          inputs : SUBSET Nat, fallback : BOOLEAN]]

TypeOK ==
  /\ token \in States /\ Len(token.untrusted) <= UntrustedCap
  /\ token.seq <= Len(results)
  /\ fits \in BOOLEAN
  /\ history \in Seq(Calls)
  /\ results \in Seq([step : Nat, shown : {"text", "empty", "dropped"},
                      names : Entities \cup {None}, instructs : BOOLEAN])
  /\ buffer \subseteq DOMAIN results
  /\ scan = Idle \/ scan.phase \in {"oracle", "pool", "answered"}
  /\ failures \in 0..MaxFailures
  /\ source \in [Entities -> {"unseen", "agent", "content"}]
  /\ forgotten \subseteq Entities
  /\ examined \subseteq DOMAIN results /\ excused \subseteq DOMAIN results

(* Whatever the agent has read and the plugin no longer keeps to send was   *)
(* read by an exposure probe that answered, or an answer marked degraded    *)
(* came after it: a probe that failed, was late or got no content, and a    *)
(* request without it, never leave a result unexamined behind answers that  *)
(* look complete.                                                          *)
UnexaminedShows ==
  \A i \in DOMAIN results \ buffer :
    results[i].shown # "empty" => i \in examined \cup excused

(* A host or recipient the agent took from something it read keeps its      *)
(* untrusted origin in every later call that uses it, whatever the library  *)
(* says of it, unless the request names it, a grant covers it, or the       *)
(* scanner has visibly lost it: relief for a good reputation never applies  *)
(* to it.                                                                  *)
OriginKept ==
  LET e == scan.call.use
  IN  /\ scan.phase = "answered"
      /\ e # None /\ ~scan.call.request /\ ~scan.call.grant
      /\ source[e] = "content" /\ e \notin forgotten
      /\ envelopes["context"].status = "ok"
      => ValueOr(Response(scan).claims, "untrusted_origin", 0) = Scale

(* Once an exposure probe has found instructions in what the agent read,    *)
(* every later scan of the session carries the exposure, until the          *)
(* scanner's memory is interrupted.                                        *)
TaintReachesCalls ==
  /\ scan.phase = "answered" /\ ~scan.fresh
  /\ \E i \in examined : results[i].instructs
  /\ envelopes["context"].status = "ok"
  => ValueOr(Response(scan).claims, "exposure", 0) >= StickyExposure

(* No relief lowers a floor: the risk and the outcome are at least those of *)
(* every floor a probe raised, also for an entity the owner has granted.    *)
FloorsHold ==
  scan.phase = "answered" =>
    \A p \in Answering(envelopes) : \A f \in envelopes[p].floors :
      /\ Response(scan).risk >= f.min
      /\ EnforceRank[Response(scan).enforced] >= EnforceRank[f.enforce]

(* Where the call view wants reputations, the model judges a call with the  *)
(* same verdicts convergence scores it with.                               *)
CallSeesReputation ==
  /\ scan.phase = "answered" /\ scan.view = "reputation"
  /\ envelopes["jev_call"].status = "ok"
  => envelopes["jev_call"].evidence.entities
       = {x \in envelopes["entity_oracle"].evidence.entities : x[2] # "unknown"}

(* The scanner's memory of a session, which is in the token alone, is kept  *)
(* as Episode promises.                                                    *)
Memory == INSTANCE Episode WITH
  Sessions <- {None}, Facts <- Flags,
  known <- [s \in {None} |-> token.flags], intact <- [s \in {None} |-> fits]

MemoryKept == Memory!Spec

(* Every scan ends, whatever its probes answer and however late: a probe    *)
(* that does not is given up after PROBE_TIMEOUT_S, and "the scan continues *)
(* as degraded" (probes/base.py:72).  It holds of FairSpec, where every     *)
(* probe ends, and not of MainFairSpec.                                    *)
EveryScanEnds == scan # Idle ~> scan = Idle

=============================================================================
