--------------------------- MODULE ScannerProofs ---------------------------
(***************************************************************************)
(* Theorems about Scanner for every value of its constants: any calls,     *)
(* results, library, cap, window and number of failures.                   *)
(***************************************************************************)
EXTENDS Scanner, FiniteSetTheorems, TLAPS

Fields == {"phase", "call", "view", "ent", "state", "new", "instructing", "top", "dropped",
           "fresh", "reputation"}

ResultRecords ==
  [step : Nat \ {0}, shown : {"text", "empty", "dropped"},
   names : Entities \cup {None}, instructs : BOOLEAN]

SessionInv ==
  /\ DOMAIN token = DOMAIN FreshState
  /\ token.flags \subseteq Flags
  /\ token.seq \in 0..Len(results)
  /\ fits \in BOOLEAN
  /\ history \in Seq(Calls)
  /\ results \in Seq(ResultRecords)
  /\ buffer \subseteq DOMAIN results

(* While the token fits, what is buffered is new and of the last step: the  *)
(* next request carries all of it.                                         *)
BufferInv ==
  fits => \A i \in buffer : i > token.seq /\ results[i].step = Len(history)

(* What a scan at work has of the session, which stands still meanwhile.    *)
ScanInv ==
  scan # Idle =>
    /\ DOMAIN scan = Fields
    /\ scan.phase \in {"oracle", "pool", "answered"}
    /\ scan.call \in Calls
    /\ scan.fresh = ~fits
    /\ scan.dropped \in BOOLEAN
    /\ scan.state.flags \subseteq Flags
    /\ scan.top \in 0..Len(results)
    /\ fits => /\ scan.state.flags = token.flags
               /\ scan.new = {i \in buffer : results[i].shown = "text"}
               /\ \A i \in buffer : results[i].shown = "dropped" => scan.dropped

(* An envelope is an answer of its probe, or stands for a late one.         *)
Possible(p, s) == Answers(p, s) \cup {Failed("timeout")}

ProbeInv(p) ==
  /\ envelopes[p] \in Possible(p, scan) \cup {NoEnvelope}
  /\ futures[p] \in Possible(p, scan) \cup {Off, Running, Done}
  /\ envelopes[p] = NoEnvelope => futures[p] \notin {Off, Done}
  /\ scan.phase = "answered" => envelopes[p] # NoEnvelope

PoolInv ==
  /\ envelopes = [p \in Probes |-> envelopes[p]]
  /\ futures = [p \in Probes |-> futures[p]]
  /\ scan.phase \in {"idle", "oracle"} =>
       \A p \in Probes : envelopes[p] = NoEnvelope /\ futures[p] = Off
  /\ scan.phase \in {"pool", "answered"} => \A p \in Probes : ProbeInv(p)

(* Where the view wants reputations, they are those of the oracle's answer. *)
ReputationInv ==
  scan.phase \in {"pool", "answered"} /\ scan.view = "reputation" =>
    /\ envelopes["entity_oracle"] # NoEnvelope
    /\ scan.reputation = {x \in envelopes["entity_oracle"].evidence.entities :
                            x[2] # "unknown"}

Inv == SessionInv /\ BufferInv /\ ScanInv /\ PoolInv /\ ReputationInv

-----------------------------------------------------------------------------
(* Operators.                                                              *)

(* What a probe can answer has a status and sets flags of the session.      *)
LEMMA PossibleShape ==
  ASSUME NEW p \in Probes, NEW s, NEW e \in Possible(p, s)
  PROVE  /\ e.status \in Statuses
         /\ e.flags \subseteq Flags
         /\ e \notin {NoEnvelope, Off, Running, Done}
<1> DEFINE Shape(f) == f.status \in Statuses /\ f.flags \subseteq Flags
<1>1. \A st \in Statuses : Shape(Failed(st))
  BY DEF Failed
<1>2. \A c, fl, ev : \A fs \in SUBSET Flags : Shape(Answered(c, fl, fs, ev))
  BY DEF Answered, Statuses
<1>3. Shape(e)
  <2> HIDE DEF Shape
  <2>1. Shape(Failed("timeout")) /\ Shape(Failed("error")) /\ Shape(Skipped)
    BY <1>1 DEF Statuses, Skipped
  <2>2. \A c, fl, ev : /\ Shape(Answered(c, fl, {}, ev))
                       /\ Shape(Answered(c, fl, {"tainted"}, ev))
                       /\ Shape(Answered(c, fl, {"holds_sensitive"}, ev))
    BY <1>2 DEF Flags
  <2>3. CASE e = Failed("timeout")
    BY <2>1, <2>3
  <2>4. CASE e \in JevExposure(s)
    BY <2>1, <2>2, <2>4 DEF JevExposure, ApiFailed
  <2>5. CASE e \in JevCall(s)
    BY <2>1, <2>2, <2>5 DEF JevCall, ApiFailed
  <2>6. CASE e \in Aira(s)
    BY <2>1, <2>2, <2>6 DEF Aira, Raised
  <2>7. CASE e \in EntityOracle(s)
    <3>2. CASE s.call.use = None
      BY <2>1, <2>2, <2>7, <3>2 DEF EntityOracle, Raised
    <3>3. CASE s.call.use # None
      <4> DEFINE x == s.call.use
                 c == IF Verdict[x] = "unknown" THEN 850 ELSE Scale
      <4>1. \/ e = LookedUp(x, Verdict[x], c, FALSE)
            \/ e = LookedUp(x, "unknown", 700, TRUE)
            \/ e = Failed("error")
        BY <2>7, <3>3 DEF EntityOracle, Raised
      <4> HIDE DEF x, c
      <4>2. Shape(LookedUp(x, Verdict[x], c, FALSE))
        BY <2>2 DEF LookedUp
      <4>3. Shape(LookedUp(x, "unknown", 700, TRUE))
        BY <2>2 DEF LookedUp
      <4> DEFINE found == LookedUp(x, Verdict[x], c, FALSE)
                 fallen == LookedUp(x, "unknown", 700, TRUE)
      <4>4. e = found \/ e = fallen \/ e = Failed("error")
        BY <4>1
      <4>5. Shape(found) /\ Shape(fallen)
        BY <4>2, <4>3
      <4> HIDE DEF found, fallen
      <4> QED
        BY <2>1, <4>4, <4>5
    <3> QED
      BY <3>2, <3>3
  <2>8. CASE e \in Context(s)
    BY <2>1, <2>2, <2>8 DEF Context, Raised
  <2> QED
    BY <2>3, <2>4, <2>5, <2>6, <2>7, <2>8 DEF Possible, Answers, Probes
<1>4. e.status \notin {"none", "off", "running", "done"}
  BY <1>3 DEF Statuses
<1> QED
  BY <1>3, <1>4 DEF NoEnvelope, Off, Running, Done

(* The answers depend on what preparation found, not on the phase.          *)
LEMMA SameAnswers ==
  ASSUME NEW s, NEW t, NEW p \in Probes,
         s.new = t.new, s.instructing = t.instructing, s.call = t.call, s.ent = t.ent, s.state = t.state,
         s.fresh = t.fresh, s.dropped = t.dropped,
         s.reputation = t.reputation \/ p # "jev_call"
  PROVE  Answers(p, s) = Answers(p, t)
<1>1. JevExposure(s) = JevExposure(t)
  BY DEF JevExposure
<1>2. p = "jev_call" => JevCall(s) = JevCall(t)
  BY DEF JevCall
<1>3. Aira(s) = Aira(t)
  BY DEF Aira
<1>4. EntityOracle(s) = EntityOracle(t)
  BY DEF EntityOracle
<1>5. Context(s) = Context(t)
  BY DEF Context, StickyClaims, ContextCoverage
<1> QED
  BY <1>1, <1>2, <1>3, <1>4, <1>5 DEF Answers, Probes

(* The parts of a response the proofs look at.                              *)
LEMMA ResponseParts ==
  ASSUME NEW s
  PROVE  /\ Response(s).status =
              IF Degraded(envelopes, s.fresh \/ s.dropped) THEN "degraded" ELSE "ok"
         /\ Response(s).flags =
              UNION {envelopes[p].flags : p \in Answering(envelopes)}
  BY DEF Response, Converged

-----------------------------------------------------------------------------
(* The invariant.                                                          *)

LEMMA Initially == Init => Inv
  BY DEF Init, Inv, SessionInv, BufferInv, ScanInv, PoolInv, ReputationInv,
         FreshState, Idle

(* A scan at work is in one of its phases.                                  *)
LEMMA AtWork ==
  ASSUME Inv, scan.phase # "idle"
  PROVE  scan # Idle /\ scan.phase \in {"oracle", "pool", "answered"}
  BY DEF Inv, ScanInv, Idle

(* While the token fits, a request carries the whole buffer.                *)
LEMMA WholeBuffer ==
  ASSUME ScannerAssumption, Inv, fits
  PROVE  SentInputs = buffer
<1> SUFFICES ASSUME NEW i \in buffer PROVE results[i].step \in WindowSteps
  BY DEF SentInputs
<1>1. results[i].step = Len(history) /\ results[i].step \in Nat \ {0}
  <2>1. results[i] \in ResultRecords
    BY DEF Inv, SessionInv
  <2> QED
    BY <2>1 DEF Inv, BufferInv, ResultRecords
<1>2. Len(history) \in DOMAIN history
  BY <1>1 DEF Inv, SessionInv
<1> QED
  BY <1>1, <1>2 DEF WindowSteps, ScannerAssumption

LEMMA RequestStep ==
  ASSUME ScannerAssumption, Inv, NEW call \in Calls, NEW view \in Views,
         Request(call, view)
  PROVE  Inv'
<1> DEFINE state == IF fits THEN token ELSE FreshState
<1>1. PICK top \in ScannedMaxSeq(state, SentInputs) :
        scan' = Prepared(call, view, state, SentInputs, top, ~fits)
  BY DEF Request
<1>2. /\ scan = Idle
      /\ UNCHANGED <<token, fits, history, results, buffer, envelopes>>
      /\ futures' = IF PhaseFor(view) = "pool" THEN Submitted({}) ELSE futures
  BY DEF Request, session
<1>3. DOMAIN state = DOMAIN FreshState /\ state.flags \subseteq Flags
      /\ state.seq \in 0..Len(results)
  BY DEF Inv, SessionInv, FreshState
<1>4. top \in 0..Len(results)
  <2>1. SentInputs \subseteq 1..Len(results)
    BY DEF SentInputs, Inv, SessionInv
  <2>2. top = state.seq \/ top \in SentInputs
    BY <1>1 DEF ScannedMaxSeq
  <2>3. Len(results) \in Nat
    BY DEF Inv, SessionInv
  <2> HIDE DEF state
  <2>4. CASE top = state.seq
    BY <1>3, <2>4
  <2>5. CASE top \in SentInputs
    BY <2>1, <2>3, <2>5
  <2> QED
    BY <2>2, <2>4, <2>5
<1>5. /\ DOMAIN scan' = Fields
      /\ scan'.phase = PhaseFor(view) /\ scan'.call = call /\ scan'.view = view
      /\ scan'.state.flags = state.flags
      /\ scan'.new = {i \in SentInputs : i > state.seq /\ results[i].shown = "text"}
      /\ scan'.top = top
      /\ scan'.dropped = (\E i \in SentInputs : results[i].shown = "dropped")
      /\ scan'.fresh = ~fits
  BY <1>1, <1>3 DEF Prepared, NewInputs, WithText, Fields, FreshState
<1>6. SessionInv' /\ BufferInv'
  BY <1>2 DEF Inv, SessionInv, BufferInv
<1>7. ScanInv'
  <2>1. fits => /\ scan'.state.flags = token.flags
                /\ scan'.new = {i \in buffer : results[i].shown = "text"}
                /\ \A i \in buffer : results[i].shown = "dropped" => scan'.dropped
    BY <1>5, WholeBuffer DEF Inv, BufferInv
  <2> QED
    BY <1>2, <1>3, <1>4, <1>5, <2>1 DEF ScanInv, PhaseFor
<1>8. scan.phase = "idle"
  BY <1>2 DEF Idle
<1>9. PoolInv'
  <2>1. CASE view = "reputation"
    BY <1>2, <1>5, <1>8, <2>1 DEF Inv, PoolInv, PhaseFor
  <2>2. CASE view # "reputation"
    <3>1. scan'.phase = "pool" /\ futures' = Submitted({})
      BY <1>2, <1>5, <2>2 DEF PhaseFor
    <3>2. \A p \in Probes : envelopes'[p] = NoEnvelope /\ futures'[p] = Running
      BY <1>2, <1>8, <3>1 DEF Inv, PoolInv, Submitted
    <3>3. \A p \in Probes : ProbeInv(p)'
      BY <3>1, <3>2 DEF ProbeInv, Running, Off, Done
    <3> QED
      BY <1>2, <3>1, <3>3 DEF Inv, PoolInv, Submitted
  <2> QED
    BY <2>1, <2>2
<1>10. ReputationInv'
  BY <1>5 DEF ReputationInv, PhaseFor
<1> QED
  BY <1>6, <1>7, <1>9, <1>10 DEF Inv

LEMMA OracleStep ==
  ASSUME Inv, OracleAnswers
  PROVE  Inv'
<1>1. PICK e \in EntityOracle(scan) :
        /\ envelopes' = [envelopes EXCEPT !["entity_oracle"] = e]
        /\ scan' = [scan EXCEPT
             !.phase = "pool",
             !.reputation = {x \in e.evidence.entities : x[2] # "unknown"}]
  BY DEF OracleAnswers
<1>2. /\ scan.phase = "oracle"
      /\ futures' = Submitted({"entity_oracle"})
      /\ UNCHANGED <<token, fits, history, results, buffer>>
  BY DEF OracleAnswers, session
<1>3. scan # Idle /\ DOMAIN scan = Fields
  BY <1>2, AtWork DEF Inv, ScanInv
<1> DEFINE r == {x \in e.evidence.entities : x[2] # "unknown"}
<1>4. /\ DOMAIN scan' = Fields /\ scan'.phase = "pool" /\ scan'.call = scan.call
      /\ scan'.ent = scan.ent /\ scan'.state = scan.state /\ scan'.new = scan.new
      /\ scan'.instructing = scan.instructing
      /\ scan'.top = scan.top /\ scan'.dropped = scan.dropped
      /\ scan'.fresh = scan.fresh
      /\ scan'.reputation = r
  <2>1. scan' = [scan EXCEPT !.phase = "pool", !.reputation = r]
    BY <1>1
  <2> HIDE DEF r
  <2> QED
    BY <1>3, <2>1 DEF Fields
<1>5. SessionInv' /\ BufferInv'
  BY <1>2 DEF Inv, SessionInv, BufferInv
<1>6. ScanInv'
  BY <1>2, <1>3, <1>4 DEF Inv, ScanInv
<1>7. "entity_oracle" \in Probes
  BY DEF Probes
<1>8. e \in Possible("entity_oracle", scan')
  BY <1>4, <1>7, SameAnswers DEF Possible, Answers
<1>9. /\ envelopes' = [p \in Probes |-> envelopes'[p]]
      /\ envelopes'["entity_oracle"] = e
      /\ \A p \in Probes \ {"entity_oracle"} : envelopes'[p] = NoEnvelope
  BY <1>1, <1>2, <1>7 DEF Inv, PoolInv
<1>10. e # NoEnvelope
  BY <1>7, <1>8, PossibleShape
<1>11. PoolInv'
  <2>1. futures' = [p \in Probes |-> futures'[p]]
    BY <1>2 DEF Submitted
  <2>2. ASSUME NEW p \in Probes
        PROVE  ProbeInv(p)'
    <3>1. CASE p = "entity_oracle"
      BY <1>2, <1>4, <1>8, <1>9, <1>10, <3>1 DEF ProbeInv, Submitted
    <3>2. CASE p # "entity_oracle"
      BY <1>2, <1>4, <1>9, <3>2 DEF ProbeInv, Submitted, Running, Off, Done
    <3> QED
      BY <3>1, <3>2
  <2> QED
    BY <1>4, <1>9, <2>1, <2>2 DEF PoolInv
<1>12. ReputationInv'
  BY <1>4, <1>9, <1>10 DEF ReputationInv
<1> QED
  BY <1>5, <1>6, <1>11, <1>12 DEF Inv

(* A step of the pool that leaves session and scan alone.                   *)
LEMMA PoolStep ==
  ASSUME Inv, NEW p \in Probes, scan.phase \in {"pool", "answered"},
         UNCHANGED <<session, scan>>, PoolInv',
         envelopes["entity_oracle"] # NoEnvelope =>
           envelopes'["entity_oracle"] = envelopes["entity_oracle"]
  PROVE  Inv'
<1>1. UNCHANGED <<token, fits, history, results, buffer, scan>>
  BY DEF session
<1>2. SessionInv' /\ BufferInv' /\ ScanInv'
  BY <1>1 DEF Inv, SessionInv, BufferInv, ScanInv
<1>3. ReputationInv'
  BY <1>1 DEF Inv, ReputationInv
<1> QED
  BY <1>2, <1>3 DEF Inv

LEMMA ProbeStep ==
  ASSUME Inv, NEW p \in Probes, ProbeEnds(p)
  PROVE  Inv'
<1>1. futures[p] = Running
  BY DEF ProbeEnds
<1>2. scan.phase \in {"pool", "answered"}
  <2>1. scan.phase \notin {"idle", "oracle"}
    BY <1>1 DEF Inv, PoolInv, Running, Off
  <2> QED
    BY <2>1, AtWork
<1>3. /\ UNCHANGED <<session, scan, envelopes>>
      /\ \E f \in Answers(p, scan) \cup {Done} :
           /\ futures' = [futures EXCEPT ![p] = f]
           /\ envelopes[p] = NoEnvelope => f # Done
  <2>1. CASE envelopes[p] = NoEnvelope
    <3>1. PICK f \in Answers(p, scan) : futures' = [futures EXCEPT ![p] = f]
      BY <2>1 DEF ProbeEnds
    <3>2. f # Done
      BY PossibleShape DEF Possible
    <3> QED
      BY <2>1, <3>1, <3>2 DEF ProbeEnds
  <2>2. CASE envelopes[p] # NoEnvelope
    BY <2>2 DEF ProbeEnds
  <2> QED
    BY <2>1, <2>2
<1>4. PICK f \in Answers(p, scan) \cup {Done} :
        /\ futures' = [futures EXCEPT ![p] = f]
        /\ envelopes[p] = NoEnvelope => f # Done
  BY <1>3
<1>5. f # Off
  BY PossibleShape DEF Possible, Done, Off
<1>6. PoolInv'
  <2>1. /\ futures' = [q \in Probes |-> futures'[q]]
        /\ futures'[p] = f
        /\ \A q \in Probes \ {p} : futures'[q] = futures[q]
    BY <1>4 DEF Inv, PoolInv
  <2>2. f \in Possible(p, scan) \cup {Off, Running, Done}
    BY DEF Possible
  <2>3. ASSUME NEW q \in Probes
        PROVE  ProbeInv(q)'
    <3>1. ProbeInv(q)
      BY <1>2 DEF Inv, PoolInv
    <3>2. CASE q = p
      BY <1>3, <1>4, <1>5, <2>1, <2>2, <3>1, <3>2 DEF ProbeInv
    <3>3. CASE q # p
      BY <1>3, <2>1, <3>1, <3>3 DEF ProbeInv
    <3> QED
      BY <3>2, <3>3
  <2> QED
    BY <1>2, <1>3, <2>1, <2>3 DEF Inv, PoolInv
<1> QED
  BY <1>2, <1>3, <1>6, PoolStep

(* The main thread takes an envelope for a probe it was waiting for.        *)
LEMMA MainStep ==
  ASSUME Inv, NEW p \in Probes, Collect(p) \/ GiveUp(p)
  PROVE  Inv'
<1>1. /\ scan.phase = "pool" /\ envelopes[p] = NoEnvelope
      /\ UNCHANGED <<session, scan>>
  BY DEF Collect, GiveUp, Awaited
<1>2. \E e \in Possible(p, scan), f \in {Done, Running} :
        /\ envelopes' = [envelopes EXCEPT ![p] = e]
        /\ futures' = [futures EXCEPT ![p] = f]
  <2>1. CASE Collect(p)
    BY <1>1, <2>1 DEF Collect, Inv, PoolInv, ProbeInv
  <2>2. CASE GiveUp(p)
    <3>1. futures' = [futures EXCEPT ![p] = Running]
      BY <2>2 DEF GiveUp, Inv, PoolInv
    <3> QED
      BY <2>2, <3>1 DEF GiveUp, Possible
  <2> QED
    BY <2>1, <2>2
<1>3. PICK e \in Possible(p, scan), f \in {Done, Running} :
        /\ envelopes' = [envelopes EXCEPT ![p] = e]
        /\ futures' = [futures EXCEPT ![p] = f]
  BY <1>2
<1>4. e # NoEnvelope
  BY PossibleShape
<1>5. /\ envelopes' = [q \in Probes |-> envelopes'[q]]
      /\ futures' = [q \in Probes |-> futures'[q]]
      /\ envelopes'[p] = e /\ futures'[p] = f
      /\ \A q \in Probes \ {p} :
           envelopes'[q] = envelopes[q] /\ futures'[q] = futures[q]
  BY <1>3 DEF Inv, PoolInv
<1>6. PoolInv'
  <2>1. ASSUME NEW q \in Probes
        PROVE  ProbeInv(q)'
    <3>1. ProbeInv(q)
      BY <1>1 DEF Inv, PoolInv
    <3>2. CASE q = p
      BY <1>1, <1>3, <1>4, <1>5, <3>1, <3>2 DEF ProbeInv
    <3>3. CASE q # p
      BY <1>1, <1>5, <3>1, <3>3 DEF ProbeInv
    <3> QED
      BY <3>2, <3>3
  <2> QED
    BY <1>1, <1>5, <2>1 DEF PoolInv
<1>7. envelopes["entity_oracle"] # NoEnvelope =>
        envelopes'["entity_oracle"] = envelopes["entity_oracle"]
  BY <1>1, <1>5 DEF Probes
<1> QED
  BY <1>1, <1>6, <1>7, PoolStep

LEMMA ConvergeStep ==
  ASSUME Inv, Converge
  PROVE  Inv'
<1>1. /\ scan.phase = "pool" /\ PoolLeft
      /\ scan' = [scan EXCEPT !.phase = "answered"]
      /\ UNCHANGED <<token, fits, history, results, buffer, futures, envelopes>>
  BY DEF Converge, session, pool
<1>2. scan # Idle /\ DOMAIN scan = Fields
  BY <1>1, AtWork DEF Inv, ScanInv
<1>3. /\ DOMAIN scan' = Fields /\ scan'.phase = "answered"
      /\ scan'.call = scan.call /\ scan'.view = scan.view
      /\ scan'.ent = scan.ent /\ scan'.state = scan.state /\ scan'.new = scan.new
      /\ scan'.instructing = scan.instructing
      /\ scan'.top = scan.top /\ scan'.dropped = scan.dropped
      /\ scan'.fresh = scan.fresh /\ scan'.reputation = scan.reputation
  BY <1>1, <1>2 DEF Fields
<1>4. SessionInv' /\ BufferInv'
  BY <1>1 DEF Inv, SessionInv, BufferInv
<1>5. ScanInv'
  BY <1>1, <1>2, <1>3 DEF Inv, ScanInv
<1>6. PoolInv'
  <2>1. ASSUME NEW p \in Probes
        PROVE  ProbeInv(p)'
    <3>1. Possible(p, scan') = Possible(p, scan)
      BY <1>3, SameAnswers DEF Possible
    <3> QED
      BY <1>1, <1>3, <3>1 DEF Inv, PoolInv, ProbeInv, PoolLeft
  <2> QED
    BY <1>1, <1>3, <2>1 DEF Inv, PoolInv
<1>7. ReputationInv'
  BY <1>1, <1>3 DEF Inv, ReputationInv
<1> QED
  BY <1>4, <1>5, <1>6, <1>7 DEF Inv

(* When a scan is answered every probe has an envelope.                     *)
LEMMA AnsweredInFull ==
  ASSUME Inv, scan.phase = "answered"
  PROVE  /\ scan # Idle
         /\ DOMAIN envelopes = Probes
         /\ \A p \in Probes : envelopes[p] \in Possible(p, scan)
  BY AtWork DEF Inv, PoolInv, ProbeInv

LEMMA DecidedStep ==
  ASSUME Inv, Decided, SessionInv', BufferInv'
  PROVE  Inv'
<1>1. scan' = Idle /\ scan'.phase = "idle"
  BY DEF Decided, Idle
<1>2. ScanInv' /\ ReputationInv'
  BY <1>1 DEF ScanInv, ReputationInv
<1>3. PoolInv'
  BY <1>1 DEF Decided, PoolInv
<1> QED
  BY <1>2, <1>3 DEF Inv

LEMMA DeliverStep ==
  ASSUME Inv, Deliver
  PROVE  Inv'
<1>1. /\ Decided /\ scan.phase = "answered" /\ scan # Idle
      /\ token' = NextToken(scan) /\ fits' = TRUE /\ buffer' = {}
      /\ history' = Append(history, scan.call) /\ results' = results
  BY AnsweredInFull DEF Deliver, Decided
<1>2. Response(scan).flags \subseteq Flags
  BY <1>1, AnsweredInFull, PossibleShape, ResponseParts DEF Answering
<1>3. scan.state.flags \subseteq Flags /\ scan.top \in 0..Len(results)
      /\ scan.call \in Calls
  BY <1>1 DEF Inv, ScanInv
<1>4. /\ DOMAIN token' = DOMAIN FreshState
      /\ token'.flags \subseteq Flags /\ token'.seq = scan.top
  BY <1>1, <1>2, <1>3 DEF NextToken, FreshState
<1>5. history' \in Seq(Calls)
  BY <1>1, <1>3 DEF Inv, SessionInv
<1>6. SessionInv'
  BY <1>1, <1>3, <1>4, <1>5 DEF Inv, SessionInv, FreshState
<1>7. BufferInv'
  BY <1>1 DEF BufferInv
<1> QED
  BY <1>1, <1>6, <1>7, DecidedStep

LEMMA LoseStep ==
  ASSUME Inv, Lose
  PROVE  Inv'
<1>1. /\ Decided /\ scan.phase = "answered" /\ scan # Idle
      /\ fits' = FALSE /\ UNCHANGED <<token, buffer, results>>
      /\ history' = Append(history, scan.call)
  BY AnsweredInFull DEF Lose, Decided
<1>2. history' \in Seq(Calls)
  BY <1>1 DEF Inv, ScanInv, SessionInv
<1>3. SessionInv'
  BY <1>1, <1>2 DEF Inv, SessionInv, FreshState
<1>4. BufferInv'
  BY <1>1 DEF BufferInv
<1> QED
  BY <1>1, <1>3, <1>4, DecidedStep

LEMMA ResultStep ==
  ASSUME ScannerAssumption, Inv, NEW text \in Texts, Result(text)
  PROVE  Inv'
<1> DEFINE rec == [step |-> Len(history), shown |-> text.shown,
                   names |-> text.names, instructs |-> text.instructs]
<1>1. /\ scan = Idle /\ history # <<>>
      /\ \A i \in DOMAIN results : results[i].step # Len(history)
      /\ results' = Append(results, rec)
      /\ buffer' = buffer \cup {Len(results) + 1}
      /\ UNCHANGED <<token, fits, history, scan, futures, envelopes>>
  BY DEF Result, pool
<1>2. rec \in ResultRecords
  <2>1. Len(history) \in Nat \ {0}
    BY <1>1 DEF Inv, SessionInv
  <2>2. text \in TextShapes
    BY DEF ScannerAssumption
  <2> QED
    BY <2>1, <2>2 DEF TextShapes, ResultRecords
<1> HIDE DEF rec
<1>3. /\ results' \in Seq(ResultRecords) /\ Len(results') = Len(results) + 1
      /\ results'[Len(results) + 1] = rec
      /\ \A i \in DOMAIN results : results'[i] = results[i]
      /\ DOMAIN results' = DOMAIN results \cup {Len(results) + 1}
  BY <1>1, <1>2 DEF Inv, SessionInv
<1>4. SessionInv'
  BY <1>1, <1>3 DEF Inv, SessionInv, FreshState
<1>5. BufferInv'
  <2> SUFFICES ASSUME fits, NEW i \in buffer'
               PROVE  i > token.seq /\ results'[i].step = Len(history)
    BY <1>1 DEF BufferInv
  <2>1. i \notin buffer
    BY <1>1 DEF Inv, SessionInv, BufferInv
  <2>2. i = Len(results) + 1 /\ rec.step = Len(history)
    BY <1>1, <2>1 DEF rec
  <2> QED
    BY <1>3, <2>2 DEF Inv, SessionInv
<1>6. ScanInv' /\ PoolInv' /\ ReputationInv'
  <2>1. scan.phase = "idle"
    BY <1>1 DEF Idle
  <2> QED
    BY <1>1, <2>1 DEF Inv, ScanInv, PoolInv, ReputationInv
<1> QED
  BY <1>4, <1>5, <1>6 DEF Inv

LEMMA Inductive ==
  ASSUME ScannerAssumption, Inv, [Next]_vars
  PROVE  Inv'
<1>1. CASE UNCHANGED vars
  BY <1>1 DEF vars, session, pool, memory, Inv, SessionInv, BufferInv, ScanInv,
              PoolInv, ProbeInv, ReputationInv
<1>2. CASE \E call \in Calls, view \in Views : Request(call, view)
  BY <1>2, RequestStep
<1>3. CASE OracleAnswers
  BY <1>3, OracleStep
<1>4. CASE \E p \in Probes : Collect(p) \/ GiveUp(p)
  BY <1>4, MainStep
<1>5. CASE Converge
  BY <1>5, ConvergeStep
<1>6. CASE Deliver
  BY <1>6, DeliverStep
<1>7. CASE Lose
  BY <1>7, LoseStep
<1>8. CASE \E p \in Probes : ProbeEnds(p)
  BY <1>8, ProbeStep
<1>9. CASE \E text \in Texts : Result(text)
  BY <1>9, ResultStep
<1> QED
  BY <1>1, <1>2, <1>3, <1>4, <1>5, <1>6, <1>7, <1>8, <1>9 DEF Next, MainThread

(* Only an answer, its loss and a result change what the session keeps.     *)
LEMMA QuietStep ==
  ASSUME [Next]_vars, ~Deliver, ~Lose, ~(\E text \in Texts : Result(text))
  PROVE  UNCHANGED <<token, fits, results, buffer, examined, excused>>
<1>1. CASE UNCHANGED vars
  BY <1>1 DEF vars, session, memory
<1>2. CASE \E call \in Calls, view \in Views : Request(call, view)
  BY <1>2 DEF Request, session
<1>3. CASE OracleAnswers
  BY <1>3 DEF OracleAnswers, session, memory
<1>4. CASE \E p \in Probes : Collect(p) \/ GiveUp(p)
  BY <1>4 DEF Collect, GiveUp, session, memory
<1>5. CASE Converge
  BY <1>5 DEF Converge, session, memory
<1>6. CASE \E p \in Probes : ProbeEnds(p)
  BY <1>6 DEF ProbeEnds, session, memory
<1> QED
  BY <1>1, <1>2, <1>3, <1>4, <1>5, <1>6 DEF Next, MainThread

LEMMA Invariance == Spec => []Inv
<1>1. Init => Inv
  BY Initially
<1>2. Inv /\ [Next]_vars => Inv'
  BY Inductive, ScannerAssumption
<1> QED
  BY <1>1, <1>2, PTL DEF Spec

-----------------------------------------------------------------------------
(* Nothing unexamined behind a complete answer.                            *)

(* An exposure probe that did not fail has read all new results.           *)
LEMMA ExposureEvidence ==
  ASSUME NEW s, NEW e \in Possible("jev_exposure", s),
         e.status \notin {"error", "timeout"}
  PROVE  e.evidence.inputs = s.new
<1>1. \A st : Failed(st).status = st
  BY DEF Failed
<1>2. e \in JevExposure(s)
  BY <1>1 DEF Possible, Answers
<1>3. CASE s.new = {}
  BY <1>2, <1>3 DEF JevExposure, Skipped, Failed, NoEvidence
<1>4. CASE s.new # {}
  BY <1>1, <1>2, <1>4 DEF JevExposure, ApiFailed, Answered, NoEvidence
<1> QED
  BY <1>3, <1>4

LEMMA DeliverExamines ==
  ASSUME Inv, UnexaminedShows, Deliver
  PROVE  UnexaminedShows'
<1>1. /\ scan.phase = "answered" /\ buffer' = {} /\ results' = results
      /\ examined' = (IF scan.fresh THEN {} ELSE examined)
                       \cup envelopes["jev_exposure"].evidence.inputs
      /\ excused' = IF Response(scan).status = "degraded"
                    THEN DOMAIN results ELSE excused
  BY DEF Deliver, Decided
<1>2. scan.fresh = ~fits
  BY <1>1, AnsweredInFull DEF Inv, ScanInv
<1> SUFFICES ASSUME NEW i \in DOMAIN results, results[i].shown # "empty",
                    Response(scan).status # "degraded"
             PROVE  i \in examined' \cup excused'
  BY <1>1 DEF UnexaminedShows
<1>3. /\ fits /\ ~scan.dropped
      /\ envelopes["jev_exposure"].status \notin {"error", "timeout"}
  BY <1>1, <1>2, AnsweredInFull, ResponseParts DEF Degraded, Probes
<1>4. CASE i \notin buffer
  BY <1>1, <1>2, <1>3, <1>4 DEF UnexaminedShows
<1>5. CASE i \in buffer
  <2>1. results[i].shown \in {"text", "empty", "dropped"}
    <3>1. results[i] \in ResultRecords
      BY DEF Inv, SessionInv
    <3> QED
      BY <3>1 DEF ResultRecords
  <2>2. i \in scan.new
    BY <1>1, <1>3, <1>5, <2>1, AnsweredInFull DEF Inv, ScanInv
  <2>3. envelopes["jev_exposure"].evidence.inputs = scan.new
    BY <1>1, <1>3, AnsweredInFull, ExposureEvidence DEF Probes
  <2> QED
    BY <1>1, <2>2, <2>3
<1> QED
  BY <1>4, <1>5

LEMMA ExaminedStep ==
  ASSUME Inv, UnexaminedShows, [Next]_vars
  PROVE  UnexaminedShows'
<1>1. CASE UNCHANGED <<results, buffer, examined, excused>>
  BY <1>1 DEF UnexaminedShows
<1>2. CASE Deliver
  BY <1>2, DeliverExamines
<1>3. CASE \E text \in Texts : Result(text)
  <2>1. /\ \E rec : results' = Append(results, rec)
        /\ buffer' = buffer \cup {Len(results) + 1}
        /\ UNCHANGED <<examined, excused>>
    BY <1>3 DEF Result
  <2>2. /\ DOMAIN results' = DOMAIN results \cup {Len(results) + 1}
        /\ \A i \in DOMAIN results : results'[i] = results[i]
    BY <2>1 DEF Inv, SessionInv
  <2> QED
    BY <2>1, <2>2 DEF UnexaminedShows
<1>4. CASE Lose
  BY <1>1, <1>4 DEF Lose, Decided
<1>5. CASE ~Deliver /\ ~Lose /\ ~(\E text \in Texts : Result(text))
  BY <1>1, <1>5, QuietStep
<1> QED
  BY <1>2, <1>3, <1>4, <1>5

(* Whatever the agent has read and the plugin no longer keeps was read by   *)
(* an exposure probe, or a degraded answer came after it (scan.py, the      *)
(* timeouts of the pool; converge/__init__.py, the degraded status): for    *)
(* any failures of the probes and any lost answers.                        *)
THEOREM NothingUnexamined == Spec => []UnexaminedShows
<1>1. Init => UnexaminedShows
  BY DEF Init, UnexaminedShows
<1>2. Inv /\ UnexaminedShows /\ [Next]_vars => UnexaminedShows'
  BY ExaminedStep
<1> QED
  BY <1>1, <1>2, Invariance, PTL DEF Spec

-----------------------------------------------------------------------------
(* The oracle before the pool.                                             *)

(* Where the call view wants reputations, the model's answer was given on   *)
(* the verdicts convergence scores the call with (scan.py, the oracle's     *)
(* answer before the pool).                                                *)
THEOREM ReputationFirst == Spec => []CallSeesReputation
<1>1. Inv => CallSeesReputation
  <2> SUFFICES ASSUME Inv, scan.phase = "answered", scan.view = "reputation",
                      envelopes["jev_call"].status = "ok"
               PROVE  envelopes["jev_call"].evidence.entities = scan.reputation
    BY DEF CallSeesReputation, Inv, ReputationInv
  <2>1. envelopes["jev_call"] \in Possible("jev_call", scan)
    BY AnsweredInFull DEF Probes
  <2>2. \A st : Failed(st).status = st
    BY DEF Failed
  <2>3. envelopes["jev_call"] \in JevCall(scan)
    BY <2>1, <2>2 DEF Possible, Answers
  <2> QED
    BY <2>2, <2>3 DEF JevCall, ApiFailed, Answered, NoEvidence
<1> QED
  BY <1>1, Invariance, PTL

-----------------------------------------------------------------------------
(* The memory of a session.                                                *)

LEMMA MemoryStep ==
  ASSUME Inv, [Next]_vars
  PROVE  \/ fits' /\ (fits => token.flags \subseteq token'.flags)
         \/ fits /\ ~fits' /\ token' = token
         \/ ~fits /\ ~fits'
<1>1. CASE UNCHANGED <<token, fits>>
  BY <1>1 DEF Inv, SessionInv
<1>2. CASE Deliver
  <2>1. scan.phase = "answered" /\ fits' = TRUE /\ token' = NextToken(scan)
    BY <1>2 DEF Deliver, Decided
  <2>2. fits => token.flags = scan.state.flags
    BY <2>1, AnsweredInFull DEF Inv, ScanInv
  <2> QED
    BY <2>1, <2>2 DEF NextToken
<1>3. CASE Lose
  BY <1>3 DEF Lose, Inv, SessionInv
<1>4. CASE \E text \in Texts : Result(text)
  BY <1>1, <1>4 DEF Result
<1>5. CASE ~Deliver /\ ~Lose /\ ~(\E text \in Texts : Result(text))
  BY <1>1, <1>5, QuietStep
<1> QED
  BY <1>2, <1>3, <1>4, <1>5

(* The scanner's memory of a session, in the token alone, implements        *)
(* Episode: the flags a scan sets are in every later token until an answer  *)
(* is lost (converge/__init__.py:213-242).                                  *)
THEOREM MemoryImplemented == Spec => MemoryKept
<1>1. Init => Memory!Init
  BY DEF Init, Memory!Init, FreshState
<1>2. Inv /\ Inv' /\ [Next]_vars => [Memory!Next]_(Memory!vars)
  <2> SUFFICES ASSUME Inv, Inv', [Next]_vars PROVE Memory!Next
    OBVIOUS
  <2>1. token'.flags \in SUBSET Flags /\ fits' \in BOOLEAN
    BY DEF Inv, SessionInv
  <2> QED
    BY <2>1, MemoryStep DEF Memory!Next, Memory!Learn, Memory!Interrupt, Memory!Ignore
<1> QED
  BY <1>1, <1>2, Invariance, PTL DEF Spec, MemoryKept, Memory!Spec

-----------------------------------------------------------------------------
(* Instructions that were found are in every later scan.                    *)

(* What is new in a request, and what of it instructs, is as it was read.   *)
InstructInv ==
  scan # Idle =>
    /\ scan.new \subseteq DOMAIN results
    /\ scan.instructing = {i \in scan.new : results[i].instructs}

(* What was found out is in the token the plugin keeps, fitting or not.     *)
TaintInv ==
  /\ examined \subseteq DOMAIN results
  /\ (\E i \in examined : results[i].instructs) => "tainted" \in token.flags

LEMMA InstructStep ==
  ASSUME Inv, InstructInv, [Next]_vars
  PROVE  InstructInv'
<1>1. CASE UNCHANGED <<scan, results>>
  BY <1>1 DEF InstructInv
<1>2. CASE \E call \in Calls, view \in Views : Request(call, view)
  <2>1. PICK call \in Calls, view \in Views : Request(call, view)
    BY <1>2
  <2>2. PICK state, top, fresh : scan' = Prepared(call, view, state, SentInputs, top, fresh)
    BY <2>1 DEF Request
  <2>3. results' = results
    BY <2>1 DEF Request, session
  <2>4. scan'.new = NewInputs(state, SentInputs)
    BY <2>2 DEF Prepared
  <2>5. scan'.instructing = {i \in NewInputs(state, SentInputs) : results[i].instructs}
    BY <2>2 DEF Prepared
  <2>6. NewInputs(state, SentInputs) \subseteq DOMAIN results
    BY DEF NewInputs, WithText, SentInputs, Inv, SessionInv
  <2> QED
    BY <2>3, <2>4, <2>5, <2>6 DEF InstructInv
<1>3. CASE OracleAnswers \/ Converge
  <2>1. /\ results' = results
        /\ scan.phase \in {"oracle", "pool"}
        /\ \E r, ph : \/ scan' = [scan EXCEPT !.phase = ph, !.reputation = r]
                      \/ scan' = [scan EXCEPT !.phase = ph]
    BY <1>3 DEF OracleAnswers, Converge, session
  <2>2. scan # Idle /\ DOMAIN scan = Fields
    BY <2>1, AtWork DEF Inv, ScanInv
  <2>3. scan'.new = scan.new /\ scan'.instructing = scan.instructing
    BY <2>1, <2>2 DEF Fields
  <2> QED
    BY <2>1, <2>2, <2>3 DEF InstructInv
<1>4. CASE Deliver \/ Lose
  BY <1>4 DEF Deliver, Lose, Decided, InstructInv
<1>5. CASE \E text \in Texts : Result(text)
  BY <1>5 DEF Result, InstructInv
<1>6. CASE \E p \in Probes : Collect(p) \/ GiveUp(p) \/ ProbeEnds(p)
  BY <1>1, <1>6 DEF Collect, GiveUp, ProbeEnds, session
<1>7. CASE UNCHANGED vars
  BY <1>1, <1>7 DEF vars, session
<1> QED
  BY <1>2, <1>3, <1>4, <1>5, <1>6, <1>7 DEF Next, MainThread

(* Where an exposure probe has read something, it has read what is new, and *)
(* says so when that instructs.                                             *)
LEMMA ExposureTaints ==
  ASSUME NEW s, NEW e \in Possible("jev_exposure", s), NEW i \in e.evidence.inputs
  PROVE  /\ i \in s.new /\ e.status = "ok"
         /\ s.instructing # {} => "tainted" \in e.flags
<1>1. \A st : Failed(st).evidence.inputs = {}
  BY DEF Failed, NoEvidence
<1>2. e \notin ApiFailed /\ e # Skipped /\ e # Failed("timeout")
  BY <1>1 DEF ApiFailed, Skipped
<1>3. e \in JevExposure(s)
  BY <1>2 DEF Possible, Answers
<1>4. \E c, v : e = Answered({c}, {}, IF s.instructing # {} THEN {"tainted"} ELSE {},
                          [NoEvidence EXCEPT !.inputs = s.new])
  BY <1>2, <1>3 DEF JevExposure
<1> QED
  BY <1>4 DEF Answered, NoEvidence

LEMMA TaintStep ==
  ASSUME Inv, InstructInv, TaintInv, [Next]_vars
  PROVE  TaintInv'
<1>1. CASE UNCHANGED <<token, results, examined>>
  BY <1>1 DEF TaintInv
<1>2. CASE Deliver
  <2> DEFINE e == envelopes["jev_exposure"]
  <2>1. /\ scan.phase = "answered" /\ results' = results
        /\ examined' = (IF scan.fresh THEN {} ELSE examined) \cup e.evidence.inputs
        /\ token' = NextToken(scan)
    BY <1>2 DEF Deliver, Decided
  <2>2. /\ scan # Idle /\ e \in Possible("jev_exposure", scan)
        /\ "jev_exposure" \in DOMAIN envelopes
    BY <2>1, AnsweredInFull DEF Probes
  <2>3. /\ scan.fresh = ~fits
        /\ fits => scan.state.flags = token.flags
    BY <2>2 DEF Inv, ScanInv
  <2>4. token'.flags = scan.state.flags \cup Response(scan).flags
    BY <2>1 DEF NextToken
  <2>5. e.evidence.inputs \subseteq scan.new
    BY <2>2, ExposureTaints
  <2>6. examined' \subseteq DOMAIN results
    BY <2>1, <2>2, <2>5 DEF InstructInv, TaintInv
  <2>7. ASSUME NEW i \in examined', results[i].instructs
        PROVE  "tainted" \in token'.flags
    <3>1. CASE i \in e.evidence.inputs
      <4>1. scan.instructing # {}
        BY <2>2, <2>5, <2>7, <3>1 DEF InstructInv
      <4>2. e.status = "ok" /\ "tainted" \in e.flags
        BY <2>2, <3>1, <4>1, ExposureTaints
      <4>3. e.flags \subseteq Response(scan).flags
        BY <2>2, <4>2, ResponseParts DEF Answering
      <4> QED
        BY <2>4, <4>2, <4>3
    <3>2. CASE i \notin e.evidence.inputs
      BY <2>1, <2>3, <2>4, <2>7, <3>2 DEF TaintInv
    <3> QED
      BY <3>1, <3>2
  <2> QED
    BY <2>1, <2>6, <2>7 DEF TaintInv
<1>3. CASE Lose
  BY <1>1, <1>3 DEF Lose, Decided
<1>4. CASE \E text \in Texts : Result(text)
  <2>1. (\E rec : results' = Append(results, rec)) /\ UNCHANGED <<token, examined>>
    BY <1>4 DEF Result
  <2>2. /\ DOMAIN results \subseteq DOMAIN results'
        /\ \A i \in DOMAIN results : results'[i] = results[i]
    BY <2>1 DEF Inv, SessionInv
  <2> QED
    BY <2>1, <2>2 DEF TaintInv
<1>5. CASE ~Deliver /\ ~Lose /\ ~(\E text \in Texts : Result(text))
  BY <1>1, <1>5, QuietStep
<1> QED
  BY <1>2, <1>3, <1>4, <1>5

ExposureValues == {SafeExposure, StickyExposure, HighExposure}

LEMMA ExposureClaims ==
  ASSUME NEW p \in Probes, NEW s, NEW e \in Possible(p, s),
         NEW c \in e.claims, c.signal = "exposure"
  PROVE  c.value \in ExposureValues
<1>1. /\ \A st : Failed(st).claims = {}
      /\ \A cs, fl, fs, ev : Answered(cs, fl, fs, ev).claims = cs
      /\ \A q, g, v, x : Claim(q, g, v, x).signal = g /\ Claim(q, g, v, x).value = v
  BY DEF Failed, Answered, Claim
<1>2. e \in Answers(p, s) /\ e \notin ApiFailed /\ e \notin Raised /\ e # Skipped
  BY <1>1 DEF Possible, ApiFailed, Raised, Skipped
<1>3. CASE p = "jev_exposure"
  BY <1>1, <1>2, <1>3 DEF Answers, JevExposure, ExposureValues
<1>4. CASE p = "jev_call"
  BY <1>1, <1>2, <1>4 DEF Answers, JevCall
<1>5. CASE p = "aira"
  BY <1>1, <1>2, <1>5 DEF Answers, Aira
<1>6. CASE p = "entity_oracle"
  BY <1>1, <1>2, <1>6 DEF Answers, EntityOracle, LookedUp
<1>7. CASE p = "context"
  <2>1. c \in OriginClaims(s.ent) \cup RequestOriginClaims(s.ent)
              \cup StickyClaims(s) \cup ContextCoverage(s)
    BY <1>1, <1>2, <1>7 DEF Answers, Context
  <2> QED
    BY <1>1, <2>1 DEF OriginClaims, RequestOriginClaims, StickyClaims, ContextCoverage,
                      ExposureValues
<1> QED
  BY <1>3, <1>4, <1>5, <1>6, <1>7 DEF Probes

(* The highest of the values there are is at least any of them.             *)
LEMMA ExposureMax ==
  ASSUME NEW V \in SUBSET ExposureValues, StickyExposure \in V
  PROVE  (CHOOSE x \in V : \A y \in V : x >= y) >= StickyExposure
<1>1. \E x \in V : \A y \in V : x >= y
  <2>1. CASE HighExposure \in V
    BY <2>1 DEF ExposureValues, SafeExposure, StickyExposure, HighExposure
  <2>2. CASE HighExposure \notin V
    BY <2>2 DEF ExposureValues, SafeExposure, StickyExposure, HighExposure
  <2> QED
    BY <2>1, <2>2
<1> QED
  BY <1>1

LEMMA StickyAnswered ==
  ASSUME NEW s, NEW e \in Possible("context", s), e.status = "ok", "tainted" \in s.state.flags
  PROVE  Claim("context", "exposure", StickyExposure, None) \in e.claims
<1>1. \A st : Failed(st).status = st
  BY DEF Failed
<1>2. e \in Context(s) /\ e \notin Raised
  BY <1>1 DEF Possible, Answers, Raised
<1> QED
  BY <1>2 DEF Context, Answered, StickyClaims

(* Once a probe has found instructions in something that was read, every    *)
(* later scan with a token that fits carries the exposure, whatever the     *)
(* call, its relief and the other probes' failures (converge/__init__.py,   *)
(* the flags; probes/context.py, the sticky claims).                        *)
THEOREM TaintFollows == Spec => []TaintReachesCalls
<1>1. Init => InstructInv /\ TaintInv
  BY DEF Init, InstructInv, TaintInv
<1>2. Inv /\ InstructInv /\ TaintInv /\ [Next]_vars => InstructInv' /\ TaintInv'
  BY InstructStep, TaintStep
<1>3. Inv /\ TaintInv => TaintReachesCalls
  <2> SUFFICES ASSUME Inv, TaintInv, scan.phase = "answered", ~scan.fresh,
                      NEW i \in examined, results[i].instructs,
                      envelopes["context"].status = "ok"
               PROVE  ValueOr(Response(scan).claims, "exposure", 0) >= StickyExposure
    BY DEF TaintReachesCalls
  <2> DEFINE claims == Response(scan).claims
             sticky == Claim("context", "exposure", StickyExposure, None)
  <2>1. scan # Idle /\ DOMAIN envelopes = Probes /\ \A p \in Probes : envelopes[p] \in Possible(p, scan)
    BY AnsweredInFull
  <2>2. "tainted" \in scan.state.flags
    BY <2>1 DEF Inv, ScanInv, TaintInv
  <2>3. claims = Kept(CollectClaims(envelopes), Excluded(scan.ent, envelopes))
    BY DEF Response, Converged
  <2>4. \A x : <<"exposure", x>> \notin Excluded(scan.ent, envelopes)
    BY DEF Excluded
  <2>5. sticky \in claims
    <3>1. sticky \in envelopes["context"].claims
      BY <2>1, <2>2, StickyAnswered DEF Probes
    <3>2. sticky \in CollectClaims(envelopes)
      BY <2>1, <3>1 DEF CollectClaims, Answering, Probes
    <3>3. sticky.signal = "exposure"
      BY DEF Claim
    <3> QED
      BY <2>3, <2>4, <3>2, <3>3 DEF Kept
  <2>6. \A c \in claims : c.signal = "exposure" => c.value \in ExposureValues
    BY <2>1, <2>3, ExposureClaims DEF Kept, CollectClaims, Answering
  <2> DEFINE V == ValuesOf(claims, "exposure")
  <2>7. V \in SUBSET ExposureValues /\ StickyExposure \in V
    <3>1. sticky.signal = "exposure" /\ sticky.value = StickyExposure
      BY DEF Claim
    <3> QED
      BY <2>5, <2>6, <3>1 DEF ValuesOf
  <2>8. ValueOr(claims, "exposure", 0) = CHOOSE x \in V : \A y \in V : x >= y
    BY <2>7 DEF ValueOr, ConfidenceSignals, Max
  <2> HIDE DEF V
  <2> QED
    BY <2>7, <2>8, ExposureMax
<1> QED
  BY <1>1, <1>2, <1>3, Invariance, PTL DEF Spec

-----------------------------------------------------------------------------
(* Numbers.                                                                *)

(* A non-empty set of numbers has a least element.                          *)
LEMMA Least ==
  ASSUME NEW T, T \subseteq Nat, T # {}
  PROVE  \E n \in T : \A m \in T : n <= m
<1>1. PICK n \in T : \A m \in T : ~(<<m, n>> \in OpToRel(<, Nat))
  BY NatLessThanWellFounded, WFMin
<1>2. \A m \in T : ~(m < n)
  BY <1>1 DEF OpToRel
<1> QED
  BY <1>2

(* Induction, as a fact about sets: one with 0 and every successor has all  *)
(* numbers.                                                                *)
LEMMA Counting ==
  ASSUME NEW A, 0 \in A, \A n \in Nat : n \in A => n + 1 \in A
  PROVE  \A n \in Nat : n \in A
<1> SUFFICES ASSUME NEW k \in Nat, k \notin A PROVE FALSE
  OBVIOUS
<1> DEFINE missing == {n \in Nat : n \notin A}
<1>1. PICK n \in missing : \A m \in missing : n <= m
  <2>1. missing \subseteq Nat /\ missing # {}
    OBVIOUS
  <2> HIDE DEF missing
  <2> QED
    BY <2>1, Least
<1>2. n - 1 \in Nat /\ n - 1 \notin missing /\ n - 1 + 1 = n
  BY <1>1
<1> QED
  BY <1>1, <1>2

(* Max and Min of a set of numbers that does not grow without bound.        *)
LEMMA MaxFacts ==
  ASSUME NEW bound \in Nat, NEW S, S \subseteq 0..bound, S # {}
  PROVE  Max(S) \in S /\ \A x \in S : x <= Max(S)
<1> DEFINE T == {n \in Nat : bound - n \in S}
<1>1. T \subseteq Nat /\ T # {}
  <2>1. PICK x \in S : x \in 0..bound
    OBVIOUS
  <2>2. bound - x \in Nat /\ bound - (bound - x) = x
    BY <2>1
  <2>3. bound - x \in T
    BY <2>2
  <2> QED
    BY <2>3
<1>2. PICK n \in T : \A m \in T : n <= m
  <2> HIDE DEF T
  <2> QED
    BY <1>1, Least
<1>3. ASSUME NEW x \in S
      PROVE  bound - n >= x
  <2>1. x \in Int /\ bound - x \in Nat /\ bound - (bound - x) = x
    BY <1>3
  <2>2. bound - x \in T
    BY <1>3, <2>1
  <2>3. n <= bound - x /\ n \in Nat
    BY <1>2, <2>2
  <2> QED
    BY <2>1, <2>3
<1>4. bound - n \in S
  BY <1>2
<1> HIDE DEF T
<1>5. \E z \in S : \A x \in S : z >= x
  BY <1>3, <1>4
<1>6. Max(S) \in S /\ \A x \in S : Max(S) >= x
  BY <1>5 DEF Max
<1>7. \A x \in S : x \in Nat
  OBVIOUS
<1> QED
  BY <1>6, <1>7

LEMMA MinFacts ==
  ASSUME NEW S, S \subseteq Nat, S # {}
  PROVE  Min(S) \in S /\ \A x \in S : Min(S) <= x
<1>1. PICK n \in S : \A m \in S : n <= m
  BY Least
<1> QED
  BY <1>1 DEF Min

LEMMA TimesFacts ==
  ASSUME NEW a \in 0..Scale, NEW b \in 0..Scale
  PROVE  Times(a, b) \in 0..Scale
<1>1. a \in Nat /\ b \in Nat /\ a <= 1000 /\ b <= 1000
  BY DEF Scale
<1>2. a * b \in Nat /\ a * b <= 1000 * 1000
  <2>1. a * b \in Nat
    BY <1>1
  <2>2. a * b <= 1000 * b
    BY <1>1
  <2> QED
    BY <1>1, <2>1, <2>2
<1> DEFINE c == a * b
<1>3. c \in Nat /\ c <= 1000000
  BY <1>2
<1> HIDE DEF c
<1>4. c \div 1000 \in 0..1000
  BY <1>3
<1> QED
  BY <1>4 DEF Times, Scale, c

LEMMA MaxOfTwo ==
  ASSUME NEW a \in Int, NEW b \in Int
  PROVE  /\ Max({a, b}) \in {a, b}
         /\ a <= Max({a, b}) /\ b <= Max({a, b})
<1>1. \E z \in {a, b} : \A x \in {a, b} : z >= x
  <2>1. a >= b \/ b >= a
    OBVIOUS
  <2> QED
    BY <2>1
<1>2. Max({a, b}) \in {a, b} /\ \A x \in {a, b} : Max({a, b}) >= x
  BY <1>1 DEF Max
<1> QED
  BY <1>2

-----------------------------------------------------------------------------
(* The product of a fold over a finite set.                                *)

(* What the fold makes of s, given what it makes of its subsets.            *)
Factor(v, g, s) ==
  IF s = {} THEN Scale
  ELSE LET x == CHOOSE x \in s : TRUE IN Times(g[s \ {x}], Scale - v[x])

Product(v) == CHOOSE g : g = [s \in SUBSET DOMAIN v |-> Factor(v, g, s)]

LEMMA NoisyOrProduct ==
  ASSUME NEW v
  PROVE  NoisyOr(v) = Scale - Product(v)[DOMAIN v]
  BY DEF NoisyOr, FoldFunction, FoldFunctionOnSet, MapThenFoldSet, Product, Factor

LEMMA ProductExists ==
  ASSUME NEW v, IsFiniteSet(DOMAIN v)
  PROVE  \A s \in SUBSET DOMAIN v : Product(v)[s] = Factor(v, Product(v), s)
<1> DEFINE Small(n) == {s \in SUBSET DOMAIN v : Cardinality(s) <= n}
           A == {n \in Nat : \E g : g = [s \in Small(n) |-> Factor(v, g, s)]}
<1>1. \A s \in SUBSET DOMAIN v : IsFiniteSet(s) /\ Cardinality(s) \in Nat
  BY FS_Subset, FS_CardinalityType
<1>2. \A s \in SUBSET DOMAIN v : \A x \in s : Cardinality(s \ {x}) = Cardinality(s) - 1
  BY <1>1, FS_RemoveElement
<1>3. 0 \in A
  <2> DEFINE g == [s \in Small(0) |-> Scale]
  <2>1. ASSUME NEW s \in Small(0)
        PROVE  Factor(v, g, s) = Scale
    <3>1. Cardinality(s) = 0
      BY <1>1
    <3>2. s = {}
      BY <1>1, <3>1, FS_EmptySet
    <3> QED
      BY <3>2 DEF Factor
  <2>2. g = [s \in Small(0) |-> Factor(v, g, s)]
    BY <2>1
  <2> QED
    BY <2>2
<1>4. ASSUME NEW n \in Nat, n \in A
      PROVE  n + 1 \in A
  <2>1. PICK g : g = [s \in Small(n) |-> Factor(v, g, s)]
    BY <1>4
  <2> DEFINE h == [s \in Small(n + 1) |-> Factor(v, g, s)]
  <2>2. ASSUME NEW s \in Small(n + 1)
        PROVE  Factor(v, h, s) = Factor(v, g, s)
    <3>1. CASE s = {}
      BY <3>1 DEF Factor
    <3>2. CASE s # {}
      <4> DEFINE x == CHOOSE x \in s : TRUE
      <4>1. x \in s
        BY <3>2
      <4> HIDE DEF x
      <4>2. s \ {x} \in Small(n) /\ s \ {x} \in Small(n + 1)
        BY <1>1, <1>2, <4>1
      <4>3. h[s \ {x}] = g[s \ {x}]
        BY <2>1, <4>2
      <4> HIDE DEF h
      <4> QED
        BY <3>2, <4>3 DEF Factor, x
    <3> QED
      BY <3>1, <3>2
  <2>3. h = [s \in Small(n + 1) |-> Factor(v, h, s)]
    BY <2>2
  <2>4. n + 1 \in Nat
    OBVIOUS
  <2> HIDE DEF h, Small
  <2> QED
    BY <2>3, <2>4
<1> HIDE DEF A
<1>5. Cardinality(DOMAIN v) \in A
  BY <1>1, <1>3, <1>4, Counting
<1>6. Small(Cardinality(DOMAIN v)) = SUBSET DOMAIN v
  BY FS_Subset
<1>7. \E g : g = [s \in SUBSET DOMAIN v |-> Factor(v, g, s)]
  BY <1>5, <1>6 DEF A
<1>8. Product(v) = [s \in SUBSET DOMAIN v |-> Factor(v, Product(v), s)]
  BY <1>7 DEF Product
<1> HIDE DEF Product
<1> QED
  BY <1>8

LEMMA NoisyOrFacts ==
  ASSUME NEW v, IsFiniteSet(DOMAIN v), \A x \in DOMAIN v : v[x] \in 0..Scale
  PROVE  NoisyOr(v) \in 0..Scale
<1> DEFINE P == Product(v)
           A == {n \in Nat : \A s \in SUBSET DOMAIN v : Cardinality(s) = n => P[s] \in 0..Scale}
<1>1. \A s \in SUBSET DOMAIN v : P[s] = Factor(v, P, s)
  BY ProductExists
<1> HIDE DEF P
<1>2. \A s \in SUBSET DOMAIN v : IsFiniteSet(s) /\ Cardinality(s) \in Nat
  BY FS_Subset, FS_CardinalityType
<1>3. 0 \in A
  <2>1. \A s \in SUBSET DOMAIN v : Cardinality(s) = 0 => s = {}
    BY <1>2, FS_EmptySet
  <2>2. Factor(v, P, {}) \in 0..Scale
    BY DEF Factor, Scale
  <2> QED
    BY <1>1, <2>1, <2>2
<1>4. ASSUME NEW n \in Nat, n \in A
      PROVE  n + 1 \in A
  <2> SUFFICES ASSUME NEW s \in SUBSET DOMAIN v, Cardinality(s) = n + 1
               PROVE  P[s] \in 0..Scale
    OBVIOUS
  <2>1. s # {}
    BY FS_EmptySet
  <2> DEFINE x == CHOOSE x \in s : TRUE
  <2>2. x \in s
    BY <2>1
  <2>3. P[s] = Times(P[s \ {x}], Scale - v[x])
    BY <1>1, <2>1 DEF Factor
  <2> HIDE DEF x
  <2>4. Cardinality(s \ {x}) = n
    <3>1. Cardinality(s \ {x}) = Cardinality(s) - 1
      BY <1>2, <2>2, FS_RemoveElement
    <3> QED
      BY <3>1
  <2>5. P[s \ {x}] \in 0..Scale
    BY <1>4, <2>4
  <2>6. Scale - v[x] \in 0..Scale
    <3>1. v[x] \in 0..Scale
      BY <2>2
    <3> QED
      BY <3>1 DEF Scale
  <2> QED
    BY <2>3, <2>5, <2>6, TimesFacts
<1> HIDE DEF A
<1>5. Cardinality(DOMAIN v) \in A
  BY <1>2, <1>3, <1>4, Counting
<1>6. P[DOMAIN v] \in 0..Scale
  BY <1>5 DEF A
<1>7. NoisyOr(v) = Scale - P[DOMAIN v]
  BY NoisyOrProduct DEF P
<1> QED
  BY <1>6, <1>7 DEF Scale

-----------------------------------------------------------------------------
(* The scores of claims about the signals there are, within the scale.      *)

Signals ==
  {"exposure", "misalignment", "sensitivity", "reach", "irreversibility",
   "model_certainty", "distrust", "coverage", "untrusted_origin", "request_origin"}

Sound(claims) == \A c \in claims : c.signal \in Signals /\ c.value \in 0..Scale

LEMMA ValueFacts ==
  ASSUME NEW claims, Sound(claims), NEW s, NEW default \in 0..Scale
  PROVE  /\ ValueOr(claims, s, default) \in 0..Scale
         /\ s \notin ConfidenceSignals =>
              \A c \in claims : c.signal = s => c.value <= ValueOr(claims, s, default)
<1> DEFINE values == ValuesOf(claims, s)
<1>1. values \subseteq 0..Scale /\ 0..Scale \subseteq Nat
  BY DEF ValuesOf, Sound, Scale
<1>2. \A c \in claims : c.signal = s => c.value \in values
  BY DEF ValuesOf
<1> HIDE DEF values
<1>3. ValueOr(claims, s, default) =
        IF values = {} THEN default
        ELSE IF s \in ConfidenceSignals THEN Min(values) ELSE Max(values)
  BY DEF ValueOr, values
<1>4. values # {} => Min(values) \in values
  BY <1>1, MinFacts
<1>5. values # {} => Max(values) \in values /\ \A x \in values : x <= Max(values)
  <2>1. Scale \in Nat
    BY DEF Scale
  <2> QED
    BY <1>1, <2>1, MaxFacts
<1> QED
  BY <1>1, <1>2, <1>3, <1>4, <1>5

LEMMA Share ==
  ASSUME NEW d \in Nat, NEW n \in Nat, n > 0, d <= n
  PROVE  (1000 * d) \div n \in 0..1000
  OBVIOUS

LEMMA FiniteAdd ==
  ASSUME NEW S, IsFiniteSet(S), NEW x
  PROVE  IsFiniteSet(S \cup {x})
  BY FS_AddElement

LEMMA SignalsFinite == IsFiniteSet(Signals)
<1>1. IsFiniteSet({} \cup {"exposure"} \cup {"misalignment"} \cup {"sensitivity"} \cup {"reach"}
                    \cup {"irreversibility"})
  BY FS_EmptySet, FiniteAdd
<1> DEFINE five == {} \cup {"exposure"} \cup {"misalignment"} \cup {"sensitivity"} \cup {"reach"}
                      \cup {"irreversibility"}
<1> HIDE DEF five
<1>2. IsFiniteSet(five \cup {"model_certainty"} \cup {"distrust"} \cup {"coverage"}
                    \cup {"untrusted_origin"} \cup {"request_origin"})
  BY <1>1, FiniteAdd DEF five
<1>3. Signals = five \cup {"model_certainty"} \cup {"distrust"} \cup {"coverage"}
                    \cup {"untrusted_origin"} \cup {"request_origin"}
  BY DEF Signals, five
<1> QED
  BY <1>2, <1>3

LEMMA LeavesFinite == IsFiniteSet(SuspicionLeaves \cup {"taint_link"})
<1>1. IsFiniteSet({} \cup {"misalignment"} \cup {"concealment"} \cup {"overreach"} \cup {"distrust"})
  BY FS_EmptySet, FiniteAdd
<1> DEFINE four == {} \cup {"misalignment"} \cup {"concealment"} \cup {"overreach"} \cup {"distrust"}
<1> HIDE DEF four
<1>2. IsFiniteSet(four \cup {"request_origin"} \cup {"retry_after_denial"} \cup {"taint_link"})
  BY <1>1, FiniteAdd DEF four
<1>3. SuspicionLeaves \cup {"taint_link"}
        = four \cup {"request_origin"} \cup {"retry_after_denial"} \cup {"taint_link"}
  BY DEF SuspicionLeaves, four
<1> QED
  BY <1>2, <1>3

LEMMA AgreementFacts ==
  ASSUME NEW claims, Sound(claims)
  PROVE  Agreement(claims) \in 0..Scale
<1> DEFINE S == Shared(claims)
           D == Disagreeing(claims)
<1>1. S \subseteq Signals
  BY DEF Shared, Sound
<1>2. IsFiniteSet(S)
  BY <1>1, SignalsFinite, FS_Subset
<1>3. D \subseteq S
  BY DEF Disagreeing
<1>4. Cardinality(S) \in Nat /\ Cardinality(D) \in Nat /\ Cardinality(D) <= Cardinality(S)
  BY <1>2, <1>3, FS_Subset, FS_CardinalityType
<1>5. S # {} => Cardinality(S) > 0
  BY <1>2, <1>4, FS_EmptySet
<1> DEFINE d == Cardinality(D)
           n == Cardinality(S)
<1>6. Agreement(claims) = IF S = {} THEN 1000 ELSE 1000 - (1000 * d) \div n
  BY DEF Agreement, Scale
<1> HIDE DEF S, D, d, n
<1>7. S # {} => (1000 * d) \div n \in 0..1000
  <2>1. d \in Nat /\ n \in Nat /\ d <= n /\ (S # {} => n > 0)
    BY <1>4, <1>5 DEF d, n
  <2> QED
    BY <2>1, Share
<1> DEFINE q == (1000 * d) \div n
<1> HIDE DEF q
<1>8. S # {} => 1000 - q \in 0..1000
  BY <1>7 DEF q
<1> QED
  BY <1>6, <1>8 DEF q, Scale

LEMMA SuspicionFacts ==
  ASSUME NEW claims, Sound(claims)
  PROVE  Suspicion(claims) \in 0..Scale
<1>1. \A s : ValueOr(claims, s, 0) \in 0..Scale
  <2>1. 0 \in 0..Scale
    BY DEF Scale
  <2> QED
    BY <2>1, ValueFacts
<1>2. TaintLink(claims) \in 0..Scale
  <2> DEFINE x == ValueOr(claims, "exposure", 0)
  <2>1. x \in 0..Scale /\ x \in Int /\ TaintFloor \in Int /\ TaintFloor \in 0..Scale
    BY <1>1 DEF TaintFloor, Scale
  <2> HIDE DEF x
  <2>2. Max({x, TaintFloor}) \in 0..Scale
    BY <2>1, MaxOfTwo
  <2> QED
    BY <1>1, <2>2, TimesFacts DEF TaintLink, x
<1> DEFINE v == [s \in SuspicionLeaves \cup {"taint_link"} |->
                   IF s = "taint_link" THEN TaintLink(claims) ELSE ValueOr(claims, s, 0)]
<1>3. DOMAIN v = SuspicionLeaves \cup {"taint_link"} /\ \A x \in DOMAIN v : v[x] \in 0..Scale
  BY <1>1, <1>2
<1>4. Suspicion(claims) = NoisyOr(v)
  BY DEF Suspicion
<1> HIDE DEF v
<1>5. IsFiniteSet(DOMAIN v)
  BY <1>3, LeavesFinite
<1> QED
  BY <1>3, <1>4, <1>5, NoisyOrFacts

LEMMA ConsequenceFacts ==
  ASSUME NEW claims, Sound(claims)
  PROVE  Consequence(claims) \in 0..Scale
<1> DEFINE x == ValueOr(claims, "sensitivity", 0)
           y == ValueOr(claims, "reach", 0)
           z == ValueOr(claims, "irreversibility", 0)
           w == ValueOr(claims, "self_modification", 0)
<1>1. x \in 0..1000 /\ y \in 0..1000 /\ z \in 0..1000 /\ w \in 0..1000
  <2>1. 0 \in 0..Scale
    BY DEF Scale
  <2>2. \A s : ValueOr(claims, s, 0) \in 0..Scale
    BY <2>1, ValueFacts
  <2> QED
    BY <2>2 DEF Scale
<1>2. Consequence(claims) = Max({(x + y + z) \div 3, w})
  BY DEF Consequence
<1> HIDE DEF x, y, z, w
<1> DEFINE m == (x + y + z) \div 3
<1>3. m \in 0..1000
  BY <1>1
<1> HIDE DEF m
<1>4. m \in Int /\ w \in Int
  BY <1>1, <1>3
<1>5. Max({m, w}) \in 0..1000
  <2>1. Max({m, w}) \in {m, w}
    BY <1>4, MaxOfTwo
  <2>2. {m, w} \subseteq 0..1000
    BY <1>1, <1>3
  <2> QED
    BY <2>1, <2>2
<1> QED
  BY <1>2, <1>5 DEF m, Scale

LEMMA ConfidenceFacts ==
  ASSUME NEW claims, Sound(claims), NEW env, \A p \in DOMAIN env : env[p].status \in Statuses
  PROVE  Confidence(claims, env) \in 0..Scale
<1> DEFINE S == {Agreement(claims), ValueOr(claims, "coverage", Scale),
                 ValueOr(claims, "model_certainty", Scale)}
                \cup {StatusPenalty[env[p].status] : p \in DOMAIN env}
<1>1. \A st \in Statuses : StatusPenalty[st] \in 0..Scale
  BY DEF Statuses, StatusPenalty, Scale
<1>2. Scale \in 0..Scale
  BY DEF Scale
<1>3. S \subseteq 0..Scale /\ S # {}
  BY <1>1, <1>2, AgreementFacts, ValueFacts
<1>4. Confidence(claims, env) = Min(S)
  BY DEF Confidence
<1> HIDE DEF S
<1>5. S \subseteq Nat
  BY <1>3
<1> QED
  BY <1>3, <1>4, <1>5, MinFacts

(* The risk of a call is within the scale, whatever is claimed.             *)
LEMMA RiskFacts ==
  ASSUME NEW claims, Sound(claims), NEW env, \A p \in DOMAIN env : env[p].status \in Statuses
  PROVE  Risk(claims, env) \in 0..Scale
<1> DEFINE c == Confidence(claims, env)
           s == Suspicion(claims)
           t == Times(U, Scale - c)
<1>1. Scale - c \in 0..Scale
  <2>1. c \in 0..Scale
    BY ConfidenceFacts
  <2> HIDE DEF c
  <2> QED
    BY <2>1 DEF Scale
<1> HIDE DEF c
<1>2. t \in 0..Scale
  <2>1. U \in 0..Scale
    BY DEF U, Scale
  <2> QED
    BY <1>1, <2>1, TimesFacts
<1>3. s \in 0..Scale
  BY SuspicionFacts
<1> HIDE DEF s, t
<1>4. Max({s, t}) \in 0..Scale
  <2>1. s \in Int /\ t \in Int
    BY <1>2, <1>3
  <2> QED
    BY <1>2, <1>3, <2>1, MaxOfTwo
<1>5. Risk(claims, env) = Times(Consequence(claims), Max({s, t}))
  BY DEF Risk, s, t, c
<1> QED
  BY <1>4, <1>5, ConsequenceFacts, TimesFacts

-----------------------------------------------------------------------------
(* What the probes claim.                                                  *)

LEMMA Sounds ==
  ASSUME NEW probe, NEW signal \in Signals, NEW value \in 0..Scale, NEW subject
  PROVE  Sound({Claim(probe, signal, value, subject)})
  BY DEF Sound, Claim

LEMMA SoundUnion ==
  ASSUME NEW a, NEW b, Sound(a), Sound(b)
  PROVE  Sound(a \cup b)
  BY DEF Sound

(* Every claim is about a signal there is and within the scale; only what   *)
(* is known to be bad raises a floor, which blocks.                         *)
Stated(e) ==
  /\ Sound(e.claims)
  /\ \A f \in e.floors : f.min = Scale /\ f.enforce = "block"

LEMMA FailedStates == \A st : Stated(Failed(st))
  BY DEF Stated, Sound, Failed

LEMMA AnsweredStates ==
  ASSUME NEW claims, Sound(claims), NEW flags, NEW evidence
  PROVE  Stated(Answered(claims, {}, flags, evidence))
  BY DEF Stated, Answered

LEMMA NumbersInScale ==
  {0, 100, 300, 400, 500, 600, 700, 800, 850, 900, 1000} \subseteq 0..Scale
  BY DEF Scale

LEMMA ExposureStates ==
  ASSUME NEW s, NEW e \in JevExposure(s)
  PROVE  Stated(e)
<1> DEFINE value == IF s.instructing # {} THEN HighExposure ELSE SafeExposure
           c == Claim("jev_exposure", "exposure", value, None)
           fl == IF s.instructing # {} THEN {"tainted"} ELSE {}
           ev == [NoEvidence EXCEPT !.inputs = s.new]
<1>1. value \in 0..Scale
  BY NumbersInScale DEF HighExposure, SafeExposure
<1>2. \/ e \in {Skipped, Failed("error"), Failed("timeout")}
      \/ e = Answered({c}, {}, fl, ev)
  BY DEF JevExposure, ApiFailed
<1> HIDE DEF value
<1>3. Sound({c})
  BY <1>1, Sounds DEF Signals
<1> HIDE DEF c, fl, ev
<1>4. Stated(Answered({c}, {}, fl, ev))
  BY <1>3, AnsweredStates
<1> QED
  BY <1>2, <1>4, FailedStates DEF Skipped

LEMMA CallStates ==
  ASSUME NEW s, NEW e \in JevCall(s)
  PROVE  Stated(e)
<1> DEFINE a == Claim("jev_call", "misalignment", 100, None)
           b == Claim("jev_call", "sensitivity", 600, None)
           c == Claim("jev_call", "reach", 600, None)
           d == Claim("jev_call", "irreversibility", 600, None)
           f == Claim("jev_call", "model_certainty", 900, None)
           ev == [NoEvidence EXCEPT !.entities = s.reputation]
<1>1. e \in {Failed("error"), Failed("timeout")} \/ e = Answered({a, b, c, d, f}, {}, {}, ev)
  BY DEF JevCall, ApiFailed
<1>2. Sound({a}) /\ Sound({b}) /\ Sound({c}) /\ Sound({d}) /\ Sound({f})
  <2>1. {"misalignment", "sensitivity", "reach", "irreversibility", "model_certainty"} \subseteq Signals
    BY DEF Signals
  <2>2. 100 \in 0..Scale /\ 600 \in 0..Scale /\ 900 \in 0..Scale
    BY NumbersInScale
  <2>3. Sound({a}) /\ Sound({b})
    BY <2>1, <2>2, Sounds
  <2>4. Sound({c}) /\ Sound({d})
    BY <2>1, <2>2, Sounds
  <2>5. Sound({f})
    BY <2>1, <2>2, Sounds
  <2> QED
    BY <2>3, <2>4, <2>5
<1> HIDE DEF a, b, c, d, f, ev
<1>3. Sound({a, b, c, d, f})
  BY <1>2 DEF Sound
<1>4. Stated(Answered({a, b, c, d, f}, {}, {}, ev))
  BY <1>3, AnsweredStates
<1> QED
  BY <1>1, <1>4, FailedStates

LEMMA AiraStates ==
  ASSUME NEW s, NEW e \in Aira(s)
  PROVE  Stated(e)
<1> DEFINE c == Claim("aira", "sensitivity", 900, None)
<1>1. \/ e = Failed("error")
      \/ e = Answered({c}, {}, {"holds_sensitive"}, NoEvidence)
      \/ e = Answered({}, {}, {}, NoEvidence)
  BY DEF Aira, Raised
<1>2. Sound({c}) /\ Sound({})
  BY Sounds, NumbersInScale DEF Signals, Sound
<1> HIDE DEF c
<1> QED
  BY <1>1, <1>2, AnsweredStates, FailedStates

LEMMA LookedUpStates ==
  ASSUME NEW x, NEW verdict \in Verdicts, NEW coverage \in 0..Scale, NEW fallback
  PROVE  Stated(LookedUp(x, verdict, coverage, fallback))
<1> DEFINE v == CASE verdict = "known_bad" -> Scale
                  [] verdict = "known_good" -> 0
                  [] verdict = "unknown" -> UnknownDistrust(x)
           c == Claim("entity_oracle", "distrust", v, x)
           d == Claim("entity_oracle", "coverage", coverage, None)
           fl == IF verdict = "known_bad"
                 THEN {[min |-> Scale, enforce |-> "block", subject |-> x]} ELSE {}
           ev == [NoEvidence EXCEPT !.entities = {<<x, verdict>>}, !.fallback = fallback]
<1>1. UnknownDistrust(x) \in 0..Scale /\ Scale \in 0..Scale /\ 0 \in 0..Scale
  BY NumbersInScale DEF UnknownDistrust, Scale
<1>2. v \in 0..Scale
  BY <1>1 DEF Verdicts
<1>3. LookedUp(x, verdict, coverage, fallback) = Answered({c, d}, fl, {}, ev)
  BY DEF LookedUp
<1>4. \A f \in fl : f.min = Scale /\ f.enforce = "block"
  OBVIOUS
<1> HIDE DEF v, fl, ev
<1>5. Sound({c}) /\ Sound({d})
  BY <1>2, Sounds DEF Signals
<1> HIDE DEF c, d
<1>6. Sound({c, d})
  BY <1>5 DEF Sound
<1> DEFINE cs == {c, d}
<1> HIDE DEF cs
<1>7. Stated(Answered(cs, fl, {}, ev))
  BY <1>4, <1>6 DEF Stated, Answered, cs
<1> QED
  BY <1>3, <1>7 DEF cs

LEMMA OracleStates ==
  ASSUME ScannerAssumption, NEW s, s.call \in Calls, NEW e \in EntityOracle(s)
  PROVE  Stated(e)
<1>1. s.call.use \in Entities \cup {None}
  BY DEF ScannerAssumption, CallShapes
<1>2. CASE s.call.use = None
  <2>1. e = Answered({}, {}, {}, NoEvidence) \/ e = Failed("error")
    BY <1>2 DEF EntityOracle, Raised
  <2>2. Sound({})
    BY DEF Sound
  <2> QED
    BY <2>1, <2>2, AnsweredStates, FailedStates
<1>3. CASE s.call.use # None
  <2> DEFINE x == s.call.use
             c == IF Verdict[x] = "unknown" THEN 850 ELSE Scale
             low == 700
             found == LookedUp(x, Verdict[x], c, FALSE)
             fallen == LookedUp(x, "unknown", low, TRUE)
  <2>1. e = found \/ e = fallen \/ e = Failed("error")
    BY <1>3 DEF EntityOracle, Raised
  <2>2. Verdict[x] \in Verdicts /\ "unknown" \in Verdicts
    BY <1>1, <1>3 DEF ScannerAssumption, Verdicts
  <2>3. c \in 0..Scale /\ low \in 0..Scale
    BY NumbersInScale DEF Scale
  <2> HIDE DEF x, c, low
  <2>4. Stated(found)
    BY <2>2, <2>3, LookedUpStates
  <2>5. Stated(fallen)
    BY <2>2, <2>3, LookedUpStates
  <2> HIDE DEF found, fallen
  <2> QED
    BY <2>1, <2>4, <2>5, FailedStates
<1> QED
  BY <1>2, <1>3

ContextClaims(s) ==
  OriginClaims(s.ent) \cup RequestOriginClaims(s.ent) \cup StickyClaims(s) \cup ContextCoverage(s)

LEMMA ContextAnswers ==
  ASSUME NEW s, NEW e \in Context(s)
  PROVE  e = Answered(ContextClaims(s), {}, {}, NoEvidence) \/ e = Failed("error")
  BY DEF Context, Raised, ContextClaims

LEMMA ContextSound ==
  ASSUME NEW s
  PROVE  Sound(ContextClaims(s))
<1>1. Sound(OriginClaims(s.ent))
  <2>1. OriginValue(s.ent) \in 0..Scale
    BY NumbersInScale DEF OriginValue, Scale
  <2>2. Sound({}) /\ "untrusted_origin" \in Signals
    BY DEF Sound, Signals
  <2> QED
    BY <2>1, <2>2, Sounds DEF OriginClaims
<1>2. Sound(RequestOriginClaims(s.ent))
  <2>1. (IF s.ent.owner THEN 0 ELSE 800) \in 0..Scale /\ "request_origin" \in Signals
    BY NumbersInScale DEF Signals
  <2> QED
    BY <2>1, Sounds DEF RequestOriginClaims
<1>3. Sound(StickyClaims(s))
  <2> DEFINE x == IF "tainted" \in s.state.flags
                  THEN {Claim("context", "exposure", StickyExposure, None)} ELSE {}
             y == IF "holds_sensitive" \in s.state.flags /\ s.ent.sink
                  THEN {Claim("context", "sensitivity", HeldSensitivity, None)} ELSE {}
  <2>1. /\ Sound({}) /\ Sound({Claim("context", "exposure", StickyExposure, None)})
        /\ Sound({Claim("context", "sensitivity", HeldSensitivity, None)})
    <3>1. /\ "exposure" \in Signals /\ "sensitivity" \in Signals
          /\ StickyExposure \in 0..Scale /\ HeldSensitivity \in 0..Scale
      BY NumbersInScale DEF Signals, StickyExposure, HeldSensitivity
    <3>2. Sound({})
      BY DEF Sound
    <3> QED
      BY <3>1, <3>2, Sounds
  <2>2. Sound(x) /\ Sound(y)
    BY <2>1
  <2>3. StickyClaims(s) = x \cup y
    BY DEF StickyClaims
  <2> HIDE DEF x, y
  <2> QED
    BY <2>2, <2>3, SoundUnion
<1>4. Sound(ContextCoverage(s))
  <2> DEFINE x == {Claim("context", "coverage", 700, None)}
             y == {Claim("context", "coverage", 800, None)}
  <2>1. Sound({}) /\ Sound(x) /\ Sound(y)
    <3>1. "coverage" \in Signals /\ Sound({})
      BY DEF Signals, Sound
    <3>2. 700 \in 0..Scale /\ 800 \in 0..Scale
      BY NumbersInScale
    <3> QED
      BY <3>1, <3>2, Sounds
  <2>2. ContextCoverage(s) = IF s.fresh THEN x ELSE IF s.dropped THEN y ELSE {}
    BY DEF ContextCoverage
  <2> HIDE DEF x, y
  <2> QED
    BY <2>1, <2>2
<1> QED
  BY <1>1, <1>2, <1>3, <1>4, SoundUnion DEF ContextClaims

-----------------------------------------------------------------------------
(* Floors.                                                                 *)

LEMMA ProbesState ==
  ASSUME ScannerAssumption, NEW p \in Probes, NEW s, s.call \in Calls,
         NEW e \in Possible(p, s)
  PROVE  Stated(e)
<1>1. CASE e = Failed("timeout")
  BY <1>1, FailedStates
<1>2. CASE e \in Answers(p, s)
  <2>1. CASE p = "jev_exposure"
    BY <1>2, <2>1, ExposureStates DEF Answers
  <2>2. CASE p = "jev_call"
    BY <1>2, <2>2, CallStates DEF Answers
  <2>3. CASE p = "aira"
    BY <1>2, <2>3, AiraStates DEF Answers
  <2>4. CASE p = "entity_oracle"
    BY <1>2, <2>4, OracleStates DEF Answers
  <2>5. CASE p = "context"
    <3>1. e \in Context(s)
      BY <1>2, <2>5 DEF Answers
    <3> QED
      BY <3>1, ContextAnswers, ContextSound, AnsweredStates, FailedStates
  <2> QED
    BY <2>1, <2>2, <2>3, <2>4, <2>5 DEF Probes
<1> QED
  BY <1>1, <1>2 DEF Possible

(* What a response is made of, when all probes have answered.               *)
LEMMA ResponseSound ==
  ASSUME ScannerAssumption, Inv, scan.phase = "answered"
  PROVE  /\ Sound(Response(scan).claims)
         /\ \A p \in DOMAIN envelopes : envelopes[p].status \in Statuses
         /\ \A f \in Floors(scan.ent, envelopes) : f.min = Scale /\ f.enforce = "block"
<1>1. scan # Idle /\ DOMAIN envelopes = Probes
      /\ \A p \in Probes : envelopes[p] \in Possible(p, scan)
  BY AnsweredInFull
<1>2. scan.call \in Calls
  BY <1>1 DEF Inv, ScanInv
<1>3. \A p \in Probes : Stated(envelopes[p])
  BY <1>1, <1>2, ProbesState
<1>4. Sound(Response(scan).claims)
  BY <1>1, <1>3 DEF Response, Converged, Kept, CollectClaims, Answering, Stated, Sound
<1>5. \A p \in DOMAIN envelopes : envelopes[p].status \in Statuses
  BY <1>1, PossibleShape
<1>6. \A f \in Floors(scan.ent, envelopes) : f.min = Scale /\ f.enforce = "block"
  BY <1>1, <1>3 DEF Floors, Answering, Stated
<1> QED
  BY <1>4, <1>5, <1>6

(* A floor that is among the floors is met by the outcome.                  *)
LEMMA EnforcedFacts ==
  ASSUME NEW floors, \A f \in floors : f.enforce = "block", floors # {}
  PROVE  Enforced(floors) = "block"
<1> DEFINE ranks == {0} \cup {EnforceRank[f.enforce] : f \in floors}
<1>1. ranks = {0, 2}
  BY DEF EnforceRank
<1>2. Enforced(floors) = CHOOSE e \in DOMAIN EnforceRank : EnforceRank[e] = Max(ranks)
  BY DEF Enforced
<1> HIDE DEF ranks
<1>3. Max(ranks) = 2
  <2>1. Max({0, 2}) \in {0, 2} /\ 2 <= Max({0, 2})
    <3>1. 0 \in Int /\ 2 \in Int
      OBVIOUS
    <3> QED
      BY <3>1, MaxOfTwo
  <2> QED
    BY <1>1, <2>1
<1>4. \A e \in DOMAIN EnforceRank : EnforceRank[e] = 2 <=> e = "block"
  BY DEF EnforceRank
<1>5. "block" \in DOMAIN EnforceRank
  BY DEF EnforceRank
<1> QED
  BY <1>2, <1>3, <1>4, <1>5

(* A response's risk is a number of the scale, and at least that of every   *)
(* floor.                                                                  *)
LEMMA ResponseRisk ==
  ASSUME ScannerAssumption, Inv, scan.phase = "answered"
  PROVE  /\ Response(scan).risk \in 0..Scale
         /\ \A f \in Floors(scan.ent, envelopes) : f.min <= Response(scan).risk
<1> DEFINE floors == Floors(scan.ent, envelopes)
           claims == Response(scan).claims
           risks == {Risk(claims, envelopes)} \cup {f.min : f \in floors}
<1>1. Response(scan).risk = Max(risks)
  BY DEF Response, Converged
<1>2. Risk(claims, envelopes) \in 0..Scale
  BY ResponseSound, RiskFacts
<1>3. risks \subseteq 0..Scale /\ risks # {}
  <2>1. Scale \in 0..Scale
    BY DEF Scale
  <2> QED
    BY <1>2, <2>1, ResponseSound
<1>4. \A f \in floors : f.min \in risks
  OBVIOUS
<1> HIDE DEF risks, floors
<1>5. Scale \in Nat
  BY DEF Scale
<1>6. Max(risks) \in risks /\ \A x \in risks : x <= Max(risks)
  BY <1>3, <1>5, MaxFacts
<1> QED
  BY <1>1, <1>3, <1>4, <1>6 DEF floors

(* No relief lowers a floor, whatever the probes answered and whoever is    *)
(* granted what: the risk, of which the noisy-or of the signals and the     *)
(* confidence are parts, is at least the floor's, and the outcome at least  *)
(* what it demands (converge/__init__.py, the floors after the relief).     *)
THEOREM FloorsEnforced == Spec => []FloorsHold
<1>1. Inv => FloorsHold
  <2> SUFFICES ASSUME Inv, scan.phase = "answered",
                      NEW p \in Answering(envelopes), NEW f \in envelopes[p].floors
               PROVE  /\ Response(scan).risk >= f.min
                      /\ EnforceRank[Response(scan).enforced] >= EnforceRank[f.enforce]
    BY DEF FloorsHold
  <2> DEFINE floors == Floors(scan.ent, envelopes)
  <2>1. f \in floors
    BY DEF Floors
  <2>2. \A g \in floors : g.min = Scale /\ g.enforce = "block"
    BY ScannerAssumption, ResponseSound
  <2>3. Response(scan).enforced = Enforced(floors)
    BY DEF Response, Converged
  <2> HIDE DEF floors
  <2>4. Response(scan).enforced = "block"
    BY <2>1, <2>2, <2>3, EnforcedFacts
  <2>5. Response(scan).risk >= f.min
    <3>1. Response(scan).risk \in Int /\ f.min \in Int
      BY <2>1, <2>2, ScannerAssumption, ResponseRisk DEF Scale
    <3>2. f.min <= Response(scan).risk
      BY <2>1, ScannerAssumption, ResponseRisk DEF floors
    <3> QED
      BY <3>1, <3>2
  <2> QED
    BY <2>1, <2>2, <2>4, <2>5 DEF EnforceRank
<1> QED
  BY <1>1, Invariance, PTL

-----------------------------------------------------------------------------
(* The untrusted entities of a session.                                    *)

(* What row i makes of the list, given what the rows before it made.        *)
Adds(untrusted, call, sent, f, i) ==
  LET before == IF i = 0 THEN untrusted ELSE f[i - 1]
      e == Row(call, i)
  IN  IF /\ i = 0 \/ i \in WithText(sent)
         /\ e \in Additions(sent) \ ToSet(before)
      THEN Append(before, e) ELSE before

Listed(untrusted, call, sent) ==
  CHOOSE f : f = [i \in 0..Len(results) |-> Adds(untrusted, call, sent, f, i)]

LEMMA ListExists ==
  ASSUME NEW u, NEW call, NEW sent, NEW n \in Nat
  PROVE  \E f : f = [i \in 0..n |-> Adds(u, call, sent, f, i)]
<1> DEFINE A == {k \in Nat : \E f : f = [i \in 0..k |-> Adds(u, call, sent, f, i)]}
<1>1. 0 \in A
  <2> DEFINE none == <<>>
             g == [i \in 0..0 |-> Adds(u, call, sent, none, i)]
  <2>1. \A i \in 0..0 : Adds(u, call, sent, g, i) = Adds(u, call, sent, none, i)
    <3> HIDE DEF g, none
    <3> QED
      BY DEF Adds
  <2>2. g = [i \in 0..0 |-> Adds(u, call, sent, g, i)]
    BY <2>1
  <2> QED
    BY <2>2
<1>2. ASSUME NEW k \in Nat, k \in A
      PROVE  k + 1 \in A
  <2>1. PICK f : f = [i \in 0..k |-> Adds(u, call, sent, f, i)]
    BY <1>2
  <2> DEFINE g == [i \in 0..(k + 1) |-> IF i = k + 1 THEN Adds(u, call, sent, f, i) ELSE f[i]]
  <2>2. \A i \in 0..k : g[i] = f[i]
    OBVIOUS
  <2>3. ASSUME NEW i \in 0..(k + 1)
        PROVE  g[i] = Adds(u, call, sent, g, i)
    <3>1. i # 0 => g[i - 1] = f[i - 1]
      BY <2>2
    <3>2. Adds(u, call, sent, g, i) = Adds(u, call, sent, f, i)
      <4> HIDE DEF g
      <4> QED
        BY <3>1 DEF Adds
    <3>3. i # k + 1 => f[i] = Adds(u, call, sent, f, i)
      BY <2>1
    <3> QED
      BY <3>2, <3>3
  <2> HIDE DEF g
  <2>4. g = [i \in 0..(k + 1) |-> g[i]]
    BY DEF g
  <2>5. g = [i \in 0..(k + 1) |-> Adds(u, call, sent, g, i)]
    BY <2>3, <2>4
  <2> QED
    BY <2>5
<1> HIDE DEF A
<1>3. n \in A
  BY <1>1, <1>2, Counting
<1> QED
  BY <1>3 DEF A

LEMMA ListedBy ==
  ASSUME Len(results) \in Nat, NEW u, NEW call, NEW sent
  PROVE  \A i \in 0..Len(results) :
           Listed(u, call, sent)[i] = Adds(u, call, sent, Listed(u, call, sent), i)
<1> DEFINE f == Listed(u, call, sent)
<1>1. \E g : g = [i \in 0..Len(results) |-> Adds(u, call, sent, g, i)]
  BY ListExists
<1>2. f = [i \in 0..Len(results) |-> Adds(u, call, sent, f, i)]
  BY <1>1 DEF Listed
<1> HIDE DEF f
<1> QED
  BY <1>2 DEF f

(* The list is one of entities: what was on it, and what is added.          *)
LEMMA ListFacts ==
  ASSUME Len(results) \in Nat, NEW u \in Seq(Entities), NEW call, NEW sent,
         Additions(sent) \subseteq Entities
  PROVE  /\ Listed(u, call, sent)[Len(results)] \in Seq(Entities)
         /\ ToSet(Listed(u, call, sent)[Len(results)]) \subseteq ToSet(u) \cup Additions(sent)
<1> DEFINE f == Listed(u, call, sent)
           Fine(q) == q \in Seq(Entities) /\ ToSet(q) \subseteq ToSet(u) \cup Additions(sent)
           A == {k \in Nat : k <= Len(results) => Fine(f[k])}
<1>1. \A i \in 0..Len(results) : f[i] = Adds(u, call, sent, f, i)
  BY ListedBy
<1> HIDE DEF f
<1>2. \A q \in Seq(Entities), e \in Additions(sent) :
        Fine(q) => Fine(Append(q, e))
  BY DEF ToSet
<1>3. Fine(u)
  OBVIOUS
<1> HIDE DEF Fine
<1>4. ASSUME NEW i \in 0..Len(results), NEW before, Fine(before),
             before = IF i = 0 THEN u ELSE f[i - 1]
      PROVE  Fine(f[i])
  <2>1. \/ f[i] = before
        \/ Row(call, i) \in Additions(sent) /\ f[i] = Append(before, Row(call, i))
    BY <1>1, <1>4 DEF Adds
  <2>2. before \in Seq(Entities)
    BY <1>4 DEF Fine
  <2> QED
    BY <1>2, <1>4, <2>1, <2>2
<1>5. 0 \in A
  <2>1. 0 \in 0..Len(results)
    OBVIOUS
  <2> QED
    BY <1>3, <1>4, <2>1
<1>6. ASSUME NEW k \in Nat, k \in A
      PROVE  k + 1 \in A
  <2> SUFFICES ASSUME k + 1 <= Len(results) PROVE Fine(f[k + 1])
    OBVIOUS
  <2>1. k + 1 \in 0..Len(results) /\ k + 1 # 0 /\ k + 1 - 1 = k /\ Fine(f[k])
    BY <1>6
  <2>2. f[k] = IF k + 1 = 0 THEN u ELSE f[k + 1 - 1]
    BY <2>1
  <2> QED
    BY <1>4, <2>1, <2>2
<1> HIDE DEF A
<1>7. Len(results) \in A
  BY <1>5, <1>6, Counting
<1>8. Fine(f[Len(results)])
  BY <1>7 DEF A
<1> QED
  BY <1>8 DEF Fine, f

(* add_untrusted adds what the results sent add, and no more; the cap drops  *)
(* from its front.                                                         *)
LEMMA AddUntrustedFacts ==
  ASSUME ScannerAssumption, Len(results) \in Nat, NEW u \in Seq(Entities), NEW call, NEW sent,
         Additions(sent) \subseteq Entities
  PROVE  /\ AddUntrusted(u, call, sent) \in Seq(Entities)
         /\ ToSet(AddUntrusted(u, call, sent)) \subseteq ToSet(u) \cup Additions(sent)
<1> DEFINE all == Listed(u, call, sent)[Len(results)]
           from == Max({1, Len(all) - UntrustedCap + 1})
<1>1. AddUntrusted(u, call, sent) = SubSeq(all, from, Len(all))
  BY DEF AddUntrusted, Listed, Adds
<1>2. all \in Seq(Entities) /\ ToSet(all) \subseteq ToSet(u) \cup Additions(sent)
  BY ListFacts
<1> HIDE DEF all
<1>3. from \in Int /\ from >= 1
  <2>1. 1 \in Int /\ Len(all) - UntrustedCap + 1 \in Int
    BY <1>2 DEF ScannerAssumption
  <2> DEFINE n == Len(all) - UntrustedCap + 1
  <2> HIDE DEF n
  <2>2. Max({1, n}) \in {1, n} /\ 1 <= Max({1, n})
    BY <2>1, MaxOfTwo DEF n
  <2>3. Max({1, n}) \in Int
    BY <2>1, <2>2 DEF n
  <2> QED
    BY <2>2, <2>3 DEF n
<1> HIDE DEF from
<1>4. SubSeq(all, from, Len(all)) \in Seq(Entities)
  BY <1>2, <1>3
<1>5. ToSet(SubSeq(all, from, Len(all))) \subseteq ToSet(all)
  BY <1>2, <1>3 DEF ToSet
<1> QED
  BY <1>1, <1>2, <1>4, <1>5

-----------------------------------------------------------------------------
(* What was read keeps its origin.                                         *)

(* The first use of e in the window comes after a result in the buffer that *)
(* names it.                                                               *)
ReadFirst(e) ==
  \E i \in buffer :
    /\ results[i].names = e
    /\ \A k \in WindowSteps : history[k].use = e => k >= results[i].step

(* What is not forgotten of what was read is in the token, or will be sent  *)
(* as what it is.                                                          *)
MemoryInv ==
  /\ token.untrusted \in Seq(Entities)
  /\ source = [e \in Entities |-> source[e]]
  /\ \A i \in DOMAIN results :
       /\ results[i].step <= Len(history)
       /\ results[i].shown = "empty" => results[i].names = None
  /\ \A e \in Entities : source[e] = "unseen" =>
       \A k \in DOMAIN history : history[k].use # e
  /\ \A e \in Entities \ forgotten : source[e] = "content" =>
       e \in ToSet(token.untrusted) \/ ReadFirst(e)

(* A scan at work has all that is not forgotten.                            *)
LookedAt ==
  /\ scan.state.untrusted \in Seq(Entities)
  /\ scan.ent.id = scan.call.use
  /\ scan.ent.request = scan.call.request
  /\ scan.ent.grant = scan.call.grant
  /\ \A e \in Entities : source[e] = "unseen" => scan.call.use # e
  /\ \A e \in Entities \ forgotten : source[e] = "content" =>
       /\ e \in ToSet(scan.state.untrusted)
       /\ e = scan.call.use =>
            scan.ent.remembered \/ (scan.ent.read /\ ~scan.ent.agentFirst)

OriginInv == MemoryInv /\ (scan # Idle => LookedAt)

(* A result that names e, read before e was used: the use is no sign that   *)
(* the agent was first.                                                    *)
LEMMA NotAgentFirst ==
  ASSUME Inv, NEW sent, sent \subseteq DOMAIN results, NEW i \in WithText(sent),
         \A k \in UsedAt(results[i].names) : k >= results[i].step
  PROVE  ~AgentFirst(results[i].names, sent)
<1> DEFINE e == results[i].names
           used == UsedAt(e)
           seen == ReadAt(e, sent)
<1>1. results[i].step \in seen
  BY DEF ReadAt
<1>2. used \subseteq Nat /\ seen \subseteq Nat
  <2>1. \A j \in DOMAIN results : results[j].step \in Nat
    <3>1. \A j \in DOMAIN results : results[j] \in ResultRecords
      BY DEF Inv, SessionInv
    <3> QED
      BY <3>1 DEF ResultRecords
  <2> QED
    BY <2>1 DEF UsedAt, WindowSteps, ReadAt, WithText, Inv, SessionInv
<1>3. \A k \in used : k >= results[i].step
  OBVIOUS
<1>4. AgentFirst(e, sent) = (used # {} /\ seen # {} /\ Min(used) < Min(seen))
  BY DEF AgentFirst
<1> HIDE DEF e, used, seen
<1>5. Min(seen) \in Nat /\ Min(seen) <= results[i].step /\ results[i].step \in Nat
  BY <1>1, <1>2, MinFacts
<1>6. used # {} => Min(used) \in used /\ Min(used) \in Nat
  BY <1>2, MinFacts
<1>7. used # {} => Min(used) >= results[i].step
  BY <1>3, <1>6
<1>8. ~AgentFirst(e, sent)
  <2> SUFFICES ASSUME used # {}, Min(used) < Min(seen) PROVE FALSE
    BY <1>4
  <2> DEFINE a == Min(used)
             b == Min(seen)
  <2>1. a \in Nat /\ b \in Nat /\ a >= results[i].step /\ b <= results[i].step /\ a < b
    BY <1>5, <1>6, <1>7
  <2> HIDE DEF a, b
  <2> QED
    BY <1>5, <2>1
<1> QED
  BY <1>8 DEF e

(* What results add was read before it was used.                           *)
LEMMA AddedRead ==
  ASSUME Inv, NEW sent, sent \subseteq buffer, NEW e \in Additions(sent)
  PROVE  e \in Entities /\ ReadFirst(e)
<1> DEFINE used == UsedAt(e)
           seen == ReadAt(e, sent)
<1>1. PICK j \in WithText(sent) : results[j].names = e
  BY DEF Additions, Named
<1>2. \A l \in DOMAIN results : results[l] \in ResultRecords
  BY DEF Inv, SessionInv
<1>3. e # None /\ buffer \subseteq DOMAIN results /\ WithText(sent) \subseteq buffer
  BY DEF Additions, Named, Inv, SessionInv, WithText
<1>4. e \in Entities
  BY <1>1, <1>2, <1>3 DEF ResultRecords
<1>5. seen # {} /\ seen \subseteq Nat /\ used \subseteq Nat
  <2>1. results[j].step \in seen
    BY <1>1 DEF ReadAt
  <2>2. seen \subseteq Nat
    BY <1>2, <1>3 DEF ReadAt, ResultRecords
  <2>3. used \subseteq Nat
    BY DEF UsedAt, WindowSteps, Inv, SessionInv
  <2> QED
    BY <2>1, <2>2, <2>3
<1>6. PICK i \in WithText(sent) : results[i].names = e /\ results[i].step = Min(seen)
  <2>1. Min(seen) \in seen
    BY <1>5, MinFacts
  <2> QED
    BY <2>1 DEF ReadAt
<1>7. ~(used # {} /\ seen # {} /\ Min(used) < Min(seen))
  BY DEF Additions, AgentFirst
<1>8. \A k \in used : k >= Min(seen)
  <2> HIDE DEF used, seen
  <2> SUFFICES ASSUME NEW k \in used PROVE k >= Min(seen)
    OBVIOUS
  <2>1. Min(used) \in Nat /\ Min(used) <= k /\ k \in Nat
    BY <1>5, MinFacts
  <2>2. Min(seen) \in Nat /\ ~(Min(used) < Min(seen))
    BY <1>5, <1>7, MinFacts
  <2> QED
    BY <2>1, <2>2
<1>9. \A k \in WindowSteps : history[k].use = e => k >= results[i].step
  BY <1>6, <1>8 DEF UsedAt
<1> QED
  BY <1>3, <1>4, <1>6, <1>9 DEF ReadFirst

LEMMA RequestRemembers ==
  ASSUME ScannerAssumption, Inv, OriginInv, NEW call \in Calls, NEW view \in Views,
         Request(call, view)
  PROVE  OriginInv'
<1> DEFINE state == IF fits THEN token ELSE FreshState
           sent == SentInputs
           kept == AddUntrusted(state.untrusted, call, sent)
<1>1. PICK top \in ScannedMaxSeq(state, SentInputs) :
        scan' = Prepared(call, view, state, SentInputs, top, ~fits)
  BY DEF Request
<1>2. /\ scan = Idle
      /\ UNCHANGED <<token, fits, history, results, buffer>>
      /\ forgotten' = (forgotten \cup LostSight(state, sent)) \ ToSet(scan'.state.untrusted)
      /\ source' = [e \in Entities |-> IF e = call.use /\ source[e] = "unseen" THEN "agent"
                                                                         ELSE source[e]]
  BY DEF Request, session
<1>3. DOMAIN state = DOMAIN FreshState
  BY DEF Inv, SessionInv
<1>4. /\ scan'.call = call /\ scan'.ent = Entity(call, state, sent)
      /\ scan'.state.untrusted = kept
  BY <1>1, <1>3 DEF Prepared, FreshState
<1>5. /\ state.untrusted \in Seq(Entities) /\ Len(results) \in Nat
      /\ sent \subseteq buffer /\ buffer \subseteq DOMAIN results
      /\ ~fits => state.untrusted = <<>>
      /\ fits => state.untrusted = token.untrusted
  BY DEF SentInputs, Inv, SessionInv, OriginInv, MemoryInv, FreshState
<1> HIDE DEF state, sent
<1>6. Additions(sent) \subseteq Entities /\ \A e \in Additions(sent) : ReadFirst(e)
  BY <1>5, AddedRead
<1>7. /\ kept \in Seq(Entities)
      /\ ToSet(kept) \subseteq ToSet(state.untrusted) \cup Additions(sent)
  BY <1>5, <1>6, AddUntrustedFacts
<1> HIDE DEF kept
<1>8. \A e \in Entities : source'[e] = "content" => source[e] = "content"
  BY <1>2
<1>9. ASSUME NEW e \in Entities, e \notin forgotten, source[e] = "content"
      PROVE  e \in LostSight(state, sent)
  <2>1. CASE e \in ToSet(token.untrusted)
    BY <1>5, <2>1 DEF LostSight
  <2>2. CASE ReadFirst(e)
    <3>1. PICK i \in buffer :
            /\ results[i].names = e
            /\ \A k \in WindowSteps : history[k].use = e => k >= results[i].step
      BY <2>2 DEF ReadFirst
    <3>2. e # None
      BY DEF ScannerAssumption
    <3>3. results[i] \in ResultRecords /\ (results[i].shown = "empty" => results[i].names = None)
      BY <1>5, <3>1 DEF Inv, SessionInv, OriginInv, MemoryInv
    <3>4. CASE i \notin WithText(sent)
      <4>1. i \notin sent \/ results[i].shown = "dropped"
        BY <3>1, <3>2, <3>3, <3>4 DEF WithText, ResultRecords
      <4> QED
        BY <3>1, <3>2, <4>1 DEF LostSight
    <3>5. CASE i \in WithText(sent)
      <4>1. \A k \in UsedAt(results[i].names) : k >= results[i].step
        BY <3>1 DEF UsedAt
      <4>2. ~AgentFirst(e, sent)
        BY <1>5, <3>1, <3>5, <4>1, NotAgentFirst
      <4>3. e \in Additions(sent)
        BY <3>1, <3>2, <3>5, <4>2 DEF Additions, Named
      <4> QED
        BY <4>3 DEF LostSight
    <3> QED
      BY <3>4, <3>5
  <2> QED
    BY <1>9, <2>1, <2>2 DEF OriginInv, MemoryInv
<1>10. ASSUME NEW e \in Entities \ forgotten', source'[e] = "content"
       PROVE  e \in ToSet(kept)
  BY <1>2, <1>4, <1>8, <1>9, <1>10
<1>11. \A e : ReadFirst(e) => ReadFirst(e)'
  BY <1>2 DEF ReadFirst, WindowSteps
<1>12. ASSUME NEW e \in ToSet(kept)
       PROVE  e \in ToSet(token.untrusted) \/ ReadFirst(e)
  <2>1. ToSet(<<>>) = {}
    BY DEF ToSet
  <2> QED
    BY <1>5, <1>6, <1>7, <2>1
<1>13. MemoryInv'
  <2>1. \A e \in Entities \ forgotten' : source'[e] = "content" =>
          e \in ToSet(token.untrusted)' \/ ReadFirst(e)'
    BY <1>2, <1>10, <1>11, <1>12
  <2>2. source' = [e \in Entities |-> source'[e]]
    BY <1>2
  <2>3. \A e \in Entities : source'[e] = "unseen" =>
          \A k \in DOMAIN history' : history'[k].use # e
    BY <1>2 DEF OriginInv, MemoryInv
  <2> QED
    BY <1>2, <2>1, <2>2, <2>3 DEF OriginInv, MemoryInv
<1>14. LookedAt'
  <2>1. /\ scan'.ent.id = call.use /\ scan'.ent.request = call.request
        /\ scan'.ent.grant = call.grant
        /\ scan'.ent.remembered = (call.use \in ToSet(state.untrusted))
        /\ scan'.ent.read = (call.use \in Named(sent))
        /\ scan'.ent.agentFirst = AgentFirst(call.use, sent)
    BY <1>4 DEF Entity
  <2>2. \A e \in Entities : source'[e] = "unseen" => call.use # e
    BY <1>2
  <2>3. ASSUME NEW e \in Entities \ forgotten', source'[e] = "content", e = call.use
        PROVE  scan'.ent.remembered \/ (scan'.ent.read /\ ~scan'.ent.agentFirst)
    <3>1. e \in ToSet(state.untrusted) \/ e \in Additions(sent)
      BY <1>7, <1>10, <2>3
    <3> QED
      BY <2>1, <2>3, <3>1 DEF Additions
  <2> QED
    BY <1>4, <1>7, <1>10, <2>1, <2>2, <2>3 DEF LookedAt
<1> QED
  BY <1>13, <1>14 DEF OriginInv

(* The pool, and convergence, leave what a scan has alone.                  *)
LEMMA WorkRemembers ==
  ASSUME Inv, OriginInv,
         UNCHANGED vars \/ OracleAnswers \/ Converge
           \/ (\E p \in Probes : Collect(p) \/ GiveUp(p) \/ ProbeEnds(p))
  PROVE  OriginInv'
<1>1. /\ UNCHANGED <<token, history, results, buffer, source, forgotten>>
      /\ scan' # Idle => scan # Idle
      /\ scan # Idle => /\ scan'.call = scan.call /\ scan'.ent = scan.ent
                        /\ scan'.state = scan.state
  <2>1. CASE UNCHANGED vars
    BY <2>1 DEF vars, session, memory
  <2>2. CASE OracleAnswers \/ Converge
    <3>1. /\ UNCHANGED <<token, history, results, buffer, source, forgotten>>
          /\ scan.phase \in {"oracle", "pool"}
          /\ \E r : \/ scan' = [scan EXCEPT !.phase = "pool", !.reputation = r]
                    \/ scan' = [scan EXCEPT !.phase = "answered"]
      BY <2>2 DEF OracleAnswers, Converge, session, memory
    <3>2. scan # Idle /\ DOMAIN scan = Fields
      BY <3>1, AtWork DEF Inv, ScanInv
    <3>3. /\ scan'.phase \in {"pool", "answered"} /\ scan'.call = scan.call
          /\ scan'.ent = scan.ent /\ scan'.state = scan.state
      BY <3>1, <3>2 DEF Fields
    <3>4. scan' # Idle
      BY <3>3 DEF Idle
    <3> QED
      BY <3>1, <3>2, <3>3, <3>4
  <2>3. CASE \E p \in Probes : Collect(p) \/ GiveUp(p) \/ ProbeEnds(p)
    BY <2>3 DEF Collect, GiveUp, ProbeEnds, session, memory
  <2> QED
    BY <2>1, <2>2, <2>3
<1>2. \A e : ReadFirst(e) => ReadFirst(e)'
  BY <1>1 DEF ReadFirst, WindowSteps
<1>3. MemoryInv'
  BY <1>1, <1>2 DEF OriginInv, MemoryInv
<1>4. scan' # Idle => LookedAt'
  BY <1>1 DEF OriginInv, LookedAt
<1> QED
  BY <1>3, <1>4 DEF OriginInv

(* The call that is decided is a later step than all that was read.         *)
LEMMA DecidedRemembers ==
  ASSUME ScannerAssumption, Inv, OriginInv, Decided, scan # Idle,
         \/ UNCHANGED <<token, buffer>>
         \/ token'.untrusted = scan.state.untrusted
  PROVE  OriginInv'
<1>1. /\ scan' = Idle /\ history' = Append(history, scan.call)
      /\ UNCHANGED <<results, source, forgotten>>
  BY DEF Decided
<1>2. LookedAt /\ MemoryInv /\ history \in Seq(Calls) /\ scan.call \in Calls
      /\ results \in Seq(ResultRecords) /\ buffer \subseteq DOMAIN results
  BY DEF OriginInv, Inv, SessionInv, ScanInv
<1>3. /\ Len(history') = Len(history) + 1 /\ Len(history) \in Nat
      /\ DOMAIN history = 1..Len(history) /\ DOMAIN history' = 1..(Len(history) + 1)
      /\ \A k \in DOMAIN history : history'[k] = history[k]
      /\ history'[Len(history) + 1] = scan.call
  BY <1>1, <1>2
<1>4. \A i \in DOMAIN results : results[i].step \in Nat
  <2>1. \A i \in DOMAIN results : results[i] \in ResultRecords
    BY <1>2
  <2> QED
    BY <2>1 DEF ResultRecords
<1>5. \A i \in DOMAIN results : results[i].step <= Len(history')
  BY <1>2, <1>3, <1>4 DEF MemoryInv
<1>6. \A e \in Entities : source'[e] = "unseen" => \A k \in DOMAIN history' : history'[k].use # e
  BY <1>1, <1>2, <1>3 DEF MemoryInv, LookedAt
<1>7. ASSUME NEW e, ReadFirst(e), buffer' = buffer
      PROVE  ReadFirst(e)'
  <2>1. PICK i \in buffer :
          /\ results[i].names = e
          /\ \A k \in WindowSteps : history[k].use = e => k >= results[i].step
    BY <1>7 DEF ReadFirst
  <2>2. ASSUME NEW k \in WindowSteps', history'[k].use = e
        PROVE  k >= results[i].step
    <3>1. k \in 1..(Len(history) + 1) /\ k > Len(history) + 1 - Window
      BY <1>3, <2>2 DEF WindowSteps
    <3>2. CASE k = Len(history) + 1
      <4>1. results[i].step <= Len(history) /\ results[i].step \in Nat
        BY <1>2, <1>4, <2>1 DEF MemoryInv
      <4> QED
        BY <1>3, <3>2, <4>1
    <3>3. CASE k # Len(history) + 1
      <4>1. k \in DOMAIN history /\ k > Len(history) - Window
        BY <1>3, <3>1, <3>3 DEF ScannerAssumption
      <4> QED
        BY <1>3, <2>1, <2>2, <4>1 DEF WindowSteps
    <3> QED
      BY <3>2, <3>3
  <2> QED
    BY <1>1, <1>7, <2>1, <2>2 DEF ReadFirst
<1>8. /\ token'.untrusted \in Seq(Entities)
      /\ \A e \in Entities \ forgotten' : source'[e] = "content" =>
           e \in ToSet(token'.untrusted) \/ ReadFirst(e)'
  <2>1. CASE UNCHANGED <<token, buffer>>
    BY <1>1, <1>2, <1>7, <2>1 DEF MemoryInv
  <2>2. CASE token'.untrusted = scan.state.untrusted
    BY <1>1, <1>2, <2>2 DEF LookedAt
  <2> QED
    BY <2>1, <2>2
<1>9. MemoryInv'
  BY <1>1, <1>2, <1>5, <1>6, <1>8 DEF MemoryInv
<1> QED
  BY <1>1, <1>9 DEF OriginInv

LEMMA ResultRemembers ==
  ASSUME ScannerAssumption, Inv, OriginInv, NEW text \in Texts, Result(text)
  PROVE  OriginInv'
<1> DEFINE n == Len(results) + 1
           rec == [step |-> Len(history), shown |-> text.shown, names |-> text.names,
                   instructs |-> text.instructs]
<1>1. /\ scan = Idle /\ results' = Append(results, rec) /\ buffer' = buffer \cup {n}
      /\ source' = [e \in Entities |-> IF e = text.names /\ source[e] = "unseen" THEN "content"
                                                                          ELSE source[e]]
      /\ UNCHANGED <<token, history, scan, forgotten>>
  BY DEF Result
<1>2. rec.step = Len(history) /\ rec.names = text.names /\ rec.shown = text.shown
  OBVIOUS
<1> HIDE DEF rec
<1>3. /\ results \in Seq(ResultRecords) /\ buffer \subseteq DOMAIN results
      /\ history \in Seq(Calls) /\ MemoryInv
  BY DEF Inv, SessionInv, OriginInv
<1>4. /\ DOMAIN results' = DOMAIN results \cup {n}
      /\ results'[n] = rec
      /\ \A i \in DOMAIN results : results'[i] = results[i]
  BY <1>1, <1>3
<1> HIDE DEF n
<1>5. \A i \in DOMAIN results' :
        /\ results'[i].step <= Len(history)
        /\ results'[i].shown = "empty" => results'[i].names = None
  <2>1. text.shown = "empty" => text.names = None
    BY DEF ScannerAssumption
  <2>2. rec.step <= Len(history)
    BY <1>2, <1>3
  <2> QED
    BY <1>2, <1>3, <1>4, <2>1, <2>2 DEF MemoryInv
<1>6. ASSUME NEW e, ReadFirst(e)
      PROVE  ReadFirst(e)'
  <2>1. WindowSteps' = WindowSteps
    BY <1>1 DEF WindowSteps
  <2> QED
    BY <1>1, <1>3, <1>4, <1>6, <2>1 DEF ReadFirst
<1>7. ASSUME NEW e \in Entities, source[e] = "unseen", e = text.names
      PROVE  ReadFirst(e)'
  <2>1. \A k \in WindowSteps' : history'[k].use # e
    BY <1>1, <1>3, <1>7 DEF WindowSteps, MemoryInv
  <2> QED
    BY <1>1, <1>2, <1>4, <1>7, <2>1 DEF ReadFirst
<1>8. MemoryInv'
  <2>1. source' = [e \in Entities |-> source'[e]]
    BY <1>1
  <2>2. \A e \in Entities : source'[e] = "unseen" => source[e] = "unseen"
    BY <1>1
  <2>3. \A e \in Entities \ forgotten' : source'[e] = "content" =>
          e \in ToSet(token'.untrusted) \/ ReadFirst(e)'
    <3> SUFFICES ASSUME NEW e \in Entities \ forgotten', source'[e] = "content"
                 PROVE  e \in ToSet(token'.untrusted) \/ ReadFirst(e)'
      OBVIOUS
    <3>1. source[e] = "content" \/ (source[e] = "unseen" /\ e = text.names)
      BY <1>1
    <3> QED
      BY <1>1, <1>3, <1>6, <1>7, <3>1 DEF MemoryInv
  <2> QED
    BY <1>1, <1>3, <1>5, <2>1, <2>2, <2>3 DEF MemoryInv
<1> QED
  BY <1>1, <1>8 DEF OriginInv

LEMMA OriginStep ==
  ASSUME ScannerAssumption, Inv, OriginInv, [Next]_vars
  PROVE  OriginInv'
<1>1. CASE \E call \in Calls, view \in Views : Request(call, view)
  BY <1>1, RequestRemembers
<1>2. CASE UNCHANGED vars \/ OracleAnswers \/ Converge
             \/ (\E p \in Probes : Collect(p) \/ GiveUp(p) \/ ProbeEnds(p))
  BY <1>2, WorkRemembers
<1>3. CASE Deliver
  <2>1. Decided /\ scan.phase = "answered" /\ token' = NextToken(scan)
    BY <1>3 DEF Deliver, Decided
  <2>2. token'.untrusted = scan.state.untrusted
    BY <2>1 DEF NextToken
  <2> QED
    BY <2>1, <2>2, AnsweredInFull, DecidedRemembers
<1>4. CASE Lose
  <2>1. Decided /\ scan.phase = "answered" /\ UNCHANGED <<token, buffer>>
    BY <1>4 DEF Lose, Decided
  <2> QED
    BY <2>1, AnsweredInFull, DecidedRemembers
<1>5. CASE \E text \in Texts : Result(text)
  BY <1>5, ResultRemembers
<1> QED
  BY <1>1, <1>2, <1>3, <1>4, <1>5 DEF Next, MainThread

(* The origin a context probe that answered claims for the call's entity.   *)
LEMMA OriginAnswered ==
  ASSUME NEW s, NEW e \in Possible("context", s), e.status = "ok", s.ent.id # None
  PROVE  Claim("context", "untrusted_origin", OriginValue(s.ent), s.ent.id) \in e.claims
<1>1. \A st : Failed(st).status = st
  BY DEF Failed
<1>2. e \in Context(s) /\ e \notin Raised
  BY <1>1 DEF Possible, Answers, Raised
<1> QED
  BY <1>2 DEF Context, Answered, OriginClaims

(* A host or recipient that came up in something the agent read, and that   *)
(* the scanner has not visibly lost, is of untrusted origin in every scan   *)
(* of a call that uses it, whatever the library says of it and whatever the *)
(* other probes answered: no relief but the request's or a grant's reaches  *)
(* it (prepare/entities.py, the origins; state.py, add_untrusted;           *)
(* converge/__init__.py, the relief).                                      *)
THEOREM OriginFollows == Spec => []OriginKept
<1>1. Init => OriginInv
  <2>1. Init => MemoryInv
    <3>1. <<>> \in Seq(Entities) /\ DOMAIN <<>> = {}
      OBVIOUS
    <3> QED
      BY <3>1 DEF Init, MemoryInv, FreshState
  <2> QED
    BY <2>1 DEF Init, OriginInv
<1>2. Inv /\ OriginInv /\ [Next]_vars => OriginInv'
  BY ScannerAssumption, OriginStep
<1>3. Inv /\ OriginInv => OriginKept
  <2> DEFINE e == scan.call.use
             claims == Response(scan).claims
             origin == Claim("context", "untrusted_origin", OriginValue(scan.ent), scan.ent.id)
  <2> SUFFICES ASSUME Inv, OriginInv, scan.phase = "answered", e # None,
                      ~scan.call.request, ~scan.call.grant,
                      source[e] = "content", e \notin forgotten,
                      envelopes["context"].status = "ok"
               PROVE  ValueOr(claims, "untrusted_origin", 0) = Scale
    BY DEF OriginKept
  <2>1. scan # Idle /\ DOMAIN envelopes = Probes /\ \A p \in Probes : envelopes[p] \in Possible(p, scan)
    BY AnsweredInFull
  <2>2. e \in Entities
    <3>1. scan.call \in CallShapes
      BY <2>1, ScannerAssumption DEF Inv, ScanInv, ScannerAssumption
    <3> QED
      BY <3>1 DEF CallShapes
  <2>3. /\ scan.ent.id = e /\ ~scan.ent.request /\ ~scan.ent.grant
        /\ scan.ent.remembered \/ (scan.ent.read /\ ~scan.ent.agentFirst)
    BY <2>1, <2>2 DEF OriginInv, LookedAt
  <2>4. OriginValue(scan.ent) = Scale
    BY <2>3 DEF OriginValue
  <2>5. Excluded(scan.ent, envelopes) = {}
    BY <2>3 DEF Excluded, Relieved
  <2>6. claims = CollectClaims(envelopes)
    BY <2>5 DEF Response, Converged, Kept, CollectClaims
  <2>7. origin \in claims
    <3>1. origin \in envelopes["context"].claims
      BY <2>1, <2>3, OriginAnswered DEF Probes
    <3> QED
      BY <2>1, <2>6, <3>1 DEF CollectClaims, Answering, Probes
  <2>8. origin.signal = "untrusted_origin" /\ origin.value = Scale
    BY <2>4 DEF Claim
  <2>9. Sound(claims)
    BY ScannerAssumption, ResponseSound
  <2> HIDE DEF claims, origin
  <2>10. /\ ValueOr(claims, "untrusted_origin", 0) \in 0..Scale
         /\ Scale <= ValueOr(claims, "untrusted_origin", 0)
    <3>1. 0 \in 0..Scale /\ "untrusted_origin" \notin ConfidenceSignals
      BY DEF Scale, ConfidenceSignals
    <3> QED
      BY <2>7, <2>8, <2>9, <3>1, ValueFacts
  <2> QED
    BY <2>10 DEF Scale
<1> QED
  BY <1>1, <1>2, <1>3, Invariance, PTL DEF Spec

=============================================================================
