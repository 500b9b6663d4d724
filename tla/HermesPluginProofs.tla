------------------------- MODULE HermesPluginProofs -------------------------
(***************************************************************************)
(* Theorems about HermesPlugin, for every value of its constants.          *)
(***************************************************************************)
EXTENDS HermesPlugin, TLAPS, SequenceTheorems

-----------------------------------------------------------------------------
(* What the helpers return.                                                *)

(* Newest keeps the last n elements, in their order.                        *)
LEMMA NewestFacts ==
  ASSUME NEW S, NEW q \in Seq(S), NEW n \in Nat
  PROVE  /\ Newest(q, n) \in Seq(S)
         /\ Len(Newest(q, n)) = IF Len(q) > n THEN n ELSE Len(q)
         /\ \A i \in 1..Len(Newest(q, n)) :
              Newest(q, n)[i] = q[i + Len(q) - Len(Newest(q, n))]
<1> DEFINE drop == IF Len(q) > n THEN Len(q) - n ELSE 0
           m    == Len(q) - drop
<1>1. /\ drop \in Nat /\ m \in Nat /\ m + drop = Len(q)
      /\ m = IF Len(q) > n THEN n ELSE Len(q)
  OBVIOUS
<1>2. Newest(q, n) = [i \in 1..m |-> q[i + drop]]
  BY DEF Newest
<1>3. \A i \in 1..m : q[i + drop] \in S
  BY <1>1
<1>4. Newest(q, n) \in [1..m -> S]
  BY <1>2, <1>3
<1>5. Newest(q, n) \in Seq(S)
  BY <1>1, <1>4, SeqDef
<1>6. Len(Newest(q, n)) = m
  BY <1>1, <1>4, <1>5
<1> QED
  BY <1>1, <1>2, <1>5, <1>6

LEMMA AppendFacts ==
  ASSUME NEW S, NEW q \in Seq(S), NEW e \in S
  PROVE  /\ Append(q, e) \in Seq(S)
         /\ Len(Append(q, e)) = Len(q) + 1
         /\ \A i \in 1..Len(q) : Append(q, e)[i] = q[i]
         /\ Append(q, e)[Len(q) + 1] = e
  OBVIOUS

LEMMA NewestEmpty ==
  ASSUME NEW S, NEW q \in Seq(S), Len(q) = 0
  PROVE  Newest(q, 2 * HistoryLimit) = <<>>
<1>1. 2 * HistoryLimit \in Nat
  BY LimitAssumption
<1>2. Newest(q, 2 * HistoryLimit) \in Seq(S) /\ Len(Newest(q, 2 * HistoryLimit)) = 0
  <2> DEFINE n == 2 * HistoryLimit
  <2>1. n \in Nat /\ ~(Len(q) > n)
    BY <1>1
  <2> HIDE DEF n
  <2>2. Newest(q, n) \in Seq(S) /\ Len(Newest(q, n)) = Len(q)
    BY <2>1, NewestFacts
  <2> QED
    BY <2>2 DEF n
<1> QED
  BY <1>2, EmptySeq

LEMMA LimitsAreNat ==
  /\ HistoryLimit \in Nat /\ HistoryLimit > 0
  /\ 2 * HistoryLimit \in Nat /\ SeenKeep \in Nat /\ ReviewsKeep \in Nat
  BY LimitAssumption

LEMMA SavedType ==
  ASSUME NEW sess \in SessionFiles
  PROVE  Saved(sess) \in SessionFiles
<1>1. Newest(sess.history, 2 * HistoryLimit) \in Seq(Entries)
  BY NewestFacts, LimitsAreNat DEF SessionFiles
<1>2. Newest(sess.seen, SeenKeep) \in Seq(HostIds)
  BY NewestFacts, LimitsAreNat DEF SessionFiles
<1> QED
  BY <1>1, <1>2 DEF Saved, SessionFiles

LEMMA CallIdType ==
  ASSUME NEW sess \in SessionFiles, NEW host \in HostIds \cup {None}
  PROVE  CallIdFor(sess, host) \in CallIds
<1>1. sess.turn \in Nat /\ sess.next \in Nat
  BY DEF SessionFiles
<1>2. CASE host = None
  BY <1>1, <1>2 DEF CallIdFor, CallIds
<1>3. CASE host # None /\ InSeq(host, sess.seen)
  BY <1>1, <1>3 DEF CallIdFor, CallIds
<1>4. CASE host # None /\ ~ InSeq(host, sess.seen)
  BY <1>1, <1>4 DEF CallIdFor, CallIds
<1> QED
  BY <1>2, <1>3, <1>4

LEMMA RequestType ==
  ASSUME NEW sess \in SessionFiles, NEW batch \in Seq(HostCalls),
         NEW host \in HostIds \cup {None}, NEW id \in Nat
  PROVE  Request(sess, batch, host, id) \in Requests
<1>1. Newest(sess.history, HistoryLimit) \in Seq(Entries)
  BY NewestFacts, LimitsAreNat DEF SessionFiles
<1>2. SiblingIds(batch, host) \subseteq CallIds
  <2> SUFFICES ASSUME NEW i \in DOMAIN batch
               PROVE  [turn |-> 0, id |-> batch[i].host, step |-> 0] \in CallIds
    BY DEF SiblingIds
  <2>1. batch[i] \in HostCalls
    OBVIOUS
  <2> QED
    BY <2>1 DEF CallIds, HostCalls
<1>3. SentInputs(sess) \subseteq Inputs
  BY DEF SentInputs, SessionFiles
<1> QED
  BY <1>1, <1>2, <1>3, CallIdType DEF Request, Requests, SessionFiles

LEMMA NumberedType ==
  ASSUME NEW sess \in SessionFiles, NEW host \in HostIds \cup {None}
  PROVE  Numbered(sess, host) \in SessionFiles
<1> DEFINE seen == IF host = None THEN sess.seen ELSE Append(sess.seen, host)
<1>1. sess.next \in Nat /\ sess.seen \in Seq(HostIds)
  BY DEF SessionFiles
<1>2. host # None => host \in HostIds
  OBVIOUS
<1>3. seen \in Seq(HostIds)
  BY <1>1, <1>2, AppendFacts
<1>4. Numbered(sess, host) = [sess EXCEPT !.next = sess.next + 1, !.seen = seen]
  BY DEF Numbered
<1>5. sess.next + 1 \in Nat
  BY <1>1
<1> HIDE DEF seen
<1> QED
  BY <1>3, <1>4, <1>5 DEF SessionFiles

LEMMA PutReviewType ==
  ASSUME NEW rs \in Seq(Reviews), NEW r \in Reviews
  PROVE  PutReview(rs, r) \in Seq(Reviews)
<1>1. CASE \E i \in DOMAIN rs : rs[i].key = r.key
  BY <1>1, SeqDef DEF PutReview
<1>2. CASE ~ \E i \in DOMAIN rs : rs[i].key = r.key
  BY <1>2, NewestFacts, AppendFacts, LimitsAreNat DEF PutReview
<1> QED
  BY <1>1, <1>2

LEMMA WithoutType ==
  ASSUME NEW rs \in Seq(Reviews), NEW n \in DOMAIN rs
  PROVE  Without(rs, n) \in Seq(Reviews)
<1>1. Len(rs) - 1 \in Nat
  OBVIOUS
<1>2. Without(rs, n) \in [1..(Len(rs) - 1) -> Reviews]
  BY DEF Without
<1> QED
  BY <1>1, <1>2, SeqDef

LEMMA FinalDecisionType ==
  ASSUME NEW onError \in BOOLEAN, NEW choice \in Choices
  PROVE  FinalDecision(onError, choice) \in Decisions
  BY DEF FinalDecision, Choices, Decisions, NotRun

LEMMA WithDecisionType ==
  ASSUME NEW q \in Seq(Entries), NEW req, NEW final \in Decisions
  PROVE  /\ WithDecision(q, req, final) \in Seq(Entries)
         /\ Len(WithDecision(q, req, final)) = Len(q)
<1>1. \A i \in 1..Len(q) : [q[i] EXCEPT !.decision = final] \in Entries
  <2> SUFFICES ASSUME NEW i \in 1..Len(q)
               PROVE  [q[i] EXCEPT !.decision = final] \in Entries
    OBVIOUS
  <2>1. q[i] \in Entries
    OBVIOUS
  <2> QED
    BY <2>1 DEF Entries
<1>2. WithDecision(q, req, final) \in [1..Len(q) -> Entries]
  BY <1>1 DEF WithDecision
<1> QED
  BY <1>2, SeqDef

LEMMA BufferedType ==
  ASSUME NEW sess \in SessionFiles, NEW n \in DOMAIN sess.history,
         NEW status, NEW facts \in SUBSET Facts
  PROVE  Buffered(sess, n, status, facts) \in SessionFiles
<1> DEFINE it == [seq |-> sess.inputSeq + 1, call |-> sess.history[n].call,
                  facts |-> facts]
<1>1. sess.history[n] \in Entries /\ sess.inputSeq + 1 \in Nat
  BY DEF SessionFiles
<1>2. it \in Inputs
  BY <1>1 DEF Inputs, Entries
<1>3. sess.buffer \cup {it} \in SUBSET Inputs
  BY <1>2 DEF SessionFiles
<1>4. Buffered(sess, n, status, facts) = sess
        \/ Buffered(sess, n, status, facts) =
             [sess EXCEPT !.inputSeq = sess.inputSeq + 1, !.buffer = sess.buffer \cup {it}]
  BY DEF Buffered
<1> HIDE DEF it
<1> QED
  BY <1>1, <1>3, <1>4 DEF SessionFiles

LEMMA DirectiveType ==
  ASSUME NEW verdict \in Verdicts, NEW unattended \in BOOLEAN, NEW snoozed \in BOOLEAN
  PROVE  Directive(verdict, unattended, snoozed) \in {"run", "block", "approve"}
  BY DEF Directive

LEMMA ErrorDirectiveType ==
  ASSUME NEW kind \in FailureKinds, NEW unattended \in BOOLEAN
  PROVE  ErrorDirective(kind, unattended) \in {"run", "block", "approve"}
  BY DEF ErrorDirective

LEMMA DecideType ==
  ASSUME NEW risk, NEW enforced \in Verdicts
  PROVE  Decide(risk, enforced) \in Verdicts
  BY DEF Decide, Stricter, Verdicts

LEMMA FingerprintType ==
  ASSUME NEW action \in Actions, NEW salt \in Nat, NEW req \in Nat
  PROVE  /\ FingerprintOf(action, salt) \in Fingerprints
         /\ NoFp \in Fingerprints
         /\ FingerprintOf(action, salt) # NoFp
         /\ RuleKey(FingerprintOf(action, salt), req) \in RuleKeys
         /\ RuleKey(NoFp, req) \in RuleKeys
<1>1. FingerprintOf(action, salt) \in Fingerprints /\ NoFp \in Fingerprints
  BY DEF FingerprintOf, Fingerprints, NoFp
<1>2. FingerprintOf(action, salt) # NoFp
  BY HostAssumption DEF FingerprintOf, NoFp
<1> QED
  BY <1>1, <1>2 DEF RuleKey, RuleKeys

-----------------------------------------------------------------------------
(* Types.  The lock of a session is held by a call of the current message,  *)
(* and a call that is being answered has its answer.                       *)

LockInv ==
  \A s \in Sessions : scan[s] # Idle =>
    /\ scan[s].call \in DOMAIN calls[s]
    /\ calls[s][scan[s].call].st = "scanning"

AnswerInv ==
  \A s \in Sessions : \A i \in DOMAIN calls[s] :
    calls[s][i].st = "answering" => calls[s][i].answer \in Answers

TypeInv == TypeOK /\ LockInv /\ AnswerInv

(* What an update of one call does to the calls.                            *)
LEMMA SetCallFacts ==
  ASSUME TypeOK, NEW s \in Sessions, NEW i \in DOMAIN calls[s], NEW c \in HostCalls,
         SetCall(s, i, c)
  PROVE  /\ calls' \in [Sessions -> Seq(HostCalls)]
         /\ \A t \in Sessions : DOMAIN calls'[t] = DOMAIN calls[t]
         /\ calls'[s][i] = c
         /\ \A t \in Sessions : \A j \in DOMAIN calls[t] :
              t # s \/ j # i => calls'[t][j] = calls[t][j]
<1>1. calls[s] \in Seq(HostCalls)
  BY DEF TypeOK
<1>2. [calls[s] EXCEPT ![i] = c] \in Seq(HostCalls)
  BY <1>1
<1>3. calls' = [calls EXCEPT ![s] = [calls[s] EXCEPT ![i] = c]]
  BY DEF SetCall
<1>4. calls \in [Sessions -> Seq(HostCalls)]
  BY DEF TypeOK
<1>5. DOMAIN [calls[s] EXCEPT ![i] = c] = DOMAIN calls[s]
  OBVIOUS
<1> QED
  BY <1>2, <1>3, <1>4, <1>5

LEMMA PhaseTypes ==
  ASSUME TypeOK, NEW s \in Sessions
  PROVE  /\ scan[s].phase = "sent" => scan[s] \in Sent /\ scan[s] # Idle
         /\ scan[s].phase = "decided" => scan[s] \in Decided /\ scan[s] # Idle
         /\ scan[s] # Idle => scan[s] \in Sent \cup Decided
<1>1. scan[s] \in {Idle} \cup Sent \cup Decided
  BY DEF TypeOK
<1>2. Idle.phase = "idle" /\ \A x \in Sent : x.phase = "sent"
  BY DEF Idle, Sent
<1>3. \A x \in Decided : x.phase = "decided"
  BY DEF Decided
<1> QED
  BY <1>1, <1>2, <1>3

LEMMA TypeInit == Init => TypeInv
<1> SUFFICES ASSUME Init PROVE TypeInv
  OBVIOUS
<1>1. NoToken \in Tokens
  BY DEF NoToken, Tokens
<1>2. EmptySession \in SessionFiles
  BY <1>1 DEF EmptySession, SessionFiles
<1> QED
  BY <1>2 DEF Init, TypeInv, TypeOK, LockInv, AnswerInv

LEMMA ScannerTypes ==
  ASSUME TypeOK, NEW s \in Sessions, scan[s] \in Sent \cup Decided,
         NEW top \in Nat, NEW learned \in SUBSET Facts
  PROVE  /\ ScannerState(s) \in SessionState
         /\ NextToken(s, top, learned) \in Tokens
<1>1. /\ scan[s].req.token \in Tokens /\ scan[s].req.id \in Nat
      /\ scan[s].req.step \in Nat
  BY DEF Sent, Decided, Requests
<1>2. key \in Nat
  BY DEF TypeOK
<1>3. ScannerState(s) \in SessionState
  BY <1>1 DEF ScannerState, DecodeState, FreshState, SessionState, Tokens
<1>4. NextToken(s, top, learned) =
        [sid |-> s, key |-> key, step |-> scan[s].req.step, seq |-> top,
         salt |-> ScannerState(s).salt, known |-> ScannerState(s).known \cup learned]
  BY <1>3 DEF NextToken, EncodeState, SessionState
<1>5. NextToken(s, top, learned) \in Tokens
  BY <1>1, <1>2, <1>3, <1>4 DEF Tokens, SessionState
<1> QED
  BY <1>3, <1>5

LEMMA EntryType ==
  ASSUME TypeInv, NEW s \in Sessions, scan[s] \in Sent,
         NEW fp \in Fingerprints, NEW decision \in Decisions
  PROVE  Entry(s, fp, decision) \in Entries
<1>1. calls[s][scan[s].call] \in HostCalls
  BY PhaseTypes DEF TypeInv, TypeOK, LockInv, Sent, Idle
<1>2. scan[s].req \in Requests
  BY DEF Sent
<1> QED
  BY <1>1, <1>2 DEF Entry, Entries, HostCalls, Requests

(* Appending the entry of a scan, answered or failed, keeps a session file  *)
(* well typed.                                                             *)
LEMMA UnscannedType ==
  ASSUME NEW sess \in SessionFiles, NEW e \in Entries
  PROVE  Unscanned(sess, e) \in SessionFiles
<1>1. Append(sess.history, e) \in Seq(Entries)
  BY AppendFacts DEF SessionFiles
<1> QED
  BY <1>1 DEF Unscanned, SessionFiles

LEMMA ScannedType ==
  ASSUME NEW sess \in SessionFiles, NEW token \in Tokens, NEW e \in Entries
  PROVE  Scanned(sess, token, e) \in SessionFiles
<1>1. Append(sess.history, e) \in Seq(Entries)
  BY AppendFacts DEF SessionFiles
<1> QED
  BY <1>1 DEF Scanned, SessionFiles

LEMMA NextTurnType ==
  ASSUME NEW sess \in SessionFiles
  PROVE  InNextTurn(sess) \in SessionFiles
<1>1. sess.turn + 1 \in Nat
  BY DEF SessionFiles
<1>2. InNextTurn(sess) = [sess EXCEPT !.turn = sess.turn + 1]
  BY DEF InNextTurn
<1> QED
  BY <1>1, <1>2 DEF SessionFiles

LEMMA PreLlmCallType ==
  ASSUME TypeInv, NEW s \in Sessions, PreLlmCall(s)
  PROVE  TypeInv'
<1>1. session[s] \in SessionFiles
  BY DEF TypeInv, TypeOK
<1>2. InNextTurn(session[s]) \in SessionFiles
  BY <1>1, NextTurnType
<1>3. session' \in [Sessions -> SessionFiles]
  BY <1>2, SavedType DEF PreLlmCall, TypeInv, TypeOK
<1>4. calls' \in [Sessions -> Seq(HostCalls)] /\ calls'[s] = <<>>
      /\ \A t \in Sessions : t # s => calls'[t] = calls[t]
  BY DEF PreLlmCall, TypeInv, TypeOK
<1>5. used' \in [Sessions -> [HostIds -> Nat]]
  BY DEF PreLlmCall, TypeInv, TypeOK
<1>6. UNCHANGED <<reviews, scan, key, nextReq, lost>> /\ scan[s] = Idle
  BY DEF PreLlmCall, Unlocked
<1>7. TypeOK'
  BY <1>3, <1>4, <1>5, <1>6 DEF TypeInv, TypeOK
<1>8. LockInv'
  BY <1>4, <1>6 DEF TypeInv, LockInv
<1>9. AnswerInv'
  BY <1>4 DEF TypeInv, AnswerInv
<1> QED
  BY <1>7, <1>8, <1>9 DEF TypeInv

LEMMA PostApiRequestType ==
  ASSUME TypeInv, NEW s \in Sessions, PostApiRequest(s)
  PROVE  TypeInv'
<1>1. PICK n \in 1..MaxBatch : \E host \in [1..n -> HostIds \cup {None}],
        act \in [1..n -> Actions] :
         /\ calls' = [calls EXCEPT ![s] = [i \in 1..n |-> NewCall(host[i], act[i])]]
         /\ used' = [used EXCEPT ![s] =
              [h \in HostIds |-> IF \E i \in 1..n : host[i] = h THEN @[h] + 1 ELSE @[h]]]
  BY DEF PostApiRequest
<1>2. PICK host \in [1..n -> HostIds \cup {None}], act \in [1..n -> Actions] :
         /\ calls' = [calls EXCEPT ![s] = [i \in 1..n |-> NewCall(host[i], act[i])]]
         /\ used' = [used EXCEPT ![s] =
              [h \in HostIds |-> IF \E i \in 1..n : host[i] = h THEN @[h] + 1 ELSE @[h]]]
  BY <1>1
<1>3. n \in Nat
  BY HostAssumption
<1>4. RuleKey(NoFp, 0) \in RuleKeys
  BY DEF RuleKey, RuleKeys, NoFp, Fingerprints
<1>5. \A i \in 1..n : NewCall(host[i], act[i]) \in HostCalls /\ NewCall(host[i], act[i]).st = "new"
  BY <1>4 DEF NewCall, HostCalls, States
<1> DEFINE batch == [i \in 1..n |-> NewCall(host[i], act[i])]
<1>6. batch \in Seq(HostCalls)
  BY <1>3, <1>5, SeqDef
<1>7. /\ calls' \in [Sessions -> Seq(HostCalls)] /\ calls'[s] = batch
      /\ \A t \in Sessions : t # s => calls'[t] = calls[t]
  BY <1>2, <1>6 DEF TypeInv, TypeOK
<1>8. used' \in [Sessions -> [HostIds -> Nat]]
  <2>1. used \in [Sessions -> [HostIds -> Nat]]
    BY DEF TypeInv, TypeOK
  <2>2. [h \in HostIds |-> IF \E i \in 1..n : host[i] = h THEN used[s][h] + 1
                            ELSE used[s][h]] \in [HostIds -> Nat]
    BY <2>1
  <2> QED
    BY <1>2, <2>1, <2>2
<1>9. UNCHANGED <<session, reviews, scan, key, nextReq, lost>> /\ Over(s)
  BY DEF PostApiRequest
<1>10. scan[s] = Idle
  BY <1>9 DEF TypeInv, LockInv, Over
<1>11. TypeOK'
  BY <1>7, <1>8, <1>9 DEF TypeInv, TypeOK
<1>12. LockInv'
  BY <1>7, <1>9, <1>10 DEF TypeInv, LockInv
<1>13. AnswerInv'
  <2>1. \A i \in DOMAIN batch : batch[i].st # "answering"
    BY <1>5
  <2> QED
    BY <1>7, <2>1 DEF TypeInv, AnswerInv
<1> QED
  BY <1>11, <1>12, <1>13 DEF TypeInv

LEMMA PreToolCallType ==
  ASSUME TypeInv, NEW s \in Sessions, NEW i \in DOMAIN calls[s], PreToolCall(s, i)
  PROVE  TypeInv'
<1> DEFINE c == calls[s][i]
           d == [c EXCEPT !.st = "scanning", !.req = nextReq]
<1>1. /\ session[s] \in SessionFiles /\ c \in HostCalls /\ nextReq \in Nat \ {0}
      /\ calls[s] \in Seq(HostCalls) /\ i \in Nat \ {0}
  BY DEF TypeInv, TypeOK
<1>2. c.host \in HostIds \cup {None} /\ c.st = "new"
  BY <1>1 DEF PreToolCall, HostCalls
<1>3. Numbered(session[s], c.host) \in SessionFiles
  BY <1>1, <1>2, NumberedType
<1>4. Request(session[s], calls[s], c.host, nextReq) \in Requests
  BY <1>1, <1>2, RequestType
<1> DEFINE new == [phase |-> "sent", call |-> i, sess |-> Numbered(session[s], c.host),
                   req |-> Request(session[s], calls[s], c.host, nextReq)]
<1>5. new \in Sent
  BY <1>1, <1>3, <1>4 DEF Sent
<1>6. scan' = [scan EXCEPT ![s] = new]
  BY DEF PreToolCall
<1>7. d \in HostCalls /\ d.st = "scanning"
  BY <1>1 DEF HostCalls, States
<1>8. SetCall(s, i, d)
  BY DEF PreToolCall
<1>9. UNCHANGED <<session, reviews, used, key, lost>> /\ nextReq' = nextReq + 1
  BY DEF PreToolCall
<1> HIDE DEF new, d
<1>10. /\ calls' \in [Sessions -> Seq(HostCalls)]
       /\ \A t \in Sessions : DOMAIN calls'[t] = DOMAIN calls[t]
       /\ calls'[s][i] = d
       /\ \A t \in Sessions : \A j \in DOMAIN calls[t] :
            t # s \/ j # i => calls'[t][j] = calls[t][j]
  BY <1>7, <1>8, SetCallFacts DEF TypeInv
<1>11. scan' \in [Sessions -> {Idle} \cup Sent \cup Decided]
  BY <1>5, <1>6 DEF TypeInv, TypeOK
<1>12. TypeOK'
  BY <1>1, <1>9, <1>10, <1>11 DEF TypeInv, TypeOK
<1>13. LockInv'
  <2> SUFFICES ASSUME NEW t \in Sessions, scan'[t] # Idle
               PROVE  /\ scan'[t].call \in DOMAIN calls'[t]
                      /\ calls'[t][scan'[t].call].st = "scanning"
    BY DEF LockInv
  <2>1. CASE t = s
    <3>1. scan'[t].call = i
      BY <1>6, <2>1 DEF TypeInv, TypeOK, new
    <3> QED
      BY <1>7, <1>10, <2>1, <3>1
  <2>2. CASE t # s
    BY <1>6, <1>10, <2>2 DEF TypeInv, LockInv, TypeOK
  <2> QED
    BY <2>1, <2>2
<1>14. AnswerInv'
  BY <1>7, <1>10 DEF TypeInv, AnswerInv
<1> QED
  BY <1>12, <1>13, <1>14 DEF TypeInv

(* The step from "sent" to "decided", of an answered and of a failed scan.  *)
LEMMA ConcludeType ==
  ASSUME TypeInv, NEW s \in Sessions, scan[s].phase = "sent",
         NEW sess \in SessionFiles, NEW d \in {"run", "block", "approve"},
         NEW rule \in RuleKeys, NEW onError \in BOOLEAN,
         Conclude(s, sess, d, rule),
         Ask(s, d, rule, scan[s].req.id, onError),
         UNCHANGED <<session, calls, used, key, nextReq>>
  PROVE  TypeInv'
<1>1. scan[s] \in Sent /\ scan[s] # Idle
  BY PhaseTypes DEF TypeInv
<1>2. scan[s].call \in Nat \ {0} /\ scan[s].req \in Requests /\ scan[s].req.id \in Nat
  BY <1>1 DEF Sent, Requests
<1> DEFINE new == [phase |-> "decided", call |-> scan[s].call, sess |-> sess,
                   req |-> scan[s].req, directive |-> d, rule |-> rule]
<1>3. new \in Decided
  BY <1>2 DEF Decided
<1>4. scan' = [scan EXCEPT ![s] = new]
  BY DEF Conclude
<1>5. reviews' \in Seq(Reviews)
  <2>1. [key |-> rule, sid |-> s, req |-> scan[s].req.id, onError |-> onError] \in Reviews
    BY <1>2 DEF Reviews
  <2>2. reviews \in Seq(Reviews)
    BY DEF TypeInv, TypeOK
  <2> QED
    BY <2>1, <2>2, PutReviewType DEF Ask
<1>6. lost' \subseteq Nat
  <2>1. OpenReqs(reviews) \subseteq Nat
    <3> SUFFICES ASSUME NEW k \in DOMAIN reviews
                 PROVE  reviews[k].req \in Nat
      BY DEF OpenReqs
    <3>1. reviews[k] \in Reviews
      BY DEF TypeInv, TypeOK
    <3> QED
      BY <3>1 DEF Reviews
  <2> QED
    BY <2>1 DEF Ask, TypeInv, TypeOK
<1> HIDE DEF new
<1>7. scan' \in [Sessions -> {Idle} \cup Sent \cup Decided]
  BY <1>3, <1>4 DEF TypeInv, TypeOK
<1>8. TypeOK'
  BY <1>5, <1>6, <1>7 DEF TypeInv, TypeOK
<1>9. LockInv'
  <2> SUFFICES ASSUME NEW t \in Sessions, scan'[t] # Idle
               PROVE  /\ scan'[t].call \in DOMAIN calls[t]
                      /\ calls[t][scan'[t].call].st = "scanning"
    BY DEF LockInv
  <2>1. CASE t = s
    <3>1. scan'[t].call = scan[s].call
      BY <1>4, <2>1 DEF TypeInv, TypeOK, new
    <3> QED
      BY <1>1, <2>1, <3>1 DEF TypeInv, LockInv
  <2>2. CASE t # s
    BY <1>4, <2>2 DEF TypeInv, LockInv, TypeOK
  <2> QED
    BY <2>1, <2>2
<1>10. AnswerInv'
  BY DEF TypeInv, AnswerInv
<1> QED
  BY <1>8, <1>9, <1>10 DEF TypeInv

LEMMA DecisionsTypes ==
  ASSUME NEW d \in {"run", "block", "approve"}
  PROVE  ScannedDecision[d] \in Decisions /\ ErrorDecision[d] \in Decisions
  BY DEF ScannedDecision, ErrorDecision, Decisions, NotRun

LEMMA ScanAnsweredType ==
  ASSUME TypeInv, NEW s \in Sessions, ScanAnswered(s)
  PROVE  TypeInv'
<1> DEFINE req == scan[s].req
           fp  == FingerprintOf(calls[s][scan[s].call].action, ScannerState(s).salt)
<1>1. PICK top \in {it.seq : it \in req.inputs} \cup {ScannerState(s).seq},
           learned \in SUBSET UNION {it.facts : it \in NewInputs(req, ScannerState(s))},
           risk \in Risks, enforced \in Verdicts, snoozed \in BOOLEAN :
        LET d == Directive(Decide(risk, enforced), s \in Unattended,
                          snoozed /\ SnoozeApplies(enforced))
        IN  /\ IsMaxSeq(top, req, ScannerState(s))
            /\ Conclude(s, Scanned(scan[s].sess, NextToken(s, top, learned),
                                   Entry(s, fp, ScannedDecision[d])),
                        d, RuleKey(fp, req.id))
            /\ Ask(s, d, RuleKey(fp, req.id), req.id, FALSE)
  BY DEF ScanAnswered
<1> DEFINE d == Directive(Decide(risk, enforced), s \in Unattended,
                      snoozed /\ SnoozeApplies(enforced))
<1>2. scan[s].phase = "sent" /\ UNCHANGED <<session, calls, used, key, nextReq>>
  BY DEF ScanAnswered
<1>3. scan[s] \in Sent /\ scan[s] # Idle
  BY <1>2, PhaseTypes DEF TypeInv
<1>4. scan[s].sess \in SessionFiles /\ req \in Requests /\ req.id \in Nat
      /\ req.inputs \subseteq Inputs
  BY <1>3 DEF Sent, Requests
<1>5. ScannerState(s) \in SessionState
  BY <1>3, ScannerTypes DEF TypeInv
<1>6. top \in Nat
  BY <1>4, <1>5 DEF Inputs, SessionState
<1>7. learned \subseteq Facts
  BY <1>4 DEF NewInputs, Inputs
<1>8. calls[s][scan[s].call] \in HostCalls
  BY <1>3 DEF TypeInv, TypeOK, LockInv
<1>9. fp \in Fingerprints /\ RuleKey(fp, req.id) \in RuleKeys
  BY <1>4, <1>5, <1>8, FingerprintType DEF HostCalls, SessionState
<1>10. d \in {"run", "block", "approve"}
  <2>1. (s \in Unattended) \in BOOLEAN /\ (snoozed /\ SnoozeApplies(enforced)) \in BOOLEAN
    OBVIOUS
  <2>2. Decide(risk, enforced) \in Verdicts
    BY DecideType
  <2> QED
    BY <2>1, <2>2, DirectiveType
<1>11. NextToken(s, top, learned) \in Tokens
  BY <1>3, <1>6, <1>7, ScannerTypes DEF TypeInv
<1> HIDE DEF fp, d, req
<1>12. Entry(s, fp, ScannedDecision[d]) \in Entries
  BY <1>3, <1>9, <1>10, EntryType, DecisionsTypes
<1>13. Scanned(scan[s].sess, NextToken(s, top, learned), Entry(s, fp, ScannedDecision[d]))
         \in SessionFiles
  BY <1>4, <1>11, <1>12, ScannedType
<1>14. /\ Conclude(s, Scanned(scan[s].sess, NextToken(s, top, learned),
                              Entry(s, fp, ScannedDecision[d])), d, RuleKey(fp, req.id))
       /\ Ask(s, d, RuleKey(fp, req.id), req.id, FALSE)
  BY <1>1 DEF d, fp
<1> QED
  BY <1>2, <1>9, <1>10, <1>13, <1>14, ConcludeType DEF req

LEMMA ScanFailedType ==
  ASSUME TypeInv, NEW s \in Sessions, ScanFailed(s)
  PROVE  TypeInv'
<1> DEFINE req == scan[s].req
<1>1. PICK kind \in FailureKinds :
        LET d == ErrorDirective(kind, s \in Unattended)
        IN  /\ Conclude(s, Unscanned(scan[s].sess, Entry(s, NoFp, ErrorDecision[d])),
                        d, RuleKey(NoFp, req.id))
            /\ Ask(s, d, RuleKey(NoFp, req.id), req.id, TRUE)
  BY DEF ScanFailed
<1> DEFINE d == ErrorDirective(kind, s \in Unattended)
<1>2. scan[s].phase = "sent" /\ UNCHANGED <<session, calls, used, key, nextReq>>
  BY DEF ScanFailed
<1>3. scan[s] \in Sent
  BY <1>2, PhaseTypes DEF TypeInv
<1>4. scan[s].sess \in SessionFiles /\ req.id \in Nat
  BY <1>3 DEF Sent, Requests
<1>5. NoFp \in Fingerprints /\ RuleKey(NoFp, req.id) \in RuleKeys
  BY <1>4 DEF NoFp, Fingerprints, RuleKey, RuleKeys
<1>6. d \in {"run", "block", "approve"}
  <2>1. (s \in Unattended) \in BOOLEAN
    OBVIOUS
  <2> QED
    BY <2>1, ErrorDirectiveType
<1> HIDE DEF d, req
<1>7. Entry(s, NoFp, ErrorDecision[d]) \in Entries
  BY <1>3, <1>5, <1>6, EntryType, DecisionsTypes
<1>8. Unscanned(scan[s].sess, Entry(s, NoFp, ErrorDecision[d])) \in SessionFiles
  BY <1>4, <1>7, UnscannedType
<1>9. /\ Conclude(s, Unscanned(scan[s].sess, Entry(s, NoFp, ErrorDecision[d])),
                  d, RuleKey(NoFp, req.id))
      /\ Ask(s, d, RuleKey(NoFp, req.id), req.id, TRUE)
  BY <1>1 DEF d
<1> QED
  BY <1>2, <1>5, <1>6, <1>8, <1>9, ConcludeType DEF req

(* A step that releases the lock of s and moves the call that held it on.   *)
LEMMA ReleaseType ==
  ASSUME TypeInv, NEW s \in Sessions, scan[s] # Idle, NEW c \in HostCalls,
         c.st # "answering",
         scan' = [scan EXCEPT ![s] = Idle],
         SetCall(s, scan[s].call, c),
         session' \in [Sessions -> SessionFiles],
         UNCHANGED <<reviews, used, key, nextReq, lost>>
  PROVE  TypeInv'
<1> DEFINE i == scan[s].call
<1>1. i \in DOMAIN calls[s]
  BY DEF TypeInv, LockInv
<1>2. /\ calls' \in [Sessions -> Seq(HostCalls)]
      /\ \A t \in Sessions : DOMAIN calls'[t] = DOMAIN calls[t]
      /\ calls'[s][i] = c
      /\ \A t \in Sessions : \A j \in DOMAIN calls[t] :
           t # s \/ j # i => calls'[t][j] = calls[t][j]
  BY <1>1, SetCallFacts DEF TypeInv
<1> HIDE DEF i
<1>3. TypeOK'
  BY <1>2 DEF TypeInv, TypeOK
<1>4. LockInv'
  BY <1>2 DEF TypeInv, TypeOK, LockInv
<1>5. AnswerInv'
  BY <1>2 DEF TypeInv, AnswerInv
<1> QED
  BY <1>3, <1>4, <1>5 DEF TypeInv

LEMMA ScanSavedType ==
  ASSUME TypeInv, NEW s \in Sessions, ScanSaved(s)
  PROVE  TypeInv'
<1> DEFINE i == scan[s].call
           st == [run |-> "running", block |-> "refused", approve |-> "asking"][scan[s].directive]
           c == [calls[s][i] EXCEPT !.st = st, !.rule = scan[s].rule]
<1>1. scan[s] \in Decided /\ scan[s] # Idle
  BY PhaseTypes DEF ScanSaved, TypeInv
<1>2. /\ scan[s].sess \in SessionFiles /\ scan[s].rule \in RuleKeys
      /\ scan[s].directive \in {"run", "block", "approve"}
  BY <1>1 DEF Decided
<1>3. st \in States /\ st # "answering"
  BY <1>2 DEF States
<1>4. calls[s][i] \in HostCalls
  BY <1>1 DEF TypeInv, TypeOK, LockInv
<1> HIDE DEF st
<1>5. c \in HostCalls /\ c.st # "answering"
  BY <1>2, <1>3, <1>4 DEF HostCalls
<1>6. session' \in [Sessions -> SessionFiles]
  BY <1>2, SavedType DEF ScanSaved, TypeInv, TypeOK
<1>7. /\ scan' = [scan EXCEPT ![s] = Idle]
      /\ SetCall(s, i, c)
      /\ UNCHANGED <<reviews, used, key, nextReq, lost>>
  BY DEF ScanSaved, st
<1> HIDE DEF c
<1> QED
  BY <1>1, <1>5, <1>6, <1>7, ReleaseType

LEMMA ScanRaisedType ==
  ASSUME TypeInv, NEW s \in Sessions, ScanRaised(s)
  PROVE  TypeInv'
<1> DEFINE i == scan[s].call
           c == [calls[s][i] EXCEPT !.st = "refused"]
<1>1. scan[s] # Idle
  BY DEF ScanRaised, Unlocked
<1>2. calls[s][i] \in HostCalls
  BY <1>1 DEF TypeInv, TypeOK, LockInv
<1>3. c \in HostCalls /\ c.st # "answering"
  BY <1>2 DEF HostCalls, States
<1>4. session' \in [Sessions -> SessionFiles]
  BY DEF ScanRaised, TypeInv, TypeOK
<1>5. /\ scan' = [scan EXCEPT ![s] = Idle]
      /\ SetCall(s, i, c)
      /\ UNCHANGED <<reviews, used, key, nextReq, lost>>
  BY DEF ScanRaised
<1> HIDE DEF c
<1> QED
  BY <1>1, <1>3, <1>4, <1>5, ReleaseType

(* A step of the hooks after a call's scan: the lock does not change hands  *)
(* and a call that does not hold one moves on.                             *)
LEMMA AfterScanType ==
  ASSUME TypeInv, NEW s \in Sessions, NEW i \in DOMAIN calls[s],
         calls[s][i].st # "scanning", NEW c \in HostCalls, SetCall(s, i, c),
         c.st = "answering" => c.answer \in Answers,
         session' \in [Sessions -> SessionFiles],
         reviews' \in Seq(Reviews), lost' \subseteq Nat,
         UNCHANGED <<scan, used, key, nextReq>>
  PROVE  TypeInv'
<1>1. /\ calls' \in [Sessions -> Seq(HostCalls)]
      /\ \A t \in Sessions : DOMAIN calls'[t] = DOMAIN calls[t]
      /\ calls'[s][i] = c
      /\ \A t \in Sessions : \A j \in DOMAIN calls[t] :
           t # s \/ j # i => calls'[t][j] = calls[t][j]
  BY SetCallFacts DEF TypeInv
<1>2. TypeOK'
  BY <1>1 DEF TypeInv, TypeOK
<1>3. LockInv'
  BY <1>1 DEF TypeInv, LockInv
<1>4. AnswerInv'
  BY <1>1 DEF TypeInv, AnswerInv
<1> QED
  BY <1>2, <1>3, <1>4 DEF TypeInv

LEMMA ChoiceStateType ==
  ASSUME NEW choice
  PROVE  ChoiceState(choice) \in States \ {"answering"}
  BY DEF ChoiceState, States

LEMMA AnswerPoppedType ==
  ASSUME TypeInv, NEW s \in Sessions, NEW i \in DOMAIN calls[s], AnswerPopped(s, i)
  PROVE  TypeInv'
<1> DEFINE c == calls[s][i]
<1>1. PICK choice \in Choices, n \in ReviewsOf(c.rule) :
        /\ SetCall(s, i, [c EXCEPT !.st = "answering",
             !.answer = [sid |-> reviews[n].sid, req |-> reviews[n].req, choice |-> choice,
                         final |-> FinalDecision(reviews[n].onError, choice)]])
        /\ reviews' = Without(reviews, n)
        /\ lost' = lost \cup IF reviews[n].req = c.req THEN {} ELSE {reviews[n].req, c.req}
  BY DEF AnswerPopped
<1> DEFINE a == [sid |-> reviews[n].sid, req |-> reviews[n].req, choice |-> choice,
                 final |-> FinalDecision(reviews[n].onError, choice)]
<1>2. n \in DOMAIN reviews /\ reviews[n] \in Reviews /\ reviews \in Seq(Reviews)
  BY DEF ReviewsOf, TypeInv, TypeOK
<1>3. c \in HostCalls /\ c.st = "asking"
  BY DEF AnswerPopped, TypeInv, TypeOK
<1>4. a \in Answers
  BY <1>2, FinalDecisionType DEF Answers, Reviews
<1> HIDE DEF a
<1>5. [c EXCEPT !.st = "answering", !.answer = a] \in HostCalls
  BY <1>3, <1>4 DEF HostCalls, States
<1>6. [c EXCEPT !.st = "answering", !.answer = a].answer = a
  BY <1>3 DEF HostCalls
<1>7. reviews' \in Seq(Reviews)
  BY <1>1, <1>2, WithoutType
<1>8. lost' \subseteq Nat
  BY <1>1, <1>2, <1>3 DEF TypeInv, TypeOK, Reviews, HostCalls
<1>9. SetCall(s, i, [c EXCEPT !.st = "answering", !.answer = a])
  BY <1>1 DEF a
<1>10. session' \in [Sessions -> SessionFiles] /\ UNCHANGED <<scan, used, key, nextReq>>
  BY DEF AnswerPopped, TypeInv, TypeOK
<1>11. c.st # "scanning"
  BY <1>3
<1> DEFINE d == [c EXCEPT !.st = "answering", !.answer = a]
<1>12. d \in HostCalls /\ d.answer \in Answers /\ SetCall(s, i, d)
  BY <1>4, <1>5, <1>6, <1>9
<1> HIDE DEF d
<1> QED
  BY <1>7, <1>8, <1>10, <1>11, <1>12, AfterScanType

LEMMA AnswerUnjoinedType ==
  ASSUME TypeInv, NEW s \in Sessions, NEW i \in DOMAIN calls[s], AnswerUnjoined(s, i)
  PROVE  TypeInv'
<1> DEFINE c == calls[s][i]
<1>1. PICK choice \in Choices : SetCall(s, i, [c EXCEPT !.st = ChoiceState(choice)])
  BY DEF AnswerUnjoined
<1> DEFINE d == [c EXCEPT !.st = ChoiceState(choice)]
<1>2. c \in HostCalls /\ c.st = "asking"
  BY DEF AnswerUnjoined, TypeInv, TypeOK
<1>3. d \in HostCalls /\ d.st # "answering"
  BY <1>2, ChoiceStateType DEF HostCalls
<1>4. lost' \subseteq Nat
  BY <1>2 DEF AnswerUnjoined, TypeInv, TypeOK, HostCalls
<1>5. /\ session' \in [Sessions -> SessionFiles] /\ reviews' \in Seq(Reviews)
      /\ UNCHANGED <<scan, used, key, nextReq>>
  BY DEF AnswerUnjoined, TypeInv, TypeOK
<1>6. SetCall(s, i, d) /\ c.st # "scanning"
  BY <1>1, <1>2
<1> HIDE DEF d
<1> QED
  BY <1>3, <1>4, <1>5, <1>6, AfterScanType

(* The state of a call whose answer was written, or could not be.           *)
LEMMA SettledType ==
  ASSUME TypeInv, NEW s \in Sessions, NEW i \in DOMAIN calls[s],
         calls[s][i].st = "answering"
  PROVE  LET d == [calls[s][i] EXCEPT !.st = ChoiceState(calls[s][i].answer.choice),
                                      !.answer = None]
         IN  d \in HostCalls /\ d.st # "answering"
<1>1. calls[s][i] \in HostCalls
  BY DEF TypeInv, TypeOK
<1> QED
  BY <1>1, ChoiceStateType DEF HostCalls

LEMMA AnswerRecordedType ==
  ASSUME TypeInv, NEW s \in Sessions, NEW i \in DOMAIN calls[s], AnswerRecorded(s, i)
  PROVE  TypeInv'
<1> DEFINE c == calls[s][i]
           a == c.answer
           d == [c EXCEPT !.st = ChoiceState(a.choice), !.answer = None]
<1>1. c.st = "answering" /\ SetCall(s, i, d)
  BY DEF AnswerRecorded
<1>2. d \in HostCalls /\ d.st # "answering"
  BY <1>1, SettledType
<1>3. a \in Answers
  BY <1>1 DEF TypeInv, AnswerInv
<1>4. a.sid \in Sessions /\ a.final \in Decisions
  BY <1>3 DEF Answers
<1>5. session[a.sid] \in SessionFiles
  BY <1>4 DEF TypeInv, TypeOK
<1>6. WithDecision(session[a.sid].history, a.req, a.final) \in Seq(Entries)
  BY <1>4, <1>5, WithDecisionType DEF SessionFiles
<1>7. WithAnswer(session[a.sid], a) \in SessionFiles
  BY <1>5, <1>6 DEF WithAnswer, SessionFiles
<1>8. session' \in [Sessions -> SessionFiles]
  BY <1>4, <1>7, SavedType DEF AnswerRecorded, TypeInv, TypeOK
<1>9. reviews' \in Seq(Reviews) /\ lost' \subseteq Nat /\ UNCHANGED <<scan, used, key, nextReq>>
  BY DEF AnswerRecorded, TypeInv, TypeOK
<1>10. c.st # "scanning"
  BY <1>1
<1> HIDE DEF d, a
<1> QED
  BY <1>1, <1>2, <1>8, <1>9, <1>10, AfterScanType

LEMMA AnswerRaisedType ==
  ASSUME TypeInv, NEW s \in Sessions, NEW i \in DOMAIN calls[s], AnswerRaised(s, i)
  PROVE  TypeInv'
<1> DEFINE c == calls[s][i]
           d == [c EXCEPT !.st = ChoiceState(c.answer.choice), !.answer = None]
<1>1. c.st = "answering" /\ SetCall(s, i, d)
  BY DEF AnswerRaised
<1>2. d \in HostCalls /\ d.st # "answering"
  BY <1>1, SettledType
<1>3. c.answer \in Answers
  BY <1>1 DEF TypeInv, AnswerInv
<1>4. lost' \subseteq Nat
  BY <1>3 DEF AnswerRaised, Answers, TypeInv, TypeOK
<1>5. /\ session' \in [Sessions -> SessionFiles] /\ reviews' \in Seq(Reviews)
      /\ UNCHANGED <<scan, used, key, nextReq>>
  BY DEF AnswerRaised, TypeInv, TypeOK
<1>6. c.st # "scanning"
  BY <1>1
<1> HIDE DEF d
<1> QED
  BY <1>1, <1>2, <1>4, <1>5, <1>6, AfterScanType

LEMMA PostToolCallType ==
  ASSUME TypeInv, NEW s \in Sessions, NEW i \in DOMAIN calls[s], PostToolCall(s, i)
  PROVE  TypeInv'
<1> DEFINE c == calls[s][i]
           d == [c EXCEPT !.st = "done"]
           joined == IF c.host = None THEN {} ELSE EntriesOf(session[s], c.host)
<1>1. c \in HostCalls /\ session[s] \in SessionFiles
  BY DEF TypeInv, TypeOK
<1>2. d \in HostCalls /\ d.st # "answering"
  BY <1>1 DEF HostCalls, States
<1>3. session' \in [Sessions -> SessionFiles]
  <2>1. CASE UNCHANGED session
    BY <2>1 DEF TypeInv, TypeOK
  <2>2. CASE ~ UNCHANGED session
    <3>1. PICK n \in joined, facts \in SUBSET Facts,
             status \in IF c.st = "running" THEN {"ok", "error", "cancelled"} ELSE {"blocked", "error"} :
             session' = [session EXCEPT ![s] = Saved(Buffered(@, n, status, facts))]
      BY <2>2 DEF PostToolCall
    <3>2. n \in DOMAIN session[s].history
      BY DEF EntriesOf
    <3>3. Saved(Buffered(session[s], n, status, facts)) \in SessionFiles
      BY <1>1, <3>2, BufferedType, SavedType
    <3> QED
      BY <3>1, <3>3 DEF TypeInv, TypeOK
  <2> QED
    BY <2>1, <2>2
<1>4. /\ SetCall(s, i, d) /\ c.st # "scanning" /\ UNCHANGED <<reviews, scan, used, key, nextReq, lost>>
  BY DEF PostToolCall
<1>5. reviews' \in Seq(Reviews) /\ lost' \subseteq Nat
  BY <1>4 DEF TypeInv, TypeOK
<1> HIDE DEF d
<1> QED
  BY <1>2, <1>3, <1>4, <1>5, AfterScanType

LEMMA CrashType ==
  ASSUME TypeInv, Crash
  PROVE  TypeInv'
<1>1. TypeOK'
  BY DEF Crash, TypeInv, TypeOK
<1>2. LockInv' /\ AnswerInv'
  BY DEF Crash, LockInv, AnswerInv
<1> QED
  BY <1>1, <1>2 DEF TypeInv

LEMMA RotateKeyType ==
  ASSUME TypeInv, RotateKey
  PROVE  TypeInv'
  BY DEF RotateKey, TypeInv, TypeOK, LockInv, AnswerInv

LEMMA TypeStep == TypeInv /\ [Next]_vars => TypeInv'
<1> SUFFICES ASSUME TypeInv, [Next]_vars PROVE TypeInv'
  OBVIOUS
<1>1. ASSUME NEW s \in Sessions, SessionStep(s) PROVE TypeInv'
  BY <1>1, PreLlmCallType, PostApiRequestType, ScanAnsweredType, ScanFailedType,
     ScanSavedType, ScanRaisedType DEF SessionStep
<1>2. ASSUME NEW s \in Sessions, NEW i \in DOMAIN calls[s], CallStep(s, i) PROVE TypeInv'
  BY <1>2, PreToolCallType, PostToolCallType, AnswerPoppedType, AnswerUnjoinedType,
     AnswerRecordedType, AnswerRaisedType DEF CallStep
<1>3. CASE UNCHANGED vars
  BY <1>3 DEF vars, TypeInv, TypeOK, LockInv, AnswerInv
<1> QED
  BY <1>1, <1>2, <1>3, CrashType, RotateKeyType DEF Next

(* Every variable keeps its type, the lock of a session is held by exactly  *)
(* the call being scanned, and an answer on its way to a history exists.    *)
THEOREM TypeCorrect == Spec => []TypeOK
<1>1. Init => TypeInv
  BY TypeInit
<1>2. TypeInv /\ [Next]_vars => TypeInv'
  BY TypeStep
<1>3. TypeInv => TypeOK
  BY DEF TypeInv
<1> QED
  BY <1>1, <1>2, <1>3, PTL DEF Spec

-----------------------------------------------------------------------------
(* The session in the hands of a pre_tool_call.  While the lock is held the *)
(* file does not change, so what the scan holds in memory is the file plus  *)
(* one step: numbered when sent, with one more entry when decided.  That is *)
(* what makes the write at the end safe.                                   *)

EntryOf(e, req, host) ==
  /\ e.step = req.step /\ e.turn = req.turn /\ e.call = req.pending
  /\ e.host = host

(* The token of an answer still to be written: it is bound to the step, does *)
(* not run ahead of the inputs, and under the current key it continues the  *)
(* stored one.                                                             *)
Succeeds(token, s) ==
  /\ token.sid = s /\ token.step = session[s].next
  /\ token.seq <= session[s].inputSeq
  /\ session[s].token.key <= token.key /\ token.key <= key
  /\ session[s].next = 1 => token.known = {}
  /\ token.key = key /\ Continues(session[s].token, s, key, session[s].next - 1) =>
       session[s].token.known \subseteq token.known

Flight(s) ==
  LET host == calls[s][scan[s].call].host
      base == Numbered(session[s], host)
      req  == scan[s].req
  IN  scan[s] # Idle =>
        /\ req.step = session[s].next /\ req.turn = session[s].turn
        /\ req.token = session[s].token
        /\ req.pending = CallIdFor(session[s], host)
        /\ req.inputs \subseteq session[s].buffer
        /\ scan[s].phase = "sent" => scan[s].sess = base
        /\ scan[s].phase = "decided" =>
             LET sess == scan[s].sess
                 e    == sess.history[Len(sess.history)]
             IN  /\ sess.history # <<>> /\ EntryOf(e, req, host)
                 /\ \/ sess = Unscanned(base, e)
                    \/ Succeeds(sess.token, s) /\ sess = Scanned(base, sess.token, e)

(* The numbers in a session file: inputs are numbered once, and above what  *)
(* the token says was scanned; no token is from a key or for a step to      *)
(* come; before the first request there is nothing to remember.             *)
SeqInv(s) ==
  /\ session[s].token.seq <= session[s].inputSeq
  /\ session[s].token.key <= key
  /\ session[s].token.step < session[s].next
  /\ session[s].next = 1 =>
       session[s].token = NoToken /\ session[s].history = <<>> /\ session[s].buffer = {}
  /\ \A it \in session[s].buffer :
       session[s].token.seq < it.seq /\ it.seq <= session[s].inputSeq
  /\ InputsOrdered(session[s].buffer)

FlightInv == \A s \in Sessions : Flight(s) /\ SeqInv(s)

LEMMA SavedKeeps ==
  ASSUME NEW sess \in SessionFiles
  PROVE  /\ Saved(sess).next = sess.next /\ Saved(sess).inputSeq = sess.inputSeq
         /\ Saved(sess).token = sess.token /\ Saved(sess).turn = sess.turn
         /\ Saved(sess).buffer = sess.buffer
         /\ Saved(sess).history = Newest(sess.history, 2 * HistoryLimit)
         /\ Saved(sess).seen = Newest(sess.seen, SeenKeep)
  BY DEF Saved, SessionFiles

LEMMA NumberedKeeps ==
  ASSUME NEW sess \in SessionFiles, NEW host
  PROVE  /\ Numbered(sess, host).next = sess.next + 1
         /\ Numbered(sess, host).inputSeq = sess.inputSeq
         /\ Numbered(sess, host).token = sess.token
         /\ Numbered(sess, host).turn = sess.turn
         /\ Numbered(sess, host).buffer = sess.buffer
         /\ Numbered(sess, host).history = sess.history
         /\ host = None => Numbered(sess, host).seen = sess.seen
         /\ host # None => Numbered(sess, host).seen = Append(sess.seen, host)
  BY DEF Numbered, SessionFiles

LEMMA UnscannedKeeps ==
  ASSUME NEW sess \in SessionFiles, NEW e
  PROVE  /\ Unscanned(sess, e).next = sess.next /\ Unscanned(sess, e).turn = sess.turn
         /\ Unscanned(sess, e).seen = sess.seen /\ Unscanned(sess, e).inputSeq = sess.inputSeq
         /\ Unscanned(sess, e).history = Append(sess.history, e)
         /\ Unscanned(sess, e).token = sess.token /\ Unscanned(sess, e).buffer = sess.buffer
  BY DEF Unscanned, SessionFiles

LEMMA ScannedKeeps ==
  ASSUME NEW sess \in SessionFiles, NEW token, NEW e
  PROVE  /\ Scanned(sess, token, e).next = sess.next /\ Scanned(sess, token, e).turn = sess.turn
         /\ Scanned(sess, token, e).seen = sess.seen /\ Scanned(sess, token, e).inputSeq = sess.inputSeq
         /\ Scanned(sess, token, e).history = Append(sess.history, e)
         /\ Scanned(sess, token, e).token = token /\ Scanned(sess, token, e).buffer = {}
  BY DEF Scanned, SessionFiles

(* A session another process works on, or nobody: its flight goes on.  A    *)
(* new key only makes the tokens signed before it useless.                 *)
LEMMA FlightFrame ==
  ASSUME TypeOK, NEW s \in Sessions, Flight(s),
         scan'[s] = scan[s],
         scan[s] # Idle => /\ session'[s] = session[s]
                           /\ calls'[s][scan[s].call].host = calls[s][scan[s].call].host,
         key' \in Nat, key' >= key
  PROVE  Flight(s)'
<1>1. CASE scan[s] = Idle
  BY <1>1 DEF Flight
<1>2. CASE scan[s] # Idle
  <2> DEFINE host == calls[s][scan[s].call].host
             token == scan[s].sess.token
  <2>1. /\ session'[s] = session[s] /\ calls'[s][scan[s].call].host = host
    BY <1>2
  <2>2. scan[s].sess.token.key \in Nat
    BY <1>2, PhaseTypes DEF Sent, Decided, SessionFiles, Tokens
  <2>3. Succeeds(token, s) => Succeeds(token, s)'
    BY <2>1, <2>2 DEF Succeeds, TypeOK
  <2> QED
    BY <1>2, <2>1, <2>3 DEF Flight
<1> QED
  BY <1>1, <1>2

LEMMA SeqFrame ==
  ASSUME TypeOK, NEW s \in Sessions, SeqInv(s), session'[s] = session[s],
         key' \in Nat, key' >= key
  PROVE  SeqInv(s)'
<1>1. session[s].token.key \in Nat
  BY DEF TypeOK, SessionFiles, Tokens
<1> QED
  BY <1>1 DEF SeqInv, TypeOK

(* No step of the host or of a hook changes the host id of a call.          *)
LEMMA HostsKept ==
  ASSUME TypeOK, NEW s \in Sessions, NEW i \in DOMAIN calls[s], NEW c,
         SetCall(s, i, c), c.host = calls[s][i].host
  PROVE  \A t \in Sessions : \A j \in DOMAIN calls[t] : calls'[t][j].host = calls[t][j].host
<1>1. calls[s] \in Seq(HostCalls) /\ calls' = [calls EXCEPT ![s] = [calls[s] EXCEPT ![i] = c]]
  BY DEF TypeOK, SetCall
<1>2. \A t \in Sessions \ {s} : calls'[t] = calls[t]
  BY <1>1 DEF TypeOK
<1>3. calls'[s] = [calls[s] EXCEPT ![i] = c]
  BY <1>1 DEF TypeOK
<1>4. \A j \in DOMAIN calls[s] : calls'[s][j] = IF j = i THEN c ELSE calls[s][j]
  BY <1>1, <1>3
<1> QED
  BY <1>2, <1>4

LEMMA PreToolCallFlight ==
  ASSUME TypeInv, FlightInv, NEW s \in Sessions, NEW i \in DOMAIN calls[s], PreToolCall(s, i)
  PROVE  FlightInv'
<1> DEFINE c == calls[s][i]
           d == [c EXCEPT !.st = "scanning", !.req = nextReq]
           new == [phase |-> "sent", call |-> i, sess |-> Numbered(session[s], c.host),
                   req |-> Request(session[s], calls[s], c.host, nextReq)]
<1>1. c \in HostCalls /\ nextReq \in Nat
  BY DEF TypeInv, TypeOK
<1>2. d \in HostCalls /\ d.host = c.host
  BY <1>1 DEF HostCalls, States
<1>3. SetCall(s, i, d)
  BY DEF PreToolCall
<1>4. scan' = [scan EXCEPT ![s] = new] /\ UNCHANGED <<session, key>>
  BY DEF PreToolCall
<1> HIDE DEF d
<1>5. \A t \in Sessions : \A j \in DOMAIN calls[t] : calls'[t][j].host = calls[t][j].host
  BY <1>2, <1>3, HostsKept DEF TypeInv
<1> SUFFICES ASSUME NEW t \in Sessions
             PROVE  Flight(t)' /\ SeqInv(t)'
  BY DEF FlightInv
<1>6. SeqInv(t)'
  BY <1>4, SeqFrame DEF FlightInv, TypeInv, TypeOK
<1>7. CASE t = s
  <2>1. scan'[s] = new
    BY <1>4 DEF TypeInv, TypeOK
  <2>2. calls'[s][i].host = c.host /\ session'[s] = session[s]
    BY <1>4, <1>5
  <2>3. /\ new.req.step = session[s].next /\ new.req.turn = session[s].turn
        /\ new.req.token = session[s].token
        /\ new.req.pending = CallIdFor(session[s], c.host)
        /\ new.req.inputs = SentInputs(session[s])
        /\ new.phase = "sent" /\ new.sess = Numbered(session[s], c.host) /\ new.call = i
    BY DEF Request
  <2>4. SentInputs(session[s]) \subseteq session[s].buffer
    BY DEF SentInputs
  <2> HIDE DEF new
  <2> QED
    BY <1>6, <1>7, <2>1, <2>2, <2>3, <2>4 DEF Flight
<1>8. CASE t # s
  <2>1. scan'[t] = scan[t]
    BY <1>4, <1>8 DEF TypeInv, TypeOK
  <2>2. scan[t] # Idle => calls'[t][scan[t].call].host = calls[t][scan[t].call].host
    BY <1>5 DEF TypeInv, LockInv
  <2> QED
    BY <1>4, <1>6, <2>1, <2>2, FlightFrame DEF FlightInv, TypeInv, TypeOK
<1> QED
  BY <1>7, <1>8

LEMMA EntryIs ==
  ASSUME TypeInv, NEW s \in Sessions, scan[s] # Idle, NEW fp, NEW decision
  PROVE  EntryOf(Entry(s, fp, decision), scan[s].req, calls[s][scan[s].call].host)
  BY DEF Entry, EntryOf

(* From "sent" to "decided": the session in memory is the numbered one with *)
(* the entry appended.                                                     *)
LEMMA ConcludeFlight ==
  ASSUME TypeInv, FlightInv, NEW s \in Sessions, scan[s].phase = "sent",
         NEW sess \in SessionFiles, NEW e \in Entries, NEW d, NEW rule,
         Conclude(s, sess, d, rule),
         UNCHANGED <<session, calls, key>>,
         EntryOf(e, scan[s].req, calls[s][scan[s].call].host),
         \/ sess = Unscanned(scan[s].sess, e)
         \/ \E token \in Tokens : Succeeds(token, s) /\ sess = Scanned(scan[s].sess, token, e)
  PROVE  FlightInv'
<1> DEFINE new == [phase |-> "decided", call |-> scan[s].call, sess |-> sess,
                   req |-> scan[s].req, directive |-> d, rule |-> rule]
           host == calls[s][scan[s].call].host
           base == Numbered(session[s], host)
<1>1. scan[s] # Idle /\ scan[s] \in Sent /\ session[s] \in SessionFiles
  BY PhaseTypes DEF TypeInv, TypeOK
<1>2. scan' = [scan EXCEPT ![s] = new]
  BY DEF Conclude
<1>3. Flight(s) /\ scan[s].sess = base
  BY <1>1 DEF FlightInv, Flight
<1>4. host \in HostIds \cup {None}
  <2>1. calls[s][scan[s].call] \in HostCalls
    BY <1>1 DEF TypeInv, TypeOK, LockInv
  <2> QED
    BY <2>1 DEF HostCalls
<1>5. base \in SessionFiles /\ base.history \in Seq(Entries)
  BY <1>1, <1>4, NumberedType DEF SessionFiles
<1>6. \/ sess = Unscanned(base, e)
      \/ \E token \in Tokens : Succeeds(token, s) /\ sess = Scanned(base, token, e)
  BY <1>3
<1> HIDE DEF base
<1>7. /\ sess.history = Append(base.history, e)
      /\ \/ sess = Unscanned(base, e)
         \/ Succeeds(sess.token, s) /\ sess = Scanned(base, sess.token, e)
  <2>1. CASE sess = Unscanned(base, e)
    BY <1>5, <2>1, UnscannedKeeps
  <2>2. ASSUME NEW token \in Tokens, Succeeds(token, s), sess = Scanned(base, token, e)
        PROVE  sess.token = token /\ sess.history = Append(base.history, e)
    BY <1>5, <2>2, ScannedKeeps
  <2> QED
    BY <1>6, <2>1, <2>2
<1>8. sess.history # <<>> /\ sess.history[Len(sess.history)] = e
  BY <1>5, <1>7, AppendFacts
<1> SUFFICES ASSUME NEW t \in Sessions
             PROVE  Flight(t)' /\ SeqInv(t)'
  BY DEF FlightInv
<1>9. SeqInv(t)'
  BY SeqFrame DEF FlightInv, TypeInv, TypeOK
<1>10. CASE t = s
  <2>1. scan'[s] = new
    BY <1>2 DEF TypeInv, TypeOK
  <2>2. /\ new.phase = "decided" /\ new.sess = sess /\ new.req = scan[s].req
        /\ new.call = scan[s].call
    OBVIOUS
  <2> HIDE DEF new
  <2>3. Succeeds(sess.token, s) <=> Succeeds(sess.token, s)'
    BY DEF Succeeds
  <2> QED
    BY <1>1, <1>3, <1>7, <1>8, <1>9, <1>10, <2>1, <2>2, <2>3 DEF Flight, base
<1>11. CASE t # s
  <2>1. scan'[t] = scan[t]
    BY <1>2, <1>11 DEF TypeInv, TypeOK
  <2>2. Flight(t)'
    BY <2>1, FlightFrame DEF FlightInv, TypeInv, TypeOK
  <2> QED
    BY <1>9, <2>2
<1> QED
  BY <1>9, <1>10, <1>11

(* The token the scanner mints: its max_input_seq is that of an input of    *)
(* the request, or the one the request's token brought.                    *)
LEMMA NextTokenSucceeds ==
  ASSUME TypeInv, FlightInv, NEW s \in Sessions, scan[s].phase = "sent",
         NEW top \in {it.seq : it \in scan[s].req.inputs} \cup {ScannerState(s).seq},
         NEW learned \in SUBSET UNION {it.facts : it \in NewInputs(scan[s].req, ScannerState(s))}
  PROVE  Succeeds(NextToken(s, top, learned), s) /\ top \in Nat
<1> DEFINE req == scan[s].req
           token == session[s].token
<1>1. scan[s] # Idle /\ scan[s] \in Sent
  BY PhaseTypes DEF TypeInv
<1>2. /\ req.token = token /\ req.step = session[s].next
      /\ req.inputs \subseteq session[s].buffer
  BY <1>1 DEF FlightInv, Flight
<1>3. session[s] \in SessionFiles /\ token \in Tokens /\ key \in Nat
  BY DEF TypeInv, TypeOK, SessionFiles
<1>4. ScannerState(s) \in SessionState
  BY <1>1, ScannerTypes DEF TypeInv
<1>5. ScannerState(s).seq <= session[s].inputSeq
  <2>1. ScannerState(s).seq \in {0, token.seq}
    BY <1>2 DEF ScannerState, DecodeState, FreshState
  <2> QED
    BY <1>3, <2>1 DEF FlightInv, SeqInv, SessionFiles
<1>6. top \in Nat /\ top <= session[s].inputSeq
  <2>1. CASE top = ScannerState(s).seq
    BY <1>4, <1>5, <2>1 DEF SessionState
  <2>2. CASE top \in {it.seq : it \in req.inputs}
    <3>1. PICK it \in session[s].buffer : top = it.seq
      BY <1>2, <2>2
    <3> QED
      BY <1>3, <3>1 DEF FlightInv, SeqInv, SessionFiles, Inputs
  <2> QED
    BY <2>1, <2>2
<1>7. NextToken(s, top, learned) =
        [sid |-> s, key |-> key, step |-> req.step, seq |-> top,
         salt |-> ScannerState(s).salt, known |-> ScannerState(s).known \cup learned]
  BY <1>4 DEF NextToken, EncodeState, SessionState
<1>8. Continues(token, s, key, session[s].next - 1) => token.known \subseteq ScannerState(s).known
  <2>1. CASE TokenStatus(token, s, key, session[s].next - 1) = "valid"
    BY <1>2, <2>1 DEF ScannerState, DecodeState
  <2>2. CASE TokenStatus(token, s, key, session[s].next - 1) = "first_step"
    <3>1. token = NoToken
      BY <2>2 DEF TokenStatus
    <3> QED
      BY <3>1 DEF NoToken
  <2> QED
    BY <2>1, <2>2 DEF Continues
<1>9. session[s].next = 1 => ScannerState(s).known \cup learned = {}
  <2> SUFFICES ASSUME session[s].next = 1
               PROVE  ScannerState(s).known = {} /\ learned = {}
    OBVIOUS
  <2>1. token = NoToken /\ req.inputs = {}
    BY <1>2 DEF FlightInv, SeqInv
  <2>2. ScannerState(s).known = {}
    BY <1>2, <2>1 DEF ScannerState, DecodeState, TokenStatus, FreshState
  <2> QED
    BY <2>1, <2>2 DEF NewInputs
<1>10. token.key <= key
  BY DEF FlightInv, SeqInv
<1> HIDE DEF req, token
<1> QED
  BY <1>2, <1>3, <1>6, <1>7, <1>8, <1>9, <1>10 DEF Succeeds, token

LEMMA ScanAnsweredFlight ==
  ASSUME TypeInv, FlightInv, NEW s \in Sessions, ScanAnswered(s)
  PROVE  FlightInv'
<1> DEFINE req == scan[s].req
           fp  == FingerprintOf(calls[s][scan[s].call].action, ScannerState(s).salt)
<1>1. PICK top \in {it.seq : it \in req.inputs} \cup {ScannerState(s).seq},
           learned \in SUBSET UNION {it.facts : it \in NewInputs(req, ScannerState(s))},
           risk \in Risks, enforced \in Verdicts, snoozed \in BOOLEAN :
        LET d == Directive(Decide(risk, enforced), s \in Unattended,
                          snoozed /\ SnoozeApplies(enforced))
        IN  /\ IsMaxSeq(top, req, ScannerState(s))
            /\ Conclude(s, Scanned(scan[s].sess, NextToken(s, top, learned),
                                   Entry(s, fp, ScannedDecision[d])),
                        d, RuleKey(fp, req.id))
            /\ Ask(s, d, RuleKey(fp, req.id), req.id, FALSE)
  BY DEF ScanAnswered
<1> DEFINE d == Directive(Decide(risk, enforced), s \in Unattended,
                      snoozed /\ SnoozeApplies(enforced))
<1>2. scan[s].phase = "sent" /\ UNCHANGED <<session, calls, key>>
  BY DEF ScanAnswered
<1>3. scan[s] \in Sent /\ scan[s] # Idle
  BY <1>2, PhaseTypes DEF TypeInv
<1>4. scan[s].sess \in SessionFiles /\ req.inputs \subseteq Inputs
  BY <1>3 DEF Sent, Requests
<1>5. ScannerState(s) \in SessionState
  BY <1>3, ScannerTypes DEF TypeInv
<1>6. learned \subseteq Facts
  BY <1>4 DEF NewInputs, Inputs
<1>7. calls[s][scan[s].call] \in HostCalls
  BY <1>3 DEF TypeInv, TypeOK, LockInv
<1>8. fp \in Fingerprints
  BY <1>5, <1>7, HostAssumption DEF FingerprintOf, Fingerprints, HostCalls, SessionState
<1>9. d \in {"run", "block", "approve"}
  <2>1. (s \in Unattended) \in BOOLEAN /\ (snoozed /\ SnoozeApplies(enforced)) \in BOOLEAN
    OBVIOUS
  <2>2. Decide(risk, enforced) \in Verdicts
    BY DecideType
  <2> QED
    BY <2>1, <2>2, DirectiveType
<1>10. Succeeds(NextToken(s, top, learned), s) /\ top \in Nat
  BY <1>2, NextTokenSucceeds
<1>11. NextToken(s, top, learned) \in Tokens
  BY <1>3, <1>6, <1>10, ScannerTypes DEF TypeInv
<1> DEFINE e == Entry(s, fp, ScannedDecision[d])
<1> HIDE DEF fp, d
<1>12. e \in Entries /\ EntryOf(e, req, calls[s][scan[s].call].host)
  BY <1>3, <1>8, <1>9, EntryType, EntryIs, DecisionsTypes
<1> DEFINE sess == Scanned(scan[s].sess, NextToken(s, top, learned), e)
<1>13. Conclude(s, sess, d, RuleKey(fp, req.id))
  BY <1>1 DEF d, fp
<1> HIDE DEF e
<1>14. sess \in SessionFiles
  BY <1>4, <1>11, <1>12, ScannedType
<1> QED
  BY <1>2, <1>10, <1>11, <1>12, <1>13, <1>14, ConcludeFlight

LEMMA ScanFailedFlight ==
  ASSUME TypeInv, FlightInv, NEW s \in Sessions, ScanFailed(s)
  PROVE  FlightInv'
<1> DEFINE req == scan[s].req
<1>1. PICK kind \in FailureKinds :
        LET d == ErrorDirective(kind, s \in Unattended)
        IN  Conclude(s, Unscanned(scan[s].sess, Entry(s, NoFp, ErrorDecision[d])),
                     d, RuleKey(NoFp, req.id))
  BY DEF ScanFailed
<1> DEFINE d == ErrorDirective(kind, s \in Unattended)
           e == Entry(s, NoFp, ErrorDecision[d])
<1>2. scan[s].phase = "sent" /\ UNCHANGED <<session, calls, key>>
  BY DEF ScanFailed
<1>3. scan[s] \in Sent /\ scan[s] # Idle
  BY <1>2, PhaseTypes DEF TypeInv
<1>4. scan[s].sess \in SessionFiles
  BY <1>3 DEF Sent
<1>5. d \in {"run", "block", "approve"}
  <2>1. (s \in Unattended) \in BOOLEAN
    OBVIOUS
  <2> QED
    BY <2>1, ErrorDirectiveType
<1>6. NoFp \in Fingerprints
  BY DEF NoFp, Fingerprints
<1>7. Conclude(s, Unscanned(scan[s].sess, e), d, RuleKey(NoFp, req.id))
  BY <1>1
<1> HIDE DEF d
<1>8. e \in Entries /\ EntryOf(e, req, calls[s][scan[s].call].host)
  BY <1>3, <1>5, <1>6, EntryType, EntryIs, DecisionsTypes
<1> HIDE DEF e
<1>9. Unscanned(scan[s].sess, e) \in SessionFiles
  BY <1>4, <1>8, UnscannedType
<1> QED
  BY <1>2, <1>7, <1>8, <1>9, ConcludeFlight

(* A step of the hooks that run when the lock is free: where a session is   *)
(* in flight neither its file nor the call's host id moves, where the file  *)
(* moves its numbers stay in order.                                        *)
LEMMA QuietFlight ==
  ASSUME TypeInv, FlightInv, key' \in Nat, key' >= key,
         \A t \in Sessions : \/ scan'[t] = Idle
                             \/ /\ scan'[t] = scan[t] /\ session'[t] = session[t]
                                /\ calls'[t][scan[t].call].host = calls[t][scan[t].call].host,
         \A t \in Sessions : \/ session'[t] = session[t]
                             \/ SeqInv(t)'
  PROVE  FlightInv'
<1> SUFFICES ASSUME NEW t \in Sessions
             PROVE  Flight(t)' /\ SeqInv(t)'
  BY DEF FlightInv
<1>1. Flight(t) /\ SeqInv(t)
  BY DEF FlightInv
<1>2. SeqInv(t)'
  <2>1. CASE session'[t] = session[t]
    BY <1>1, <2>1, SeqFrame DEF TypeInv
  <2>2. CASE session'[t] # session[t]
    BY <2>2
  <2> QED
    BY <2>1, <2>2
<1>3. Flight(t)'
  <2>1. CASE scan'[t] = Idle
    BY <2>1 DEF Flight
  <2>2. CASE scan'[t] # Idle
    BY <1>1, <2>2, FlightFrame DEF TypeInv
  <2> QED
    BY <2>1, <2>2
<1> QED
  BY <1>2, <1>3

(* A write that leaves the token, the input numbers and the buffer alone.   *)
LEMMA SeqSame ==
  ASSUME NEW t \in Sessions, SeqInv(t), key' = key,
         session'[t].next = session[t].next,
         session[t].history = <<>> => session'[t].history = <<>>,
         session'[t].token = session[t].token,
         session'[t].inputSeq = session[t].inputSeq,
         session'[t].buffer = session[t].buffer
  PROVE  SeqInv(t)'
  BY DEF SeqInv, InputsOrdered

(* The steps of a call whose scan is over.                                 *)
LEMMA CallMoves ==
  ASSUME TypeInv, NEW s \in Sessions, NEW i \in DOMAIN calls[s],
         \/ AnswerPopped(s, i) \/ AnswerUnjoined(s, i)
         \/ AnswerRecorded(s, i) \/ AnswerRaised(s, i) \/ PostToolCall(s, i)
  PROVE  /\ \A t \in Sessions : \A j \in DOMAIN calls[t] :
              calls'[t][j].host = calls[t][j].host
         /\ UNCHANGED <<scan, key>>
         /\ \A t \in Sessions : scan[t] # Idle =>
              calls'[t][scan[t].call].host = calls[t][scan[t].call].host
<1> DEFINE c == calls[s][i]
<1>1. c \in HostCalls
  BY DEF TypeInv, TypeOK
<1>2. UNCHANGED <<scan, key>>
  BY DEF AnswerPopped, AnswerUnjoined, AnswerRecorded, AnswerRaised, PostToolCall
<1>3. \E d : SetCall(s, i, d) /\ d.host = c.host
  <2>1. \A st, answer : /\ [c EXCEPT !.st = st].host = c.host
                        /\ [c EXCEPT !.st = st, !.answer = answer].host = c.host
    BY <1>1 DEF HostCalls
  <2> HIDE DEF c
  <2>2. CASE AnswerPopped(s, i)
    <3>1. PICK answer : SetCall(s, i, [c EXCEPT !.st = "answering", !.answer = answer])
      BY <2>2 DEF AnswerPopped, c
    <3> DEFINE d == [c EXCEPT !.st = "answering", !.answer = answer]
    <3>2. SetCall(s, i, d) /\ d.host = c.host
      BY <2>1, <3>1
    <3> HIDE DEF d
    <3> QED
      BY <3>2
  <2>3. CASE AnswerUnjoined(s, i)
    BY <2>1, <2>3 DEF AnswerUnjoined, c
  <2>4. CASE AnswerRecorded(s, i) \/ AnswerRaised(s, i)
    <3> DEFINE d == [c EXCEPT !.st = ChoiceState(c.answer.choice), !.answer = None]
    <3>1. SetCall(s, i, d)
      BY <2>4 DEF AnswerRecorded, AnswerRaised, c
    <3>2. d.host = c.host
      BY <2>1
    <3> HIDE DEF d
    <3> QED
      BY <3>1, <3>2
  <2>6. CASE PostToolCall(s, i)
    BY <2>1, <2>6 DEF PostToolCall, c
  <2> QED
    BY <2>2, <2>3, <2>4, <2>6
<1>4. \A t \in Sessions : \A j \in DOMAIN calls[t] : calls'[t][j].host = calls[t][j].host
  BY <1>3, HostsKept DEF TypeInv
<1> QED
  BY <1>2, <1>4 DEF TypeInv, LockInv

LEMMA AnswerFlight ==
  ASSUME TypeInv, FlightInv, NEW s \in Sessions, NEW i \in DOMAIN calls[s],
         AnswerPopped(s, i) \/ AnswerUnjoined(s, i) \/ AnswerRaised(s, i)
  PROVE  FlightInv'
<1>1. UNCHANGED session
  BY DEF AnswerPopped, AnswerUnjoined, AnswerRaised
<1>2. key' \in Nat /\ key' >= key
  BY CallMoves DEF TypeInv, TypeOK
<1> QED
  BY <1>1, <1>2, CallMoves, QuietFlight

LEMMA AnswerRecordedFlight ==
  ASSUME TypeInv, FlightInv, NEW s \in Sessions, NEW i \in DOMAIN calls[s], AnswerRecorded(s, i)
  PROVE  FlightInv'
<1>1. PICK a \in Answers : a = calls[s][i].answer
  BY DEF AnswerRecorded, TypeInv, AnswerInv
<1> DEFINE sid == a.sid
           new == Saved(WithAnswer(session[sid], a))
<1>2. sid \in Sessions
  BY DEF Answers
<1>3. scan[sid] = Idle /\ session' = [session EXCEPT ![sid] = new]
  BY <1>1 DEF AnswerRecorded, Unlocked
<1>4. session[sid] \in SessionFiles
  BY <1>2 DEF TypeInv, TypeOK
<1>5. /\ new.next = session[sid].next /\ new.token = session[sid].token
      /\ new.inputSeq = session[sid].inputSeq /\ new.buffer = session[sid].buffer
      /\ new.history = Newest(WithDecision(session[sid].history, a.req, a.final),
                              2 * HistoryLimit)
  BY <1>4 DEF WithAnswer, Saved, SessionFiles
<1> HIDE DEF new, sid
<1>6. /\ \A t \in Sessions \ {sid} : session'[t] = session[t]
      /\ session'[sid] = new
  BY <1>2, <1>3 DEF TypeInv, TypeOK
<1>7. UNCHANGED <<scan, key>>
  BY CallMoves
<1>8. SeqInv(sid)'
  <2>1. a.final \in Decisions /\ session[sid].history \in Seq(Entries)
    BY <1>4 DEF Answers, SessionFiles
  <2>2. session[sid].history = <<>> => new.history = <<>>
    BY <1>5, <2>1, WithDecisionType, NewestEmpty
  <2> QED
    BY <1>2, <1>5, <1>6, <1>7, <2>2, SeqSame DEF FlightInv
<1>9. key' \in Nat /\ key' >= key
  BY <1>7 DEF TypeInv, TypeOK
<1>10. \A t \in Sessions : \/ scan'[t] = Idle
                          \/ /\ scan'[t] = scan[t] /\ session'[t] = session[t]
                             /\ calls'[t][scan[t].call].host = calls[t][scan[t].call].host
  BY <1>3, <1>6, <1>7, CallMoves
<1> QED
  BY <1>6, <1>8, <1>9, <1>10, QuietFlight

LEMMA PostToolCallFlight ==
  ASSUME TypeInv, FlightInv, NEW s \in Sessions, NEW i \in DOMAIN calls[s], PostToolCall(s, i)
  PROVE  FlightInv'
<1>1. UNCHANGED <<scan, key>>
  BY CallMoves
<1>2. key' \in Nat /\ key' >= key
  BY <1>1 DEF TypeInv, TypeOK
<1>3. CASE UNCHANGED session
  BY <1>1, <1>2, <1>3, CallMoves, QuietFlight
<1>4. CASE ~ UNCHANGED session
  <2>1. PICK n \in EntriesOf(session[s], calls[s][i].host), facts \in SUBSET Facts,
              status \in {"ok", "error", "cancelled", "blocked"} :
          session' = [session EXCEPT ![s] = Saved(Buffered(@, n, status, facts))]
    BY <1>4 DEF PostToolCall
  <2> DEFINE old == session[s]
             new == Saved(Buffered(old, n, status, facts))
  <2>2. scan[s] = Idle
    BY <1>4 DEF PostToolCall, Unlocked
  <2>3. old \in SessionFiles /\ n \in DOMAIN old.history /\ old.history \in Seq(Entries)
    BY DEF EntriesOf, TypeInv, TypeOK, SessionFiles
  <2>4. /\ \A t \in Sessions \ {s} : session'[t] = session[t]
        /\ session'[s] = new
    BY <2>1 DEF TypeInv, TypeOK
  <2>5. old.history # <<>> /\ old.next # 1
    BY <2>3 DEF FlightInv, SeqInv
  <2>6. \/ Buffered(old, n, status, facts) = old
        \/ \E it : /\ it.seq = old.inputSeq + 1
                   /\ Buffered(old, n, status, facts) =
                        [old EXCEPT !.inputSeq = old.inputSeq + 1,
                                    !.buffer = old.buffer \cup {it}]
    <3> DEFINE it == [seq |-> old.inputSeq + 1, call |-> old.history[n].call, facts |-> facts]
    <3>1. it.seq = old.inputSeq + 1
      OBVIOUS
    <3>2. \/ Buffered(old, n, status, facts) = old
          \/ Buffered(old, n, status, facts) =
               [old EXCEPT !.inputSeq = old.inputSeq + 1, !.buffer = old.buffer \cup {it}]
      BY DEF Buffered
    <3> HIDE DEF it
    <3> QED
      BY <3>1, <3>2
  <2>7. /\ new.next = old.next /\ new.token = old.token
        /\ \/ new.inputSeq = old.inputSeq /\ new.buffer = old.buffer
           \/ \E it : /\ it.seq = old.inputSeq + 1
                      /\ new.inputSeq = old.inputSeq + 1 /\ new.buffer = old.buffer \cup {it}
    BY <2>3, <2>6 DEF Saved, SessionFiles
  <2> HIDE DEF new
  <2>8. SeqInv(s)'
    <3>1. /\ old.token \in Tokens /\ old.inputSeq \in Nat /\ old.buffer \subseteq Inputs
          /\ \A it \in old.buffer : it.seq \in Nat
      BY <2>3 DEF SessionFiles, Inputs
    <3>2. SeqInv(s)
      BY DEF FlightInv
    <3>3. CASE new.inputSeq = old.inputSeq /\ new.buffer = old.buffer
      BY <1>1, <2>4, <2>5, <2>7, <3>2, <3>3, SeqSame
    <3>4. ASSUME NEW it, it.seq = old.inputSeq + 1,
                 new.inputSeq = old.inputSeq + 1, new.buffer = old.buffer \cup {it}
          PROVE  SeqInv(s)'
      <4>1. InputsOrdered(new.buffer)
        BY <3>1, <3>2, <3>4 DEF SeqInv, InputsOrdered
      <4>2. \A x \in new.buffer : old.token.seq < x.seq /\ x.seq <= new.inputSeq
        BY <3>1, <3>2, <3>4 DEF SeqInv, Tokens
      <4>3. old.token.seq <= new.inputSeq
        BY <3>1, <3>2, <3>4 DEF SeqInv, Tokens
      <4> QED
        BY <1>1, <2>4, <2>5, <2>7, <3>2, <4>1, <4>2, <4>3 DEF SeqInv
    <3> QED
      BY <2>7, <3>3, <3>4
  <2> QED
    BY <1>1, <1>2, <2>2, <2>4, <2>8, CallMoves, QuietFlight
<1> QED
  BY <1>3, <1>4

LEMMA PreLlmCallFlight ==
  ASSUME TypeInv, FlightInv, NEW s \in Sessions, PreLlmCall(s)
  PROVE  FlightInv'
<1> DEFINE new == Saved(InNextTurn(session[s]))
<1>1. scan[s] = Idle /\ UNCHANGED <<scan, key>>
  BY DEF PreLlmCall, Unlocked
<1>2. session' = [session EXCEPT ![s] = new] /\ calls' = [calls EXCEPT ![s] = <<>>]
  BY DEF PreLlmCall
<1>3. session[s] \in SessionFiles /\ session[s].history \in Seq(Entries)
  BY DEF TypeInv, TypeOK, SessionFiles
<1>4. /\ new.next = session[s].next /\ new.token = session[s].token
      /\ new.inputSeq = session[s].inputSeq /\ new.buffer = session[s].buffer
      /\ new.history = Newest(session[s].history, 2 * HistoryLimit)
  BY <1>3 DEF InNextTurn, Saved, SessionFiles
<1>5. session[s].history = <<>> => new.history = <<>>
  BY <1>3, <1>4, NewestEmpty
<1> HIDE DEF new
<1>6. /\ \A t \in Sessions \ {s} : session'[t] = session[t] /\ calls'[t] = calls[t]
      /\ session'[s] = new
  BY <1>2 DEF TypeInv, TypeOK
<1>7. SeqInv(s)'
  BY <1>1, <1>4, <1>5, <1>6, SeqSame DEF FlightInv
<1> QED
  BY <1>1, <1>6, <1>7, QuietFlight DEF TypeInv, TypeOK

LEMMA PostApiRequestFlight ==
  ASSUME TypeInv, FlightInv, NEW s \in Sessions, PostApiRequest(s)
  PROVE  FlightInv'
<1>1. UNCHANGED <<session, scan, key>>
  BY DEF PostApiRequest
<1>2. scan[s] = Idle
  <2> SUFFICES ASSUME scan[s] # Idle PROVE FALSE
    OBVIOUS
  <2>1. /\ scan[s].call \in DOMAIN calls[s] /\ calls[s][scan[s].call].st = "scanning"
    BY DEF TypeInv, LockInv
  <2> QED
    BY <2>1 DEF PostApiRequest, Over
<1>3. \A t \in Sessions \ {s} : calls'[t] = calls[t]
  BY DEF PostApiRequest, TypeInv, TypeOK
<1>4. key' \in Nat /\ key' >= key
  BY <1>1 DEF TypeInv, TypeOK
<1>5. \A t \in Sessions : \/ scan'[t] = Idle
                         \/ /\ scan'[t] = scan[t] /\ session'[t] = session[t]
                            /\ calls'[t][scan[t].call].host = calls[t][scan[t].call].host
  BY <1>1, <1>2, <1>3
<1> QED
  BY <1>1, <1>4, <1>5, QuietFlight

(* What the write at the end of a scan does to the file: one step is spent, *)
(* and the stored token stays or gives way to one that succeeds it.         *)
LEMMA ScanSavedWrites ==
  ASSUME TypeInv, FlightInv, NEW s \in Sessions, ScanSaved(s)
  PROVE  /\ \A t \in Sessions \ {s} : session'[t] = session[t]
         /\ UNCHANGED key
         /\ session'[s].next = session[s].next + 1
         /\ session'[s].inputSeq = session[s].inputSeq
         /\ session'[s].turn = session[s].turn
         /\ \/ /\ session'[s].token = session[s].token
               /\ session'[s].buffer = session[s].buffer
            \/ Succeeds(session'[s].token, s) /\ session'[s].buffer = {}
<1> DEFINE i    == scan[s].call
           sess == scan[s].sess
           host == calls[s][i].host
           base == Numbered(session[s], host)
           e    == sess.history[Len(sess.history)]
<1>1. scan[s] \in Decided /\ scan[s] # Idle /\ scan[s].phase = "decided"
  BY PhaseTypes DEF ScanSaved, TypeInv
<1>2. session[s] \in SessionFiles /\ sess \in SessionFiles
  BY <1>1 DEF TypeInv, TypeOK, Decided
<1>3. \/ sess = Unscanned(base, e)
      \/ Succeeds(sess.token, s) /\ sess = Scanned(base, sess.token, e)
  BY <1>1 DEF FlightInv, Flight
<1>4. host \in HostIds \cup {None}
  <2>1. calls[s][i] \in HostCalls
    BY <1>1 DEF TypeInv, TypeOK, LockInv
  <2> QED
    BY <2>1 DEF HostCalls
<1>5. base \in SessionFiles
  BY <1>2, <1>4, NumberedType
<1>6. /\ base.next = session[s].next + 1 /\ base.inputSeq = session[s].inputSeq
      /\ base.turn = session[s].turn /\ base.token = session[s].token
      /\ base.buffer = session[s].buffer
  BY <1>2, NumberedKeeps
<1>7. /\ \A t \in Sessions \ {s} : session'[t] = session[t]
      /\ session'[s] = Saved(sess) /\ UNCHANGED key
  BY DEF ScanSaved, TypeInv, TypeOK
<1> HIDE DEF sess, base, e, host
<1>8. /\ session'[s].next = sess.next /\ session'[s].inputSeq = sess.inputSeq
      /\ session'[s].turn = sess.turn /\ session'[s].token = sess.token
      /\ session'[s].buffer = sess.buffer
  BY <1>2, <1>7, SavedKeeps
<1>9. CASE sess = Unscanned(base, e)
  BY <1>5, <1>6, <1>7, <1>8, <1>9, UnscannedKeeps
<1>10. CASE Succeeds(sess.token, s) /\ sess = Scanned(base, sess.token, e)
  BY <1>5, <1>6, <1>7, <1>8, <1>10, ScannedKeeps
<1> QED
  BY <1>3, <1>9, <1>10

LEMMA ScanSavedFlight ==
  ASSUME TypeInv, FlightInv, NEW s \in Sessions, ScanSaved(s)
  PROVE  FlightInv'
<1>1. scan' = [scan EXCEPT ![s] = Idle] /\ UNCHANGED key
  BY DEF ScanSaved
<1>2. \A t \in Sessions \ {s} : calls'[t] = calls[t] /\ scan'[t] = scan[t]
  BY DEF ScanSaved, SetCall, TypeInv, TypeOK
<1>3. scan'[s] = Idle
  BY <1>1 DEF TypeInv, TypeOK
<1>4. SeqInv(s)'
  <2>1. /\ session[s].next \in Nat /\ session[s].inputSeq \in Nat
        /\ session[s].token \in Tokens
    BY DEF TypeInv, TypeOK, SessionFiles
  <2>2. SeqInv(s) /\ key \in Nat
    BY DEF FlightInv, TypeInv, TypeOK
  <2>3. session'[s].next = session[s].next + 1 /\ session'[s].inputSeq = session[s].inputSeq
    BY ScanSavedWrites
  <2>4. session'[s].next # 1
    BY <2>1, <2>2, <2>3 DEF SeqInv, Tokens
  <2>5. CASE session'[s].token = session[s].token /\ session'[s].buffer = session[s].buffer
    BY <1>1, <2>1, <2>2, <2>3, <2>4, <2>5 DEF SeqInv, InputsOrdered, Tokens
  <2>6. CASE Succeeds(session'[s].token, s) /\ session'[s].buffer = {}
    BY <1>1, <2>1, <2>2, <2>3, <2>4, <2>6 DEF SeqInv, InputsOrdered, Succeeds
  <2> QED
    BY <2>5, <2>6, ScanSavedWrites
<1>5. key' \in Nat /\ key' >= key
  BY <1>1 DEF TypeInv, TypeOK
<1>6. \A t \in Sessions \ {s} : session'[t] = session[t]
  BY ScanSavedWrites
<1> QED
  BY <1>2, <1>3, <1>4, <1>5, <1>6, QuietFlight

LEMMA ScanRaisedFlight ==
  ASSUME TypeInv, FlightInv, NEW s \in Sessions, ScanRaised(s)
  PROVE  FlightInv'
<1>1. scan'[s] = Idle /\ UNCHANGED <<session, key>>
  BY DEF ScanRaised, TypeInv, TypeOK
<1>2. \A t \in Sessions \ {s} : calls'[t] = calls[t] /\ scan'[t] = scan[t]
  BY DEF ScanRaised, SetCall, TypeInv, TypeOK
<1> QED
  BY <1>1, <1>2, QuietFlight DEF TypeInv, TypeOK

LEMMA CrashFlight ==
  ASSUME TypeInv, FlightInv, Crash
  PROVE  FlightInv'
<1>1. UNCHANGED <<session, key>> /\ \A t \in Sessions : scan'[t] = Idle
  BY DEF Crash
<1> QED
  BY <1>1, QuietFlight DEF TypeInv, TypeOK

LEMMA RotateKeyFlight ==
  ASSUME TypeInv, FlightInv, RotateKey
  PROVE  FlightInv'
<1>1. UNCHANGED <<session, scan, calls>> /\ key' \in Nat /\ key' >= key
  BY DEF RotateKey, TypeInv, TypeOK
<1> QED
  BY <1>1, QuietFlight

LEMMA FlightInit == Init => FlightInv
<1> SUFFICES ASSUME Init, NEW s \in Sessions PROVE Flight(s) /\ SeqInv(s)
  BY DEF FlightInv
<1>1. scan[s] = Idle /\ session[s] = EmptySession /\ key = 1
  BY DEF Init
<1>2. Flight(s)
  BY <1>1 DEF Flight
<1>3. SeqInv(s)
  BY <1>1 DEF SeqInv, InputsOrdered, EmptySession, NoToken
<1> QED
  BY <1>2, <1>3

LEMMA FlightStep == TypeInv /\ FlightInv /\ [Next]_vars => FlightInv'
<1> SUFFICES ASSUME TypeInv, FlightInv, [Next]_vars PROVE FlightInv'
  OBVIOUS
<1>1. ASSUME NEW s \in Sessions, SessionStep(s) PROVE FlightInv'
  BY <1>1, PreLlmCallFlight, PostApiRequestFlight, ScanAnsweredFlight, ScanFailedFlight,
     ScanSavedFlight, ScanRaisedFlight DEF SessionStep
<1>2. ASSUME NEW s \in Sessions, NEW i \in DOMAIN calls[s], CallStep(s, i) PROVE FlightInv'
  BY <1>2, PreToolCallFlight, PostToolCallFlight, AnswerFlight, AnswerRecordedFlight
     DEF CallStep
<1>3. CASE UNCHANGED vars
  <2>1. UNCHANGED <<session, scan, calls, key>>
    BY <1>3 DEF vars
  <2>2. key' \in Nat /\ key' >= key
    BY <2>1 DEF TypeInv, TypeOK
  <2> QED
    BY <2>1, <2>2, QuietFlight
<1> QED
  BY <1>1, <1>2, <1>3, CrashFlight, RotateKeyFlight DEF Next

-----------------------------------------------------------------------------
(* What follows from the session in flight.                                *)

(* Results are numbered past everything the stored token says was scanned:  *)
(* no result in the buffer is taken for one the scanner already judged.     *)
THEOREM BufferedAlwaysNew == Spec => []BufferedIsNew
<1>1. Init => TypeInv /\ FlightInv
  BY TypeInit, FlightInit
<1>2. TypeInv /\ FlightInv /\ [Next]_vars => TypeInv' /\ FlightInv'
  BY TypeStep, FlightStep
<1>3. TypeInv /\ FlightInv => BufferedIsNew
  <2> SUFFICES ASSUME TypeInv, FlightInv, NEW s \in Sessions, NEW it \in session[s].buffer
               PROVE  it.seq > session[s].token.seq /\ it.seq <= session[s].inputSeq
    BY DEF BufferedIsNew
  <2>1. session[s].token.seq < it.seq /\ it.seq <= session[s].inputSeq
    BY DEF FlightInv, SeqInv
  <2>2. session[s].token.seq \in Nat /\ it.seq \in Nat
    BY DEF TypeInv, TypeOK, SessionFiles, Inputs, Tokens
  <2> QED
    BY <2>1, <2>2
<1> QED
  BY <1>1, <1>2, <1>3, PTL DEF Spec

(* What a step may do to a session file: nothing that the numbers and the   *)
(* token show but counting on, or the write that ends a scan.              *)
CountsOn(t) ==
  /\ session'[t].next = session[t].next /\ session'[t].token = session[t].token
  /\ session'[t].inputSeq >= session[t].inputSeq
  /\ session'[t].turn >= session[t].turn
  /\ key' \in {key, key + 1}

EndsScan(t) ==
  /\ session'[t].next = session[t].next + 1
  /\ session'[t].inputSeq = session[t].inputSeq /\ session'[t].turn = session[t].turn
  /\ session'[t].token = session[t].token \/ Succeeds(session'[t].token, t)
  /\ key' = key

LEMMA WritesKeep ==
  ASSUME TypeInv, NEW t \in Sessions, NEW new \in SessionFiles,
         session' = [session EXCEPT ![t] = Saved(new)], UNCHANGED key,
         new.next = session[t].next, new.token = session[t].token,
         new.inputSeq >= session[t].inputSeq, new.turn >= session[t].turn
  PROVE  \A u \in Sessions : CountsOn(u)
<1>1. session'[t] = Saved(new) /\ \A u \in Sessions \ {t} : session'[u] = session[u]
  BY DEF TypeInv, TypeOK
<1>2. \A u \in Sessions : session[u].inputSeq \in Nat /\ session[u].turn \in Nat
  BY DEF TypeInv, TypeOK, SessionFiles
<1> QED
  BY <1>1, <1>2, SavedKeeps DEF CountsOn

LEMMA SameCountsOn ==
  ASSUME TypeInv, UNCHANGED session, key' \in {key, key + 1}
  PROVE  \A u \in Sessions : CountsOn(u)
  BY DEF CountsOn, TypeInv, TypeOK, SessionFiles

LEMMA SessionMoves ==
  ASSUME TypeInv, FlightInv, [Next]_vars
  PROVE  \A t \in Sessions : CountsOn(t) \/ EndsScan(t)
<1>1. ASSUME NEW s \in Sessions, PreLlmCall(s) PROVE \A t \in Sessions : CountsOn(t)
  <2>1. session[s] \in SessionFiles
    BY DEF TypeInv, TypeOK
  <2>2. InNextTurn(session[s]) \in SessionFiles
    BY <2>1 DEF InNextTurn, SessionFiles
  <2>3. /\ session' = [session EXCEPT ![s] = Saved(InNextTurn(session[s]))] /\ UNCHANGED key
    BY <1>1 DEF PreLlmCall
  <2>4. /\ InNextTurn(session[s]).next = session[s].next
        /\ InNextTurn(session[s]).token = session[s].token
        /\ InNextTurn(session[s]).inputSeq >= session[s].inputSeq
        /\ InNextTurn(session[s]).turn >= session[s].turn
    BY <2>1 DEF InNextTurn, SessionFiles
  <2> QED
    BY <2>2, <2>3, <2>4, WritesKeep
<1>2. ASSUME NEW s \in Sessions, NEW i \in DOMAIN calls[s], AnswerRecorded(s, i)
      PROVE  \A t \in Sessions : CountsOn(t)
  <2>1. PICK a \in Answers : a = calls[s][i].answer
    BY <1>2 DEF AnswerRecorded, TypeInv, AnswerInv
  <2> DEFINE sid == a.sid
             new == WithAnswer(session[sid], a)
  <2>2. sid \in Sessions /\ session[sid] \in SessionFiles /\ a.final \in Decisions
    BY DEF Answers, TypeInv, TypeOK
  <2>3. WithDecision(session[sid].history, a.req, a.final) \in Seq(Entries)
    BY <2>2, WithDecisionType DEF SessionFiles
  <2>4. new \in SessionFiles
    BY <2>2, <2>3 DEF WithAnswer, SessionFiles
  <2>5. session' = [session EXCEPT ![sid] = Saved(new)] /\ UNCHANGED key
    BY <1>2, <2>1 DEF AnswerRecorded
  <2>6. /\ new.next = session[sid].next /\ new.token = session[sid].token
        /\ new.inputSeq >= session[sid].inputSeq /\ new.turn >= session[sid].turn
    BY <2>2 DEF WithAnswer, SessionFiles
  <2> HIDE DEF new, sid
  <2> QED
    BY <2>2, <2>4, <2>5, <2>6, WritesKeep
<1>3. ASSUME NEW s \in Sessions, NEW i \in DOMAIN calls[s], PostToolCall(s, i),
             ~ UNCHANGED session
      PROVE  \A t \in Sessions : CountsOn(t)
  <2>1. PICK n \in EntriesOf(session[s], calls[s][i].host), facts \in SUBSET Facts,
              status \in {"ok", "error", "cancelled", "blocked"} :
          session' = [session EXCEPT ![s] = Saved(Buffered(@, n, status, facts))]
    BY <1>3 DEF PostToolCall
  <2>2. session[s] \in SessionFiles /\ n \in DOMAIN session[s].history
    BY DEF EntriesOf, TypeInv, TypeOK
  <2> DEFINE new == Buffered(session[s], n, status, facts)
  <2>3. new \in SessionFiles
    BY <2>2, BufferedType
  <2>4. /\ new.next = session[s].next /\ new.token = session[s].token
        /\ new.inputSeq >= session[s].inputSeq /\ new.turn >= session[s].turn
    BY <2>2 DEF Buffered, SessionFiles
  <2>5. session' = [session EXCEPT ![s] = Saved(new)] /\ UNCHANGED key
    BY <1>3, <2>1, CallMoves
  <2> HIDE DEF new
  <2> QED
    BY <2>3, <2>4, <2>5, WritesKeep
<1>4. ASSUME NEW s \in Sessions, ScanSaved(s)
      PROVE  \A t \in Sessions : CountsOn(t) \/ EndsScan(t)
  <2>1. EndsScan(s) /\ UNCHANGED key /\ \A t \in Sessions \ {s} : session'[t] = session[t]
    BY <1>4, ScanSavedWrites DEF EndsScan
  <2>2. \A t \in Sessions \ {s} : CountsOn(t)
    BY <2>1 DEF CountsOn, TypeInv, TypeOK, SessionFiles
  <2> QED
    BY <2>1, <2>2
<1>5. UNCHANGED <<session, key>> => \A t \in Sessions : CountsOn(t)
  BY SameCountsOn
<1>6. CASE RotateKey
  BY <1>6, SameCountsOn DEF RotateKey
<1>7. ASSUME NEW s \in Sessions, SessionStep(s)
      PROVE  UNCHANGED <<session, key>> \/ PreLlmCall(s) \/ ScanSaved(s)
  BY <1>7 DEF SessionStep, PostApiRequest, ScanAnswered, ScanFailed, ScanRaised
<1>8. ASSUME NEW s \in Sessions, NEW i \in DOMAIN calls[s], CallStep(s, i)
      PROVE  \/ UNCHANGED <<session, key>>
             \/ AnswerRecorded(s, i)
             \/ PostToolCall(s, i) /\ ~ UNCHANGED session
  BY <1>8, CallMoves DEF CallStep, PreToolCall, AnswerPopped, AnswerUnjoined, AnswerRaised
<1>9. CASE Crash
  BY <1>5, <1>9 DEF Crash
<1>10. CASE UNCHANGED vars
  BY <1>5, <1>10 DEF vars
<1>11. ASSUME NEW s \in Sessions, SessionStep(s)
       PROVE  \A t \in Sessions : CountsOn(t) \/ EndsScan(t)
  BY <1>1, <1>4, <1>5, <1>7, <1>11
<1>12. ASSUME NEW s \in Sessions, NEW i \in DOMAIN calls[s], CallStep(s, i)
       PROVE  \A t \in Sessions : CountsOn(t)
  BY <1>2, <1>3, <1>5, <1>8, <1>12
<1> QED
  BY <1>6, <1>9, <1>10, <1>11, <1>12 DEF Next

(* The numbers of a session file only grow, so that no step number and no   *)
(* input number is given out twice.                                        *)
THEOREM NumbersOnlyGrow == Spec => NumbersNeverReused
<1>1. Init => TypeInv /\ FlightInv
  BY TypeInit, FlightInit
<1>2. TypeInv /\ FlightInv /\ [Next]_vars => TypeInv' /\ FlightInv'
  BY TypeStep, FlightStep
<1> DEFINE Grow == \A s \in Sessions : /\ session'[s].next >= session[s].next
                                       /\ session'[s].inputSeq >= session[s].inputSeq
                                       /\ session'[s].turn >= session[s].turn
<1>3. TypeInv /\ FlightInv /\ [Next]_vars => [Grow]_vars
  <2> SUFFICES ASSUME TypeInv, FlightInv, [Next]_vars, NEW s \in Sessions
               PROVE  /\ session'[s].next >= session[s].next
                      /\ session'[s].inputSeq >= session[s].inputSeq
                      /\ session'[s].turn >= session[s].turn
    OBVIOUS
  <2>1. /\ session[s].next \in Nat /\ session[s].inputSeq \in Nat
        /\ session[s].turn \in Nat
    BY DEF TypeInv, TypeOK, SessionFiles
  <2> QED
    BY <2>1, SessionMoves DEF CountsOn, EndsScan
<1> QED
  BY <1>1, <1>2, <1>3, PTL DEF Spec, NumbersNeverReused

(* Whether the stored token continues the session, spelled out.             *)
LEMMA Intact ==
  ASSUME NEW token \in Tokens, NEW s \in Sessions, NEW k \in Nat, NEW next \in Nat \ {0}
  PROVE  Continues(token, s, k, next - 1) <=>
           \/ token = NoToken /\ next = 1
           \/ token # NoToken /\ token.key = k /\ token.sid = s /\ token.step + 1 = next
<1>1. next - 1 \in Nat /\ token.step \in Nat
  BY DEF Tokens
<1> QED
  BY <1>1 DEF Continues, TokenStatus

LEMMA IntactStep ==
  ASSUME TypeInv, FlightInv, [Next]_vars, NEW s \in Sessions
  PROVE  E!Learn(s) \/ E!Interrupt(s) \/ E!Ignore(s)
<1> DEFINE token == session[s].token
           next == session[s].next
           before == Continues(token, s, key, next - 1)
           after == Continues(token', s, key', next' - 1)
<1>1. /\ token \in Tokens /\ next \in Nat \ {0} /\ key \in Nat
      /\ token.step < next /\ token.key <= key /\ (next = 1 => token = NoToken)
  <2>1. SeqInv(s) /\ session[s] \in SessionFiles /\ key \in Nat
    BY DEF FlightInv, TypeInv, TypeOK
  <2>2. next \in Nat /\ token \in Tokens /\ token.step \in Nat
    BY <2>1 DEF SessionFiles, Tokens
  <2> QED
    BY <2>1, <2>2 DEF SeqInv
<1>2. token' \in Tokens /\ token.key \in Nat /\ token'.key \in Nat
  <2>1. token' \in Tokens
    BY TypeStep DEF TypeInv, TypeOK, SessionFiles
  <2> QED
    BY <1>1, <2>1 DEF Tokens
<1>3. before <=> \/ token = NoToken /\ next = 1
                 \/ token # NoToken /\ token.key = key /\ token.sid = s /\ token.step + 1 = next
  BY <1>1, Intact
<1>4. /\ before /\ ~after /\ token'.known = token.known => E!Interrupt(s)
      /\ ~before /\ ~after => E!Ignore(s)
      /\ after /\ (before => token.known \subseteq token'.known) => E!Learn(s)
  BY DEF E!Interrupt, E!Ignore, E!Learn
<1>5. CASE CountsOn(s)
  <2>1. token' = token /\ next' = next /\ key' \in {key, key + 1}
    BY <1>5 DEF CountsOn
  <2> QED
    BY <1>4, <2>1
<1>6. CASE EndsScan(s)
  <2>1. next' = next + 1 /\ key' = key
    BY <1>6 DEF EndsScan
  <2>2. after <=> /\ token' # NoToken /\ token'.key = key /\ token'.sid = s
                  /\ token'.step + 1 = next + 1
    BY <1>1, <1>2, <2>1, Intact
  <2>3. CASE token' = token
    <3>1. ~after
      BY <1>1, <2>2, <2>3 DEF Tokens
    <3> QED
      BY <1>4, <2>3, <3>1
  <2>4. CASE Succeeds(token', s)
    <3>1. /\ token'.sid = s /\ token'.step = next
          /\ token'.key <= key /\ token.key <= token'.key
          /\ next = 1 => token'.known = {}
      BY <2>4 DEF Succeeds
    <3>2. token'.key = key /\ before => token.known \subseteq token'.known
      BY <2>4 DEF Succeeds
    <3>3. token' # NoToken
      BY <3>1, NoneAssumption DEF NoToken
    <3> HIDE DEF before, after, token, next
    <3>4. CASE token'.key = key
      BY <1>4, <2>2, <3>1, <3>2, <3>3, <3>4
    <3>5. CASE token'.key # key
      <4>1. ~after /\ token.key # key
        BY <1>1, <1>2, <2>2, <3>1, <3>5
      <4>2. before => token'.known = token.known
        BY <1>3, <3>1, <4>1 DEF NoToken
      <4> QED
        BY <1>4, <4>1, <4>2
    <3> QED
      BY <3>4, <3>5
  <2> QED
    BY <1>6, <2>3, <2>4 DEF EndsScan
<1> QED
  BY <1>5, <1>6, SessionMoves

(* The detailed protocol implements the abstract one: the initial states    *)
(* map to its initial state and every step to a step of it, so what was     *)
(* found out about a session stays known for as long as scans are answered. *)
THEOREM EpisodeImplemented == Spec => EpisodeKept
<1>1. Init => TypeInv /\ FlightInv
  BY TypeInit, FlightInit
<1>2. TypeInv /\ FlightInv /\ [Next]_vars => TypeInv' /\ FlightInv'
  BY TypeStep, FlightStep
<1>3. Init => E!Init
  <2> SUFFICES ASSUME Init, NEW s \in Sessions
               PROVE  /\ session[s].token.known = {}
                      /\ Continues(session[s].token, s, key, session[s].next - 1) = TRUE
    BY DEF E!Init
  <2>1. session[s].token = NoToken /\ session[s].next - 1 = 0
    BY DEF Init, EmptySession
  <2> QED
    BY <2>1 DEF NoToken, Continues, TokenStatus
<1>4. TypeInv /\ FlightInv /\ [Next]_vars => [E!Next]_(E!vars)
  <2> SUFFICES ASSUME TypeInv, FlightInv, [Next]_vars PROVE E!Next
    OBVIOUS
  <2>1. \A s \in Sessions : session'[s].token.known \in SUBSET Facts
    BY TypeStep DEF TypeInv, TypeOK, SessionFiles, Tokens
  <2>2. \A s \in Sessions :
          Continues(session'[s].token, s, key', session'[s].next - 1) \in BOOLEAN
    BY DEF Continues
  <2>3. \A s \in Sessions : E!Learn(s) \/ E!Interrupt(s) \/ E!Ignore(s)
    BY IntactStep
  <2> QED
    BY <2>1, <2>2, <2>3 DEF E!Next
<1> QED
  BY <1>1, <1>2, <1>3, <1>4, PTL DEF Spec, EpisodeKept, E!Spec

-----------------------------------------------------------------------------
(* The history of a session, the token stored beside it and the requests   *)
(* built from it: what a step may do to a session file.                     *)

(* A file that was saved before has room for what it holds: trimming it     *)
(* again drops nothing.                                                    *)
Trimmed(s) ==
  /\ Len(session[s].history) <= 2 * HistoryLimit
  /\ Len(session[s].seen) <= SeenKeep

AllTrimmed == \A s \in Sessions : Trimmed(s)

(* The entries of a history but for their decisions.                        *)
SameEntry(e, f) ==
  /\ e.step = f.step /\ e.turn = f.turn /\ e.call = f.call
  /\ e.host = f.host /\ e.fp = f.fp /\ e.req = f.req

SameEntries(p, q) == Len(p) = Len(q) /\ \A i \in 1..Len(q) : SameEntry(p[i], q[i])

(* Only a decision, the turn or one more result is written.                 *)
Kept(t) ==
  /\ session'[t].next = session[t].next /\ session'[t].token = session[t].token
  /\ session'[t].seen = session[t].seen
  /\ session[t].buffer \subseteq session'[t].buffer
  /\ session'[t].turn = session[t].turn \/ PreLlmCall(t)
  /\ SameEntries(session'[t].history, session[t].history)

LEMMA NewestSame ==
  ASSUME NEW S, NEW q \in Seq(S), NEW n \in Nat, Len(q) <= n
  PROVE  Newest(q, n) = q
<1>1. /\ Newest(q, n) \in Seq(S) /\ Len(Newest(q, n)) = Len(q)
      /\ \A i \in 1..Len(Newest(q, n)) : Newest(q, n)[i] = q[i + Len(q) - Len(Newest(q, n))]
  BY NewestFacts
<1>2. \A i \in 1..Len(q) : Newest(q, n)[i] = q[i]
  BY <1>1
<1> HIDE DEF Newest
<1> QED
  BY <1>1, <1>2, SeqEqual

LEMMA SavedSame ==
  ASSUME TypeInv, AllTrimmed, NEW s \in Sessions, NEW sess \in SessionFiles,
         Len(sess.history) = Len(session[s].history), sess.seen = session[s].seen
  PROVE  Saved(sess).history = sess.history /\ Saved(sess).seen = sess.seen
<1>1. sess.history \in Seq(Entries) /\ sess.seen \in Seq(HostIds)
  BY DEF SessionFiles
<1>2. /\ 2 * HistoryLimit \in Nat /\ SeenKeep \in Nat
      /\ Len(sess.history) <= 2 * HistoryLimit /\ Len(sess.seen) <= SeenKeep
  BY LimitAssumption DEF AllTrimmed, Trimmed
<1>3. /\ Newest(sess.history, 2 * HistoryLimit) = sess.history
      /\ Newest(sess.seen, SeenKeep) = sess.seen
  BY <1>1, <1>2, NewestSame
<1> QED
  BY <1>3, SavedKeeps

LEMMA SameEntriesSame ==
  ASSUME NEW q
  PROVE  SameEntries(q, q)
  BY DEF SameEntries, SameEntry

(* An answer changes decisions only.                                       *)
LEMMA WithDecisionFacts ==
  ASSUME NEW q \in Seq(Entries), NEW req, NEW final
  PROVE  /\ Len(WithDecision(q, req, final)) = Len(q)
         /\ \A i \in 1..Len(q) :
              /\ q[i].req = req => WithDecision(q, req, final)[i].decision = final
              /\ q[i].req # req => WithDecision(q, req, final)[i] = q[i]
         /\ SameEntries(WithDecision(q, req, final), q)
<1> DEFINE p == WithDecision(q, req, final)
<1>1. p = [i \in 1..Len(q) |->
             IF q[i].req = req THEN [q[i] EXCEPT !.decision = final] ELSE q[i]]
  BY DEF WithDecision
<1>2. DOMAIN p = 1..Len(q) /\ p \in Seq(UNION {{p[i]} : i \in 1..Len(q)})
  <2>1. p \in [1..Len(q) -> UNION {{p[i]} : i \in 1..Len(q)}]
    BY <1>1
  <2> QED
    BY <2>1, SeqDef
<1>3. Len(p) = Len(q)
  BY <1>2, LenProperties
<1>4. \A i \in 1..Len(q) : q[i] \in Entries
  OBVIOUS
<1>5. \A e \in Entries : [e EXCEPT !.decision = final].decision = final
                         /\ SameEntry([e EXCEPT !.decision = final], e)
                         /\ SameEntry(e, e)
  BY DEF Entries, SameEntry
<1>6. \A i \in 1..Len(q) :
        /\ q[i].req = req => p[i] = [q[i] EXCEPT !.decision = final]
        /\ q[i].req # req => p[i] = q[i]
  BY <1>1
<1> HIDE DEF p
<1> QED
  BY <1>3, <1>4, <1>5, <1>6 DEF p, SameEntries

(* The start of a turn.                                                    *)
LEMMA TurnWrites ==
  ASSUME TypeInv, AllTrimmed, NEW s \in Sessions, PreLlmCall(s)
  PROVE  /\ \A t \in Sessions \ {s} : session'[t] = session[t]
         /\ session'[s].next = session[s].next /\ session'[s].token = session[s].token
         /\ session'[s].seen = session[s].seen /\ session'[s].buffer = session[s].buffer
         /\ session'[s].history = session[s].history
         /\ session'[s].turn = session[s].turn + 1
         /\ scan[s] = Idle
<1> DEFINE old == session[s]
           mid == InNextTurn(old)
<1>1. old \in SessionFiles
  BY DEF TypeInv, TypeOK
<1>2. /\ mid \in SessionFiles /\ mid.next = old.next /\ mid.token = old.token
      /\ mid.seen = old.seen /\ mid.buffer = old.buffer /\ mid.history = old.history
      /\ mid.turn = old.turn + 1
  <2> HIDE DEF old
  <2>1. mid \in SessionFiles
    BY <1>1, NextTurnType
  <2>2. mid.next = old.next /\ mid.token = old.token /\ mid.seen = old.seen
    BY <1>1 DEF InNextTurn, SessionFiles
  <2>3. mid.buffer = old.buffer /\ mid.history = old.history /\ mid.turn = old.turn + 1
    BY <1>1 DEF InNextTurn, SessionFiles
  <2> QED
    BY <2>1, <2>2, <2>3
<1>3. /\ session'[s] = Saved(mid) /\ \A t \in Sessions \ {s} : session'[t] = session[t]
      /\ scan[s] = Idle
  BY DEF PreLlmCall, Unlocked, TypeInv, TypeOK
<1> HIDE DEF mid
<1>4. Saved(mid).history = mid.history /\ Saved(mid).seen = mid.seen
  BY <1>2, SavedSame
<1> QED
  BY <1>2, <1>3, <1>4, SavedKeeps

(* The answer of the owner, or the end of a prompt nobody answered.         *)
LEMMA AnswerWrites ==
  ASSUME TypeInv, AllTrimmed, NEW s \in Sessions, NEW i \in DOMAIN calls[s],
         AnswerRecorded(s, i)
  PROVE  LET a == calls[s][i].answer
         IN  /\ a \in Answers /\ a.sid \in Sessions
             /\ \A t \in Sessions \ {a.sid} : session'[t] = session[t]
             /\ session'[a.sid].next = session[a.sid].next
             /\ session'[a.sid].token = session[a.sid].token
             /\ session'[a.sid].seen = session[a.sid].seen
             /\ session'[a.sid].buffer = session[a.sid].buffer
             /\ session'[a.sid].turn = session[a.sid].turn
             /\ session'[a.sid].history = WithDecision(session[a.sid].history, a.req, a.final)
             /\ scan[a.sid] = Idle
<1>1. PICK a \in Answers : a = calls[s][i].answer
  BY DEF AnswerRecorded, TypeInv, AnswerInv
<1> DEFINE old == session[a.sid]
           mid == WithAnswer(old, a)
<1>2. a.sid \in Sessions /\ old \in SessionFiles /\ a.final \in Decisions
  BY DEF Answers, TypeInv, TypeOK
<1>3. old.history \in Seq(Entries)
  BY <1>2 DEF SessionFiles
<1>4. /\ WithDecision(old.history, a.req, a.final) \in Seq(Entries)
      /\ Len(WithDecision(old.history, a.req, a.final)) = Len(old.history)
  BY <1>2, <1>3, WithDecisionType
<1>5. /\ mid \in SessionFiles /\ mid.next = old.next /\ mid.token = old.token
      /\ mid.seen = old.seen /\ mid.buffer = old.buffer /\ mid.turn = old.turn
      /\ mid.history = WithDecision(old.history, a.req, a.final)
  BY <1>2, <1>4 DEF WithAnswer, SessionFiles
<1>6. /\ session'[a.sid] = Saved(mid)
      /\ \A t \in Sessions \ {a.sid} : session'[t] = session[t]
      /\ scan[a.sid] = Idle
  BY <1>1, <1>2 DEF AnswerRecorded, Unlocked, TypeInv, TypeOK
<1> HIDE DEF mid
<1>7. Saved(mid).history = mid.history /\ Saved(mid).seen = mid.seen
  BY <1>2, <1>4, <1>5, SavedSame
<1>8. /\ Saved(mid).next = mid.next /\ Saved(mid).token = mid.token
      /\ Saved(mid).seen = mid.seen /\ Saved(mid).buffer = mid.buffer
      /\ Saved(mid).turn = mid.turn /\ Saved(mid).history = mid.history
  BY <1>5, <1>7, SavedKeeps
<1> QED
  BY <1>1, <1>2, <1>5, <1>6, <1>8

(* The result of a call.                                                   *)
LEMMA ResultWrites ==
  ASSUME TypeInv, AllTrimmed, NEW s \in Sessions, NEW i \in DOMAIN calls[s],
         PostToolCall(s, i)
  PROVE  /\ \A t \in Sessions \ {s} : session'[t] = session[t]
         /\ session'[s].next = session[s].next /\ session'[s].token = session[s].token
         /\ session'[s].seen = session[s].seen
         /\ session[s].buffer \subseteq session'[s].buffer
         /\ session'[s].history = session[s].history
         /\ session'[s].turn = session[s].turn
         /\ session' = session \/ scan[s] = Idle
<1>1. CASE UNCHANGED session
  BY <1>1
<1>2. CASE ~ UNCHANGED session
  <2>1. PICK n \in EntriesOf(session[s], calls[s][i].host), facts \in SUBSET Facts,
              status \in {"ok", "error", "cancelled", "blocked"} :
          session' = [session EXCEPT ![s] = Saved(Buffered(@, n, status, facts))]
    BY <1>2 DEF PostToolCall
  <2> DEFINE old == session[s]
             mid == Buffered(old, n, status, facts)
  <2>2. scan[s] = Idle
    BY <1>2 DEF PostToolCall, Unlocked
  <2>3. old \in SessionFiles /\ n \in DOMAIN old.history
    BY DEF EntriesOf, TypeInv, TypeOK
  <2>4. mid \in SessionFiles
    BY <2>3, BufferedType
  <2>5. /\ mid.next = old.next /\ mid.token = old.token /\ mid.seen = old.seen
        /\ old.buffer \subseteq mid.buffer /\ mid.turn = old.turn
        /\ mid.history = old.history
    <3> DEFINE it == [seq |-> old.inputSeq + 1, call |-> old.history[n].call, facts |-> facts]
    <3>1. \/ mid = old
          \/ mid = [old EXCEPT !.inputSeq = old.inputSeq + 1, !.buffer = old.buffer \cup {it}]
      BY DEF Buffered
    <3> HIDE DEF it, mid, old
    <3> QED
      BY <2>3, <3>1 DEF SessionFiles
  <2>6. session'[s] = Saved(mid) /\ \A t \in Sessions \ {s} : session'[t] = session[t]
    BY <2>1 DEF TypeInv, TypeOK
  <2> HIDE DEF mid
  <2>7. Saved(mid).history = mid.history /\ Saved(mid).seen = mid.seen
    BY <2>4, <2>5, SavedSame
  <2> QED
    BY <2>2, <2>4, <2>5, <2>6, <2>7, SavedKeeps
<1> QED
  BY <1>1, <1>2

(* A file is left alone, written with little news while its lock is free,   *)
(* or written by the hook that holds the lock.                             *)
LEMMA FileMoves ==
  ASSUME TypeInv, AllTrimmed, [Next]_vars, NEW t \in Sessions
  PROVE  \/ session'[t] = session[t]
         \/ scan[t] = Idle /\ Kept(t)
         \/ ScanSaved(t)
<1>1. ASSUME NEW s \in Sessions, PreLlmCall(s)
      PROVE  session'[t] = session[t] \/ (scan[t] = Idle /\ Kept(t))
  <2>1. CASE t = s
    BY <1>1, <2>1, TurnWrites, SameEntriesSame DEF Kept
  <2> QED
    BY <1>1, <2>1, TurnWrites
<1>2. ASSUME NEW s \in Sessions, NEW i \in DOMAIN calls[s], AnswerRecorded(s, i)
      PROVE  session'[t] = session[t] \/ (scan[t] = Idle /\ Kept(t))
  <2> DEFINE a == calls[s][i].answer
  <2>1. CASE t = a.sid
    <3>1. SameEntries(WithDecision(session[t].history, a.req, a.final), session[t].history)
      <4>1. session[t].history \in Seq(Entries)
        BY DEF TypeInv, TypeOK, SessionFiles
      <4> QED
        BY <4>1, WithDecisionFacts
    <3> QED
      BY <1>2, <2>1, <3>1, AnswerWrites DEF Kept
  <2> QED
    BY <1>2, <2>1, AnswerWrites
<1>3. ASSUME NEW s \in Sessions, NEW i \in DOMAIN calls[s], PostToolCall(s, i)
      PROVE  session'[t] = session[t] \/ (scan[t] = Idle /\ Kept(t))
  <2>1. CASE t = s
    BY <1>3, <2>1, ResultWrites, SameEntriesSame DEF Kept
  <2> QED
    BY <1>3, <2>1, ResultWrites
<1>4. ASSUME NEW s \in Sessions, ScanSaved(s), t # s
      PROVE  session'[t] = session[t]
  BY <1>4 DEF ScanSaved, TypeInv, TypeOK
<1>5. ASSUME NEW s \in Sessions, SessionStep(s)
      PROVE  UNCHANGED session \/ PreLlmCall(s) \/ ScanSaved(s)
  BY <1>5 DEF SessionStep, PostApiRequest, ScanAnswered, ScanFailed, ScanRaised
<1>6. ASSUME NEW s \in Sessions, NEW i \in DOMAIN calls[s], CallStep(s, i)
      PROVE  UNCHANGED session \/ AnswerRecorded(s, i) \/ PostToolCall(s, i)
  BY <1>6 DEF CallStep, PreToolCall, AnswerPopped, AnswerUnjoined, AnswerRaised
<1>7. CASE Crash \/ RotateKey \/ UNCHANGED vars
  BY <1>7 DEF Crash, RotateKey, vars
<1>8. ASSUME NEW s \in Sessions, SessionStep(s)
      PROVE  session'[t] = session[t] \/ (scan[t] = Idle /\ Kept(t)) \/ ScanSaved(t)
  BY <1>1, <1>4, <1>5, <1>8
<1>9. ASSUME NEW s \in Sessions, NEW i \in DOMAIN calls[s], CallStep(s, i)
      PROVE  session'[t] = session[t] \/ (scan[t] = Idle /\ Kept(t))
  BY <1>2, <1>3, <1>6, <1>9
<1> QED
  BY <1>7, <1>8, <1>9 DEF Next

-----------------------------------------------------------------------------
(* What a scan concludes, whether it was answered or failed.               *)

(* The decision of a call that waits for its owner: not run, so far.        *)
Provisional == {"review_timed_out", "blocked_on_error"}

(* The decision recorded for a call says what becomes of it.                *)
Fits(directive, decision) ==
  /\ directive = "run" => decision \in Decisions \ NotRun
  /\ directive = "block" => decision \in NotRun
  /\ directive = "approve" => decision \in Provisional

LastOf(q) == q[Len(q)]

(* The file a scan is about to write, with e as its latest entry: a failure *)
(* leaves no fingerprint and no token, an answer both.                     *)
Outcome(s, sess, e) ==
  LET base == Numbered(session[s], calls[s][scan[s].call].host)
  IN  \/ e.fp = NoFp /\ sess = Unscanned(base, e)
      \/ /\ e.fp # NoFp /\ sess = Scanned(base, sess.token, e)
         /\ sess.token.sid = s /\ sess.token.step = session[s].next

Concluded(s, sess, e, d, rule, onError) ==
  /\ Conclude(s, sess, d, rule)
  /\ Ask(s, d, rule, scan[s].req.id, onError)
  /\ sess \in SessionFiles /\ e \in Entries /\ d \in {"run", "block", "approve"}
  /\ e = LastOf(sess.history) /\ Outcome(s, sess, e)
  /\ EntryOf(e, scan[s].req, calls[s][scan[s].call].host) /\ e.req = scan[s].req.id
  /\ Fits(d, e.decision)

LEMMA ScannedFits ==
  ASSUME NEW d \in {"run", "block", "approve"}
  PROVE  Fits(d, ScannedDecision[d]) /\ Fits(d, ErrorDecision[d])
  BY DEF Fits, ScannedDecision, ErrorDecision, Decisions, NotRun, Provisional

(* What the scan holds while it waits for the answer.                       *)
LEMMA SentFile ==
  ASSUME TypeInv, FlightInv, NEW s \in Sessions, scan[s].phase = "sent"
  PROVE  LET base == Numbered(session[s], calls[s][scan[s].call].host)
         IN  /\ scan[s].sess = base /\ base \in SessionFiles /\ base.history \in Seq(Entries)
             /\ base.history = session[s].history
             /\ scan[s] # Idle /\ scan[s] \in Sent
<1>1. scan[s] \in Sent /\ scan[s] # Idle
  BY PhaseTypes DEF TypeInv
<1>2. scan[s].sess \in SessionFiles
  BY <1>1 DEF Sent
<1>3. scan[s].sess = Numbered(session[s], calls[s][scan[s].call].host)
  BY <1>1 DEF FlightInv, Flight
<1>4. session[s] \in SessionFiles
  BY DEF TypeInv, TypeOK
<1> QED
  BY <1>1, <1>2, <1>3, <1>4, NumberedKeeps DEF SessionFiles

LEMMA AnsweredConcludes ==
  ASSUME TypeInv, FlightInv, NEW s \in Sessions, ScanAnswered(s)
  PROVE  \E sess, e, d, rule, onError : Concluded(s, sess, e, d, rule, onError)
<1> DEFINE req  == scan[s].req
           host == calls[s][scan[s].call].host
           fp   == FingerprintOf(calls[s][scan[s].call].action, ScannerState(s).salt)
           base == Numbered(session[s], host)
<1>1. PICK top \in {it.seq : it \in req.inputs} \cup {ScannerState(s).seq},
           learned \in SUBSET UNION {it.facts : it \in NewInputs(req, ScannerState(s))},
           risk \in Risks, enforced \in Verdicts, snoozed \in BOOLEAN :
        LET d == Directive(Decide(risk, enforced), s \in Unattended,
                          snoozed /\ SnoozeApplies(enforced))
        IN  /\ IsMaxSeq(top, req, ScannerState(s))
            /\ Conclude(s, Scanned(scan[s].sess, NextToken(s, top, learned),
                                   Entry(s, fp, ScannedDecision[d])),
                        d, RuleKey(fp, req.id))
            /\ Ask(s, d, RuleKey(fp, req.id), req.id, FALSE)
  BY DEF ScanAnswered
<1> DEFINE d == Directive(Decide(risk, enforced), s \in Unattended,
                      snoozed /\ SnoozeApplies(enforced))
           token == NextToken(s, top, learned)
           e == Entry(s, fp, ScannedDecision[d])
           sess == Scanned(scan[s].sess, token, e)
<1>2. scan[s].phase = "sent"
  BY DEF ScanAnswered
<1>3. /\ scan[s] \in Sent /\ scan[s] # Idle /\ scan[s].sess = base
      /\ base \in SessionFiles /\ base.history \in Seq(Entries)
  BY <1>2, SentFile
<1>4. ScannerState(s) \in SessionState
  BY <1>3, ScannerTypes DEF TypeInv
<1>5. calls[s][scan[s].call] \in HostCalls
  BY <1>3 DEF TypeInv, TypeOK, LockInv
<1>6. fp \in Fingerprints /\ fp # NoFp
  BY <1>4, <1>5, HostAssumption DEF FingerprintOf, Fingerprints, NoFp, HostCalls, SessionState
<1>7. d \in {"run", "block", "approve"}
  <2>1. (s \in Unattended) \in BOOLEAN /\ (snoozed /\ SnoozeApplies(enforced)) \in BOOLEAN
    OBVIOUS
  <2>2. Decide(risk, enforced) \in Verdicts
    BY DecideType
  <2> QED
    BY <2>1, <2>2, DirectiveType
<1>8. Succeeds(token, s) /\ top \in Nat
  BY <1>2, NextTokenSucceeds
<1>9. token \in Tokens
  <2>1. learned \subseteq Facts
    BY <1>3 DEF NewInputs, Inputs, Sent, Requests
  <2> QED
    BY <1>3, <1>8, <2>1, ScannerTypes DEF TypeInv
<1>10. Fits(d, ScannedDecision[d]) /\ ScannedDecision[d] \in Decisions
  BY <1>7, ScannedFits, DecisionsTypes
<1>11. Conclude(s, sess, d, RuleKey(fp, req.id)) /\ Ask(s, d, RuleKey(fp, req.id), req.id, FALSE)
  BY <1>1
<1> HIDE DEF fp, d, token
<1>12. e \in Entries /\ EntryOf(e, req, host)
  BY <1>3, <1>6, <1>10, EntryType, EntryIs
<1>13. e.fp = fp /\ e.req = req.id /\ e.decision = ScannedDecision[d]
  BY DEF Entry
<1> HIDE DEF e, base
<1>14. sess \in SessionFiles /\ sess.token = token /\ sess.history = Append(base.history, e)
  BY <1>3, <1>9, <1>12, ScannedType, ScannedKeeps
<1>15. e = LastOf(sess.history)
  BY <1>3, <1>12, <1>14, AppendFacts DEF LastOf
<1>16. sess = Scanned(base, sess.token, e)
  BY <1>3, <1>14
<1>17. sess.token.sid = s /\ sess.token.step = session[s].next
  BY <1>8, <1>14 DEF Succeeds
<1> HIDE DEF sess
<1>18. Outcome(s, sess, e)
  BY <1>6, <1>13, <1>16, <1>17 DEF Outcome, base
<1>19. Concluded(s, sess, e, d, RuleKey(fp, req.id), FALSE)
  BY <1>7, <1>10, <1>11, <1>12, <1>13, <1>14, <1>15, <1>18 DEF Concluded
<1> QED
  BY <1>19

LEMMA FailedConcludes ==
  ASSUME TypeInv, FlightInv, NEW s \in Sessions, ScanFailed(s)
  PROVE  \E sess, e, d, rule, onError : Concluded(s, sess, e, d, rule, onError)
<1> DEFINE req  == scan[s].req
           host == calls[s][scan[s].call].host
           base == Numbered(session[s], host)
<1>1. PICK kind \in FailureKinds :
        LET d == ErrorDirective(kind, s \in Unattended)
        IN  /\ Conclude(s, Unscanned(scan[s].sess, Entry(s, NoFp, ErrorDecision[d])),
                        d, RuleKey(NoFp, req.id))
            /\ Ask(s, d, RuleKey(NoFp, req.id), req.id, TRUE)
  BY DEF ScanFailed
<1> DEFINE d == ErrorDirective(kind, s \in Unattended)
           e == Entry(s, NoFp, ErrorDecision[d])
           sess == Unscanned(scan[s].sess, e)
<1>2. scan[s].phase = "sent"
  BY DEF ScanFailed
<1>3. /\ scan[s] \in Sent /\ scan[s] # Idle /\ scan[s].sess = base
      /\ base \in SessionFiles /\ base.history \in Seq(Entries)
  BY <1>2, SentFile
<1>4. d \in {"run", "block", "approve"}
  <2>1. (s \in Unattended) \in BOOLEAN
    OBVIOUS
  <2> QED
    BY <2>1, ErrorDirectiveType
<1>5. NoFp \in Fingerprints
  BY DEF NoFp, Fingerprints
<1>6. Fits(d, ErrorDecision[d]) /\ ErrorDecision[d] \in Decisions
  BY <1>4, ScannedFits, DecisionsTypes
<1>7. Conclude(s, sess, d, RuleKey(NoFp, req.id)) /\ Ask(s, d, RuleKey(NoFp, req.id), req.id, TRUE)
  BY <1>1
<1> HIDE DEF d
<1>8. e \in Entries /\ EntryOf(e, req, host)
  BY <1>3, <1>5, <1>6, EntryType, EntryIs
<1>9. e.fp = NoFp /\ e.req = req.id /\ e.decision = ErrorDecision[d]
  BY DEF Entry
<1> HIDE DEF e, base
<1>10. sess \in SessionFiles /\ sess.history = Append(base.history, e)
  BY <1>3, <1>8, UnscannedType, UnscannedKeeps
<1>11. e = LastOf(sess.history)
  BY <1>3, <1>8, <1>10, AppendFacts DEF LastOf
<1>12. sess = Unscanned(base, e)
  BY <1>3
<1> HIDE DEF sess
<1>13. Outcome(s, sess, e)
  BY <1>9, <1>12 DEF Outcome, base
<1>14. Concluded(s, sess, e, d, RuleKey(NoFp, req.id), TRUE)
  BY <1>4, <1>6, <1>7, <1>8, <1>9, <1>10, <1>11, <1>13 DEF Concluded
<1> QED
  BY <1>14

-----------------------------------------------------------------------------
(* The scan in flight, continued: what it sends is read from the file that  *)
(* nothing changes under it, and what it is about to write is that file     *)
(* with the entry of the call.                                             *)
InFlight(s) ==
  LET req == scan[s].req
      e   == LastOf(scan[s].sess.history)
  IN  scan[s] # Idle =>
        /\ req.history = Newest(session[s].history, HistoryLimit)
        /\ req.inputs = SentInputs(session[s])
        /\ scan[s].phase = "decided" =>
             /\ Outcome(s, scan[s].sess, e)
             /\ e.req = req.id /\ Fits(scan[s].directive, e.decision)

AllInFlight == \A s \in Sessions : InFlight(s)

(* The hooks that run when a call is not being scanned leave every other    *)
(* call and every scan alone.                                              *)
LEMMA CallChanges ==
  ASSUME TypeInv, NEW s \in Sessions, NEW i \in DOMAIN calls[s],
         \/ AnswerPopped(s, i) \/ AnswerUnjoined(s, i)
         \/ AnswerRecorded(s, i) \/ AnswerRaised(s, i) \/ PostToolCall(s, i)
  PROVE  /\ UNCHANGED <<scan, key, nextReq, used>>
         /\ \A t \in Sessions : DOMAIN calls'[t] = DOMAIN calls[t]
         /\ \A t \in Sessions : \A j \in DOMAIN calls[t] :
              t # s \/ j # i => calls'[t][j] = calls[t][j]
         /\ calls'[s][i].host = calls[s][i].host /\ calls'[s][i].req = calls[s][i].req
         /\ calls'[s][i].st \notin {"new", "scanning"}
         /\ calls[s][i].st \notin {"new", "scanning"}
<1> DEFINE c == calls[s][i]
<1>1. c \in HostCalls /\ calls[s] \in Seq(HostCalls) /\ calls \in [Sessions -> Seq(HostCalls)]
  BY DEF TypeInv, TypeOK
<1>2. UNCHANGED <<scan, key, nextReq, used>> /\ c.st \notin {"new", "scanning"}
  BY DEF AnswerPopped, AnswerUnjoined, AnswerRecorded, AnswerRaised, PostToolCall
<1>3. \E d : SetCall(s, i, d) /\ d.host = c.host /\ d.req = c.req /\ d.st \notin {"new", "scanning"}
  <2>1. \A st, answer :
          /\ [c EXCEPT !.st = st].host = c.host /\ [c EXCEPT !.st = st].req = c.req
          /\ [c EXCEPT !.st = st].st = st
          /\ [c EXCEPT !.st = st, !.answer = answer].host = c.host
          /\ [c EXCEPT !.st = st, !.answer = answer].req = c.req
          /\ [c EXCEPT !.st = st, !.answer = answer].st = st
    BY <1>1 DEF HostCalls
  <2>2. \A choice : ChoiceState(choice) \notin {"new", "scanning"}
    BY DEF ChoiceState
  <2> HIDE DEF c
  <2>3. CASE AnswerPopped(s, i)
    <3>1. PICK answer : SetCall(s, i, [c EXCEPT !.st = "answering", !.answer = answer])
      BY <2>3 DEF AnswerPopped, c
    <3> DEFINE d == [c EXCEPT !.st = "answering", !.answer = answer]
    <3>2. SetCall(s, i, d) /\ d.host = c.host /\ d.req = c.req /\ d.st = "answering"
      BY <2>1, <3>1
    <3> HIDE DEF d
    <3> QED
      BY <3>2
  <2>4. CASE AnswerUnjoined(s, i)
    <3>1. PICK choice : SetCall(s, i, [c EXCEPT !.st = ChoiceState(choice)])
      BY <2>4 DEF AnswerUnjoined, c
    <3> DEFINE d == [c EXCEPT !.st = ChoiceState(choice)]
    <3>2. SetCall(s, i, d) /\ d.host = c.host /\ d.req = c.req /\ d.st = ChoiceState(choice)
      BY <2>1, <3>1
    <3> HIDE DEF d
    <3> QED
      BY <2>2, <3>2
  <2>5. CASE AnswerRecorded(s, i) \/ AnswerRaised(s, i)
    <3> DEFINE d == [c EXCEPT !.st = ChoiceState(c.answer.choice), !.answer = None]
    <3>1. SetCall(s, i, d)
      BY <2>5 DEF AnswerRecorded, AnswerRaised, c
    <3>2. d.host = c.host /\ d.req = c.req /\ d.st = ChoiceState(c.answer.choice)
      BY <2>1
    <3> HIDE DEF d
    <3> QED
      BY <2>2, <3>1, <3>2
  <2>6. CASE PostToolCall(s, i)
    <3> DEFINE d == [c EXCEPT !.st = "done"]
    <3>1. SetCall(s, i, d) /\ d.host = c.host /\ d.req = c.req /\ d.st = "done"
      BY <2>1, <2>6 DEF PostToolCall, c
    <3> HIDE DEF d
    <3> QED
      BY <3>1
  <2> QED
    BY <2>3, <2>4, <2>5, <2>6
<1>4. PICK d : SetCall(s, i, d) /\ d.host = c.host /\ d.req = c.req /\ d.st \notin {"new", "scanning"}
  BY <1>3
<1>5. /\ \A t \in Sessions \ {s} : calls'[t] = calls[t]
      /\ calls'[s] = [calls[s] EXCEPT ![i] = d]
  BY <1>1, <1>4 DEF SetCall
<1>6. /\ DOMAIN calls'[s] = DOMAIN calls[s] /\ calls'[s][i] = d
      /\ \A j \in DOMAIN calls[s] : j # i => calls'[s][j] = calls[s][j]
  BY <1>5
<1> QED
  BY <1>2, <1>4, <1>5, <1>6

(* A scan goes on while its file and its call stand still, is concluded,    *)
(* ends, or is begun.                                                      *)
LEMMA ScanMoves ==
  ASSUME TypeInv, AllTrimmed, [Next]_vars, NEW t \in Sessions
  PROVE  \/ scan'[t] = Idle
         \/ /\ scan[t] # Idle /\ scan'[t] = scan[t] /\ session'[t] = session[t]
            /\ calls'[t][scan[t].call] = calls[t][scan[t].call]
         \/ \E i \in DOMAIN calls[t] : PreToolCall(t, i)
         \/ ScanAnswered(t) \/ ScanFailed(t)
<1> DEFINE Goes == /\ scan[t] # Idle /\ scan'[t] = scan[t] /\ session'[t] = session[t]
                   /\ calls'[t][scan[t].call] = calls[t][scan[t].call]
<1>1. /\ scan \in [Sessions -> {Idle} \cup Sent \cup Decided] /\ calls \in [Sessions -> Seq(HostCalls)]
      /\ scan[t] # Idle => scan[t].call \in DOMAIN calls[t] /\ calls[t][scan[t].call].st = "scanning"
  BY DEF TypeInv, TypeOK, LockInv
<1>2. ASSUME NEW s \in Sessions, SessionStep(s), ~ScanAnswered(t), ~ScanFailed(t)
      PROVE  scan'[t] = Idle \/ Goes
  <2>1. CASE PreLlmCall(s)
    <3>1. UNCHANGED scan /\ scan[s] = Idle
      BY <2>1, TurnWrites DEF PreLlmCall
    <3>2. CASE t # s
      <4>1. session'[t] = session[t] /\ calls'[t] = calls[t]
        BY <1>1, <2>1, <3>2, TurnWrites DEF PreLlmCall
      <4> QED
        BY <3>1, <4>1
    <3> QED
      BY <3>1, <3>2
  <2>2. CASE PostApiRequest(s)
    <3>1. UNCHANGED <<scan, session>>
      BY <2>2 DEF PostApiRequest
    <3>2. t # s => calls'[t] = calls[t]
      BY <1>1, <2>2 DEF PostApiRequest
    <3>3. t = s => scan[t] = Idle
      BY <1>1, <2>2 DEF PostApiRequest, Over
    <3> QED
      BY <3>1, <3>2, <3>3
  <2>3. CASE ScanAnswered(s) \/ ScanFailed(s)
    <3>1. t # s
      BY <1>2, <2>3
    <3>2. scan'[t] = scan[t]
      BY <1>1, <2>3, <3>1 DEF ScanAnswered, ScanFailed, Conclude
    <3>3. UNCHANGED <<session, calls>>
      BY <2>3 DEF ScanAnswered, ScanFailed
    <3> QED
      BY <3>2, <3>3
  <2>4. CASE ScanSaved(s) \/ ScanRaised(s)
    <3>1. CASE t = s
      BY <1>1, <2>4, <3>1 DEF ScanSaved, ScanRaised
    <3>2. CASE t # s
      <4>1. scan'[t] = scan[t] /\ calls'[t] = calls[t] /\ session'[t] = session[t]
        BY <1>1, <2>4, <3>2 DEF ScanSaved, ScanRaised, SetCall, TypeInv, TypeOK
      <4> QED
        BY <4>1
    <3> QED
      BY <3>1, <3>2
  <2> QED
    BY <1>2, <2>1, <2>2, <2>3, <2>4 DEF SessionStep
<1>3. ASSUME NEW s \in Sessions, NEW i \in DOMAIN calls[s], PreToolCall(s, i), t # s
      PROVE  scan'[t] = Idle \/ Goes
  <2>1. UNCHANGED session /\ scan'[t] = scan[t] /\ calls'[t] = calls[t]
    BY <1>1, <1>3 DEF PreToolCall, SetCall
  <2> QED
    BY <2>1
<1>4. ASSUME NEW s \in Sessions, NEW i \in DOMAIN calls[s], CallStep(s, i), ~PreToolCall(s, i)
      PROVE  scan'[t] = Idle \/ Goes
  <2>1. \/ AnswerPopped(s, i) \/ AnswerUnjoined(s, i)
        \/ AnswerRecorded(s, i) \/ AnswerRaised(s, i) \/ PostToolCall(s, i)
    BY <1>4 DEF CallStep
  <2>2. UNCHANGED scan
    BY <2>1, CallChanges
  <2>3. scan[t] # Idle => calls'[t][scan[t].call] = calls[t][scan[t].call]
    BY <1>1, <2>1, CallChanges
  <2>4. [Next]_vars
    OBVIOUS
  <2>5. ~ScanSaved(t) \/ scan'[t] = Idle
    BY <1>1 DEF ScanSaved
  <2>6. scan[t] # Idle => session'[t] = session[t] \/ ScanSaved(t)
    BY <2>4, FileMoves
  <2> QED
    BY <2>2, <2>3, <2>5, <2>6
<1>5. CASE Crash
  BY <1>5 DEF Crash
<1>6. CASE RotateKey \/ UNCHANGED vars
  BY <1>6 DEF RotateKey, vars
<1> QED
  BY <1>2, <1>3, <1>4, <1>5, <1>6 DEF Next

(* The write at the end of a scan, in terms of the entry it adds.           *)
LEMMA SavedAdds ==
  ASSUME TypeInv, FlightInv, AllInFlight, NEW s \in Sessions, ScanSaved(s)
  PROVE  LET e    == LastOf(scan[s].sess.history)
             host == calls[s][scan[s].call].host
             old  == session[s]
         IN  /\ scan[s] # Idle /\ scan[s].phase = "decided" /\ scan'[s] = Idle
             /\ \A t \in Sessions \ {s} : session'[t] = session[t]
             /\ e \in Entries /\ EntryOf(e, scan[s].req, host)
             /\ session'[s].history = Newest(Append(old.history, e), 2 * HistoryLimit)
             /\ host = None => session'[s].seen = Newest(old.seen, SeenKeep)
             /\ host # None => session'[s].seen = Newest(Append(old.seen, host), SeenKeep)
             /\ session'[s].next = old.next + 1 /\ session'[s].turn = old.turn
             /\ e.fp = NoFp => /\ session'[s].token = old.token
                               /\ session'[s].buffer = old.buffer
             /\ e.fp # NoFp => /\ session'[s].token.sid = s
                               /\ session'[s].token.step = old.next
<1> DEFINE sess == scan[s].sess
           e    == LastOf(sess.history)
           host == calls[s][scan[s].call].host
           old  == session[s]
           base == Numbered(old, host)
<1>1. scan[s] \in Decided /\ scan[s] # Idle /\ scan[s].phase = "decided"
  BY PhaseTypes DEF ScanSaved, TypeInv
<1>2. old \in SessionFiles /\ sess \in SessionFiles
  BY <1>1 DEF TypeInv, TypeOK, Decided
<1>3. sess.history # <<>> /\ EntryOf(e, scan[s].req, host)
  BY <1>1 DEF FlightInv, Flight, LastOf
<1>4. e \in Entries
  BY <1>2, <1>3 DEF LastOf, SessionFiles
<1>5. Outcome(s, sess, e)
  BY <1>1 DEF AllInFlight, InFlight
<1>6. host \in HostIds \cup {None}
  <2>1. calls[s][scan[s].call] \in HostCalls
    BY <1>1 DEF TypeInv, TypeOK, LockInv
  <2> QED
    BY <2>1 DEF HostCalls
<1>7. base \in SessionFiles
  BY <1>2, <1>6, NumberedType
<1>8. /\ base.next = old.next + 1 /\ base.turn = old.turn /\ base.token = old.token
      /\ base.buffer = old.buffer /\ base.history = old.history
      /\ host = None => base.seen = old.seen
      /\ host # None => base.seen = Append(old.seen, host)
  BY <1>2, NumberedKeeps
<1>9. /\ \A t \in Sessions \ {s} : session'[t] = session[t]
      /\ session'[s] = Saved(sess) /\ scan'[s] = Idle
  BY DEF ScanSaved, TypeInv, TypeOK
<1>10. \/ e.fp = NoFp /\ sess = Unscanned(base, e)
       \/ /\ e.fp # NoFp /\ sess = Scanned(base, sess.token, e)
          /\ sess.token.sid = s /\ sess.token.step = old.next
  BY <1>5 DEF Outcome
<1> HIDE DEF sess, base, e, host, old
<1>11. /\ session'[s].next = sess.next /\ session'[s].turn = sess.turn
       /\ session'[s].token = sess.token /\ session'[s].buffer = sess.buffer
       /\ session'[s].history = Newest(sess.history, 2 * HistoryLimit)
       /\ session'[s].seen = Newest(sess.seen, SeenKeep)
  BY <1>2, <1>9, SavedKeeps
<1>12. /\ sess.next = base.next /\ sess.turn = base.turn /\ sess.seen = base.seen
       /\ sess.history = Append(base.history, e)
       /\ e.fp = NoFp => sess.token = base.token /\ sess.buffer = base.buffer
  BY <1>7, <1>10, UnscannedKeeps, ScannedKeeps
<1> QED
  BY <1>1, <1>3, <1>4, <1>8, <1>9, <1>10, <1>11, <1>12 DEF sess, e, host, old

LEMMA InFlightInit == Init => AllInFlight
  BY DEF Init, AllInFlight, InFlight

LEMMA InFlightStep ==
  ASSUME TypeInv, FlightInv, AllTrimmed, AllInFlight, [Next]_vars
  PROVE  AllInFlight'
<1> SUFFICES ASSUME NEW t \in Sessions PROVE InFlight(t)'
  BY DEF AllInFlight
<1>1. CASE scan'[t] = Idle
  BY <1>1 DEF InFlight
<1>2. CASE /\ scan[t] # Idle /\ scan'[t] = scan[t] /\ session'[t] = session[t]
           /\ calls'[t][scan[t].call] = calls[t][scan[t].call]
  <2>1. InFlight(t)
    BY DEF AllInFlight
  <2>2. \A sess, e : Outcome(t, sess, e) => Outcome(t, sess, e)'
    BY <1>2 DEF Outcome
  <2> QED
    BY <1>2, <2>1, <2>2 DEF InFlight
<1>3. ASSUME NEW i \in DOMAIN calls[t], PreToolCall(t, i)
      PROVE  InFlight(t)'
  <2> DEFINE host == calls[t][i].host
             new  == [phase |-> "sent", call |-> i, sess |-> Numbered(session[t], host),
                      req |-> Request(session[t], calls[t], host, nextReq)]
  <2>1. scan'[t] = new /\ UNCHANGED session
    BY <1>3 DEF PreToolCall, TypeInv, TypeOK
  <2>2. /\ new.phase = "sent" /\ new.req.inputs = SentInputs(session[t])
        /\ new.req.history = Newest(session[t].history, HistoryLimit)
    BY DEF Request
  <2> HIDE DEF new
  <2> QED
    BY <2>1, <2>2 DEF InFlight
<1>4. CASE ScanAnswered(t) \/ ScanFailed(t)
  <2>1. PICK sess, e, d, rule, onError : Concluded(t, sess, e, d, rule, onError)
    BY <1>4, AnsweredConcludes, FailedConcludes
  <2> DEFINE new == [phase |-> "decided", call |-> scan[t].call, sess |-> sess,
                     req |-> scan[t].req, directive |-> d, rule |-> rule]
  <2>2. scan'[t] = new
    BY <2>1 DEF Concluded, Conclude, TypeInv, TypeOK
  <2>3. /\ new.phase = "decided" /\ new.call = scan[t].call /\ new.sess = sess
        /\ new.req = scan[t].req /\ new.directive = d
    OBVIOUS
  <2> HIDE DEF new
  <2>4. scan[t] # Idle /\ UNCHANGED <<session, calls>>
    BY <1>4, PhaseTypes DEF ScanAnswered, ScanFailed, TypeInv
  <2>5. Outcome(t, sess, e) => Outcome(t, sess, e)'
    BY <2>2, <2>3, <2>4 DEF Outcome
  <2>6. InFlight(t)
    BY DEF AllInFlight
  <2> QED
    BY <2>1, <2>2, <2>3, <2>4, <2>5, <2>6 DEF InFlight, Concluded
<1> QED
  BY <1>1, <1>2, <1>3, <1>4, ScanMoves

-----------------------------------------------------------------------------
(* The history and the token of a file.  The steps of a history are the     *)
(* latest ones without a gap, whatever save_session dropped at the front,   *)
(* and the stored token belongs to the latest step exactly if that step was *)
(* answered, which its fingerprint shows.                                  *)
StepsInv(s) ==
  LET q    == session[s].history
      next == session[s].next
  IN  /\ q = <<>> => next = 1
      /\ \A i \in 1..Len(q) : q[i].step + (Len(q) - i) + 1 = next

TokenInv(s) ==
  LET q     == session[s].history
      token == session[s].token
      next  == session[s].next
  IN  /\ token = NoToken \/ token.sid = s
      /\ q # <<>> /\ LastOf(q).fp = NoFp => token = NoToken \/ token.step + 1 < next
      /\ q # <<>> /\ LastOf(q).fp # NoFp => token # NoToken /\ token.step + 1 = next

FileInv == AllTrimmed /\ \A s \in Sessions : StepsInv(s) /\ TokenInv(s)

(* A history after one more entry.                                         *)
WithEntry(q, e, n) == Newest(Append(q, e), n)

(* p is q with e at its end and all but the latest n elements dropped.      *)
Slides(p, q, e, n) ==
  /\ p # <<>> /\ p[Len(p)] = e
  /\ Len(p) = IF Len(q) >= n THEN n ELSE Len(q) + 1
  /\ \E drop \in Nat :
       /\ drop = Len(q) + 1 - Len(p)
       /\ \A i \in 1..(Len(p) - 1) : i + drop \in 1..Len(q) /\ p[i] = q[i + drop]

LEMMA AppendedNewest ==
  ASSUME NEW S, NEW q \in Seq(S), NEW e \in S, NEW n \in Nat, n > 0
  PROVE  WithEntry(q, e, n) \in Seq(S) /\ Slides(WithEntry(q, e, n), q, e, n)
<1> DEFINE r    == Append(q, e)
           p    == Newest(r, n)
           drop == Len(q) + 1 - Len(p)
<1>1. /\ r \in Seq(S) /\ Len(r) = Len(q) + 1 /\ Len(q) \in Nat
      /\ \A i \in 1..Len(q) : r[i] = q[i]
      /\ r[Len(q) + 1] = e
  BY AppendFacts
<1> HIDE DEF r
<1>2. /\ p \in Seq(S)
      /\ Len(p) = IF Len(r) > n THEN n ELSE Len(r)
      /\ \A i \in 1..Len(p) : p[i] = r[i + Len(r) - Len(p)]
  BY <1>1, NewestFacts
<1> HIDE DEF p
<1>3. /\ Len(p) \in Nat \ {0} /\ Len(p) <= Len(q) + 1 /\ p # <<>> /\ drop \in Nat
      /\ Len(p) = IF Len(q) >= n THEN n ELSE Len(q) + 1
  BY <1>1, <1>2
<1>4. p[Len(p)] = e
  <2>1. Len(p) \in 1..Len(p) /\ Len(p) + Len(r) - Len(p) = Len(q) + 1
    BY <1>1, <1>3
  <2> QED
    BY <1>1, <1>2, <2>1
<1>5. ASSUME NEW i \in 1..(Len(p) - 1)
      PROVE  i + drop \in 1..Len(q) /\ p[i] = q[i + drop]
  <2>1. i + drop \in 1..Len(q) /\ i \in 1..Len(p) /\ i + drop = i + Len(r) - Len(p)
    BY <1>1, <1>3
  <2> HIDE DEF drop
  <2> QED
    BY <1>1, <1>2, <2>1
<1> QED
  BY <1>1, <1>2, <1>3, <1>4, <1>5 DEF p, r, WithEntry, Slides

LEMMA FileInit == Init => FileInv
<1> SUFFICES ASSUME Init, NEW s \in Sessions
             PROVE  Trimmed(s) /\ StepsInv(s) /\ TokenInv(s)
  BY DEF FileInv, AllTrimmed
<1>1. session[s].history = <<>> /\ session[s].seen = <<>> /\ session[s].next = 1
      /\ session[s].token = NoToken
  BY DEF Init, EmptySession
<1>2. Trimmed(s)
  BY <1>1, LimitAssumption DEF Trimmed
<1> QED
  BY <1>1, <1>2 DEF StepsInv, TokenInv

(* A file in which at most decisions changed.                               *)
LEMMA KeptFile ==
  ASSUME TypeInv, TypeInv', FileInv, NEW t \in Sessions, Kept(t)
  PROVE  Trimmed(t)' /\ StepsInv(t)' /\ TokenInv(t)'
<1> DEFINE q == session[t].history
           p == session'[t].history
<1>1. /\ q \in Seq(Entries) /\ p \in Seq(Entries)
      /\ Len(p) = Len(q) /\ \A i \in 1..Len(q) : p[i].step = q[i].step /\ p[i].fp = q[i].fp
  BY DEF TypeInv, TypeOK, SessionFiles, Kept, SameEntries, SameEntry
<1>2. /\ session'[t].next = session[t].next /\ session'[t].token = session[t].token
      /\ session'[t].seen = session[t].seen
  BY DEF Kept
<1>3. Trimmed(t) /\ StepsInv(t) /\ TokenInv(t)
  BY DEF FileInv, AllTrimmed
<1>4. p = <<>> <=> q = <<>>
  BY <1>1
<1>5. q # <<>> => LastOf(p).fp = LastOf(q).fp
  BY <1>1 DEF LastOf
<1> HIDE DEF p, q
<1>6. Trimmed(t)'
  BY <1>1, <1>2, <1>3 DEF Trimmed, p, q
<1>7. StepsInv(t)'
  BY <1>1, <1>2, <1>3, <1>4 DEF StepsInv, p, q
<1>8. TokenInv(t)'
  BY <1>2, <1>3, <1>4, <1>5 DEF TokenInv, p, q
<1> QED
  BY <1>6, <1>7, <1>8

LEMMA SavedFile ==
  ASSUME TypeInv, TypeInv', FlightInv, AllInFlight, FileInv, NEW t \in Sessions, ScanSaved(t)
  PROVE  Trimmed(t)' /\ StepsInv(t)' /\ TokenInv(t)'
<1> DEFINE q == session[t].history
           p == session'[t].history
           e == LastOf(scan[t].sess.history)
           old == session[t].token
           new == session'[t].token
           next == session[t].next
<1>1. /\ q \in Seq(Entries) /\ e \in Entries /\ next \in Nat
      /\ old \in Tokens /\ new \in Tokens
      /\ session[t].seen \in Seq(HostIds) /\ session'[t].seen \in Seq(HostIds)
  <2>1. session[t] \in SessionFiles /\ session'[t] \in SessionFiles
    BY DEF TypeInv, TypeOK
  <2>2. e \in Entries
    BY SavedAdds
  <2> HIDE DEF e
  <2> QED
    BY <2>1, <2>2 DEF SessionFiles
<1>2. /\ p = Newest(Append(q, e), 2 * HistoryLimit) /\ session'[t].next = next + 1
      /\ e.step = next /\ scan[t] # Idle
  <2>1. /\ p = Newest(Append(q, e), 2 * HistoryLimit) /\ session'[t].next = next + 1
        /\ scan[t] # Idle /\ EntryOf(e, scan[t].req, calls[t][scan[t].call].host)
    BY SavedAdds
  <2>2. scan[t].req.step = next
    BY <2>1 DEF FlightInv, Flight
  <2> HIDE DEF p, q, e, next
  <2> QED
    BY <2>1, <2>2 DEF EntryOf
<1>3. 2 * HistoryLimit \in Nat \ {0} /\ SeenKeep \in Nat
  BY LimitAssumption
<1>4. PICK drop \in Nat :
      /\ p \in Seq(Entries) /\ p # <<>> /\ drop = Len(q) + 1 - Len(p)
      /\ Len(p) = IF Len(q) >= 2 * HistoryLimit THEN 2 * HistoryLimit ELSE Len(q) + 1
      /\ p[Len(p)] = e
      /\ \A i \in 1..(Len(p) - 1) : i + drop \in 1..Len(q) /\ p[i] = q[i + drop]
  <2> DEFINE n == 2 * HistoryLimit
  <2>1. n \in Nat /\ n > 0 /\ p = WithEntry(q, e, n)
    BY <1>2, <1>3 DEF WithEntry
  <2> HIDE DEF n, p, q, e
  <2>2. p \in Seq(Entries) /\ Slides(p, q, e, n)
    BY <1>1, <2>1, AppendedNewest
  <2> QED
    BY <2>2 DEF n, Slides
<1>5. Len(session'[t].seen) <= SeenKeep
  <2> DEFINE host == calls[t][scan[t].call].host
  <2>1. host = None => session'[t].seen = Newest(session[t].seen, SeenKeep)
    BY SavedAdds
  <2>2. host # None => session'[t].seen = Newest(Append(session[t].seen, host), SeenKeep)
    BY SavedAdds
  <2>3. host \in HostIds \cup {None}
    <3>1. calls[t][scan[t].call] \in HostCalls
      BY <1>2 DEF TypeInv, TypeOK, LockInv
    <3> QED
      BY <3>1 DEF HostCalls
  <2> HIDE DEF host
  <2>4. \A r \in Seq(HostIds) : Len(Newest(r, SeenKeep)) <= SeenKeep
    BY <1>3, NewestFacts
  <2>5. host # None => Append(session[t].seen, host) \in Seq(HostIds)
    BY <1>1, <2>3
  <2> QED
    BY <1>1, <2>1, <2>2, <2>4, <2>5
<1>6. Trimmed(t) /\ StepsInv(t) /\ TokenInv(t)
  BY DEF FileInv, AllTrimmed
<1>7. Trimmed(t)'
  BY <1>3, <1>4, <1>5 DEF Trimmed
<1>8. StepsInv(t)'
  <2>1. \A i \in 1..Len(q) : q[i].step + (Len(q) - i) + 1 = next
    BY <1>6 DEF StepsInv
  <2>2. ASSUME NEW i \in 1..Len(p)
        PROVE  p[i].step + (Len(p) - i) + 1 = next + 1
    <3>1. CASE i = Len(p)
      BY <1>1, <1>2, <1>4, <3>1
    <3>2. CASE i # Len(p)
      <4>1. drop = Len(q) + 1 - Len(p) /\ Len(p) \in Nat /\ Len(q) \in Nat
        BY <1>1, <1>4
      <4> HIDE DEF p, q
      <4>2. i \in 1..(Len(p) - 1) /\ Len(q) - (i + drop) + 1 = Len(p) - i
        BY <3>2, <4>1
      <4>3. i + drop \in 1..Len(q) /\ p[i] = q[i + drop]
        BY <1>4, <4>2
      <4>4. q[i + drop].step \in Nat /\ q[i + drop].step + (Len(q) - (i + drop)) + 1 = next
        <5>1. q[i + drop] \in Entries
          BY <1>1, <4>3
        <5> QED
          BY <2>1, <4>3, <5>1 DEF Entries
      <4>5. next \in Nat /\ Len(p) - i \in Int /\ Len(q) - (i + drop) \in Int
        BY <1>1, <4>1
      <4> DEFINE step == q[i + drop].step
                 after == Len(q) - (i + drop)
                 left == Len(p) - i
      <4>6. p[i].step = step
        BY <4>3
      <4>7. after + 1 = left /\ step + after + 1 = next
        BY <4>2, <4>4
      <4>8. step \in Nat /\ after \in Int /\ left \in Int
        BY <4>4, <4>5
      <4> HIDE DEF next, step, after, left
      <4>9. step + left + 1 = next + 1
        BY <4>5, <4>7, <4>8
      <4> QED
        BY <4>6, <4>9 DEF left
    <3> QED
      BY <3>1, <3>2
  <2> QED
    BY <1>2, <1>4, <2>2 DEF StepsInv
<1>9. TokenInv(t)'
  <2>1. LastOf(p) = e
    BY <1>4 DEF LastOf
  <2>2. e.fp = NoFp => new = old
    BY SavedAdds
  <2>3. e.fp # NoFp => new.sid = t /\ new.step = next
    BY SavedAdds
  <2>4. old.step < next /\ (old = NoToken \/ old.sid = t)
    BY <1>6 DEF FlightInv, SeqInv, TokenInv
  <2>5. \A token : token.sid = t => token # NoToken
    BY NoneAssumption DEF NoToken
  <2>6. old.step \in Nat /\ new.step \in Nat
    BY <1>1 DEF Tokens
  <2> HIDE DEF p, e, old, new, next
  <2>7. /\ new = NoToken \/ new.sid = t
        /\ LastOf(p).fp = NoFp => new = NoToken \/ new.step + 1 < next + 1
        /\ LastOf(p).fp # NoFp => new # NoToken /\ new.step + 1 = next + 1
    <3>1. next \in Nat
      BY <1>1
    <3>2. new = NoToken \/ new.sid = t
      BY <2>2, <2>3, <2>4
    <3>3. e.fp = NoFp => new = NoToken \/ new.step + 1 < next + 1
      BY <2>2, <2>4, <2>6, <3>1
    <3>4. e.fp # NoFp => new # NoToken /\ new.step + 1 = next + 1
      BY <2>3, <2>5
    <3> QED
      BY <2>1, <3>2, <3>3, <3>4
  <2> QED
    BY <1>2, <1>4, <2>7 DEF TokenInv, p, new
<1> QED
  BY <1>7, <1>8, <1>9

LEMMA FileStep ==
  ASSUME TypeInv, FlightInv, AllInFlight, FileInv, [Next]_vars
  PROVE  FileInv'
<1>1. AllTrimmed /\ TypeInv'
  BY TypeStep DEF FileInv
<1> SUFFICES ASSUME NEW t \in Sessions
             PROVE  Trimmed(t)' /\ StepsInv(t)' /\ TokenInv(t)'
  BY DEF FileInv, AllTrimmed
<1>2. CASE session'[t] = session[t]
  <2>1. Trimmed(t) /\ StepsInv(t) /\ TokenInv(t)
    BY DEF FileInv, AllTrimmed
  <2> QED
    BY <1>2, <2>1 DEF Trimmed, StepsInv, TokenInv
<1>3. CASE Kept(t)
  BY <1>1, <1>3, KeptFile
<1>4. CASE ScanSaved(t)
  BY <1>1, <1>4, SavedFile
<1> QED
  BY <1>1, <1>2, <1>3, <1>4, FileMoves

(* What a session file and the scan of it agree on.                         *)
RecordInv == TypeInv /\ FlightInv /\ AllInFlight /\ FileInv

LEMMA RecordInit == Init => RecordInv
  BY TypeInit, FlightInit, InFlightInit, FileInit DEF RecordInv

LEMMA RecordStep == RecordInv /\ [Next]_vars => RecordInv'
  BY TypeStep, FlightStep, InFlightStep, FileStep DEF RecordInv, FileInv

(* The scanner starts over only when no scan was answered yet, when the     *)
(* last one failed or when the key changed: the stored token is that of the *)
(* latest step exactly if that step was answered.                          *)
THEOREM StatusExplained == Spec => []TokenStatusExplained
<1>1. RecordInv => TokenStatusExplained
  <2> SUFFICES ASSUME RecordInv, NEW s \in Sessions
               PROVE  LET q       == session[s].history
                          status  == TokenStatus(session[s].token, s, key, session[s].next - 1)
                          scanned == q # <<>> /\ q[Len(q)].fp # NoFp
                      IN  /\ status # "mismatch"
                          /\ status = "first_step" <=> q = <<>>
                          /\ status = "valid" => scanned
                          /\ status \in {"missing", "stale"} => ~scanned
    BY DEF TokenStatusExplained
  <2> DEFINE q     == session[s].history
             token == session[s].token
             next  == session[s].next
             last  == next - 1
             status == TokenStatus(token, s, key, last)
  <2>1. token \in Tokens /\ next \in Nat /\ token.step \in Nat
    BY DEF RecordInv, TypeInv, TypeOK, SessionFiles, Tokens
  <2>2. /\ token = NoToken \/ token.sid = s
        /\ q # <<>> /\ q[Len(q)].fp = NoFp => token = NoToken \/ token.step + 1 < next
        /\ q # <<>> /\ q[Len(q)].fp # NoFp => token # NoToken /\ token.step + 1 = next
    BY DEF RecordInv, FileInv, TokenInv, LastOf
  <2>3. (q = <<>> <=> next = 1) /\ (q = <<>> => token = NoToken) /\ token.step < next
    BY DEF RecordInv, FileInv, StepsInv, FlightInv, SeqInv
  <2>4. /\ token = NoToken /\ last = 0 => status = "first_step"
        /\ token = NoToken /\ last # 0 => status = "missing"
        /\ token # NoToken /\ token.key # key => status = "invalid"
        /\ token # NoToken /\ token.key = key /\ token.sid # s => status = "mismatch"
        /\ token # NoToken /\ token.key = key /\ token.sid = s /\ token.step # last => status = "stale"
        /\ token # NoToken /\ token.key = key /\ token.sid = s /\ token.step = last => status = "valid"
    BY DEF TokenStatus
  <2> HIDE DEF q, token, next, status
  <2>5. /\ status # "mismatch"
        /\ status = "first_step" <=> q = <<>>
        /\ status = "valid" => q # <<>> /\ q[Len(q)].fp # NoFp
        /\ status \in {"missing", "stale"} => ~(q # <<>> /\ q[Len(q)].fp # NoFp)
    BY <2>1, <2>2, <2>3, <2>4
  <2> QED
    BY <2>5 DEF q, token, next, status
<1> QED
  BY <1>1, RecordInit, RecordStep, PTL DEF Spec

(* What the end of a scan leaves in the history.                            *)
LEMMA SavedSlides ==
  ASSUME TypeInv, FlightInv, AllInFlight, NEW s \in Sessions, ScanSaved(s)
  PROVE  /\ session'[s].history \in Seq(Entries)
         /\ Slides(session'[s].history, session[s].history,
                   LastOf(scan[s].sess.history), 2 * HistoryLimit)
<1> DEFINE q == session[s].history
           p == session'[s].history
           e == LastOf(scan[s].sess.history)
           n == 2 * HistoryLimit
<1>1. q \in Seq(Entries) /\ e \in Entries
  BY SavedAdds DEF TypeInv, TypeOK, SessionFiles
<1>2. n \in Nat /\ n > 0
  BY LimitAssumption
<1>3. p = WithEntry(q, e, n)
  BY SavedAdds DEF WithEntry
<1> HIDE DEF p, q, e, n
<1> QED
  BY <1>1, <1>2, <1>3, AppendedNewest DEF p, q, e, n

(* A result leaves the buffer only with the write of an answered scan that  *)
(* carried it, or after its call had left the window: failures, exceptions, *)
(* answers, turns and crashes lose nothing.                                *)
THEOREM OnlyAnswersClear == Spec => ClearedOnlyByAnswer
<1> DEFINE Clears == \A s \in Sessions :
                       \A it \in session[s].buffer \ session'[s].buffer :
                         LET q   == session'[s].history
                             req == scan[s].req
                         IN  /\ scan[s] # Idle /\ q[Len(q)].fp # NoFp
                             /\ \/ it \in req.inputs
                                \/ \A i \in DOMAIN req.history : req.history[i].call # it.call
<1>1. RecordInv /\ [Next]_vars => Clears
  <2> SUFFICES ASSUME RecordInv, [Next]_vars, NEW s \in Sessions,
                      NEW it \in session[s].buffer \ session'[s].buffer
               PROVE  LET q   == session'[s].history
                          req == scan[s].req
                      IN  /\ scan[s] # Idle /\ q[Len(q)].fp # NoFp
                          /\ \/ it \in req.inputs
                             \/ \A i \in DOMAIN req.history : req.history[i].call # it.call
    OBVIOUS
  <2> USE DEF RecordInv
  <2>1. ScanSaved(s)
    BY FileMoves DEF Kept, FileInv
  <2> DEFINE e == LastOf(scan[s].sess.history)
             q == session'[s].history
             req == scan[s].req
             window == Newest(session[s].history, HistoryLimit)
  <2>2. scan[s] # Idle /\ (e.fp = NoFp => session'[s].buffer = session[s].buffer)
    BY <2>1, SavedAdds
  <2>3. e.fp # NoFp
    BY <2>2
  <2>4. q[Len(q)] = e
    BY <2>1, SavedSlides DEF Slides
  <2>5. req.inputs = SentInputs(session[s]) /\ req.history = window
    BY <2>2 DEF AllInFlight, InFlight
  <2>6. it \in SentInputs(session[s]) \/ \A i \in DOMAIN window : window[i].call # it.call
    BY DEF SentInputs
  <2> HIDE DEF e, window
  <2> QED
    BY <2>2, <2>3, <2>4, <2>5, <2>6
<1>2. RecordInv /\ [Next]_vars => [Clears]_vars
  BY <1>1
<1> QED
  BY <1>2, RecordInit, RecordStep, PTL DEF Spec, ClearedOnlyByAnswer

-----------------------------------------------------------------------------
(* The calls of a message.                                                 *)

(* A call stays as it is, has its scan begun, or moves on once its scan is  *)
(* over.                                                                   *)
CallGoesOn(t, j) ==
  \/ calls'[t][j] = calls[t][j]
  \/ PreToolCall(t, j)
  \/ /\ calls[t][j].st # "new" /\ calls'[t][j].st \notin {"new", "scanning"}
     /\ calls'[t][j].host = calls[t][j].host /\ calls'[t][j].req = calls[t][j].req

LEMMA BegunCall ==
  ASSUME TypeInv, NEW s \in Sessions, NEW i \in DOMAIN calls[s], PreToolCall(s, i)
  PROVE  /\ calls'[s][i].host = calls[s][i].host /\ calls'[s][i].st = "scanning"
         /\ calls'[s][i].req = nextReq /\ calls[s][i].st = "new"
         /\ DOMAIN calls'[s] = DOMAIN calls[s]
         /\ \A j \in DOMAIN calls[s] : j # i => calls'[s][j] = calls[s][j]
         /\ \A t \in Sessions \ {s} : calls'[t] = calls[t]
         /\ nextReq' = nextReq + 1 /\ UNCHANGED <<session, reviews, used, key, lost>>
<1> DEFINE d == [calls[s][i] EXCEPT !.st = "scanning", !.req = nextReq]
<1>1. calls[s][i] \in HostCalls /\ calls \in [Sessions -> Seq(HostCalls)]
  BY DEF TypeInv, TypeOK
<1>2. d.host = calls[s][i].host /\ d.st = "scanning" /\ d.req = nextReq
  BY <1>1 DEF HostCalls
<1>3. SetCall(s, i, d) /\ calls[s][i].st = "new"
      /\ nextReq' = nextReq + 1 /\ UNCHANGED <<session, reviews, used, key, lost>>
  BY DEF PreToolCall
<1> HIDE DEF d
<1>4. /\ \A t \in Sessions \ {s} : calls'[t] = calls[t]
      /\ calls'[s] = [calls[s] EXCEPT ![i] = d]
  BY <1>1, <1>3 DEF SetCall
<1> QED
  BY <1>2, <1>3, <1>4

LEMMA ReleasedCall ==
  ASSUME TypeInv, NEW s \in Sessions, ScanSaved(s) \/ ScanRaised(s)
  PROVE  LET i == scan[s].call
         IN  /\ i \in DOMAIN calls[s] /\ calls[s][i].st = "scanning"
             /\ DOMAIN calls'[s] = DOMAIN calls[s]
             /\ calls'[s][i].host = calls[s][i].host /\ calls'[s][i].req = calls[s][i].req
             /\ calls'[s][i].st \notin {"new", "scanning"}
             /\ \A j \in DOMAIN calls[s] : j # i => calls'[s][j] = calls[s][j]
             /\ \A t \in Sessions \ {s} : calls'[t] = calls[t]
             /\ UNCHANGED <<used, nextReq, reviews, lost>>
<1> DEFINE i == scan[s].call
           c == calls[s][i]
<1>1. scan[s] # Idle /\ (ScanSaved(s) => scan[s] \in Decided)
  BY PhaseTypes DEF ScanSaved, ScanRaised, Unlocked, TypeInv
<1>2. i \in DOMAIN calls[s] /\ c \in HostCalls /\ c.st = "scanning"
      /\ calls \in [Sessions -> Seq(HostCalls)]
  BY <1>1 DEF TypeInv, TypeOK, LockInv
<1>3. UNCHANGED <<used, nextReq, reviews, lost>>
  BY DEF ScanSaved, ScanRaised
<1>4. \E d : SetCall(s, i, d) /\ d.host = c.host /\ d.req = c.req /\ d.st \notin {"new", "scanning"}
  <2>1. \A st, rule :
          /\ [c EXCEPT !.st = st].host = c.host /\ [c EXCEPT !.st = st].req = c.req
          /\ [c EXCEPT !.st = st].st = st
          /\ [c EXCEPT !.st = st, !.rule = rule].host = c.host
          /\ [c EXCEPT !.st = st, !.rule = rule].req = c.req
          /\ [c EXCEPT !.st = st, !.rule = rule].st = st
    BY <1>2 DEF HostCalls
  <2>2. CASE ScanSaved(s)
    <3> DEFINE st == [run |-> "running", block |-> "refused", approve |-> "asking"][scan[s].directive]
               d  == [c EXCEPT !.st = st, !.rule = scan[s].rule]
    <3>1. scan[s].directive \in {"run", "block", "approve"}
      BY <1>1, <2>2 DEF Decided
    <3>2. st \notin {"new", "scanning"}
      BY <3>1
    <3>3. SetCall(s, i, d)
      BY <2>2 DEF ScanSaved
    <3> HIDE DEF st, c
    <3>4. d.host = c.host /\ d.req = c.req /\ d.st = st
      BY <2>1
    <3> HIDE DEF d
    <3> QED
      BY <3>2, <3>3, <3>4
  <2>3. CASE ScanRaised(s)
    <3> DEFINE d == [c EXCEPT !.st = "refused"]
    <3>1. SetCall(s, i, d) /\ d.host = c.host /\ d.req = c.req /\ d.st = "refused"
      BY <2>1, <2>3 DEF ScanRaised
    <3> HIDE DEF d
    <3> QED
      BY <3>1
  <2> QED
    BY <2>2, <2>3
<1>5. PICK d : SetCall(s, i, d) /\ d.host = c.host /\ d.req = c.req /\ d.st \notin {"new", "scanning"}
  BY <1>4
<1>6. /\ \A t \in Sessions \ {s} : calls'[t] = calls[t]
      /\ calls'[s] = [calls[s] EXCEPT ![i] = d]
  BY <1>2, <1>5 DEF SetCall
<1> QED
  BY <1>2, <1>3, <1>5, <1>6

(* The calls of a session go on, are forgotten, or are those of a new       *)
(* message; within a turn their ids are only counted up by a new message.   *)
LEMMA BatchMoves ==
  ASSUME TypeInv, [Next]_vars, NEW t \in Sessions
  PROVE  /\ \/ calls'[t] = <<>>
            \/ PostApiRequest(t)
            \/ DOMAIN calls'[t] = DOMAIN calls[t] /\ \A j \in DOMAIN calls[t] : CallGoesOn(t, j)
         /\ used'[t] = used[t] \/ PreLlmCall(t) \/ PostApiRequest(t)
<1> DEFINE Goes == DOMAIN calls'[t] = DOMAIN calls[t] /\ \A j \in DOMAIN calls[t] : CallGoesOn(t, j)
<1>1. calls \in [Sessions -> Seq(HostCalls)] /\ used \in [Sessions -> [HostIds -> Nat]]
  BY DEF TypeInv, TypeOK
<1>2. calls'[t] = calls[t] => Goes
  BY DEF CallGoesOn
<1>3. ASSUME NEW s \in Sessions, PreLlmCall(s) \/ PostApiRequest(s), t # s
      PROVE  calls'[t] = calls[t] /\ used'[t] = used[t]
  BY <1>1, <1>3 DEF PreLlmCall, PostApiRequest
<1>4. PreLlmCall(t) => calls'[t] = <<>>
  BY <1>1 DEF PreLlmCall
<1>5. ASSUME NEW s \in Sessions, ScanAnswered(s) \/ ScanFailed(s)
      PROVE  calls'[t] = calls[t] /\ used'[t] = used[t]
  BY <1>5 DEF ScanAnswered, ScanFailed
<1>6. ASSUME NEW s \in Sessions, ScanSaved(s) \/ ScanRaised(s)
      PROVE  Goes /\ used'[t] = used[t]
  BY <1>2, <1>6, ReleasedCall DEF CallGoesOn
<1>7. ASSUME NEW s \in Sessions, NEW i \in DOMAIN calls[s], PreToolCall(s, i)
      PROVE  Goes /\ used'[t] = used[t]
  <2>1. CASE t = s
    <3>1. \A j \in DOMAIN calls[t] : CallGoesOn(t, j)
      BY <1>7, <2>1, BegunCall DEF CallGoesOn
    <3> QED
      BY <1>7, <2>1, <3>1, BegunCall
  <2>2. CASE t # s
    BY <1>2, <1>7, <2>2, BegunCall
  <2> QED
    BY <2>1, <2>2
<1>8. ASSUME NEW s \in Sessions, NEW i \in DOMAIN calls[s], CallStep(s, i), ~PreToolCall(s, i)
      PROVE  Goes /\ used'[t] = used[t]
  <2>1. \/ AnswerPopped(s, i) \/ AnswerUnjoined(s, i)
        \/ AnswerRecorded(s, i) \/ AnswerRaised(s, i) \/ PostToolCall(s, i)
    BY <1>8 DEF CallStep
  <2> QED
    BY <2>1, CallChanges DEF CallGoesOn
<1>9. CASE Crash
  BY <1>9 DEF Crash
<1>10. CASE RotateKey \/ UNCHANGED vars
  BY <1>2, <1>10 DEF RotateKey, vars
<1>11. ASSUME NEW s \in Sessions, SessionStep(s)
       PROVE  /\ calls'[t] = <<>> \/ PostApiRequest(t) \/ Goes
              /\ used'[t] = used[t] \/ PreLlmCall(t) \/ PostApiRequest(t)
  <2> HIDE DEF Goes
  <2> QED
    <3>1. CASE PreLlmCall(s) \/ PostApiRequest(s)
      <4>1. CASE t = s
        BY <1>4, <3>1, <4>1
      <4> QED
        BY <1>2, <1>3, <3>1, <4>1
    <3>2. CASE ScanAnswered(s) \/ ScanFailed(s)
      BY <1>2, <1>5, <3>2
    <3>3. CASE ScanSaved(s) \/ ScanRaised(s)
      BY <1>6, <3>3
    <3> QED
      BY <1>11, <3>1, <3>2, <3>3 DEF SessionStep
<1> HIDE DEF Goes
<1>12. ASSUME NEW s \in Sessions, NEW i \in DOMAIN calls[s], CallStep(s, i)
       PROVE  Goes /\ used'[t] = used[t]
  BY <1>7, <1>8, <1>12
<1>13. [Next]_vars => \/ \E s \in Sessions : SessionStep(s) \/ \E i \in DOMAIN calls[s] : CallStep(s, i)
                     \/ Crash \/ RotateKey \/ UNCHANGED vars
  BY DEF Next
<1> USE DEF Goes
<1> QED
  BY <1>9, <1>10, <1>11, <1>12, <1>13

-----------------------------------------------------------------------------
(* Call ids.  A host id that occurs at most once in a turn is told apart by *)
(* the turn once it comes back: "turn:id" if the session has seen the id,   *)
(* which it remembers for longer than the history holds a call of it.      *)

(* The call_id of an entry is one of the three that _mint_call_id gives.    *)
IdOf(e) ==
  \/ e.host = None /\ e.call = [turn |-> e.turn, id |-> None, step |-> e.step]
  \/ e.host # None /\ e.call \in {[turn |-> 0, id |-> e.host, step |-> 0],
                                  [turn |-> e.turn, id |-> e.host, step |-> 0]}

(* The host id of the i-th entry is remembered as long as the entry is.     *)
Remembered(q, seen, i) ==
  q[i].host # None =>
    \E p \in 1..Len(seen) : seen[p] = q[i].host /\ Len(seen) - p <= Len(q) - i

EntryIds(s) ==
  LET sess == session[s]
      q    == sess.history
  IN  /\ CallsDistinct(q)
      /\ \A i \in 1..Len(q) :
           /\ IdOf(q[i]) /\ q[i].turn > 0 /\ q[i].turn <= sess.turn
           /\ Remembered(q, sess.seen, i)

(* An id of this turn is counted, the ids of a message differ, and a call   *)
(* not yet recorded has no entry of this turn.                             *)
TurnIds(s) ==
  LET q    == session[s].history
      turn == session[s].turn
      b    == calls[s]
  IN  /\ \A i \in 1..Len(q) : q[i].host # None /\ q[i].turn = turn => used[s][q[i].host] > 0
      /\ \A i \in DOMAIN b : turn > 0 /\ (b[i].host # None => used[s][b[i].host] > 0)
      /\ \A i, j \in DOMAIN b : i # j /\ b[i].host = b[j].host => b[i].host = None
      /\ \A i \in DOMAIN b : \A k \in 1..Len(q) :
           b[i].st \in {"new", "scanning"} /\ b[i].host # None /\ q[k].host = b[i].host =>
             q[k].turn < turn

IdInv == \A s \in Sessions : EntryIds(s) /\ TurnIds(s)

LEMMA IdInit == Init => IdInv
<1> SUFFICES ASSUME Init, NEW s \in Sessions PROVE EntryIds(s) /\ TurnIds(s)
  BY DEF IdInv
<1>1. session[s].history = <<>> /\ calls[s] = <<>>
  BY DEF Init, EmptySession
<1> QED
  BY <1>1 DEF EntryIds, TurnIds, CallsDistinct

(* The id of a call that is not recorded yet is not in the history.         *)
LEMMA PendingFresh ==
  ASSUME RecordInv, IdInv, NEW s \in Sessions, NEW i \in DOMAIN calls[s],
         calls[s][i].st \in {"new", "scanning"},
         NEW k \in 1..Len(session[s].history)
  PROVE  session[s].history[k].call # CallIdFor(session[s], calls[s][i].host)
<1> DEFINE q == session[s].history
           e == q[k]
           host == calls[s][i].host
           turn == session[s].turn
           next == session[s].next
           seen == session[s].seen
<1> SUFFICES e.call # CallIdFor(session[s], host)
  OBVIOUS
<1>1. /\ q \in Seq(Entries) /\ e \in Entries /\ turn \in Nat /\ next \in Nat
      /\ e.step \in Nat /\ e.turn \in Nat /\ Len(q) \in Nat
  <2>1. session[s] \in SessionFiles
    BY DEF RecordInv, TypeInv, TypeOK
  <2>2. q \in Seq(Entries) /\ turn \in Nat /\ next \in Nat
    BY <2>1 DEF SessionFiles
  <2>3. e \in Entries
    BY <2>2
  <2> HIDE DEF e
  <2> QED
    BY <2>2, <2>3 DEF Entries
<1>2. e.step < next
  <2>1. e.step + (Len(q) - k) + 1 = next
    BY DEF RecordInv, FileInv, StepsInv
  <2> QED
    BY <1>1, <2>1
<1>3. /\ IdOf(e) /\ e.turn > 0 /\ e.turn <= turn /\ Remembered(q, seen, k)
  BY DEF IdInv, EntryIds
<1>4. /\ turn > 0
      /\ host # None /\ e.host = host => e.turn < turn
  BY DEF IdInv, TurnIds
<1>5. CASE host = None
  <2>1. CallIdFor(session[s], host) = [turn |-> turn, id |-> None, step |-> next]
    BY <1>5 DEF CallIdFor
  <2>2. e.call = CallIdFor(session[s], host) => e.call.id = None /\ e.call.step = next
    BY <2>1
  <2> HIDE DEF e, next
  <2> QED
    BY <1>1, <1>2, <1>3, <2>2 DEF IdOf
<1>6. CASE host # None /\ e.host # host
  <2>1. CallIdFor(session[s], host).id = host
    BY <1>6 DEF CallIdFor
  <2> HIDE DEF e, host
  <2>2. e.call.id \in {None, e.host}
    BY <1>3 DEF IdOf
  <2> QED
    BY <1>6, <2>1, <2>2
<1>7. CASE host # None /\ e.host = host
  <2>1. InSeq(host, seen)
    <3>1. PICK p \in 1..Len(seen) : seen[p] = host
      BY <1>3, <1>7 DEF Remembered
    <3>2. seen \in Seq(HostIds)
      BY DEF RecordInv, TypeInv, TypeOK, SessionFiles
    <3> QED
      BY <3>1, <3>2 DEF InSeq
  <2>2. CallIdFor(session[s], host) = [turn |-> turn, id |-> host, step |-> 0]
    BY <1>7, <2>1 DEF CallIdFor
  <2>3. e.call.turn \in {0, e.turn}
    BY <1>3, <1>7 DEF IdOf
  <2> HIDE DEF e, host, turn
  <2>4. CallIdFor(session[s], host).turn = turn
    BY <2>2
  <2> QED
    BY <1>1, <1>4, <1>7, <2>3, <2>4
<1> QED
  BY <1>5, <1>6, <1>7

(* What build_planir makes of a session passes the scanner's checks.        *)
LEMMA RequestPasses ==
  ASSUME RecordInv, IdInv, NEW s \in Sessions, NEW i \in DOMAIN calls[s],
         calls[s][i].st = "new", NEW id
  PROVE  WellFormed(Request(session[s], calls[s], calls[s][i].host, id))
<1> DEFINE sess == session[s]
           q    == sess.history
           host == calls[s][i].host
           req  == Request(sess, calls[s], host, id)
           w    == Newest(q, HistoryLimit)
           drop == Len(q) - Len(w)
<1>1. q \in Seq(Entries) /\ Len(q) \in Nat /\ sess \in SessionFiles /\ sess.next \in Nat
  BY DEF RecordInv, TypeInv, TypeOK, SessionFiles
<1>2. /\ req.step = sess.next /\ req.pending = CallIdFor(sess, host)
      /\ req.siblings = SiblingIds(calls[s], host) /\ req.history = w
      /\ req.inputs = SentInputs(sess)
  BY DEF Request
<1>3. HistoryLimit \in Nat /\ HistoryLimit > 0
  BY LimitAssumption
<1>4. /\ w \in Seq(Entries)
      /\ Len(w) = IF Len(q) > HistoryLimit THEN HistoryLimit ELSE Len(q)
      /\ \A k \in 1..Len(w) : w[k] = q[k + Len(q) - Len(w)]
  BY <1>1, <1>3, NewestFacts
<1> HIDE DEF w
<1>5. /\ Len(w) \in Nat /\ drop \in Nat /\ DOMAIN w = 1..Len(w)
      /\ w = <<>> <=> q = <<>>
  BY <1>1, <1>3, <1>4
<1>6. \A k \in 1..Len(w) : /\ k + drop \in 1..Len(q) /\ w[k] = q[k + drop]
                           /\ Len(q) - (k + drop) = Len(w) - k
  <2> SUFFICES ASSUME NEW k \in 1..Len(w)
               PROVE  /\ k + drop \in 1..Len(q) /\ w[k] = q[k + drop]
                      /\ Len(q) - (k + drop) = Len(w) - k
    OBVIOUS
  <2> HIDE DEF q
  <2>1. /\ k + drop \in 1..Len(q) /\ k + drop = k + Len(q) - Len(w)
        /\ Len(q) - (k + drop) = Len(w) - k
    BY <1>1, <1>5
  <2> HIDE DEF drop
  <2> QED
    BY <1>4, <2>1
<1>7. /\ \A k \in 1..Len(q) : q[k].step \in Nat /\ q[k].step + (Len(q) - k) + 1 = sess.next
      /\ q = <<>> => sess.next = 1
      /\ CallsDistinct(q)
  <2>1. \A k \in 1..Len(q) : q[k] \in Entries
    BY <1>1
  <2>2. \A k \in 1..Len(q) : q[k].step \in Nat
    BY <2>1 DEF Entries
  <2>3. StepsInv(s) /\ CallsDistinct(q)
    BY DEF RecordInv, FileInv, IdInv, EntryIds
  <2> QED
    BY <2>2, <2>3 DEF StepsInv
<1> HIDE DEF drop, q, sess, host, req
<1>8. StepsIncrease(w)
  <2>1. \A k \in 1..Len(w) : w[k].step \in Nat /\ w[k].step + (Len(w) - k) + 1 = sess.next
    <3> SUFFICES ASSUME NEW k \in 1..Len(w)
                 PROVE  w[k].step \in Nat /\ w[k].step + (Len(w) - k) + 1 = sess.next
      OBVIOUS
    <3>1. k + drop \in 1..Len(q) /\ w[k] = q[k + drop] /\ Len(q) - (k + drop) = Len(w) - k
      BY <1>6
    <3>2. q[k + drop].step \in Nat /\ q[k + drop].step + (Len(q) - (k + drop)) + 1 = sess.next
      BY <1>7, <3>1
    <3> QED
      BY <3>1, <3>2
  <2> SUFFICES ASSUME NEW j \in 1..Len(w), NEW k \in 1..Len(w), j < k
               PROVE  w[j].step < w[k].step
    BY <1>5 DEF StepsIncrease
  <2>2. /\ w[j].step \in Nat /\ w[j].step + (Len(w) - j) + 1 = sess.next
        /\ w[k].step \in Nat /\ w[k].step + (Len(w) - k) + 1 = sess.next
    BY <2>1
  <2> QED
    BY <1>1, <1>5, <2>2
<1>9. StepFollows(sess.next, w)
  <2>1. CASE w = <<>>
    BY <1>5, <1>7, <2>1 DEF StepFollows
  <2>2. CASE w # <<>>
    <3>1. Len(w) \in 1..Len(w)
      BY <1>4, <1>5, <2>2
    <3>2. Len(w) + drop = Len(q)
      BY <1>1, <1>5 DEF drop
    <3>3. w[Len(w)] = q[Len(q)] /\ Len(q) \in 1..Len(q)
      BY <1>6, <3>1, <3>2
    <3>4. q[Len(q)].step + 1 = sess.next
      BY <1>1, <1>7, <3>3
    <3> QED
      BY <2>2, <3>3, <3>4 DEF StepFollows
  <2> QED
    BY <2>1, <2>2
<1>10. CallsDistinct(w)
  <2> SUFFICES ASSUME NEW j \in 1..Len(w), NEW k \in 1..Len(w), w[j].call = w[k].call
               PROVE  j = k
    BY <1>5 DEF CallsDistinct
  <2>1. j + drop \in DOMAIN q /\ k + drop \in DOMAIN q
        /\ q[j + drop].call = q[k + drop].call
    BY <1>1, <1>6
  <2>2. j + drop = k + drop
    BY <1>7, <2>1 DEF CallsDistinct
  <2> QED
    BY <1>5, <2>2
<1>11. PendingIsNew(req)
  <2>1. ASSUME NEW k \in DOMAIN w
        PROVE  w[k].call # CallIdFor(sess, host)
    <3>1. k + drop \in 1..Len(q) /\ w[k] = q[k + drop]
      BY <1>5, <1>6
    <3>2. \A l \in 1..Len(q) : q[l].call # CallIdFor(sess, host)
      BY PendingFresh DEF q, sess, host
    <3> QED
      BY <3>1, <3>2
  <2>2. CallIdFor(sess, host) \notin SiblingIds(calls[s], host)
    <3>1. CallIdFor(sess, host).id = host
      BY DEF CallIdFor
    <3>2. \A x \in SiblingIds(calls[s], host) : x.id # host
      BY DEF SiblingIds
    <3> QED
      BY <3>1, <3>2
  <2> QED
    BY <1>2, <2>1, <2>2 DEF PendingIsNew
<1>12. InputsRefer(SentInputs(sess), w)
  BY DEF InputsRefer, SentInputs, w, q
<1>13. InputsOrdered(SentInputs(sess))
  <2>1. SentInputs(sess) \subseteq sess.buffer
    BY DEF SentInputs
  <2>2. InputsOrdered(sess.buffer)
    BY DEF RecordInv, FlightInv, SeqInv, sess
  <2> QED
    BY <2>1, <2>2 DEF InputsOrdered
<1> QED
  BY <1>2, <1>8, <1>9, <1>10, <1>11, <1>12, <1>13 DEF WellFormed, req, sess, host

(* Where an id of the seen ids is once the last one was appended.           *)
LEMMA ShiftFits ==
  ASSUME NEW ls \in Nat, NEW ln \in Nat, NEW lp \in Nat, NEW m \in Nat, NEW cut \in Nat,
         NEW i \in 1..lp, NEW r \in 1..ls, ls - r <= lp - i - 1, lp <= m,
         cut = ls + 1 - ln, ln = IF ls >= m THEN m ELSE ls + 1
  PROVE  /\ r - cut \in 1..(ln - 1) /\ r - cut \in 1..ln /\ (r - cut) + cut = r
         /\ ln - (r - cut) <= lp - i
<1>1. CASE ls >= m
  BY <1>1
<1>2. CASE ~(ls >= m)
  BY <1>2
<1> QED
  BY <1>1, <1>2

(* An id is forgotten no earlier than the entry it came with.               *)
LEMMA StillRemembered ==
  ASSUME NEW q \in Seq(Entries), NEW e, NEW seen \in Seq(HostIds),
         NEW n \in Nat, n > 0, NEW m \in Nat, m >= n,
         NEW p \in Seq(Entries), Slides(p, q, e, n), NEW new \in Seq(HostIds),
         \/ e.host = None /\ new = seen
         \/ e.host # None /\ Slides(new, seen, e.host, m),
         \A k \in 1..Len(q) : Remembered(q, seen, k)
  PROVE  \A i \in 1..Len(p) : Remembered(p, new, i)
<1>1. PICK drop \in Nat :
        /\ p # <<>> /\ p[Len(p)] = e /\ drop = Len(q) + 1 - Len(p)
        /\ Len(p) = IF Len(q) >= n THEN n ELSE Len(q) + 1
        /\ \A i \in 1..(Len(p) - 1) : i + drop \in 1..Len(q) /\ p[i] = q[i + drop]
  BY DEF Slides
<1>2. Len(p) \in Nat /\ Len(q) \in Nat /\ Len(p) <= n /\ Len(seen) \in Nat /\ Len(new) \in Nat
  BY <1>1
<1> SUFFICES ASSUME NEW i \in 1..Len(p), p[i].host # None
             PROVE  \E r \in 1..Len(new) : new[r] = p[i].host /\ Len(new) - r <= Len(p) - i
  BY DEF Remembered
<1>3. ASSUME i # Len(p)
      PROVE  \E r \in 1..Len(seen) : seen[r] = p[i].host /\ Len(seen) - r <= Len(p) - i - 1
  <2>1. i \in 1..(Len(p) - 1)
    BY <1>2, <1>3
  <2>2. i + drop \in 1..Len(q) /\ p[i] = q[i + drop] /\ Len(q) - (i + drop) = Len(p) - i - 1
    <3>1. i + drop \in 1..Len(q) /\ p[i] = q[i + drop]
      BY <1>1, <2>1
    <3>2. drop = Len(q) + 1 - Len(p)
      BY <1>1
    <3> QED
      BY <1>2, <3>1, <3>2
  <2>3. PICK r \in 1..Len(seen) :
          seen[r] = q[i + drop].host /\ Len(seen) - r <= Len(q) - (i + drop)
    BY <2>2 DEF Remembered
  <2> QED
    BY <2>2, <2>3
<1>4. CASE e.host = None /\ new = seen
  <2>1. i # Len(p)
    BY <1>1, <1>4
  <2>2. PICK r \in 1..Len(seen) : seen[r] = p[i].host /\ Len(seen) - r <= Len(p) - i - 1
    BY <1>3, <2>1
  <2>3. Len(new) - r <= Len(p) - i /\ new[r] = p[i].host /\ r \in 1..Len(new)
    BY <1>2, <1>4, <2>2
  <2> QED
    BY <2>3
<1>5. CASE e.host # None /\ Slides(new, seen, e.host, m)
  <2>1. PICK cut \in Nat :
          /\ new # <<>> /\ new[Len(new)] = e.host /\ cut = Len(seen) + 1 - Len(new)
          /\ Len(new) = IF Len(seen) >= m THEN m ELSE Len(seen) + 1
          /\ \A j \in 1..(Len(new) - 1) : j + cut \in 1..Len(seen) /\ new[j] = seen[j + cut]
    BY <1>5 DEF Slides
  <2>2. CASE i = Len(p)
    <3>1. Len(new) \in 1..Len(new) /\ new[Len(new)] = p[i].host
      BY <1>1, <1>2, <2>1, <2>2
    <3>2. Len(new) - Len(new) <= Len(p) - i
      BY <1>2, <2>2
    <3> QED
      BY <3>1, <3>2
  <2>3. CASE i # Len(p)
    <3>1. PICK r \in 1..Len(seen) : seen[r] = p[i].host /\ Len(seen) - r <= Len(p) - i - 1
      BY <1>3, <2>3
    <3>2. Len(p) <= m /\ cut = Len(seen) + 1 - Len(new)
          /\ Len(new) = IF Len(seen) >= m THEN m ELSE Len(seen) + 1
      BY <1>2, <2>1
    <3>3. /\ r - cut \in 1..(Len(new) - 1) /\ r - cut \in 1..Len(new) /\ (r - cut) + cut = r
          /\ Len(new) - (r - cut) <= Len(p) - i
      <4> DEFINE lp == Len(p)
                 ls == Len(seen)
                 ln == Len(new)
      <4>1. /\ lp \in Nat /\ ls \in Nat /\ ln \in Nat /\ r \in 1..ls /\ i \in 1..lp
            /\ ls - r <= lp - i - 1 /\ lp <= m /\ cut = ls + 1 - ln
            /\ ln = IF ls >= m THEN m ELSE ls + 1
        BY <1>2, <3>1, <3>2
      <4> HIDE DEF lp, ls, ln
      <4>2. /\ r - cut \in 1..(ln - 1) /\ r - cut \in 1..ln /\ (r - cut) + cut = r
            /\ ln - (r - cut) <= lp - i
        BY <4>1, ShiftFits
      <4> QED
        BY <4>2 DEF lp, ls, ln
    <3> DEFINE k == r - cut
    <3> HIDE DEF k
    <3>4. k \in 1..(Len(new) - 1) /\ k \in 1..Len(new) /\ k + cut = r /\ Len(new) - k <= Len(p) - i
      BY <3>3 DEF k
    <3>5. new[k] = seen[r]
      BY <2>1, <3>4
    <3> QED
      BY <3>1, <3>4, <3>5
  <2> QED
    BY <2>2, <2>3
<1> QED
  BY <1>4, <1>5

LEMMA KeptIds ==
  ASSUME RecordInv, RecordInv', IdInv, NEW t \in Sessions, Kept(t)
  PROVE  EntryIds(t)'
<1> DEFINE q == session[t].history
           p == session'[t].history
           seen == session[t].seen
<1>1. /\ q \in Seq(Entries) /\ p \in Seq(Entries)
      /\ Len(p) = Len(q) /\ \A i \in 1..Len(q) : SameEntry(p[i], q[i])
  BY DEF RecordInv, TypeInv, TypeOK, SessionFiles, Kept, SameEntries
<1>2. session'[t].seen = seen
  BY DEF Kept
<1>3. session[t].turn \in Nat /\ session'[t].turn >= session[t].turn
  <2>1. session[t].turn \in Nat
    BY DEF RecordInv, TypeInv, TypeOK, SessionFiles
  <2>2. PreLlmCall(t) => session'[t].turn = session[t].turn + 1
    BY TurnWrites DEF RecordInv, FileInv
  <2> QED
    BY <2>1, <2>2 DEF Kept
<1>4. /\ CallsDistinct(q)
      /\ \A i \in 1..Len(q) : /\ IdOf(q[i]) /\ q[i].turn > 0 /\ q[i].turn <= session[t].turn
                              /\ Remembered(q, seen, i)
  BY DEF IdInv, EntryIds
<1>5. DOMAIN p = 1..Len(q) /\ DOMAIN q = 1..Len(q)
  BY <1>1
<1>6. session'[t].turn \in Nat /\ \A i \in 1..Len(q) : q[i].turn \in Nat
  <2>1. session'[t].turn \in Nat
    BY DEF RecordInv, TypeInv, TypeOK, SessionFiles
  <2>2. \A i \in 1..Len(q) : q[i] \in Entries
    BY <1>1
  <2> QED
    BY <2>1, <2>2 DEF Entries
<1> HIDE DEF p, q, seen
<1>7. CallsDistinct(p)
  BY <1>1, <1>4, <1>5 DEF CallsDistinct, SameEntry
<1>8. ASSUME NEW i \in 1..Len(p)
      PROVE  /\ IdOf(p[i]) /\ p[i].turn > 0 /\ p[i].turn <= session'[t].turn
             /\ Remembered(p, seen, i)
  <2>1. SameEntry(p[i], q[i]) /\ i \in 1..Len(q)
    BY <1>1
  <2>2. IdOf(p[i])
    BY <1>4, <2>1 DEF IdOf, SameEntry
  <2>3. p[i].turn > 0 /\ p[i].turn <= session'[t].turn
    BY <1>3, <1>4, <1>6, <2>1 DEF SameEntry
  <2>4. Remembered(p, seen, i)
    BY <1>1, <1>4, <2>1 DEF Remembered, SameEntry
  <2> QED
    BY <2>2, <2>3, <2>4
<1> QED
  BY <1>2, <1>7, <1>8 DEF EntryIds, p, seen

LEMMA SavedIds ==
  ASSUME RecordInv, RecordInv', IdInv, NEW t \in Sessions, ScanSaved(t)
  PROVE  EntryIds(t)'
<1> USE DEF RecordInv
<1> DEFINE q == session[t].history
           p == session'[t].history
           e == LastOf(scan[t].sess.history)
           c == scan[t].call
           host == calls[t][c].host
           seen == session[t].seen
           new == session'[t].seen
           turn == session[t].turn
           next == session[t].next
<1>1. /\ q \in Seq(Entries) /\ turn \in Nat /\ next \in Nat
      /\ seen \in Seq(HostIds) /\ new \in Seq(HostIds)
  BY DEF TypeInv, TypeOK, SessionFiles
<1>2. p \in Seq(Entries) /\ Slides(p, q, e, 2 * HistoryLimit)
  BY SavedSlides
<1>3. /\ scan[t] # Idle /\ e \in Entries /\ EntryOf(e, scan[t].req, host)
      /\ session'[t].turn = turn
      /\ host = None => new = Newest(seen, SeenKeep)
      /\ host # None => new = WithEntry(seen, host, SeenKeep)
  BY SavedAdds DEF WithEntry
<1>4. /\ e.step = next /\ e.turn = turn /\ e.call = CallIdFor(session[t], host) /\ e.host = host
  BY <1>3 DEF FlightInv, Flight, EntryOf
<1>5. c \in DOMAIN calls[t] /\ calls[t][c].st = "scanning" /\ host \in HostIds \cup {None}
  <2>1. c \in DOMAIN calls[t] /\ calls[t][c].st = "scanning"
    BY <1>3 DEF TypeInv, LockInv
  <2>2. calls[t][c] \in HostCalls
    BY <2>1 DEF TypeInv, TypeOK
  <2> QED
    BY <2>1, <2>2 DEF HostCalls
<1>6. turn > 0
  BY <1>5 DEF IdInv, TurnIds
<1>7. /\ CallsDistinct(q)
      /\ \A i \in 1..Len(q) : /\ IdOf(q[i]) /\ q[i].turn > 0 /\ q[i].turn <= turn
                              /\ Remembered(q, seen, i)
  BY DEF IdInv, EntryIds
<1>8. \A k \in 1..Len(q) : q[k].call # e.call
  BY <1>4, <1>5, PendingFresh
<1>9. IdOf(e)
  <2> HIDE DEF e, host, turn, next
  <2>1. e.call = CallIdFor(session[t], e.host)
    BY <1>4
  <2>2. CASE e.host = None
    BY <1>4, <2>1, <2>2 DEF CallIdFor, IdOf, turn, next
  <2>3. CASE e.host # None
    BY <1>4, <2>1, <2>3 DEF CallIdFor, IdOf, turn
  <2> QED
    BY <2>2, <2>3
<1>10. \A i \in 1..Len(p) : Remembered(p, new, i)
  <2>1. \/ e.host = None /\ new = seen
        \/ e.host # None /\ Slides(new, seen, e.host, SeenKeep)
    <3>1. SeenKeep \in Nat /\ SeenKeep > 0 /\ Len(seen) <= SeenKeep
      BY LimitAssumption DEF FileInv, AllTrimmed, Trimmed
    <3>2. Newest(seen, SeenKeep) = seen
      BY <1>1, <3>1, NewestSame
    <3> HIDE DEF host, seen
    <3>3. host # None => Slides(WithEntry(seen, host, SeenKeep), seen, host, SeenKeep)
      BY <1>1, <1>5, <3>1, AppendedNewest
    <3> QED
      BY <1>3, <1>4, <3>2, <3>3
  <2> DEFINE n == 2 * HistoryLimit
  <2>2. n \in Nat /\ n > 0 /\ SeenKeep \in Nat /\ SeenKeep >= n
    BY LimitAssumption
  <2> HIDE DEF p, q, e, seen, new, n
  <2>3. Slides(p, q, e, n)
    BY <1>2 DEF n
  <2> QED
    BY <1>1, <1>2, <1>7, <2>1, <2>2, <2>3, StillRemembered
<1>11. PICK drop \in Nat :
        /\ p # <<>> /\ p[Len(p)] = e
        /\ \A i \in 1..(Len(p) - 1) : i + drop \in 1..Len(q) /\ p[i] = q[i + drop]
  BY <1>2 DEF Slides
<1> HIDE DEF p, q, e, seen, new, host, c, next
<1>12. \A i \in 1..Len(p) : \/ i = Len(p) /\ p[i] = e
                            \/ i + drop \in 1..Len(q) /\ p[i] = q[i + drop]
  BY <1>2, <1>11
<1>13. CallsDistinct(p)
  <2> SUFFICES ASSUME NEW i \in 1..Len(p), NEW j \in 1..Len(p), p[i].call = p[j].call
               PROVE  i = j
    BY <1>2 DEF CallsDistinct
  <2>1. CASE i = Len(p) \/ j = Len(p)
    <3>1. \A k \in 1..Len(p) : k # Len(p) => p[k].call # p[Len(p)].call
      <4> SUFFICES ASSUME NEW k \in 1..Len(p), k # Len(p) PROVE p[k].call # e.call
        BY <1>11
      <4>1. k + drop \in 1..Len(q) /\ p[k] = q[k + drop]
        BY <1>12
      <4> QED
        BY <1>8, <4>1
    <3> QED
      BY <2>1, <3>1
  <2>2. CASE i # Len(p) /\ j # Len(p)
    <3>1. /\ i + drop \in 1..Len(q) /\ j + drop \in 1..Len(q)
          /\ q[i + drop].call = q[j + drop].call
      BY <1>12, <2>2
    <3>2. i + drop = j + drop
      BY <1>1, <1>7, <3>1 DEF CallsDistinct
    <3> QED
      BY <3>2
  <2> QED
    BY <2>1, <2>2
<1>14. \A i \in 1..Len(p) : IdOf(p[i]) /\ p[i].turn > 0 /\ p[i].turn <= turn
  <2> SUFFICES ASSUME NEW i \in 1..Len(p)
               PROVE  IdOf(p[i]) /\ p[i].turn > 0 /\ p[i].turn <= turn
    OBVIOUS
  <2>1. CASE p[i] = e
    BY <1>1, <1>4, <1>6, <1>9, <2>1
  <2>2. CASE i + drop \in 1..Len(q) /\ p[i] = q[i + drop]
    BY <1>7, <2>2
  <2> QED
    BY <1>12, <2>1, <2>2
<1> QED
  BY <1>3, <1>10, <1>13, <1>14 DEF EntryIds, p, new

(* Every entry was there before, up to its decision, or is that of the scan *)
(* just written.                                                           *)
LEMMA EntriesMove ==
  ASSUME RecordInv, RecordInv', [Next]_vars, NEW t \in Sessions,
         NEW k \in 1..Len(session'[t].history)
  PROVE  \/ \E l \in 1..Len(session[t].history) :
              SameEntry(session'[t].history[k], session[t].history[l])
         \/ /\ ScanSaved(t)
            /\ session'[t].history[k] = LastOf(scan[t].sess.history)
<1> USE DEF RecordInv
<1> DEFINE q == session[t].history
           p == session'[t].history
           e == LastOf(scan[t].sess.history)
<1>1. q \in Seq(Entries) /\ p \in Seq(Entries)
  BY DEF TypeInv, TypeOK, SessionFiles
<1>2. CASE session'[t] = session[t]
  BY <1>2 DEF SameEntry
<1>3. CASE Kept(t)
  BY <1>3 DEF Kept, SameEntries
<1>4. CASE ScanSaved(t)
  <2>1. PICK drop \in Nat :
          /\ p # <<>> /\ p[Len(p)] = e
          /\ \A i \in 1..(Len(p) - 1) : i + drop \in 1..Len(q) /\ p[i] = q[i + drop]
    BY <1>4, SavedSlides DEF Slides
  <2> HIDE DEF p, q, e
  <2>2. CASE k = Len(p)
    BY <1>4, <2>1, <2>2 DEF p, e
  <2>3. CASE k # Len(p)
    <3>1. k \in 1..(Len(p) - 1)
      BY <1>1, <2>3 DEF p
    <3>2. k + drop \in 1..Len(q) /\ p[k] = q[k + drop]
      BY <2>1, <3>1
    <3>3. SameEntry(p[k], q[k + drop])
      BY <3>2 DEF SameEntry
    <3> QED
      BY <3>2, <3>3 DEF p, q
  <2> QED
    BY <2>2, <2>3
<1> QED
  BY <1>2, <1>3, <1>4, FileMoves DEF FileInv

LEMMA NewMessageIds ==
  ASSUME RecordInv, IdInv, IdReuse <= 1, NEW t \in Sessions, PostApiRequest(t)
  PROVE  TurnIds(t)'
<1> USE DEF RecordInv
<1> DEFINE q == session[t].history
           turn == session[t].turn
<1>1. PICK n \in 1..MaxBatch : \E host \in [1..n -> HostIds \cup {None}], act \in [1..n -> Actions] :
         /\ \A i, j \in 1..n : i # j /\ host[i] = host[j] => host[i] = None
         /\ \A i \in 1..n : host[i] # None => used[t][host[i]] < IdReuse
         /\ calls' = [calls EXCEPT ![t] = [i \in 1..n |-> NewCall(host[i], act[i])]]
         /\ used' = [used EXCEPT ![t] =
              [h \in HostIds |-> IF \E i \in 1..n : host[i] = h THEN @[h] + 1 ELSE @[h]]]
  BY DEF PostApiRequest
<1>2. PICK host \in [1..n -> HostIds \cup {None}], act \in [1..n -> Actions] :
         /\ \A i, j \in 1..n : i # j /\ host[i] = host[j] => host[i] = None
         /\ \A i \in 1..n : host[i] # None => used[t][host[i]] < IdReuse
         /\ calls' = [calls EXCEPT ![t] = [i \in 1..n |-> NewCall(host[i], act[i])]]
         /\ used' = [used EXCEPT ![t] =
              [h \in HostIds |-> IF \E i \in 1..n : host[i] = h THEN @[h] + 1 ELSE @[h]]]
  BY <1>1
<1>3. turn > 0 /\ UNCHANGED session
  BY DEF PostApiRequest
<1>4. calls'[t] = [i \in 1..n |-> NewCall(host[i], act[i])]
  BY <1>2 DEF TypeInv, TypeOK
<1>5. DOMAIN calls'[t] = 1..n /\ \A i \in 1..n : calls'[t][i].host = host[i]
  BY <1>4 DEF NewCall
<1>6. used[t] \in [HostIds -> Nat] /\ IdReuse \in Nat
  BY HostAssumption DEF TypeInv, TypeOK
<1>7. used'[t] = [h \in HostIds |->
                   IF \E i \in 1..n : host[i] = h THEN used[t][h] + 1 ELSE used[t][h]]
  BY <1>2 DEF TypeInv, TypeOK
<1>8. /\ \A h \in HostIds : used[t][h] \in Nat /\ used'[t][h] >= used[t][h]
      /\ \A i \in 1..n : host[i] # None => used'[t][host[i]] > 0 /\ used[t][host[i]] = 0
  <2>1. \A h \in HostIds : used[t][h] \in Nat /\ used'[t][h] >= used[t][h]
    BY <1>6, <1>7
  <2>2. ASSUME NEW i \in 1..n, host[i] # None
        PROVE  used'[t][host[i]] > 0 /\ used[t][host[i]] = 0
    <3>1. host[i] \in HostIds
      BY <2>2
    <3>2. used'[t][host[i]] = used[t][host[i]] + 1 /\ used[t][host[i]] \in Nat
      BY <1>6, <1>7, <3>1
    <3>3. used[t][host[i]] < IdReuse
      BY <1>2, <2>2
    <3> QED
      BY <1>6, <3>2, <3>3
  <2> QED
    BY <2>1, <2>2
<1>9. /\ \A k \in 1..Len(q) : /\ q[k].host # None /\ q[k].turn = turn => used[t][q[k].host] > 0
                              /\ q[k].turn <= turn
  BY DEF IdInv, TurnIds, EntryIds
<1>10. /\ turn \in Nat
       /\ \A k \in 1..Len(q) : q[k].turn \in Nat /\ q[k].host \in HostIds \cup {None}
  <2>1. session[t] \in SessionFiles
    BY DEF TypeInv, TypeOK
  <2>2. turn \in Nat /\ \A k \in 1..Len(q) : q[k] \in Entries
    BY <2>1 DEF SessionFiles
  <2> QED
    BY <2>2 DEF Entries
<1> HIDE DEF q, turn
<1>11. \A k \in 1..Len(q) : q[k].host # None /\ q[k].turn = turn => used'[t][q[k].host] > 0
  <2> SUFFICES ASSUME NEW k \in 1..Len(q), q[k].host # None, q[k].turn = turn
               PROVE  used'[t][q[k].host] > 0
    OBVIOUS
  <2>1. q[k].host \in HostIds
    BY <1>10
  <2> DEFINE old == used[t][q[k].host]
             now == used'[t][q[k].host]
  <2>2. old > 0 /\ old \in Nat /\ now \in Nat
    BY <1>6, <1>7, <1>9, <2>1
  <2>3. now >= old
    BY <1>8, <2>1
  <2> HIDE DEF old, now
  <2>4. now > 0
    BY <2>2, <2>3
  <2> QED
    BY <2>4 DEF now
<1>12. \A i \in 1..n : \A k \in 1..Len(q) :
         host[i] # None /\ q[k].host = host[i] => q[k].turn < turn
  <2> SUFFICES ASSUME NEW i \in 1..n, NEW k \in 1..Len(q), host[i] # None, q[k].host = host[i]
               PROVE  q[k].turn < turn
    OBVIOUS
  <2>1. ~(used[t][q[k].host] > 0)
    BY <1>8
  <2> QED
    BY <1>9, <1>10, <2>1
<1>13. session'[t].history = q /\ session'[t].turn = turn
  BY <1>3 DEF q, turn
<1> DEFINE c == calls'[t]
<1>14. /\ turn > 0
       /\ \A i \in DOMAIN c : c[i].host # None => used'[t][c[i].host] > 0
  BY <1>3, <1>5, <1>8 DEF turn
<1>15. \A i, j \in DOMAIN c : i # j /\ c[i].host = c[j].host => c[i].host = None
  BY <1>2, <1>5
<1>16. \A i \in DOMAIN c : \A k \in 1..Len(q) :
         c[i].host # None /\ q[k].host = c[i].host => q[k].turn < turn
  BY <1>5, <1>12
<1> HIDE DEF c
<1> QED
  BY <1>11, <1>13, <1>14, <1>15, <1>16 DEF TurnIds, c

LEMMA SameTurnIds ==
  ASSUME RecordInv, RecordInv', IdInv, [Next]_vars, NEW t \in Sessions,
         ~PreLlmCall(t), ~PostApiRequest(t)
  PROVE  TurnIds(t)'
<1> USE DEF RecordInv
<1> DEFINE q == session[t].history
           p == session'[t].history
           turn == session[t].turn
           b == calls[t]
           c == calls'[t]
           e == LastOf(scan[t].sess.history)
           x == scan[t].call
<1>1. session'[t].turn = turn
  <2>1. ScanSaved(t) => session'[t].turn = turn
    BY SavedAdds
  <2> QED
    BY <2>1, FileMoves DEF Kept, FileInv
<1>2. used'[t] = used[t]
  BY BatchMoves
<1>3. /\ \A i \in 1..Len(q) : q[i].host # None /\ q[i].turn = turn => used[t][q[i].host] > 0
      /\ \A i \in DOMAIN b : turn > 0 /\ (b[i].host # None => used[t][b[i].host] > 0)
      /\ \A i, j \in DOMAIN b : i # j /\ b[i].host = b[j].host => b[i].host = None
      /\ \A i \in DOMAIN b : \A k \in 1..Len(q) :
           b[i].st \in {"new", "scanning"} /\ b[i].host # None /\ q[k].host = b[i].host =>
             q[k].turn < turn
  BY DEF IdInv, TurnIds
<1>4. ASSUME NEW k \in 1..Len(session'[t].history)
      PROVE  \/ \E l \in 1..Len(session[t].history) :
                  SameEntry(session'[t].history[k], session[t].history[l])
             \/ /\ ScanSaved(t)
                /\ session'[t].history[k] = LastOf(scan[t].sess.history)
  BY EntriesMove
<1>5. ScanSaved(t) => e.host = b[x].host /\ x \in DOMAIN b /\ c[x].st \notin {"new", "scanning"}
  BY SavedAdds, ReleasedCall DEF EntryOf
<1>6. \/ c = <<>>
      \/ /\ DOMAIN c = DOMAIN b
         /\ \A j \in DOMAIN b : /\ c[j].host = b[j].host
                                /\ c[j].st \in {"new", "scanning"} => b[j].st \in {"new", "scanning"}
  <2>1. ASSUME NEW j \in DOMAIN b, CallGoesOn(t, j)
        PROVE  /\ c[j].host = b[j].host
               /\ c[j].st \in {"new", "scanning"} => b[j].st \in {"new", "scanning"}
    BY <2>1, BegunCall DEF CallGoesOn
  <2> QED
    BY <2>1, BatchMoves
<1> HIDE DEF p, q, turn, b, c, e, x
<1>7. \A i \in 1..Len(p) : p[i].host # None /\ p[i].turn = turn => used[t][p[i].host] > 0
  <2> SUFFICES ASSUME NEW i \in 1..Len(p), p[i].host # None, p[i].turn = turn
               PROVE  used[t][p[i].host] > 0
    OBVIOUS
  <2>1. CASE \E l \in 1..Len(q) : SameEntry(p[i], q[l])
    BY <1>3, <2>1 DEF SameEntry
  <2>2. CASE ScanSaved(t) /\ p[i] = e
    BY <1>3, <1>5, <2>2
  <2> QED
    BY <1>4, <2>1, <2>2 DEF p, q, e
<1>8. ASSUME NEW i \in DOMAIN c, NEW k \in 1..Len(p),
             c[i].st \in {"new", "scanning"}, c[i].host # None, p[k].host = c[i].host
      PROVE  p[k].turn < turn
  <2>1. DOMAIN c = DOMAIN b /\ c[i].host = b[i].host /\ b[i].st \in {"new", "scanning"}
    BY <1>6, <1>8
  <2>2. CASE \E l \in 1..Len(q) : SameEntry(p[k], q[l])
    BY <1>3, <1>8, <2>1, <2>2 DEF SameEntry
  <2>3. CASE ScanSaved(t) /\ p[k] = e
    <3>1. i # x /\ b[i].host = b[x].host /\ x \in DOMAIN b
      BY <1>5, <1>8, <2>1, <2>3
    <3> QED
      BY <1>3, <1>8, <2>1, <3>1
  <2> QED
    BY <1>4, <2>2, <2>3 DEF p, q, e
<1>9. /\ \A i \in DOMAIN c : turn > 0 /\ (c[i].host # None => used[t][c[i].host] > 0)
      /\ \A i, j \in DOMAIN c : i # j /\ c[i].host = c[j].host => c[i].host = None
  BY <1>3, <1>6
<1> QED
  BY <1>1, <1>2, <1>7, <1>8, <1>9 DEF TurnIds, p, c, turn

LEMMA IdStep ==
  ASSUME IdReuse <= 1, RecordInv, IdInv, [Next]_vars
  PROVE  IdInv'
<1>1. RecordInv'
  BY RecordStep
<1> SUFFICES ASSUME NEW t \in Sessions
             PROVE  EntryIds(t)' /\ TurnIds(t)'
  BY DEF IdInv
<1>2. EntryIds(t)'
  <2>1. CASE session'[t] = session[t]
    BY <2>1 DEF IdInv, EntryIds
  <2> QED
    BY <1>1, <2>1, FileMoves, KeptIds, SavedIds DEF RecordInv, FileInv
<1>3. TurnIds(t)'
  <2>1. CASE PreLlmCall(t)
    <3> DEFINE q == session[t].history
    <3>1. session'[t].history = q /\ session'[t].turn = session[t].turn + 1
      BY <2>1, TurnWrites DEF RecordInv, FileInv
    <3>2. calls'[t] = <<>>
      BY <2>1 DEF PreLlmCall, RecordInv, TypeInv, TypeOK
    <3>3. session[t].turn \in Nat /\ q \in Seq(Entries)
      BY DEF RecordInv, TypeInv, TypeOK, SessionFiles
    <3>4. \A k \in 1..Len(q) : q[k].turn <= session[t].turn /\ q[k].turn \in Nat
      <4>1. \A k \in 1..Len(q) : q[k] \in Entries
        BY <3>3
      <4> QED
        BY <4>1 DEF IdInv, EntryIds, Entries
    <3> HIDE DEF q
    <3>5. \A k \in 1..Len(q) : q[k].turn # session'[t].turn
      BY <3>1, <3>3, <3>4
    <3> QED
      BY <3>1, <3>2, <3>5 DEF TurnIds
  <2> QED
    BY <1>1, <2>1, NewMessageIds, SameTurnIds
<1> QED
  BY <1>2, <1>3

(* Every request passes the structural checks of the scanner, provided that *)
(* a provider gives a host id to one call of a turn only: steps without a   *)
(* gap, no call_id twice, no result of a call the request does not show.    *)
(* Without the proviso it is false (the run host_id_repeat).               *)
THEOREM RequestsPass ==
  ASSUME IdReuse <= 1
  PROVE  Spec => []RequestsWellFormed
<1> DEFINE Inv == RecordInv /\ IdInv /\ RequestsWellFormed
<1>1. Init => Inv
  BY RecordInit, IdInit DEF Init, RequestsWellFormed
<1>2. Inv /\ [Next]_vars => Inv'
  <2> SUFFICES ASSUME Inv, [Next]_vars PROVE RequestsWellFormed'
    BY RecordStep, IdStep
  <2> SUFFICES ASSUME NEW t \in Sessions, scan'[t] # Idle
               PROVE  WellFormed(scan'[t].req)
    BY DEF RequestsWellFormed
  <2>1. CASE scan[t] # Idle /\ scan'[t].req = scan[t].req
    BY <2>1 DEF RequestsWellFormed
  <2>2. ASSUME NEW i \in DOMAIN calls[t], PreToolCall(t, i)
        PROVE  WellFormed(scan'[t].req)
    <3>1. scan'[t].req = Request(session[t], calls[t], calls[t][i].host, nextReq)
      BY <2>2 DEF PreToolCall, RecordInv, TypeInv, TypeOK
    <3> QED
      BY <2>2, <3>1, RequestPasses, BegunCall DEF RecordInv
  <2>3. CASE ScanAnswered(t) \/ ScanFailed(t)
    <3>1. PICK sess, d, rule : Conclude(t, sess, d, rule)
      BY <2>3 DEF ScanAnswered, ScanFailed
    <3>2. scan'[t].req = scan[t].req
      BY <3>1 DEF Conclude, RecordInv, TypeInv, TypeOK
    <3>3. scan[t] # Idle
      BY <2>3, PhaseTypes DEF ScanAnswered, ScanFailed, RecordInv, TypeInv
    <3> QED
      BY <2>1, <3>2, <3>3
  <2> QED
    BY <2>1, <2>2, <2>3, ScanMoves DEF RecordInv, FileInv
<1> QED
  BY <1>1, <1>2, PTL DEF Spec

-----------------------------------------------------------------------------
(***************************************************************************)
(* What becomes of a call that was held for its owner.  The request id     *)
(* ties a call to its history entry, to the open review and to the answer  *)
(* taken from it.                                                          *)
(***************************************************************************)


-----------------------------------------------------------------------------
(* Request ids.                                                            *)

CallReqs(t) ==
  \A i \in DOMAIN calls[t] :
    /\ calls[t][i].req < nextReq
    /\ calls[t][i].st = "new" <=> calls[t][i].req = 0

(* A request is that of one call.                                          *)
OneCall ==
  \A s, t \in Sessions : \A i \in DOMAIN calls[s] : \A j \in DOMAIN calls[t] :
    calls[s][i].req > 0 /\ calls[s][i].req = calls[t][j].req => s = t /\ i = j

(* The entries of a history are in the order of their requests, and the one *)
(* at work is later than all of them.                                      *)
Ordered(q) == \A i, j \in 1..Len(q) : i < j => q[i].req < q[j].req

HistoryReqs(t) ==
  LET q == session[t].history
  IN  /\ Ordered(q)
      /\ \A k \in 1..Len(q) : q[k].req < nextReq
      /\ scan[t] # Idle => \A k \in 1..Len(q) : q[k].req < scan[t].req.id

ScanReq(s) ==
  scan[s] # Idle =>
    /\ scan[s].req.id = calls[s][scan[s].call].req
    /\ \A t \in Sessions : \A k \in 1..Len(session[t].history) :
         session[t].history[k].req # scan[s].req.id

ReqInv ==
  /\ OneCall
  /\ \A t \in Sessions : CallReqs(t) /\ HistoryReqs(t) /\ ScanReq(t)

LEMMA ReqInit == Init => ReqInv
<1> SUFFICES ASSUME Init PROVE ReqInv
  OBVIOUS
<1>1. \A t \in Sessions : /\ calls[t] = <<>> /\ scan[t] = Idle
                          /\ session[t].history = <<>>
  BY DEF Init, EmptySession
<1> QED
  BY <1>1 DEF ReqInv, OneCall, CallReqs, HistoryReqs, ScanReq, Ordered

(* What a step does to the request id of a call.                            *)
CallKept(t, j) ==
  /\ j \in DOMAIN calls[t]
  /\ calls'[t][j].req = calls[t][j].req
  /\ calls'[t][j].st = "new" <=> calls[t][j].st = "new"

CallBegun(t, j) == j \in DOMAIN calls[t] /\ PreToolCall(t, j)

CallFresh(t, j) == calls'[t][j].req = 0 /\ calls'[t][j].st = "new"

LEMMA FreshMessage ==
  ASSUME TypeInv, NEW t \in Sessions, PostApiRequest(t), NEW j \in DOMAIN calls'[t]
  PROVE  CallFresh(t, j)
<1> DEFINE batch(n, host, act) ==
             calls' = [calls EXCEPT ![t] = [i \in 1..n |-> NewCall(host[i], act[i])]]
<1>1. \E n \in 1..MaxBatch :
        \E host \in [1..n -> HostIds \cup {None}], act \in [1..n -> Actions] :
          /\ \A i, k \in 1..n : i # k /\ host[i] = host[k] => host[i] = None
          /\ \A i \in 1..n : host[i] # None => used[t][host[i]] < IdReuse
          /\ batch(n, host, act)
          /\ used' = [used EXCEPT ![t] =
               [h \in HostIds |-> IF \E i \in 1..n : host[i] = h THEN @[h] + 1 ELSE @[h]]]
  BY Zenon DEF PostApiRequest
<1> HIDE DEF batch
<1>2. PICK n, host, act : n \in 1..MaxBatch /\ batch(n, host, act)
  BY <1>1, Zenon
<1> USE DEF batch
<1>3. calls'[t] = [i \in 1..n |-> NewCall(host[i], act[i])]
  BY <1>2 DEF TypeInv, TypeOK
<1> QED
  BY <1>3 DEF CallFresh, NewCall

LEMMA CallReqMoves ==
  ASSUME TypeInv, [Next]_vars, NEW t \in Sessions, NEW j \in DOMAIN calls'[t]
  PROVE  CallKept(t, j) \/ CallBegun(t, j) \/ CallFresh(t, j)
<1>1. CASE calls'[t] = <<>>
  BY <1>1
<1>2. CASE PostApiRequest(t)
  BY <1>2, FreshMessage
<1>3. CASE DOMAIN calls'[t] = DOMAIN calls[t] /\ CallGoesOn(t, j)
  BY <1>3 DEF CallGoesOn, CallKept, CallBegun
<1> QED
  BY <1>1, <1>2, <1>3, BatchMoves

LEMMA ReqGrows ==
  ASSUME TypeInv, [Next]_vars
  PROVE  nextReq' \in Nat /\ nextReq' >= nextReq /\ nextReq \in Nat /\ nextReq > 0
<1>1. nextReq \in Nat /\ nextReq > 0
  BY DEF TypeInv, TypeOK
<1>2. nextReq' = nextReq \/ nextReq' = nextReq + 1
  <2>1. ASSUME NEW s \in Sessions, SessionStep(s)
        PROVE  nextReq' = nextReq
    BY <2>1 DEF SessionStep, PreLlmCall, PostApiRequest, ScanAnswered, ScanFailed,
                ScanSaved, ScanRaised
  <2>2. ASSUME NEW s \in Sessions, NEW i \in DOMAIN calls[s], CallStep(s, i)
        PROVE  nextReq' = nextReq \/ nextReq' = nextReq + 1
    BY <2>2 DEF CallStep, PreToolCall, AnswerPopped, AnswerUnjoined, AnswerRecorded,
                AnswerRaised, PostToolCall
  <2>3. CASE Crash \/ RotateKey \/ UNCHANGED vars
    BY <2>3 DEF Crash, RotateKey, vars
  <2> QED
    BY <2>1, <2>2, <2>3 DEF Next
<1> QED
  BY <1>1, <1>2

(* While a scan is begun, no other call and no history changes.             *)
LEMMA BegunFacts ==
  ASSUME TypeInv, NEW t \in Sessions, NEW j, CallBegun(t, j)
  PROVE  /\ calls'[t][j].req = nextReq /\ calls'[t][j].st = "scanning"
         /\ nextReq' = nextReq + 1 /\ UNCHANGED <<session, reviews, lost>>
         /\ calls[t][j].st = "new" /\ scan[t] = Idle /\ j \in DOMAIN calls[t]
         /\ DOMAIN calls'[t] = DOMAIN calls[t]
         /\ \A i \in DOMAIN calls[t] : i # j => calls'[t][i] = calls[t][i]
         /\ \A s \in Sessions \ {t} : calls'[s] = calls[s] /\ scan'[s] = scan[s]
         /\ scan'[t].req.id = nextReq /\ scan'[t].call = j
         /\ scan'[t] # Idle /\ scan'[t].phase = "sent"
<1>1. scan' = [scan EXCEPT ![t] =
           [phase |-> "sent", call |-> j, sess |-> Numbered(session[t], calls[t][j].host),
            req |-> Request(session[t], calls[t], calls[t][j].host, nextReq)]]
  BY DEF CallBegun, PreToolCall
<1>2. scan'[t] = [phase |-> "sent", call |-> j, sess |-> Numbered(session[t], calls[t][j].host),
            req |-> Request(session[t], calls[t], calls[t][j].host, nextReq)]
  BY <1>1 DEF TypeInv, TypeOK
<1>3. /\ scan'[t].req.id = nextReq /\ scan'[t].call = j
      /\ scan'[t] # Idle /\ scan'[t].phase = "sent"
  BY <1>2 DEF Request, Idle
<1>4. \A s \in Sessions \ {t} : scan'[s] = scan[s]
  BY <1>1 DEF TypeInv, TypeOK
<1>5. PreToolCall(t, j) /\ j \in DOMAIN calls[t] /\ scan[t] = Idle
  BY DEF CallBegun, PreToolCall, Unlocked
<1> QED
  BY <1>3, <1>4, <1>5, BegunCall

LEMMA CallReqsStep ==
  ASSUME TypeInv, TypeInv', ReqInv, [Next]_vars, NEW t \in Sessions
  PROVE  CallReqs(t)'
<1> SUFFICES ASSUME NEW j \in DOMAIN calls'[t]
             PROVE  /\ calls'[t][j].req < nextReq'
                    /\ calls'[t][j].st = "new" <=> calls'[t][j].req = 0
  BY DEF CallReqs
<1>1. nextReq' \in Nat /\ nextReq' >= nextReq /\ nextReq \in Nat /\ nextReq > 0
  BY ReqGrows
<1>2. CASE CallKept(t, j)
  <2>1. calls[t][j].req < nextReq /\ (calls[t][j].st = "new" <=> calls[t][j].req = 0)
    BY <1>2 DEF CallKept, ReqInv, CallReqs
  <2>2. calls[t][j].req \in Nat
    <3>1. calls[t] \in Seq(HostCalls) /\ j \in DOMAIN calls[t]
      BY <1>2 DEF CallKept, TypeInv, TypeOK
    <3>2. calls[t][j] \in HostCalls
      BY <3>1
    <3> QED
      BY <3>2 DEF HostCalls
  <2> QED
    BY <1>1, <1>2, <2>1, <2>2 DEF CallKept
<1>3. CASE CallBegun(t, j)
  BY <1>1, <1>3, BegunFacts
<1>4. CASE CallFresh(t, j)
  BY <1>1, <1>4 DEF CallFresh
<1> QED
  BY <1>2, <1>3, <1>4, CallReqMoves

LEMMA OneCallStep ==
  ASSUME TypeInv, TypeInv', ReqInv, [Next]_vars
  PROVE  OneCall'
<1> SUFFICES ASSUME NEW s \in Sessions, NEW t \in Sessions,
                    NEW i \in DOMAIN calls'[s], NEW j \in DOMAIN calls'[t],
                    calls'[s][i].req > 0, calls'[s][i].req = calls'[t][j].req
             PROVE  s = t /\ i = j
  BY DEF OneCall
<1>1. ~CallFresh(s, i) /\ ~CallFresh(t, j)
  BY DEF CallFresh
<1>2. \A u \in Sessions : \A k \in DOMAIN calls[u] : calls[u][k].req < nextReq
  BY DEF ReqInv, CallReqs
<1>3. nextReq \in Nat
  BY ReqGrows
<1>4. CASE CallKept(s, i) /\ CallKept(t, j)
  <2>1. /\ i \in DOMAIN calls[s] /\ j \in DOMAIN calls[t]
        /\ calls[s][i].req > 0 /\ calls[s][i].req = calls[t][j].req
    BY <1>4 DEF CallKept
  <2>2. OneCall
    BY DEF ReqInv
  <2> QED
    BY <2>1, <2>2 DEF OneCall
<1>5. ASSUME NEW u \in Sessions, NEW k, CallBegun(u, k),
             NEW v \in Sessions, NEW l \in DOMAIN calls'[v],
             calls'[v][l].req = calls'[u][k].req
      PROVE  u = v /\ k = l
  <2>1. calls'[v][l].req = nextReq
    BY <1>5, BegunFacts
  <2>2. CASE u # v \/ k # l
    <3>1. l \in DOMAIN calls[v] /\ calls'[v][l] = calls[v][l]
      BY <1>5, <2>2, BegunFacts
    <3> QED
      BY <1>2, <1>3, <2>1, <3>1
  <2> QED
    BY <2>2
<1> QED
  BY <1>1, <1>4, <1>5, CallReqMoves

(* The entry of the call at work is later than the entries there are.       *)
LEMMA SavedOrdered ==
  ASSUME RecordInv, ReqInv, NEW t \in Sessions, ScanSaved(t)
  PROVE  LET p == session'[t].history
             q == session[t].history
             e == LastOf(scan[t].sess.history)
         IN  /\ e.req = scan[t].req.id /\ scan[t] # Idle /\ scan[t].phase = "decided"
             /\ Fits(scan[t].directive, e.decision)
             /\ p \in Seq(Entries) /\ q \in Seq(Entries) /\ e \in Entries
             /\ Slides(p, q, e, 2 * HistoryLimit)
             /\ Ordered(p)
<1> USE DEF RecordInv
<1> DEFINE p == session'[t].history
           q == session[t].history
           e == LastOf(scan[t].sess.history)
<1>1. /\ e.req = scan[t].req.id /\ scan[t] # Idle /\ scan[t].phase = "decided"
      /\ Fits(scan[t].directive, e.decision) /\ e \in Entries
  BY SavedAdds DEF AllInFlight, InFlight
<1>2. p \in Seq(Entries) /\ Slides(p, q, e, 2 * HistoryLimit)
  BY SavedSlides
<1>3. q \in Seq(Entries) /\ \A k \in 1..Len(q) : q[k].req \in Nat
  <2>1. session[t] \in SessionFiles
    BY DEF TypeInv, TypeOK
  <2>2. q \in Seq(Entries)
    BY <2>1 DEF SessionFiles
  <2>3. \A k \in 1..Len(q) : q[k] \in Entries
    BY <2>2
  <2> QED
    BY <2>2, <2>3 DEF Entries
<1>4. Ordered(q) /\ \A k \in 1..Len(q) : q[k].req < e.req
  BY <1>1 DEF ReqInv, HistoryReqs
<1> HIDE DEF p, q, e
<1>5. PICK drop \in Nat :
        /\ p # <<>> /\ p[Len(p)] = e
        /\ \A i \in 1..(Len(p) - 1) : i + drop \in 1..Len(q) /\ p[i] = q[i + drop]
  BY <1>2 DEF Slides
<1>6. Ordered(p)
  <2> SUFFICES ASSUME NEW i \in 1..Len(p), NEW j \in 1..Len(p), i < j
               PROVE  p[i].req < p[j].req
    BY DEF Ordered
  <2>1. i \in 1..(Len(p) - 1) /\ i + drop \in 1..Len(q) /\ p[i] = q[i + drop]
    BY <1>2, <1>5
  <2>2. CASE j = Len(p)
    BY <1>4, <1>5, <2>1, <2>2
  <2>3. CASE j # Len(p)
    <3>1. j \in 1..(Len(p) - 1)
      BY <1>2, <2>3
    <3>2. j + drop \in 1..Len(q) /\ p[j] = q[j + drop]
      BY <1>5, <3>1
    <3>3. i + drop < j + drop
      OBVIOUS
    <3> QED
      BY <1>4, <2>1, <3>2, <3>3 DEF Ordered
  <2> QED
    BY <2>2, <2>3
<1> QED
  BY <1>1, <1>2, <1>3, <1>6 DEF p, q, e

(* A scan at work was begun by this step, or goes on with the same request. *)
ScanGoesOn(t) ==
  /\ scan[t] # Idle /\ scan'[t].req = scan[t].req /\ scan'[t].call = scan[t].call
  /\ session'[t] = session[t]
  /\ calls'[t][scan[t].call] = calls[t][scan[t].call]

LEMMA ScanReqMoves ==
  ASSUME RecordInv, [Next]_vars, NEW t \in Sessions, scan'[t] # Idle
  PROVE  ScanGoesOn(t) \/ \E j \in DOMAIN calls[t] : CallBegun(t, j)
<1> USE DEF RecordInv
<1>1. CASE ScanAnswered(t) \/ ScanFailed(t)
  <2>1. PICK sess, d, rule : Conclude(t, sess, d, rule)
    BY <1>1 DEF ScanAnswered, ScanFailed
  <2>2. scan'[t].req = scan[t].req /\ scan'[t].call = scan[t].call
    BY <2>1 DEF Conclude, TypeInv, TypeOK
  <2>3. scan[t] # Idle
    BY <1>1, PhaseTypes DEF ScanAnswered, ScanFailed, TypeInv
  <2>4. UNCHANGED <<session, calls>>
    BY <1>1 DEF ScanAnswered, ScanFailed
  <2> QED
    BY <2>2, <2>3, <2>4 DEF ScanGoesOn
<1>2. ASSUME NEW j \in DOMAIN calls[t], PreToolCall(t, j)
      PROVE  CallBegun(t, j)
  BY <1>2 DEF CallBegun
<1>3. CASE /\ scan[t] # Idle /\ scan'[t] = scan[t] /\ session'[t] = session[t]
           /\ calls'[t][scan[t].call] = calls[t][scan[t].call]
  BY <1>3 DEF ScanGoesOn
<1> QED
  BY <1>1, <1>2, <1>3, ScanMoves DEF FileInv

(* The request of an entry is that of an entry there was, or of the scan    *)
(* just written.                                                           *)
LEMMA ReqOfEntry ==
  ASSUME RecordInv, RecordInv', ReqInv, [Next]_vars, NEW t \in Sessions,
         NEW k \in 1..Len(session'[t].history)
  PROVE  \/ \E l \in 1..Len(session[t].history) :
              session'[t].history[k].req = session[t].history[l].req
         \/ ScanSaved(t) /\ session'[t].history[k].req = scan[t].req.id
<1>1. CASE \E l \in 1..Len(session[t].history) :
             SameEntry(session'[t].history[k], session[t].history[l])
  BY <1>1 DEF SameEntry
<1>2. CASE /\ ScanSaved(t)
           /\ session'[t].history[k] = LastOf(scan[t].sess.history)
  BY <1>2, SavedOrdered
<1> QED
  BY <1>1, <1>2, EntriesMove

LEMMA ScanReqLow ==
  ASSUME TypeInv, ReqInv, NEW t \in Sessions, scan[t] # Idle
  PROVE  scan[t].req.id > 0 /\ scan[t].req.id < nextReq /\ scan[t].req.id \in Nat
<1> DEFINE i == scan[t].call
<1>1. i \in DOMAIN calls[t] /\ calls[t][i].st = "scanning"
  BY DEF TypeInv, LockInv
<1>2. calls[t][i] \in HostCalls
  BY <1>1 DEF TypeInv, TypeOK
<1>3. calls[t][i].req \in Nat /\ calls[t][i].req < nextReq /\ calls[t][i].req # 0
  BY <1>1, <1>2 DEF ReqInv, CallReqs, HostCalls
<1>4. scan[t].req.id = calls[t][i].req
  BY DEF ReqInv, ScanReq
<1> QED
  BY <1>3, <1>4

LEMMA HistoryReqsStep ==
  ASSUME RecordInv, RecordInv', ReqInv, [Next]_vars, NEW t \in Sessions
  PROVE  HistoryReqs(t)'
<1> DEFINE q == session[t].history
           p == session'[t].history
<1>1. /\ nextReq' \in Nat /\ nextReq' >= nextReq /\ nextReq \in Nat
      /\ \A k \in 1..Len(q) : q[k].req < nextReq /\ q[k].req \in Nat
  <2>1. session[t] \in SessionFiles
    BY DEF RecordInv, TypeInv, TypeOK
  <2>2. \A k \in 1..Len(q) : q[k] \in Entries
    BY <2>1 DEF SessionFiles
  <2>3. \A k \in 1..Len(q) : q[k].req < nextReq
    BY DEF ReqInv, HistoryReqs
  <2> QED
    BY <2>2, <2>3, ReqGrows DEF Entries, RecordInv
<1>2. \A k \in 1..Len(p) : p[k].req < nextReq'
  <2> SUFFICES ASSUME NEW k \in 1..Len(p) PROVE p[k].req < nextReq'
    OBVIOUS
  <2>1. CASE \E l \in 1..Len(q) : p[k].req = q[l].req
    BY <1>1, <2>1
  <2>2. CASE ScanSaved(t) /\ p[k].req = scan[t].req.id
    <3>1. scan[t].req.id < nextReq /\ scan[t].req.id \in Nat
      BY <2>2, SavedOrdered, ScanReqLow DEF RecordInv
    <3> QED
      BY <1>1, <2>2, <3>1
  <2> QED
    BY <2>1, <2>2, ReqOfEntry
<1>3. Ordered(p)
  <2>1. Ordered(q)
    BY DEF ReqInv, HistoryReqs
  <2>2. CASE Kept(t)
    <3>1. SameEntries(p, q)
      BY <2>2 DEF Kept
    <3> HIDE DEF p, q
    <3> QED
      BY <2>1, <3>1 DEF SameEntries, SameEntry, Ordered
  <2>3. CASE session'[t] = session[t]
    BY <2>1, <2>3
  <2> QED
    BY <2>2, <2>3, FileMoves, SavedOrdered DEF RecordInv, FileInv
<1>4. ASSUME scan'[t] # Idle
      PROVE  \A k \in 1..Len(p) : p[k].req < scan'[t].req.id
  <2>1. CASE ScanGoesOn(t)
    BY <2>1 DEF ScanGoesOn, ReqInv, HistoryReqs
  <2>2. ASSUME NEW j, CallBegun(t, j)
        PROVE  p = q /\ scan'[t].req.id = nextReq
    BY <2>2, BegunFacts DEF RecordInv
  <2> QED
    BY <1>1, <1>4, <2>1, <2>2, ScanReqMoves
<1> QED
  BY <1>2, <1>3, <1>4 DEF HistoryReqs

LEMMA ScanReqStep ==
  ASSUME RecordInv, RecordInv', ReqInv, [Next]_vars, NEW s \in Sessions
  PROVE  ScanReq(s)'
<1> SUFFICES ASSUME scan'[s] # Idle
             PROVE  /\ scan'[s].req.id = calls'[s][scan'[s].call].req
                    /\ \A t \in Sessions : \A k \in 1..Len(session'[t].history) :
                         session'[t].history[k].req # scan'[s].req.id
  BY DEF ScanReq
<1>1. ASSUME NEW t \in Sessions, NEW k \in 1..Len(session[t].history)
      PROVE  session[t].history[k].req < nextReq
  BY DEF ReqInv, HistoryReqs
<1>2. ASSUME NEW j, CallBegun(s, j)
      PROVE  /\ scan'[s].req.id = calls'[s][scan'[s].call].req
             /\ \A t \in Sessions : \A k \in 1..Len(session'[t].history) :
                  session'[t].history[k].req # scan'[s].req.id
  <2>1. /\ scan'[s].req.id = nextReq /\ scan'[s].call = j /\ calls'[s][j].req = nextReq
        /\ UNCHANGED session
    BY <1>2, BegunFacts DEF RecordInv
  <2>2. nextReq \in Nat
    BY DEF RecordInv, TypeInv, TypeOK
  <2> QED
    BY <1>1, <2>1, <2>2
<1>3. CASE ScanGoesOn(s)
  <2>1. /\ scan[s] # Idle /\ scan'[s].req.id = scan[s].req.id
        /\ calls'[s][scan'[s].call].req = calls[s][scan[s].call].req
    BY <1>3 DEF ScanGoesOn
  <2>2. /\ scan[s].req.id = calls[s][scan[s].call].req
        /\ \A t \in Sessions : \A k \in 1..Len(session[t].history) :
             session[t].history[k].req # scan[s].req.id
    BY <2>1 DEF ReqInv, ScanReq
  <2>3. ASSUME NEW t \in Sessions, ScanSaved(t)
        PROVE  scan[t].req.id # scan[s].req.id
    <3>1. t # s
      BY <2>3, SavedAdds DEF RecordInv
    <3>2. scan[t] # Idle
      BY <2>3, SavedAdds DEF RecordInv
    <3>3. /\ scan[t].req.id = calls[t][scan[t].call].req
          /\ scan[s].req.id = calls[s][scan[s].call].req
          /\ scan[t].call \in DOMAIN calls[t] /\ scan[s].call \in DOMAIN calls[s]
      BY <2>1, <3>2 DEF ReqInv, ScanReq, RecordInv, TypeInv, LockInv
    <3>4. scan[t].req.id > 0
      BY <3>2, ScanReqLow DEF RecordInv
    <3>5. OneCall
      BY DEF ReqInv
    <3> QED
      BY <3>1, <3>3, <3>4, <3>5 DEF OneCall
  <2>4. ASSUME NEW t \in Sessions, NEW k \in 1..Len(session'[t].history)
        PROVE  session'[t].history[k].req # scan[s].req.id
    BY <2>2, <2>3, ReqOfEntry
  <2> QED
    BY <2>1, <2>2, <2>4
<1> QED
  BY <1>2, <1>3, ScanReqMoves

LEMMA ReqStep == RecordInv /\ ReqInv /\ [Next]_vars => ReqInv'
<1> SUFFICES ASSUME RecordInv, ReqInv, [Next]_vars PROVE ReqInv'
  OBVIOUS
<1>1. RecordInv'
  BY RecordStep
<1> QED
  BY <1>1, CallReqsStep, OneCallStep, HistoryReqsStep, ScanReqStep DEF ReqInv, RecordInv

-----------------------------------------------------------------------------
(* What becomes of a call.                                                 *)

Waiting == {"asking", "answering"}

(* The end of its scan, a prompt, an answer or a result moves a call.       *)
CallEnds(t, j) == ScanSaved(t) /\ j = scan[t].call
CallRaised(t, j) == ScanRaised(t) /\ j = scan[t].call
CallMoved(t, j) ==
  /\ j \in DOMAIN calls[t]
  /\ \/ CallEnds(t, j) \/ CallRaised(t, j)
     \/ AnswerPopped(t, j) \/ AnswerUnjoined(t, j)
     \/ AnswerRecorded(t, j) \/ AnswerRaised(t, j) \/ PostToolCall(t, j)

CallStays(t, j) == j \in DOMAIN calls[t] /\ calls'[t][j] = calls[t][j]

LEMMA CallCases ==
  ASSUME TypeInv, [Next]_vars, NEW t \in Sessions, NEW j \in DOMAIN calls'[t]
  PROVE  CallStays(t, j) \/ CallMoved(t, j) \/ CallBegun(t, j) \/ CallFresh(t, j)
<1>1. ASSUME NEW s \in Sessions, SessionStep(s), ~CallFresh(t, j)
      PROVE  CallStays(t, j) \/ CallMoved(t, j)
  <2>1. CASE PreLlmCall(s)
    BY <2>1 DEF PreLlmCall, CallStays, TypeInv, TypeOK
  <2>2. CASE PostApiRequest(s)
    <3>1. CASE t = s
      BY <1>1, <2>2, <3>1, FreshMessage
    <3>2. CASE t # s
      BY <2>2, <3>2 DEF PostApiRequest, CallStays, TypeInv, TypeOK
    <3> QED
      BY <3>1, <3>2
  <2>3. CASE ScanAnswered(s) \/ ScanFailed(s)
    BY <2>3 DEF ScanAnswered, ScanFailed, CallStays
  <2>4. CASE ScanSaved(s) \/ ScanRaised(s)
    BY <2>4, ReleasedCall DEF CallStays, CallMoved, CallEnds, CallRaised
  <2> QED
    BY <1>1, <2>1, <2>2, <2>3, <2>4 DEF SessionStep
<1>2. ASSUME NEW s \in Sessions, NEW i \in DOMAIN calls[s], PreToolCall(s, i)
      PROVE  CallStays(t, j) \/ CallBegun(t, j)
  BY <1>2, BegunCall DEF CallStays, CallBegun
<1>3. ASSUME NEW s \in Sessions, NEW i \in DOMAIN calls[s], CallStep(s, i), ~PreToolCall(s, i)
      PROVE  CallStays(t, j) \/ CallMoved(t, j)
  <2>1. \/ AnswerPopped(s, i) \/ AnswerUnjoined(s, i)
        \/ AnswerRecorded(s, i) \/ AnswerRaised(s, i) \/ PostToolCall(s, i)
    BY <1>3 DEF CallStep
  <2> QED
    BY <2>1, CallChanges DEF CallStays, CallMoved
<1>4. CASE Crash
  BY <1>4 DEF Crash
<1>5. CASE RotateKey \/ UNCHANGED vars
  BY <1>5 DEF RotateKey, vars, CallStays
<1> QED
  BY <1>1, <1>2, <1>3, <1>4, <1>5 DEF Next

LEMMA EndsFacts ==
  ASSUME TypeInv, NEW t \in Sessions, NEW j \in DOMAIN calls[t], CallEnds(t, j)
  PROVE  /\ calls'[t][j].req = calls[t][j].req
         /\ UNCHANGED <<reviews, lost>>
         /\ \/ scan[t].directive = "run" /\ calls'[t][j].st = "running"
            \/ scan[t].directive = "block" /\ calls'[t][j].st = "refused"
            \/ scan[t].directive = "approve" /\ calls'[t][j].st = "asking"
<1> DEFINE st == [run |-> "running", block |-> "refused", approve |-> "asking"][scan[t].directive]
           d  == [calls[t][j] EXCEPT !.st = st, !.rule = scan[t].rule]
<1>1. calls[t][j] \in HostCalls /\ calls \in [Sessions -> Seq(HostCalls)]
  BY DEF TypeInv, TypeOK
<1>2. d.req = calls[t][j].req /\ d.st = st
  BY <1>1 DEF HostCalls
<1>3. SetCall(t, j, d) /\ UNCHANGED <<reviews, lost>>
  BY DEF CallEnds, ScanSaved
<1>4. scan[t].directive \in {"run", "block", "approve"}
  BY PhaseTypes DEF CallEnds, ScanSaved, TypeInv, Decided
<1>5. \/ scan[t].directive = "run" /\ st = "running"
      \/ scan[t].directive = "block" /\ st = "refused"
      \/ scan[t].directive = "approve" /\ st = "asking"
  BY <1>4
<1> HIDE DEF d, st
<1>6. calls'[t][j] = d
  BY <1>1, <1>3 DEF SetCall
<1> QED
  BY <1>2, <1>3, <1>5, <1>6

LEMMA RaisedFacts ==
  ASSUME TypeInv, NEW t \in Sessions, NEW j \in DOMAIN calls[t], CallRaised(t, j)
  PROVE  /\ calls'[t][j].req = calls[t][j].req /\ calls'[t][j].st = "refused"
         /\ scan[t] # Idle /\ UNCHANGED <<session, reviews, lost>>
<1> DEFINE d == [calls[t][j] EXCEPT !.st = "refused"]
<1>1. calls[t][j] \in HostCalls /\ calls \in [Sessions -> Seq(HostCalls)]
  BY DEF TypeInv, TypeOK
<1>2. d.req = calls[t][j].req /\ d.st = "refused"
  BY <1>1 DEF HostCalls
<1>3. SetCall(t, j, d) /\ scan[t] # Idle /\ UNCHANGED <<session, reviews, lost>>
  BY DEF CallRaised, ScanRaised, Unlocked
<1> HIDE DEF d
<1>4. calls'[t][j] = d
  BY <1>1, <1>3 DEF SetCall
<1> QED
  BY <1>2, <1>3, <1>4

LEMMA UnjoinedFacts ==
  ASSUME TypeInv, NEW t \in Sessions, NEW j \in DOMAIN calls[t], AnswerUnjoined(t, j)
  PROVE  /\ calls'[t][j].req = calls[t][j].req /\ calls'[t][j].st \in {"running", "refused"}
         /\ calls[t][j].st = "asking" /\ lost' = lost \cup {calls[t][j].req}
         /\ UNCHANGED <<session, reviews>>
<1>1. PICK choice : SetCall(t, j, [calls[t][j] EXCEPT !.st = ChoiceState(choice)])
  BY DEF AnswerUnjoined
<1> DEFINE d == [calls[t][j] EXCEPT !.st = ChoiceState(choice)]
<1>2. calls[t][j] \in HostCalls /\ calls \in [Sessions -> Seq(HostCalls)]
  BY DEF TypeInv, TypeOK
<1>3. d.req = calls[t][j].req /\ d.st = ChoiceState(choice)
  BY <1>2 DEF HostCalls
<1>4. ChoiceState(choice) \in {"running", "refused"}
  BY DEF ChoiceState
<1>5. SetCall(t, j, d)
  BY <1>1
<1> HIDE DEF d
<1>6. calls'[t][j] = d
  BY <1>2, <1>5 DEF SetCall
<1> QED
  BY <1>3, <1>4, <1>6 DEF AnswerUnjoined

LEMMA SettledFacts ==
  ASSUME TypeInv, NEW t \in Sessions, NEW j \in DOMAIN calls[t],
         AnswerRecorded(t, j) \/ AnswerRaised(t, j)
  PROVE  /\ calls'[t][j].req = calls[t][j].req
         /\ calls'[t][j].st = ChoiceState(calls[t][j].answer.choice)
         /\ calls[t][j].st = "answering" /\ UNCHANGED reviews
         /\ AnswerRecorded(t, j) => UNCHANGED lost
         /\ AnswerRaised(t, j) => /\ UNCHANGED session
                                  /\ lost' = lost \cup {calls[t][j].answer.req}
<1> DEFINE st == ChoiceState(calls[t][j].answer.choice)
           d == [calls[t][j] EXCEPT !.st = st, !.answer = None]
<1>1. calls[t][j] \in HostCalls /\ calls \in [Sessions -> Seq(HostCalls)]
  BY DEF TypeInv, TypeOK
<1>2. d.req = calls[t][j].req /\ d.st = st
  BY <1>1 DEF HostCalls
<1>3. SetCall(t, j, d)
  BY DEF AnswerRecorded, AnswerRaised
<1> HIDE DEF d
<1>4. calls'[t][j] = d
  BY <1>1, <1>3 DEF SetCall
<1> QED
  BY <1>2, <1>4 DEF AnswerRecorded, AnswerRaised

LEMMA DoneFacts ==
  ASSUME TypeInv, NEW t \in Sessions, NEW j \in DOMAIN calls[t], PostToolCall(t, j)
  PROVE  /\ calls'[t][j].req = calls[t][j].req /\ calls'[t][j].st = "done"
         /\ UNCHANGED <<reviews, lost>>
<1> DEFINE d == [calls[t][j] EXCEPT !.st = "done"]
<1>1. calls[t][j] \in HostCalls /\ calls \in [Sessions -> Seq(HostCalls)]
  BY DEF TypeInv, TypeOK
<1>2. d.req = calls[t][j].req /\ d.st = "done"
  BY <1>1 DEF HostCalls
<1>3. SetCall(t, j, d) /\ UNCHANGED <<reviews, lost>>
  BY DEF PostToolCall
<1> HIDE DEF d
<1>4. calls'[t][j] = d
  BY <1>1, <1>3 DEF SetCall
<1> QED
  BY <1>2, <1>3, <1>4

(* A prompt takes a review of its rule from the file, whoever asked it.     *)
AnswerFrom(r, choice) ==
  [sid |-> r.sid, req |-> r.req, choice |-> choice, final |-> FinalDecision(r.onError, choice)]

LEMMA PoppedFacts ==
  ASSUME TypeInv, NEW t \in Sessions, NEW j \in DOMAIN calls[t], AnswerPopped(t, j)
  PROVE  \E choice \in Choices, n \in DOMAIN reviews :
           /\ calls'[t][j].req = calls[t][j].req /\ calls'[t][j].st = "answering"
           /\ calls'[t][j].answer = AnswerFrom(reviews[n], choice)
           /\ calls[t][j].st = "asking" /\ reviews' = Without(reviews, n)
           /\ lost' = lost \cup IF reviews[n].req = calls[t][j].req THEN {}
                                ELSE {reviews[n].req, calls[t][j].req}
           /\ UNCHANGED session
<1>1. PICK choice \in Choices, n \in ReviewsOf(calls[t][j].rule) :
        /\ SetCall(t, j, [calls[t][j] EXCEPT !.st = "answering",
                            !.answer = AnswerFrom(reviews[n], choice)])
        /\ reviews' = Without(reviews, n)
        /\ lost' = lost \cup IF reviews[n].req = calls[t][j].req THEN {}
                             ELSE {reviews[n].req, calls[t][j].req}
  BY DEF AnswerPopped, AnswerFrom
<1> DEFINE a == AnswerFrom(reviews[n], choice)
           d == [calls[t][j] EXCEPT !.st = "answering", !.answer = a]
<1>2. calls[t][j] \in HostCalls /\ calls \in [Sessions -> Seq(HostCalls)]
  BY DEF TypeInv, TypeOK
<1>3. SetCall(t, j, d)
  BY <1>1
<1> HIDE DEF a
<1>4. d.req = calls[t][j].req /\ d.st = "answering" /\ d.answer = a
  BY <1>2 DEF HostCalls
<1> HIDE DEF d
<1>5. calls'[t][j] = d
  BY <1>2, <1>3 DEF SetCall
<1>6. calls[t][j].st = "asking" /\ UNCHANGED session /\ n \in DOMAIN reviews
  BY DEF AnswerPopped, ReviewsOf
<1>7. /\ calls'[t][j].req = calls[t][j].req /\ calls'[t][j].st = "answering"
      /\ calls'[t][j].answer = AnswerFrom(reviews[n], choice)
  BY <1>4, <1>5 DEF a
<1> QED
  BY <1>1, <1>6, <1>7

-----------------------------------------------------------------------------
LEMMA HistoryTypes ==
  ASSUME RecordInv, NEW t \in Sessions
  PROVE  session[t].history \in Seq(Entries)
<1>1. session[t] \in SessionFiles
  BY DEF RecordInv, TypeInv, TypeOK
<1> QED
  BY <1>1 DEF SessionFiles

LEMMA HistoryTypesAfter ==
  ASSUME RecordInv', NEW t \in Sessions
  PROVE  session'[t].history \in Seq(Entries)
<1>1. session'[t] \in SessionFiles
  BY DEF RecordInv, TypeInv, TypeOK
<1> QED
  BY <1>1 DEF SessionFiles

(* A request that was written is in the history, or later ones crowded it   *)
(* out.                                                                    *)
InHistory(q, r, n) ==
  \/ \E k \in 1..Len(q) : q[k].req = r
  \/ Len(q) = n /\ \A k \in 1..Len(q) : q[k].req > r

OnRecord(t, r) == InHistory(session[t].history, r, 2 * HistoryLimit)
RecordedAfter(t, r) == InHistory(session'[t].history, r, 2 * HistoryLimit)

LEMMA SlidesInHistory ==
  ASSUME NEW q \in Seq(Entries), NEW p \in Seq(Entries), NEW e \in Entries,
         NEW n \in Nat, n > 0, NEW r \in Nat, Slides(p, q, e, n), Ordered(q),
         \A k \in 1..Len(q) : q[k].req < e.req, InHistory(q, r, n), Len(q) <= n
  PROVE  InHistory(p, r, n)
<1>1. PICK drop \in Nat :
        /\ drop = Len(q) + 1 - Len(p)
        /\ p # <<>> /\ p[Len(p)] = e
        /\ \A i \in 1..(Len(p) - 1) : i + drop \in 1..Len(q) /\ p[i] = q[i + drop]
  BY DEF Slides
<1>2. Len(p) = IF Len(q) >= n THEN n ELSE Len(q) + 1
  BY DEF Slides
<1>3. /\ \A k \in 1..Len(q) : q[k].req \in Nat
      /\ e.req \in Nat /\ Len(p) \in Nat /\ Len(q) \in Nat /\ Len(p) > 0
  <2>1. \A k \in 1..Len(q) : q[k] \in Entries
    OBVIOUS
  <2>2. Len(p) \in Nat /\ Len(q) \in Nat /\ Len(p) > 0
    BY <1>1
  <2> QED
    BY <2>1, <2>2 DEF Entries
<1>4. CASE \E k \in 1..Len(q) : q[k].req = r
  <2>1. PICK k \in 1..Len(q) : q[k].req = r
    BY <1>4
  <2>2. CASE k > drop
    <3>1. k - drop \in 1..(Len(p) - 1) /\ (k - drop) + drop = k
      BY <1>1, <1>3, <2>2
    <3>2. p[k - drop] = q[k]
      BY <1>1, <3>1
    <3>3. k - drop \in 1..Len(p)
      BY <1>3, <3>1
    <3> QED
      BY <2>1, <3>2, <3>3 DEF InHistory
  <2>3. CASE k <= drop
    <3>1. Len(p) = n
      BY <1>1, <1>2, <1>3, <2>3
    <3>2. ASSUME NEW i \in 1..Len(p) PROVE p[i].req > r
      <4>1. CASE i = Len(p)
        <5>1. p[i] = e /\ r < e.req
          BY <1>1, <2>1, <4>1
        <5> QED
          BY <1>3, <5>1
      <4>2. CASE i # Len(p)
        <5>1. i \in 1..(Len(p) - 1)
          BY <1>3, <4>2
        <5>2. i + drop \in 1..Len(q) /\ p[i] = q[i + drop]
          BY <1>1, <5>1
        <5>3. k < i + drop
          BY <2>3, <5>1
        <5>4. q[k].req < q[i + drop].req
          BY <5>2, <5>3 DEF Ordered
        <5> QED
          BY <1>3, <2>1, <5>2, <5>4
      <4> QED
        BY <4>1, <4>2
    <3> QED
      BY <3>1, <3>2 DEF InHistory
  <2> QED
    BY <2>2, <2>3
<1>5. CASE Len(q) = n /\ \A k \in 1..Len(q) : q[k].req > r
  <2>1. Len(p) = n
    BY <1>2, <1>3, <1>5
  <2>2. ASSUME NEW i \in 1..Len(p) PROVE p[i].req > r
    <3>1. CASE i = Len(p)
      <4>1. Len(q) \in 1..Len(q)
        BY <1>3, <1>5
      <4>2. q[Len(q)].req < e.req /\ q[Len(q)].req > r /\ q[Len(q)].req \in Nat
        BY <1>3, <1>5, <4>1
      <4>3. p[i] = e
        BY <1>1, <3>1
      <4> QED
        BY <1>3, <4>2, <4>3
    <3>2. CASE i # Len(p)
      <4>1. i \in 1..(Len(p) - 1)
        BY <1>3, <3>2
      <4> QED
        BY <1>1, <1>5, <4>1
    <3> QED
      BY <3>1, <3>2
  <2> QED
    BY <2>1, <2>2 DEF InHistory
<1> QED
  BY <1>4, <1>5 DEF InHistory

LEMMA StaysOnRecord ==
  ASSUME RecordInv, ReqInv, [Next]_vars, NEW t \in Sessions, NEW r \in Nat, OnRecord(t, r)
  PROVE  RecordedAfter(t, r)
<1> DEFINE q == session[t].history
           p == session'[t].history
<1>1. CASE session'[t] = session[t]
  BY <1>1 DEF OnRecord, RecordedAfter
<1>2. CASE Kept(t)
  <2>1. Len(p) = Len(q) /\ \A i \in 1..Len(q) : p[i].req = q[i].req
    BY <1>2 DEF Kept, SameEntries, SameEntry
  <2> HIDE DEF p, q
  <2>2. InHistory(q, r, 2 * HistoryLimit) => InHistory(p, r, 2 * HistoryLimit)
    BY <2>1 DEF InHistory
  <2> QED
    BY <2>2 DEF OnRecord, RecordedAfter, p, q
<1>3. CASE ScanSaved(t)
  <2> DEFINE e == LastOf(scan[t].sess.history)
             n == 2 * HistoryLimit
  <2>1. /\ p \in Seq(Entries) /\ q \in Seq(Entries) /\ e \in Entries /\ Slides(p, q, e, n)
        /\ \A k \in 1..Len(q) : q[k].req < e.req
    BY <1>3, SavedOrdered DEF ReqInv, HistoryReqs
  <2>2. n \in Nat /\ n > 0
    BY LimitAssumption
  <2>3. Ordered(q) /\ Len(q) <= n /\ InHistory(q, r, n)
    BY DEF ReqInv, HistoryReqs, OnRecord, RecordInv, FileInv, AllTrimmed, Trimmed
  <2> HIDE DEF p, q, e, n
  <2>4. InHistory(p, r, n)
    BY <2>1, <2>2, <2>3, SlidesInHistory
  <2> QED
    BY <2>4 DEF RecordedAfter, p, n
<1> QED
  BY <1>1, <1>2, <1>3, FileMoves DEF RecordInv, FileInv

LEMMA EndsOnRecord ==
  ASSUME RecordInv, ReqInv, NEW t \in Sessions, ScanSaved(t)
  PROVE  RecordedAfter(t, scan[t].req.id)
<1> DEFINE p == session'[t].history
<1>1. p \in Seq(Entries) /\ p # <<>> /\ p[Len(p)].req = scan[t].req.id
  BY SavedOrdered DEF Slides
<1> HIDE DEF p
<1>2. Len(p) \in 1..Len(p)
  BY <1>1
<1>3. InHistory(p, scan[t].req.id, 2 * HistoryLimit)
  BY <1>1, <1>2 DEF InHistory
<1> QED
  BY <1>3 DEF RecordedAfter, p

(* No call runs, and no prompt is open, that the session file does not      *)
(* show, unless as many later calls followed as save_session keeps: an      *)
(* exception between answer and write never lets a call through.           *)
THEOREM RunsRecorded == Spec => []RunsAreRecorded
<1> DEFINE Inv == RecordInv /\ ReqInv /\ RunsAreRecorded
           Told == {"asking", "answering", "running"}
<1>1. RecordInv => (RunsAreRecorded <=> \A s \in Sessions : \A i \in DOMAIN calls[s] :
                            calls[s][i].st \in Told => OnRecord(s, calls[s][i].req))
  <2> SUFFICES ASSUME RecordInv, NEW s \in Sessions, NEW r
               PROVE  OnRecord(s, r) <=>
                        LET q == session[s].history
                        IN  \/ \E k \in DOMAIN q : q[k].req = r
                            \/ Len(q) = 2 * HistoryLimit /\ \A k \in DOMAIN q : q[k].req > r
    BY DEF RunsAreRecorded
  <2>1. session[s].history \in Seq(Entries)
    BY HistoryTypes
  <2> QED
    BY <2>1 DEF OnRecord, InHistory
<1>2. Init => Inv
  BY RecordInit, ReqInit DEF Init, RunsAreRecorded
<1>3. Inv /\ [Next]_vars => Inv'
  <2> SUFFICES ASSUME Inv, [Next]_vars PROVE RunsAreRecorded'
    BY RecordStep, ReqStep
  <2> SUFFICES ASSUME NEW s \in Sessions, NEW i \in DOMAIN calls'[s], calls'[s][i].st \in Told
               PROVE  RecordedAfter(s, calls'[s][i].req)
    <3>1. ASSUME NEW s \in Sessions, NEW r, RecordedAfter(s, r)
          PROVE  LET q == session'[s].history
                 IN  \/ \E k \in DOMAIN q : q[k].req = r
                     \/ Len(q) = 2 * HistoryLimit /\ \A k \in DOMAIN q : q[k].req > r
      <4>1. session'[s].history \in Seq(Entries)
        BY RecordStep, HistoryTypesAfter
      <4> QED
        BY <3>1, <4>1 DEF RecordedAfter, InHistory
    <3> QED
      BY <3>1 DEF RunsAreRecorded
  <2>1. ASSUME i \in DOMAIN calls[s], calls'[s][i].req = calls[s][i].req, calls[s][i].st \in Told
        PROVE  RecordedAfter(s, calls'[s][i].req)
    <3>1. calls[s][i] \in HostCalls
      BY <2>1 DEF RecordInv, TypeInv, TypeOK
    <3>2. calls[s][i].req \in Nat
      BY <3>1 DEF HostCalls
    <3>3. OnRecord(s, calls[s][i].req)
      BY <1>1, <2>1
    <3>4. RecordedAfter(s, calls[s][i].req)
      BY <3>2, <3>3, StaysOnRecord
    <3> QED
      BY <2>1, <3>4
  <2>2. CASE CallStays(s, i)
    BY <2>1, <2>2 DEF CallStays
  <2>3. CASE CallBegun(s, i)
    BY <2>3, BegunFacts DEF RecordInv
  <2>4. CASE CallFresh(s, i)
    BY <2>4 DEF CallFresh
  <2>5. CASE CallMoved(s, i)
    <3>1. CASE CallEnds(s, i)
      <4>1. calls'[s][i].req = scan[s].req.id
        BY <2>5, <3>1, EndsFacts, SavedAdds DEF CallMoved, CallEnds, RecordInv, ReqInv, ScanReq
      <4>2. RecordedAfter(s, scan[s].req.id)
        BY <3>1, EndsOnRecord DEF CallEnds
      <4> QED
        BY <4>1, <4>2
    <3>2. CASE CallRaised(s, i)
      BY <2>5, <3>2, RaisedFacts DEF CallMoved, RecordInv
    <3>3. CASE AnswerPopped(s, i)
      BY <2>1, <2>5, <3>3, PoppedFacts DEF CallMoved, RecordInv
    <3>4. CASE AnswerUnjoined(s, i)
      BY <2>1, <2>5, <3>4, UnjoinedFacts DEF CallMoved, RecordInv
    <3>5. CASE AnswerRecorded(s, i) \/ AnswerRaised(s, i)
      BY <2>1, <2>5, <3>5, SettledFacts DEF CallMoved, RecordInv
    <3>6. CASE PostToolCall(s, i)
      BY <2>5, <3>6, DoneFacts DEF CallMoved, RecordInv
    <3> QED
      BY <2>5, <3>1, <3>2, <3>3, <3>4, <3>5, <3>6 DEF CallMoved
  <2> QED
    BY <2>2, <2>3, <2>4, <2>5, CallCases DEF RecordInv
<1> QED
  BY <1>2, <1>3, PTL DEF Spec

-----------------------------------------------------------------------------
(* Reviews and answers.                                                    *)

(* Whose request a review is.                                              *)
ReviewOf(r) ==
  /\ 0 < r.req /\ r.req < nextReq
  /\ \A t \in Sessions : \A j \in DOMAIN calls[t] : calls[t][j].req = r.req => t = r.sid

(* An answer is that of the call's own request, or both are lost.           *)
AnswerOf(t, j) ==
  LET c == calls[t][j]
      a == c.answer
  IN  c.st = "answering" =>
        /\ a.req < nextReq
        /\ a.req = c.req => a.sid = t
        /\ a.req # c.req => a.req \in lost /\ c.req \in lost
        /\ a.final \notin NotRun <=> a.choice = "approve"

AskInv ==
  /\ \A n \in DOMAIN reviews : ReviewOf(reviews[n])
  /\ \A t \in Sessions : \A j \in DOMAIN calls[t] : AnswerOf(t, j)

LEMMA AskInit == Init => AskInv
  BY DEF Init, AskInv

(* A scan puts the call before its owner.                                   *)
Asks(s) ==
  /\ scan[s] # Idle /\ scan[s].phase = "sent"
  /\ scan'[s].phase = "decided" /\ scan'[s].directive = "approve"
  /\ UNCHANGED <<session, calls, nextReq>>
  /\ \E rule, onError :
       reviews' = PutReview(reviews, [key |-> rule, sid |-> s, req |-> scan[s].req.id,
                                      onError |-> onError])

LEMMA ConcludesAsks ==
  ASSUME TypeInv, FlightInv, NEW s \in Sessions, ScanAnswered(s) \/ ScanFailed(s)
  PROVE  /\ scan[s].phase = "sent" /\ scan[s] # Idle /\ scan'[s].phase = "decided"
         /\ scan'[s].req = scan[s].req /\ \A t \in Sessions \ {s} : scan'[t] = scan[t]
         /\ UNCHANGED <<session, calls, nextReq>> /\ lost \subseteq lost'
         /\ \/ Asks(s)
            \/ scan'[s].directive # "approve" /\ reviews' = reviews
<1>1. PICK sess, e, d, rule, onError : Concluded(s, sess, e, d, rule, onError)
  BY AnsweredConcludes, FailedConcludes
<1>2. scan'[s] = [phase |-> "decided", call |-> scan[s].call, sess |-> sess, req |-> scan[s].req,
                  directive |-> d, rule |-> rule]
  BY <1>1 DEF Concluded, Conclude, TypeInv, TypeOK
<1>3. \A t \in Sessions \ {s} : scan'[t] = scan[t]
  BY <1>1 DEF Concluded, Conclude, TypeInv, TypeOK
<1>4. scan[s].phase = "sent" /\ UNCHANGED <<session, calls, nextReq>>
  BY DEF ScanAnswered, ScanFailed
<1>5. scan[s] # Idle
  BY <1>4, PhaseTypes DEF TypeInv
<1>6. /\ reviews' = IF d = "approve"
                    THEN PutReview(reviews, [key |-> rule, sid |-> s, req |-> scan[s].req.id,
                                             onError |-> onError])
                    ELSE reviews
  BY <1>1 DEF Concluded, Ask
<1>10. lost \subseteq lost'
  BY <1>1 DEF Concluded, Ask
<1>7. scan'[s].phase = "decided" /\ scan'[s].req = scan[s].req /\ scan'[s].directive = d
  BY <1>2
<1>8. CASE d = "approve"
  <2>1. reviews' = PutReview(reviews, [key |-> rule, sid |-> s, req |-> scan[s].req.id,
                                       onError |-> onError])
    BY <1>6, <1>8
  <2>2. Asks(s)
    BY <1>4, <1>5, <1>7, <1>8, <2>1 DEF Asks
  <2> QED
    BY <1>3, <1>4, <1>5, <1>7, <1>10, <2>2
<1>9. CASE d # "approve"
  BY <1>3, <1>4, <1>5, <1>6, <1>7, <1>9, <1>10
<1> QED
  BY <1>8, <1>9

LEMMA ReviewMoves ==
  ASSUME TypeInv, FlightInv, [Next]_vars
  PROVE  /\ lost \subseteq lost'
         /\ \/ reviews' = reviews
            \/ \E s \in Sessions : Asks(s)
            \/ \E s \in Sessions : \E i \in DOMAIN calls[s] : AnswerPopped(s, i)
<1>1. ASSUME NEW s \in Sessions, SessionStep(s)
      PROVE  lost \subseteq lost' /\ (reviews' = reviews \/ Asks(s))
  <2>1. CASE ScanAnswered(s) \/ ScanFailed(s)
    BY <2>1, ConcludesAsks
  <2> QED
    BY <1>1, <2>1 DEF SessionStep, PreLlmCall, PostApiRequest, ScanSaved, ScanRaised
<1>2. ASSUME NEW s \in Sessions, NEW i \in DOMAIN calls[s], CallStep(s, i)
      PROVE  lost \subseteq lost' /\ (reviews' = reviews \/ AnswerPopped(s, i))
  <2>1. CASE AnswerPopped(s, i)
    BY <2>1 DEF AnswerPopped
  <2>2. CASE PreToolCall(s, i) \/ PostToolCall(s, i)
    BY <2>2 DEF PreToolCall, PostToolCall
  <2>3. CASE AnswerUnjoined(s, i) \/ AnswerRecorded(s, i) \/ AnswerRaised(s, i)
    BY <2>3 DEF AnswerUnjoined, AnswerRecorded, AnswerRaised
  <2> QED
    BY <1>2, <2>1, <2>2, <2>3 DEF CallStep
<1>3. CASE Crash \/ RotateKey \/ UNCHANGED vars
  BY <1>3 DEF Crash, RotateKey, vars
<1> QED
  BY <1>1, <1>2, <1>3 DEF Next

(* A review was in the file before, or is the one just put.                 *)
LEMMA PutFrom ==
  ASSUME NEW rs \in Seq(Reviews), NEW r, NEW n \in DOMAIN PutReview(rs, r)
  PROVE  PutReview(rs, r)[n] = r \/ \E m \in DOMAIN rs : PutReview(rs, r)[n] = rs[m]
<1>1. CASE \E i \in DOMAIN rs : rs[i].key = r.key
  BY <1>1 DEF PutReview
<1>2. CASE ~ \E i \in DOMAIN rs : rs[i].key = r.key
  <2> DEFINE q == Append(rs, r)
             drop == IF Len(q) > ReviewsKeep THEN Len(q) - ReviewsKeep ELSE 0
  <2>1. PutReview(rs, r) = [i \in 1..(Len(q) - drop) |-> q[i + drop]]
    BY <1>2 DEF PutReview, Newest
  <2>2. Len(q) = Len(rs) + 1 /\ Len(rs) \in Nat /\ drop \in Nat
    BY LimitAssumption
  <2>3. \A i \in 1..(Len(rs) + 1) : q[i] = r \/ (i \in DOMAIN rs /\ q[i] = rs[i])
    <3>1. rs \in Seq(Reviews \cup {r})
      <4>1. \A i \in 1..Len(rs) : rs[i] \in Reviews \cup {r}
        OBVIOUS
      <4> QED
        BY <4>1
    <3>2. /\ \A i \in 1..Len(rs) : q[i] = rs[i]
          /\ q[Len(rs) + 1] = r
      BY <3>1, AppendFacts
    <3>3. \A i \in 1..(Len(rs) + 1) : i = Len(rs) + 1 \/ i \in 1..Len(rs)
      BY <2>2
    <3>4. DOMAIN rs = 1..Len(rs)
      OBVIOUS
    <3> HIDE DEF q, drop
    <3> QED
      BY <3>2, <3>3, <3>4
  <2> HIDE DEF q, drop
  <2>4. n \in 1..(Len(q) - drop) /\ PutReview(rs, r)[n] = q[n + drop]
    BY <2>1
  <2>5. n + drop \in 1..(Len(rs) + 1)
    BY <2>2, <2>4
  <2> QED
    BY <2>3, <2>4, <2>5
<1> QED
  BY <1>1, <1>2

LEMMA WithoutFrom ==
  ASSUME NEW rs \in Seq(Reviews), NEW n \in DOMAIN rs, NEW k \in DOMAIN Without(rs, n)
  PROVE  LET m == IF k < n THEN k ELSE k + 1
         IN  m \in DOMAIN rs /\ m # n /\ Without(rs, n)[k] = rs[m]
  BY DEF Without

LEMMA ReviewFrom ==
  ASSUME TypeInv, FlightInv, [Next]_vars, NEW n \in DOMAIN reviews'
  PROVE  \/ \E m \in DOMAIN reviews : reviews'[n] = reviews[m]
         \/ \E s \in Sessions : /\ Asks(s) /\ reviews'[n].sid = s
                                /\ reviews'[n].req = scan[s].req.id
<1>1. reviews \in Seq(Reviews)
  BY DEF TypeInv, TypeOK
<1>2. ASSUME NEW s \in Sessions, Asks(s)
      PROVE  \/ \E m \in DOMAIN reviews : reviews'[n] = reviews[m]
             \/ reviews'[n].sid = s /\ reviews'[n].req = scan[s].req.id
  <2>1. PICK rule, onError :
          reviews' = PutReview(reviews, [key |-> rule, sid |-> s, req |-> scan[s].req.id,
                                         onError |-> onError])
    BY <1>2 DEF Asks
  <2> DEFINE r == [key |-> rule, sid |-> s, req |-> scan[s].req.id, onError |-> onError]
  <2>2. r.sid = s /\ r.req = scan[s].req.id
    OBVIOUS
  <2> HIDE DEF r
  <2>3. reviews' = PutReview(reviews, r)
    BY <2>1 DEF r
  <2>4. reviews'[n] = r \/ \E m \in DOMAIN reviews : reviews'[n] = reviews[m]
    BY <1>1, <2>3, PutFrom
  <2> QED
    BY <2>2, <2>4
<1>3. ASSUME NEW s \in Sessions, NEW i \in DOMAIN calls[s], AnswerPopped(s, i)
      PROVE  \E m \in DOMAIN reviews : reviews'[n] = reviews[m]
  <2>1. PICK l \in DOMAIN reviews : reviews' = Without(reviews, l)
    BY <1>3, PoppedFacts
  <2> QED
    BY <1>1, <2>1, WithoutFrom
<1> QED
  BY <1>2, <1>3, ReviewMoves

LEMMA ReviewOfStep ==
  ASSUME RecordInv, RecordInv', ReqInv, AskInv, [Next]_vars, NEW n \in DOMAIN reviews'
  PROVE  /\ 0 < reviews'[n].req /\ reviews'[n].req < nextReq'
         /\ \A t \in Sessions : \A j \in DOMAIN calls'[t] :
              calls'[t][j].req = reviews'[n].req => t = reviews'[n].sid
<1> DEFINE r == reviews'[n]
<1>1. nextReq' \in Nat /\ nextReq' >= nextReq /\ nextReq \in Nat
  BY ReqGrows DEF RecordInv
<1>2. ASSUME NEW m \in DOMAIN reviews, r = reviews[m]
      PROVE  /\ 0 < r.req /\ r.req < nextReq'
             /\ \A t \in Sessions : \A j \in DOMAIN calls'[t] :
                  calls'[t][j].req = r.req => t = r.sid
  <2>1. /\ 0 < r.req /\ r.req < nextReq
        /\ \A t \in Sessions : \A j \in DOMAIN calls[t] : calls[t][j].req = r.req => t = r.sid
    BY <1>2 DEF AskInv, ReviewOf
  <2>2. r.req \in Nat
    <3>1. reviews[m] \in Reviews
      BY DEF RecordInv, TypeInv, TypeOK
    <3> QED
      BY <1>2, <3>1 DEF Reviews
  <2> HIDE DEF r
  <2>3. ASSUME NEW t \in Sessions, NEW j \in DOMAIN calls'[t], calls'[t][j].req = r.req
        PROVE  t = r.sid
    <3>1. CASE CallKept(t, j)
      BY <2>1, <2>3, <3>1 DEF CallKept
    <3>2. CASE CallBegun(t, j)
      <4>1. calls'[t][j].req = nextReq
        BY <3>2, BegunFacts DEF RecordInv
      <4> QED
        BY <1>1, <2>1, <2>2, <2>3, <4>1
    <3>3. CASE CallFresh(t, j)
      BY <2>1, <2>2, <2>3, <3>3 DEF CallFresh
    <3> QED
      BY <3>1, <3>2, <3>3, CallReqMoves DEF RecordInv
  <2> QED
    BY <1>1, <2>1, <2>2, <2>3
<1>3. ASSUME NEW s \in Sessions, Asks(s), r.sid = s, r.req = scan[s].req.id
      PROVE  /\ 0 < r.req /\ r.req < nextReq'
             /\ \A t \in Sessions : \A j \in DOMAIN calls'[t] :
                  calls'[t][j].req = r.req => t = r.sid
  <2>1. scan[s] # Idle /\ UNCHANGED <<calls, nextReq>>
    BY <1>3 DEF Asks
  <2>2. 0 < r.req /\ r.req < nextReq
    BY <1>3, <2>1, ScanReqLow DEF RecordInv
  <2>3. scan[s].call \in DOMAIN calls[s] /\ calls[s][scan[s].call].req = r.req
    BY <1>3, <2>1 DEF RecordInv, TypeInv, LockInv, ReqInv, ScanReq
  <2> HIDE DEF r
  <2>4. OneCall
    BY DEF ReqInv
  <2> QED
    BY <1>3, <2>1, <2>2, <2>3, <2>4 DEF OneCall
<1> HIDE DEF r
<1>4. \/ \E m \in DOMAIN reviews : r = reviews[m]
      \/ \E s \in Sessions : Asks(s) /\ r.sid = s /\ r.req = scan[s].req.id
  BY ReviewFrom DEF r, RecordInv
<1> QED
  BY <1>2, <1>3, <1>4 DEF r

LEMMA FinalFits ==
  ASSUME NEW onError \in BOOLEAN, NEW choice \in Choices
  PROVE  FinalDecision(onError, choice) \notin NotRun <=> choice = "approve"
<1>1. CASE onError
  BY <1>1 DEF FinalDecision, NotRun
<1>2. CASE ~onError
  <2>1. FinalDecision(onError, choice) =
          [approve |-> "approved_by_user", deny |-> "denied_by_user",
           timeout |-> "review_timed_out", other |-> "blocked"][choice]
    BY <1>2 DEF FinalDecision
  <2>2. choice \in {"approve", "deny", "timeout", "other"}
    BY DEF Choices
  <2> QED
    BY <2>1, <2>2 DEF NotRun
<1> QED
  BY <1>1, <1>2

(* The moves after which a call is not answering.                           *)
LEMMA NoAnswerLeft ==
  ASSUME TypeInv, NEW t \in Sessions, NEW j \in DOMAIN calls'[t],
         CallBegun(t, j) \/ CallFresh(t, j) \/ (CallMoved(t, j) /\ ~AnswerPopped(t, j))
  PROVE  calls'[t][j].st # "answering"
<1>1. CASE CallBegun(t, j)
  BY <1>1, BegunFacts
<1>2. CASE CallFresh(t, j)
  BY <1>2 DEF CallFresh
<1>3. CASE CallMoved(t, j) /\ ~AnswerPopped(t, j)
  <2>1. j \in DOMAIN calls[t]
    BY <1>3 DEF CallMoved
  <2>2. CASE CallEnds(t, j)
    BY <2>1, <2>2, EndsFacts
  <2>3. CASE CallRaised(t, j) \/ AnswerUnjoined(t, j) \/ PostToolCall(t, j)
    BY <2>1, <2>3, RaisedFacts, UnjoinedFacts, DoneFacts
  <2>4. CASE AnswerRecorded(t, j) \/ AnswerRaised(t, j)
    BY <2>1, <2>4, SettledFacts DEF ChoiceState
  <2> QED
    BY <1>3, <2>2, <2>3, <2>4 DEF CallMoved
<1> QED
  BY <1>1, <1>2, <1>3

LEMMA AnswerOfStep ==
  ASSUME RecordInv, RecordInv', ReqInv, AskInv, [Next]_vars,
         NEW t \in Sessions, NEW j \in DOMAIN calls'[t]
  PROVE  AnswerOf(t, j)'
<1> SUFFICES ASSUME calls'[t][j].st = "answering"
             PROVE  LET c == calls'[t][j]
                        a == c.answer
                    IN  /\ a.req < nextReq'
                        /\ a.req = c.req => a.sid = t
                        /\ a.req # c.req => a.req \in lost' /\ c.req \in lost'
                        /\ a.final \notin NotRun <=> a.choice = "approve"
  BY DEF AnswerOf
<1>1. /\ nextReq' \in Nat /\ nextReq' >= nextReq /\ nextReq \in Nat
      /\ lost \subseteq lost'
  BY ReqGrows, ReviewMoves DEF RecordInv
<1>2. CASE CallStays(t, j)
  <2> DEFINE c == calls[t][j]
             a == c.answer
  <2>1. j \in DOMAIN calls[t] /\ c.st = "answering" /\ calls'[t][j] = c
    BY <1>2 DEF CallStays
  <2>2. AnswerOf(t, j)
    BY <2>1 DEF AskInv
  <2>3. a \in Answers
    BY <2>1 DEF RecordInv, TypeInv, AnswerInv
  <2> QED
    BY <1>1, <2>1, <2>2, <2>3 DEF AnswerOf, Answers
<1>3. CASE AnswerPopped(t, j) /\ j \in DOMAIN calls[t]
  <2>1. PICK choice \in Choices, n \in DOMAIN reviews :
           /\ calls'[t][j].req = calls[t][j].req
           /\ calls'[t][j].answer = AnswerFrom(reviews[n], choice)
           /\ lost' = lost \cup IF reviews[n].req = calls[t][j].req THEN {}
                                ELSE {reviews[n].req, calls[t][j].req}
    BY <1>3, PoppedFacts DEF RecordInv
  <2> DEFINE r == reviews[n]
             a == AnswerFrom(r, choice)
  <2>2. r \in Reviews
    BY DEF RecordInv, TypeInv, TypeOK
  <2>3. /\ r.req \in Nat /\ r.req < nextReq
        /\ calls[t][j].req = r.req => t = r.sid
    BY <1>3, <2>2 DEF AskInv, ReviewOf, Reviews
  <2>4. a.sid = r.sid /\ a.req = r.req /\ (a.final \notin NotRun <=> a.choice = "approve")
    BY <2>2, FinalFits DEF AnswerFrom, Reviews
  <2>5. calls'[t][j].answer = a
    BY <2>1
  <2>6. r.req # calls[t][j].req => r.req \in lost' /\ calls[t][j].req \in lost'
    BY <2>1
  <2>7. calls'[t][j].req = calls[t][j].req
    BY <2>1
  <2> HIDE DEF r, a
  <2> QED
    BY <1>1, <2>3, <2>4, <2>5, <2>6, <2>7
<1>4. j \in DOMAIN calls[t] \/ ~CallMoved(t, j)
  BY DEF CallMoved
<1> QED
  BY <1>2, <1>3, <1>4, CallCases, NoAnswerLeft DEF RecordInv

LEMMA AskStep == RecordInv /\ ReqInv /\ AskInv /\ [Next]_vars => AskInv'
<1> SUFFICES ASSUME RecordInv, ReqInv, AskInv, [Next]_vars PROVE AskInv'
  OBVIOUS
<1>1. RecordInv'
  BY RecordStep
<1> QED
  BY <1>1, ReviewOfStep, AnswerOfStep DEF AskInv, ReviewOf

-----------------------------------------------------------------------------
(* Decisions.                                                              *)

(* What an answer does to the history of its session.                       *)
LEMMA RecordedDecision ==
  ASSUME RecordInv, NEW u \in Sessions, NEW j \in DOMAIN calls[u], AnswerRecorded(u, j)
  PROVE  LET a == calls[u][j].answer
             q == session[a.sid].history
             p == session'[a.sid].history
         IN  /\ a \in Answers /\ \A t \in Sessions \ {a.sid} : session'[t] = session[t]
             /\ Len(p) = Len(q)
             /\ \A k \in 1..Len(q) : /\ p[k].req = q[k].req
                                     /\ q[k].req = a.req => p[k].decision = a.final
                                     /\ q[k].req # a.req => p[k] = q[k]
<1> DEFINE a == calls[u][j].answer
           q == session[a.sid].history
           p == session'[a.sid].history
<1>1. /\ a \in Answers /\ a.sid \in Sessions
      /\ \A t \in Sessions \ {a.sid} : session'[t] = session[t]
      /\ p = WithDecision(q, a.req, a.final)
  BY AnswerWrites DEF RecordInv, FileInv
<1>2. q \in Seq(Entries)
  BY <1>1, HistoryTypes
<1> HIDE DEF a, q, p
<1>3. /\ Len(p) = Len(q)
      /\ \A i \in 1..Len(q) : /\ q[i].req = a.req => p[i].decision = a.final
                              /\ q[i].req # a.req => p[i] = q[i]
      /\ SameEntries(p, q)
  BY <1>1, <1>2, WithDecisionFacts
<1>4. \A i \in 1..Len(q) : p[i].req = q[i].req
  BY <1>3 DEF SameEntries, SameEntry
<1> QED
  BY <1>1, <1>3, <1>4 DEF a, q, p

AnswerWrote(t, e) ==
  \E u \in Sessions : \E j \in DOMAIN calls[u] :
    /\ AnswerRecorded(u, j) /\ calls[u][j].answer.sid = t
    /\ calls[u][j].answer.req = e.req /\ calls[u][j].answer.final = e.decision

ScanWrote(t, e) == ScanSaved(t) /\ e = LastOf(scan[t].sess.history)

(* Where an entry comes from: it was there, it was answered, or its scan    *)
(* was written.                                                            *)
LEMMA EntryFrom ==
  ASSUME RecordInv, ReqInv, [Next]_vars, NEW t \in Sessions,
         NEW k \in 1..Len(session'[t].history)
  PROVE  LET e == session'[t].history[k]
             q == session[t].history
         IN  \/ \E l \in 1..Len(q) : e = q[l]
             \/ AnswerWrote(t, e) /\ \E l \in 1..Len(q) : e.req = q[l].req
             \/ ScanWrote(t, e)
<1> DEFINE p == session'[t].history
           q == session[t].history
           e == p[k]
<1>1. CASE session'[t] = session[t]
  BY <1>1
<1>2. ASSUME NEW s \in Sessions, PreLlmCall(s)
      PROVE  p = q
  BY <1>2, TurnWrites DEF RecordInv, FileInv
<1>3. ASSUME NEW s \in Sessions, NEW i \in DOMAIN calls[s], PostToolCall(s, i)
      PROVE  p = q
  BY <1>3, ResultWrites DEF RecordInv, FileInv
<1>4. ASSUME NEW s \in Sessions, NEW i \in DOMAIN calls[s], AnswerRecorded(s, i)
      PROVE  \/ p = q
             \/ k \in 1..Len(q) /\ e = q[k]
             \/ AnswerWrote(t, e) /\ k \in 1..Len(q) /\ e.req = q[k].req
  <2> DEFINE a == calls[s][i].answer
  <2>1. CASE t # a.sid
    BY <1>4, <2>1, RecordedDecision
  <2>2. CASE t = a.sid
    <3>4. Len(p) = Len(q) /\ \A m \in 1..Len(q) : p[m].req = q[m].req
      BY <1>4, <2>2, RecordedDecision
    <3>5. k \in 1..Len(p)
      OBVIOUS
    <3>1. k \in 1..Len(q) /\ e.req = q[k].req
      <4> HIDE DEF p, q
      <4> QED
        BY <3>4, <3>5
    <3>2. CASE q[k].req # a.req
      <4>1. e = q[k]
        BY <1>4, <2>2, <3>1, <3>2, RecordedDecision
      <4> HIDE DEF e, q
      <4> QED
        BY <3>1, <4>1
    <3>3. CASE q[k].req = a.req
      <4>1. e.decision = a.final /\ e.req = a.req
        BY <1>4, <2>2, <3>1, <3>3, RecordedDecision
      <4> HIDE DEF e, p, q
      <4>2. AnswerWrote(t, e)
        BY <1>4, <2>2, <4>1 DEF AnswerWrote
      <4> QED
        BY <3>1, <4>2
    <3> QED
      BY <3>2, <3>3
  <2> QED
    BY <2>1, <2>2
<1>5. CASE ScanSaved(t)
  <2> DEFINE x == LastOf(scan[t].sess.history)
  <2>1. p \in Seq(Entries) /\ q \in Seq(Entries) /\ Slides(p, q, x, 2 * HistoryLimit)
    BY <1>5, SavedOrdered
  <2> HIDE DEF p, q, x
  <2>2. PICK drop \in Nat :
          /\ p[Len(p)] = x
          /\ \A i \in 1..(Len(p) - 1) : i + drop \in 1..Len(q) /\ p[i] = q[i + drop]
    BY <2>1 DEF Slides
  <2>3. k = Len(p) \/ k \in 1..(Len(p) - 1)
    BY <2>1 DEF p
  <2> QED
    BY <1>5, <2>2, <2>3 DEF ScanWrote, x, p, q
<1>6. ASSUME NEW s \in Sessions, ScanSaved(s), t # s
      PROVE  session'[t] = session[t]
  BY <1>6 DEF ScanSaved, RecordInv, TypeInv, TypeOK
<1>7. ASSUME NEW s \in Sessions, SessionStep(s)
      PROVE  UNCHANGED session \/ PreLlmCall(s) \/ ScanSaved(s)
  BY <1>7 DEF SessionStep, PostApiRequest, ScanAnswered, ScanFailed, ScanRaised
<1>8. ASSUME NEW s \in Sessions, NEW i \in DOMAIN calls[s], CallStep(s, i)
      PROVE  UNCHANGED session \/ AnswerRecorded(s, i) \/ PostToolCall(s, i)
  BY <1>8 DEF CallStep, PreToolCall, AnswerPopped, AnswerUnjoined, AnswerRaised
<1>9. CASE Crash \/ RotateKey \/ UNCHANGED vars
  BY <1>9 DEF Crash, RotateKey, vars
<1> DEFINE Known == \/ \E l \in 1..Len(q) : e = q[l]
                    \/ AnswerWrote(t, e) /\ \E l \in 1..Len(q) : e.req = q[l].req
                    \/ ScanWrote(t, e)
<1>10. p = q => Known
  OBVIOUS
<1>11. ASSUME NEW s \in Sessions, SessionStep(s)
       PROVE  Known
  BY <1>1, <1>2, <1>5, <1>6, <1>7, <1>10, <1>11
<1>12. ASSUME NEW s \in Sessions, NEW i \in DOMAIN calls[s], CallStep(s, i)
       PROVE  Known
  BY <1>1, <1>3, <1>4, <1>8, <1>10, <1>12
<1>13. Known
  BY <1>1, <1>9, <1>11, <1>12 DEF Next
<1> QED
  BY <1>13

(* The decision of an entry says whether its call runs.                     *)
Agrees(st, e) ==
  /\ st = "running" => e.decision \notin NotRun
  /\ st = "refused" => e.decision \in NotRun

Matches(s, i) ==
  calls[s][i].req \notin lost =>
    \A k \in 1..Len(session[s].history) :
      session[s].history[k].req = calls[s][i].req => Agrees(calls[s][i].st, session[s].history[k])

AllMatch == \A s \in Sessions : \A i \in DOMAIN calls[s] : Matches(s, i)

(* The call a request id belongs to.                                        *)
LEMMA SameCall ==
  ASSUME RecordInv, ReqInv, NEW s \in Sessions, NEW i \in DOMAIN calls[s],
         NEW u \in Sessions, NEW j \in DOMAIN calls[u],
         calls[s][i].req = calls[u][j].req, calls[u][j].st # "new"
  PROVE  s = u /\ i = j
<1>1. calls[u][j].req > 0
  <2>1. calls[u][j] \in HostCalls
    BY DEF RecordInv, TypeInv, TypeOK
  <2>2. calls[u][j].req # 0
    BY DEF ReqInv, CallReqs
  <2> QED
    BY <2>1, <2>2 DEF HostCalls
<1>2. OneCall
  BY DEF ReqInv
<1> QED
  BY <1>1, <1>2 DEF OneCall

(* An entry that was just written, by a scan or by an answer, agrees with   *)
(* what becomes of the call.                                               *)
LEMMA ScanWroteAgrees ==
  ASSUME RecordInv, ReqInv, [Next]_vars, NEW s \in Sessions, NEW i \in DOMAIN calls[s],
         NEW e, ScanWrote(s, e), e.req = calls[s][i].req
  PROVE  Agrees(calls'[s][i].st, e)
<1>1. /\ e.req = scan[s].req.id /\ scan[s] # Idle /\ Fits(scan[s].directive, e.decision)
  BY SavedOrdered DEF ScanWrote
<1>2. /\ scan[s].call \in DOMAIN calls[s] /\ calls[s][scan[s].call].st = "scanning"
      /\ scan[s].req.id = calls[s][scan[s].call].req
  BY <1>1 DEF RecordInv, TypeInv, LockInv, ReqInv, ScanReq
<1> DEFINE j == scan[s].call
<1>6. j \in DOMAIN calls[s] /\ calls[s][i].req = calls[s][j].req /\ calls[s][j].st # "new"
  BY <1>1, <1>2
<1> HIDE DEF j
<1>3. i = j
  BY <1>6, SameCall
<1>4. CallEnds(s, i)
  BY <1>3 DEF CallEnds, ScanWrote, j
<1>5. \/ scan[s].directive = "run" /\ calls'[s][i].st = "running"
      \/ scan[s].directive = "block" /\ calls'[s][i].st = "refused"
      \/ scan[s].directive = "approve" /\ calls'[s][i].st = "asking"
  BY <1>4, EndsFacts DEF RecordInv
<1> QED
  BY <1>1, <1>5 DEF Fits, Agrees

LEMMA AnswerAgrees ==
  ASSUME RecordInv, ReqInv, AskInv, NEW s \in Sessions, NEW i \in DOMAIN calls[s],
         AnswerRecorded(s, i), NEW e, e.decision = calls[s][i].answer.final
  PROVE  Agrees(calls'[s][i].st, e)
<1>1. /\ calls'[s][i].st = ChoiceState(calls[s][i].answer.choice)
      /\ calls[s][i].st = "answering"
  BY SettledFacts DEF RecordInv
<1>2. calls[s][i].answer.final \notin NotRun <=> calls[s][i].answer.choice = "approve"
  BY <1>1 DEF AskInv, AnswerOf
<1> QED
  BY <1>1, <1>2 DEF ChoiceState, Agrees

LEMMA AnswerWroteAgrees ==
  ASSUME RecordInv, ReqInv, AskInv, [Next]_vars, NEW s \in Sessions, NEW i \in DOMAIN calls[s],
         NEW e, AnswerWrote(s, e), e.req = calls[s][i].req, calls[s][i].req \notin lost
  PROVE  Agrees(calls'[s][i].st, e)
<1>6. PICK u \in Sessions : \E j \in DOMAIN calls[u] :
        /\ AnswerRecorded(u, j) /\ calls[u][j].answer.req = e.req
        /\ calls[u][j].answer.final = e.decision
  BY DEF AnswerWrote
<1>1. PICK j \in DOMAIN calls[u] :
        /\ AnswerRecorded(u, j) /\ calls[u][j].answer.req = e.req
        /\ calls[u][j].answer.final = e.decision
  BY <1>6
<1>2. calls[u][j].st = "answering"
  BY <1>1 DEF AnswerRecorded
<1>3. calls[u][j].answer.req = calls[u][j].req
  BY <1>1, <1>2 DEF AskInv, AnswerOf
<1>5. calls[s][i].req = calls[u][j].req /\ calls[u][j].st # "new"
  BY <1>1, <1>2, <1>3
<1>4. s = u /\ i = j
  BY <1>5, SameCall
<1> QED
  BY <1>1, <1>4, AnswerAgrees

(* No entry is there for a call while its scan is at work.                  *)
LEMMA NoEntryYet ==
  ASSUME ReqInv, NEW s \in Sessions, scan[s] # Idle,
         NEW k \in 1..Len(session[s].history)
  PROVE  session[s].history[k].req # calls[s][scan[s].call].req
  BY DEF ReqInv, ScanReq

LEMMA MatchStep ==
  ASSUME RecordInv, ReqInv, AskInv, AllMatch, [Next]_vars,
         NEW s \in Sessions, NEW i \in DOMAIN calls'[s], calls'[s][i].req \notin lost',
         NEW k \in 1..Len(session'[s].history),
         session'[s].history[k].req = calls'[s][i].req
  PROVE  Agrees(calls'[s][i].st, session'[s].history[k])
<1> DEFINE e == session'[s].history[k]
<1>1. lost \subseteq lost'
  BY ReviewMoves DEF RecordInv
<1>2. CASE CallBegun(s, i) \/ CallFresh(s, i)
  BY <1>2, BegunFacts DEF CallFresh, Agrees, RecordInv
<1>3. ASSUME i \in DOMAIN calls[s], calls'[s][i].req = calls[s][i].req,
             NEW l \in 1..Len(session[s].history), e = session[s].history[l],
             CallMoved(s, i)
      PROVE  Agrees(calls'[s][i].st, e)
  <2>1. CASE CallEnds(s, i)
    <3>1. scan[s] # Idle
      BY <2>1, SavedAdds DEF CallEnds, RecordInv
    <3> QED
      BY <1>3, <2>1, <3>1, NoEntryYet DEF CallEnds
  <2>2. CASE CallRaised(s, i)
    <3>1. scan[s] # Idle
      BY <1>3, <2>2, RaisedFacts DEF RecordInv
    <3> QED
      BY <1>3, <2>2, <3>1, NoEntryYet DEF CallRaised
  <2>3. CASE AnswerPopped(s, i)
    BY <1>3, <2>3, PoppedFacts DEF Agrees, RecordInv
  <2>4. CASE AnswerUnjoined(s, i)
    BY <1>3, <2>4, UnjoinedFacts DEF RecordInv
  <2>5. CASE AnswerRecorded(s, i) \/ AnswerRaised(s, i)
    <3> DEFINE a == calls[s][i].answer
    <3>1. calls[s][i].st = "answering"
      BY <1>3, <2>5, SettledFacts DEF RecordInv
    <3>2. a.req = calls[s][i].req /\ a.sid = s
      BY <1>1, <1>3, <3>1 DEF AskInv, AnswerOf
    <3>3. ~AnswerRaised(s, i)
      BY <1>3, <3>2, SettledFacts DEF RecordInv
    <3>4. AnswerRecorded(s, i)
      BY <2>5, <3>3
    <3>5. e.decision = a.final
      <4>1. /\ Len(session'[s].history) = Len(session[s].history)
            /\ \A m \in 1..Len(session[s].history) :
                 /\ session'[s].history[m].req = session[s].history[m].req
                 /\ session[s].history[m].req = a.req => session'[s].history[m].decision = a.final
        <5>1. /\ Len(session'[a.sid].history) = Len(session[a.sid].history)
              /\ \A m \in 1..Len(session[a.sid].history) :
                   /\ session'[a.sid].history[m].req = session[a.sid].history[m].req
                   /\ session[a.sid].history[m].req = a.req =>
                        session'[a.sid].history[m].decision = a.final
          BY <1>3, <3>4, RecordedDecision
        <5> QED
          BY <3>2, <5>1
      <4> QED
        BY <1>3, <3>2, <4>1
    <3> HIDE DEF e
    <3> QED
      BY <1>3, <3>4, <3>5, AnswerAgrees
  <2>6. CASE PostToolCall(s, i)
    BY <1>3, <2>6, DoneFacts DEF Agrees, RecordInv
  <2> QED
    BY <1>3, <2>1, <2>2, <2>3, <2>4, <2>5, <2>6 DEF CallMoved
<1>4. CASE CallStays(s, i) \/ CallMoved(s, i)
  <2>1. i \in DOMAIN calls[s] /\ calls'[s][i].req = calls[s][i].req
    <3>1. CASE CallStays(s, i)
      BY <3>1 DEF CallStays
    <3>2. CASE CallMoved(s, i)
      BY <3>2, EndsFacts, RaisedFacts, PoppedFacts, UnjoinedFacts, SettledFacts, DoneFacts
         DEF CallMoved, RecordInv
    <3> QED
      BY <1>4, <3>1, <3>2
  <2>2. calls[s][i].req \notin lost /\ e.req = calls[s][i].req
    BY <1>1, <2>1
  <2>3. ASSUME NEW l \in 1..Len(session[s].history), e = session[s].history[l]
        PROVE  Agrees(calls'[s][i].st, e)
    <3>1. CASE CallStays(s, i)
      <4>1. Matches(s, i)
        BY <2>1 DEF AllMatch
      <4>2. Agrees(calls[s][i].st, session[s].history[l])
        BY <2>2, <2>3, <4>1 DEF Matches
      <4> QED
        BY <2>3, <3>1, <4>2 DEF CallStays
    <3> QED
      BY <1>3, <1>4, <2>1, <2>3, <3>1
  <2> HIDE DEF e
  <2>4. ASSUME ScanWrote(s, e)
        PROVE  Agrees(calls'[s][i].st, e)
    <3>1. i \in DOMAIN calls[s]
      BY <2>1
    <3> QED
      BY <2>2, <2>4, <3>1, ScanWroteAgrees
  <2>5. ASSUME AnswerWrote(s, e)
        PROVE  Agrees(calls'[s][i].st, e)
    <3>1. i \in DOMAIN calls[s]
      BY <2>1
    <3> QED
      BY <2>2, <2>5, <3>1, AnswerWroteAgrees
  <2>6. (\E l \in 1..Len(session[s].history) : e = session[s].history[l])
          \/ AnswerWrote(s, e) \/ ScanWrote(s, e)
    BY EntryFrom DEF e
  <2> QED
    BY <2>3, <2>4, <2>5, <2>6 DEF e
<1> QED
  BY <1>2, <1>4, CallCases DEF RecordInv

(* The history says of a call that runs that it ran, and of one that was    *)
(* refused that it did not, however scans, prompts, exceptions and crashes  *)
(* of the sessions interleave: only requests whose answer was lost are      *)
(* exempt.                                                                 *)
THEOREM DecisionsAgree == Spec => []DecisionMatchesOutcome
<1> DEFINE Inv == RecordInv /\ ReqInv /\ AskInv /\ AllMatch
<1>1. Init => Inv
  BY RecordInit, ReqInit, AskInit DEF Init, AllMatch
<1>2. Inv /\ [Next]_vars => Inv'
  <2> SUFFICES ASSUME Inv, [Next]_vars PROVE AllMatch'
    BY RecordStep, ReqStep, AskStep
  <2> QED
    BY MatchStep DEF AllMatch, Matches
<1>3. Inv => DecisionMatchesOutcome
  <2> SUFFICES ASSUME Inv, NEW s \in Sessions, NEW i \in DOMAIN calls[s],
                      calls[s][i].req \notin lost, NEW k \in DOMAIN session[s].history,
                      session[s].history[k].req = calls[s][i].req
               PROVE  Agrees(calls[s][i].st, session[s].history[k])
    BY DEF DecisionMatchesOutcome, Agrees
  <2>1. k \in 1..Len(session[s].history)
    BY HistoryTypes
  <2> QED
    BY <2>1 DEF AllMatch, Matches
<1> QED
  BY <1>1, <1>2, <1>3, PTL DEF Spec

-----------------------------------------------------------------------------
(* A request is open while a review of it is in the file, or an answer      *)
(* taken from there is still to be written.                                *)
AnswersOpen(r) ==
  \E t \in Sessions : \E j \in DOMAIN calls[t] :
    calls[t][j].st = "answering" /\ calls[t][j].answer.req = r

Open(r) == (\E n \in DOMAIN reviews : reviews[n].req = r) \/ AnswersOpen(r)

OneEach(rs) ==
  \A n, m \in DOMAIN rs : rs[n].key = rs[m].key \/ rs[n].req = rs[m].req => n = m

OneAnswer ==
  \A t, u \in Sessions : \A j \in DOMAIN calls[t] : \A k \in DOMAIN calls[u] :
    /\ calls[t][j].st = "answering" /\ calls[u][k].st = "answering"
    /\ calls[t][j].answer.req = calls[u][k].answer.req
    => t = u /\ j = k

(* What is open has been decided provisionally, wherever it stands.         *)
OpenEntries(t) ==
  \A k \in 1..Len(session[t].history) :
    Open(session[t].history[k].req) => session[t].history[k].decision \in Provisional

OpenScan(s) ==
  /\ scan[s].phase = "sent" => ~Open(scan[s].req.id)
  /\ scan[s].phase = "decided" /\ Open(scan[s].req.id) => scan[s].directive = "approve"

OpenInv ==
  /\ OneEach(reviews) /\ OneAnswer
  /\ \A n \in DOMAIN reviews : ~AnswersOpen(reviews[n].req)
  /\ \A t \in Sessions : OpenEntries(t) /\ OpenScan(t)

LEMMA OpenInit == Init => OpenInv
<1> SUFFICES ASSUME Init PROVE OpenInv
  OBVIOUS
<1>1. /\ reviews = <<>>
      /\ \A t \in Sessions : /\ calls[t] = <<>> /\ scan[t].phase = "idle"
                             /\ session[t].history = <<>>
  BY DEF Init, EmptySession, Idle
<1> QED
  BY <1>1 DEF OpenInv, OneEach, OneAnswer, OpenEntries, OpenScan

(* A rule has one review and a request too, whatever is put or taken.       *)
LEMMA PutOneEach ==
  ASSUME NEW rs \in Seq(Reviews), OneEach(rs), NEW r,
         \A n \in DOMAIN rs : rs[n].req # r.req
  PROVE  OneEach(PutReview(rs, r))
<1>1. CASE \E i \in DOMAIN rs : rs[i].key = r.key
  <2>1. PutReview(rs, r) = [i \in DOMAIN rs |-> IF rs[i].key = r.key THEN r ELSE rs[i]]
    BY <1>1 DEF PutReview
  <2> DEFINE p == PutReview(rs, r)
  <2>2. DOMAIN p = DOMAIN rs
    BY <2>1
  <2>3. \A i \in DOMAIN rs : /\ rs[i].key = r.key => p[i] = r
                             /\ rs[i].key # r.key => p[i] = rs[i]
    BY <2>1
  <2> HIDE DEF p
  <2>4. ASSUME NEW n \in DOMAIN rs, NEW m \in DOMAIN rs,
               p[n].key = p[m].key \/ p[n].req = p[m].req
        PROVE  n = m
    <3>1. CASE rs[n].key = r.key /\ rs[m].key = r.key
      BY <3>1 DEF OneEach
    <3>2. CASE rs[n].key = r.key /\ rs[m].key # r.key
      <4>1. p[n] = r /\ p[m] = rs[m]
        BY <2>3, <3>2
      <4>2. p[n].key # p[m].key
        BY <3>2, <4>1
      <4>3. p[n].req # p[m].req
        BY <4>1
      <4> QED
        BY <2>4, <4>2, <4>3
    <3>3. CASE rs[n].key # r.key /\ rs[m].key = r.key
      <4>1. p[n] = rs[n] /\ p[m] = r
        BY <2>3, <3>3
      <4>2. p[n].key # p[m].key
        BY <3>3, <4>1
      <4>3. p[n].req # p[m].req
        BY <4>1
      <4> QED
        BY <2>4, <4>2, <4>3
    <3>4. CASE rs[n].key # r.key /\ rs[m].key # r.key
      BY <2>3, <2>4, <3>4 DEF OneEach
    <3> QED
      BY <3>1, <3>2, <3>3, <3>4
  <2> QED
    BY <2>2, <2>4 DEF OneEach, p
<1>2. CASE ~ \E i \in DOMAIN rs : rs[i].key = r.key
  <2> DEFINE q == Append(rs, r)
             drop == IF Len(q) > ReviewsKeep THEN Len(q) - ReviewsKeep ELSE 0
             p == PutReview(rs, r)
  <2>1. p = [i \in 1..(Len(q) - drop) |-> q[i + drop]]
    BY <1>2 DEF PutReview, Newest
  <2>2. rs \in Seq(Reviews \cup {r})
    <3>1. \A i \in 1..Len(rs) : rs[i] \in Reviews \cup {r}
      OBVIOUS
    <3> QED
      BY <3>1
  <2>3. /\ Len(q) = Len(rs) + 1 /\ \A i \in 1..Len(rs) : q[i] = rs[i]
        /\ q[Len(rs) + 1] = r /\ Len(rs) \in Nat
    BY <2>2, AppendFacts
  <2>4. drop \in Nat
    BY <2>3, LimitAssumption
  <2>5. \A i \in 1..(Len(rs) + 1) : i = Len(rs) + 1 \/ i \in 1..Len(rs)
    BY <2>3
  <2>6. DOMAIN rs = 1..Len(rs)
    OBVIOUS
  <2> HIDE DEF q, drop, p
  <2>7. \A i, j \in 1..(Len(rs) + 1) : q[i].key = q[j].key \/ q[i].req = q[j].req => i = j
    BY <1>2, <2>3, <2>5, <2>6 DEF OneEach
  <2>8. DOMAIN p = 1..(Len(q) - drop) /\ \A i \in DOMAIN p : p[i] = q[i + drop]
    BY <2>1
  <2>9. \A i \in DOMAIN p : i \in Nat /\ i + drop \in 1..(Len(rs) + 1)
    BY <2>3, <2>4, <2>8
  <2>10. \A i, j \in DOMAIN p : p[i].key = p[j].key \/ p[i].req = p[j].req => i + drop = j + drop
    BY <2>7, <2>8, <2>9
  <2>11. \A i, j \in DOMAIN p : i + drop = j + drop => i = j
    BY <2>4, <2>9
  <2> QED
    BY <2>10, <2>11 DEF OneEach, p
<1> QED
  BY <1>1, <1>2

LEMMA WithoutOneEach ==
  ASSUME NEW rs \in Seq(Reviews), OneEach(rs), NEW n \in DOMAIN rs
  PROVE  OneEach(Without(rs, n))
<1> DEFINE p == Without(rs, n)
<1> SUFFICES ASSUME NEW i \in DOMAIN p, NEW j \in DOMAIN p,
                    p[i].key = p[j].key \/ p[i].req = p[j].req
             PROVE  i = j
  BY DEF OneEach
<1>1. i \in Int /\ j \in Int /\ n \in Int
  BY DEF Without
<1>2. \E a, b \in DOMAIN rs : /\ a = (IF i < n THEN i ELSE i + 1) /\ p[i] = rs[a]
                              /\ b = (IF j < n THEN j ELSE j + 1) /\ p[j] = rs[b]
  BY WithoutFrom
<1> HIDE DEF p
<1>3. PICK a \in DOMAIN rs, b \in DOMAIN rs :
        /\ a = (IF i < n THEN i ELSE i + 1) /\ p[i] = rs[a]
        /\ b = (IF j < n THEN j ELSE j + 1) /\ p[j] = rs[b]
  BY <1>2
<1>4. a = b
  BY <1>3 DEF OneEach
<1> QED
  BY <1>1, <1>3, <1>4

(* The answers there are after a step were there before, or were taken from *)
(* a review.                                                               *)
AnsweringAfter(t, j) == j \in DOMAIN calls'[t] /\ calls'[t][j].st = "answering"

LEMMA AnswerFromReview ==
  ASSUME TypeInv, [Next]_vars, NEW t \in Sessions, NEW j, AnsweringAfter(t, j)
  PROVE  /\ j \in DOMAIN calls[t]
         /\ \/ calls'[t][j] = calls[t][j] /\ calls[t][j].st = "answering"
            \/ /\ AnswerPopped(t, j)
               /\ \E n \in DOMAIN reviews : /\ reviews' = Without(reviews, n)
                                            /\ calls'[t][j].answer.req = reviews[n].req
<1>1. CallStays(t, j) \/ (CallMoved(t, j) /\ AnswerPopped(t, j))
  BY CallCases, NoAnswerLeft DEF AnsweringAfter
<1>2. CASE CallStays(t, j)
  BY <1>2 DEF CallStays, AnsweringAfter
<1>3. CASE CallMoved(t, j) /\ AnswerPopped(t, j)
  <2>1. j \in DOMAIN calls[t]
    BY <1>3 DEF CallMoved
  <2>2. PICK choice \in Choices, n \in DOMAIN reviews :
          /\ calls'[t][j].answer = AnswerFrom(reviews[n], choice)
          /\ reviews' = Without(reviews, n)
    BY <1>3, <2>1, PoppedFacts
  <2>3. calls'[t][j].answer.req = reviews[n].req
    BY <2>2 DEF AnswerFrom
  <2> QED
    BY <1>3, <2>1, <2>2, <2>3
<1> QED
  BY <1>1, <1>2, <1>3

(* Nothing becomes open but the request of a scan that asks.                *)
OpenAfter(r) ==
  \/ \E n \in DOMAIN reviews' : reviews'[n].req = r
  \/ \E t \in Sessions : \E j : AnsweringAfter(t, j) /\ calls'[t][j].answer.req = r

LEMMA OpenMoves ==
  ASSUME TypeInv, FlightInv, [Next]_vars, NEW r, OpenAfter(r)
  PROVE  Open(r) \/ \E s \in Sessions : Asks(s) /\ r = scan[s].req.id
<1>1. ASSUME NEW n \in DOMAIN reviews', reviews'[n].req = r
      PROVE  Open(r) \/ \E s \in Sessions : Asks(s) /\ r = scan[s].req.id
  BY <1>1, ReviewFrom DEF Open
<1>2. ASSUME NEW t \in Sessions, NEW j, AnsweringAfter(t, j), calls'[t][j].answer.req = r
      PROVE  Open(r)
  BY <1>2, AnswerFromReview DEF Open, AnswersOpen
<1> QED
  BY <1>1, <1>2 DEF OpenAfter

(* Scans at work have different requests.                                   *)
LEMMA OneScan ==
  ASSUME RecordInv, ReqInv, NEW s \in Sessions, NEW u \in Sessions,
         scan[s] # Idle, scan[u] # Idle, scan[s].req.id = scan[u].req.id
  PROVE  s = u
<1> DEFINE i == scan[s].call
           j == scan[u].call
<1>1. /\ i \in DOMAIN calls[s] /\ j \in DOMAIN calls[u] /\ calls[u][j].st = "scanning"
      /\ scan[s].req.id = calls[s][i].req /\ scan[u].req.id = calls[u][j].req
  BY DEF RecordInv, TypeInv, LockInv, ReqInv, ScanReq
<1>2. calls[s][i].req = calls[u][j].req /\ calls[u][j].st # "new"
  BY <1>1
<1> HIDE DEF i, j
<1> QED
  BY <1>1, <1>2, SameCall

LEMMA OneEachStep ==
  ASSUME RecordInv, ReqInv, OpenInv, [Next]_vars
  PROVE  OneEach(reviews')
<1>1. reviews \in Seq(Reviews) /\ OneEach(reviews)
  BY DEF RecordInv, TypeInv, TypeOK, OpenInv
<1>2. ASSUME NEW s \in Sessions, Asks(s)
      PROVE  OneEach(reviews')
  <2>1. PICK rule, onError :
          reviews' = PutReview(reviews, [key |-> rule, sid |-> s, req |-> scan[s].req.id,
                                         onError |-> onError])
    BY <1>2 DEF Asks
  <2> DEFINE r == [key |-> rule, sid |-> s, req |-> scan[s].req.id, onError |-> onError]
  <2>2. r.req = scan[s].req.id
    OBVIOUS
  <2>3. ~Open(scan[s].req.id)
    BY <1>2 DEF Asks, OpenInv, OpenScan
  <2> HIDE DEF r
  <2>4. \A n \in DOMAIN reviews : reviews[n].req # r.req
    BY <2>2, <2>3 DEF Open
  <2>5. reviews' = PutReview(reviews, r)
    BY <2>1 DEF r
  <2> QED
    BY <1>1, <2>4, <2>5, PutOneEach
<1>3. ASSUME NEW s \in Sessions, NEW i \in DOMAIN calls[s], AnswerPopped(s, i)
      PROVE  OneEach(reviews')
  <2>1. PICK n \in DOMAIN reviews : reviews' = Without(reviews, n)
    BY <1>3, PoppedFacts DEF RecordInv
  <2> QED
    BY <1>1, <2>1, WithoutOneEach
<1> QED
  BY <1>1, <1>2, <1>3, ReviewMoves DEF RecordInv

(* An answer is not that of a review that is still in the file.             *)
LEMMA AnswerNotReviewed ==
  ASSUME RecordInv, ReqInv, OpenInv, [Next]_vars, NEW n \in DOMAIN reviews',
         NEW t \in Sessions, NEW j, AnsweringAfter(t, j)
  PROVE  calls'[t][j].answer.req # reviews'[n].req
<1> USE DEF RecordInv
<1>1. reviews \in Seq(Reviews) /\ OneEach(reviews)
  BY DEF TypeInv, TypeOK, OpenInv
<1>2. CASE calls'[t][j] = calls[t][j] /\ calls[t][j].st = "answering"
  <2>1. j \in DOMAIN calls[t]
    BY AnswerFromReview
  <2>2. AnswersOpen(calls'[t][j].answer.req)
    BY <1>2, <2>1 DEF AnswersOpen
  <2>3. ASSUME NEW m \in DOMAIN reviews, reviews'[n] = reviews[m]
        PROVE  calls'[t][j].answer.req # reviews'[n].req
    BY <2>2, <2>3 DEF OpenInv
  <2>4. ASSUME NEW s \in Sessions, Asks(s), reviews'[n].req = scan[s].req.id
        PROVE  calls'[t][j].answer.req # reviews'[n].req
    BY <2>2, <2>4 DEF Asks, OpenInv, OpenScan, Open
  <2> QED
    BY <2>3, <2>4, ReviewFrom
<1>3. ASSUME NEW m \in DOMAIN reviews, reviews' = Without(reviews, m),
             calls'[t][j].answer.req = reviews[m].req
      PROVE  calls'[t][j].answer.req # reviews'[n].req
  <2>1. PICK k \in DOMAIN reviews : k # m /\ reviews'[n] = reviews[k]
    BY <1>1, <1>3, WithoutFrom
  <2> QED
    BY <1>1, <1>3, <2>1 DEF OneEach
<1> QED
  BY <1>2, <1>3, AnswerFromReview

LEMMA OneAnswerStep ==
  ASSUME RecordInv, OpenInv, [Next]_vars, NEW t \in Sessions, NEW j, AnsweringAfter(t, j),
         NEW u \in Sessions, NEW k, AnsweringAfter(u, k),
         calls'[t][j].answer.req = calls'[u][k].answer.req
  PROVE  t = u /\ j = k
<1> USE DEF RecordInv
<1> DEFINE Waits(v, l) == calls'[v][l] = calls[v][l] /\ calls[v][l].st = "answering"
           Takes(v, l) == \E n \in DOMAIN reviews : calls'[v][l].answer.req = reviews[n].req
<1>1. /\ j \in DOMAIN calls[t] /\ k \in DOMAIN calls[u]
      /\ Waits(t, j) \/ (AnswerPopped(t, j) /\ Takes(t, j))
      /\ Waits(u, k) \/ (AnswerPopped(u, k) /\ Takes(u, k))
  BY AnswerFromReview
<1>2. CASE Waits(t, j) /\ Waits(u, k)
  BY <1>1, <1>2 DEF OpenInv, OneAnswer
<1>3. ~(Waits(t, j) /\ Takes(u, k)) /\ ~(Waits(u, k) /\ Takes(t, j))
  BY <1>1 DEF OpenInv, AnswersOpen
<1>4. CASE AnswerPopped(t, j) /\ AnswerPopped(u, k)
  <2>1. calls[u][k].st # "answering" /\ calls'[u][k].st = "answering"
    BY <1>4 DEF AnswerPopped, AnsweringAfter
  <2> QED
    BY <1>1, <1>4, <2>1, CallChanges
<1> QED
  BY <1>1, <1>2, <1>3, <1>4

LEMMA OpenLow ==
  ASSUME RecordInv, AskInv, NEW r, Open(r)
  PROVE  r < nextReq
<1>1. ASSUME NEW n \in DOMAIN reviews, reviews[n].req = r
      PROVE  r < nextReq
  BY <1>1 DEF AskInv, ReviewOf
<1>2. ASSUME NEW t \in Sessions, NEW j \in DOMAIN calls[t],
             calls[t][j].st = "answering", calls[t][j].answer.req = r
      PROVE  r < nextReq
  BY <1>2 DEF AskInv, AnswerOf
<1> QED
  BY <1>1, <1>2 DEF Open, AnswersOpen

LEMMA OpenScanStep ==
  ASSUME RecordInv, ReqInv, AskInv, OpenInv, [Next]_vars, NEW s \in Sessions,
         scan'[s].phase \in {"sent", "decided"}, OpenAfter(scan'[s].req.id)
  PROVE  scan'[s].phase = "decided" /\ scan'[s].directive = "approve"
<1> USE DEF RecordInv
<1> DEFINE id == scan'[s].req.id
<1>1. OpenScan(s)
  BY DEF OpenInv
<1>2. Open(id) \/ \E u \in Sessions : Asks(u) /\ id = scan[u].req.id
  BY OpenMoves
<1>3. ASSUME scan[s] # Idle, scan'[s].req = scan[s].req, ~Asks(s)
      PROVE  Open(id)
  <2>1. ASSUME NEW u \in Sessions, Asks(u), id = scan[u].req.id
        PROVE  u = s
    BY <1>3, <2>1, OneScan DEF Asks
  <2> QED
    BY <1>2, <1>3, <2>1
<1>4. CASE scan[s] # Idle /\ scan'[s] = scan[s]
  <2>1. ~Asks(s)
    BY <1>4 DEF Asks
  <2> QED
    BY <1>1, <1>3, <1>4, <2>1 DEF OpenScan
<1>5. CASE ScanAnswered(s) \/ ScanFailed(s)
  <2>1. /\ scan[s].phase = "sent" /\ scan[s] # Idle /\ scan'[s].phase = "decided"
        /\ scan'[s].req = scan[s].req
    BY <1>5, ConcludesAsks
  <2>2. Asks(s)
    BY <1>1, <1>3, <2>1 DEF OpenScan
  <2> QED
    BY <2>1, <2>2 DEF Asks
<1>6. ASSUME NEW i \in DOMAIN calls[s], PreToolCall(s, i)
      PROVE  FALSE
  <2>1. id = nextReq
    BY <1>6, BegunFacts DEF CallBegun
  <2>2. nextReq \in Nat
    BY ReqGrows
  <2>3. ~Open(id)
    BY <2>1, <2>2, OpenLow
  <2>4. ASSUME NEW u \in Sessions, Asks(u), id = scan[u].req.id
        PROVE  FALSE
    BY <2>1, <2>2, <2>4, ScanReqLow DEF Asks
  <2> QED
    BY <1>2, <2>3, <2>4
<1>7. CASE scan'[s] = Idle
  BY <1>7 DEF Idle
<1> QED
  BY <1>4, <1>5, <1>6, <1>7, ScanMoves DEF FileInv

(* An answer that is written is open no more.                               *)
LEMMA WrittenNotOpen ==
  ASSUME RecordInv, OpenInv, [Next]_vars, NEW u \in Sessions, NEW j \in DOMAIN calls[u],
         AnswerRecorded(u, j)
  PROVE  ~OpenAfter(calls[u][j].answer.req)
<1> USE DEF RecordInv
<1> DEFINE r == calls[u][j].answer.req
<1>1. calls[u][j].st = "answering" /\ UNCHANGED reviews /\ calls'[u][j].st # "answering"
  BY SettledFacts DEF ChoiceState
<1>2. AnswersOpen(r)
  BY <1>1 DEF AnswersOpen
<1>3. \A n \in DOMAIN reviews : reviews[n].req # r
  BY <1>2 DEF OpenInv
<1>4. ASSUME NEW t \in Sessions, NEW k, AnsweringAfter(t, k), calls'[t][k].answer.req = r
      PROVE  FALSE
  <2>1. CASE /\ k \in DOMAIN calls[t] /\ calls'[t][k] = calls[t][k]
             /\ calls[t][k].st = "answering"
    <3>1. t = u /\ k = j
      BY <1>1, <1>4, <2>1 DEF OpenInv, OneAnswer
    <3> QED
      BY <1>1, <2>1, <3>1
  <2>2. CASE \E n \in DOMAIN reviews : calls'[t][k].answer.req = reviews[n].req
    BY <1>3, <1>4, <2>2
  <2> QED
    BY <1>4, <2>1, <2>2, AnswerFromReview
<1> QED
  BY <1>1, <1>3, <1>4 DEF OpenAfter

LEMMA OpenEntriesStep ==
  ASSUME RecordInv, ReqInv, OpenInv, [Next]_vars, NEW t \in Sessions,
         NEW k \in 1..Len(session'[t].history), OpenAfter(session'[t].history[k].req)
  PROVE  session'[t].history[k].decision \in Provisional
<1> USE DEF RecordInv
<1> DEFINE e == session'[t].history[k]
<1>1. ASSUME NEW s \in Sessions, Asks(s), e.req = scan[s].req.id
      PROVE  FALSE
  <2>1. scan[s] # Idle /\ session' = session
    BY <1>1 DEF Asks
  <2> QED
    BY <1>1, <2>1 DEF ReqInv, ScanReq
<1>2. ASSUME NEW l \in 1..Len(session[t].history), e = session[t].history[l], Open(e.req)
      PROVE  e.decision \in Provisional
  BY <1>2 DEF OpenInv, OpenEntries
<1>3. ASSUME AnswerWrote(t, e)
      PROVE  FALSE
  BY <1>3, WrittenNotOpen DEF AnswerWrote
<1>4. ASSUME ScanWrote(t, e), Open(e.req)
      PROVE  e.decision \in Provisional
  <2>1. /\ e.req = scan[t].req.id /\ scan[t].phase = "decided"
        /\ Fits(scan[t].directive, e.decision)
    BY <1>4, SavedOrdered DEF ScanWrote
  <2>2. scan[t].directive = "approve"
    BY <1>4, <2>1 DEF OpenInv, OpenScan
  <2> QED
    BY <2>1, <2>2 DEF Fits
<1>5. Open(e.req)
  BY <1>1, OpenMoves
<1> QED
  BY <1>2, <1>3, <1>4, <1>5, EntryFrom

LEMMA OpenStep == RecordInv /\ ReqInv /\ AskInv /\ OpenInv /\ [Next]_vars => OpenInv'
<1> SUFFICES ASSUME RecordInv, ReqInv, AskInv, OpenInv, [Next]_vars PROVE OpenInv'
  OBVIOUS
<1>1. OneEach(reviews)'
  BY OneEachStep DEF OneEach
<1>2. OneAnswer'
  BY OneAnswerStep DEF OneAnswer, AnsweringAfter
<1>3. ASSUME NEW n \in DOMAIN reviews'
      PROVE  ~AnswersOpen(reviews[n].req)'
  BY AnswerNotReviewed DEF AnswersOpen, AnsweringAfter
<1>4. ASSUME NEW t \in Sessions
      PROVE  OpenEntries(t)'
  BY OpenEntriesStep DEF OpenEntries, Open, AnswersOpen, OpenAfter, AnsweringAfter
<1>5. ASSUME NEW t \in Sessions
      PROVE  OpenScan(t)'
  BY OpenScanStep DEF OpenScan, Open, AnswersOpen, OpenAfter, AnsweringAfter
<1> QED
  BY <1>1, <1>2, <1>3, <1>4, <1>5 DEF OpenInv

(* A decision changes only while the question is open, and then it is       *)
(* provisional: no answer is written over another, or over the verdict of a *)
(* scan, however prompts of the same rule and answers interleave.           *)
THEOREM DecisionsSettled == Spec => DecisionsSettle
<1> DEFINE Inv == RecordInv /\ ReqInv /\ AskInv /\ OpenInv
<1>1. Init => Inv
  BY RecordInit, ReqInit, AskInit, OpenInit
<1>2. Inv /\ [Next]_vars => Inv'
  BY RecordStep, ReqStep, AskStep, OpenStep
<1> DEFINE Settles ==
      \A s \in Sessions :
        \A i \in DOMAIN session[s].history, j \in DOMAIN session'[s].history :
          LET old == session[s].history[i]
              new == session'[s].history[j]
          IN  old.req = new.req /\ old.decision # new.decision =>
                old.decision \in {"review_timed_out", "blocked_on_error"}
<1>3. Inv /\ [Next]_vars => Settles
  <2> SUFFICES ASSUME Inv, [Next]_vars, NEW s \in Sessions,
                      NEW i \in DOMAIN session[s].history, NEW j \in DOMAIN session'[s].history,
                      session[s].history[i].req = session'[s].history[j].req,
                      session[s].history[i].decision # session'[s].history[j].decision
               PROVE  session[s].history[i].decision \in Provisional
    BY DEF Provisional
  <2> DEFINE old == session[s].history[i]
             new == session'[s].history[j]
  <2>1. i \in 1..Len(session[s].history) /\ j \in 1..Len(session'[s].history)
    BY RecordStep, HistoryTypes, HistoryTypesAfter
  <2>2. ASSUME NEW l \in 1..Len(session[s].history), new = session[s].history[l]
        PROVE  FALSE
    <3>1. session[s].history[l].req = session[s].history[i].req /\ l # i
      BY <2>2
    <3>2. Ordered(session[s].history) /\ session[s].history \in Seq(Entries)
      BY HistoryTypes DEF ReqInv, HistoryReqs
    <3>3. session[s].history[i] \in Entries /\ session[s].history[l] \in Entries
      BY <2>1, <3>2
    <3>4. session[s].history[i].req \in Nat /\ session[s].history[l].req \in Nat
      BY <3>3 DEF Entries
    <3>5. i < l \/ l < i
      BY <2>1, <3>1
    <3> QED
      BY <2>1, <3>1, <3>2, <3>4, <3>5 DEF Ordered
  <2>3. ASSUME ScanWrote(s, new)
        PROVE  FALSE
    <3>1. new.req = scan[s].req.id /\ scan[s] # Idle
      BY <2>3, SavedOrdered DEF ScanWrote
    <3> QED
      BY <2>1, <3>1 DEF ReqInv, ScanReq
  <2>4. ASSUME AnswerWrote(s, new)
        PROVE  old.decision \in Provisional
    <3>1. Open(old.req)
      BY <2>4 DEF AnswerWrote, AnswerRecorded, Open, AnswersOpen
    <3> QED
      BY <2>1, <3>1 DEF OpenInv, OpenEntries
  <2> QED
    BY <2>1, <2>2, <2>3, <2>4, EntryFrom
<1>4. Inv /\ [Next]_vars => [Settles]_vars
  BY <1>3
<1> QED
  BY <1>1, <1>2, <1>4, PTL DEF Spec, DecisionsSettle

=============================================================================
