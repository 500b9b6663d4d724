------------------------ MODULE OpenClawPluginProofs ------------------------
(***************************************************************************)
(* Theorems about OpenClawPlugin, for any sessions, host ids, runs,         *)
(* configuration, limits and bounds: the history agrees with what ran, a    *)
(* result is buffered if and only if its call ran, and no call runs unasked *)
(* but under a snooze.                                                     *)
(***************************************************************************)
EXTENDS OpenClawPlugin, TLAPS, SequenceTheorems

(* What the proofs need of TypeOK: all but the snoozes and the bounds.      *)
Shape ==
  /\ session \in [Sessions -> SessionFiles]
  /\ run \in [Sessions -> Runs]
  /\ chain \in [Sessions -> Seq(Turns)]
  /\ work \in [Sessions -> {Idle} \cup Scans]
  /\ calls \in [Sessions -> Seq(HostCalls)]
  /\ full \in Seq(FullResults)
  /\ nextReq \in Nat \ {0}
  /\ lost \subseteq Nat

(* The scans that wait and the calls that wait for them.                    *)
WaitInv ==
  \A s \in Sessions : \A n \in DOMAIN chain[s] : chain[s][n].do = "scan" =>
    /\ chain[s][n].call \in DOMAIN calls[s]
    /\ calls[s][chain[s][n].call].st = "queued"
    /\ \A m \in DOMAIN chain[s] :
         chain[s][m].do = "scan" /\ chain[s][m].call = chain[s][n].call => m = n

(* The scan at work is the first of its chain, so that nothing has touched  *)
(* the history it took from the file.                                      *)
WorkInv ==
  \A s \in Sessions : work[s] # Idle =>
    /\ chain[s] # <<>> /\ chain[s][1].do = "scan" /\ chain[s][1].call = work[s].call
    /\ work[s].sess.history = session[s].history
    /\ work[s].req.id = calls[s][work[s].call].req

(* Only a wrapper goes without a request, and where timeouts deny, no     *)
(* prompt is to allow by its timeout.                                      *)
Proper(c) ==
  /\ c.req = 0 <=> c.st = "new" \/ c.kind = "wrapper"
  /\ c.kind = "wrapper" => c.host \in HostIds /\ c.st \notin {"queued", "asking"}
  /\ ScheduledBehavior = "deny" => c.onTimeout = "deny"

CallInv == \A s \in Sessions : \A i \in DOMAIN calls[s] : Proper(calls[s][i])

(* A request of s has one call, and none is used again.                     *)
RequestsOnce(s) ==
  /\ \A i, j \in DOMAIN calls[s] :
       calls[s][i].req = calls[s][j].req /\ calls[s][i].req > 0 => i = j
  /\ \A i \in DOMAIN calls[s] : calls[s][i].req < nextReq
  /\ \A k \in DOMAIN session[s].history : session[s].history[k].req < nextReq
  /\ \A n \in DOMAIN chain[s] :
       /\ chain[s][n].do = "resolve" => chain[s][n].req < nextReq
       /\ chain[s][n].do = "result" => chain[s][n].text > 0 /\ chain[s][n].text < nextReq

Says(decision, ran) == ran <=> decision \notin NotRun

(* What is on its way into the history of s about r, and what is there once *)
(* nothing is on its way, says whether the call ran.                        *)
Told(s, r, ran) ==
  ScheduledBehavior = "deny" =>
    /\ \A n \in DOMAIN chain[s] :
         chain[s][n].do = "resolve" /\ chain[s][n].req = r => Says(chain[s][n].final, ran)
    /\ r \notin lost /\ ~Pending(s, r) =>
         \A k \in DOMAIN session[s].history :
           session[s].history[k].req = r => Says(session[s].history[k].decision, ran)

NoTurns(s, r) ==
  \A n \in DOMAIN chain[s] :
    /\ chain[s][n].do = "resolve" => chain[s][n].req # r
    /\ chain[s][n].do = "result" => chain[s][n].text # r

NoResult(s, r) == \A n \in DOMAIN chain[s] : chain[s][n].do = "result" => chain[s][n].text # r

Unwritten(s, r) == \A k \in DOMAIN session[s].history : session[s].history[k].req # r

(* No turn is about a call before its prompt is answered.  The result of a  *)
(* call comes after its resolution.                                        *)
CallFate(s, st, r) ==
  /\ st = "queued" => Unwritten(s, r) /\ NoTurns(s, r)
  /\ st = "asking" => NoTurns(s, r)
  /\ st \in {"running", "refused"} => NoResult(s, r) /\ Told(s, r, st = "running")

CallFates(s) ==
  \A i \in DOMAIN calls[s] : calls[s][i].req > 0 => CallFate(s, calls[s][i].st, calls[s][i].req)

ResultFate(s, n, r, ran, error) ==
  /\ Told(s, r, ran)
  /\ ~ran => error
  /\ \A m \in DOMAIN chain[s] : chain[s][m].do = "resolve" /\ chain[s][m].req = r => m < n

ResultFates(s) ==
  \A n \in DOMAIN chain[s] : chain[s][n].do = "result" =>
    ResultFate(s, n, chain[s][n].text, chain[s][n].ran, chain[s][n].error)

TypeInv == Shape /\ WaitInv /\ WorkInv /\ CallInv

Fated(s) == RequestsOnce(s) /\ CallFates(s) /\ ResultFates(s)

FateInv == \A s \in Sessions : Fated(s)

-----------------------------------------------------------------------------
(* What the helpers return.                                                *)

LEMMA LimitsAreNat ==
  /\ HistoryLimit \in Nat /\ 2 * HistoryLimit \in Nat /\ SeenKeep \in Nat
  /\ FullKeep \in Nat
BY LimitAssumption

(* Newest keeps the last n elements, in their order.                        *)
LEMMA NewestFacts ==
  ASSUME NEW S, NEW q \in Seq(S), NEW n \in Nat
  PROVE  /\ Newest(q, n) \in Seq(S)
         /\ \A i \in DOMAIN Newest(q, n) : \E j \in DOMAIN q : Newest(q, n)[i] = q[j]
<1> DEFINE drop == IF Len(q) > n THEN Len(q) - n ELSE 0
           m    == Len(q) - drop
<1>1. drop \in Nat /\ m \in Nat /\ m + drop = Len(q)
  OBVIOUS
<1>2. Newest(q, n) = [i \in 1..m |-> q[i + drop]]
  BY DEF Newest
<1>3. \A i \in 1..m : i + drop \in DOMAIN q /\ q[i + drop] \in S
  BY <1>1
<1> HIDE DEF m, drop
<1>4. Newest(q, n) \in [1..m -> S]
  BY <1>2, <1>3
<1>5. Newest(q, n) \in Seq(S)
  BY <1>1, <1>4, SeqDef
<1>6. DOMAIN Newest(q, n) = 1..m
  BY <1>2
<1> QED BY <1>2, <1>3, <1>5, <1>6

LEMMA AppendFacts ==
  ASSUME NEW S, NEW q \in Seq(S), NEW e \in S
  PROVE  /\ Append(q, e) \in Seq(S)
         /\ Len(Append(q, e)) = Len(q) + 1
         /\ DOMAIN Append(q, e) = 1..(Len(q) + 1)
         /\ \A i \in 1..Len(q) : Append(q, e)[i] = q[i]
         /\ Append(q, e)[Len(q) + 1] = e
OBVIOUS

(* A saved session has entries of the one that is saved, and its counter.   *)
LEMMA SavedFacts ==
  ASSUME NEW sess \in SessionFiles
  PROVE  /\ Saved(sess) \in SessionFiles
         /\ Saved(sess).inputSeq = sess.inputSeq
         /\ \A k \in DOMAIN Saved(sess).history : \E j \in DOMAIN sess.history :
              Saved(sess).history[k] = sess.history[j]
<1>1. /\ sess.history \in Seq(Entries) /\ sess.seen \in Seq(Ids) /\ sess.runs \in Seq(Nat)
  BY DEF SessionFiles
<1> DEFINE h == Newest(sess.history, 2 * HistoryLimit)
           n == Newest(sess.seen, SeenKeep)
           r == Newest(sess.runs, SeenKeep)
<1>2. /\ h \in Seq(Entries) /\ n \in Seq(Ids) /\ r \in Seq(Nat)
      /\ \A k \in DOMAIN h : \E j \in DOMAIN sess.history : h[k] = sess.history[j]
  BY <1>1, NewestFacts, LimitsAreNat
<1>3. Saved(sess) = [sess EXCEPT !.history = h, !.seen = n, !.runs = r]
  BY DEF Saved
<1> HIDE DEF h, n, r
<1>4. Saved(sess) \in SessionFiles /\ Saved(sess).inputSeq = sess.inputSeq
      /\ Saved(sess).history = h
  BY <1>2, <1>3 DEF SessionFiles
<1> QED BY <1>2, <1>4

LEMMA InRunType ==
  ASSUME NEW sess \in SessionFiles, NEW r \in Nat
  PROVE  InRun(sess, r) \in SessionFiles /\ InRun(sess, r).history = sess.history
         /\ InRun(sess, r).next = sess.next /\ InRun(sess, r).seen = sess.seen
<1> DEFINE runs == IF InSeq(r, sess.runs) THEN sess.runs ELSE Append(sess.runs, r)
<1>1. sess.runs \in Seq(Nat)
  BY DEF SessionFiles
<1>2. runs \in Seq(Nat)
  BY <1>1
<1>3. InRun(sess, r) = [sess EXCEPT !.runs = runs]
  BY DEF InRun
<1> HIDE DEF runs
<1> QED BY <1>2, <1>3 DEF SessionFiles

LEMMA NumberedType ==
  ASSUME NEW sess \in SessionFiles, NEW r \in Nat, NEW host \in Ids \cup {None}
  PROVE  /\ Numbered(sess, r, host) \in SessionFiles
         /\ Numbered(sess, r, host).history = sess.history
<1> DEFINE base == InRun(sess, r)
           seen == IF host = None THEN base.seen ELSE Append(base.seen, host)
<1>1. base \in SessionFiles /\ base.history = sess.history
  BY InRunType
<1>2. base.next + 1 \in Nat /\ base.seen \in Seq(Ids)
  BY <1>1 DEF SessionFiles
<1>3. seen \in Seq(Ids)
  BY <1>2
<1>4. Numbered(sess, r, host) = [base EXCEPT !.next = base.next + 1, !.seen = seen]
  BY DEF Numbered
<1> HIDE DEF base, seen
<1> QED BY <1>1, <1>2, <1>3, <1>4 DEF SessionFiles

LEMMA CallIdType ==
  ASSUME NEW sess \in SessionFiles, NEW r \in Nat, NEW host \in Ids \cup {None}
  PROVE  CallIdFor(sess, r, host) \in CallIds
<1>1. sess.next \in Nat
  BY DEF SessionFiles
<1>2. \A id \in Ids \cup {None}, a \in Nat, b \in Nat : [run |-> a, id |-> id, step |-> b] \in CallIds
  BY DEF CallIds
<1>3. CASE host = None
  BY <1>1, <1>2, <1>3 DEF CallIdFor
<1>4. CASE host # None /\ InSeq(host, sess.seen)
  BY <1>1, <1>2, <1>4 DEF CallIdFor
<1>5. CASE host # None /\ ~InSeq(host, sess.seen)
  BY <1>1, <1>2, <1>5 DEF CallIdFor
<1> QED BY <1>3, <1>4, <1>5

LEMMA KindType ==
  ASSUME NEW r \in RunContexts
  PROVE  TriggerKind(r) \in TriggerKinds
BY DEF TriggerKind, TriggerKinds

LEMMA RequestType ==
  ASSUME NEW sess \in SessionFiles, NEW r \in Runs, NEW batch \in Seq(HostCalls),
         NEW c \in HostCalls
  PROVE  Request(sess, r, batch, c) \in Requests /\ Request(sess, r, batch, c).id = c.req
<1>1. r.id \in Nat /\ r.known \in RunContexts /\ c.req \in Nat /\ c.host \in Ids \cup {None}
  BY DEF Runs, HostCalls
<1>2. Newest(sess.history, HistoryLimit) \in Seq(Entries)
  BY NewestFacts, LimitsAreNat DEF SessionFiles
<1>3. SiblingIds(batch, c.host) \subseteq CallIds
  <2> SUFFICES ASSUME NEW i \in DOMAIN batch
               PROVE  [run |-> 0, id |-> batch[i].host, step |-> 0] \in CallIds
    BY DEF SiblingIds
  <2>1. batch[i] \in HostCalls
    OBVIOUS
  <2> QED BY <2>1 DEF CallIds, HostCalls
<1>4. SentInputs(sess) \subseteq Inputs
  BY DEF SentInputs, SessionFiles
<1>5. Len(InRun(sess, r.id).runs) \in Nat
  <2>1. InRun(sess, r.id) \in SessionFiles
    BY <1>1, InRunType
  <2>2. InRun(sess, r.id).runs \in Seq(Nat)
    BY <2>1 DEF SessionFiles
  <2> QED BY <2>2
<1>6. TriggerKind(r.known) \in TriggerKinds
  BY <1>1, KindType
<1>7. CallIdFor(sess, r.id, c.host) \in CallIds
  BY <1>1, CallIdType
<1>8. sess.next \in Nat /\ sess.token \in Tokens
  BY DEF SessionFiles
<1> QED BY <1>1, <1>2, <1>3, <1>4, <1>5, <1>6, <1>7, <1>8 DEF Request, Requests

LEMMA WithDecisionFacts ==
  ASSUME NEW q \in Seq(Entries), NEW r, NEW final \in Decisions
  PROVE  /\ WithDecision(q, r, final) \in Seq(Entries)
         /\ DOMAIN WithDecision(q, r, final) = DOMAIN q
         /\ \A k \in DOMAIN q :
              LET e == WithDecision(q, r, final)[k]
              IN  /\ e.req = q[k].req /\ e.snoozed = q[k].snoozed
                  /\ e.decision = IF q[k].req = r THEN final ELSE q[k].decision
<1>1. \A k \in 1..Len(q) : q[k] \in Entries
  OBVIOUS
<1>2. \A e \in Entries :
        /\ [e EXCEPT !.decision = final] \in Entries
        /\ [e EXCEPT !.decision = final].req = e.req
        /\ [e EXCEPT !.decision = final].snoozed = e.snoozed
        /\ [e EXCEPT !.decision = final].decision = final
  BY DEF Entries
<1>3. WithDecision(q, r, final) = [k \in 1..Len(q) |->
        IF q[k].req = r THEN [q[k] EXCEPT !.decision = final] ELSE q[k]]
  BY DEF WithDecision
<1>4. WithDecision(q, r, final) \in [1..Len(q) -> Entries]
  BY <1>1, <1>2, <1>3
<1>5. WithDecision(q, r, final) \in Seq(Entries)
  BY <1>4, SeqDef
<1> QED BY <1>1, <1>2, <1>3, <1>5

-----------------------------------------------------------------------------
(* What one step does to the calls and to the chain of a session.           *)

LEMMA SetCallFacts ==
  ASSUME Shape, NEW s \in Sessions, NEW i \in DOMAIN calls[s], NEW c \in HostCalls,
         SetCall(s, i, c)
  PROVE  /\ calls' \in [Sessions -> Seq(HostCalls)]
         /\ \A t \in Sessions : DOMAIN calls'[t] = DOMAIN calls[t]
         /\ calls'[s][i] = c
         /\ \A t \in Sessions : \A j \in DOMAIN calls[t] :
              t # s \/ j # i => calls'[t][j] = calls[t][j]
<1>1. calls \in [Sessions -> Seq(HostCalls)]
  BY DEF Shape
<1>2. [calls[s] EXCEPT ![i] = c] \in Seq(HostCalls)
  BY <1>1
<1>3. calls' = [calls EXCEPT ![s] = [calls[s] EXCEPT ![i] = c]]
  BY DEF SetCall
<1>4. DOMAIN [calls[s] EXCEPT ![i] = c] = DOMAIN calls[s]
  OBVIOUS
<1> QED BY <1>1, <1>2, <1>3, <1>4

LEMMA JoinFacts ==
  ASSUME Shape, NEW s \in Sessions, NEW turn \in Turns, Join(s, turn)
  PROVE  /\ chain' \in [Sessions -> Seq(Turns)]
         /\ \A t \in Sessions : t # s => chain'[t] = chain[t]
         /\ DOMAIN chain[s] = 1..Len(chain[s]) /\ Len(chain[s]) \in Nat
         /\ DOMAIN chain'[s] = 1..(Len(chain[s]) + 1)
         /\ \A n \in DOMAIN chain[s] : chain'[s][n] = chain[s][n]
         /\ chain'[s][Len(chain[s]) + 1] = turn
<1>1. chain \in [Sessions -> Seq(Turns)] /\ chain[s] \in Seq(Turns)
  BY DEF Shape
<1>2. chain' = [chain EXCEPT ![s] = Append(chain[s], turn)]
  BY DEF Join
<1>3. /\ Append(chain[s], turn) \in Seq(Turns)
      /\ DOMAIN Append(chain[s], turn) = 1..(Len(chain[s]) + 1)
      /\ \A n \in 1..Len(chain[s]) : Append(chain[s], turn)[n] = chain[s][n]
      /\ Append(chain[s], turn)[Len(chain[s]) + 1] = turn
  BY <1>1, AppendFacts
<1> QED BY <1>1, <1>2, <1>3

LEMMA LeaveFacts ==
  ASSUME Shape, NEW s \in Sessions, chain[s] # <<>>, Leave(s)
  PROVE  /\ chain' \in [Sessions -> Seq(Turns)]
         /\ \A t \in Sessions : t # s => chain'[t] = chain[t]
         /\ DOMAIN chain[s] = 1..Len(chain[s]) /\ Len(chain[s]) \in Nat /\ 1 \in DOMAIN chain[s]
         /\ DOMAIN chain'[s] = 1..(Len(chain[s]) - 1)
         /\ \A n \in DOMAIN chain'[s] : n + 1 \in DOMAIN chain[s] /\ chain'[s][n] = chain[s][n + 1]
<1>1. chain \in [Sessions -> Seq(Turns)] /\ chain[s] \in Seq(Turns)
  BY DEF Shape
<1>2. chain' = [chain EXCEPT ![s] = Tail(chain[s])]
  BY DEF Leave
<1>3. /\ Tail(chain[s]) \in Seq(Turns) /\ Len(chain[s]) > 0 /\ Len(chain[s]) \in Nat
      /\ DOMAIN Tail(chain[s]) = 1..(Len(chain[s]) - 1)
      /\ \A n \in 1..(Len(chain[s]) - 1) : Tail(chain[s])[n] = chain[s][n + 1]
  BY <1>1
<1>4. chain'[s] = Tail(chain[s])
  BY <1>1, <1>2
<1>5. \A n \in DOMAIN chain'[s] : n + 1 \in 1..Len(chain[s]) /\ chain'[s][n] = chain[s][n + 1]
  BY <1>3, <1>4
<1> QED BY <1>1, <1>2, <1>3, <1>4, <1>5

(* A turn has what its kind has.                                            *)
LEMMA TurnFacts ==
  ASSUME NEW turn \in Turns
  PROVE  /\ turn.do \in {"scan", "result", "resolve"}
         /\ turn.do = "scan" => turn.call \in Nat \ {0}
         /\ turn.do = "resolve" => turn.req \in Nat /\ turn.final \in Decisions
         /\ turn.do = "result" => /\ turn.host \in Ids /\ turn.text \in Nat
                                  /\ turn.error \in BOOLEAN /\ turn.ran \in BOOLEAN
<1>1. CASE turn \in ScanTurns
  BY <1>1 DEF ScanTurns
<1>2. CASE turn \in ResultTurns
  BY <1>2 DEF ResultTurns
<1>3. CASE turn \in ResolutionTurns
  BY <1>3 DEF ResolutionTurns
<1> QED BY <1>1, <1>2, <1>3 DEF Turns

LEMMA WorkFacts ==
  ASSUME TypeInv, NEW s \in Sessions, work[s].phase = "sent"
  PROVE  /\ work[s] \in Scans /\ work[s] # Idle
         /\ work[s].call \in DOMAIN calls[s] /\ calls[s][work[s].call] \in HostCalls
         /\ calls[s][work[s].call].st = "queued"
         /\ chain[s] # <<>> /\ chain[s][1].call = work[s].call
         /\ work[s].sess \in SessionFiles /\ work[s].req \in Requests
         /\ work[s].sess.history = session[s].history
         /\ work[s].req.id = calls[s][work[s].call].req
<1>1. work[s] \in {Idle} \cup Scans /\ Idle.phase = "idle"
  BY DEF TypeInv, Shape, Idle
<1>2. work[s] \in Scans /\ work[s] # Idle
  BY <1>1
<1>3. chain[s] \in Seq(Turns) /\ chain[s] # <<>> /\ chain[s][1].do = "scan"
      /\ chain[s][1].call = work[s].call
  BY <1>2 DEF TypeInv, Shape, WorkInv
<1>4. 1 \in DOMAIN chain[s]
  BY <1>3
<1>5. work[s].call \in DOMAIN calls[s] /\ calls[s][work[s].call].st = "queued"
  BY <1>3, <1>4 DEF TypeInv, WaitInv
<1>6. calls[s][work[s].call] \in HostCalls
  BY <1>5 DEF TypeInv, Shape
<1>7. work[s].sess \in SessionFiles /\ work[s].req \in Requests
  BY <1>2 DEF Scans
<1> QED BY <1>2, <1>3, <1>5, <1>6, <1>7 DEF TypeInv, WorkInv

(* A call that is over waits for nothing, nor does a scan work for it.      *)
LEMMA NothingWaits ==
  ASSUME TypeInv, NEW s \in Sessions, Over(s)
  PROVE  /\ \A n \in DOMAIN chain[s] : chain[s][n].do # "scan"
         /\ work[s] = Idle
<1>1. \A n \in DOMAIN chain[s] : chain[s][n].do # "scan"
  BY DEF TypeInv, WaitInv, Over
<1>2. SUFFICES ASSUME work[s] # Idle PROVE FALSE
  BY <1>1
<1>3. chain[s] \in Seq(Turns) /\ chain[s] # <<>> /\ chain[s][1].do = "scan"
  BY <1>2 DEF TypeInv, Shape, WorkInv
<1> QED BY <1>1, <1>3

-----------------------------------------------------------------------------
(* Shapes, and that calls, chain and work go together.                      *)

LEMMA TypeInit == Init => TypeInv
<1> SUFFICES ASSUME Init PROVE TypeInv
  OBVIOUS
<1>1. EmptySession \in SessionFiles
  BY DEF EmptySession, SessionFiles, NoToken, Tokens
<1>2. NoContext \in RunContexts
  BY DEF NoContext, RunContexts, Triggers
<1> QED BY <1>1, <1>2 DEF Init, TypeInv, Shape, Runs, WaitInv, WorkInv, CallInv

(* A call that waits for no scan moves on, and may send for one.            *)
LEMMA CallMoves ==
  ASSUME TypeInv, NEW s \in Sessions, NEW i \in DOMAIN calls[s], NEW c \in HostCalls,
         calls[s][i].st # "queued", Proper(c), SetCall(s, i, c),
         \/ UNCHANGED chain
         \/ \E turn \in Turns : /\ Join(s, turn)
                                /\ turn.do = "scan" => turn.call = i /\ c.st = "queued",
         UNCHANGED <<session, run, work, lost>>,
         full' \in Seq(FullResults), nextReq' \in Nat \ {0}
  PROVE  TypeInv'
<1>1. /\ calls' \in [Sessions -> Seq(HostCalls)]
      /\ \A t \in Sessions : DOMAIN calls'[t] = DOMAIN calls[t]
      /\ calls'[s][i] = c
      /\ \A t \in Sessions : \A j \in DOMAIN calls[t] :
           t # s \/ j # i => calls'[t][j] = calls[t][j]
  BY SetCallFacts DEF TypeInv
<1>2. /\ chain' \in [Sessions -> Seq(Turns)]
      /\ \A t \in Sessions : DOMAIN chain[t] \subseteq DOMAIN chain'[t]
      /\ \A t \in Sessions : \A n \in DOMAIN chain[t] : chain'[t][n] = chain[t][n]
      /\ \A t \in Sessions : \A n \in DOMAIN chain'[t] \ DOMAIN chain[t] :
           /\ chain'[t][n].do = "scan" =>
                t = s /\ chain'[t][n].call = i /\ c.st = "queued"
           /\ \A m \in DOMAIN chain'[t] \ DOMAIN chain[t] : m = n
  <2>1. CASE UNCHANGED chain
    BY <2>1 DEF TypeInv, Shape
  <2>2. CASE ~UNCHANGED chain
    <3>1. PICK turn \in Turns : Join(s, turn) /\ (turn.do = "scan" => turn.call = i /\ c.st = "queued")
      BY <2>2
    <3>2. /\ chain' \in [Sessions -> Seq(Turns)]
          /\ \A t \in Sessions : t # s => chain'[t] = chain[t]
          /\ DOMAIN chain[s] = 1..Len(chain[s]) /\ Len(chain[s]) \in Nat
          /\ DOMAIN chain'[s] = 1..(Len(chain[s]) + 1)
          /\ \A n \in DOMAIN chain[s] : chain'[s][n] = chain[s][n]
          /\ chain'[s][Len(chain[s]) + 1] = turn
      BY <3>1, JoinFacts DEF TypeInv
    <3>3. \A n \in DOMAIN chain'[s] \ DOMAIN chain[s] : n = Len(chain[s]) + 1
      BY <3>2
    <3>4. DOMAIN chain[s] \subseteq DOMAIN chain'[s]
      BY <3>2
    <3> QED BY <3>1, <3>2, <3>3, <3>4
  <2> QED BY <2>1, <2>2
<1>3. Shape'
  BY <1>1, <1>2 DEF TypeInv, Shape
<1>4. WaitInv'
  <2> SUFFICES ASSUME NEW t \in Sessions, NEW n \in DOMAIN chain'[t], chain'[t][n].do = "scan"
               PROVE  /\ chain'[t][n].call \in DOMAIN calls'[t]
                      /\ calls'[t][chain'[t][n].call].st = "queued"
                      /\ \A m \in DOMAIN chain'[t] :
                           chain'[t][m].do = "scan" /\ chain'[t][m].call = chain'[t][n].call => m = n
    BY DEF WaitInv
  <2>0. \A m \in DOMAIN chain[t] : chain[t][m].do = "scan" =>
          /\ chain[t][m].call \in DOMAIN calls[t] /\ calls[t][chain[t][m].call].st = "queued"
          /\ t = s => chain[t][m].call # i
          /\ \A l \in DOMAIN chain[t] :
               chain[t][l].do = "scan" /\ chain[t][l].call = chain[t][m].call => l = m
    BY DEF TypeInv, WaitInv
  <2>1. CASE n \in DOMAIN chain[t]
    <3>1. chain'[t][n] = chain[t][n] /\ chain[t][n].do = "scan"
      BY <1>2, <2>1
    <3>2. \A m \in DOMAIN chain'[t] :
            chain'[t][m].do = "scan" /\ chain'[t][m].call = chain'[t][n].call => m = n
      <4> SUFFICES ASSUME NEW m \in DOMAIN chain'[t], chain'[t][m].do = "scan",
                          chain'[t][m].call = chain'[t][n].call
                   PROVE  m = n
        OBVIOUS
      <4>1. CASE m \in DOMAIN chain[t]
        BY <1>2, <2>0, <2>1, <3>1, <4>1
      <4>2. CASE m \notin DOMAIN chain[t]
        BY <1>2, <2>0, <2>1, <3>1, <4>2
      <4> QED BY <4>1, <4>2
    <3> QED BY <1>1, <2>0, <2>1, <3>1, <3>2
  <2>2. CASE n \notin DOMAIN chain[t]
    <3>1. t = s /\ chain'[t][n].call = i /\ c.st = "queued"
      BY <1>2, <2>2
    <3>2. \A m \in DOMAIN chain'[t] :
            chain'[t][m].do = "scan" /\ chain'[t][m].call = i => m = n
      BY <1>2, <2>0, <2>2, <3>1
    <3> QED BY <1>1, <3>1, <3>2
  <2> QED BY <2>1, <2>2
<1>5. WorkInv'
  <2> SUFFICES ASSUME NEW t \in Sessions, work[t] # Idle
               PROVE  /\ chain'[t] # <<>> /\ chain'[t][1].do = "scan"
                      /\ chain'[t][1].call = work[t].call
                      /\ work[t].sess.history = session[t].history
                      /\ work[t].req.id = calls'[t][work[t].call].req
    BY DEF WorkInv
  <2>1. chain[t] \in Seq(Turns) /\ chain[t] # <<>> /\ chain[t][1].do = "scan"
        /\ chain[t][1].call = work[t].call
    BY DEF TypeInv, Shape, WorkInv
  <2>2. 1 \in DOMAIN chain[t]
    BY <2>1
  <2>3. work[t].call \in DOMAIN calls[t] /\ calls[t][work[t].call].st = "queued"
    BY <2>1, <2>2 DEF TypeInv, WaitInv
  <2>4. chain'[t][1] = chain[t][1] /\ 1 \in DOMAIN chain'[t]
    BY <1>2, <2>2
  <2>5. calls'[t][work[t].call] = calls[t][work[t].call]
    BY <1>1, <2>3
  <2>6. chain'[t] # <<>>
    BY <1>2, <2>4
  <2> QED BY <2>1, <2>4, <2>5, <2>6 DEF TypeInv, WorkInv
<1>6. CallInv'
  BY <1>1 DEF TypeInv, CallInv
<1> QED BY <1>3, <1>4, <1>5, <1>6 DEF TypeInv

(* The next run or message has new calls.                                   *)
LEMMA CallsReplaced ==
  ASSUME TypeInv, NEW s \in Sessions, Over(s), NEW q \in Seq(HostCalls),
         \A i \in DOMAIN q : Proper(q[i]), calls' = [calls EXCEPT ![s] = q],
         run' \in [Sessions -> Runs],
         UNCHANGED <<session, chain, work, full, nextReq, lost>>
  PROVE  TypeInv'
<1>1. /\ \A n \in DOMAIN chain[s] : chain[s][n].do # "scan"
      /\ work[s] = Idle
  BY NothingWaits
<1>2. calls' \in [Sessions -> Seq(HostCalls)] /\ calls'[s] = q
      /\ \A t \in Sessions : t # s => calls'[t] = calls[t]
  BY DEF TypeInv, Shape
<1>3. Shape'
  BY <1>2 DEF TypeInv, Shape
<1>4. WaitInv'
  BY <1>1, <1>2 DEF TypeInv, WaitInv
<1>5. WorkInv'
  BY <1>1, <1>2 DEF TypeInv, WorkInv
<1>6. CallInv'
  BY <1>2 DEF TypeInv, CallInv
<1> QED BY <1>3, <1>4, <1>5, <1>6 DEF TypeInv

LEMMA NewCallType ==
  ASSUME NEW host \in Ids \cup {None}, NEW kind \in CallKinds
  PROVE  /\ NewCall(host, kind) \in HostCalls
         /\ NewCall(host, kind).st = "new" /\ NewCall(host, kind).req = 0
         /\ NewCall(host, kind).host = host /\ NewCall(host, kind).kind = kind
         /\ (kind = "wrapper" => host \in HostIds) => Proper(NewCall(host, kind))
<1>1. NewCall(host, kind) \in HostCalls
      /\ NewCall(host, kind).st = "new" /\ NewCall(host, kind).req = 0
      /\ NewCall(host, kind).host = host /\ NewCall(host, kind).kind = kind
      /\ NewCall(host, kind).onTimeout = "deny"
  BY DEF NewCall, HostCalls, States
<1> QED BY <1>1 DEF Proper

LEMMA NewRunType ==
  ASSUME TypeInv, NEW s \in Sessions, NewRun(s)
  PROVE  TypeInv' /\ calls'[s] = <<>>
<1>1. PICK is \in Contexts :
        run' = [run EXCEPT ![s] = [id |-> run[s].id + 1, is |-> is, known |-> NoContext]]
  BY DEF NewRun, TypeInv, Shape
<1>2. run[s].id + 1 \in Nat
  BY DEF TypeInv, Shape, Runs
<1>3. is \in RunContexts /\ NoContext \in RunContexts
  BY HostAssumption DEF NoContext, RunContexts, Triggers
<1>4. [id |-> run[s].id + 1, is |-> is, known |-> NoContext] \in Runs
  BY <1>2, <1>3 DEF Runs
<1>5. run' \in [Sessions -> Runs]
  BY <1>1, <1>4 DEF TypeInv, Shape
<1>6. calls' = [calls EXCEPT ![s] = <<>>] /\ Over(s)
      /\ UNCHANGED <<session, chain, work, full, nextReq, lost>>
  BY DEF NewRun, files
<1>7. <<>> \in Seq(HostCalls) /\ DOMAIN <<>> = {}
  OBVIOUS
<1>8. calls'[s] = <<>>
  BY <1>6 DEF TypeInv, Shape
<1> QED BY <1>5, <1>6, <1>7, <1>8, CallsReplaced

LEMMA RememberType ==
  ASSUME TypeInv, NEW s \in Sessions, Remember(s)
  PROVE  TypeInv'
<1>1. PICK trigger \in {run[s].known.trigger, run[s].is.trigger},
           subagent \in {run[s].known.subagent, run[s].is.subagent},
           builtin \in {run[s].known.builtin, run[s].is.builtin} :
        run' = [run EXCEPT ![s].known =
                  [trigger |-> trigger, subagent |-> subagent, builtin |-> builtin]]
  BY DEF Remember
<1>2. run \in [Sessions -> Runs] /\ run[s].known \in RunContexts /\ run[s].is \in RunContexts
  BY DEF TypeInv, Shape, Runs
<1>3. [trigger |-> trigger, subagent |-> subagent, builtin |-> builtin] \in RunContexts
  BY <1>2 DEF RunContexts
<1>4. run' \in [Sessions -> Runs]
  BY <1>1, <1>2, <1>3 DEF Runs
<1>5. UNCHANGED <<session, chain, work, calls, full, nextReq, lost>>
  BY DEF Remember, files
<1> QED BY <1>4, <1>5 DEF TypeInv, Shape, WaitInv, WorkInv, CallInv

LEMMA MessageWriteType ==
  ASSUME TypeInv, NEW s \in Sessions, MessageWrite(s)
  PROVE  TypeInv' /\ \A i \in DOMAIN calls'[s] : calls'[s][i].req = 0
<1> DEFINE batch(n, host, kind) ==
             calls' = [calls EXCEPT ![s] = [i \in 1..n |-> NewCall(host[i], kind[i])]]
           named(n, host, kind) == \A i \in 1..n : kind[i] = "wrapper" => host[i] # None
<1>0. \E n \in 1..MaxBatch :
        \E host \in [1..n -> HostIds \cup {None}], kind \in [1..n -> {"plain", "wrapper"}] :
          /\ \A i, j \in 1..n : i # j /\ host[i] = host[j] => host[i] = None
          /\ \A i \in 1..n : host[i] # None => used[s][host[i]] < IdReuse
          /\ named(n, host, kind)
          /\ batch(n, host, kind)
          /\ used' = [used EXCEPT ![s] =
               [h \in HostIds |-> IF \E i \in 1..n : host[i] = h THEN @[h] + 1 ELSE @[h]]]
  BY Zenon DEF MessageWrite
<1> HIDE DEF batch, named
<1>1. PICK n, host, kind :
        /\ n \in 1..MaxBatch
        /\ host \in [1..n -> HostIds \cup {None}] /\ kind \in [1..n -> {"plain", "wrapper"}]
        /\ named(n, host, kind) /\ batch(n, host, kind)
  BY <1>0, Zenon
<1> USE DEF batch, named
<1> DEFINE q == [i \in 1..n |-> NewCall(host[i], kind[i])]
<1>2. n \in Nat
  BY <1>1, HostAssumption
<1>3. \A i \in 1..n : /\ q[i] \in HostCalls /\ Proper(q[i]) /\ q[i].req = 0
  <2> SUFFICES ASSUME NEW i \in 1..n
               PROVE  q[i] \in HostCalls /\ Proper(q[i]) /\ q[i].req = 0
    OBVIOUS
  <2>1. host[i] \in HostIds \cup {None} /\ kind[i] \in {"plain", "wrapper"}
    BY <1>1
  <2>2. host[i] \in Ids \cup {None} /\ kind[i] \in CallKinds
        /\ (kind[i] = "wrapper" => host[i] \in HostIds)
    BY <1>1, <2>1 DEF Ids, CallKinds
  <2> QED BY <2>2, NewCallType
<1>4. DOMAIN q = 1..n /\ q \in Seq(HostCalls)
  <2>1. q \in [1..n -> HostCalls]
    BY <1>3
  <2> QED BY <1>2, <2>1, SeqDef
<1>5. calls' = [calls EXCEPT ![s] = q] /\ Over(s)
      /\ UNCHANGED <<session, run, chain, work, full, nextReq, lost>>
  BY <1>1 DEF MessageWrite, files
<1>6. calls'[s] = q
  BY <1>5 DEF TypeInv, Shape
<1>7. run' \in [Sessions -> Runs]
  BY <1>5 DEF TypeInv, Shape
<1> HIDE DEF q
<1>8. \A i \in DOMAIN q : Proper(q[i]) /\ q[i].req = 0
  BY <1>3, <1>4
<1>9. TypeInv'
  BY <1>4, <1>5, <1>7, <1>8, CallsReplaced
<1> QED BY <1>6, <1>8, <1>9

(* A wrapper's call joins those of the message.                             *)
LEMMA DispatchType ==
  ASSUME TypeInv, NEW s \in Sessions, NEW i \in DOMAIN calls[s], Dispatch(s, i)
  PROVE  /\ TypeInv'
         /\ \A t \in Sessions : t # s => calls'[t] = calls[t]
         /\ DOMAIN calls[s] \subseteq DOMAIN calls'[s]
         /\ \A j \in DOMAIN calls[s] : calls'[s][j] = calls[s][j]
         /\ \A j \in DOMAIN calls'[s] \ DOMAIN calls[s] : calls'[s][j].req = 0
<1> DEFINE new == NewCall([via |-> calls[s][i].host], "dispatched")
<1>1. calls[s][i].kind = "wrapper" /\ calls' = [calls EXCEPT ![s] = Append(calls[s], new)]
      /\ UNCHANGED <<session, run, chain, work, full, nextReq, lost>>
  BY DEF Dispatch, files
<1>2. calls[s][i].host \in HostIds
  BY <1>1 DEF TypeInv, CallInv, Proper
<1>3. [via |-> calls[s][i].host] \in Ids \cup {None}
  BY <1>2 DEF Ids
<1>4. new \in HostCalls /\ Proper(new) /\ new.req = 0
  BY <1>3, NewCallType DEF CallKinds
<1> HIDE DEF new
<1>5. calls \in [Sessions -> Seq(HostCalls)] /\ calls[s] \in Seq(HostCalls)
  BY DEF TypeInv, Shape
<1>6. /\ Append(calls[s], new) \in Seq(HostCalls)
      /\ DOMAIN Append(calls[s], new) = 1..(Len(calls[s]) + 1)
      /\ \A j \in 1..Len(calls[s]) : Append(calls[s], new)[j] = calls[s][j]
      /\ Append(calls[s], new)[Len(calls[s]) + 1] = new
  BY <1>4, <1>5, AppendFacts
<1>7. /\ calls' \in [Sessions -> Seq(HostCalls)]
      /\ \A t \in Sessions : t # s => calls'[t] = calls[t]
      /\ DOMAIN calls[s] \subseteq DOMAIN calls'[s]
      /\ \A j \in DOMAIN calls[s] : calls'[s][j] = calls[s][j]
      /\ \A j \in DOMAIN calls'[s] \ DOMAIN calls[s] : calls'[s][j] = new
  <2>1. DOMAIN calls[s] = 1..Len(calls[s]) /\ Len(calls[s]) \in Nat
    BY <1>5
  <2>2. calls'[s] = Append(calls[s], new)
    BY <1>1, <1>5
  <2>3. \A j \in DOMAIN calls'[s] \ DOMAIN calls[s] : j = Len(calls[s]) + 1
    BY <1>6, <2>1, <2>2
  <2>4. DOMAIN calls[s] \subseteq DOMAIN calls'[s]
    BY <1>6, <2>1, <2>2
  <2> QED BY <1>1, <1>5, <1>6, <2>1, <2>2, <2>3, <2>4
<1>8. Shape'
  BY <1>1, <1>7 DEF TypeInv, Shape
<1>9. WaitInv'
  <2> SUFFICES ASSUME NEW t \in Sessions, NEW n \in DOMAIN chain[t], chain[t][n].do = "scan"
               PROVE  /\ chain[t][n].call \in DOMAIN calls'[t]
                      /\ calls'[t][chain[t][n].call].st = "queued"
                      /\ \A m \in DOMAIN chain[t] :
                           chain[t][m].do = "scan" /\ chain[t][m].call = chain[t][n].call => m = n
    BY <1>1 DEF WaitInv
  <2>1. /\ chain[t][n].call \in DOMAIN calls[t]
        /\ calls[t][chain[t][n].call].st = "queued"
        /\ \A m \in DOMAIN chain[t] :
             chain[t][m].do = "scan" /\ chain[t][m].call = chain[t][n].call => m = n
    BY DEF TypeInv, WaitInv
  <2>2. CASE t = s
    BY <1>7, <2>1, <2>2
  <2>3. CASE t # s
    BY <1>7, <2>1, <2>3
  <2> QED BY <2>2, <2>3
<1>10. WorkInv'
  <2> SUFFICES ASSUME NEW t \in Sessions, work[t] # Idle
               PROVE  /\ chain[t] # <<>> /\ chain[t][1].do = "scan"
                      /\ chain[t][1].call = work[t].call
                      /\ work[t].sess.history = session[t].history
                      /\ work[t].req.id = calls'[t][work[t].call].req
    BY <1>1 DEF WorkInv
  <2>1. chain[t] \in Seq(Turns) /\ chain[t] # <<>> /\ chain[t][1].do = "scan"
        /\ chain[t][1].call = work[t].call
    BY DEF TypeInv, Shape, WorkInv
  <2>2. 1 \in DOMAIN chain[t]
    BY <2>1
  <2>3. work[t].call \in DOMAIN calls[t]
    BY <2>1, <2>2 DEF TypeInv, WaitInv
  <2>4. calls'[t][work[t].call] = calls[t][work[t].call]
    BY <1>7, <2>3
  <2> QED BY <2>1, <2>4 DEF TypeInv, WorkInv
<1>11. CallInv'
  <2> SUFFICES ASSUME NEW t \in Sessions, NEW j \in DOMAIN calls'[t]
               PROVE  Proper(calls'[t][j])
    BY DEF CallInv
  <2>1. CASE t = s /\ j \notin DOMAIN calls[s]
    BY <1>4, <1>7, <2>1
  <2>2. CASE t # s \/ j \in DOMAIN calls[s]
    BY <1>7, <2>2 DEF TypeInv, CallInv
  <2> QED BY <2>1, <2>2
<1>12. TypeInv'
  BY <1>8, <1>9, <1>10, <1>11 DEF TypeInv
<1> QED BY <1>4, <1>7, <1>12

LEMMA BeforeToolCallType ==
  ASSUME TypeInv, NEW s \in Sessions, NEW i \in DOMAIN calls[s], BeforeToolCall(s, i)
  PROVE  TypeInv'
<1> DEFINE c == [calls[s][i] EXCEPT !.st = "queued", !.req = nextReq]
           turn == [do |-> "scan", call |-> i]
<1>1. /\ calls[s][i].st = "new" /\ calls[s][i].kind # "wrapper"
      /\ nextReq' = nextReq + 1 /\ SetCall(s, i, c) /\ Join(s, turn)
      /\ UNCHANGED <<session, run, work, full, lost>>
  BY DEF BeforeToolCall, files
<1>2. calls[s] \in Seq(HostCalls) /\ calls[s][i] \in HostCalls /\ nextReq \in Nat \ {0}
  BY DEF TypeInv, Shape
<1>3. i \in Nat \ {0}
  BY <1>2
<1>4. turn \in Turns /\ turn.do = "scan" /\ turn.call = i
  BY <1>3 DEF Turns, ScanTurns
<1>5. c \in HostCalls /\ c.st = "queued" /\ c.req # 0 /\ c.kind = calls[s][i].kind
      /\ c.onTimeout = calls[s][i].onTimeout
  BY <1>2 DEF HostCalls, States
<1>6. Proper(c)
  BY <1>1, <1>5 DEF TypeInv, CallInv, Proper
<1>7. full' \in Seq(FullResults) /\ nextReq' \in Nat \ {0}
  BY <1>1, <1>2 DEF TypeInv, Shape
<1> HIDE DEF c, turn
<1> QED BY <1>1, <1>4, <1>5, <1>6, <1>7, CallMoves

LEMMA BeforeWrapperType ==
  ASSUME TypeInv, NEW s \in Sessions, NEW i \in DOMAIN calls[s], BeforeWrapper(s, i)
  PROVE  TypeInv'
<1> DEFINE c == [calls[s][i] EXCEPT !.st = "running"]
<1>1. /\ calls[s][i].st = "new" /\ calls[s][i].kind = "wrapper" /\ SetCall(s, i, c)
      /\ UNCHANGED <<session, run, chain, work, full, nextReq, lost>>
  BY DEF BeforeWrapper, files
<1>2. calls[s][i] \in HostCalls
  BY DEF TypeInv, Shape
<1>3. /\ c \in HostCalls /\ c.st = "running" /\ c.req = calls[s][i].req
      /\ c.kind = calls[s][i].kind /\ c.host = calls[s][i].host
      /\ c.onTimeout = calls[s][i].onTimeout
  BY <1>2 DEF HostCalls, States
<1>4. Proper(c)
  BY <1>1, <1>3 DEF TypeInv, CallInv, Proper
<1>5. full' \in Seq(FullResults) /\ nextReq' \in Nat \ {0}
  BY <1>1 DEF TypeInv, Shape
<1> HIDE DEF c
<1> QED BY <1>1, <1>3, <1>4, <1>5, CallMoves

LEMMA FinalType ==
  ASSUME NEW onError \in BOOLEAN, NEW resolution \in Resolutions
  PROVE  Final(onError, resolution) \in Decisions
BY DEF Final, Approved, Resolutions, Decisions, NotRun

LEMMA ResolvedType ==
  ASSUME TypeInv, NEW s \in Sessions, NEW i \in DOMAIN calls[s], Resolved(s, i)
  PROVE  TypeInv'
<1>1. PICK resolution \in Resolutions :
        /\ SetCall(s, i, [calls[s][i] EXCEPT !.st =
             IF RunsOn(calls[s][i], resolution) THEN "running" ELSE "refused"])
        /\ Join(s, [do |-> "resolve", req |-> calls[s][i].req,
                    final |-> Final(calls[s][i].onError, resolution)])
  BY DEF Resolved
<1> DEFINE st == IF RunsOn(calls[s][i], resolution) THEN "running" ELSE "refused"
           c == [calls[s][i] EXCEPT !.st = st]
           turn == [do |-> "resolve", req |-> calls[s][i].req,
                    final |-> Final(calls[s][i].onError, resolution)]
<1>2. /\ calls[s][i].st = "asking" /\ SetCall(s, i, c) /\ Join(s, turn)
      /\ UNCHANGED <<session, run, work, full, nextReq, lost>>
  BY <1>1 DEF Resolved, files
<1>3. calls[s][i] \in HostCalls
  BY DEF TypeInv, Shape
<1>4. calls[s][i].req \in Nat /\ calls[s][i].onError \in BOOLEAN
  BY <1>3 DEF HostCalls
<1>5. Final(calls[s][i].onError, resolution) \in Decisions
  BY <1>4, FinalType
<1>6. turn \in Turns /\ turn.do # "scan"
  BY <1>4, <1>5 DEF Turns, ResolutionTurns
<1>7. st \in {"running", "refused"}
  OBVIOUS
<1> HIDE DEF st
<1>8. /\ c \in HostCalls /\ c.st = st /\ c.req = calls[s][i].req
      /\ c.kind = calls[s][i].kind /\ c.host = calls[s][i].host
      /\ c.onTimeout = calls[s][i].onTimeout
  BY <1>3, <1>7 DEF HostCalls, States
<1>9. Proper(c)
  BY <1>2, <1>7, <1>8 DEF TypeInv, CallInv, Proper
<1>10. full' \in Seq(FullResults) /\ nextReq' \in Nat \ {0}
  BY <1>2 DEF TypeInv, Shape
<1> HIDE DEF c, turn
<1> QED BY <1>2, <1>6, <1>8, <1>9, <1>10, CallMoves

LEMMA KeptType ==
  ASSUME Shape, NEW host \in Ids, NEW text \in Nat
  PROVE  Kept(host, text) \in Seq(FullResults) /\ WithoutHost(host) \in Seq(FullResults)
<1>1. full \in Seq(FullResults) /\ [host |-> host, text |-> text] \in FullResults
  BY DEF Shape, FullResults
<1>2. Kept(host, text) \in Seq(FullResults)
  <2>1. CASE HeldUnder(host) # {}
    <3> DEFINE f == [n \in 1..Len(full) |-> IF full[n].host = host
                       THEN [host |-> host, text |-> text] ELSE full[n]]
    <3>1. Kept(host, text) = f
      BY <1>1, <2>1 DEF Kept
    <3>2. f \in [1..Len(full) -> FullResults]
      BY <1>1
    <3> HIDE DEF f
    <3> QED BY <1>1, <3>1, <3>2, SeqDef
  <2>2. CASE HeldUnder(host) = {}
    <3>1. Append(full, [host |-> host, text |-> text]) \in Seq(FullResults)
      BY <1>1
    <3> QED BY <2>2, <3>1, NewestFacts, LimitsAreNat DEF Kept
  <2> QED BY <2>1, <2>2
<1>3. WithoutHost(host) \in Seq(FullResults)
  <2>1. CASE HeldUnder(host) = {}
    BY <1>1, <2>1 DEF WithoutHost
  <2>2. CASE HeldUnder(host) # {}
    <3> DEFINE n == CHOOSE n \in HeldUnder(host) : TRUE
               f == [m \in 1..(Len(full) - 1) |-> full[IF m < n THEN m ELSE m + 1]]
    <3>1. n \in 1..Len(full)
      BY <1>1, <2>2 DEF HeldUnder
    <3>2. WithoutHost(host) = f
      BY <2>2 DEF WithoutHost
    <3> HIDE DEF n
    <3>3. Len(full) - 1 \in Nat
      BY <1>1, <3>1
    <3>4. f \in [1..(Len(full) - 1) -> FullResults]
      BY <1>1, <3>1
    <3> HIDE DEF f
    <3> QED BY <3>2, <3>3, <3>4, SeqDef
  <2> QED BY <2>1, <2>2
<1> QED BY <1>2, <1>3

LEMMA CallEndsType ==
  ASSUME TypeInv, NEW s \in Sessions, NEW i \in DOMAIN calls[s], CallEnds(s, i)
  PROVE  TypeInv'
<1> DEFINE c == [calls[s][i] EXCEPT !.st = "done"]
           turn(error) == [do |-> "result", host |-> calls[s][i].host,
                           text |-> calls[s][i].req, error |-> error,
                           ran |-> calls[s][i].st = "running"]
<1>1. PICK error \in BOOLEAN :
        /\ full' = IF error \/ calls[s][i].host = None THEN full
                   ELSE Kept(calls[s][i].host, calls[s][i].req)
        /\ IF ~Buffers(calls[s][i]) THEN UNCHANGED chain ELSE Join(s, turn(error))
  BY DEF CallEnds
<1>2. /\ calls[s][i].st \in {"running", "refused"} /\ SetCall(s, i, c)
      /\ UNCHANGED <<session, run, work, nextReq, lost>>
  BY DEF CallEnds, files
<1>3. calls[s][i] \in HostCalls
  BY DEF TypeInv, Shape
<1>4. calls[s][i].host \in Ids \cup {None} /\ calls[s][i].req \in Nat
  BY <1>3 DEF HostCalls
<1>5. full' \in Seq(FullResults) /\ nextReq' \in Nat \ {0}
  BY <1>1, <1>2, <1>4, KeptType DEF TypeInv, Shape
<1>6. Buffers(calls[s][i]) => turn(error) \in Turns /\ turn(error).do # "scan"
  <2> SUFFICES ASSUME Buffers(calls[s][i])
               PROVE  turn(error) \in Turns /\ turn(error).do # "scan"
    OBVIOUS
  <2>1. calls[s][i].host \in Ids
    BY <1>4 DEF Buffers
  <2>2. (calls[s][i].st = "running") \in BOOLEAN
    OBVIOUS
  <2>3. turn(error) \in ResultTurns
    BY <1>4, <2>1, <2>2 DEF ResultTurns
  <2> QED BY <2>3 DEF Turns
<1>7. /\ c \in HostCalls /\ c.st = "done" /\ c.req = calls[s][i].req
      /\ c.kind = calls[s][i].kind /\ c.host = calls[s][i].host
      /\ c.onTimeout = calls[s][i].onTimeout
  BY <1>3 DEF HostCalls, States
<1>8. Proper(c)
  BY <1>2, <1>7 DEF TypeInv, CallInv, Proper
<1>9. \/ UNCHANGED chain
      \/ \E t \in Turns : Join(s, t) /\ (t.do = "scan" => t.call = i /\ c.st = "queued")
  BY <1>1, <1>6
<1> HIDE DEF c
<1> QED BY <1>2, <1>5, <1>7, <1>8, <1>9, CallMoves

LEMMA ScanStartsType ==
  ASSUME TypeInv, NEW s \in Sessions, ScanStarts(s)
  PROVE  TypeInv'
<1> DEFINE i == chain[s][1].call
           c == calls[s][i]
           w == [phase |-> "sent", call |-> i, sess |-> Numbered(session[s], run[s].id, c.host),
                 req |-> Request(session[s], run[s], calls[s], c)]
<1>1. /\ work[s] = Idle /\ chain[s] # <<>> /\ chain[s][1].do = "scan" /\ c.st = "queued"
      /\ work' = [work EXCEPT ![s] = w]
      /\ UNCHANGED <<session, run, chain, calls, full, nextReq, lost>>
  BY DEF ScanStarts, HasTurn, files
<1>2. chain[s] \in Seq(Turns) /\ calls[s] \in Seq(HostCalls) /\ run[s] \in Runs
      /\ session[s] \in SessionFiles
  BY DEF TypeInv, Shape
<1>3. 1 \in DOMAIN chain[s] /\ chain[s][1] \in Turns
  BY <1>1, <1>2
<1>4. i \in DOMAIN calls[s]
  BY <1>1, <1>3 DEF TypeInv, WaitInv
<1>5. c \in HostCalls /\ i \in Nat \ {0}
  BY <1>2, <1>4
<1>6. c.host \in Ids \cup {None} /\ run[s].id \in Nat
  BY <1>2, <1>5 DEF HostCalls, Runs
<1>7. w.sess \in SessionFiles /\ w.sess.history = session[s].history
  BY <1>2, <1>6, NumberedType
<1>8. w.req \in Requests /\ w.req.id = c.req
  BY <1>2, <1>5, RequestType
<1>9. w \in Scans /\ w.call = i
  BY <1>5, <1>7, <1>8 DEF Scans
<1> HIDE DEF w
<1>10. work' \in [Sessions -> {Idle} \cup Scans] /\ work'[s] = w
       /\ \A t \in Sessions : t # s => work'[t] = work[t]
  BY <1>1, <1>9 DEF TypeInv, Shape
<1>11. Shape' /\ WaitInv' /\ CallInv'
  BY <1>1, <1>10 DEF TypeInv, Shape, WaitInv, CallInv
<1>12. WorkInv'
  BY <1>1, <1>7, <1>8, <1>9, <1>10 DEF TypeInv, WorkInv
<1> QED BY <1>11, <1>12 DEF TypeInv

(* The first turn of a chain ends; if it was a scan, its call goes on.      *)
LEMMA TurnEnds ==
  ASSUME TypeInv, NEW s \in Sessions, chain[s] # <<>>, Leave(s),
         session' \in [Sessions -> SessionFiles], work' \in [Sessions -> {Idle} \cup Scans],
         calls' \in [Sessions -> Seq(HostCalls)],
         full' \in Seq(FullResults), lost' \subseteq Nat,
         \A t \in Sessions : t # s => session'[t] = session[t] /\ work'[t] = work[t],
         work'[s] = Idle,
         \A t \in Sessions : DOMAIN calls'[t] = DOMAIN calls[t],
         \A t \in Sessions : \A j \in DOMAIN calls[t] :
           \/ calls'[t][j] = calls[t][j]
           \/ t = s /\ chain[s][1].do = "scan" /\ chain[s][1].call = j /\ Proper(calls'[t][j]),
         UNCHANGED <<run, nextReq>>
  PROVE  TypeInv'
<1>1. /\ chain' \in [Sessions -> Seq(Turns)]
      /\ \A t \in Sessions : t # s => chain'[t] = chain[t]
      /\ DOMAIN chain[s] = 1..Len(chain[s]) /\ Len(chain[s]) \in Nat /\ 1 \in DOMAIN chain[s]
      /\ DOMAIN chain'[s] = 1..(Len(chain[s]) - 1)
      /\ \A n \in DOMAIN chain'[s] : n + 1 \in DOMAIN chain[s] /\ chain'[s][n] = chain[s][n + 1]
  BY LeaveFacts DEF TypeInv
<1>2. Shape'
  BY <1>1 DEF TypeInv, Shape
<1>3. WaitInv'
  <2> SUFFICES ASSUME NEW t \in Sessions, NEW n \in DOMAIN chain'[t], chain'[t][n].do = "scan"
               PROVE  /\ chain'[t][n].call \in DOMAIN calls'[t]
                      /\ calls'[t][chain'[t][n].call].st = "queued"
                      /\ \A m \in DOMAIN chain'[t] :
                           chain'[t][m].do = "scan" /\ chain'[t][m].call = chain'[t][n].call => m = n
    BY DEF WaitInv
  <2>0. \A k \in DOMAIN chain[t] : chain[t][k].do = "scan" =>
          /\ chain[t][k].call \in DOMAIN calls[t] /\ calls[t][chain[t][k].call].st = "queued"
          /\ \A l \in DOMAIN chain[t] :
               chain[t][l].do = "scan" /\ chain[t][l].call = chain[t][k].call => l = k
    BY DEF TypeInv, WaitInv
  <2>1. CASE t # s
    <3>1. chain'[t] = chain[t]
      BY <1>1, <2>1
    <3>2. chain[t][n].call \in DOMAIN calls[t] /\ calls[t][chain[t][n].call].st = "queued"
          /\ chain[t][n].call \in DOMAIN calls'[t]
      BY <2>0, <3>1
    <3>3. calls'[t][chain[t][n].call] = calls[t][chain[t][n].call]
      BY <2>1, <3>2
    <3>4. \A m \in DOMAIN chain[t] :
            chain[t][m].do = "scan" /\ chain[t][m].call = chain[t][n].call => m = n
      BY <2>0, <3>1
    <3> QED BY <3>1, <3>2, <3>3, <3>4
  <2>2. CASE t = s
    <3>1. n \in Nat /\ n # 0 /\ n + 1 # 1 /\ n + 1 \in DOMAIN chain[s] /\ chain'[s][n] = chain[s][n + 1]
      BY <1>1, <2>2
    <3>2. chain[s][n + 1].do = "scan" /\ chain[s][n + 1].call \in DOMAIN calls[s]
          /\ calls[s][chain[s][n + 1].call].st = "queued"
      BY <2>0, <2>2, <3>1
    <3>3. chain[s][1].do = "scan" => chain[s][1].call # chain[s][n + 1].call
      BY <1>1, <2>0, <2>2, <3>1, <3>2
    <3>4. calls'[s][chain[s][n + 1].call] = calls[s][chain[s][n + 1].call]
      BY <3>2, <3>3
    <3>5. ASSUME NEW m \in DOMAIN chain'[s], chain'[s][m].do = "scan",
                 chain'[s][m].call = chain'[s][n].call
          PROVE  m = n
      <4>1. m \in Nat /\ m + 1 \in DOMAIN chain[s] /\ chain'[s][m] = chain[s][m + 1]
        BY <1>1
      <4>2. m + 1 = n + 1
        BY <2>0, <2>2, <3>1, <3>2, <3>5, <4>1
      <4> QED BY <3>1, <4>1, <4>2
    <3> QED BY <2>2, <3>1, <3>2, <3>4, <3>5
  <2> QED BY <2>1, <2>2
<1>4. WorkInv'
  <2> SUFFICES ASSUME NEW t \in Sessions, work'[t] # Idle
               PROVE  /\ chain'[t] # <<>> /\ chain'[t][1].do = "scan"
                      /\ chain'[t][1].call = work'[t].call
                      /\ work'[t].sess.history = session'[t].history
                      /\ work'[t].req.id = calls'[t][work'[t].call].req
    BY DEF WorkInv
  <2>1. t # s
    OBVIOUS
  <2>2. chain'[t] = chain[t] /\ work'[t] = work[t] /\ session'[t] = session[t]
    BY <1>1, <2>1
  <2>3. chain[t] \in Seq(Turns) /\ chain[t] # <<>> /\ chain[t][1].do = "scan"
        /\ chain[t][1].call = work[t].call /\ work[t].sess.history = session[t].history
        /\ work[t].req.id = calls[t][work[t].call].req
    BY <2>2 DEF TypeInv, Shape, WorkInv
  <2>4. 1 \in DOMAIN chain[t]
    BY <2>3
  <2>5. work[t].call \in DOMAIN calls[t]
    BY <2>3, <2>4 DEF TypeInv, WaitInv
  <2>6. calls'[t][work[t].call] = calls[t][work[t].call]
    BY <2>1, <2>5
  <2> QED BY <2>2, <2>3, <2>6
<1>5. CallInv'
  BY DEF TypeInv, CallInv
<1> QED BY <1>2, <1>3, <1>4, <1>5 DEF TypeInv

LEMMA EntryType ==
  ASSUME NEW req \in Requests, NEW scanned \in BOOLEAN, NEW snoozed \in {"no"} \cup Verdicts,
         NEW decision \in Decisions
  PROVE  /\ Entry(req, scanned, snoozed, decision) \in Entries
         /\ Entry(req, scanned, snoozed, decision).req = req.id
         /\ Entry(req, scanned, snoozed, decision).snoozed = snoozed
         /\ Entry(req, scanned, snoozed, decision).decision = decision
BY DEF Entry, Entries, Requests

(* What becomes of the call of a scan that is answered or fails, and what   *)
(* the file then holds.                                                    *)
Moved(s, hook, onError) ==
  [calls[s][work[s].call] EXCEPT !.st = HookState[hook], !.onError = onError,
     !.onTimeout = IF onError THEN "deny" ELSE TimeoutBehavior(work[s].req.kind)]

LEMMA MovedType ==
  ASSUME TypeInv, NEW s \in Sessions, work[s].phase = "sent",
         NEW hook \in {"run", "block", "approve"}, NEW onError \in BOOLEAN
  PROVE  /\ Moved(s, hook, onError) \in HostCalls /\ Proper(Moved(s, hook, onError))
         /\ Moved(s, hook, onError).st = HookState[hook]
         /\ Moved(s, hook, onError).req = calls[s][work[s].call].req
<1> DEFINE c == calls[s][work[s].call]
           behavior == IF onError THEN "deny" ELSE TimeoutBehavior(work[s].req.kind)
           st == HookState[hook]
<1>1. c \in HostCalls /\ c.st = "queued" /\ Proper(c)
  BY WorkFacts DEF TypeInv, CallInv
<1>2. behavior \in {"allow", "deny"} /\ (ScheduledBehavior = "deny" => behavior = "deny")
  BY PolicyAssumption DEF TimeoutBehavior
<1>3. st \in {"running", "refused", "asking"}
  BY DEF HookState
<1>4. Moved(s, hook, onError) = [c EXCEPT !.st = st, !.onError = onError, !.onTimeout = behavior]
  BY DEF Moved
<1> HIDE DEF behavior, st, c
<1> DEFINE d == [c EXCEPT !.st = st, !.onError = onError, !.onTimeout = behavior]
<1>5. /\ d \in HostCalls /\ d.st = st /\ d.req = c.req /\ d.kind = c.kind /\ d.host = c.host
      /\ d.onTimeout = behavior
  BY <1>1, <1>2, <1>3 DEF HostCalls, States
<1> HIDE DEF d
<1>6. Proper(d)
  BY <1>1, <1>2, <1>3, <1>5 DEF Proper
<1>7. Moved(s, hook, onError) = d
  BY <1>4 DEF d
<1> QED BY <1>5, <1>6, <1>7 DEF c, st

LEMMA ConcludeType ==
  ASSUME TypeInv, NEW s \in Sessions, work[s].phase = "sent",
         NEW sess \in SessionFiles, NEW hook \in {"run", "block", "approve"},
         NEW onError \in BOOLEAN, Conclude(s, sess, hook, onError),
         UNCHANGED <<run, full, nextReq, lost>>
  PROVE  /\ TypeInv'
         /\ session' = [session EXCEPT ![s] = Saved(sess)] /\ Leave(s)
         /\ SetCall(s, work[s].call, Moved(s, hook, onError))
<1>1. /\ session' = [session EXCEPT ![s] = Saved(sess)] /\ Leave(s)
      /\ SetCall(s, work[s].call, Moved(s, hook, onError))
      /\ work' = [work EXCEPT ![s] = Idle]
  BY DEF Conclude, Moved
<1>2. /\ chain[s] # <<>> /\ work[s].call \in DOMAIN calls[s] /\ chain[s][1].call = work[s].call
      /\ chain[s][1].do = "scan"
  BY WorkFacts DEF TypeInv, WorkInv
<1>3. Moved(s, hook, onError) \in HostCalls /\ Proper(Moved(s, hook, onError))
  BY MovedType
<1>4. /\ calls' \in [Sessions -> Seq(HostCalls)]
      /\ \A t \in Sessions : DOMAIN calls'[t] = DOMAIN calls[t]
      /\ calls'[s][work[s].call] = Moved(s, hook, onError)
      /\ \A t \in Sessions : \A j \in DOMAIN calls[t] :
           t # s \/ j # work[s].call => calls'[t][j] = calls[t][j]
  BY <1>1, <1>2, <1>3, SetCallFacts DEF TypeInv
<1>5. Saved(sess) \in SessionFiles
  BY SavedFacts
<1>6. /\ session' \in [Sessions -> SessionFiles] /\ work' \in [Sessions -> {Idle} \cup Scans]
      /\ full' \in Seq(FullResults) /\ lost' \subseteq Nat
      /\ \A t \in Sessions : t # s => session'[t] = session[t] /\ work'[t] = work[t]
      /\ work'[s] = Idle
  BY <1>1, <1>5 DEF TypeInv, Shape
<1>7. \A t \in Sessions : \A j \in DOMAIN calls[t] :
        \/ calls'[t][j] = calls[t][j]
        \/ t = s /\ chain[s][1].do = "scan" /\ chain[s][1].call = j /\ Proper(calls'[t][j])
  BY <1>2, <1>3, <1>4
<1>8. TypeInv'
  BY <1>1, <1>2, <1>4, <1>6, <1>7, TurnEnds
<1> QED BY <1>1, <1>8

LEMMA ScannerTypes ==
  ASSUME TypeInv, NEW s \in Sessions, work[s].phase = "sent",
         NEW top \in Nat, NEW learned \in SUBSET Facts
  PROVE  /\ ScannerState(s) \in SessionState
         /\ NextToken(s, top, learned) \in Tokens
<1>1. work[s].req \in Requests
  BY WorkFacts
<1>2. work[s].req.token \in Tokens /\ work[s].req.id \in Nat /\ work[s].req.step \in Nat
  BY <1>1 DEF Requests
<1>3. ScannerState(s) \in SessionState
  BY <1>2 DEF ScannerState, DecodeState, FreshState, SessionState, Tokens
<1>4. NextToken(s, top, learned) =
        [sid |-> s, key |-> 1, step |-> work[s].req.step, seq |-> top,
         salt |-> ScannerState(s).salt, known |-> ScannerState(s).known \cup learned]
  BY <1>3 DEF NextToken, EncodeState, SessionState, SigningKey
<1>5. NextToken(s, top, learned) \in Tokens
  BY <1>2, <1>3, <1>4 DEF Tokens, SessionState
<1> QED BY <1>3, <1>5

LEMMA PolicyTypes ==
  ASSUME NEW risk, NEW enforced \in Verdicts, NEW snoozed \in BOOLEAN,
         NEW failure \in FailureKinds, NEW kind
  PROVE  /\ Decide(risk, enforced) \in Verdicts
         /\ Hook(Decide(risk, enforced), snoozed) \in {"run", "block", "approve"}
         /\ ErrorHook(failure, kind) \in {"run", "block", "approve"}
<1>1. Decide(risk, enforced) \in Verdicts
  BY DEF Decide, Verdicts
<1>2. \A v \in Verdicts : Hook(v, snoozed) \in {"run", "block", "approve"}
  BY DEF Hook
<1>3. ErrorHook(failure, kind) \in {"run", "block", "approve"}
  BY DEF ErrorHook
<1> QED BY <1>1, <1>2, <1>3

LEMMA DecisionTypes ==
  ASSUME NEW hook \in {"run", "block", "approve"}
  PROVE  /\ ScannedDecision[hook] \in Decisions /\ ErrorDecision[hook] \in Decisions
         /\ HookState[hook] = "running" =>
              ScannedDecision[hook] \notin NotRun /\ ErrorDecision[hook] \notin NotRun
         /\ HookState[hook] = "refused" =>
              ScannedDecision[hook] \in NotRun /\ ErrorDecision[hook] \in NotRun
BY DEF ScannedDecision, ErrorDecision, HookState, Decisions, NotRun

(* A scan that is answered or fails writes one entry, about its call, and   *)
(* the call goes on as the entry says.  Unasked past the plugin's own lines  *)
(* is only what a snooze allows.                                            *)
Unasked(s, e) ==
  e.snoozed # "no" =>
    /\ work[s].req.kind = "message" /\ e.snoozed = "allow"
    /\ \E n \in DOMAIN snoozes : snoozes[n].until > now /\ snoozes[n].scope \in {s, Everywhere}

Concluded(s, e, sess, hook, onError) ==
  /\ e \in Entries /\ e.req = work[s].req.id
  /\ HookState[hook] = "running" => e.decision \notin NotRun
  /\ HookState[hook] = "refused" => e.decision \in NotRun
  /\ Unasked(s, e)
  /\ sess \in SessionFiles /\ sess.history = Append(session[s].history, e)
  /\ hook \in {"run", "block", "approve"} /\ onError \in BOOLEAN
  /\ Conclude(s, sess, hook, onError)

LEMMA AnsweredConcludes ==
  ASSUME TypeInv, NEW s \in Sessions, ScanAnswered(s)
  PROVE  /\ \E e, sess, hook, onError : Concluded(s, e, sess, hook, onError)
         /\ UNCHANGED <<run, full, nextReq, lost>> /\ work[s].phase = "sent"
<1> DEFINE req == work[s].req
<1>0. work[s].phase = "sent" /\ UNCHANGED <<run, full, nextReq, lost>>
  BY DEF ScanAnswered
<1>1. PICK top \in {it.seq : it \in req.inputs} \cup {ScannerState(s).seq},
           learned \in SUBSET Learnable(NewInputs(s)), risk \in Risks, enforced \in Verdicts :
        LET verdict == Decide(risk, enforced)
            snoozed == Snoozable(req.kind, enforced) /\ Snoozed(s)
            hook    == Hook(verdict, snoozed)
            relief  == IF hook = "run" /\ Hook(verdict, FALSE) # "run" THEN enforced ELSE "no"
        IN  Conclude(s,
              [work[s].sess EXCEPT
                 !.token = NextToken(s, top, learned), !.buffer = {},
                 !.history = Append(@, Entry(req, TRUE, relief, ScannedDecision[hook]))],
              hook, FALSE)
  BY DEF ScanAnswered
<1> DEFINE verdict == Decide(risk, enforced)
           snoozed == Snoozable(req.kind, enforced) /\ Snoozed(s)
           hook    == Hook(verdict, snoozed)
           relief  == IF hook = "run" /\ Hook(verdict, FALSE) # "run" THEN enforced ELSE "no"
           token   == NextToken(s, top, learned)
           e       == Entry(req, TRUE, relief, ScannedDecision[hook])
           sess    == [work[s].sess EXCEPT !.token = token, !.buffer = {},
                         !.history = Append(work[s].sess.history, e)]
<1>2. /\ work[s].sess \in SessionFiles /\ req \in Requests
      /\ work[s].sess.history = session[s].history
  BY <1>0, WorkFacts
<1>3. top \in Nat /\ learned \subseteq Facts
  <2>1. ScannerState(s) \in SessionState
    <3>1. 0 \in Nat /\ {} \in SUBSET Facts
      OBVIOUS
    <3> QED BY <1>0, <3>1, ScannerTypes
  <2>2. req.inputs \subseteq Inputs
    BY <1>2 DEF Requests
  <2> QED BY <2>1, <2>2 DEF Inputs, SessionState, Learnable
<1>4. token \in Tokens
  BY <1>0, <1>3, ScannerTypes
<1>5. snoozed \in BOOLEAN /\ hook \in {"run", "block", "approve"} /\ verdict \in Verdicts
  <2>1. snoozed \in BOOLEAN
    OBVIOUS
  <2>2. "auth" \in FailureKinds
    BY DEF FailureKinds
  <2> HIDE DEF snoozed
  <2> QED BY <2>1, <2>2, PolicyTypes
<1>6. relief \in {"no"} \cup Verdicts
  OBVIOUS
<1>7. relief # "no" => snoozed /\ relief = enforced
  BY DEF Hook
<1>8. Snoozable(req.kind, enforced) => req.kind = "message" /\ enforced = "allow"
  BY DEF Snoozable
<1>9. Snoozed(s) => \E n \in DOMAIN snoozes :
                      snoozes[n].until > now /\ snoozes[n].scope \in {s, Everywhere}
  BY DEF Snoozed, Live, Covers
<1>10. Conclude(s, sess, hook, FALSE)
  BY <1>1
<1>11. snoozed => Snoozable(req.kind, enforced) /\ Snoozed(s)
  OBVIOUS
<1> HIDE DEF relief, hook, verdict, snoozed, token
<1>12. /\ e \in Entries /\ e.req = req.id
       /\ e.snoozed = relief /\ e.decision = ScannedDecision[hook]
  <2>1. ScannedDecision[hook] \in Decisions
    BY <1>5, DecisionTypes
  <2>2. TRUE \in BOOLEAN
    OBVIOUS
  <2>3. \A r \in Requests, b \in BOOLEAN, z \in {"no"} \cup Verdicts, d \in Decisions :
          /\ Entry(r, b, z, d) \in Entries /\ Entry(r, b, z, d).req = r.id
          /\ Entry(r, b, z, d).snoozed = z /\ Entry(r, b, z, d).decision = d
    BY EntryType
  <2> QED BY <1>2, <1>6, <2>1, <2>2, <2>3
<1> HIDE DEF e
<1>13. sess \in SessionFiles /\ sess.history = Append(session[s].history, e)
  <2>1. Append(work[s].sess.history, e) \in Seq(Entries)
    <3>1. work[s].sess.history \in Seq(Entries)
      BY <1>2 DEF SessionFiles
    <3> QED BY <1>12, <3>1
  <2>2. {} \in SUBSET Inputs
    OBVIOUS
  <2> QED BY <1>2, <1>4, <2>1, <2>2 DEF SessionFiles
<1>14. Unasked(s, e)
  BY <1>7, <1>8, <1>9, <1>11, <1>12 DEF Unasked
<1>15. FALSE \in BOOLEAN
  OBVIOUS
<1> HIDE DEF sess, req
<1>16. Concluded(s, e, sess, hook, FALSE)
  BY <1>5, <1>10, <1>12, <1>13, <1>14, <1>15, DecisionTypes DEF Concluded, req
<1> QED BY <1>0, <1>16

LEMMA FailedConcludes ==
  ASSUME TypeInv, NEW s \in Sessions, ScanFailed(s)
  PROVE  /\ \E e, sess, hook, onError : Concluded(s, e, sess, hook, onError)
         /\ UNCHANGED <<run, full, nextReq, lost>> /\ work[s].phase = "sent"
<1> DEFINE req == work[s].req
<1>0. work[s].phase = "sent" /\ UNCHANGED <<run, full, nextReq, lost>>
  BY DEF ScanFailed
<1>1. PICK failure \in FailureKinds :
        LET hook == ErrorHook(failure, req.kind)
        IN  Conclude(s,
              [work[s].sess EXCEPT
                 !.history = Append(@, Entry(req, FALSE, "no", ErrorDecision[hook]))],
              hook, TRUE)
  BY DEF ScanFailed
<1> DEFINE hook == ErrorHook(failure, req.kind)
           e    == Entry(req, FALSE, "no", ErrorDecision[hook])
           sess == [work[s].sess EXCEPT !.history = Append(work[s].sess.history, e)]
<1>2. /\ work[s].sess \in SessionFiles /\ req \in Requests
      /\ work[s].sess.history = session[s].history
  BY <1>0, WorkFacts
<1>3. hook \in {"run", "block", "approve"}
  <2>1. "allow" \in Verdicts /\ TRUE \in BOOLEAN
    BY DEF Verdicts
  <2> QED BY <2>1, PolicyTypes
<1>4. Conclude(s, sess, hook, TRUE)
  BY <1>1
<1> HIDE DEF hook
<1>5. /\ e \in Entries /\ e.req = req.id
      /\ e.snoozed = "no" /\ e.decision = ErrorDecision[hook]
  <2>1. ErrorDecision[hook] \in Decisions
    BY <1>3, DecisionTypes
  <2>2. FALSE \in BOOLEAN /\ "no" \in {"no"} \cup Verdicts
    OBVIOUS
  <2>3. \A b \in BOOLEAN, z \in {"no"} \cup Verdicts, d \in Decisions :
          /\ Entry(req, b, z, d) \in Entries /\ Entry(req, b, z, d).req = req.id
          /\ Entry(req, b, z, d).snoozed = z /\ Entry(req, b, z, d).decision = d
    BY <1>2, EntryType
  <2> HIDE DEF req
  <2>4. \A d \in Decisions :
          /\ Entry(req, FALSE, "no", d) \in Entries /\ Entry(req, FALSE, "no", d).req = req.id
          /\ Entry(req, FALSE, "no", d).snoozed = "no" /\ Entry(req, FALSE, "no", d).decision = d
    BY <2>2, <2>3
  <2> QED BY <2>1, <2>4
<1> HIDE DEF e
<1>6. sess \in SessionFiles /\ sess.history = Append(session[s].history, e)
  <2>1. Append(work[s].sess.history, e) \in Seq(Entries)
    <3>1. work[s].sess.history \in Seq(Entries)
      BY <1>2 DEF SessionFiles
    <3> QED BY <1>5, <3>1
  <2> QED BY <1>2, <2>1 DEF SessionFiles
<1>7. Unasked(s, e)
  BY <1>5 DEF Unasked
<1>8. TRUE \in BOOLEAN
  OBVIOUS
<1> HIDE DEF sess, req
<1>9. Concluded(s, e, sess, hook, TRUE)
  BY <1>3, <1>4, <1>5, <1>6, <1>7, <1>8, DecisionTypes DEF Concluded, req
<1> QED BY <1>0, <1>9

LEMMA AnswerType ==
  ASSUME TypeInv, NEW s \in Sessions, ScanAnswered(s) \/ ScanFailed(s)
  PROVE  /\ TypeInv' /\ UNCHANGED <<run, full, nextReq, lost>> /\ work[s].phase = "sent"
         /\ \E e, sess, hook, onError :
              /\ Concluded(s, e, sess, hook, onError)
              /\ session' = [session EXCEPT ![s] = Saved(sess)] /\ Leave(s)
              /\ SetCall(s, work[s].call, Moved(s, hook, onError))
<1>1. /\ \E e, sess, hook, onError : Concluded(s, e, sess, hook, onError)
      /\ UNCHANGED <<run, full, nextReq, lost>> /\ work[s].phase = "sent"
  BY AnsweredConcludes, FailedConcludes
<1>2. PICK e, sess, hook, onError : Concluded(s, e, sess, hook, onError)
  BY <1>1
<1>3. /\ sess \in SessionFiles /\ hook \in {"run", "block", "approve"} /\ onError \in BOOLEAN
      /\ Conclude(s, sess, hook, onError)
  BY <1>2 DEF Concluded
<1>4. /\ TypeInv'
      /\ session' = [session EXCEPT ![s] = Saved(sess)] /\ Leave(s)
      /\ SetCall(s, work[s].call, Moved(s, hook, onError))
  BY <1>1, <1>3, ConcludeType
<1> QED BY <1>1, <1>2, <1>4

LEMMA ScanRaisedType ==
  ASSUME TypeInv, NEW s \in Sessions, ScanRaised(s)
  PROVE  /\ TypeInv' /\ chain[s] # <<>> /\ work[s].phase = "sent"
         /\ chain[s][1].call \in DOMAIN calls[s]
         /\ [calls[s][chain[s][1].call] EXCEPT !.st = "refused"] \in HostCalls
<1> DEFINE i == chain[s][1].call
           c == [calls[s][i] EXCEPT !.st = "refused"]
<1>1. /\ work[s].phase = "sent" /\ SetCall(s, i, c) /\ work' = [work EXCEPT ![s] = Idle]
      /\ Leave(s) /\ UNCHANGED <<session, run, full, nextReq, lost>>
  BY DEF ScanRaised, files
<1>2. /\ chain[s] # <<>> /\ i \in DOMAIN calls[s] /\ calls[s][i] \in HostCalls
      /\ calls[s][i].st = "queued" /\ chain[s][1].do = "scan"
  BY <1>1, WorkFacts DEF TypeInv, WorkInv
<1>3. /\ c \in HostCalls /\ c.st = "refused" /\ c.req = calls[s][i].req
      /\ c.kind = calls[s][i].kind /\ c.onTimeout = calls[s][i].onTimeout
      /\ c.host = calls[s][i].host
  BY <1>2 DEF HostCalls, States
<1>4. Proper(c)
  BY <1>2, <1>3 DEF TypeInv, CallInv, Proper
<1> HIDE DEF i, c
<1>5. /\ calls' \in [Sessions -> Seq(HostCalls)]
      /\ \A t \in Sessions : DOMAIN calls'[t] = DOMAIN calls[t]
      /\ calls'[s][i] = c
      /\ \A t \in Sessions : \A j \in DOMAIN calls[t] :
           t # s \/ j # i => calls'[t][j] = calls[t][j]
  BY <1>1, <1>2, <1>3, SetCallFacts DEF TypeInv
<1>6. /\ session' \in [Sessions -> SessionFiles] /\ work' \in [Sessions -> {Idle} \cup Scans]
      /\ full' \in Seq(FullResults) /\ lost' \subseteq Nat
      /\ \A t \in Sessions : t # s => session'[t] = session[t] /\ work'[t] = work[t]
      /\ work'[s] = Idle
  BY <1>1 DEF TypeInv, Shape
<1>7. \A t \in Sessions : \A j \in DOMAIN calls[t] :
        \/ calls'[t][j] = calls[t][j]
        \/ t = s /\ chain[s][1].do = "scan" /\ chain[s][1].call = j /\ Proper(calls'[t][j])
  BY <1>2, <1>4, <1>5 DEF i
<1>8. TypeInv'
  BY <1>1, <1>2, <1>5, <1>6, <1>7, TurnEnds
<1> QED BY <1>1, <1>2, <1>3, <1>8 DEF i, c

(* A turn that is no scan, ends, and writes the file.                       *)
LEMMA FileTurnEnds ==
  ASSUME TypeInv, NEW s \in Sessions, NEW do \in {"resolve", "result"}, HasTurn(s, do),
         Leave(s), NEW sess \in SessionFiles, session' = [session EXCEPT ![s] = sess],
         full' \in Seq(FullResults), lost' \subseteq Nat,
         UNCHANGED <<run, work, calls, nextReq>>
  PROVE  TypeInv'
<1>1. work[s] = Idle /\ chain[s] # <<>> /\ chain[s][1].do = do
  BY DEF HasTurn
<1>2. /\ session' \in [Sessions -> SessionFiles] /\ work' \in [Sessions -> {Idle} \cup Scans]
      /\ calls' \in [Sessions -> Seq(HostCalls)]
      /\ \A t \in Sessions : t # s => session'[t] = session[t] /\ work'[t] = work[t]
      /\ work'[s] = Idle
      /\ \A t \in Sessions : DOMAIN calls'[t] = DOMAIN calls[t]
      /\ \A t \in Sessions : \A j \in DOMAIN calls[t] : calls'[t][j] = calls[t][j]
  BY <1>1 DEF TypeInv, Shape
<1> QED BY <1>1, <1>2, TurnEnds

LEMMA FirstTurn ==
  ASSUME TypeInv, NEW s \in Sessions, NEW do, HasTurn(s, do)
  PROVE  1 \in DOMAIN chain[s] /\ chain[s][1] \in Turns /\ chain[s][1].do = do
         /\ work[s] = Idle /\ chain[s] # <<>> /\ session[s] \in SessionFiles
         /\ session[s].history \in Seq(Entries)
<1>1. chain[s] \in Seq(Turns) /\ chain[s] # <<>> /\ chain[s][1].do = do /\ work[s] = Idle
  BY DEF HasTurn, TypeInv, Shape
<1>2. session[s] \in SessionFiles
  BY DEF TypeInv, Shape
<1>3. session[s].history \in Seq(Entries)
  BY <1>2 DEF SessionFiles
<1> QED BY <1>1, <1>2, <1>3

LEMMA ResolutionWrittenType ==
  ASSUME TypeInv, NEW s \in Sessions, ResolutionWritten(s)
  PROVE  /\ TypeInv'
         /\ \E sess \in SessionFiles :
              /\ sess.history =
                   WithDecision(session[s].history, chain[s][1].req, chain[s][1].final)
              /\ session' = [session EXCEPT ![s] = Saved(sess)]
<1> DEFINE h == WithDecision(session[s].history, chain[s][1].req, chain[s][1].final)
           sess == [session[s] EXCEPT !.history = h]
<1>1. /\ HasTurn(s, "resolve") /\ Leave(s)
      /\ UNCHANGED <<run, work, calls, full, nextReq, lost>>
      /\ session' = [session EXCEPT ![s] = Saved(sess)]
  <2>1. session' = [session EXCEPT ![s] = Saved(sess)]
    BY DEF ResolutionWritten
  <2> QED BY <2>1 DEF ResolutionWritten
<1>2. chain[s][1] \in Turns /\ chain[s][1].do = "resolve" /\ session[s] \in SessionFiles
      /\ session[s].history \in Seq(Entries)
  BY <1>1, FirstTurn
<1>3. chain[s][1].final \in Decisions
  BY <1>2, TurnFacts
<1>4. h \in Seq(Entries)
  BY <1>2, <1>3, WithDecisionFacts
<1> HIDE DEF h
<1>5. sess \in SessionFiles /\ sess.history = h
  BY <1>2, <1>4 DEF SessionFiles
<1> HIDE DEF sess
<1>6. Saved(sess) \in SessionFiles
  BY <1>5, SavedFacts
<1>7. full' \in Seq(FullResults) /\ lost' \subseteq Nat
  BY <1>1 DEF TypeInv, Shape
<1>8. TypeInv'
  BY <1>1, <1>6, <1>7, FileTurnEnds
<1> QED BY <1>1, <1>5, <1>8 DEF h

LEMMA ResolutionRaisedType ==
  ASSUME TypeInv, NEW s \in Sessions, ResolutionRaised(s)
  PROVE  TypeInv'
<1>1. /\ HasTurn(s, "resolve") /\ Leave(s) /\ lost' = lost \cup {chain[s][1].req}
      /\ UNCHANGED <<session, run, work, calls, full, nextReq>>
  BY DEF ResolutionRaised, files
<1>2. chain[s][1] \in Turns /\ chain[s][1].do = "resolve" /\ session[s] \in SessionFiles
  BY <1>1, FirstTurn
<1>3. chain[s][1].req \in Nat
  BY <1>2, TurnFacts
<1>4. full' \in Seq(FullResults) /\ lost' \subseteq Nat
  BY <1>1, <1>3 DEF TypeInv, Shape
<1>5. session' = [session EXCEPT ![s] = session[s]]
  BY <1>1 DEF TypeInv, Shape
<1> QED BY <1>1, <1>2, <1>4, <1>5, FileTurnEnds

WithInputs(sess, seq, buffer) == [sess EXCEPT !.inputSeq = seq, !.buffer = buffer]

LEMMA WithInputsType ==
  ASSUME NEW sess \in SessionFiles, NEW seq \in Nat, NEW buffer \in SUBSET Inputs
  PROVE  /\ WithInputs(sess, seq, buffer) \in SessionFiles
         /\ WithInputs(sess, seq, buffer).history = sess.history
         /\ WithInputs(sess, seq, buffer).inputSeq = seq
BY DEF WithInputs, SessionFiles

LEMMA BufferedType ==
  ASSUME TypeInv, NEW s \in Sessions, HasTurn(s, "result"),
         NEW n \in EntriesOf(session[s], chain[s][1].host)
  PROVE  LET turn == chain[s][1]
             sess == Buffered(session[s], n, turn)
             e    == session[s].history[n]
         IN  /\ sess \in SessionFiles /\ sess.history = session[s].history
             /\ sess.inputSeq = session[s].inputSeq + (IF Ran(e, turn.error) THEN 1 ELSE 0)
<1> DEFINE turn == chain[s][1]
           e    == session[s].history[n]
           text == TextOf(turn)
           in   == [seq |-> session[s].inputSeq + 1, call |-> e.call, text |-> text]
           buf  == session[s].buffer \cup {in}
           more == WithInputs(session[s], session[s].inputSeq + 1, buf)
<1>1. /\ turn \in Turns /\ turn.do = "result" /\ session[s] \in SessionFiles
      /\ session[s].history \in Seq(Entries)
  BY FirstTurn
<1>2. turn.text \in Nat /\ turn.host \in Ids
  BY <1>1, TurnFacts
<1>3. e \in Entries
  BY <1>1 DEF EntriesOf
<1>4. text \in Nat
  <2>1. CASE HeldUnder(turn.host) = {}
    BY <1>2, <2>1 DEF TextOf
  <2>2. CASE HeldUnder(turn.host) # {}
    <3> DEFINE m == CHOOSE m \in HeldUnder(turn.host) : TRUE
    <3>1. m \in DOMAIN full
      BY <2>2 DEF HeldUnder
    <3>2. text = full[m].text
      BY <2>2 DEF TextOf
    <3> HIDE DEF m, text
    <3>3. full[m] \in FullResults
      BY <3>1 DEF TypeInv, Shape
    <3> QED BY <3>2, <3>3 DEF FullResults
  <2> QED BY <2>1, <2>2
<1> HIDE DEF text
<1>5. /\ session[s].inputSeq \in Nat /\ session[s].buffer \in SUBSET Inputs /\ e.call \in CallIds
  BY <1>1, <1>3 DEF SessionFiles, Entries
<1>6. in \in Inputs
  BY <1>4, <1>5 DEF Inputs
<1> HIDE DEF in
<1>7. buf \in SUBSET Inputs
  BY <1>5, <1>6
<1> HIDE DEF buf
<1>8. /\ more \in SessionFiles /\ more.history = session[s].history
      /\ more.inputSeq = session[s].inputSeq + 1
  <2>1. session[s].inputSeq + 1 \in Nat
    BY <1>5
  <2> QED BY <1>1, <1>7, <2>1, WithInputsType
<1>9. Buffered(session[s], n, turn) = IF ~Ran(e, turn.error) THEN session[s] ELSE more
  BY DEF Buffered, in, buf, text, WithInputs
<1> HIDE DEF more, turn, e
<1>10. CASE Ran(e, turn.error)
  BY <1>8, <1>9, <1>10 DEF turn, e
<1>11. CASE ~Ran(e, turn.error)
  BY <1>1, <1>5, <1>9, <1>11 DEF turn, e
<1> QED BY <1>10, <1>11

(* The history has the entries of before, the first newest ones.            *)
Older(s) ==
  \A k \in DOMAIN session'[s].history : \E j \in DOMAIN session[s].history :
    session'[s].history[k] = session[s].history[j]

LEMMA ResultTakenType ==
  ASSUME TypeInv, NEW s \in Sessions, ResultTaken(s)
  PROVE  /\ TypeInv' /\ Older(s)
         /\ \A t \in Sessions : t # s => session'[t] = session[t]
         /\ \/ session' = session /\ EntriesOf(session[s], chain[s][1].host) = {}
            \/ \E n \in EntriesOf(session[s], chain[s][1].host) :
                 /\ \A m \in EntriesOf(session[s], chain[s][1].host) : m <= n
                 /\ session'[s].inputSeq = session[s].inputSeq +
                      (IF Ran(session[s].history[n], chain[s][1].error) THEN 1 ELSE 0)
<1> DEFINE turn == chain[s][1]
           joined == EntriesOf(session[s], turn.host)
<1>1. HasTurn(s, "result") /\ Leave(s) /\ UNCHANGED <<run, work, calls, nextReq, lost>>
  BY DEF ResultTaken
<1>2. /\ turn \in Turns /\ turn.do = "result" /\ session[s] \in SessionFiles
      /\ session[s].history \in Seq(Entries)
  BY <1>1, FirstTurn
<1>3. turn.host \in Ids
  BY <1>2, TurnFacts
<1>4. lost' \subseteq Nat /\ full \in Seq(FullResults) /\ WithoutHost(turn.host) \in Seq(FullResults)
  BY <1>1, <1>3, KeptType DEF TypeInv, Shape
<1>5. CASE joined = {} /\ UNCHANGED <<session, full>>
  <2>1. session' = [session EXCEPT ![s] = session[s]] /\ full' \in Seq(FullResults)
    BY <1>4, <1>5 DEF TypeInv, Shape
  <2>2. TypeInv'
    BY <1>1, <1>2, <1>4, <2>1, FileTurnEnds
  <2> QED BY <1>5, <2>2 DEF Older
<1>6. CASE ~(joined = {} /\ UNCHANGED <<session, full>>)
  <2>1. PICK n \in joined :
          /\ \A m \in joined : m <= n
          /\ session' = [session EXCEPT ![s] = Saved(Buffered(session[s], n, turn))]
          /\ full' = WithoutHost(turn.host)
    BY <1>6 DEF ResultTaken
  <2> DEFINE sess == Buffered(session[s], n, turn)
  <2>2. /\ sess \in SessionFiles /\ sess.history = session[s].history
        /\ sess.inputSeq = session[s].inputSeq +
             (IF Ran(session[s].history[n], turn.error) THEN 1 ELSE 0)
    BY <1>1, BufferedType
  <2>3. session' = [session EXCEPT ![s] = Saved(sess)]
    BY <2>1
  <2> HIDE DEF sess
  <2>4. /\ Saved(sess) \in SessionFiles /\ Saved(sess).inputSeq = sess.inputSeq
        /\ \A k \in DOMAIN Saved(sess).history : \E j \in DOMAIN sess.history :
             Saved(sess).history[k] = sess.history[j]
    BY <2>2, SavedFacts
  <2>5. session'[s] = Saved(sess) /\ \A t \in Sessions : t # s => session'[t] = session[t]
    BY <2>3 DEF TypeInv, Shape
  <2>6. full' \in Seq(FullResults)
    BY <1>4, <2>1
  <2>7. TypeInv'
    BY <1>1, <1>2, <1>4, <2>3, <2>4, <2>6, FileTurnEnds
  <2>8. Older(s)
    BY <2>2, <2>4, <2>5 DEF Older
  <2> QED BY <2>1, <2>2, <2>4, <2>5, <2>7, <2>8
<1> QED BY <1>5, <1>6

LEMMA ResultRaisedType ==
  ASSUME TypeInv, NEW s \in Sessions, ResultRaised(s)
  PROVE  TypeInv'
<1>1. /\ HasTurn(s, "result") /\ Leave(s) /\ full' \in {full, WithoutHost(chain[s][1].host)}
      /\ UNCHANGED <<session, run, work, calls, nextReq, lost>>
  BY DEF ResultRaised, files
<1>2. chain[s][1] \in Turns /\ chain[s][1].do = "result" /\ session[s] \in SessionFiles
  BY <1>1, FirstTurn
<1>3. chain[s][1].host \in Ids
  BY <1>2, TurnFacts
<1>4. full' \in Seq(FullResults) /\ lost' \subseteq Nat
  BY <1>1, <1>3, KeptType DEF TypeInv, Shape
<1>5. session' = [session EXCEPT ![s] = session[s]]
  BY <1>1 DEF TypeInv, Shape
<1> QED BY <1>1, <1>2, <1>4, <1>5, FileTurnEnds

LEMMA CrashType ==
  ASSUME TypeInv, Crash
  PROVE  TypeInv'
<1>1. /\ chain' = [s \in Sessions |-> <<>>] /\ work' = [s \in Sessions |-> Idle]
      /\ calls' = [s \in Sessions |-> <<>>] /\ full' = <<>>
      /\ UNCHANGED <<session, run, nextReq, lost>>
  BY DEF Crash, files
<1> QED BY <1>1 DEF TypeInv, Shape, WaitInv, WorkInv, CallInv

(* The owner and the clock touch nothing of the scans.                      *)
Untouched == UNCHANGED <<session, run, chain, work, calls, full, nextReq, lost>>

LEMMA OwnerTouchesNothing ==
  ASSUME \/ \E scope \in Scopes : SnoozeSet(scope) \/ SnoozeOff(scope)
         \/ Tick \/ UNCHANGED vars
  PROVE  Untouched
<1>1. ASSUME NEW scope \in Scopes, SnoozeSet(scope) PROVE Untouched
  BY <1>1 DEF SnoozeSet, Untouched
<1>2. ASSUME NEW scope \in Scopes, SnoozeOff(scope) PROVE Untouched
  BY <1>2 DEF SnoozeOff, Untouched
<1>3. CASE Tick
  BY <1>3 DEF Tick, files, Untouched
<1>4. CASE UNCHANGED vars
  BY <1>4 DEF vars, Untouched
<1> QED BY <1>1, <1>2, <1>3, <1>4

LEMMA UntouchedType == TypeInv /\ Untouched => TypeInv'
BY DEF Untouched, TypeInv, Shape, WaitInv, WorkInv, CallInv

LEMMA TypeStep ==
  ASSUME TypeInv, [Next]_vars
  PROVE  TypeInv'
<1>1. ASSUME NEW s \in Sessions, HostStep(s) PROVE TypeInv'
  BY <1>1, NewRunType, RememberType, MessageWriteType DEF HostStep
<1>2. ASSUME NEW s \in Sessions, ChainStep(s) PROVE TypeInv'
  BY <1>2, ScanStartsType, AnswerType, ScanRaisedType, ResolutionWrittenType,
     ResolutionRaisedType, ResultTakenType, ResultRaisedType DEF ChainStep, ScanEnds
<1>3. ASSUME NEW s \in Sessions, NEW i \in DOMAIN calls[s], CallStep(s, i) PROVE TypeInv'
  BY <1>3, BeforeToolCallType, BeforeWrapperType, DispatchType, ResolvedType, CallEndsType
     DEF CallStep
<1>4. CASE Crash
  BY <1>4, CrashType
<1>5. CASE \/ \E scope \in Scopes : SnoozeSet(scope) \/ SnoozeOff(scope)
           \/ Tick \/ UNCHANGED vars
  BY <1>5, OwnerTouchesNothing, UntouchedType
<1> QED BY <1>1, <1>2, <1>3, <1>4, <1>5 DEF Next

-----------------------------------------------------------------------------
(* What is told of a request.                                              *)

LEMMA Numbers ==
  ASSUME TypeInv, NEW s \in Sessions
  PROVE  /\ nextReq \in Nat
         /\ \A i \in DOMAIN calls[s] : calls[s][i].req \in Nat /\ calls[s][i].st \in States
         /\ \A k \in DOMAIN session[s].history : session[s].history[k].req \in Nat
         /\ \A n \in DOMAIN chain[s] :
              /\ n \in Nat /\ chain[s][n] \in Turns
              /\ chain[s][n].do = "resolve" => chain[s][n].req \in Nat
              /\ chain[s][n].do = "result" =>
                   chain[s][n].text \in Nat /\ chain[s][n].ran \in BOOLEAN
<1>1. /\ nextReq \in Nat /\ calls[s] \in Seq(HostCalls) /\ chain[s] \in Seq(Turns)
      /\ session[s] \in SessionFiles
  BY DEF TypeInv, Shape
<1>2. session[s].history \in Seq(Entries)
  BY <1>1 DEF SessionFiles
<1>3. \A c \in HostCalls : c.req \in Nat /\ c.st \in States
  BY DEF HostCalls
<1>4. \A e \in Entries : e.req \in Nat
  BY DEF Entries
<1>5. \A n \in DOMAIN chain[s] : n \in Nat /\ chain[s][n] \in Turns
  BY <1>1
<1> QED BY <1>1, <1>2, <1>3, <1>4, <1>5, TurnFacts

(* Nothing happens to a session but that calls without a request come or go  *)
(* and that calls are done.                                                *)
LEMMA QuietFate ==
  ASSUME TypeInv, FateInv, NEW s \in Sessions,
         session'[s] = session[s], chain'[s] = chain[s],
         nextReq' \in Nat, nextReq' >= nextReq, lost \subseteq lost',
         \A i \in DOMAIN calls'[s] :
           \/ calls'[s][i].req = 0
           \/ /\ i \in DOMAIN calls[s] /\ calls'[s][i].req = calls[s][i].req
              /\ calls'[s][i].st \in {calls[s][i].st, "done"}
  PROVE  Fated(s)'
<1>0. Fated(s)
  BY DEF FateInv
<1>1. RequestsOnce(s)'
  <2>0. RequestsOnce(s)
    BY <1>0 DEF Fated
  <2>1. \A r \in Nat : r < nextReq => r < nextReq'
    BY Numbers
  <2>2. \A i, j \in DOMAIN calls'[s] :
          calls'[s][i].req = calls'[s][j].req /\ calls'[s][i].req > 0 => i = j
    BY <2>0 DEF RequestsOnce
  <2>3. \A i \in DOMAIN calls'[s] : calls'[s][i].req < nextReq'
    <3> SUFFICES ASSUME NEW i \in DOMAIN calls'[s] PROVE calls'[s][i].req < nextReq'
      OBVIOUS
    <3>1. nextReq > 0
      BY DEF TypeInv, Shape
    <3>2. CASE calls'[s][i].req = 0
      BY <3>1, <3>2, Numbers
    <3>3. CASE i \in DOMAIN calls[s] /\ calls'[s][i].req = calls[s][i].req
      BY <2>0, <2>1, <3>3, Numbers DEF RequestsOnce
    <3> QED BY <3>2, <3>3
  <2>4. \A k \in DOMAIN session'[s].history : session'[s].history[k].req < nextReq'
    BY <2>0, <2>1, Numbers DEF RequestsOnce
  <2>5. \A n \in DOMAIN chain'[s] :
          /\ chain'[s][n].do = "resolve" => chain'[s][n].req < nextReq'
          /\ chain'[s][n].do = "result" => chain'[s][n].text > 0 /\ chain'[s][n].text < nextReq'
    BY <2>0, <2>1, Numbers DEF RequestsOnce
  <2> QED BY <2>2, <2>3, <2>4, <2>5 DEF RequestsOnce
<1>2. ASSUME NEW r, NEW ran, Told(s, r, ran) PROVE Told(s, r, ran)'
  BY <1>2 DEF Told, Pending
<1>3. CallFates(s)'
  <2> SUFFICES ASSUME NEW i \in DOMAIN calls'[s], calls'[s][i].req > 0
               PROVE  CallFate(s, calls[s][i].st, calls[s][i].req)'
    BY DEF CallFates
  <2>1. /\ i \in DOMAIN calls[s] /\ calls'[s][i].req = calls[s][i].req
        /\ calls'[s][i].st \in {calls[s][i].st, "done"}
    OBVIOUS
  <2>2. CallFate(s, calls[s][i].st, calls[s][i].req)
    BY <1>0, <2>1 DEF Fated, CallFates
  <2> QED BY <1>2, <2>1, <2>2 DEF CallFate, NoTurns, NoResult, Unwritten
<1>4. ResultFates(s)'
  <2> SUFFICES ASSUME NEW n \in DOMAIN chain[s], chain[s][n].do = "result"
               PROVE  ResultFate(s, n, chain[s][n].text, chain[s][n].ran, chain[s][n].error)'
    BY DEF ResultFates
  <2>1. ResultFate(s, n, chain[s][n].text, chain[s][n].ran, chain[s][n].error)
    BY <1>0 DEF Fated, ResultFates
  <2> QED BY <1>2, <2>1 DEF ResultFate
<1> QED BY <1>1, <1>3, <1>4 DEF Fated

(* A call that waits for its turn to be scanned has a request of its own.   *)
LEMMA BeforeToolCallFate ==
  ASSUME TypeInv, FateInv, NEW s \in Sessions, NEW i \in DOMAIN calls[s], BeforeToolCall(s, i)
  PROVE  Fated(s)' /\ \A t \in Sessions : t # s => Fated(t)'
<1> DEFINE c == [calls[s][i] EXCEPT !.st = "queued", !.req = nextReq]
           turn == [do |-> "scan", call |-> i]
<1>1. /\ calls[s][i].st = "new" /\ nextReq' = nextReq + 1 /\ SetCall(s, i, c) /\ Join(s, turn)
      /\ UNCHANGED <<session, run, work, full, lost>>
  BY DEF BeforeToolCall, files
<1>2. calls[s] \in Seq(HostCalls) /\ calls[s][i] \in HostCalls /\ nextReq \in Nat \ {0}
  BY DEF TypeInv, Shape
<1>3. turn \in Turns /\ turn.do = "scan"
  BY <1>2 DEF Turns, ScanTurns
<1>4. c \in HostCalls /\ c.st = "queued" /\ c.req = nextReq
  BY <1>2 DEF HostCalls, States
<1> HIDE DEF c, turn
<1>5. /\ \A t \in Sessions : DOMAIN calls'[t] = DOMAIN calls[t]
      /\ calls'[s][i] = c
      /\ \A t \in Sessions : \A j \in DOMAIN calls[t] :
           t # s \/ j # i => calls'[t][j] = calls[t][j]
  BY <1>1, <1>4, SetCallFacts DEF TypeInv
<1>6. /\ \A t \in Sessions : t # s => chain'[t] = chain[t]
      /\ \A n \in DOMAIN chain'[s] :
           \/ n \in DOMAIN chain[s] /\ chain'[s][n] = chain[s][n]
           \/ chain'[s][n].do = "scan"
      /\ \A n \in DOMAIN chain[s] : n \in DOMAIN chain'[s] /\ chain'[s][n] = chain[s][n]
  <2>1. /\ \A t \in Sessions : t # s => chain'[t] = chain[t]
        /\ DOMAIN chain[s] = 1..Len(chain[s]) /\ Len(chain[s]) \in Nat
        /\ DOMAIN chain'[s] = 1..(Len(chain[s]) + 1)
        /\ \A n \in DOMAIN chain[s] : chain'[s][n] = chain[s][n]
        /\ chain'[s][Len(chain[s]) + 1] = turn
    BY <1>1, <1>3, JoinFacts DEF TypeInv
  <2>2. \A n \in DOMAIN chain'[s] : n \in DOMAIN chain[s] \/ n = Len(chain[s]) + 1
    BY <2>1
  <2> QED BY <1>3, <2>1, <2>2
<1>7. \A t \in Sessions : t # s => Fated(t)'
  <2> SUFFICES ASSUME NEW t \in Sessions, t # s PROVE Fated(t)'
    OBVIOUS
  <2>1. /\ session'[t] = session[t] /\ chain'[t] = chain[t] /\ nextReq' \in Nat
        /\ nextReq' >= nextReq /\ lost \subseteq lost'
        /\ \A j \in DOMAIN calls'[t] : j \in DOMAIN calls[t] /\ calls'[t][j] = calls[t][j]
    BY <1>1, <1>2, <1>5, <1>6
  <2> QED BY <2>1, QuietFate
<1>8. Fated(s)
  BY DEF FateInv
<1>9. \A r \in Nat : r < nextReq => r < nextReq' /\ r # nextReq
  BY <1>1, <1>2
<1>10. RequestsOnce(s)
  BY <1>8 DEF Fated
<1>11. Unwritten(s, nextReq) /\ NoTurns(s, nextReq)
  BY <1>9, <1>10, Numbers DEF RequestsOnce, Unwritten, NoTurns
<1>12. RequestsOnce(s)'
  <2>1. \A j \in DOMAIN calls'[s] : j # i => calls'[s][j].req < nextReq /\ calls'[s][j].req \in Nat
    BY <1>5, <1>10, Numbers DEF RequestsOnce
  <2>2. \A j, k \in DOMAIN calls'[s] :
          calls'[s][j].req = calls'[s][k].req /\ calls'[s][j].req > 0 => j = k
    BY <1>4, <1>5, <1>9, <1>10, <2>1, Numbers DEF RequestsOnce
  <2>3. \A j \in DOMAIN calls'[s] : calls'[s][j].req < nextReq'
    BY <1>1, <1>2, <1>4, <1>5, <1>9, <2>1
  <2>4. \A k \in DOMAIN session'[s].history : session'[s].history[k].req < nextReq'
    BY <1>1, <1>9, <1>10, Numbers DEF RequestsOnce
  <2>5. \A n \in DOMAIN chain'[s] :
          /\ chain'[s][n].do = "resolve" => chain'[s][n].req < nextReq'
          /\ chain'[s][n].do = "result" => chain'[s][n].text > 0 /\ chain'[s][n].text < nextReq'
    BY <1>6, <1>9, <1>10, Numbers DEF RequestsOnce
  <2> QED BY <2>2, <2>3, <2>4, <2>5 DEF RequestsOnce
<1>13. ASSUME NEW r, NEW ran, Told(s, r, ran) PROVE Told(s, r, ran)'
  BY <1>1, <1>6, <1>13 DEF Told, Pending
<1>14. CallFates(s)'
  <2> SUFFICES ASSUME NEW j \in DOMAIN calls'[s], calls'[s][j].req > 0
               PROVE  CallFate(s, calls[s][j].st, calls[s][j].req)'
    BY DEF CallFates
  <2>1. CASE j = i
    BY <1>1, <1>4, <1>5, <1>6, <1>11, <2>1 DEF CallFate, Unwritten, NoTurns
  <2>2. CASE j # i
    <3>1. CallFate(s, calls[s][j].st, calls[s][j].req) /\ calls'[s][j] = calls[s][j]
      BY <1>5, <1>8, <2>2 DEF Fated, CallFates
    <3> QED BY <1>1, <1>6, <1>13, <3>1 DEF CallFate, NoTurns, NoResult, Unwritten
  <2> QED BY <2>1, <2>2
<1>15. ResultFates(s)'
  <2> SUFFICES ASSUME NEW n \in DOMAIN chain'[s], chain'[s][n].do = "result"
               PROVE  ResultFate(s, n, chain[s][n].text, chain[s][n].ran, chain[s][n].error)'
    BY DEF ResultFates
  <2>1. n \in DOMAIN chain[s] /\ chain'[s][n] = chain[s][n]
    BY <1>6
  <2>2. ResultFate(s, n, chain[s][n].text, chain[s][n].ran, chain[s][n].error)
    BY <1>8, <2>1 DEF Fated, ResultFates
  <2> QED BY <1>6, <1>13, <2>1, <2>2 DEF ResultFate
<1> QED BY <1>7, <1>12, <1>14, <1>15 DEF Fated

LEMMA Elsewhere ==
  ASSUME TypeInv, FateInv, NEW s \in Sessions,
         \A t \in Sessions : t # s =>
           session'[t] = session[t] /\ chain'[t] = chain[t] /\ calls'[t] = calls[t],
         UNCHANGED nextReq, lost \subseteq lost'
  PROVE  \A t \in Sessions : t # s => Fated(t)'
<1> SUFFICES ASSUME NEW t \in Sessions, t # s PROVE Fated(t)'
  OBVIOUS
<1>1. nextReq' \in Nat /\ nextReq' >= nextReq
  BY Numbers
<1> QED BY <1>1, QuietFate

LEMMA CallsElsewhere ==
  ASSUME TypeInv, NEW s \in Sessions, NEW i \in DOMAIN calls[s], NEW c \in HostCalls,
         SetCall(s, i, c)
  PROVE  /\ \A t \in Sessions : t # s => calls'[t] = calls[t]
         /\ DOMAIN calls'[s] = DOMAIN calls[s] /\ calls'[s][i] = c
         /\ \A j \in DOMAIN calls[s] : j # i => calls'[s][j] = calls[s][j]
<1>1. \A t \in Sessions : t # s => calls'[t] = calls[t]
  BY DEF SetCall, TypeInv, Shape
<1> QED BY <1>1, SetCallFacts DEF TypeInv

(* A prompt ends: its call goes on and its resolution joins the chain.      *)
LEMMA ResolvedFate ==
  ASSUME TypeInv, FateInv, NEW s \in Sessions, NEW i \in DOMAIN calls[s], Resolved(s, i)
  PROVE  FateInv'
<1>1. PICK resolution \in Resolutions :
        /\ SetCall(s, i, [calls[s][i] EXCEPT !.st =
             IF RunsOn(calls[s][i], resolution) THEN "running" ELSE "refused"])
        /\ Join(s, [do |-> "resolve", req |-> calls[s][i].req,
                    final |-> Final(calls[s][i].onError, resolution)])
  BY DEF Resolved
<1>0. PICK r, ran, final :
        /\ r = calls[s][i].req /\ ran = RunsOn(calls[s][i], resolution)
        /\ final = Final(calls[s][i].onError, resolution)
  OBVIOUS
<1> DEFINE st == IF ran THEN "running" ELSE "refused"
           c == [calls[s][i] EXCEPT !.st = st]
           turn == [do |-> "resolve", req |-> r, final |-> final]
           last == Len(chain[s]) + 1
<1>2. /\ calls[s][i].st = "asking" /\ SetCall(s, i, c) /\ Join(s, turn)
      /\ UNCHANGED <<session, run, work, full, nextReq, lost>>
  BY <1>0, <1>1 DEF Resolved, files
<1>3. calls[s][i] \in HostCalls /\ Proper(calls[s][i])
  BY DEF TypeInv, Shape, CallInv
<1>4. r \in Nat /\ r > 0 /\ calls[s][i].onError \in BOOLEAN
  BY <1>0, <1>2, <1>3 DEF HostCalls, Proper
<1>5. final \in Decisions
  BY <1>0, <1>4, FinalType
<1>6. ScheduledBehavior = "deny" => Says(final, ran)
  BY <1>0, <1>3, <1>4 DEF Proper, RunsOn, Says, Final, Approved, Resolutions, NotRun
<1>7. st \in {"running", "refused"} /\ (st = "running" <=> ran)
  OBVIOUS
<1> HIDE DEF st
<1>8. c \in HostCalls /\ c.st = st /\ c.req = r
  BY <1>0, <1>3, <1>7 DEF HostCalls, States
<1>9. turn \in Turns /\ turn.do = "resolve" /\ turn.req = r /\ turn.final = final
  BY <1>4, <1>5 DEF Turns, ResolutionTurns
<1> HIDE DEF c, turn
<1>10. /\ \A t \in Sessions : t # s => calls'[t] = calls[t]
       /\ DOMAIN calls'[s] = DOMAIN calls[s] /\ calls'[s][i] = c
       /\ \A j \in DOMAIN calls[s] : j # i => calls'[s][j] = calls[s][j]
  BY <1>2, <1>8, CallsElsewhere
<1>11. /\ \A t \in Sessions : t # s => chain'[t] = chain[t]
       /\ last \notin DOMAIN chain[s] /\ last \in DOMAIN chain'[s] /\ chain'[s][last] = turn
       /\ \A n \in DOMAIN chain[s] : n < last /\ n \in DOMAIN chain'[s] /\ chain'[s][n] = chain[s][n]
       /\ \A n \in DOMAIN chain'[s] : n \in DOMAIN chain[s] \/ n = last
  BY <1>2, <1>9, JoinFacts DEF TypeInv
<1> HIDE DEF last
<1>12. Fated(s) /\ RequestsOnce(s)
  BY DEF FateInv, Fated
<1>13. NoTurns(s, r)
  BY <1>0, <1>2, <1>4, <1>12 DEF Fated, CallFates, CallFate
<1>14. RequestsOnce(s)'
  <2>1. \A j \in DOMAIN calls'[s] : calls'[s][j].req = calls[s][j].req
    BY <1>0, <1>8, <1>10
  <2>2. r < nextReq
    BY <1>0, <1>12 DEF RequestsOnce
  <2>3. \A n \in DOMAIN chain'[s] :
          /\ chain'[s][n].do = "resolve" => chain'[s][n].req < nextReq
          /\ chain'[s][n].do = "result" => chain'[s][n].text > 0 /\ chain'[s][n].text < nextReq
    BY <1>9, <1>11, <1>12, <2>2 DEF RequestsOnce
  <2> QED BY <1>2, <1>10, <1>12, <2>1, <2>3 DEF RequestsOnce
<1>15. ASSUME NEW q, NEW b, Told(s, q, b), q # r PROVE Told(s, q, b)'
  <2>1. Pending(s, q)' <=> Pending(s, q)
    BY <1>9, <1>11, <1>15 DEF Pending
  <2> QED BY <1>2, <1>9, <1>11, <1>15, <2>1 DEF Told
<1>16. Told(s, r, st = "running")'
  <2>1. Pending(s, r)'
    BY <1>9, <1>11 DEF Pending
  <2>2. \A n \in DOMAIN chain'[s] :
          chain'[s][n].do = "resolve" /\ chain'[s][n].req = r => chain'[s][n].final = final
    BY <1>9, <1>11, <1>13 DEF NoTurns
  <2>3. ScheduledBehavior = "deny" => Says(final, st = "running")
    BY <1>6, <1>7 DEF Says
  <2> QED BY <2>1, <2>2, <2>3 DEF Told
<1>17. CallFates(s)'
  <2> SUFFICES ASSUME NEW j \in DOMAIN calls'[s], calls'[s][j].req > 0
               PROVE  CallFate(s, calls[s][j].st, calls[s][j].req)'
    BY DEF CallFates
  <2>1. CASE j = i
    <3>1. calls'[s][j].st = st /\ calls'[s][j].req = r
      BY <1>8, <1>10, <2>1
    <3>2. NoResult(s, r)'
      BY <1>9, <1>11, <1>13 DEF NoTurns, NoResult
    <3> QED BY <1>7, <1>16, <3>1, <3>2 DEF CallFate
  <2>2. CASE j # i
    <3>1. CallFate(s, calls[s][j].st, calls[s][j].req) /\ calls'[s][j] = calls[s][j]
      BY <1>10, <1>12, <2>2 DEF Fated, CallFates
    <3>2. calls[s][j].req # r
      BY <1>0, <1>4, <1>10, <1>12, <2>2 DEF RequestsOnce
    <3> QED BY <1>2, <1>9, <1>11, <1>15, <3>1, <3>2 DEF CallFate, NoTurns, NoResult, Unwritten
  <2> QED BY <2>1, <2>2
<1>18. ResultFates(s)'
  <2> SUFFICES ASSUME NEW n \in DOMAIN chain'[s], chain'[s][n].do = "result"
               PROVE  ResultFate(s, n, chain[s][n].text, chain[s][n].ran, chain[s][n].error)'
    BY DEF ResultFates
  <2>1. n \in DOMAIN chain[s] /\ chain'[s][n] = chain[s][n]
    BY <1>9, <1>11
  <2>2. ResultFate(s, n, chain[s][n].text, chain[s][n].ran, chain[s][n].error)
    BY <1>12, <2>1 DEF Fated, ResultFates
  <2>3. chain[s][n].text # r
    BY <1>13, <2>1 DEF NoTurns
  <2> QED BY <1>9, <1>11, <1>15, <2>1, <2>2, <2>3 DEF ResultFate
<1>19. \A t \in Sessions : t # s => Fated(t)'
  BY <1>2, <1>10, <1>11, Elsewhere
<1> QED BY <1>14, <1>17, <1>18, <1>19 DEF FateInv, Fated

(* A call ends, and its result joins the chain behind its resolution.       *)
LEMMA CallEndsFate ==
  ASSUME TypeInv, FateInv, NEW s \in Sessions, NEW i \in DOMAIN calls[s], CallEnds(s, i)
  PROVE  FateInv'
<1>0. PICK r \in Nat, ran \in BOOLEAN :
        r = calls[s][i].req /\ ran = (calls[s][i].st = "running")
  BY Numbers
<1> DEFINE c == [calls[s][i] EXCEPT !.st = "done"]
           turn(error) == [do |-> "result", host |-> calls[s][i].host,
                           text |-> r, error |-> error, ran |-> ran]
           last == Len(chain[s]) + 1
<1>1. PICK error \in BOOLEAN :
        /\ calls[s][i].st = "refused" => error
        /\ IF ~Buffers(calls[s][i]) THEN UNCHANGED chain ELSE Join(s, turn(error))
  BY <1>0 DEF CallEnds
<1>2. /\ calls[s][i].st \in {"running", "refused"} /\ SetCall(s, i, c)
      /\ UNCHANGED <<session, run, work, nextReq, lost>>
  BY DEF CallEnds, files
<1>3. calls[s][i] \in HostCalls /\ Proper(calls[s][i])
  BY DEF TypeInv, Shape, CallInv
<1>4. c \in HostCalls /\ c.st = "done" /\ c.req = r
  BY <1>0, <1>3 DEF HostCalls, States
<1> HIDE DEF c
<1>5. /\ \A t \in Sessions : t # s => calls'[t] = calls[t]
      /\ DOMAIN calls'[s] = DOMAIN calls[s] /\ calls'[s][i] = c
      /\ \A j \in DOMAIN calls[s] : j # i => calls'[s][j] = calls[s][j]
  BY <1>2, <1>4, CallsElsewhere
<1>6. CASE ~Buffers(calls[s][i])
  <2>1. UNCHANGED chain
    BY <1>1, <1>6
  <2>2. nextReq' \in Nat /\ nextReq' >= nextReq
    BY <1>2, Numbers
  <2>3. \A j \in DOMAIN calls'[s] :
          /\ j \in DOMAIN calls[s] /\ calls'[s][j].req = calls[s][j].req
          /\ calls'[s][j].st \in {calls[s][j].st, "done"}
    BY <1>0, <1>4, <1>5
  <2>4. Fated(s)'
    BY <1>2, <2>1, <2>2, <2>3, QuietFate
  <2>5. \A t \in Sessions : t # s => Fated(t)'
    BY <1>2, <1>5, <2>1, Elsewhere
  <2> QED BY <2>4, <2>5 DEF FateInv
<1>7. CASE Buffers(calls[s][i])
  <2>1. Join(s, turn(error))
    BY <1>1, <1>7
  <2>2. /\ r \in Nat /\ r > 0 /\ calls[s][i].host \in Ids
    BY <1>0, <1>2, <1>3, <1>7 DEF HostCalls, Proper, Buffers
  <2>3. /\ turn(error) \in Turns /\ turn(error).do = "result" /\ turn(error).text = r
        /\ turn(error).error = error /\ turn(error).ran = ran
    <3>1. turn(error) \in ResultTurns
      BY <2>2 DEF ResultTurns
    <3> QED BY <3>1 DEF Turns
  <2>4. /\ \A t \in Sessions : t # s => chain'[t] = chain[t]
        /\ last \notin DOMAIN chain[s] /\ last \in DOMAIN chain'[s]
        /\ chain'[s][last] = turn(error)
        /\ \A n \in DOMAIN chain[s] : n < last /\ n \in DOMAIN chain'[s] /\ chain'[s][n] = chain[s][n]
        /\ \A n \in DOMAIN chain'[s] : n \in DOMAIN chain[s] \/ n = last
    BY <2>1, <2>3, JoinFacts DEF TypeInv
  <2> HIDE DEF last
  <2>5. Fated(s) /\ RequestsOnce(s)
    BY DEF FateInv, Fated
  <2>6. NoResult(s, r) /\ Told(s, r, ran) /\ (~ran => error)
    BY <1>0, <1>1, <1>2, <2>2, <2>5 DEF Fated, CallFates, CallFate
  <2> DEFINE new == turn(error)
  <2>7. /\ new.do = "result" /\ new.text = r /\ new.error = error /\ new.ran = ran
        /\ chain'[s][last] = new
    BY <2>3, <2>4
  <2> HIDE DEF new
  <2>8. RequestsOnce(s)'
    <3>1. \A j \in DOMAIN calls'[s] : calls'[s][j].req = calls[s][j].req
      BY <1>0, <1>4, <1>5
    <3>2. r < nextReq
      BY <1>0, <2>5 DEF RequestsOnce
    <3>3. \A n \in DOMAIN chain'[s] :
            /\ chain'[s][n].do = "resolve" => chain'[s][n].req < nextReq
            /\ chain'[s][n].do = "result" => chain'[s][n].text > 0 /\ chain'[s][n].text < nextReq
      BY <2>2, <2>4, <2>5, <2>7, <3>2 DEF RequestsOnce
    <3> QED BY <1>2, <1>5, <2>5, <3>1, <3>3 DEF RequestsOnce
  <2>9. ASSUME NEW q, NEW b, Told(s, q, b) PROVE Told(s, q, b)'
    <3>1. Pending(s, q)' <=> Pending(s, q)
      BY <2>4, <2>7 DEF Pending
    <3> QED BY <1>2, <2>4, <2>7, <2>9, <3>1 DEF Told
  <2>10. CallFates(s)'
    <3> SUFFICES ASSUME NEW j \in DOMAIN calls'[s], calls'[s][j].req > 0
                 PROVE  CallFate(s, calls[s][j].st, calls[s][j].req)'
      BY DEF CallFates
    <3>1. CASE j = i
      BY <1>4, <1>5, <3>1 DEF CallFate
    <3>2. CASE j # i
      <4>1. CallFate(s, calls[s][j].st, calls[s][j].req) /\ calls'[s][j] = calls[s][j]
        BY <1>5, <2>5, <3>2 DEF Fated, CallFates
      <4>2. calls[s][j].req # r
        BY <1>0, <1>5, <2>2, <2>5, <3>2 DEF RequestsOnce
      <4> QED BY <1>2, <2>4, <2>7, <2>9, <4>1, <4>2 DEF CallFate, NoTurns, NoResult, Unwritten
    <3> QED BY <3>1, <3>2
  <2>11. ResultFates(s)'
    <3> SUFFICES ASSUME NEW n \in DOMAIN chain'[s], chain'[s][n].do = "result"
                 PROVE  ResultFate(s, n, chain[s][n].text, chain[s][n].ran, chain[s][n].error)'
      BY DEF ResultFates
    <3>0. \A m \in DOMAIN chain'[s] : chain'[s][m].do = "resolve" =>
            m \in DOMAIN chain[s] /\ chain'[s][m] = chain[s][m] /\ m < last
      BY <2>4, <2>7
    <3>1. CASE n \in DOMAIN chain[s]
      <4>1. ResultFate(s, n, chain[s][n].text, chain[s][n].ran, chain[s][n].error)
            /\ chain'[s][n] = chain[s][n]
        BY <2>4, <2>5, <3>1 DEF Fated, ResultFates
      <4> QED BY <2>9, <3>0, <4>1 DEF ResultFate
    <3>2. CASE n = last
      <4>1. Told(s, r, ran)'
        BY <2>6, <2>9
      <4>2. chain'[s][n].text = r /\ chain'[s][n].ran = ran /\ chain'[s][n].error = error
        BY <2>7, <3>2
      <4> QED BY <2>6, <3>0, <3>2, <4>1, <4>2 DEF ResultFate
    <3> QED BY <2>4, <3>1, <3>2
  <2>12. \A t \in Sessions : t # s => Fated(t)'
    BY <1>2, <1>5, <2>4, Elsewhere
  <2> QED BY <2>8, <2>10, <2>11, <2>12 DEF FateInv, Fated
<1> QED BY <1>6, <1>7

(* Without the first turn of its chain, what is still told was told.        *)
LEMMA AfterLeave ==
  ASSUME TypeInv, FateInv, NEW s \in Sessions, chain[s] # <<>>, Leave(s)
  PROVE  /\ \A t \in Sessions : t # s => chain'[t] = chain[t]
         /\ \A n \in DOMAIN chain'[s] : /\ n \in Nat /\ n + 1 \in DOMAIN chain[s]
                                        /\ chain'[s][n] = chain[s][n + 1]
         /\ \A n \in DOMAIN chain[s] : n # 1 =>
              /\ n \in Nat /\ n - 1 \in DOMAIN chain'[s] /\ chain'[s][n - 1] = chain[s][n]
         /\ 1 \in DOMAIN chain[s]
         /\ \A r : NoTurns(s, r) => NoTurns(s, r)'
         /\ \A r : NoResult(s, r) => NoResult(s, r)'
         /\ \A n \in DOMAIN chain'[s] :
              /\ chain'[s][n].do = "resolve" => chain'[s][n].req < nextReq
              /\ chain'[s][n].do = "result" => chain'[s][n].text > 0 /\ chain'[s][n].text < nextReq
<1>1. /\ \A t \in Sessions : t # s => chain'[t] = chain[t]
      /\ DOMAIN chain[s] = 1..Len(chain[s]) /\ Len(chain[s]) \in Nat /\ 1 \in DOMAIN chain[s]
      /\ DOMAIN chain'[s] = 1..(Len(chain[s]) - 1)
      /\ \A n \in DOMAIN chain'[s] : n + 1 \in DOMAIN chain[s] /\ chain'[s][n] = chain[s][n + 1]
  BY LeaveFacts DEF TypeInv
<1>2. \A n \in DOMAIN chain'[s] : /\ n \in Nat /\ n + 1 \in DOMAIN chain[s]
                                  /\ chain'[s][n] = chain[s][n + 1]
  BY <1>1
<1>3. ASSUME NEW n \in DOMAIN chain[s], n # 1
      PROVE  n \in Nat /\ n - 1 \in DOMAIN chain'[s] /\ chain'[s][n - 1] = chain[s][n]
  <2>1. n \in Nat /\ n - 1 \in DOMAIN chain'[s] /\ (n - 1) + 1 = n
    BY <1>1, <1>3
  <2> QED BY <1>1, <2>1
<1>4. RequestsOnce(s)
  BY DEF FateInv, Fated
<1>5. \A n \in DOMAIN chain'[s] :
        /\ chain'[s][n].do = "resolve" => chain'[s][n].req < nextReq
        /\ chain'[s][n].do = "result" => chain'[s][n].text > 0 /\ chain'[s][n].text < nextReq
  BY <1>2, <1>4 DEF RequestsOnce
<1>6. ASSUME NEW r, NoTurns(s, r) PROVE NoTurns(s, r)'
  BY <1>2, <1>6 DEF NoTurns
<1>7. ASSUME NEW r, NoResult(s, r) PROVE NoResult(s, r)'
  BY <1>2, <1>7 DEF NoResult
<1> QED BY <1>1, <1>2, <1>3, <1>5, <1>6, <1>7

(* The results that wait come after their resolutions still.                *)
LEMMA ResultsWait ==
  ASSUME TypeInv, FateInv, NEW s \in Sessions, chain[s] # <<>>, Leave(s),
         \A r, ran : Told(s, r, ran) /\ ~Told(s, r, ran)' =>
           \A n \in DOMAIN chain[s] : chain[s][n].do = "result" => chain[s][n].text # r
  PROVE  ResultFates(s)'
<1> SUFFICES ASSUME NEW n \in DOMAIN chain'[s], chain'[s][n].do = "result"
             PROVE  ResultFate(s, n, chain[s][n].text, chain[s][n].ran, chain[s][n].error)'
  BY DEF ResultFates
<1>1. /\ n \in Nat /\ n + 1 \in DOMAIN chain[s] /\ n + 1 # 1
      /\ chain'[s][n] = chain[s][n + 1]
      /\ \A m \in DOMAIN chain'[s] : /\ m \in Nat /\ m + 1 \in DOMAIN chain[s]
                                     /\ chain'[s][m] = chain[s][m + 1]
  <2>1. n \in Nat /\ n # 0
    BY AfterLeave, LeaveFacts DEF TypeInv
  <2> QED BY <2>1, AfterLeave
<1>2. PICK r, ran, error : r = chain[s][n + 1].text /\ ran = chain[s][n + 1].ran
                           /\ error = chain[s][n + 1].error
  OBVIOUS
<1>3. ResultFate(s, n + 1, r, ran, error)
  BY <1>1, <1>2 DEF FateInv, Fated, ResultFates
<1>4. Told(s, r, ran)'
  BY <1>1, <1>2, <1>3 DEF ResultFate
<1>5. ASSUME NEW m \in DOMAIN chain'[s], chain'[s][m].do = "resolve", chain'[s][m].req = r
      PROVE  m < n
  <2>1. m \in Nat /\ m + 1 < n + 1
    BY <1>1, <1>3, <1>5 DEF ResultFate
  <2> QED BY <1>1, <2>1
<1>6. ~ran => error
  BY <1>3 DEF ResultFate
<1>7. chain'[s][n].text = r /\ chain'[s][n].ran = ran /\ chain'[s][n].error = error
  BY <1>1, <1>2
<1> QED BY <1>4, <1>5, <1>6, <1>7 DEF ResultFate

(* A resolution or a result has had its turn.                               *)
LEMMA FileTurnFate ==
  ASSUME TypeInv, FateInv, NEW s \in Sessions, chain[s] # <<>>, Leave(s),
         UNCHANGED <<calls, nextReq>>, lost \subseteq lost',
         \A t \in Sessions : t # s => session'[t] = session[t],
         \A k \in DOMAIN session'[s].history : \E j \in DOMAIN session[s].history :
           session'[s].history[k].req = session[s].history[j].req,
         \A r, ran : Told(s, r, ran) => Told(s, r, ran)'
  PROVE  FateInv'
<1>1. RequestsOnce(s)'
  <2>1. RequestsOnce(s)
    BY DEF FateInv, Fated
  <2>2. \A k \in DOMAIN session'[s].history : session'[s].history[k].req < nextReq
    BY <2>1 DEF RequestsOnce
  <2>3. \A n \in DOMAIN chain'[s] :
          /\ chain'[s][n].do = "resolve" => chain'[s][n].req < nextReq
          /\ chain'[s][n].do = "result" => chain'[s][n].text > 0 /\ chain'[s][n].text < nextReq
    BY AfterLeave
  <2> QED BY <2>1, <2>2, <2>3 DEF RequestsOnce
<1>2. CallFates(s)'
  <2> SUFFICES ASSUME NEW i \in DOMAIN calls'[s], calls'[s][i].req > 0
               PROVE  CallFate(s, calls[s][i].st, calls[s][i].req)'
    BY DEF CallFates
  <2>1. PICK r, st : r = calls[s][i].req /\ st = calls[s][i].st
    OBVIOUS
  <2>2. CallFate(s, st, r)
    BY <2>1 DEF FateInv, Fated, CallFates
  <2>3. Unwritten(s, r) => Unwritten(s, r)'
    BY DEF Unwritten
  <2>4. (NoTurns(s, r) => NoTurns(s, r)') /\ (NoResult(s, r) => NoResult(s, r)')
    BY AfterLeave
  <2>5. CallFate(s, st, r)'
    BY <2>2, <2>3, <2>4 DEF CallFate
  <2> QED BY <2>1, <2>5
<1>3. ResultFates(s)'
  BY ResultsWait
<1>4. \A t \in Sessions : t # s => Fated(t)'
  BY AfterLeave, Elsewhere
<1> QED BY <1>1, <1>2, <1>3, <1>4 DEF FateInv, Fated

LEMMA ResolutionWrittenFate ==
  ASSUME TypeInv, FateInv, NEW s \in Sessions, ResolutionWritten(s)
  PROVE  FateInv'
<1>1. /\ HasTurn(s, "resolve") /\ Leave(s)
      /\ UNCHANGED <<run, work, calls, full, nextReq, lost>>
  BY DEF ResolutionWritten
<1>2. /\ chain[s] # <<>> /\ 1 \in DOMAIN chain[s] /\ chain[s][1] \in Turns
      /\ chain[s][1].do = "resolve" /\ session[s].history \in Seq(Entries)
  BY <1>1, FirstTurn
<1>3. PICK r, final : r = chain[s][1].req /\ final = chain[s][1].final
  OBVIOUS
<1>4. final \in Decisions
  BY <1>2, <1>3, TurnFacts
<1>5. PICK sess \in SessionFiles :
        /\ sess.history = WithDecision(session[s].history, r, final)
        /\ session' = [session EXCEPT ![s] = Saved(sess)]
  BY <1>3, ResolutionWrittenType
<1>6. /\ session'[s] = Saved(sess)
      /\ \A t \in Sessions : t # s => session'[t] = session[t]
  BY <1>5 DEF TypeInv, Shape
<1>7. \A k \in DOMAIN session'[s].history : \E j \in DOMAIN session[s].history :
        /\ session'[s].history[k].req = session[s].history[j].req
        /\ session'[s].history[k].decision =
             IF session[s].history[j].req = r THEN final ELSE session[s].history[j].decision
  <2>1. \A k \in DOMAIN Saved(sess).history : \E j \in DOMAIN sess.history :
          Saved(sess).history[k] = sess.history[j]
    BY SavedFacts
  <2>2. /\ DOMAIN sess.history = DOMAIN session[s].history
        /\ \A j \in DOMAIN session[s].history :
             /\ sess.history[j].req = session[s].history[j].req
             /\ sess.history[j].decision =
                  IF session[s].history[j].req = r THEN final ELSE session[s].history[j].decision
    BY <1>2, <1>4, <1>5, WithDecisionFacts
  <2> QED BY <1>6, <2>1, <2>2
<1>8. /\ \A n \in DOMAIN chain'[s] : n + 1 \in DOMAIN chain[s] /\ chain'[s][n] = chain[s][n + 1]
      /\ \A n \in DOMAIN chain[s] : n # 1 =>
           n - 1 \in DOMAIN chain'[s] /\ chain'[s][n - 1] = chain[s][n]
  BY <1>1, <1>2, AfterLeave
<1>9. ASSUME NEW q, NEW ran, Told(s, q, ran) PROVE Told(s, q, ran)'
  <2> SUFFICES ASSUME ScheduledBehavior = "deny"
               PROVE  /\ \A n \in DOMAIN chain'[s] :
                           chain'[s][n].do = "resolve" /\ chain'[s][n].req = q
                             => Says(chain'[s][n].final, ran)
                      /\ q \notin lost' /\ ~Pending(s, q)' =>
                           \A k \in DOMAIN session'[s].history :
                             session'[s].history[k].req = q
                               => Says(session'[s].history[k].decision, ran)
    BY DEF Told
  <2>1. \A n \in DOMAIN chain[s] :
          chain[s][n].do = "resolve" /\ chain[s][n].req = q => Says(chain[s][n].final, ran)
    BY <1>9 DEF Told
  <2>2. ASSUME NEW k \in DOMAIN session'[s].history, session'[s].history[k].req = q,
               q \notin lost', ~Pending(s, q)'
        PROVE  Says(session'[s].history[k].decision, ran)
    <3>1. PICK j \in DOMAIN session[s].history :
            /\ session[s].history[j].req = q
            /\ session'[s].history[k].decision =
                 IF q = r THEN final ELSE session[s].history[j].decision
      BY <1>7, <2>2
    <3>2. CASE q = r
      BY <1>2, <1>3, <2>1, <3>1, <3>2
    <3>3. CASE q # r
      <4>1. ~Pending(s, q)
        <5> SUFFICES ASSUME NEW n \in DOMAIN chain[s], chain[s][n].do = "resolve",
                            chain[s][n].req = q
                     PROVE  FALSE
          BY DEF Pending
        <5>1. n # 1
          BY <1>3, <3>3
        <5>2. n - 1 \in DOMAIN chain'[s] /\ chain'[s][n - 1] = chain[s][n]
          BY <1>8, <5>1
        <5> QED BY <2>2, <5>2 DEF Pending
      <4>2. q \notin lost
        BY <1>1, <2>2
      <4>3. Says(session[s].history[j].decision, ran)
        BY <1>9, <3>1, <4>1, <4>2 DEF Told
      <4> QED BY <3>1, <3>3, <4>3
    <3> QED BY <3>2, <3>3
  <2> QED BY <1>8, <2>1, <2>2
<1> QED BY <1>1, <1>2, <1>6, <1>7, <1>9, FileTurnFate

(* A turn that writes nothing about a request that is not lost with it.     *)
LEMMA ToldStill ==
  ASSUME TypeInv, FateInv, NEW s \in Sessions, chain[s] # <<>>, Leave(s), Older(s),
         lost \subseteq lost', chain[s][1].do = "resolve" => chain[s][1].req \in lost',
         NEW q, NEW ran, Told(s, q, ran)
  PROVE  Told(s, q, ran)'
<1>1. /\ \A n \in DOMAIN chain'[s] : n + 1 \in DOMAIN chain[s] /\ chain'[s][n] = chain[s][n + 1]
      /\ \A n \in DOMAIN chain[s] : n # 1 =>
           n - 1 \in DOMAIN chain'[s] /\ chain'[s][n - 1] = chain[s][n]
  BY AfterLeave
<1>2. q \notin lost' /\ ~Pending(s, q)' => q \notin lost /\ ~Pending(s, q)
  <2> SUFFICES ASSUME q \notin lost', ~Pending(s, q)', NEW n \in DOMAIN chain[s],
                      chain[s][n].do = "resolve", chain[s][n].req = q
               PROVE  FALSE
    BY DEF Pending
  <2>1. n # 1
    OBVIOUS
  <2>2. n - 1 \in DOMAIN chain'[s] /\ chain'[s][n - 1] = chain[s][n]
    BY <1>1, <2>1
  <2> QED BY <2>2 DEF Pending
<1> QED BY <1>1, <1>2 DEF Told, Older

LEMMA ResolutionRaisedFate ==
  ASSUME TypeInv, FateInv, NEW s \in Sessions, ResolutionRaised(s)
  PROVE  FateInv'
<1>1. /\ HasTurn(s, "resolve") /\ Leave(s) /\ lost' = lost \cup {chain[s][1].req}
      /\ UNCHANGED <<session, run, work, calls, full, nextReq>>
  BY DEF ResolutionRaised, files
<1>2. chain[s] # <<>> /\ Older(s) /\ lost \subseteq lost' /\ chain[s][1].req \in lost'
  BY <1>1, FirstTurn DEF Older
<1>3. \A q, ran : Told(s, q, ran) => Told(s, q, ran)'
  BY <1>1, <1>2, ToldStill
<1>4. \A k \in DOMAIN session'[s].history : \E j \in DOMAIN session[s].history :
        session'[s].history[k].req = session[s].history[j].req
  BY <1>1
<1> QED BY <1>1, <1>2, <1>3, <1>4, FileTurnFate

LEMMA ResultTurnFate ==
  ASSUME TypeInv, FateInv, NEW s \in Sessions, ResultTaken(s) \/ ResultRaised(s)
  PROVE  FateInv'
<1>1. HasTurn(s, "result") /\ Leave(s) /\ UNCHANGED <<calls, nextReq, lost>>
  BY DEF ResultTaken, ResultRaised
<1>2. Older(s) /\ \A t \in Sessions : t # s => session'[t] = session[t]
  <2>1. CASE ResultTaken(s)
    BY <2>1, ResultTakenType
  <2>2. CASE ResultRaised(s)
    BY <2>2 DEF ResultRaised, files, Older
  <2> QED BY <2>1, <2>2
<1>3. chain[s] # <<>> /\ chain[s][1].do = "result" /\ lost \subseteq lost'
  BY <1>1, FirstTurn
<1>4. \A q, ran : Told(s, q, ran) => Told(s, q, ran)'
  BY <1>1, <1>2, <1>3, ToldStill
<1>5. \A k \in DOMAIN session'[s].history : \E j \in DOMAIN session[s].history :
        session'[s].history[k].req = session[s].history[j].req
  BY <1>2 DEF Older
<1> QED BY <1>1, <1>2, <1>3, <1>4, <1>5, FileTurnFate

(* The scan of a call has had its turn: what is written about the call is    *)
(* all that was ever told of it.                                           *)
LEMMA ScanTurnFate ==
  ASSUME TypeInv, FateInv, NEW s \in Sessions, work[s].phase = "sent", Leave(s),
         NEW c \in HostCalls, SetCall(s, work[s].call, c),
         c.req = calls[s][work[s].call].req, c.st \in {"running", "refused", "asking"},
         UNCHANGED <<nextReq, lost>>, \A t \in Sessions : t # s => session'[t] = session[t],
         \A k \in DOMAIN session'[s].history :
           \/ \E j \in DOMAIN session[s].history :
                session'[s].history[k] = session[s].history[j]
           \/ /\ session'[s].history[k].req = c.req
              /\ c.st = "running" => session'[s].history[k].decision \notin NotRun
              /\ c.st = "refused" => session'[s].history[k].decision \in NotRun
  PROVE  FateInv'
<1> DEFINE i == work[s].call
           r == c.req
<1>1. /\ i \in DOMAIN calls[s] /\ calls[s][i].st = "queued" /\ chain[s] # <<>>
      /\ chain[s][1].do = "scan"
  BY WorkFacts DEF TypeInv, WorkInv
<1>2. r \in Nat /\ r > 0
  <2>1. Proper(calls[s][i]) /\ r \in Nat
    BY <1>1, Numbers DEF TypeInv, CallInv
  <2> QED BY <1>1, <2>1 DEF Proper
<1>3. /\ \A t \in Sessions : t # s => calls'[t] = calls[t]
      /\ DOMAIN calls'[s] = DOMAIN calls[s] /\ calls'[s][i] = c
      /\ \A j \in DOMAIN calls[s] : j # i => calls'[s][j] = calls[s][j]
  BY <1>1, CallsElsewhere
<1>4. Fated(s) /\ RequestsOnce(s)
  BY DEF FateInv, Fated
<1>5. Unwritten(s, r) /\ NoTurns(s, r) /\ r < nextReq
  BY <1>1, <1>2, <1>4 DEF Fated, CallFates, CallFate, RequestsOnce
<1>6. /\ \A n \in DOMAIN chain'[s] : n + 1 \in DOMAIN chain[s] /\ chain'[s][n] = chain[s][n + 1]
      /\ \A n \in DOMAIN chain[s] : n # 1 =>
           n - 1 \in DOMAIN chain'[s] /\ chain'[s][n - 1] = chain[s][n]
      /\ \A q : NoTurns(s, q) => NoTurns(s, q)'
      /\ \A q : NoResult(s, q) => NoResult(s, q)'
      /\ \A t \in Sessions : t # s => chain'[t] = chain[t]
  BY <1>1, AfterLeave
<1>7. ASSUME NEW q, NEW ran, Told(s, q, ran), q # r PROVE Told(s, q, ran)'
  <2>1. ~Pending(s, q)' => ~Pending(s, q)
    <3> SUFFICES ASSUME ~Pending(s, q)', NEW n \in DOMAIN chain[s],
                        chain[s][n].do = "resolve", chain[s][n].req = q
                 PROVE  FALSE
      BY DEF Pending
    <3>1. n # 1
      BY <1>1
    <3>2. n - 1 \in DOMAIN chain'[s] /\ chain'[s][n - 1] = chain[s][n]
      BY <1>6, <3>1
    <3> QED BY <3>2 DEF Pending
  <2>2. \A k \in DOMAIN session'[s].history : session'[s].history[k].req = q =>
          \E j \in DOMAIN session[s].history :
            session'[s].history[k] = session[s].history[j]
    BY <1>7
  <2> QED BY <1>6, <1>7, <2>1, <2>2 DEF Told
<1>8. ASSUME NEW ran, c.st \in {"running", "refused"}, ran = (c.st = "running")
      PROVE  Told(s, r, ran)'
  <2>1. NoTurns(s, r)'
    BY <1>5, <1>6
  <2>2. \A k \in DOMAIN session'[s].history : session'[s].history[k].req = r =>
          Says(session'[s].history[k].decision, ran)
    BY <1>5, <1>8 DEF Unwritten, Says
  <2> QED BY <2>1, <2>2 DEF Told, NoTurns
<1>9. RequestsOnce(s)'
  <2>1. \A j \in DOMAIN calls'[s] : calls'[s][j].req = calls[s][j].req
    BY <1>3
  <2>2. \A k \in DOMAIN session'[s].history : session'[s].history[k].req < nextReq
    BY <1>4, <1>5 DEF RequestsOnce
  <2>3. \A n \in DOMAIN chain'[s] :
          /\ chain'[s][n].do = "resolve" => chain'[s][n].req < nextReq
          /\ chain'[s][n].do = "result" => chain'[s][n].text > 0 /\ chain'[s][n].text < nextReq
    BY <1>1, AfterLeave
  <2> QED BY <1>3, <1>4, <2>1, <2>2, <2>3 DEF RequestsOnce
<1>10. CallFates(s)'
  <2> SUFFICES ASSUME NEW j \in DOMAIN calls'[s], calls'[s][j].req > 0
               PROVE  CallFate(s, calls[s][j].st, calls[s][j].req)'
    BY DEF CallFates
  <2>1. CASE j = i
    <3>1. NoTurns(s, r)' /\ NoResult(s, r)'
      BY <1>5, <1>6 DEF NoTurns, NoResult
    <3>2. PICK st : st = c.st
      OBVIOUS
    <3>3. st \in {"running", "refused"} => Told(s, r, st = "running")'
      BY <1>8, <3>2
    <3>4. CallFate(s, st, r)'
      BY <3>1, <3>2, <3>3 DEF CallFate
    <3>5. calls'[s][j].st = st /\ calls'[s][j].req = r
      BY <1>3, <2>1, <3>2
    <3> QED BY <3>4, <3>5
  <2>2. CASE j # i
    <3>1. PICK q, st : q = calls[s][j].req /\ st = calls[s][j].st
      OBVIOUS
    <3>2. CallFate(s, st, q) /\ calls'[s][j] = calls[s][j]
      BY <1>3, <1>4, <2>2, <3>1 DEF Fated, CallFates
    <3>3. q # r
      BY <1>1, <1>2, <1>3, <1>4, <2>2, <3>1 DEF RequestsOnce
    <3>4. Unwritten(s, q) => Unwritten(s, q)'
      BY <3>3 DEF Unwritten
    <3>5. CallFate(s, st, q)'
      BY <1>6, <1>7, <3>2, <3>3, <3>4 DEF CallFate
    <3> QED BY <3>1, <3>2, <3>5
  <2> QED BY <2>1, <2>2
<1>11. ResultFates(s)'
  <2>1. \A q, ran : Told(s, q, ran) /\ ~Told(s, q, ran)' =>
          \A n \in DOMAIN chain[s] : chain[s][n].do = "result" => chain[s][n].text # q
    BY <1>5, <1>7 DEF NoTurns
  <2> QED BY <1>1, <2>1, ResultsWait
<1>12. \A t \in Sessions : t # s => Fated(t)'
  BY <1>3, <1>6, Elsewhere
<1> QED BY <1>9, <1>10, <1>11, <1>12 DEF FateInv, Fated

LEMMA AnswerFate ==
  ASSUME TypeInv, FateInv, NEW s \in Sessions, ScanAnswered(s) \/ ScanFailed(s)
  PROVE  FateInv'
<1>1. PICK e, sess, hook, onError :
        /\ Concluded(s, e, sess, hook, onError)
        /\ session' = [session EXCEPT ![s] = Saved(sess)] /\ Leave(s)
        /\ SetCall(s, work[s].call, Moved(s, hook, onError))
  BY AnswerType
<1>2. UNCHANGED <<nextReq, lost>> /\ work[s].phase = "sent"
  BY AnswerType
<1> DEFINE c == Moved(s, hook, onError)
<1>3. /\ e \in Entries /\ e.req = work[s].req.id
      /\ HookState[hook] = "running" => e.decision \notin NotRun
      /\ HookState[hook] = "refused" => e.decision \in NotRun
      /\ sess \in SessionFiles /\ sess.history = Append(session[s].history, e)
      /\ hook \in {"run", "block", "approve"} /\ onError \in BOOLEAN
  BY <1>1 DEF Concluded
<1>4. c \in HostCalls /\ c.st = HookState[hook] /\ c.req = calls[s][work[s].call].req
  BY <1>2, <1>3, MovedType
<1> HIDE DEF c
<1>5. c.st \in {"running", "refused", "asking"}
  BY <1>3, <1>4 DEF HookState
<1>6. e.req = c.req
  BY <1>2, <1>3, <1>4, WorkFacts
<1>7. session'[s] = Saved(sess) /\ \A t \in Sessions : t # s => session'[t] = session[t]
  BY <1>1 DEF TypeInv, Shape
<1>8. ASSUME NEW k \in DOMAIN session'[s].history
      PROVE  \/ \E j \in DOMAIN session[s].history :
                  session'[s].history[k] = session[s].history[j]
             \/ session'[s].history[k] = e
  <2>1. PICK j \in DOMAIN sess.history : session'[s].history[k] = sess.history[j]
    <3>1. \A m \in DOMAIN Saved(sess).history : \E j \in DOMAIN sess.history :
            Saved(sess).history[m] = sess.history[j]
      BY <1>3, SavedFacts
    <3> QED BY <1>7, <3>1
  <2>2. session[s].history \in Seq(Entries)
    BY DEF TypeInv, Shape, SessionFiles
  <2>3. /\ DOMAIN sess.history = 1..(Len(session[s].history) + 1)
        /\ DOMAIN session[s].history = 1..Len(session[s].history)
        /\ Len(session[s].history) \in Nat
        /\ \A m \in 1..Len(session[s].history) : sess.history[m] = session[s].history[m]
        /\ sess.history[Len(session[s].history) + 1] = e
    BY <1>3, <2>2, AppendFacts
  <2> QED BY <2>1, <2>3
<1>9. \A k \in DOMAIN session'[s].history :
        \/ \E j \in DOMAIN session[s].history :
             session'[s].history[k] = session[s].history[j]
        \/ /\ session'[s].history[k].req = c.req
           /\ c.st = "running" => session'[s].history[k].decision \notin NotRun
           /\ c.st = "refused" => session'[s].history[k].decision \in NotRun
  BY <1>3, <1>4, <1>6, <1>8
<1>10. SetCall(s, work[s].call, c)
  BY <1>1 DEF c
<1> QED BY <1>1, <1>2, <1>4, <1>5, <1>7, <1>9, <1>10, ScanTurnFate

LEMMA ScanRaisedFate ==
  ASSUME TypeInv, FateInv, NEW s \in Sessions, ScanRaised(s)
  PROVE  FateInv'
<1> DEFINE c == [calls[s][work[s].call] EXCEPT !.st = "refused"]
<1>1. /\ work[s].phase = "sent" /\ Leave(s)
      /\ UNCHANGED <<session, run, full, nextReq, lost>>
  BY DEF ScanRaised, files
<1>2. chain[s][1].call = work[s].call /\ calls[s][work[s].call] \in HostCalls
  BY <1>1, WorkFacts
<1>3. SetCall(s, work[s].call, c)
  BY <1>2 DEF ScanRaised
<1>4. c \in HostCalls /\ c.st = "refused" /\ c.req = calls[s][work[s].call].req
  BY <1>2 DEF HostCalls, States
<1> HIDE DEF c
<1>5. \A k \in DOMAIN session'[s].history : \E j \in DOMAIN session[s].history :
        session'[s].history[k] = session[s].history[j]
  BY <1>1
<1> QED BY <1>1, <1>3, <1>4, <1>5, ScanTurnFate

LEMMA HostFate ==
  ASSUME TypeInv, FateInv, NEW s \in Sessions, HostStep(s)
  PROVE  FateInv'
<1>1. /\ UNCHANGED <<session, chain, nextReq, lost>>
      /\ \A t \in Sessions : t # s => calls'[t] = calls[t]
      /\ \A i \in DOMAIN calls'[s] :
           calls'[s][i].req = 0 \/ (i \in DOMAIN calls[s] /\ calls'[s][i] = calls[s][i])
  <2>1. CASE NewRun(s)
    <3>1. calls'[s] = <<>> /\ DOMAIN <<>> = {}
      BY <2>1, NewRunType
    <3>2. UNCHANGED <<session, chain, nextReq, lost>> /\ calls' = [calls EXCEPT ![s] = <<>>]
      BY <2>1 DEF NewRun, files
    <3> QED BY <3>1, <3>2 DEF TypeInv, Shape
  <2>2. CASE Remember(s)
    BY <2>2 DEF Remember, files
  <2>3. CASE MessageWrite(s)
    <3>1. \A i \in DOMAIN calls'[s] : calls'[s][i].req = 0
      BY <2>3, MessageWriteType
    <3>2. /\ UNCHANGED <<session, chain, nextReq, lost>>
          /\ \E q : calls' = [calls EXCEPT ![s] = q]
      BY <2>3 DEF MessageWrite, files
    <3> QED BY <3>1, <3>2 DEF TypeInv, Shape
  <2> QED BY <2>1, <2>2, <2>3 DEF HostStep
<1>2. nextReq' \in Nat /\ nextReq' >= nextReq
  BY <1>1, Numbers
<1>3. Fated(s)'
  BY <1>1, <1>2, QuietFate
<1>4. \A t \in Sessions : t # s => Fated(t)'
  BY <1>1, Elsewhere
<1> QED BY <1>3, <1>4 DEF FateInv

LEMMA WrapperFate ==
  ASSUME TypeInv, FateInv, NEW s \in Sessions, NEW i \in DOMAIN calls[s],
         BeforeWrapper(s, i) \/ Dispatch(s, i)
  PROVE  FateInv'
<1>1. /\ UNCHANGED <<session, chain, nextReq, lost>>
      /\ \A t \in Sessions : t # s => calls'[t] = calls[t]
      /\ \A j \in DOMAIN calls'[s] :
           calls'[s][j].req = 0 \/ (j \in DOMAIN calls[s] /\ calls'[s][j] = calls[s][j])
  <2>1. CASE BeforeWrapper(s, i)
    <3> DEFINE c == [calls[s][i] EXCEPT !.st = "running"]
    <3>1. /\ UNCHANGED <<session, chain, nextReq, lost>> /\ SetCall(s, i, c)
          /\ calls[s][i].kind = "wrapper"
      BY <2>1 DEF BeforeWrapper, files
    <3>2. calls[s][i] \in HostCalls /\ Proper(calls[s][i])
      BY DEF TypeInv, Shape, CallInv
    <3>3. c \in HostCalls /\ c.req = 0
      BY <3>1, <3>2 DEF HostCalls, States, Proper
    <3> HIDE DEF c
    <3> QED BY <3>1, <3>3, CallsElsewhere
  <2>2. CASE Dispatch(s, i)
    <3>1. UNCHANGED <<session, chain, nextReq, lost>>
      BY <2>2 DEF Dispatch, files
    <3> QED BY <2>2, <3>1, DispatchType
  <2> QED BY <2>1, <2>2
<1>2. nextReq' \in Nat /\ nextReq' >= nextReq
  BY <1>1, Numbers
<1>3. Fated(s)'
  BY <1>1, <1>2, QuietFate
<1>4. \A t \in Sessions : t # s => Fated(t)'
  BY <1>1, Elsewhere
<1> QED BY <1>3, <1>4 DEF FateInv

LEMMA CrashFate ==
  ASSUME TypeInv, FateInv, Crash
  PROVE  FateInv'
<1>1. /\ chain' = [s \in Sessions |-> <<>>] /\ calls' = [s \in Sessions |-> <<>>]
      /\ UNCHANGED <<session, nextReq, lost>>
  BY DEF Crash, files
<1> SUFFICES ASSUME NEW s \in Sessions PROVE Fated(s)'
  BY DEF FateInv
<1>2. DOMAIN chain'[s] = {} /\ DOMAIN calls'[s] = {}
  BY <1>1
<1>3. RequestsOnce(s)
  BY DEF FateInv, Fated
<1> QED BY <1>1, <1>2, <1>3 DEF Fated, RequestsOnce, CallFates, ResultFates

LEMMA StillFate ==
  ASSUME TypeInv, FateInv, UNCHANGED <<session, chain, calls, nextReq, lost>>
  PROVE  FateInv'
<1> SUFFICES ASSUME NEW s \in Sessions PROVE Fated(s)'
  BY DEF FateInv
<1>1. nextReq' \in Nat /\ nextReq' >= nextReq
  BY Numbers
<1> QED BY <1>1, QuietFate

LEMMA FateStep ==
  ASSUME TypeInv, FateInv, [Next]_vars
  PROVE  FateInv'
<1>1. ASSUME NEW s \in Sessions, HostStep(s) PROVE FateInv'
  BY <1>1, HostFate
<1>2. ASSUME NEW s \in Sessions, ScanStarts(s) PROVE FateInv'
  <2>1. UNCHANGED <<session, chain, calls, nextReq, lost>>
    BY <1>2 DEF ScanStarts, files
  <2> QED BY <2>1, StillFate
<1>3. ASSUME NEW s \in Sessions, ChainStep(s) PROVE FateInv'
  BY <1>2, <1>3, AnswerFate, ScanRaisedFate, ResolutionWrittenFate, ResolutionRaisedFate,
     ResultTurnFate DEF ChainStep, ScanEnds
<1>4. ASSUME NEW s \in Sessions, NEW i \in DOMAIN calls[s], CallStep(s, i) PROVE FateInv'
  <2>1. CASE BeforeToolCall(s, i)
    BY <2>1, BeforeToolCallFate DEF FateInv
  <2> QED BY <1>4, <2>1, WrapperFate, ResolvedFate, CallEndsFate DEF CallStep
<1>5. CASE Crash
  BY <1>5, CrashFate
<1>6. CASE \/ \E scope \in Scopes : SnoozeSet(scope) \/ SnoozeOff(scope)
           \/ Tick \/ UNCHANGED vars
  BY <1>6, OwnerTouchesNothing, StillFate DEF Untouched
<1> QED BY <1>1, <1>3, <1>4, <1>5, <1>6 DEF Next

LEMMA FateInit == Init => FateInv
<1> SUFFICES ASSUME Init, NEW s \in Sessions PROVE Fated(s)
  BY DEF FateInv
<1>1. DOMAIN chain[s] = {} /\ DOMAIN calls[s] = {} /\ DOMAIN session[s].history = {}
  BY DEF Init, EmptySession
<1> QED BY <1>1 DEF Fated, RequestsOnce, CallFates, ResultFates

-----------------------------------------------------------------------------
(* The theorems.                                                           *)

LEMMA Inductive == Spec => [](TypeInv /\ FateInv)
<1>1. Init => TypeInv /\ FateInv
  BY TypeInit, FateInit
<1>2. TypeInv /\ FateInv /\ [Next]_vars => TypeInv' /\ FateInv'
  BY TypeStep, FateStep
<1> QED BY <1>1, <1>2, PTL DEF Spec

LEMMA Outcome ==
  ASSUME TypeInv, FateInv, ScheduledBehavior = "deny"
  PROVE  DecisionMatchesOutcome
<1> SUFFICES ASSUME NEW s \in Sessions, NEW i \in DOMAIN calls[s], calls[s][i].req > 0,
                    calls[s][i].req \notin lost, ~Pending(s, calls[s][i].req),
                    NEW k \in DOMAIN session[s].history,
                    session[s].history[k].req = calls[s][i].req
             PROVE  /\ calls[s][i].st = "running" => session[s].history[k].decision \notin NotRun
                    /\ calls[s][i].st = "refused" => session[s].history[k].decision \in NotRun
  BY DEF DecisionMatchesOutcome
<1>1. CallFate(s, calls[s][i].st, calls[s][i].req)
  BY DEF FateInv, Fated, CallFates
<1> QED BY <1>1 DEF CallFate, Told, Says

(* Once the resolution of a prompt had its turn, the history says of every  *)
(* call that is running that it ran, and of every call that was refused     *)
(* that it did not, where the configuration has unattended prompts deny.    *)
THEOREM DecisionsMatch ==
  ASSUME ScheduledBehavior = "deny"
  PROVE  Spec => []DecisionMatchesOutcome
<1>1. TypeInv /\ FateInv => DecisionMatchesOutcome
  BY Outcome
<1> QED BY <1>1, Inductive, PTL

LEMMA BufferedStep ==
  ASSUME TypeInv, FateInv, ScheduledBehavior = "deny", NEW s \in Sessions, ResultTaken(s),
         NEW n \in EntriesOf(session[s], chain[s][1].host),
         session[s].history[n].req = chain[s][1].text, chain[s][1].text \notin lost,
         \A m \in EntriesOf(session[s], chain[s][1].host) : m <= n
  PROVE  session'[s].inputSeq > session[s].inputSeq <=> chain[s][1].ran
<1> DEFINE turn == chain[s][1]
           e == session[s].history[n]
<1>1. /\ HasTurn(s, "result") /\ 1 \in DOMAIN chain[s] /\ turn.do = "result"
      /\ session[s] \in SessionFiles /\ n \in Nat /\ n \in DOMAIN session[s].history
  <2>1. HasTurn(s, "result")
    BY DEF ResultTaken
  <2>2. session[s].history \in Seq(Entries) /\ n \in DOMAIN session[s].history
    BY <2>1, FirstTurn DEF EntriesOf
  <2> QED BY <2>1, <2>2, FirstTurn
<1>2. ResultFate(s, 1, turn.text, turn.ran, turn.error)
  BY <1>1 DEF FateInv, Fated, ResultFates
<1>3. ~Pending(s, turn.text)
  <2> SUFFICES ASSUME NEW m \in DOMAIN chain[s], chain[s][m].do = "resolve",
                      chain[s][m].req = turn.text
               PROVE  FALSE
    BY DEF Pending
  <2>1. m < 1
    BY <1>2 DEF ResultFate
  <2>2. chain[s] \in Seq(Turns)
    BY DEF TypeInv, Shape
  <2> QED BY <2>1, <2>2
<1>4. Says(e.decision, turn.ran)
  BY <1>1, <1>2, <1>3 DEF ResultFate, Told
<1>5. turn.ran \in BOOLEAN
  BY <1>1, Numbers
<1>6. Ran(e, turn.error) <=> turn.ran
  BY <1>2, <1>4, <1>5 DEF ResultFate, Says, Ran
<1>7. PICK m \in EntriesOf(session[s], turn.host) :
        /\ \A k \in EntriesOf(session[s], turn.host) : k <= m
        /\ session'[s].inputSeq = session[s].inputSeq +
             (IF Ran(session[s].history[m], turn.error) THEN 1 ELSE 0)
  BY ResultTakenType
<1>8. m = n
  <2>1. m <= n /\ n <= m
    BY <1>7
  <2>2. m \in Nat
    BY <1>1, FirstTurn DEF EntriesOf
  <2> QED BY <1>1, <2>1, <2>2
<1>9. session[s].inputSeq \in Nat
  BY <1>1 DEF SessionFiles
<1> QED BY <1>6, <1>7, <1>8, <1>9

(* A result joins the inputs of the next scan exactly if its call ran,      *)
(* under the same configuration: the resolution had its turn first.        *)
THEOREM BufferedIfRan ==
  ASSUME ScheduledBehavior = "deny"
  PROVE  Spec => BufferedIffRan
<1>1. TypeInv /\ FateInv /\ [Next]_vars =>
        [\A s \in Sessions : ResultTaken(s) =>
           LET turn == chain[s][1]
           IN  \A n \in EntriesOf(session[s], turn.host) :
                 /\ session[s].history[n].req = turn.text
                 /\ turn.text \notin lost
                 /\ \A m \in EntriesOf(session[s], turn.host) : m <= n
                 => (session'[s].inputSeq > session[s].inputSeq <=> turn.ran)]_vars
  BY BufferedStep
<1> QED BY <1>1, Inductive, PTL DEF Spec, BufferedIffRan

(* Only a scan that is answered or fails writes about the call at work.     *)
LEMMA NobodyElseWrites ==
  ASSUME TypeInv, FateInv, [Next]_vars, NEW s \in Sessions, work[s] # Idle
  PROVE  session'[s] = session[s] \/ ScanAnswered(s) \/ ScanFailed(s)
<1>1. session \in [Sessions -> SessionFiles]
  BY DEF TypeInv, Shape
<1>2. ASSUME NEW t \in Sessions, HostStep(t) PROVE session' = session
  BY <1>2 DEF HostStep, NewRun, Remember, MessageWrite, files
<1>3. ASSUME NEW t \in Sessions, NEW i \in DOMAIN calls[t], CallStep(t, i)
      PROVE  session' = session
  BY <1>3 DEF CallStep, BeforeToolCall, BeforeWrapper, Dispatch, Resolved, CallEnds, files
<1>4. ASSUME NEW t \in Sessions, ChainStep(t)
      PROVE  session'[s] = session[s] \/ ScanAnswered(s) \/ ScanFailed(s)
  <2>1. CASE ScanStarts(t) \/ ScanRaised(t) \/ ResolutionRaised(t) \/ ResultRaised(t)
    BY <2>1 DEF ScanStarts, ScanRaised, ResolutionRaised, ResultRaised, files
  <2>2. CASE ScanAnswered(t) \/ ScanFailed(t)
    <3>1. CASE t = s
      BY <2>2, <3>1
    <3>2. CASE t # s
      <4>1. PICK z : session' = [session EXCEPT ![t] = z]
        BY <2>2, AnswerType
      <4> QED BY <1>1, <3>2, <4>1
    <3> QED BY <3>1, <3>2
  <2>3. CASE ResolutionWritten(t)
    <3>1. t # s
      BY <2>3 DEF ResolutionWritten, HasTurn
    <3>2. PICK z : session' = [session EXCEPT ![t] = z]
      BY <2>3, ResolutionWrittenType
    <3> QED BY <1>1, <3>1, <3>2
  <2>4. CASE ResultTaken(t)
    <3>1. t # s
      BY <2>4 DEF ResultTaken, HasTurn
    <3> QED BY <2>4, <3>1, ResultTakenType
  <2> QED BY <1>4, <2>1, <2>2, <2>3, <2>4 DEF ChainStep, ScanEnds
<1>5. CASE Crash
  BY <1>5 DEF Crash, files
<1>6. CASE \/ \E scope \in Scopes : SnoozeSet(scope) \/ SnoozeOff(scope)
           \/ Tick \/ UNCHANGED vars
  BY <1>6, OwnerTouchesNothing DEF Untouched
<1> QED BY <1>2, <1>3, <1>4, <1>5, <1>6 DEF Next

LEMMA UnaskedStep ==
  ASSUME TypeInv, FateInv, [Next]_vars, NEW s \in Sessions,
         NEW k \in DOMAIN session'[s].history, work[s] # Idle,
         session'[s].history[k].req = work[s].req.id
  PROVE  Unasked(s, session'[s].history[k])
<1>1. work[s].phase = "sent"
  <2>1. work[s] \in {Idle} \cup Scans
    BY DEF TypeInv, Shape
  <2> QED BY <2>1 DEF Scans
<1>2. PICK r : r = work[s].req.id
  OBVIOUS
<1>3. Unwritten(s, r)
  <2>1. /\ work[s].call \in DOMAIN calls[s] /\ calls[s][work[s].call].st = "queued"
        /\ calls[s][work[s].call].req = r
    BY <1>1, <1>2, WorkFacts
  <2>2. r \in Nat /\ r > 0
    <3>1. Proper(calls[s][work[s].call]) /\ r \in Nat
      BY <2>1, Numbers DEF TypeInv, CallInv
    <3> QED BY <2>1, <3>1 DEF Proper
  <2> QED BY <2>1, <2>2 DEF FateInv, Fated, CallFates, CallFate
<1>4. CASE session'[s] = session[s]
  BY <1>2, <1>3, <1>4 DEF Unwritten
<1>5. CASE ScanAnswered(s) \/ ScanFailed(s)
  <2>1. PICK e, sess, hook, onError :
          /\ Concluded(s, e, sess, hook, onError)
          /\ session' = [session EXCEPT ![s] = Saved(sess)]
    BY <1>5, AnswerType
  <2>2. /\ Unasked(s, e) /\ sess \in SessionFiles /\ e \in Entries
        /\ sess.history = Append(session[s].history, e)
    BY <2>1 DEF Concluded
  <2>3. session'[s] = Saved(sess)
    BY <2>1 DEF TypeInv, Shape
  <2>4. PICK j \in DOMAIN sess.history : session'[s].history[k] = sess.history[j]
    <3>1. \A m \in DOMAIN Saved(sess).history : \E j \in DOMAIN sess.history :
            Saved(sess).history[m] = sess.history[j]
      BY <2>2, SavedFacts
    <3> QED BY <2>3, <3>1
  <2>5. session[s].history \in Seq(Entries)
    BY DEF TypeInv, Shape, SessionFiles
  <2>6. /\ DOMAIN sess.history = 1..(Len(session[s].history) + 1)
        /\ DOMAIN session[s].history = 1..Len(session[s].history)
        /\ Len(session[s].history) \in Nat
        /\ \A m \in 1..Len(session[s].history) : sess.history[m] = session[s].history[m]
        /\ sess.history[Len(session[s].history) + 1] = e
    BY <2>2, <2>5, AppendFacts
  <2>7. CASE j = Len(session[s].history) + 1
    BY <2>2, <2>4, <2>6, <2>7
  <2>8. CASE j # Len(session[s].history) + 1
    <3>1. j \in DOMAIN session[s].history /\ session'[s].history[k] = session[s].history[j]
      BY <2>4, <2>6, <2>8
    <3> QED BY <1>2, <1>3, <3>1 DEF Unwritten
  <2> QED BY <2>7, <2>8
<1> QED BY <1>4, <1>5, NobodyElseWrites

(* No review runs unasked but under a snooze that covers the session when   *)
(* the answer of its scan is used, in a run of a human's message, within    *)
(* the scanner's floor: for every configuration.                           *)
THEOREM UnaskedSnoozed == Spec => UnaskedOnlyUnderSnooze
<1>1. TypeInv /\ FateInv /\ [Next]_vars =>
        [\A s \in Sessions : \A k \in DOMAIN session'[s].history :
           LET e == session'[s].history[k]
           IN  /\ work[s] # Idle /\ e.req = work[s].req.id /\ e.snoozed # "no"
               => /\ work[s].req.kind = "message" /\ e.snoozed = "allow"
                  /\ \E n \in DOMAIN snoozes :
                       snoozes[n].until > now /\ snoozes[n].scope \in {s, Everywhere}]_vars
  BY UnaskedStep DEF Unasked
<1> QED BY <1>1, Inductive, PTL DEF Spec, UnaskedOnlyUnderSnooze

=============================================================================
