--------------------------- MODULE OpenClawPlugin ---------------------------
(***************************************************************************)
(* The OpenClaw plugin's scan protocol (integrations/openclaw/plugin):      *)
(* the hooks of index.ts, buildPlanir of planir.ts, the session files and   *)
(* the promise chain of store.ts, and the owner's snooze of snooze.ts.      *)
(*                                                                         *)
(* The hooks are async callbacks of one thread.  What a hook does between   *)
(* two awaits is one action; what it does under withSession waits for its   *)
(* turn in the chain of its session, first come, first served, and the scan *)
(* keeps its turn over the HTTP request.                                    *)
(***************************************************************************)
EXTENDS Naturals, Sequences, StateToken, PlanirCheck, OpenClawPolicy

CONSTANTS HostIds,       \* toolCallIds of the host
          Risks,         \* risks the scanner can answer with
          Contexts,      \* run contexts of a run
          Durations,     \* how long a snooze can be
          IdReuse,       \* how often a host id may occur in one run
          HistoryLimit,  \* historyLimit of the configuration
          SeenKeep,      \* saveSession keeps 2000 seen call ids and runs
          FullKeep,      \* fullResults keeps 500 results
          SnoozeKeep,    \* snooze.json keeps 200 entries
          MaxRuns, MaxBatch, MaxCalls, MaxTime, MaxInputs \* bounds of a run

ASSUME HostAssumption ==
  /\ None \notin HostIds /\ Risks \subseteq Nat /\ Durations \subseteq Nat
  /\ Contexts \subseteq RunContexts
  /\ IdReuse \in Nat /\ MaxRuns \in Nat /\ MaxBatch \in Nat
  /\ MaxCalls \in Nat /\ MaxTime \in Nat /\ MaxInputs \in Nat

ASSUME LimitAssumption ==
  /\ HistoryLimit \in Nat \ {0} /\ FullKeep \in Nat \ {0} /\ SnoozeKeep \in Nat \ {0}
  /\ SeenKeep \in Nat /\ SeenKeep >= 2 * HistoryLimit

VARIABLES
  session,  \* the session files: what store.ts persists of each session
  run,      \* the current run of each session and what runs/<id>.json holds of it
  chain,    \* the callbacks waiting for their turn in each session
  work,     \* the scan at work in each session, or Idle
  calls,    \* the host's tool calls of each session's current message
  used,     \* how often each host id occurred in the current run
  full,     \* fullResults: whole results by host id, oldest first
  snoozes,  \* snooze.json, oldest first
  now,      \* the clock
  given,    \* how many commands the owner has given
  nextReq,  \* the next request_id
  lost      \* requests whose resolution could not be written

vars == <<session, run, chain, work, calls, used, full, snoozes, now, given,
          nextReq, lost>>

files == <<session, snoozes>>

-----------------------------------------------------------------------------
(* Data.                                                                   *)

Newest(q, n) ==
  LET drop == IF Len(q) > n THEN Len(q) - n ELSE 0
  IN  [i \in 1..(Len(q) - drop) |-> q[i + drop]]

(* A call that a tool_call wrapper dispatches has an id made of the         *)
(* wrapper's.                                                              *)
Ids == HostIds \cup [via : HostIds]

CallIds == [run : Nat, id : Ids \cup {None}, step : Nat]

Entries == [step : Nat, turn : Nat, call : CallIds, host : Ids \cup {None},
            scanned : BOOLEAN, snoozed : {"no"} \cup Verdicts,
            decision : Decisions, req : Nat]

(* `snoozed` is in the traffic record of the entry: whether a snooze let the *)
(* call run unasked, and past which floor.                                  *)
(* A buffered result: its text is named by the request of the call that     *)
(* returned it, 0 for a call that was not scanned.                         *)
Inputs == [seq : Nat, call : CallIds, text : Nat]

Learnable(inputs) == {it.text : it \in inputs} \cap Facts

SessionFiles == [next : Nat, inputSeq : Nat, token : Tokens, runs : Seq(Nat),
                 seen : Seq(Ids), history : Seq(Entries), buffer : SUBSET Inputs]

EmptySession == [next |-> 1, inputSeq |-> 0, token |-> NoToken, runs |-> <<>>,
                 seen |-> <<>>, history |-> <<>>, buffer |-> {}]

Requests == [id : Nat, step : Nat, turn : Nat, token : Tokens, kind : TriggerKinds,
             pending : CallIds, host : Ids \cup {None}, siblings : SUBSET CallIds,
             history : Seq(Entries), inputs : SUBSET Inputs]

Runs == [id : Nat, is : RunContexts, known : RunContexts]

Idle == [phase |-> "idle"]
Scans == [phase : {"sent"}, call : Nat \ {0}, sess : SessionFiles, req : Requests]

(* What can wait in a chain: a scan, a result to buffer, a resolution.      *)
ScanTurns == [do : {"scan"}, call : Nat \ {0}]
ResultTurns == [do : {"result"}, host : Ids, text : Nat, error : BOOLEAN, ran : BOOLEAN]
ResolutionTurns == [do : {"resolve"}, req : Nat, final : Decisions]
Turns == ScanTurns \cup ResultTurns \cup ResolutionTurns

(* A tool call: named by the model's message, or dispatched by a wrapper.   *)
CallKinds == {"plain", "wrapper", "dispatched"}
States == {"new", "queued", "asking", "running", "refused", "done"}
HostCalls == [host : Ids \cup {None}, kind : CallKinds, st : States, req : Nat,
              onError : BOOLEAN, onTimeout : {"allow", "deny"}]

NewCall(host, kind) ==
  [host |-> host, kind |-> kind, st |-> "new", req |-> 0,
   onError |-> FALSE, onTimeout |-> "deny"]

Everywhere == [all |-> TRUE]
Scopes == Sessions \cup {Everywhere}
Snoozes == [scope : Scopes, until : Nat]

FullResults == [host : Ids, text : Nat]

-----------------------------------------------------------------------------
Init ==
  /\ session = [s \in Sessions |-> EmptySession]
  /\ run = [s \in Sessions |-> [id |-> 0, is |-> NoContext, known |-> NoContext]]
  /\ chain = [s \in Sessions |-> <<>>]
  /\ work = [s \in Sessions |-> Idle]
  /\ calls = [s \in Sessions |-> <<>>]
  /\ used = [s \in Sessions |-> [h \in HostIds |-> 0]]
  /\ full = <<>>
  /\ snoozes = <<>>
  /\ now = 0 /\ given = 0
  /\ nextReq = 1
  /\ lost = {}

SigningKey == 1

(* saveSession trims the history, the seen ids and the runs.                *)
Saved(sess) ==
  [sess EXCEPT !.history = Newest(@, 2 * HistoryLimit), !.seen = Newest(@, SeenKeep),
               !.runs = Newest(@, SeenKeep)]

InSeq(x, q) == \E i \in DOMAIN q : q[i] = x

SetCall(s, i, c) == calls' = [calls EXCEPT ![s] = [@ EXCEPT ![i] = c]]

(* withSession: a turn at the end of the chain, and the end of the first.   *)
(* Mutant: the newest callback goes first.                                  *)
JoinFirst(s, turn) == chain' = [chain EXCEPT ![s] = <<turn>> \o @]

Join(s, turn) == chain' = [chain EXCEPT ![s] = Append(@, turn)]

Leave(s) == chain' = [chain EXCEPT ![s] = Tail(@)]

(* The first callback of a chain runs while no scan is at work.             *)
HasTurn(s, do) == work[s] = Idle /\ chain[s] # <<>> /\ chain[s][1].do = do

-----------------------------------------------------------------------------
(* The host: runs, messages, dispatched calls.                             *)

Over(s) == \A i \in DOMAIN calls[s] : calls[s][i].st \in {"refused", "done"}

(* MaxInputs bounds a run; a request counts for two of the owner's commands. *)
MoreRequests == 2 * nextReq + given <= MaxInputs
MoreCommands == 2 * nextReq + given <= MaxInputs + 1

NewRun(s) ==
  /\ run[s].id < MaxRuns /\ MoreRequests
  /\ Over(s)
  /\ \E is \in Contexts :
       run' = [run EXCEPT ![s] = [id |-> @.id + 1, is |-> is, known |-> NoContext]]
  /\ calls' = [calls EXCEPT ![s] = <<>>]
  /\ used' = [used EXCEPT ![s] = [h \in HostIds |-> 0]]
  /\ UNCHANGED <<files, chain, work, full, now, given, nextReq, lost>>

(* The context hooks: each joins what it was told of the run to the file,   *)
(* and what it was not told leaves the file as it was.                      *)
Remember(s) ==
  /\ run[s].id > 0 /\ run[s].known # run[s].is
  /\ \E trigger \in {run[s].known.trigger, run[s].is.trigger},
        subagent \in {run[s].known.subagent, run[s].is.subagent},
        builtin \in {run[s].known.builtin, run[s].is.builtin} :
       run' = [run EXCEPT ![s].known =
                 [trigger |-> trigger, subagent |-> subagent, builtin |-> builtin]]
  /\ UNCHANGED <<files, chain, work, calls, used, full, now, given, nextReq, lost>>

(* before_message_write: the assistant's message with its tool calls.       *)
MessageWrite(s) ==
  /\ run[s].id > 0 /\ MoreRequests
  /\ Over(s)
  /\ \E n \in 1..MaxBatch :
       \E host \in [1..n -> HostIds \cup {None}], kind \in [1..n -> {"plain", "wrapper"}] :
         /\ \A i, j \in 1..n : i # j /\ host[i] = host[j] => host[i] = None
         /\ \A i \in 1..n : host[i] # None => used[s][host[i]] < IdReuse
         /\ \A i \in 1..n : kind[i] = "wrapper" => host[i] # None
         /\ calls' = [calls EXCEPT ![s] = [i \in 1..n |-> NewCall(host[i], kind[i])]]
         /\ used' = [used EXCEPT ![s] =
              [h \in HostIds |-> IF \E i \in 1..n : host[i] = h THEN @[h] + 1 ELSE @[h]]]
  /\ UNCHANGED <<files, run, chain, work, full, now, given, nextReq, lost>>

(* A wrapper at work runs the tool it names, which fires hooks of its own.  *)
Dispatch(s, i) ==
  LET c == calls[s][i]
  IN  /\ c.kind = "wrapper" /\ c.st = "running"
      /\ Len(calls[s]) < MaxCalls
      /\ \A j \in DOMAIN calls[s] : calls[s][j].host # [via |-> c.host]
      /\ calls' = [calls EXCEPT ![s] = Append(@, NewCall([via |-> c.host], "dispatched"))]
      /\ UNCHANGED <<files, run, chain, work, used, full, now, given, nextReq, lost>>

-----------------------------------------------------------------------------
(* before_tool_call, and buildPlanir when its turn has come.               *)

BeforeToolCall(s, i) ==
  LET c == calls[s][i]
  IN  /\ c.st = "new" /\ c.kind # "wrapper"
      /\ MoreRequests
      /\ nextReq' = nextReq + 1
      /\ SetCall(s, i, [c EXCEPT !.st = "queued", !.req = nextReq])
      /\ Join(s, [do |-> "scan", call |-> i])
      /\ UNCHANGED <<files, run, work, used, full, now, given, lost>>

(* UNSCANNED_TOOLS: a wrapper runs as it is.                               *)
BeforeWrapper(s, i) ==
  LET c == calls[s][i]
  IN  /\ c.st = "new" /\ c.kind = "wrapper"
      /\ SetCall(s, i, [c EXCEPT !.st = "running"])
      /\ UNCHANGED <<files, run, chain, work, used, full, now, given, nextReq, lost>>

CallIdFor(sess, r, host) ==
  CASE host = None -> [run |-> r, id |-> None, step |-> sess.next]
    [] host # None /\ InSeq(host, sess.seen) -> [run |-> r, id |-> host, step |-> 0]
    [] OTHER -> [run |-> 0, id |-> host, step |-> 0]

(* The message is the batch of a call that is in it, by its id or through   *)
(* its wrapper; the wrapper is not a sibling of the call it dispatched.     *)
SiblingIds(batch, host) ==
  LET named   == {i \in DOMAIN batch : batch[i].kind # "dispatched"}
      wrapper == {i \in named : batch[i].kind = "wrapper" /\ host = [via |-> batch[i].host]}
      inBatch == wrapper # {} \/ \E i \in named : batch[i].host = host
  IN  IF ~inBatch THEN {}
      ELSE {[run |-> 0, id |-> batch[i].host, step |-> 0] :
              i \in {j \in named \ wrapper : batch[j].host \notin {None, host}}}

(* The inputs a request carries: those of calls in the history window.      *)
SentInputs(sess) ==
  LET window == Newest(sess.history, HistoryLimit)
  IN  {it \in sess.buffer : \E i \in DOMAIN window : window[i].call = it.call}

InRun(sess, r) == [sess EXCEPT !.runs = IF InSeq(r, @) THEN @ ELSE Append(@, r)]

Numbered(sess, r, host) ==
  [InRun(sess, r) EXCEPT !.next = @ + 1,
                         !.seen = IF host = None THEN @ ELSE Append(@, host)]

Request(sess, r, batch, c) ==
  [id |-> c.req, step |-> sess.next, turn |-> Len(InRun(sess, r.id).runs),
   token |-> sess.token, kind |-> TriggerKind(r.known),
   pending |-> CallIdFor(sess, r.id, c.host), host |-> c.host,
   siblings |-> SiblingIds(batch, c.host),
   history |-> Newest(sess.history, HistoryLimit), inputs |-> SentInputs(sess)]

ScanStarts(s) ==
  LET i == chain[s][1].call
      c == calls[s][i]
  IN  /\ HasTurn(s, "scan")
      /\ c.st = "queued"
      /\ work' = [work EXCEPT ![s] =
           [phase |-> "sent", call |-> i, sess |-> Numbered(session[s], run[s].id, c.host),
            req |-> Request(session[s], run[s], calls[s], c)]]
      /\ UNCHANGED <<files, run, chain, calls, used, full, now, given, nextReq, lost>>

-----------------------------------------------------------------------------
(* The answer of the scan: from here to the return of the hook nothing      *)
(* else runs.                                                              *)

(* snooze.active: an entry that names the session or all of them, and ends  *)
(* later.                                                                  *)
(* Mutant: an entry counts past its end.                                    *)
LiveForever(z) == z.until >= 0

Live(z) == z.until > now

Covers(z, s) == z.scope \in {s, Everywhere}

Snoozed(s) == \E n \in DOMAIN snoozes : Live(snoozes[n]) /\ Covers(snoozes[n], s)

Entry(req, scanned, snoozed, decision) ==
  [step |-> req.step, turn |-> req.turn, call |-> req.pending, host |-> req.host,
   scanned |-> scanned, snoozed |-> snoozed, decision |-> decision, req |-> req.id]

HookState == [run |-> "running", block |-> "refused", approve |-> "asking"]

(* The session is saved, the turn over, and the host gets its directive:    *)
(* a prompt about a scan error never allows by its timeout.                 *)
Conclude(s, sess, hook, onError) ==
  LET i == work[s].call
  IN  /\ session' = [session EXCEPT ![s] = Saved(sess)]
      /\ SetCall(s, i, [calls[s][i] EXCEPT !.st = HookState[hook], !.onError = onError,
           !.onTimeout = IF onError THEN "deny" ELSE TimeoutBehavior(work[s].req.kind)])
      /\ work' = [work EXCEPT ![s] = Idle]
      /\ Leave(s)

(* The scanner's side: the state of the token, what it finds in the inputs  *)
(* it has not seen, and the next token.                                    *)
ScannerState(s) ==
  LET req == work[s].req
  IN  DecodeState(req.token, s, SigningKey, req.step - 1, req.id)

NewInputs(s) == {it \in work[s].req.inputs : it.seq > ScannerState(s).seq}

IsMaxSeq(top, req, state) ==
  top >= state.seq /\ \A it \in req.inputs : top >= it.seq

NextToken(s, top, learned) ==
  EncodeState([ScannerState(s) EXCEPT !.seq = top, !.known = @ \cup learned],
              s, SigningKey, work[s].req.step)

ScanAnswered(s) ==
  LET req == work[s].req
  IN  /\ work[s].phase = "sent"
      /\ WellFormed(req)
      /\ \E top \in {it.seq : it \in req.inputs} \cup {ScannerState(s).seq},
            learned \in SUBSET Learnable(NewInputs(s)), risk \in Risks, enforced \in Verdicts :
           LET verdict == Decide(risk, enforced)
               snoozed == Snoozable(req.kind, enforced) /\ Snoozed(s)
               hook    == Hook(verdict, snoozed)
               relief  == IF hook = "run" /\ Hook(verdict, FALSE) # "run" THEN enforced ELSE "no"
           IN  /\ IsMaxSeq(top, req, ScannerState(s))
               /\ Conclude(s,
                    [work[s].sess EXCEPT
                       !.token = NextToken(s, top, learned), !.buffer = {},
                       !.history = Append(@, Entry(req, TRUE, relief, ScannedDecision[hook]))],
                    hook, FALSE)
      /\ UNCHANGED <<run, used, full, snoozes, now, given, nextReq, lost>>

ScanFailed(s) ==
  LET req == work[s].req
  IN  /\ work[s].phase = "sent"
      /\ \E failure \in FailureKinds :
           LET hook == ErrorHook(failure, req.kind)
           IN  Conclude(s,
                 [work[s].sess EXCEPT
                    !.history = Append(@, Entry(req, FALSE, "no", ErrorDecision[hook]))],
                 hook, TRUE)
      /\ UNCHANGED <<run, used, full, snoozes, now, given, nextReq, lost>>

(* Mutant: an exception does not end the turn.                              *)
ScanRaisedHolding(s) ==
  LET i == chain[s][1].call
  IN  /\ work[s].phase = "sent"
      /\ SetCall(s, i, [calls[s][i] EXCEPT !.st = "refused"])
      /\ work' = [work EXCEPT ![s] = Idle]
      /\ UNCHANGED <<files, run, chain, used, full, now, given, nextReq, lost>>

(* An exception before or after the request: the call is blocked, the file  *)
(* keeps what it had.                                                      *)
ScanRaised(s) ==
  LET i == chain[s][1].call
  IN  /\ work[s].phase = "sent"
      /\ SetCall(s, i, [calls[s][i] EXCEPT !.st = "refused"])
      /\ work' = [work EXCEPT ![s] = Idle]
      /\ Leave(s)
      /\ UNCHANGED <<files, run, used, full, now, given, nextReq, lost>>

-----------------------------------------------------------------------------
(* onResolution: the prompt ends, the host goes on, and the decision waits  *)
(* for its turn.                                                           *)

(* What the host does: a prompt that times out does as it was told to.      *)
RunsOn(c, resolution) ==
  Approved(resolution) \/ (resolution = "timeout" /\ c.onTimeout = "allow")

Resolved(s, i) ==
  LET c == calls[s][i]
  IN  /\ c.st = "asking"
      /\ \E resolution \in Resolutions :
           /\ SetCall(s, i, [c EXCEPT !.st =
                IF RunsOn(c, resolution) THEN "running" ELSE "refused"])
           /\ Join(s, [do |-> "resolve", req |-> c.req, final |-> Final(c.onError, resolution)])
      /\ UNCHANGED <<files, run, work, used, full, now, given, nextReq, lost>>

WithDecision(history, req, final) ==
  [i \in DOMAIN history |->
     IF history[i].req = req THEN [history[i] EXCEPT !.decision = final] ELSE history[i]]

ResolutionWritten(s) ==
  /\ HasTurn(s, "resolve")
  /\ session' = [session EXCEPT ![s] = Saved([session[s] EXCEPT
       !.history = WithDecision(@, chain[s][1].req, chain[s][1].final)])]
  /\ Leave(s)
  /\ UNCHANGED <<run, work, calls, used, full, snoozes, now, given, nextReq, lost>>

ResolutionRaised(s) ==
  /\ HasTurn(s, "resolve")
  /\ lost' = lost \cup {chain[s][1].req}
  /\ Leave(s)
  /\ UNCHANGED <<files, run, work, calls, used, full, now, given, nextReq>>

-----------------------------------------------------------------------------
(* The call ends: the result middleware sees its whole result, then         *)
(* after_tool_call waits for its turn.                                     *)

HeldUnder(host) == {n \in DOMAIN full : full[n].host = host}

(* A Map keeps the place of a key that is set again; past FullKeep the      *)
(* oldest goes.                                                            *)
Kept(host, text) ==
  IF HeldUnder(host) # {}
  THEN [n \in DOMAIN full |-> IF full[n].host = host THEN [host |-> host, text |-> text]
                              ELSE full[n]]
  ELSE Newest(Append(full, [host |-> host, text |-> text]), FullKeep)

WithoutHost(host) ==
  IF HeldUnder(host) = {} THEN full
  ELSE LET n == CHOOSE n \in HeldUnder(host) : TRUE
       IN  [m \in 1..(Len(full) - 1) |-> full[IF m < n THEN m ELSE m + 1]]

(* What after_tool_call returns early for.                                  *)
Buffers(c) == c.host # None /\ c.kind # "wrapper"

(* A call that ran returned a result or an error, one that was refused an   *)
(* error; only a result passes the middleware.  A wrapper ends after the    *)
(* call it dispatched.                                                     *)
CallEnds(s, i) ==
  LET c == calls[s][i]
  IN  /\ c.st \in {"running", "refused"}
      /\ c.kind = "wrapper" => \A j \in DOMAIN calls[s] :
           calls[s][j].host = [via |-> c.host] => calls[s][j].st = "done"
      /\ \E error \in BOOLEAN :
           /\ c.st = "refused" => error
           /\ full' = IF error \/ c.host = None THEN full ELSE Kept(c.host, c.req)
           /\ IF ~Buffers(c) THEN UNCHANGED chain
              ELSE Join(s, [do |-> "result", host |-> c.host, text |-> c.req,
                            error |-> error, ran |-> c.st = "running"])
      /\ SetCall(s, i, [c EXCEPT !.st = "done"])
      /\ UNCHANGED <<files, run, work, used, now, given, nextReq, lost>>

EntriesOf(sess, host) == {n \in DOMAIN sess.history : sess.history[n].host = host}

Ran(entry, error) == ~(entry.decision \in NotRun /\ error)

TextOf(turn) ==
  IF HeldUnder(turn.host) = {} THEN turn.text
  ELSE full[CHOOSE n \in HeldUnder(turn.host) : TRUE].text

Buffered(sess, n, turn) ==
  IF ~Ran(sess.history[n], turn.error) THEN sess
  ELSE [sess EXCEPT !.inputSeq = @ + 1,
          !.buffer = @ \cup {[seq |-> sess.inputSeq + 1, call |-> sess.history[n].call,
                              text |-> TextOf(turn)]}]

ResultTaken(s) ==
  LET turn   == chain[s][1]
      joined == EntriesOf(session[s], turn.host)
  IN  /\ HasTurn(s, "result")
      /\ \/ joined = {} /\ UNCHANGED <<session, full>>
         \/ \E n \in joined :
              /\ \A m \in joined : m <= n
              /\ session' = [session EXCEPT ![s] = Saved(Buffered(@, n, turn))]
              /\ full' = WithoutHost(turn.host)
      /\ Leave(s)
      /\ UNCHANGED <<run, work, calls, used, snoozes, now, given, nextReq, lost>>

(* An exception before the text is taken, or on the write: it is gone.      *)
ResultRaised(s) ==
  /\ HasTurn(s, "result")
  /\ full' \in {full, WithoutHost(chain[s][1].host)}
  /\ Leave(s)
  /\ UNCHANGED <<files, run, work, calls, used, now, given, nextReq, lost>>

-----------------------------------------------------------------------------
(* The owner's snooze: read, changed and written without an await.          *)

KeptLive == SelectSeq(snoozes, Live)

SnoozeSet(scope) ==
  /\ MoreCommands /\ given' = given + 1
  /\ \E d \in Durations :
       snoozes' = Newest(Append(SelectSeq(KeptLive, LAMBDA z : z.scope # scope),
                                [scope |-> scope, until |-> now + d]), SnoozeKeep)
  /\ UNCHANGED <<session, run, chain, work, calls, used, full, now, nextReq, lost>>

Ended(z, scope) == scope = Everywhere \/ z.scope \in {scope, Everywhere}

SnoozeOff(scope) ==
  /\ MoreCommands /\ given' = given + 1
  /\ \E n \in DOMAIN KeptLive : Ended(KeptLive[n], scope)
  /\ snoozes' = SelectSeq(KeptLive, LAMBDA z : ~Ended(z, scope))
  /\ UNCHANGED <<session, run, chain, work, calls, used, full, now, nextReq, lost>>

(* Nothing but a snooze looks at the clock.                                 *)
Tick ==
  /\ now < MaxTime /\ snoozes # <<>>
  /\ now' = now + 1
  /\ UNCHANGED <<files, run, chain, work, calls, used, full, given, nextReq, lost>>

(* The gateway restarts: files stay, callbacks, results and calls do not.   *)
Crash ==
  /\ chain' = [s \in Sessions |-> <<>>]
  /\ work' = [s \in Sessions |-> Idle]
  /\ calls' = [s \in Sessions |-> <<>>]
  /\ full' = <<>>
  /\ UNCHANGED <<files, run, used, now, given, nextReq, lost>>

HostStep(s) == NewRun(s) \/ Remember(s) \/ MessageWrite(s)

CallStep(s, i) ==
  BeforeToolCall(s, i) \/ BeforeWrapper(s, i) \/ Dispatch(s, i) \/ Resolved(s, i) \/ CallEnds(s, i)

ScanEnds(s) == ScanAnswered(s) \/ ScanFailed(s) \/ ScanRaised(s)

ChainStep(s) ==
  \/ ScanStarts(s) \/ ScanEnds(s)
  \/ ResolutionWritten(s) \/ ResolutionRaised(s)
  \/ ResultTaken(s) \/ ResultRaised(s)

Next ==
  \/ \E s \in Sessions : HostStep(s) \/ ChainStep(s) \/ \E i \in DOMAIN calls[s] : CallStep(s, i)
  \/ \E scope \in Scopes : SnoozeSet(scope) \/ SnoozeOff(scope)
  \/ Tick \/ Crash

Spec == Init /\ [][Next]_vars

(* postScan ends by its timeout, and the event loop gets to every callback. *)
FairSpec == Spec /\ \A s \in Sessions : WF_vars(ChainStep(s))

-----------------------------------------------------------------------------
TypeOK ==
  /\ session \in [Sessions -> SessionFiles]
  /\ run \in [Sessions -> Runs]
  /\ chain \in [Sessions -> Seq(Turns)]
  /\ work \in [Sessions -> {Idle} \cup Scans]
  /\ calls \in [Sessions -> Seq(HostCalls)]
  /\ used \in [Sessions -> [HostIds -> Nat]]
  /\ full \in Seq(FullResults)
  /\ snoozes \in Seq(Snoozes)
  /\ now \in Nat /\ given \in Nat
  /\ nextReq \in Nat \ {0}
  /\ lost \subseteq Nat

Pending(s, req) ==
  \E n \in DOMAIN chain[s] : chain[s][n].do = "resolve" /\ chain[s][n].req = req

(* NOT_RUN, "History decisions after which the tool did not run": once the  *)
(* resolution of a prompt had its turn, the entry of a call that is running *)
(* has a decision that lets it run, and one of a call that was refused has  *)
(* one that does not.                                                      *)
DecisionMatchesOutcome ==
  \A s \in Sessions : \A i \in DOMAIN calls[s] :
    LET c == calls[s][i]
    IN  c.req > 0 /\ c.req \notin lost /\ ~Pending(s, c.req) =>
          \A k \in DOMAIN session[s].history :
            LET e == session[s].history[k]
            IN  e.req = c.req =>
                  /\ c.st = "running" => e.decision \notin NotRun
                  /\ c.st = "refused" => e.decision \in NotRun

(* A result is buffered exactly if its call ran: the chain has written the  *)
(* resolution of the call's prompt before the result has its turn, however  *)
(* the host interleaves the two hooks.                                     *)
BufferedIffRan ==
  [][\A s \in Sessions : ResultTaken(s) =>
       LET turn == chain[s][1]
       IN  \A n \in EntriesOf(session[s], turn.host) :
             /\ session[s].history[n].req = turn.text
             /\ turn.text \notin lost
             /\ \A m \in EntriesOf(session[s], turn.host) : m <= n
             => (session'[s].inputSeq > session[s].inputSeq <=> turn.ran)]_vars

(* A review that the plugin's own lines ask for runs unasked only if a      *)
(* snooze covers the session at the moment the answer of the scan is used,  *)
(* whatever was on while the request was out, and never in a run that no    *)
(* human message started or against the scanner's floor.                   *)
UnaskedOnlyUnderSnooze ==
  [][\A s \in Sessions : \A k \in DOMAIN session'[s].history :
       LET e == session'[s].history[k]
       IN  /\ work[s] # Idle /\ e.req = work[s].req.id /\ e.snoozed # "no"
           => /\ work[s].req.kind = "message" /\ e.snoozed = "allow"
              /\ \E n \in DOMAIN snoozes :
                   snoozes[n].until > now /\ snoozes[n].scope \in {s, Everywhere}]_vars

Waits(s, i) == i \in DOMAIN calls[s] /\ calls[s][i].st = "queued"

(* No hook waits for ever: every call that waits for its scan gets it, also *)
(* behind scans, results and resolutions that fail.                        *)
HooksComplete ==
  \A s \in Sessions : \A i \in 1..MaxCalls : Waits(s, i) ~> ~Waits(s, i)

=============================================================================
