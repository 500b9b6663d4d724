---------------------------- MODULE AgentSession ----------------------------
(***************************************************************************)
(* A session of tool calls as the context probe sees it: each request      *)
(* carries the last Window entries of the plugin's history, with the       *)
(* decisions, tiers and fingerprints echoed in them, and the token that    *)
(* the last answered scan returned.  Answers to reviews arrive late, scans *)
(* fail, and the token may be lost; the rules of ContextRules are applied  *)
(* to every call that may come next.                                       *)
(***************************************************************************)
EXTENDS ContextRules

CONSTANTS
  Library,    \* the calls of the session
  NextCalls,  \* the calls the properties look at as the next one
  Texts,      \* what a result may name: [thing, live, instructs]
  Window,     \* history entries a request carries, history_limit
  MaxSteps, MaxResets  \* bounds of the runs

ASSUME SessionAssumption ==
  /\ Library \subseteq NextCalls /\ NextCalls \subseteq Calls /\ Window \in Nat \ {0}
  /\ MaxSteps \in Nat
  /\ Texts \subseteq [thing : Things, live : BOOLEAN, instructs : BOOLEAN]

VARIABLES
  history,    \* every entry so far, oldest first
  read,       \* what the buffered inputs name, with the step of each
  token,      \* salt, flags and untrusted set of the last answered scan
  resets,     \* tokens lost so far
  disk,       \* ghost: what the calls that ran left in each file
  learned     \* ghost: what an answered scan was sent that the agent had not used

vars == <<history, read, token, resets, disk, learned>>

Step == Len(history)

Entries ==
  [call : Library, step : Nat, decision : Decisions, tier : (0..Scale) \cup {None},
   salt : Nat \cup {None}, shown : BOOLEAN]

Fresh(salt) == [salt |-> salt, escalating |-> FALSE, tainted |-> FALSE, untrusted |-> {}]

(* What the session wrote to a file, the last call that did (0: none), and   *)
(* whether the calls that did ran in the order in which they were asked for. *)
NotWritten == [content |-> {}, by |-> 0, ordered |-> TRUE]

Init ==
  /\ history = <<>> /\ read = {} /\ token = Fresh(0) /\ resets = 0
  /\ disk = [p \in Paths |-> NotWritten] /\ learned = {}

-----------------------------------------------------------------------------
(* What prepare makes of a request with this call.                          *)

Carried == SubSeq(history, IF Len(history) > Window THEN Len(history) - Window + 1 ELSE 1,
                  Len(history))

(* The inputs in a request are those whose call it carries.                 *)
SentInputs == {r \in read : r.step >= Len(history) - Window}

Situation(call) ==
  LET run == Executed(call, Carried)
      entities == InCall(call) \cup (IF run = None THEN {} ELSE run.content \cap Things)
      untrusted == token.untrusted \cup FromInputs(Carried, SentInputs)
      sanctioned == Sanctioned(call, entities, untrusted)
  IN  [run |-> run, entities |-> entities, untrusted |-> untrusted,
       sanctioned |-> sanctioned, read |-> {r.thing : r \in SentInputs},
       lookalikes |-> Lookalikes(call, entities, sanctioned),
       created |-> CreatedPaths(Carried), tainted |-> token.tainted,
       sent |-> Sent(call, Carried), movedIn |-> MovedIn(call, Carried),
       listings |-> Listings(call, Carried),
       live |-> {r.thing : r \in {q \in SentInputs : q.live}}]

Escalating == token.escalating \/ Rising(Carried)

(* The claims of the context probe, and those of the other probes on what   *)
(* the call does by itself.                                                 *)
ContextClaims(call) ==
  LET s == Situation(call)
  IN  OriginClaims(call, s) \cup LineageClaims(call, s)
        \cup RetryClaims(call, Carried, token.salt, Step)
        \cup EscalationClaims(call, Carried, Escalating)

OwnClaims(call) ==
  {Claim("aira", x, call.harm, AnySubject) : x \in {"sensitivity", "reach", "irreversibility"}}

Tier(call) == Consequence(ContextClaims(call) \cup OwnClaims(call))

-----------------------------------------------------------------------------
(* The files after a call that ran.                                         *)
OnDisk(call, i) ==
  IF call.path = None \/ call.kind \notin WriteKinds THEN disk
  ELSE [disk EXCEPT ![call.path] =
          [content |-> IF call.kind = "file_edit" THEN @.content \cup call.content
                       ELSE call.content,
           by |-> i, ordered |-> @.ordered /\ @.by < i]]

Ran(decision) == decision \notin NotRun

(* What the scanner has been shown that the agent had not used when it read *)
(* it, with the inputs of the next request.                                 *)
Learned ==
  learned \cup {r.thing : r \in {q \in SentInputs :
    \A i \in 1..q.step + 1 : q.thing \notin InCall(history[i].call)}}

Entry(call, decision, tier, salt) ==
  [call |-> call, step |-> Step, decision |-> decision, tier |-> tier, salt |-> salt,
   shown |-> ~call.cut]

(* A scan that is answered; a review is a denial until it is answered.      *)
Scan(call, decision) ==
  /\ Step < MaxSteps
  /\ decision \in {"allowed", "blocked", "review_timed_out"}
  /\ history' = Append(history, Entry(call, decision, Tier(call), token.salt))
  /\ token' = [token EXCEPT !.escalating = Escalating,
                            !.tainted = @ \/ \E r \in SentInputs : r.instructs,
                            !.untrusted = @ \cup FromInputs(Carried, SentInputs)]
  /\ read' = {}
  /\ disk' = IF Ran(decision) THEN OnDisk(call, Step + 1) ELSE disk
  /\ learned' = Learned
  /\ UNCHANGED resets

(* The next request gets a fresh state, with a salt of its own.             *)
Forget ==
  /\ resets' = resets + 1
  /\ token' = Fresh(resets + 1)
  /\ learned' = {}

(* A scan that fails: the inputs stay buffered and nothing is echoed, but   *)
(* the step is spent, and the token will not fit the next request.          *)
ScanFails(call, decision) ==
  /\ Step < MaxSteps
  /\ decision \in {"allowed_on_error", "blocked_on_error"}
  /\ history' = Append(history, Entry(call, decision, None, None))
  /\ disk' = IF Ran(decision) THEN OnDisk(call, Step + 1) ELSE disk
  /\ Forget
  /\ UNCHANGED read

(* The owner answers a review, maybe several calls later.                   *)
Answer(i, decision) ==
  /\ history[i].decision = "review_timed_out"
  /\ decision \in {"approved_by_user", "denied_by_user"}
  /\ history' = [history EXCEPT ![i].decision = decision]
  /\ disk' = IF Ran(decision) THEN OnDisk(history[i].call, i) ELSE disk
  /\ UNCHANGED <<read, token, resets, learned>>

(* The result of the last call, which ran, names something.                 *)
Result(text) ==
  /\ history # <<>> /\ Ran(history[Step].decision)
  /\ \A r \in read : r.step # Step - 1
  /\ read' = read \cup {[thing |-> text.thing, live |-> text.live,
                         instructs |-> text.instructs, step |-> Step - 1]}
  /\ UNCHANGED <<history, token, resets, disk, learned>>

(* The token does not decode.                                               *)
Reset ==
  /\ resets < MaxResets
  /\ Forget
  /\ UNCHANGED <<history, read, disk>>

Next ==
  \/ \E call \in Library, decision \in Decisions : Scan(call, decision) \/ ScanFails(call, decision)
  \/ \E i \in DOMAIN history, decision \in Decisions : Answer(i, decision)
  \/ \E text \in Texts : Result(text)
  \/ Reset

Spec == Init /\ [][Next]_vars

-----------------------------------------------------------------------------
TypeOK ==
  /\ history \in Seq(Entries) /\ Len(history) <= MaxSteps
  /\ token.salt = resets /\ token.untrusted \subseteq Things
  /\ {r.thing : r \in read} \subseteq Things

Denial(decision) == decision \in {"denied_by_user", "blocked", "review_timed_out"}

(* A call made again after a denial that the window still holds, with its   *)
(* arguments or under the same salt, is suspicious as a retry however long  *)
(* ago it was, and has at least the consequence the denied call had.        *)
RetriedCallScores ==
  \A i \in DOMAIN Carried :
    LET entry == Carried[i] call == entry.call claims == ContextClaims(call)
    IN  Denial(entry.decision) /\ ~call.reads /\ InCall(call) # {}
          /\ (entry.shown \/ entry.salt = token.salt) =>
            /\ ValueOr(claims, "retry_after_denial", 0) >= 500
            /\ entry.tier # None =>
                 \A x \in {"reach", "irreversibility"} : ValueOr(claims, x, 0) >= entry.tier

(* In a session that escalates, a call with a consequence of its own is at  *)
(* least a step above the last tier that was scored.                        *)
EscalationRatchets ==
  LET scored == {i \in DOMAIN Carried : Carried[i].tier # None}
      latest == CHOOSE i \in scored : \A j \in scored : j <= i
  IN  Escalating /\ scored # {} =>
        \A call \in NextCalls : HasConsequence(call) =>
          Tier(call) >= IF Carried[latest].tier > Scale - EscalationStep THEN Scale
                        ELSE Carried[latest].tier + EscalationStep

(* A file that the agent writes is seen with what is in it, when its writes *)
(* are all in the window, all ran, and ran in the order they were asked for. *)
WrittenContentSeen ==
  \A p \in Paths :
    LET seen == FindWritten(Carried, p)
    IN  /\ disk[p].by # 0 /\ disk[p].ordered
        /\ \A i \in WritesOf(history, p) :
             i > Len(history) - Window /\ Ran(history[i].decision)
        => seen # None /\ disk[p].content \subseteq seen.content

(* The addresses the owner's words may mean.                                *)
Meant(request, copy) ==
  request.verbatim \cup request.named \cup (IF request.selfCopy THEN {copy} ELSE {})

(* Whom content the agent read names, and the owner's request does not      *)
(* spell, is untrusted in every call that reaches them, until the token is  *)
(* lost: a name or a copy to oneself in the request does not sanction them. *)
(* Only a host may be: it goes with an address the request means.           *)
ReadNamesUntrusted ==
  \A call \in NextCalls : \A t \in (InCall(call) \cap Learned) \ Paths :
    \/ t \in call.request.verbatim
    \/ t \in {DomainOf[p] : p \in People \cap Meant(call.request, call.copy)}
    \/ Claim("context", "untrusted_origin", RoleWeight(RolesOf(call, t)), t) \in ContextClaims(call)

=============================================================================
