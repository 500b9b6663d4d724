--------------------------- MODULE ContextRules ----------------------------
(***************************************************************************)
(* What the history of a session says about a call: the lineage that       *)
(* prepare reads out of it (sentrook/prepare/__init__.py) and the claims   *)
(* that the context probe makes of it (sentrook/probes/context.py).  Pure  *)
(* operators over a call, the entries of the history window and the token. *)
(*                                                                         *)
(* Text is abstracted to the things it names (paths, hosts, addresses,     *)
(* database objects) and to the marks that the rules look for in it; two   *)
(* entity hashes are equal when the thing and the session's salt are.      *)
(* Values are those of ctx-v1 with conv-v3, in thousandths.                *)
(***************************************************************************)
EXTENDS Convergence, Sequences

CONSTANTS
  None,
  Paths, Hosts, People, Tables,
  Under,      \* pairs: a path at or under another
  Scratch,    \* paths under a scratch location
  Workspace,  \* paths of the workspace and of scratch
  FilterPlaces, \* paths where a mail or notification filter is installed
  DomainOf,   \* the host of each address
  Similar     \* pairs of hosts whose labels are one edit or a confusable apart

Things == Paths \cup Hosts \cup People \cup Tables
Marks == {"secret", "irreplaceable", "live", "silences"}

(* A file that was put together from its writes, and how much of a denied   *)
(* step a call does again.                                                  *)
WrittenFiles == [path : Paths, step : Nat, content : SUBSET (Things \cup Marks),
                 truncated : BOOLEAN]
Grades == [value : {500, 800, 1000}, carries : BOOLEAN]

ASSUME WorldAssumption ==
  /\ Under \subseteq Paths \X Paths /\ \A p \in Paths : <<p, p>> \in Under
  /\ Scratch \subseteq Workspace /\ Workspace \subseteq Paths
  /\ FilterPlaces \subseteq Paths \ Workspace
  /\ DomainOf \in [People -> Hosts] /\ Similar \subseteq Hosts \X Hosts
  /\ None \notin Things \cup WrittenFiles \cup Grades

Roles == {"source", "destination", "code", "executable", "recipient"}
KeyRoles == {"destination", "code", "executable", "recipient"}

(* A call: its tool kind, its things by role, whether it is made of reading *)
(* heads only, the file it writes and what with (cut: the plugin's cap cut  *)
(* it), the moves it makes, what it destroys, the one address in its copy   *)
(* field, and what the owner's request of its turn says.                    *)
Kinds == {"exec", "file_write", "file_edit", "file_read", "message_send"}
Requests == [verbatim : SUBSET Things, named : SUBSET People, selfCopy : BOOLEAN,
             secret : BOOLEAN]
Calls ==
  [kind : Kinds, roles : [Roles -> SUBSET Things], reads : BOOLEAN,
   path : Paths \cup {None}, content : SUBSET (Things \cup Marks), cut : BOOLEAN,
   moves : SUBSET (Paths \X Paths), destroys : SUBSET Paths, drops : SUBSET Tables,
   copy : People \cup {None}, request : Requests, harm : 0..Scale]

(* The decisions of the plugin that an entry of the history carries.        *)
Decisions == {"allowed", "approved_by_user", "denied_by_user", "blocked",
              "review_timed_out", "allowed_on_error", "blocked_on_error"}
NotRun == {"denied_by_user", "blocked", "review_timed_out", "blocked_on_error"}

InCall(call) == UNION {call.roles[r] : r \in Roles}
RolesOf(call, thing) == {r \in Roles : thing \in call.roles[r]}

-----------------------------------------------------------------------------
(* Lineage.  A history is a sequence of entries, oldest first; the step of  *)
(* an entry grows along it.                                                 *)

WriteKinds == {"file_write", "file_edit"}

Writes(entry, path) == entry.call.kind \in WriteKinds /\ entry.call.path = path

WritesOf(history, path) == {i \in DOMAIN history : Writes(history[i], path)}

(* Mutant: an edit is taken for the whole file.                             *)
StandingNewest(history, path) ==
  {i \in WritesOf(history, path) : \A j \in WritesOf(history, path) : j <= i}

(* The writes whose text is still there, "both halves are visible": an edit *)
(* adds to what was written before it, any other write takes its place.     *)
Standing(history, path) ==
  {i \in WritesOf(history, path) :
     \A j \in WritesOf(history, path) : i < j => history[j].call.kind = "file_edit"}

(* _find_written: the newest write of the path in the window, whatever was  *)
(* decided about it; truncated is looked for in its own content only.       *)
FindWritten(history, path) ==
  LET writes == WritesOf(history, path)
      newest == history[Max(writes)]
  IN  IF writes = {} THEN None
      ELSE [path |-> path, step |-> newest.step,
            content |-> UNION {history[i].call.content : i \in Standing(history, path)},
            truncated |-> newest.call.cut]

WrittenPaths(history) ==
  {history[i].call.path : i \in {j \in DOMAIN history :
     history[j].call.kind \in WriteKinds}} \ {None}

(* _created_paths: written, or the destination of a creating command.       *)
CreatedPaths(history) ==
  WrittenPaths(history)
    \cup UNION {{m[2] : m \in history[i].call.moves} : i \in DOMAIN history}

(* The file the call runs, if the window shows who wrote it.                *)
Executed(call, history) ==
  LET visible == {p \in call.roles["executable"] \cap Paths : FindWritten(history, p) # None}
  IN  IF call.kind = "exec" /\ visible # {}
      THEN FindWritten(history, CHOOSE p \in visible : TRUE) ELSE None

(* The agent-written files the call reads, sends, copies or publishes.      *)
Sent(call, history) ==
  LET run == Executed(call, history)
  IN  {FindWritten(history, p) :
         p \in {q \in call.roles["source"] \cap WrittenPaths(history) :
                  run = None \/ run.path # q}}

Into(move, tree) == <<move[2], tree>> \in Under /\ <<move[1], tree>> \notin Under

(* _moved_in: history moves and copies into a tree the call destroys.       *)
MovedIn(call, history) ==
  UNION {{[source |-> m[1], target |-> t] :
            m \in {n \in history[i].call.moves : Into(n, t)}} :
           i \in {j \in DOMAIN history : history[j].call.kind = "exec"},
           t \in call.destroys}

(* History writes whose content lists a path at or under a target.          *)
Listings(call, history) ==
  {w \in {FindWritten(history, p) : p \in WrittenPaths(history)} :
     \E p \in w.content \cap Paths, t \in call.destroys : <<p, t>> \in Under}

-----------------------------------------------------------------------------
(* Who is sanctioned by the owner's request.                                *)

(* Step 5 and 6 of prepare: what this request's inputs name joins the       *)
(* untrusted set unless the agent used it at an earlier step.  `read` holds *)
(* the things named by new inputs, with the step each is the result of.     *)
FirstUse(history, thing) ==
  LET steps == {history[i].step : i \in {j \in DOMAIN history : thing \in InCall(history[j].call)}}
  IN  IF steps = {} THEN None ELSE Min(steps)

AgentFirst(history, thing, step) ==
  FirstUse(history, thing) # None /\ FirstUse(history, thing) < step

FromInputs(history, read) ==
  {t \in {r.thing : r \in read} :
     ~AgentFirst(history, t, Min({r.step : r \in {q \in read : q.thing = t}}))}

(* Mutant: an address that was read can be named by the name in it.         *)
NamedAnywhere(call, entities, untrusted) ==
  ((call.request.verbatim \cup call.request.named) \cap entities)
    \cup (IF call.request.selfCopy THEN {call.copy} \ {None} ELSE {})

(* _mark_display_named and _mark_self_copy never reach an address that came *)
(* from content the agent read.                                             *)
NamedInRequest(call, entities, untrusted) ==
  (call.request.verbatim \cap entities)
    \cup ((call.request.named \cap entities) \ untrusted)
    \cup (IF call.request.selfCopy THEN {call.copy} \ (untrusted \cup {None}) ELSE {})

(* _inherit_recipient_domain: the domain goes with the address, whether or  *)
(* not it was read.                                                         *)
Sanctioned(call, entities, untrusted) ==
  LET named == NamedInRequest(call, entities, untrusted)
      people == People \cap (named \cup call.request.verbatim)
  IN  named \cup ({DomainOf[p] : p \in people} \cap entities)

-----------------------------------------------------------------------------
(* Untrusted origin.                                                        *)

RoleWeight(roles) == IF roles \cap KeyRoles # {} THEN Scale
                     ELSE IF "source" \in roles THEN 500 ELSE 250

(* The hosts of the call or of the file it runs that look like one the      *)
(* owner named.                                                             *)
Lookalikes(call, entities, sanctioned) ==
  {h \in (entities \cap Hosts) \ sanctioned :
     /\ RolesOf(call, h) \cap KeyRoles # {} \/ h \notin InCall(call)
     /\ \E named \in Hosts \cap (sanctioned \cup call.request.verbatim) : <<h, named>> \in Similar}

OriginOf(thing, s) ==
  CASE thing \in s.sanctioned -> 0
    [] thing \notin s.sanctioned /\ thing \in s.untrusted -> Scale
    [] OTHER ->
         IF thing \notin s.created \cap Workspace THEN 400
         ELSE IF s.run # None /\ s.run.path = thing /\ s.run.content \cap (s.untrusted \cup s.read) # {}
              THEN Scale
         ELSE IF s.tainted THEN 400 ELSE 100

OriginClaims(call, s) ==
  {LET value == OriginOf(t, s)
       weight == IF t \in InCall(call) THEN RoleWeight(RolesOf(call, t)) ELSE Scale
   IN  Claim("context", "untrusted_origin",
             Times(IF t \in s.lookalikes THEN Scale ELSE value, weight), t) :
     t \in s.entities}

-----------------------------------------------------------------------------
(* Lineage arms.                                                            *)

Arm(signal, value, subject) == Claim("context", signal, value, subject)

IsSink(call) ==
  \/ call.kind = "message_send" \/ call.roles["recipient"] # {}
  \/ call.roles["destination"] \cap Hosts # {}

FilterClaims(call, s) ==
  LET direct == IF /\ call.kind \in WriteKinds
                   /\ call.path \in FilterPlaces /\ "silences" \in call.content
                THEN {call.path} ELSE {}
      copied == IF \E w \in s.sent : "silences" \in w.content
                THEN (call.roles["destination"] \cap FilterPlaces) \ {w.path : w \in s.sent}
                ELSE {}
  IN  {Arm(x, 600, p) : x \in {"overreach", "sensitivity", "reach", "irreversibility"},
                        p \in direct \cup copied}

LineageClaims(call, s) ==
  (UNION {{Arm("irreversibility", Scale, m.source), Arm("reach", 750, m.source),
           Arm("overreach", 600, m.source)} : m \in {n \in s.movedIn : n.source \notin Scratch}})
  \cup (UNION {{Arm("irreversibility", Scale, t), Arm("overreach", 600, t)} :
                 t \in {u \in call.destroys : \E w \in s.listings :
                          /\ "irreplaceable" \in w.content
                          /\ \E p \in w.content \cap Paths : <<p, u>> \in Under}})
  \cup (IF call.drops \cap s.live # {}
        THEN {Arm("irreversibility", Scale, AnySubject), Arm("overreach", 600, AnySubject)}
        ELSE {})
  \cup (IF IsSink(call) /\ ~call.request.secret
        THEN {Arm("overreach", 800, w.path) : w \in {v \in s.sent : "secret" \in v.content}}
        ELSE {})
  \cup {Arm("concealment", 900, h) : h \in s.lookalikes}
  \cup FilterClaims(call, s)

-----------------------------------------------------------------------------
(* Retry after a denial.                                                    *)

RetryCarry == Scale
RetryBonus == 100
RetryDecay == 100
RetryFloor == 500

(* denied_steps.                                                            *)
Denied(history) ==
  {i \in DOMAIN history :
     history[i].decision \in {"denied_by_user", "blocked", "review_timed_out"}}

(* Mutant: only the fingerprint that was echoed is compared.                *)
HashesEchoed(entry, salt, roles) ==
  IF entry.salt = salt THEN UNION {entry.call.roles[r] : r \in roles} ELSE {}

(* _hashes: recomputed from the arguments the history shows, and echoed;    *)
(* an echo of another session's salt matches nothing.                       *)
Hashes(entry, salt, roles) ==
  IF entry.shown \/ entry.salt = salt THEN UNION {entry.call.roles[r] : r \in roles} ELSE {}

Grade(value, carries) == [value |-> value, carries |-> carries]

(* How much of a denied step the call does again; None when nothing.        *)
GradeOf(call, entry, salt) ==
  LET source == Hashes(entry, salt, {"source"})
      destination == Hashes(entry, salt, {"destination", "recipient"})
      code == Hashes(entry, salt, {"code", "executable"})
      src == source \cap InCall(call) # {}
      dst == destination \cap InCall(call) # {}
      p_dst == call.roles["destination"] \cup call.roles["recipient"] # {}
      moved == source # {} /\ destination # {}
      shown == code \cap InCall(call) # {}
  IN  IF ~(src \/ dst \/ shown) THEN None
      ELSE CASE moved /\ src /\ dst -> Grade(1000, TRUE)
             [] moved /\ src /\ ~dst -> IF p_dst THEN Grade(800, TRUE) ELSE Grade(500, FALSE)
             [] moved /\ ~src -> Grade(500, TRUE)
             [] ~moved -> IF call.reads /\ ~shown THEN Grade(500, FALSE) ELSE Grade(1000, TRUE)

Decayed(value, gap) == Times(value, Max({RetryFloor, Scale - RetryDecay * (gap - 1)}))

Retry(call, history, salt, step) ==
  LET matches == {i \in Denied(history) : GradeOf(call, history[i], salt) # None}
      grade(i) == GradeOf(call, history[i], salt)
      best == Max({0} \cup {Decayed(grade(i).value, Max({1, step - history[i].step})) : i \in matches})
      carried == {history[i].tier : i \in {j \in matches : grade(j).carries}} \ {None}
  IN  [suspicion |-> IF Cardinality(matches) > 1
                     THEN Min({Scale, best + RetryBonus * (Cardinality(matches) - 1)}) ELSE best,
       carried |-> Min({Scale, Times(Max({0} \cup carried), RetryCarry)})]

RetryClaims(call, history, salt, step) ==
  LET retry == Retry(call, history, salt, step)
  IN  {Arm("retry_after_denial", retry.suspicion, AnySubject)}
        \cup (IF retry.carried > 0
              THEN {Arm(x, retry.carried, AnySubject) : x \in {"reach", "irreversibility"}} ELSE {})

-----------------------------------------------------------------------------
(* Escalation.                                                              *)

EscalationRise == 100
EscalationStep == 200

(* _consequence_tiers: the entries of the window that have a tier.          *)
Scored(history) == {i \in DOMAIN history : history[i].tier # None}

LastTier(history) == history[Max(Scored(history))].tier

(* _escalating: each of the last three is well above the one before it.     *)
Rising(history) ==
  LET scored == Scored(history)
      tail == {i \in scored : Cardinality({j \in scored : i < j}) < 3}
      Consecutive(i, j) == i < j /\ \A k \in scored : ~(i < k /\ k < j)
  IN  /\ Cardinality(tail) >= 2
      /\ \A i, j \in tail :
           Consecutive(i, j) => history[j].tier >= history[i].tier + EscalationRise

(* _has_consequence.                                                        *)
HasConsequence(call) ==
  call.destroys # {} \/ call.drops # {} \/ \E r \in KeyRoles : call.roles[r] # {}

(* Mutant: the step is added to what the call can reach only.               *)
RaisedReach == {"reach"}

Raised == {"sensitivity", "reach", "irreversibility"}

EscalationClaims(call, history, escalating) ==
  IF escalating /\ Scored(history) # {} /\ HasConsequence(call)
  THEN {Arm(x, Min({Scale, LastTier(history) + EscalationStep}), AnySubject) : x \in Raised}
  ELSE {}

=============================================================================
