------------------------------ MODULE AiraRules ------------------------------
(***************************************************************************)
(* The AIRA detectors (sentrook/aira/detectors.py) over the analysis of    *)
(* one call (aira/analysis.py), the extent modifier, and the envelope that *)
(* the probe makes of a call, its siblings, the file it runs and the       *)
(* commands it resolves to (probes/aira.py).                               *)
(*                                                                         *)
(* The analysis is the input: paths and hosts with their roles, and, for   *)
(* each list of patterns, whether the call's text, content or edit matches *)
(* it.  The lists of words are a few entries of each list of aira/lists;   *)
(* the weights are those of weights.yaml in thousandths.  The card's       *)
(* reasons, the mechanisms and the rest of the evidence are left out.      *)
(***************************************************************************)
EXTENDS CommandWords, Convergence

CONSTANTS
  None,
  Relative,      \* the path of a word in a directory: <<directory, word>> to path
  GroupsOf,      \* the path groups of a path
  Workspace,     \* the workspace root
  Scratch,       \* paths in the workspace or a temporary directory
  Inside,        \* pairs: a path at or under another
  ScriptLines,   \* the commands that a script in a word parses to, as words
  Installers,    \* hosts on the list of installers
  BulkRecipients \* recipients above which a call is bulk, bulk_recipients

ASSUME AiraAssumption ==
  /\ Workspace \in Scratch /\ BulkRecipients \in Nat
  /\ \A c \in DOMAIN Relative : <<Relative[c], c[1]>> \in Inside \/ Relative[c] = c[1] \/ c[2] \in Scripts

SensitiveOrder == <<"credential_store", "credential_bearing_config">>
SensitiveGroups == Range(SensitiveOrder)
SelfModOrder == <<"agent_config", "agent_plugins", "agent_memory", "startup">>

Groups(path) == IF path \in DOMAIN GroupsOf THEN GroupsOf[path] ELSE {}

FirstOf(order, groups) ==
  LET hits == {i \in DOMAIN order : order[i] \in groups}
  IN  IF hits = {} THEN None ELSE order[Min(hits)]

TopGroup(path) == FirstOf(SensitiveOrder, Groups(path))

SensitivityOf ==
  [credential_store |-> 1000, credential_bearing_config |-> 800, placeholder |-> 1000,
   session |-> 800, artefact |-> 800]

(* A call as analysed, with nothing in it; the others override fields.      *)
WriteKinds == {"file_write", "file_edit", "memory_write"}
Nothing ==
  [kind |-> "other", tree |-> None, parses |-> TRUE, decoded |-> None,
   shape |-> None, undone |-> None, lines |-> {}, encodings |-> {},
   inline |-> FALSE, cwd |-> None, paths |-> {}, hosts |-> <<>>, recipients |-> {},
   packages |-> {}, attachments |-> {}, text |-> {}, groups |-> {}, content |-> {},
   edit |-> {}, tool |-> {}, reads |-> FALSE, step |-> "no"]

WordsOf(segment) == <<segment.head>> \o segment.argv

HasShape(a) == a.shape # None
AllHeads(a) == (IF HasShape(a) THEN a.shape.heads ELSE {})
                 \cup (IF a.undone # None THEN a.undone.heads ELSE {})
Segments(a) == IF HasShape(a) THEN a.shape.segments ELSE <<>>

IsSource(p) == p.roles \cap {"source", "executable"} # {}
IsDestination(p) == "destination" \in p.roles
Known(a) == {p.path : p \in a.paths}

DestinationHosts(a) ==
  LET marked == {h.host : h \in {g \in Range(a.hosts) : "destination" \in g.roles}}
  IN  IF marked # {} THEN marked ELSE {h.host : h \in Range(a.hosts)}

OrAny(subjects) == IF subjects = {} THEN {AnySubject} ELSE subjects

Resolved(word, cwd) ==
  LET base == IF cwd = None THEN Workspace ELSE cwd
  IN  IF <<base, word>> \in DOMAIN Relative THEN Relative[<<base, word>>] ELSE word

Subject(path, ctx) == IF path \in ctx.entities THEN path ELSE AnySubject

Finding(cls, rule, claims) ==
  [cls |-> cls, rule |-> rule, floors |-> {}, flags |-> {},
   claims |-> {Claim("aira", c[1], c[2], c[3]) : c \in claims}]

Both(reach, irreversibility, subject) ==
  {<<"reach", reach, subject>>, <<"irreversibility", irreversibility, subject>>}

(* _written_paths: destinations, redirections, and what the writing heads    *)
(* are given, of which the copying ones write the last only.                *)
WritingHeads == {"tee", "cp", "mv", "rm", "sed"}
DestinationHeads == {"cp"}

WrittenBy(segment) ==
  IF \/ segment.head \notin WritingHeads
     \/ segment.head = "sed" /\ segment.flags \cap {"-i", "--in-place"} = {}
  THEN {}
  ELSE LET given == SelectSeq(segment.positional, LAMBDA w : w # "-")
       IN  segment.redirects \cup
           IF segment.head \in DestinationHeads /\ given # <<>> THEN {given[Len(given)]} ELSE Range(given)

Written(a) ==
  LET destinations == {p.path : p \in {q \in a.paths : IsDestination(q)}}
  IN  IF a.kind \in WriteKinds \cup {"mcp", "other"} THEN destinations
      ELSE IF a.kind # "exec" THEN {}
      ELSE IF ~HasShape(a) THEN destinations
      ELSE destinations \cup
           {Resolved(w, a.cwd) : w \in a.shape.redirect_targets
                                         \cup UNION {WrittenBy(s) : s \in Range(Segments(a))}}

-----------------------------------------------------------------------------
(* C1: credential material reached.                                        *)

ReachHeads == {"cat", "ls", "curl", "python3", "tar"}

Readable(a) ==
  {p \in a.paths : ~(a.kind = "exec" /\ IsDestination(p) /\ ~IsSource(p))}

(* Groups that the text names and no path of the call has.                  *)
TextOnly(a) ==
  {g \in SensitiveGroups \cap a.groups : \A p \in a.paths : g \notin Groups(p.path)}

(* Mutant: reading credentials is not remembered.                           *)
SensedOnce(f) == f

Sensed(f) == [f EXCEPT !.flags = {"holds_sensitive"}]

Credentials(a, ctx) ==
  LET reached == IF a.kind = "exec" THEN AllHeads(a) \cap ReachHeads # {} \/ "file_arg" \in a.text
                 ELSE a.kind \in {"file_read", "mcp", "other"}
      refs == {p \in Readable(a) : /\ TopGroup(p.path) # None
                                   /\ a.kind \in {"mcp", "other"} => IsSource(p)}
  IN  IF ~reached THEN {}
      ELSE {Sensed(Finding("C1", "C1", {<<"sensitivity", SensitivityOf[TopGroup(p.path)],
                                         Subject(p.path, ctx)>>})) : p \in refs}
           \cup {Sensed(Finding("C1", "C1.text", {<<"sensitivity", SensitivityOf[g], AnySubject>>})) :
                   g \in TextOnly(a)}

-----------------------------------------------------------------------------
(* C2: a sensitive source that reaches a sink.                             *)

(* exec_markers: a word of the segment, its head, and whether it must be fed *)
(* by a pipe.                                                              *)
Markers ==
  {[head |-> "curl", words |-> {"-d", "-T"}, pipe |-> FALSE, reason |-> "exec_egress"],
   [head |-> None, words |-> {"ssh"}, pipe |-> TRUE, reason |-> "exec_egress"],
   [head |-> None, words |-> {"nc"}, pipe |-> FALSE, reason |-> "raw_socket"],
   [head |-> None, words |-> {"mail"}, pipe |-> FALSE, reason |-> "message_send"]}

InTail(shape, i) == \E p \in shape.pipelines : i \in Range(Tail(p))

Marked(a, shape) ==
  {m.reason : m \in {n \in Markers : \E i \in DOMAIN shape.segments :
     LET s == shape.segments[i]
     IN  /\ n.head # None => s.head = n.head
         /\ n.pipe => InTail(a.shape, i)
         /\ n.words \cap Range(WordsOf(s)) # {}}}

MarkedText(words) ==
  {m.reason : m \in {n \in Markers : /\ n.head # None => n.head \in words
                                     /\ ~n.pipe /\ n.words \cap words # {}}}

ExecReasons(a) ==
  (IF Segments(a) # <<>>
   THEN Marked(a, a.shape) \cup (IF a.undone # None THEN Marked(a, a.undone) ELSE {})
   ELSE UNION {MarkedText(Range(words)) : words \in a.lines})
  \cup (IF a.inline THEN {r \in {"web_post"} : r \in a.text} ELSE {})

Sinks(a) ==
  LET persons == IF a.recipients # {} THEN a.recipients ELSE DestinationHosts(a)
      post == [reason |-> "web_post", to |-> OrAny(DestinationHosts(a))]
      send == [reason |-> "message_send", to |-> OrAny(persons)]
  IN  IF a.kind = "exec"
      THEN {[reason |-> r, to |-> OrAny(IF r = "message_send" THEN persons ELSE DestinationHosts(a))] :
              r \in ExecReasons(a)}
      ELSE IF a.kind = "message_send" THEN {send}
      ELSE IF a.kind = "web_fetch" /\ "body" \in a.content THEN {post}
      ELSE IF a.kind \in {"mcp", "other"} /\ "send" \in a.tool
      THEN {IF a.recipients # {} THEN send ELSE post}
      ELSE {}

(* What the call carries out: claims of sensitivity.                        *)
Sources(a, ctx) ==
  {<<"sensitivity", SensitivityOf[TopGroup(p.path)], Subject(p.path, ctx)>> :
     p \in {q \in Readable(a) : TopGroup(q.path) # None}}
  \cup {<<"sensitivity", SensitivityOf.placeholder, Subject(p.path, ctx)>> :
          p \in {q \in Readable(a) : /\ TopGroup(q.path) = None /\ q.path \in ctx.placeholders
                                     /\ (IsSource(q) \/ q.path \in a.attachments)}}
  \cup {<<"sensitivity", SensitivityOf[g], AnySubject>> : g \in TextOnly(a)}
  \cup (IF "placeholder" \in a.text \cup a.content
        THEN {<<"sensitivity", SensitivityOf.placeholder, AnySubject>>} ELSE {})
  \cup (IF "holds_sensitive" \in ctx.flags
        THEN {<<"sensitivity", SensitivityOf.session, AnySubject>>} ELSE {})

Exfil(a, ctx) ==
  LET sources == Sources(a, ctx)
  IN  {IF sources # {}
       THEN Sensed(Finding("C2", s.reason, sources \cup UNION {Both(1000, 1000, t) : t \in s.to}))
       ELSE Finding("C2", "send", UNION {Both(1000, 800, t) : t \in s.to}) : s \in Sinks(a)}

-----------------------------------------------------------------------------
(* C3: untrusted code.                                                     *)

FetchHeads == {"curl", "wget"}
EvalHeads == {"eval", "source"}
OutputFlags == {"-o", "-O"}
InstallHeads == {"pip"}
InstallVerbs == {"install"}
RunHeads == Shells \cup Interpreters

Feeds(shape, from, into) ==
  \E p \in shape.pipelines : \E i, j \in DOMAIN p :
    i < j /\ shape.segments[p[i]] \in from /\ shape.segments[p[j]] \in into

FetchToShell(shape) ==
  LET segments == Range(shape.segments)
      fetches == {s \in segments : s.head \in FetchHeads}
      runs == {s \in segments : s.head \in EvalHeads \/ (s.head \in RunHeads /\ RunsStdin(s))}
      saves == {s \in fetches : s.flags \cap OutputFlags # {}}
      saved == UNION {Range(s.positional) : s \in saves}
  IN  \/ Feeds(shape, fetches, runs)
      \/ /\ shape.substitution
         /\ shape.heads \cap FetchHeads # {} /\ shape.heads \cap (Shells \cup EvalHeads) # {}
      \/ /\ saves # {}
         /\ \E s \in segments :
              \/ s.head \in RunHeads
              \/ s.head = "chmod" /\ "+x" \in Range(s.argv)
              \/ /\ s.head \in {Called[w] : w \in saved \cap DOMAIN Called} \cup saved
                 /\ s.head \notin FetchHeads

DecodeToShell(shape) ==
  LET segments == Range(shape.segments)
      decodes == {s \in segments : s.head = "base64" /\ "-d" \in Range(s.argv)}
      runs == {s \in segments : s.head \in RunHeads \cup EvalHeads}
  IN  \/ Feeds(shape, decodes, runs)
      \/ /\ shape.substitution /\ decodes # {}
         /\ shape.heads \cap (Shells \cup EvalHeads) # {}

CodeHost(a) ==
  LET code == SelectSeq(a.hosts, LAMBDA h : "code" \in h.roles)
  IN  IF code # <<>> THEN code[1].host ELSE IF a.hosts # <<>> THEN a.hosts[1].host ELSE None

Unvetted(a) ==
  IF CodeHost(a) = None \/ CodeHost(a) \in Installers THEN {}
  ELSE {<<"sensitivity", 670, CodeHost(a)>>}

CodeFloor(f, subject) ==
  [f EXCEPT !.floors = {[floor |-> "untrusted_code_execution", min |-> 900, subject |-> subject]}]

(* A decoded command counts only when the command as written shows nothing. *)
UntrustedCode(a, ctx) ==
  LET host == IF CodeHost(a) = None THEN AnySubject ELSE CodeHost(a)
      plain == (HasShape(a) /\ FetchToShell(a.shape)) \/ "fetch_to_shell" \in a.text
      undone == a.undone # None
      hidden == undone /\ FetchToShell(a.undone)
      piped == undone /\ a.undone.sinks \cap {"pipe_to_shell", "pipe_to_interpreter"} # {}
      decodes == \/ (HasShape(a) /\ DecodeToShell(a.shape))
                 \/ (a.encodings \cap {"base64", "hex"} # {} /\ (hidden \/ piped))
                 \/ "decode_to_shell" \in a.text
      obfuscated == ~plain /\ ~decodes /\ hidden
      installs == \/ \E s \in Range(Segments(a)) :
                       s.head \in InstallHeads /\ InstallVerbs \cap Range(s.positional) # {}
                  \/ AllHeads(a) \cap InstallHeads # {} /\ "install_verb" \in a.text
  IN  IF a.kind # "exec" THEN {}
      ELSE (IF plain \/ obfuscated
            THEN {Finding("C3", "fetch_to_shell", Both(750, 700, host) \cup Unvetted(a) \cup
                            IF obfuscated THEN {<<"concealment", 600, AnySubject>>} ELSE {})} ELSE {})
           \cup (IF (plain \/ obfuscated) /\ "installer_lookalike" \in a.text
                 THEN {CodeFloor(Finding("C3", "lookalike_installer", {<<"concealment", 800, host>>}), host)}
                 ELSE {})
           \cup (IF decodes
                 THEN {CodeFloor(Finding("C3", "decode_to_shell",
                         Both(750, 700, host) \cup {<<"concealment", 1000, AnySubject>>}), host)} ELSE {})
           \cup (IF "install_from_url" \in a.text
                 THEN {Finding("C3", "install_from_url", Both(750, 700, host) \cup Unvetted(a))} ELSE {})
           \cup (IF installs THEN {Finding("C3", "package_install", Both(750, 600, p)) :
                                     p \in {q \in a.packages : q \notin ctx.plugins}} ELSE {})
           \cup (IF ctx.written # None /\ ctx.source = "pending" /\ ctx.fetched
                 THEN {Finding("C3", "run_written_file", Both(750, 700, Subject(ctx.written, ctx)))}
                 ELSE {})

(* A command in a parameter of a request to a local service; a package      *)
(* manager pointed elsewhere; a provider one typo from one in use.          *)
OtherCode(a, ctx) ==
  LET host == IF a.hosts = <<>> THEN AnySubject ELSE a.hosts[1].host
      redirected == \/ /\ a.kind \in WriteKinds \cup {"mcp", "other"} /\ "registry" \in a.edit
                       /\ \E p \in a.paths : "registry_config" \in Groups(p.path)
                    \/ a.kind = "exec" /\ "registry" \in a.text
  IN  (IF a.kind \in {"exec", "web_fetch", "browser", "mcp"} /\ "param_injection" \in a.text
       THEN {Finding("C3", "param_injection", Both(750, 700, host) \cup {<<"concealment", 1000, AnySubject>>})}
       ELSE {})
      \cup (IF redirected THEN {Finding("C3", "registry_redirect", Both(750, 600, host))} ELSE {})
      \cup (IF "provider_lookalike" \in a.tool
            THEN {Finding("C3", "lookalike_provider", {<<"concealment", 800, AnySubject>>})} ELSE {})

-----------------------------------------------------------------------------
(* C4*: guardrail tampering.  CLI forms are `<head> [options] <subcommand>  *)
(* [options] <verb> ...`, behind launchers and inside `-c` scripts.        *)

CliHeads == {"hermes", "openclaw"}
Launchers == {<<"npx">>, <<"uv", "run">>}
Modules == [w \in {"hermes_cli"} |-> "hermes"]
EntryScripts == [w \in {"openclaw.mjs"} |-> "openclaw"]

(* _after_options: the indices that only options, and the words right after *)
(* them, come before.                                                      *)
AfterOptionsFrom(words, start) ==
  {i \in start..Len(words) : \A j \in start..i - 1 :
     words[j] \in Options \/ (j > start /\ words[j - 1] \in Options \ {"--"})}

After(words, i) == SubSeq(words, i + 1, Len(words))

FirstAmong(words, start, wanted) ==
  LET hits == {i \in AfterOptionsFrom(words, start) : words[i] \in wanted}
  IN  IF hits = {} THEN 0 ELSE Min(hits)

(* What a runner of modules, a runtime, or a launcher runs; <<>> if none of  *)
(* it is known.                                                            *)
Launched(words) ==
  LET name == Named(words[1])
      module == FirstAmong(words, 2, {"-c", "-m"})
      script == FirstAmong(words, 2, {"-e", "-p"} \cup DOMAIN EntryScripts)
      launchers == {l \in Launchers : Len(words) > Len(l) /\ SubSeq(<<name>> \o Tail(words), 1, Len(l)) = l}
      n == Len(CHOOSE l \in launchers : TRUE)
      runs == {i \in AfterOptionsFrom(words, n + 1) :
                 \/ Named(words[i]) \in CliHeads \cup {"python3", "node"}
                 \/ \E l \in Launchers : l[1] = Named(words[i])}
  IN  CASE name = "python3" ->
             IF module # 0 /\ words[module] = "-m" /\ module < Len(words)
                  /\ words[module + 1] \in DOMAIN Modules
             THEN <<Modules[words[module + 1]]>> \o After(words, module + 1) ELSE <<>>
        [] name = "node" ->
             IF script # 0 /\ words[script] \in DOMAIN EntryScripts
             THEN <<EntryScripts[words[script]]>> \o After(words, script) ELSE <<>>
        [] name \notin {"python3", "node"} /\ launchers = {} -> <<>>
        [] OTHER -> IF runs = {} THEN <<>> ELSE After(words, Max(runs) - 1)

(* _cli_tokens peels at most four; a command that is no known CLI behind     *)
(* them is taken as it stands.                                             *)
IsCli(words) == words # <<>> /\ Named(words[1]) \in CliHeads

CliFrom(words) ==
  LET peeled[n \in 0..3] ==
        IF n = 0 THEN words
        ELSE LET before == peeled[n - 1]
             IN  IF before = <<>> \/ IsCli(before) THEN before ELSE Launched(before)
      last == peeled[3]
  IN  IF IsCli(last) THEN <<Named(last[1])>> \o Tail(last) ELSE <<>>

(* The scripts of a shell's `-c`: at most one.                              *)
ScriptsOf(words) ==
  LET cs == {i \in 2..Len(words) : words[i] \in {"-c", "-lc"} /\
               \A j \in 2..i - 1 : words[j] \in Options \/ words[j - 1] = "-o"}
  IN  {words[k] : k \in {l \in 2..Len(words) :
         /\ Named(words[1]) \in Shells /\ words[l] \notin Options
         /\ \E i \in cs : i < l /\ \A j \in i..l - 1 : words[j] \in Options}}

(* A command and, three deep, those in its scripts.                         *)
CommandsIn(words) ==
  LET inside[n \in 0..3] ==
        IF n = 0 THEN {words}
        ELSE LET scripts == UNION {ScriptsOf(w) : w \in inside[n - 1] \ {<<>>}}
             IN  UNION {ScriptLines[s] : s \in scripts \cap DOMAIN ScriptLines}
  IN  UNION {inside[n] : n \in 0..3}

PluginWords == {"sentrook"}

TokenReasons(tokens) ==
  LET uses == {u \in AfterOptionsFrom(tokens, 2) \X (2..Len(tokens)) :
                 u[2] \in AfterOptionsFrom(tokens, u[1] + 1)}
      sub(u) == tokens[u[1]]
      verb(u) == tokens[u[2]]
      rest(u) == Range(After(tokens, u[2]))
  IN  IF tokens = <<>> THEN {}
      ELSE UNION {
        (IF sub(u) = "plugins" /\ verb(u) \in {"disable", "remove"} /\ rest(u) \cap PluginWords # {}
         THEN {"plugin_disable"} ELSE {})
        \cup (IF sub(u) = "sentrook" /\ verb(u) \notin Options \cup {"status", "verify"}
              THEN {"plugin_command"} ELSE {})
        \cup (IF sub(u) = "config" /\ verb(u) \in {"set", "unset"}
              THEN IF "approvals.mode" \in rest(u) THEN {"host_approvals"}
                   ELSE IF rest(u) \cap {"plugins.enabled", "sentrook"} # {} THEN {"config_entry"} ELSE {}
              ELSE {})
        \cup (IF sub(u) = "gateway" /\ verb(u) = "stop" THEN {"gateway_stop"} ELSE {}) : u \in uses}

CliReasons(words) == IF words = <<>> THEN {} ELSE TokenReasons(CliFrom(words))

PathReason(path) ==
  IF "sentrook_state" \in Groups(path) THEN "state_dir_write"
  ELSE IF "host_guardrail" \in Groups(path) THEN "host_approvals" ELSE None

Tampering(reason, subject) ==
  IF reason = "host_approvals"
  THEN Finding("C4", "C4.host_approvals", {<<"self_modification", 1000, subject>>, <<"reach", 750, subject>>})
  ELSE [Finding("C4*", reason, {<<"self_modification", 1000, subject>>}) EXCEPT
          !.floors = {[floor |-> "guardrail_tampering", min |-> 1000, subject |-> subject]}]

Guardrail(a, ctx) ==
  LET written == {p \in Written(a) : PathReason(p) # None}
      configs == {p \in Written(a) \ written : "config_file" \in Groups(p)
                                               /\ a.kind \in WriteKinds \cup {"mcp", "other"}}
      edit == IF "names_plugin" \in a.edit THEN {"config_entry"}
              ELSE IF "host_approvals" \in a.edit THEN {"host_approvals"} ELSE {}
      inline == a.inline \/ (HasShape(a) /\ a.shape.inline_eval)
  IN  {Tampering(PathReason(p), Subject(p, ctx)) : p \in written}
      \cup {Tampering(r, Subject(p, ctx)) : r \in edit, p \in configs}
      \cup (IF a.kind # "exec" THEN {}
            ELSE (IF inline /\ {"write_marker", "guardrail_path"} \subseteq a.text
                  THEN {Tampering("state_dir_write", AnySubject)} ELSE {})
                 \cup {Tampering(r, AnySubject) :
                         r \in UNION {CliReasons(w) : w \in UNION {CommandsIn(l) : l \in a.lines}}}
                 \cup (IF "process_kill" \in a.text THEN {Tampering("gateway_stop", AnySubject)} ELSE {}))

-----------------------------------------------------------------------------
(* C4: self-modification.                                                  *)

SelfModWeight(path) ==
  LET g == FirstOf(SelfModOrder, Groups(path))
  IN  IF g = "agent_memory" THEN 700
      ELSE IF g = "startup" THEN 600
      ELSE IF /\ g = "agent_plugins" /\ <<path, Workspace>> \in Inside
              /\ "skill_instructions" \notin Groups(path)
      THEN 500 ELSE 1000

SelfMod(a, ctx) ==
  LET paths == {p \in Written(a) : FirstOf(SelfModOrder, Groups(p)) # None}
      Modifies(weight, subject) ==
        Finding("C4", "C4", Both(750, 600, subject) \cup {<<"self_modification", weight, subject>>})
  IN  {Modifies(SelfModWeight(p), Subject(p, ctx)) : p \in paths}
      \cup (IF a.kind = "memory_write" /\ paths = {}
            THEN {Modifies(700, CHOOSE t \in OrAny({p.path : p \in {q \in a.paths : IsDestination(q)}}) : TRUE)}
            ELSE {})
      \cup (IF a.kind = "exec" /\ "selfmod_cli" \in a.text THEN {Modifies(1000, AnySubject)} ELSE {})
      \cup (IF a.kind = "exec" THEN {Modifies(1000, p) : p \in a.packages \cap ctx.plugins} ELSE {})
      \cup (IF a.kind \in {"mcp", "other"} /\ ~a.reads /\ "selfmod" \in a.tool
            THEN {Modifies(1000, AnySubject)} ELSE {})

-----------------------------------------------------------------------------
(* C7: destruction outside scratch; C8; C9; C10; concealment.              *)

Destroyers == {"rm", "shred"}

(* The directory each segment runs in.                                      *)
Directory(a) ==
  LET segments == Segments(a)
      at[i \in 1..Len(segments)] ==
        IF i = 1 THEN IF a.cwd = None THEN Workspace ELSE a.cwd
        ELSE LET before == segments[i - 1]
             IN  IF before.head = "cd" /\ before.positional # <<>>
                 THEN Resolved(before.positional[1], at[i - 1]) ELSE at[i - 1]
  IN  at

Targets(a) ==
  IF Segments(a) # <<>>
  THEN UNION {LET s == Segments(a)[i] cwd == Directory(a)[i]
              IN  (IF s.head \in Destroyers
                   THEN {Resolved(w, cwd) : w \in Range(s.positional) \ {"-"}} ELSE {})
                  \cup (IF s.head = "find" /\ "-delete" \in s.flags
                        THEN {Resolved(w, cwd) : w \in Range(s.positional) \cap Scripts} ELSE {})
                  \cup (IF s.head = "git" /\ {"reset", "--hard"} \subseteq Range(s.argv) THEN {cwd} ELSE {}) :
              i \in DOMAIN Segments(a)}
  ELSE IF AllHeads(a) \cap Destroyers # {} THEN {p.path : p \in {q \in a.paths : IsDestination(q)}}
  ELSE {}

Granted(ctx) == ctx.approved /\ ctx.source \in {"pending", "written_file"}

Destroys(rule, reach, subject, ctx) ==
  Finding("C7", rule, IF Granted(ctx) THEN {} ELSE Both(reach, 1000, subject))

Destruction(a, ctx) ==
  IF "host_gated" \notin ctx.packs \/ ~HasShape(a) THEN {}
  ELSE {Destroys("C7", IF p = Workspace THEN 500 ELSE 750, Subject(p, ctx), ctx) :
          p \in {t \in Targets(a) : t = Workspace \/ t \notin Scratch}}

SqlDestruction(a, ctx) ==
  IF "sql" \in (IF a.kind = "exec" THEN a.text ELSE a.content)
  THEN {Destroys("C7.sql", 750, AnySubject, ctx)} ELSE {}

Utilities == {"ls", "cat"}
SystemPaths == {"/usr/bin/ls"}

Privilege(a, ctx) ==
  LET shape == a.shape
      env == (IF HasShape(a) THEN shape.env ELSE {}) \cup (a.text \cap {"LD_PRELOAD=x", "PATH=x"})
      odd == HasShape(a) /\ \E w \in shape.head_paths \ SystemPaths : Called[w] \in Utilities
      Hides == {<<"reach", 750, AnySubject>>, <<"concealment", 600, AnySubject>>}
  IN  IF a.kind # "exec" THEN {}
      ELSE (IF (HasShape(a) /\ Privileged(shape)) \/ AllHeads(a) \cap {"su", "sudo"} # {}
            THEN {Finding("C8", "C8.sudo", IF "host_gated" \in ctx.packs
                                           THEN {<<"reach", 750, AnySubject>>} ELSE {})} ELSE {})
           \cup (IF "setuid" \in a.text THEN {Finding("C8", "C8.setuid", {<<"reach", 750, AnySubject>>})} ELSE {})
           \cup (IF "LD_PRELOAD=x" \in env THEN {Finding("C8", "C8.preload", Hides)} ELSE {})
           \cup (IF "PATH=x" \in env \/ odd THEN {Finding("C8", "C8.shadowing", Hides)} ELSE {})

Remote(a) ==
  LET subjects == IF a.recipients # {} THEN a.recipients
                  ELSE IF a.hosts # <<>> THEN DestinationHosts(a) ELSE {AnySubject}
      remote == \/ a.kind = "exec" /\ "remote" \in a.text
                \/ a.kind \in {"mcp", "other"} /\ ~a.reads
                     /\ ("remote" \in a.tool \/ ("amount" \in a.content /\ a.recipients # {}))
  IN  IF remote THEN {Finding("C9", "C9", Both(1000, 1000, CHOOSE t \in subjects : TRUE))} ELSE {}

Artefact(a, ctx) ==
  LET holds == "placeholder" \in (IF a.kind \in WriteKinds THEN a.content ELSE a.text)
      Leaks(rule, subject) == Finding("C10", rule, {<<"sensitivity", SensitivityOf.artefact, subject>>})
      git == {s \in Range(Segments(a)) : s.head = "git" /\ s.positional # <<>>}
      secret == {p \in Known(a) : Groups(p) \cap SensitiveGroups # {}}
  IN  (IF a.kind \in WriteKinds \cup {"exec"} /\ holds
       THEN {Sensed(Leaks("placeholder_in_write", Subject(p, ctx))) :
               p \in {q \in Written(a) : "credential_store" \notin Groups(q)}} ELSE {})
      \cup (IF \E s \in git : /\ s.positional[1] \in {"add", "commit"}
                              /\ \/ \E w \in Range(s.argv) : TopGroup(w) # None
                                 \/ s.positional[1] = "commit" /\ "-a" \in s.flags /\ a.groups # {}
            THEN {Sensed(Leaks("committed", CHOOSE t \in OrAny(secret) : TRUE))} ELSE {})
      \cup (IF /\ \E s \in git : s.positional[1] = "push"
               /\ "holds_sensitive" \in ctx.flags /\ ctx.placeholders # {}
            THEN {Leaks("push_with_secret", AnySubject)} ELSE {})

Concealment(a) ==
  IF HasShape(a) /\ AllHeads(a) \cap FetchHeads # {} /\ "devnull" \in a.text
  THEN {Finding("conceal", "quiet_network", {<<"concealment", 500, AnySubject>>})} ELSE {}

-----------------------------------------------------------------------------
(* Extent, and all detectors.                                              *)

Bonus == 250

Extent(a) ==
  (IF \/ \E s \in Range(Segments(a)) : s.head \in {"rm", "cp"} /\ s.flags \cap {"-r", "-rf"} # {}
      \/ a.kind = "exec" /\ HasShape(a) /\ "bulk" \in a.text
   THEN {"recursive"} ELSE {})
  \cup (IF a.kind = "exec" /\ HasShape(a) /\ "wildcard" \in a.text THEN {"wildcard"} ELSE {})
  \cup (IF Cardinality(a.recipients) > BulkRecipients THEN {"bulk_recipients"} ELSE {})

Extended(c) ==
  IF c.signal = "reach" /\ c.value > 0 THEN [c EXCEPT !.value = Min({Scale, c.value + Bonus})] ELSE c

ClaimsOf(findings) == UNION {f.claims : f \in findings}

(* apply_extent.                                                            *)
WithExtent(findings, a) ==
  LET raised == {[f EXCEPT !.claims = {Extended(c) : c \in @}] : f \in findings}
      reach == ValuesOf(ClaimsOf(raised), "reach")
  IN  IF Extent(a) = {} \/ reach = {} THEN findings
      ELSE raised \cup {Finding("extent", "extent", {<<"reach", Max(reach), AnySubject>>})}

(* run_detectors.                                                           *)
Findings(a, ctx) ==
  WithExtent(Credentials(a, ctx) \cup Exfil(a, ctx) \cup UntrustedCode(a, ctx) \cup OtherCode(a, ctx)
               \cup Guardrail(a, ctx) \cup SelfMod(a, ctx) \cup Destruction(a, ctx)
               \cup SqlDestruction(a, ctx) \cup Privilege(a, ctx) \cup Remote(a)
               \cup Artefact(a, ctx) \cup Concealment(a), a)

-----------------------------------------------------------------------------
(* The probe.  A batch: the pending call, the file it runs as a command     *)
(* (None if none), the commands it resolves to, and its siblings.           *)

Used(a) == {p.path : p \in {q \in a.paths : q.roles \ {"mentioned"} # {}}}
Destinations(a) == {p.path : p \in {q \in a.paths : IsDestination(q)}}

(* fed_paths, on paths other than the root.                                 *)
FedPaths(written, used) ==
  {u \in used : \E w \in written : <<u, w>> \in Inside \/ <<w, u>> \in Inside \/ u = w}

(* Mutant: of tampering in the batch only the host's approvals count.       *)
CountsForApprovals(f) == f.rule = "C4.host_approvals"

CountsForTheBatch(f) == f.cls = "C4*" \/ f.rule = "C4.host_approvals"

(* The suspicion of a step of a saved skill, halved if the skill warns of it. *)
StepSuspicion(f, step) ==
  LET weight == IF f.rule \in {"fetch_to_shell", "decode_to_shell"} THEN 800
                ELSE IF f.rule = "install_from_url" THEN 600
                ELSE IF f.rule = "C8.sudo" THEN 500
                ELSE IF f.cls = "C2" THEN IF f.rule = "send" THEN 500 ELSE 850
                ELSE IF f.cls = "C1" THEN 600 ELSE 0
  IN  {Claim("aira", "overreach", IF step = "warned" THEN weight \div 2 ELSE weight, c.subject) :
         c \in {d \in f.claims : weight > 0}}

As(ctx, source) == [ctx EXCEPT !.source = source]

OfResolved(batch, ctx) ==
  UNION {Findings(r, As(ctx, "resolved")) : r \in {q \in batch.resolved : q.step = "no"}}

(* Of a sibling counts what tampers, and all of it if it feeds the call.     *)
FromSibling(batch, s, ctx) ==
  {f \in Findings(s, As(ctx, "sibling")) :
     FedPaths(Destinations(s), Used(batch.pending)) # {} \/ CountsForTheBatch(f)}

Counted(batch, ctx) ==
  Findings(batch.pending, As(ctx, "pending"))
  \cup (IF batch.written = None THEN {} ELSE Findings(batch.written, As(ctx, "written_file")))
  \cup OfResolved(batch, ctx)
  \cup UNION {FromSibling(batch, s, ctx) : s \in batch.siblings}

OfStep(r, ctx) ==
  UNION {f.claims \cup StepSuspicion(f, r.step) : f \in Findings(r, As(ctx, "resolved"))}

(* A step of a skill has not run: it sets no flag and no floor.             *)
Answer(counted, ofSteps) ==
  Answered(ClaimsOf(counted) \cup ofSteps, UNION {f.floors : f \in counted},
           UNION {f.flags : f \in counted}, NoEvidence)

AiraEnvelope(batch, ctx) ==
  Answer(Counted(batch, ctx), UNION {OfStep(r, ctx) : r \in {q \in batch.resolved : q.step # "no"}})

=============================================================================
