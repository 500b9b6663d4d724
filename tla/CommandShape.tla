---------------------------- MODULE CommandShape ----------------------------
(***************************************************************************)
(* The structure of a shell command (sentrook/aira/exec_shape.py).  The    *)
(* parser is tree-sitter's; a command is the tree it returns:              *)
(*   command     words (name and arguments, unquoted), assignments before  *)
(*               the name, and the substitutions among its parts           *)
(*   redirected  one part, and the redirections after it                   *)
(*   pipeline, list   their parts in order                                 *)
(* `at` tells two nodes apart.                                             *)
(***************************************************************************)
EXTENDS CommandWords
LOCAL INSTANCE SequencesExt

CONSTANTS
  Durations,    \* words that a timeout takes
  Assignments   \* words of the form NAME=value

ASSUME ShapeAssumption == Options \cap (Durations \cup Assignments) = {}

Wrappers == {"timeout", "nice", "env", "xargs", "sudo"}
WrapperValueFlags ==
  [w \in Wrappers |-> CASE w = "timeout" -> {"-s", "-k"} [] w = "nice" -> {"-n"}
                        [] w = "xargs" -> {"-n", "-I"} [] w = "sudo" -> {"-u", "-g"}
                        [] OTHER -> {}]

NetHeads == {"curl", "wget"}
InlineEvalFlags == [h \in Shells \cup Interpreters |->
                      CASE h = "python3" -> {"-c", "-m"} [] h = "node" -> {"-e", "-p"}
                        [] OTHER -> {"-c"}]

Node(type, at, words, set, to, parts) ==
  [type |-> type, at |-> at, words |-> words, set |-> set, to |-> to, parts |-> parts]

-----------------------------------------------------------------------------
(* Wrappers.                                                               *)

(* The words after a wrapper's own options, with their values.              *)
RECURSIVE AfterOptions(_, _)
AfterOptions(words, valued) ==
  IF words = <<>> \/ Head(words) \notin Options THEN words
  ELSE IF Head(words) \in valued /\ Len(words) > 1 THEN AfterOptions(Tail(Tail(words)), valued)
  ELSE AfterOptions(Tail(words), valued)

(* ... and after the argument it takes before the command: one duration, or *)
(* any number of assignments.                                              *)
RECURSIVE AfterArgument(_, _)
AfterArgument(wrapper, words) ==
  IF words = <<>> THEN words
  ELSE IF wrapper = "timeout" /\ Head(words) \in Durations THEN Tail(words)
  ELSE IF wrapper \in {"env", "sudo"} /\ Head(words) \in Assignments
       THEN AfterArgument(wrapper, Tail(words))
  ELSE words

(* Mutant: an option's value is taken for the command.                      *)
PastWrapperFlagsOnly(wrapper, words) == AfterArgument(wrapper, AfterOptions(words, {}))

PastWrapper(wrapper, words) ==
  AfterArgument(wrapper, AfterOptions(words, WrapperValueFlags[wrapper]))

(* _strip_wrappers: peels at most eight; a wrapper with no command after it  *)
(* is the command.                                                         *)
Peels == 8

RECURSIVE Peeled(_, _)
Peeled(words, left) ==
  LET wrapper == Named(Head(words))
      rest == IF wrapper \in Wrappers THEN PastWrapper(wrapper, Tail(words)) ELSE <<>>
      own == IF wrapper \in {"env", "sudo"}
             THEN Range(SubSeq(words, 2, Len(words) - Len(rest))) \cap Assignments ELSE {}
  IN  IF wrapper \notin Wrappers \/ Len(words) = 1 \/ left = 0
      THEN [words |-> words, wrappers |-> {}, set |-> {}]
      ELSE IF rest = <<>> THEN [words |-> words, wrappers |-> {}, set |-> own]
      ELSE LET inner == Peeled(rest, left - 1)
           IN  [inner EXCEPT !.wrappers = @ \cup {wrapper}, !.set = @ \cup own]

StripWrappers(words) == Peeled(words, Peels)

-----------------------------------------------------------------------------
(* Commands of a tree, depth first.                                        *)

WriteOps == {">", ">>", "&>"}
NullSinks == {"/dev/null"}

(* Where a redirection stores: not a read, not a descriptor, not discarded. *)
WriteTargets(redirects) ==
  {r.path : r \in {q \in redirects : q.op \in WriteOps /\ q.path \notin NullSinks}}

RECURSIVE CollectCommands(_)
CollectCommands(node) ==
  IF node.type = "redirected"
  THEN LET inside == CollectCommands(node.parts[1]) n == Len(inside)
       IN  IF n = 0 THEN inside
           ELSE [inside EXCEPT ![n].redirects = @ \cup WriteTargets(node.to)]
  ELSE (IF node.type = "command"
        THEN <<[words |-> node.words, set |-> node.set, redirects |-> {}, at |-> node.at]>>
        ELSE <<>>)
       \o FlattenSeq([i \in DOMAIN node.parts |-> CollectCommands(node.parts[i])])

RECURSIVE Nodes(_)
Nodes(node) == {node} \cup UNION {Nodes(node.parts[i]) : i \in DOMAIN node.parts}

Pipes(node) == {n \in Nodes(node) : n.type = "pipeline"}

(* The head of a stage: of its first command, wrappers off.                 *)
FirstHead(node) ==
  LET found == CollectCommands(node)
  IN  IF found = <<>> THEN "" ELSE Named(StripWrappers(found[1].words).words[1])

SinkOf ==
  [h \in Shells \cup Interpreters \cup NetHeads |->
     CASE h \in Shells -> "pipe_to_shell" [] h \in Interpreters -> "pipe_to_interpreter"
       [] OTHER -> "pipe_to_net"]

PipeSinks(node) ==
  LET fed == UNION {Range(Tail(p.parts)) : p \in Pipes(node)}
  IN  {SinkOf[h] : h \in {FirstHead(n) : n \in fed} \cap DOMAIN SinkOf}

Peel(raw, peeled) ==
  [head |-> Named(peeled.words[1]), written |-> peeled.words[1],
   argv |-> Tail(peeled.words), flags |-> Range(Tail(peeled.words)) \cap Options,
   positional |-> SelectSeq(Tail(peeled.words), LAMBDA w : w \notin Options),
   redirects |-> raw.redirects, wrappers |-> peeled.wrappers,
   set |-> raw.set \cup peeled.set]

Segment(raw) == Peel(raw, StripWrappers(raw.words))

IsInlineEval(segment) ==
  \/ segment.head \in {"eval", "source"}
  \/ /\ segment.head \in DOMAIN InlineEvalFlags
     /\ Range(segment.argv) \cap InlineEvalFlags[segment.head] # {}

(* The stages of each pipeline of two or more, as indices of segments.      *)
Pipelines(node, raws) ==
  LET stages(p) ==
        LET firsts == [i \in DOMAIN p.parts |-> CollectCommands(p.parts[i])]
            seen == SelectSeq(firsts, LAMBDA f : f # <<>>)
        IN  [i \in DOMAIN seen |-> CHOOSE k \in DOMAIN raws : raws[k].at = seen[i][1].at]
  IN  {s \in {stages(p) : p \in Pipes(node)} : Len(s) >= 2}

(* Mutant: a command that does not parse has no heads.                      *)
HeadsIfParsed(segments, parses) == IF parses THEN {s.head : s \in Range(segments)} ELSE {}

Heads(segments, parses) == {s.head : s \in Range(segments)}

(* derive_exec_shape.  A command with an error in its parse keeps what can  *)
(* only add to its score; its segments are dropped.                        *)
ShapeOf(tree, parses, raws, segments) ==
  [parse_ok |-> parses, heads |-> Heads(segments, parses),
   wrappers |-> UNION {s.wrappers : s \in Range(segments)},
   inline_eval |-> \E s \in Range(segments) : IsInlineEval(s),
   sinks |-> PipeSinks(tree),
   substitution |-> \E n \in Nodes(tree) : n.type = "command" /\ n.parts # <<>>,
   env |-> UNION {s.set : s \in Range(segments)},
   head_paths |-> {s.written : s \in Range(segments)} \cap DOMAIN Called,
   redirect_targets |-> UNION {WriteTargets(n.to) : n \in Nodes(tree)},
   segments |-> IF parses THEN segments ELSE <<>>,
   pipelines |-> IF parses THEN Pipelines(tree, raws) ELSE {}]

ExecShape(tree, parses) ==
  LET raws == CollectCommands(tree)
  IN  ShapeOf(tree, parses, raws, [i \in DOMAIN raws |-> Segment(raws[i])])

=============================================================================
