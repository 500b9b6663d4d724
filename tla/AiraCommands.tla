----------------------------- MODULE AiraCommands -----------------------------
(***************************************************************************)
(* From commands to the calls that AiraSession judges: the analysis of a   *)
(* call (aira/analysis.py) out of the shape of its command, and what a     *)
(* wrapper or a parse error may hide of it.                                *)
(***************************************************************************)
EXTENDS AiraSession, CommandShape
LOCAL INSTANCE SequencesExt

CONSTANT Wraps   \* wrappers with their arguments, as words

ASSUME CommandAssumption == \A p \in Wraps : p # <<>> /\ Named(p[1]) \in Wrappers

(* analyse: the shape, unless the command is interpreter source; that of the *)
(* command it decodes to; and the segments' words, or those of the command  *)
(* as one text.                                                            *)
Texts(tree, shape) ==
  IF shape # None /\ shape.segments # <<>> THEN {WordsOf(s) : s \in Range(shape.segments)}
  ELSE {FoldLeft(LAMBDA words, raw : words \o raw.words, <<>>, CollectCommands(tree))}

WithTexts(call) ==
  [call EXCEPT !.lines = IF call.kind = "exec" /\ call.tree # None
                         THEN Texts(call.tree, call.shape) ELSE {}]

Analysed(call) ==
  LET read == call.kind = "exec" /\ call.tree # None /\ ~call.inline
  IN  WithTexts(
        [call EXCEPT
           !.shape = IF read THEN ExecShape(call.tree, call.parses) ELSE None,
           !.undone = IF read /\ call.decoded # None THEN ExecShape(call.decoded, TRUE) ELSE None])

(* written_file_call: what a file holds, as a command of its own.           *)
AnalysedFile(tree) == Analysed([Nothing EXCEPT !.kind = "exec", !.tree = tree])

(* _commands_in: the commands of a script in a word.                        *)
LinesOfScript(tree) == {WordsOf(s) : s \in Range(ExecShape(tree, TRUE).segments)}

-----------------------------------------------------------------------------
RECURSIVE Wrapped(_, _)
Wrapped(node, prefix) ==
  [node EXCEPT !.words = IF node.type = "command" THEN prefix \o @ ELSE @,
               !.parts = [i \in DOMAIN @ |-> Wrapped(@[i], prefix)]]

Commands == {c \in Library : Calls[c].kind = "exec"}
AnalysesOfWrapped ==
  [c \in Commands |-> {Analysed([Calls[c] EXCEPT !.tree = Wrapped(@, p)]) : p \in Wraps}]
AnalysisOfDamaged == [c \in Commands |-> Analysed([Calls[c] EXCEPT !.parses = FALSE])]

CoveredBy(bare, envelope) ==
  /\ \A s \in Signals : Value(envelope, s) >= Value(bare, s)
  /\ bare.floors \subseteq envelope.floors

(* Wrappers, with their options and arguments, never hide what they run: a   *)
(* wrapped command claims at least what it claims bare, with the same floors. *)
WrappersHideNothing ==
  batch = <<>> => \A c \in Commands :
    \A envelopes \in {[call \in {Calls[c]} \cup AnalysesOfWrapped[c] |-> Alone(call)]} :
      \A wrapped \in AnalysesOfWrapped[c] : CoveredBy(envelopes[Calls[c]], envelopes[wrapped])

RulesIn(findings) == {f.rule : f \in findings}

(* "a class we can still see is a reason to score": reads of credentials,     *)
(* destruction and elevation are seen in a command that does not parse.     *)
DamagedStillScores ==
  batch = <<>> => \A c \in Commands :
    \A call \in {Calls[c]}, damaged \in {AnalysisOfDamaged[c]}, ctx \in {Context(Calls[c], {})} :
      /\ RulesIn(Credentials(call, ctx)) \subseteq RulesIn(Credentials(damaged, ctx))
      /\ RulesIn(Privilege(call, ctx)) \subseteq RulesIn(Privilege(damaged, ctx))
      /\ AllHeads(call) \cap Destroyers # {} =>
           RulesIn(Destruction(call, ctx)) \subseteq RulesIn(Destruction(damaged, ctx))

=============================================================================
