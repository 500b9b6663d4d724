---------------------------- MODULE CommandWords ----------------------------
(***************************************************************************)
(* The words of a shell command (sentrook/aira/exec_shape.py) and whether  *)
(* a pipeline stage runs what is piped into it (stage_programs.py).  Words *)
(* are strings that the constants and the sets below sort as the code's    *)
(* expressions do.                                                         *)
(***************************************************************************)
EXTENDS Integers, FiniteSets, Sequences

CONSTANTS
  Options,      \* words that begin with a dash, "-" apart
  Scripts,      \* words that look like a file: a slash or a dot in them
  Called,       \* the program name of each word that is written as a path
  RunsInput     \* inline programs that run their standard input

ASSUME WordsAssumption ==
  /\ Options \cap Scripts = {}
  /\ DOMAIN Called \subseteq Scripts

Named(word) == IF word \in DOMAIN Called THEN Called[word] ELSE word

Shells == {"bash", "sh"}
Interpreters == {"python3", "node"}

PrivilegeWrappers == {"sudo"}
Privileged(shape) == shape.wrappers \cap PrivilegeWrappers # {}

-----------------------------------------------------------------------------
(* stage_runs_stdin: an argument list either names a program of its own     *)
(* before it ends, or leaves the stage to run its standard input.           *)

ProgramFlags == [h \in Shells \cup Interpreters |-> IF h = "node" THEN {"-e", "-p"} ELSE {"-c"}]
ValueFlags == [h \in Shells \cup Interpreters |-> IF h = "python3" THEN {"-W"} ELSE {"-o"}]
StdinFlags == [h \in Shells \cup Interpreters |-> IF h \in Shells THEN {"-s"} ELSE {}]

ArgumentsRunStdin(head, argv) ==
  LET n == Len(argv)
      from[i \in 1..n + 2] ==
        IF i > n THEN TRUE
        ELSE IF argv[i] \in {"-", "/dev/stdin"} \cup StdinFlags[head] THEN TRUE
        ELSE IF argv[i] = "--" THEN i = n \/ argv[i + 1] \notin Scripts
        ELSE IF argv[i] \in ProgramFlags[head] THEN i = n \/ argv[i + 1] \in RunsInput
        ELSE IF argv[i] \in ValueFlags[head] THEN from[i + 2]
        ELSE IF argv[i] \in Options THEN from[i + 1]
        ELSE argv[i] \notin Scripts
  IN  from[1]

RunsStdin(segment) ==
  segment.head \notin Shells \cup Interpreters \/ ArgumentsRunStdin(segment.head, segment.argv)

=============================================================================
