------------------------------- MODULE Ledger -------------------------------
(***************************************************************************)
(* What the owner's files promise: each is a ledger.  A command takes      *)
(* effect at once or not at all, on the entries the file holds at that     *)
(* moment, and nothing else changes them but the owner's own editing.      *)
(* OwnerStore implements this (Serialised) while one process has the files. *)
(***************************************************************************)
EXTENDS Naturals

CONSTANTS FileNames, Unreadable, Empty(_),
          Commands,
          FileOf(_),        \* the file a command is about
          Outcomes(_, _, _) \* what it may make of its contents, at a time

VARIABLES file,   \* what each file holds
          now     \* the clock

vars == <<file, now>>

Init ==
  /\ file = [f \in FileNames |-> Empty(f)]
  /\ now = 0

(* The command read the clock at some time up to now.                       *)
Apply(cmd, at) ==
  /\ file[FileOf(cmd)] # Unreadable
  /\ \E o \in Outcomes(cmd, file[FileOf(cmd)], at) :
       file' = [file EXCEPT ![FileOf(cmd)] = o.data]
  /\ UNCHANGED now

(* The owner spoils a file, or removes it.                                  *)
Edit(f) ==
  /\ \E new \in {Unreadable, Empty(f)} : file' = [file EXCEPT ![f] = new]
  /\ UNCHANGED now

Tick == now' = now + 1 /\ UNCHANGED file

Next ==
  \/ \E cmd \in Commands, at \in 0..now : Apply(cmd, at)
  \/ \E f \in FileNames : Edit(f)
  \/ Tick

Spec == Init /\ [][Next]_vars

=============================================================================
