----------------------------- MODULE OwnerStore -----------------------------
(***************************************************************************)
(* The owner's commands at work on grants.json and snooze.json             *)
(* (_change of grants.py, run of snooze.py, _changed of commands.py).  A    *)
(* command reads the clock, takes the process's lock of the file, reads    *)
(* it, writes it whole, lets go of the lock and tells the traffic log.     *)
(* Threads of the host and `hermes sentrook` in a shell do so side by      *)
(* side, and only threads of one process share a lock.                     *)
(***************************************************************************)
EXTENDS OwnerFiles

CONSTANTS Processes,           \* each a set of threads
          MaxCommands, MaxNow  \* bounds of a run

Threads == UNION Processes

ASSUME ProcessAssumption == \A p, q \in Processes : p # q => p \cap q = {}

VARIABLES
  file,      \* what each file holds
  work,      \* the command each thread is at, or Idle
  log,       \* the changes the traffic log tells of
  unlogged,  \* history: the changes it will never tell of
  now,       \* the clock
  given      \* how many commands and edits there were

vars == <<file, work, log, unlogged, now, given>>

Idle == [phase |-> "idle"]
Waiting(cmd, at) == [phase |-> "waiting", cmd |-> cmd, at |-> at]
Writing(cmd, at, o) == [phase |-> "writing", cmd |-> cmd, at |-> at, out |-> o]
Logging(record) == [phase |-> "logging", record |-> record]

Init ==
  /\ file = [f \in FileNames |-> Empty(f)]
  /\ work = [t \in Threads |-> Idle]
  /\ log = {}
  /\ unlogged = {}
  /\ now = 0
  /\ given = 0

Set(t, w) == work' = [work EXCEPT ![t] = w]

WritesTo(t, f) == work[t].phase = "writing" /\ FileOf(work[t].cmd) = f

(* Mutant: the lock is one of the thread.                                   *)
UnlockedForAll(t, f) == TRUE

(* _LOCK of grants.py and of snooze.py: one per process and file.           *)
Unlocked(t, f) ==
  \A p \in Processes, u \in Threads : t \in p /\ u \in p => ~WritesTo(u, f)

-----------------------------------------------------------------------------
(* A command, past the owner check and the parser; the clock is read first. *)
Give(t, cmd) ==
  /\ work[t] = Idle
  /\ given < MaxCommands
  /\ Set(t, Waiting(cmd, now))
  /\ given' = given + 1
  /\ UNCHANGED <<file, log, unlogged, now>>

(* Under the lock: the file is read and changed in memory.  When it cannot  *)
(* be read, or there is nothing to change, the command only replies.        *)
Load(t) ==
  /\ work[t].phase = "waiting"
  /\ LET cmd == work[t].cmd  f == FileOf(cmd)  at == work[t].at IN
       /\ Unlocked(t, f)
       /\ \/ /\ file[f] # Unreadable
             /\ \E o \in Outcomes(cmd, file[f], at) : Set(t, Writing(cmd, at, o))
          \/ /\ \/ file[f] = Unreadable
                \/ file[f] # Unreadable /\ Outcomes(cmd, file[f], at) = {}
             /\ Set(t, Idle)
  /\ UNCHANGED <<file, log, unlogged, now, given>>

(* save_grants, save_snooze: a new file takes the place of the old one.     *)
Write(t) ==
  /\ work[t].phase = "writing"
  /\ file' = [file EXCEPT ![FileOf(work[t].cmd)] = work[t].out.data]
  /\ Set(t, Logging(work[t].out.record))
  /\ UNCHANGED <<log, unlogged, now, given>>

(* Mutant: a change that could not be saved is logged.                      *)
WriteFailedLogged(t) ==
  /\ work[t].phase = "writing"
  /\ Set(t, Logging(work[t].out.record))
  /\ UNCHANGED <<file, log, unlogged, now, given>>

(* An exception: the file stays, and the owner is told of the failure.      *)
WriteFailed(t) ==
  /\ work[t].phase = "writing"
  /\ Set(t, Idle)
  /\ UNCHANGED <<file, log, unlogged, now, given>>

(* _changed: the traffic log is told when the lock has been given up.       *)
Log(t) ==
  /\ work[t].phase = "logging"
  /\ log' = log \cup {work[t].record}
  /\ Set(t, Idle)
  /\ UNCHANGED <<file, unlogged, now, given>>

(* TrafficLog.write swallows its errors.                                    *)
LogFailed(t) ==
  /\ work[t].phase = "logging"
  /\ unlogged' = unlogged \cup {work[t].record}
  /\ Set(t, Idle)
  /\ UNCHANGED <<file, log, now, given>>

Crash(p) ==
  /\ work' = [t \in Threads |-> IF t \in p THEN Idle ELSE work[t]]
  /\ unlogged' = unlogged \cup
       {work[t].record : t \in {u \in p : work[u].phase = "logging"}}
  /\ \E t \in p : work[t] # Idle
  /\ UNCHANGED <<file, log, now, given>>

(* The owner spoils a file with an editor, or removes it, while no command  *)
(* is at it.                                                               *)
Edit(f) ==
  /\ \A t \in Threads : ~WritesTo(t, f)
  /\ given < MaxCommands
  /\ given' = given + 1
  /\ \E new \in {Unreadable, Empty(f)} : file' = [file EXCEPT ![f] = new]
  /\ unlogged' = unlogged \cup
       (IF f = "grants" /\ file[f] # Unreadable
        THEN {[op |-> "edit", entries |-> file[f].grants]} ELSE {})
  /\ UNCHANGED <<work, log, now>>

Tick ==
  /\ now < MaxNow
  /\ now' = now + 1
  /\ UNCHANGED <<file, work, log, unlogged, given>>

Next ==
  \/ \E t \in Threads :
       \/ \E cmd \in Commands : Give(t, cmd)
       \/ Load(t)
       \/ Write(t)
       \/ WriteFailed(t)
       \/ Log(t)
       \/ LogFailed(t)
  \/ \E p \in Processes : Crash(p)
  \/ \E f \in FileNames : Edit(f)
  \/ Tick

Spec == Init /\ [][Next]_vars

-----------------------------------------------------------------------------
(* Properties.                                                             *)

(* The files, the threads' work and the records have their types.           *)
TypeOK ==
  /\ file["grants"] \in GrantFiles \cup {Unreadable}
  /\ file["snooze"] \in SnoozeFiles \cup {Unreadable}
  /\ \A t \in Threads :
       \/ work[t] = Idle
       \/ work[t].phase \in {"waiting", "writing"}
          /\ work[t].cmd \in Commands /\ work[t].at \in 0..now
       \/ work[t].phase = "logging"
  /\ now \in Nat /\ given \in Nat

L == INSTANCE Ledger

(* With one process each file is a ledger: a command works on what the file  *)
(* holds when it is written, so no change is lost, undone or made twice,    *)
(* whatever the threads do and wherever they fail (_change, snooze.run).    *)
Serialised == L!Spec

(* Records written, about to be, or lost.                                   *)
Told(op) ==
  LET records == log \cup unlogged
                 \cup {work[t].record : t \in {u \in Threads : work[u].phase = "logging"}}
  IN  UNION {r.entries : r \in {x \in records : x.op = op}}

(* What a scan sends is what the traffic log says is in force: every grant   *)
(* that was given, in its session, until it expires or is revoked, as far   *)
(* as the log could be written and no one edited the file.                  *)
SentIsOnRecord ==
  file["grants"] # Unreadable =>
    \A s \in Sessions :
      LET sent == Effective(file["grants"], now, s) IN
        /\ sent \subseteq {g \in Told("grant") : g.ref \in {None, s}}
        /\ \A g \in Told("grant") :
             g.ref \in {None, s} /\ ~Expired(g, now) =>
               g \in sent \cup Told("revoke") \cup Told("edit")

ActiveIn(s) == file["snooze"] # Unreadable /\ Active(file["snooze"], s, now)

(* Reviews of a session become snoozed only when a command snoozes them:     *)
(* one that was ended does not come back.                                   *)
ReliefOnlyBySet ==
  [][\A s \in Sessions : ~ActiveIn(s) /\ ActiveIn(s)' =>
       \E t \in Threads :
         /\ WritesTo(t, "snooze") /\ work'[t].phase = "logging"
         /\ work[t].cmd.op = "set" /\ work[t].cmd.ref \in {None, s}]_vars

(* A snooze that applies is dropped only by `off` where it applies, by a new *)
(* one for the same session, as the oldest of too many, or by a command so   *)
(* late to the lock that the snooze, by the clock it read before, would have *)
(* more than the longest time to go (_live).                                *)
SnoozeLasts ==
  [][\A t \in Threads :
       WritesTo(t, "snooze") /\ work'[t].phase = "logging" /\ file["snooze"] # Unreadable =>
         \A e \in EntriesOf(file["snooze"]) :
           Live(e, now) /\ e \notin EntriesOf(file'["snooze"]) =>
             LET cmd == work[t].cmd IN
               \/ cmd.op = "off" /\ (cmd.ref = None \/ e.ref \in {None, cmd.ref})
               \/ cmd.op = "set" /\ e.ref = cmd.ref
               \/ cmd.op = "set" /\ Len(file["snooze"]) = MaxEntries
                                 /\ e = file["snooze"][1]
               \/ e.until > work[t].at + SnoozeMax]_vars

=============================================================================
