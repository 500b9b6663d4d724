-------------------------- MODULE OwnerStoreProofs --------------------------
(***************************************************************************)
(* Theorems about OwnerStore for every value of its constants, where one   *)
(* process has the files.                                                  *)
(***************************************************************************)
EXTENDS OwnerStore, WellFoundedInduction, TLAPS

OneProcess == \A p, q \in Processes : p = q

(* Whatever a thread is at, it has a clock reading of the past.             *)
WorkShape ==
  /\ work = [t \in Threads |-> work[t]]
  /\ \A t \in Threads :
       \/ work[t] = Idle
       \/ \E cmd \in Commands, at \in 0..now : work[t] = Waiting(cmd, at)
       \/ \E cmd \in Commands, at \in 0..now : \E o : work[t] = Writing(cmd, at, o)
       \/ \E r : work[t] = Logging(r)

(* What is about to be written was made of what the file still holds.       *)
CopyInv ==
  \A t \in Threads :
    work[t].phase = "writing" =>
      LET cmd == work[t].cmd IN
        /\ file[FileOf(cmd)] # Unreadable
        /\ work[t].out \in Outcomes(cmd, file[FileOf(cmd)], work[t].at)

(* One thread at a time is about to write a file.                           *)
LockInv ==
  \A t, u \in Threads, f \in FileNames : WritesTo(t, f) /\ WritesTo(u, f) => t = u

Inv ==
  /\ file = [f \in FileNames |-> file[f]]
  /\ now \in Nat
  /\ WorkShape
  /\ CopyInv
  /\ LockInv

LEMMA Phases ==
  /\ Idle.phase = "idle"
  /\ \A cmd, at : /\ Waiting(cmd, at).phase = "waiting"
                  /\ Waiting(cmd, at).cmd = cmd /\ Waiting(cmd, at).at = at
  /\ \A cmd, at, o : /\ Writing(cmd, at, o).phase = "writing"
                     /\ Writing(cmd, at, o).cmd = cmd /\ Writing(cmd, at, o).at = at
                     /\ Writing(cmd, at, o).out = o
  /\ \A r : Logging(r).phase = "logging" /\ Logging(r).record = r
  BY DEF Idle, Waiting, Writing, Logging

LEMMA FilesOfCommands ==
  ASSUME NEW cmd
  PROVE  FileOf(cmd) \in FileNames
  BY DEF FileOf, FileNames

(* A step of one thread that ends out of the writing phase and leaves the    *)
(* files alone keeps the invariant.                                        *)
LEMMA QuietWork ==
  ASSUME Inv, NEW t \in Threads, NEW w,
         work' = [work EXCEPT ![t] = w], UNCHANGED <<file, now>>,
         \/ w = Idle
         \/ \E cmd \in Commands, at \in 0..now : w = Waiting(cmd, at)
         \/ \E r : w = Logging(r)
  PROVE  Inv'
<1>1. /\ work'[t] = w
      /\ \A u \in Threads \ {t} : work'[u] = work[u]
      /\ work' = [u \in Threads |-> work'[u]]
  BY DEF Inv, WorkShape
<1>2. w.phase # "writing"
  BY Phases
<1>3. WorkShape'
  <2> SUFFICES ASSUME NEW u \in Threads
               PROVE  (\/ work[u] = Idle
                       \/ \E cmd \in Commands, at \in 0..now : work[u] = Waiting(cmd, at)
                       \/ \E cmd \in Commands, at \in 0..now : \E o : work[u] = Writing(cmd, at, o)
                       \/ \E r : work[u] = Logging(r))'
    BY <1>1 DEF WorkShape
  <2>1. CASE u = t
    BY <2>1, <1>1
  <2>2. CASE u # t
    BY <2>2, <1>1 DEF Inv, WorkShape
  <2> QED
    BY <2>1, <2>2
<1>4. CopyInv'
  BY <1>1, <1>2 DEF Inv, CopyInv
<1>5. LockInv'
  BY <1>1, <1>2 DEF Inv, LockInv, WritesTo
<1> QED
  BY <1>3, <1>4, <1>5 DEF Inv

LEMMA InitInv ==
  ASSUME Init
  PROVE  Inv
<1>1. WorkShape
  BY DEF Init, WorkShape
<1>2. CopyInv
  BY Phases DEF Init, CopyInv
<1>3. LockInv
  BY Phases DEF Init, LockInv, WritesTo
<1> QED
  BY <1>1, <1>2, <1>3 DEF Init, Inv

LEMMA LoadInv ==
  ASSUME OneProcess, Inv, NEW t \in Threads, Load(t)
  PROVE  Inv'
<1> DEFINE cmd == work[t].cmd
           at == work[t].at
<1>1. PICK c \in Commands, a \in 0..now : work[t] = Waiting(c, a)
  BY Phases DEF Inv, WorkShape, Load
<1>2. cmd = c /\ at = a
  BY <1>1, Phases
<1>3. CASE Set(t, Idle)
  BY <1>3, QuietWork DEF Load, Set
<1>4. CASE /\ file[FileOf(cmd)] # Unreadable
           /\ \E o \in Outcomes(cmd, file[FileOf(cmd)], at) : Set(t, Writing(cmd, at, o))
  <2>1. PICK o \in Outcomes(cmd, file[FileOf(cmd)], at) : Set(t, Writing(cmd, at, o))
    BY <1>4
  <2>2. /\ work'[t] = Writing(cmd, at, o)
        /\ \A u \in Threads \ {t} : work'[u] = work[u]
        /\ work' = [u \in Threads |-> work'[u]]
        /\ UNCHANGED <<file, now>>
    BY <2>1 DEF Inv, WorkShape, Set, Load
  <2>3. WorkShape'
    <3> SUFFICES ASSUME NEW u \in Threads
                 PROVE  (\/ work[u] = Idle
                         \/ \E x \in Commands, y \in 0..now : work[u] = Waiting(x, y)
                         \/ \E x \in Commands, y \in 0..now : \E z : work[u] = Writing(x, y, z)
                         \/ \E r : work[u] = Logging(r))'
      BY <2>2 DEF WorkShape
    <3>1. CASE u = t
      BY <3>1, <2>2, <1>2
    <3>2. CASE u # t
      BY <3>2, <2>2 DEF Inv, WorkShape
    <3> QED
      BY <3>1, <3>2
  <2>4. CopyInv'
    <3> SUFFICES ASSUME NEW u \in Threads, work'[u].phase = "writing"
                 PROVE  /\ file'[FileOf(work'[u].cmd)] # Unreadable
                        /\ work'[u].out \in
                             Outcomes(work'[u].cmd, file'[FileOf(work'[u].cmd)], work'[u].at)
      BY DEF CopyInv
    <3>1. CASE u = t
      <4>1. work'[u].cmd = cmd /\ work'[u].at = at /\ work'[u].out = o
        BY <3>1, <2>2, Phases
      <4> QED
        BY <4>1, <2>1, <2>2, <1>4
    <3>2. CASE u # t
      BY <3>2, <2>2 DEF Inv, CopyInv
    <3> QED
      BY <3>1, <3>2
  <2>5. LockInv'
    <3>1. \A u \in Threads : ~WritesTo(u, FileOf(cmd))
      <4> SUFFICES ASSUME NEW u \in Threads PROVE ~WritesTo(u, FileOf(cmd))
        OBVIOUS
      <4>1. PICK p \in Processes : t \in p
        BY DEF Threads
      <4>2. u \in p
        BY <4>1 DEF Threads, OneProcess
      <4>3. Unlocked(t, FileOf(cmd))
        BY DEF Load
      <4> QED
        BY <4>1, <4>2, <4>3 DEF Unlocked
    <3>2. \A f \in FileNames : WritesTo(t, f)' => f = FileOf(cmd)
      BY <2>2, Phases DEF WritesTo
    <3> QED
      BY <3>1, <3>2, <2>2 DEF Inv, LockInv, WritesTo
  <2> QED
    BY <2>2, <2>3, <2>4, <2>5 DEF Inv
<1> QED
  BY <1>3, <1>4 DEF Load

LEMMA WriteInv ==
  ASSUME Inv, NEW t \in Threads, Write(t)
  PROVE  Inv'
<1> DEFINE f == FileOf(work[t].cmd)
<1>1. /\ work'[t] = Logging(work[t].out.record)
      /\ \A u \in Threads \ {t} : work'[u] = work[u]
      /\ work' = [u \in Threads |-> work'[u]]
      /\ UNCHANGED now
  BY DEF Inv, WorkShape, Write, Set
<1>2. /\ file' = [g \in FileNames |-> file'[g]]
      /\ \A g \in FileNames \ {f} : file'[g] = file[g]
  BY DEF Inv, Write
<1>3. WorkShape'
  <2> SUFFICES ASSUME NEW u \in Threads
               PROVE  (\/ work[u] = Idle
                       \/ \E x \in Commands, y \in 0..now : work[u] = Waiting(x, y)
                       \/ \E x \in Commands, y \in 0..now : \E z : work[u] = Writing(x, y, z)
                       \/ \E r : work[u] = Logging(r))'
    BY <1>1 DEF WorkShape
  <2>1. CASE u = t
    BY <2>1, <1>1
  <2>2. CASE u # t
    BY <2>2, <1>1 DEF Inv, WorkShape
  <2> QED
    BY <2>1, <2>2
<1>4. work'[t].phase # "writing"
  BY <1>1, Phases
<1>5. CopyInv'
  <2> SUFFICES ASSUME NEW u \in Threads, work'[u].phase = "writing"
               PROVE  /\ file'[FileOf(work'[u].cmd)] # Unreadable
                      /\ work'[u].out \in
                           Outcomes(work'[u].cmd, file'[FileOf(work'[u].cmd)], work'[u].at)
    BY DEF CopyInv
  <2>1. u # t /\ work'[u] = work[u] /\ work[u].phase = "writing"
    BY <1>1, <1>4
  <2>2. FileOf(work[u].cmd) # f
    <3>1. SUFFICES ASSUME FileOf(work[u].cmd) = f PROVE FALSE
      OBVIOUS
    <3>2. f \in FileNames /\ work[t].phase = "writing"
      BY FilesOfCommands DEF Write
    <3>3. WritesTo(u, f) /\ WritesTo(t, f)
      BY <3>1, <3>2, <2>1 DEF WritesTo
    <3> QED
      BY <3>2, <3>3, <2>1 DEF Inv, LockInv
  <2>3. FileOf(work[u].cmd) \in FileNames
    BY FilesOfCommands
  <2> QED
    BY <2>1, <2>2, <2>3, <1>2 DEF Inv, CopyInv
<1>6. LockInv'
  BY <1>1, <1>4 DEF Inv, LockInv, WritesTo
<1> QED
  BY <1>1, <1>2, <1>3, <1>5, <1>6 DEF Inv

LEMMA CrashInv ==
  ASSUME Inv, NEW p \in Processes, Crash(p)
  PROVE  Inv'
<1>1. /\ \A t \in Threads : work'[t] = Idle \/ work'[t] = work[t]
      /\ work' = [t \in Threads |-> work'[t]]
      /\ UNCHANGED <<file, now>>
  BY DEF Crash
<1>2. WorkShape'
  <2> SUFFICES ASSUME NEW u \in Threads
               PROVE  (\/ work[u] = Idle
                       \/ \E x \in Commands, y \in 0..now : work[u] = Waiting(x, y)
                       \/ \E x \in Commands, y \in 0..now : \E z : work[u] = Writing(x, y, z)
                       \/ \E r : work[u] = Logging(r))'
    BY <1>1 DEF WorkShape
  <2> QED
    BY <1>1 DEF Inv, WorkShape
<1>3. CopyInv'
  BY <1>1, Phases DEF Inv, CopyInv
<1>4. LockInv'
  BY <1>1, Phases DEF Inv, LockInv, WritesTo
<1> QED
  BY <1>1, <1>2, <1>3, <1>4 DEF Inv

LEMMA EditInv ==
  ASSUME Inv, NEW f \in FileNames, Edit(f)
  PROVE  Inv'
<1>1. /\ file' = [g \in FileNames |-> file'[g]]
      /\ \A g \in FileNames \ {f} : file'[g] = file[g]
      /\ UNCHANGED <<work, now>>
      /\ \A t \in Threads : ~WritesTo(t, f)
  BY DEF Inv, Edit
<1>2. CopyInv'
  <2> SUFFICES ASSUME NEW u \in Threads, work[u].phase = "writing"
               PROVE  /\ file'[FileOf(work[u].cmd)] # Unreadable
                      /\ work[u].out \in
                           Outcomes(work[u].cmd, file'[FileOf(work[u].cmd)], work[u].at)
    BY <1>1 DEF CopyInv
  <2>1. FileOf(work[u].cmd) \in FileNames \ {f}
    BY <1>1, FilesOfCommands DEF WritesTo
  <2> QED
    BY <2>1, <1>1 DEF Inv, CopyInv
<1> QED
  BY <1>1, <1>2 DEF Inv, WorkShape, LockInv, WritesTo

LEMMA TickInv ==
  ASSUME Inv, Tick
  PROVE  Inv'
<1>1. UNCHANGED <<file, work>> /\ now' \in Nat /\ 0..now \subseteq 0..now'
  BY DEF Inv, Tick
<1>2. WorkShape'
  <2> SUFFICES ASSUME NEW u \in Threads
               PROVE  (\/ work[u] = Idle
                       \/ \E x \in Commands, y \in 0..now : work[u] = Waiting(x, y)
                       \/ \E x \in Commands, y \in 0..now : \E z : work[u] = Writing(x, y, z)
                       \/ \E r : work[u] = Logging(r))'
    BY <1>1 DEF Inv, WorkShape
  <2>1. \/ work[u] = Idle
        \/ \E x \in Commands, y \in 0..now : work[u] = Waiting(x, y)
        \/ \E x \in Commands, y \in 0..now : \E z : work[u] = Writing(x, y, z)
        \/ \E r : work[u] = Logging(r)
    BY DEF Inv, WorkShape
  <2> QED
    BY <2>1, <1>1
<1> QED
  BY <1>1, <1>2 DEF Inv, CopyInv, LockInv, WritesTo

LEMMA NextInv ==
  ASSUME OneProcess, Inv, [Next]_vars
  PROVE  Inv'
<1>1. CASE UNCHANGED vars
  BY <1>1 DEF vars, Inv, WorkShape, CopyInv, LockInv, WritesTo
<1>2. ASSUME NEW t \in Threads, NEW cmd \in Commands, Give(t, cmd)
      PROVE  Inv'
  <2>1. now \in 0..now
    BY DEF Inv
  <2> QED
    BY <1>2, <2>1, QuietWork DEF Give, Set
<1>3. ASSUME NEW t \in Threads, Load(t) PROVE Inv'
  BY <1>3, LoadInv
<1>4. ASSUME NEW t \in Threads, Write(t) PROVE Inv'
  BY <1>4, WriteInv
<1>5. ASSUME NEW t \in Threads, WriteFailed(t) \/ Log(t) \/ LogFailed(t) PROVE Inv'
  BY <1>5, QuietWork DEF WriteFailed, Log, LogFailed, Set
<1>6. ASSUME NEW p \in Processes, Crash(p) PROVE Inv'
  BY <1>6, CrashInv
<1>7. ASSUME NEW f \in FileNames, Edit(f) PROVE Inv'
  BY <1>7, EditInv
<1>8. CASE Tick
  BY <1>8, TickInv
<1> QED
  BY <1>1, <1>2, <1>3, <1>4, <1>5, <1>6, <1>7, <1>8 DEF Next

-----------------------------------------------------------------------------
(* Every step is a step of the ledger or changes nothing of it.             *)
LEMMA LedgerStep ==
  ASSUME Inv, [Next]_vars
  PROVE  [L!Next]_L!vars
<1>1. ASSUME NEW t \in Threads, Write(t)
      PROVE  L!Next
  <2> DEFINE cmd == work[t].cmd
             at == work[t].at
             out == work[t].out
  <2>1. PICK c \in Commands, a \in 0..now : \E o : work[t] = Writing(c, a, o)
    BY <1>1, Phases DEF Inv, WorkShape, Write
  <2>2. cmd \in Commands /\ at \in 0..now
    BY <2>1, Phases
  <2>3. /\ file[FileOf(cmd)] # Unreadable
        /\ out \in Outcomes(cmd, file[FileOf(cmd)], at)
    BY <1>1 DEF Inv, CopyInv, Write
  <2>4. file' = [file EXCEPT ![FileOf(cmd)] = out.data] /\ UNCHANGED now
    BY <1>1 DEF Write
  <2>5. L!Apply(cmd, at)
    BY <2>3, <2>4 DEF L!Apply
  <2> QED
    BY <2>2, <2>5 DEF L!Next
<1>2. ASSUME NEW f \in FileNames, Edit(f)
      PROVE  L!Next
  BY <1>2 DEF Edit, L!Edit, L!Next
<1>3. CASE Tick
  BY <1>3 DEF Tick, L!Tick, L!Next
<1>4. ASSUME NEW t \in Threads, NEW cmd \in Commands, Give(t, cmd)
      PROVE  UNCHANGED L!vars
  BY <1>4 DEF Give, L!vars
<1>5. ASSUME NEW t \in Threads, Load(t) \/ WriteFailed(t) \/ Log(t) \/ LogFailed(t)
      PROVE  UNCHANGED L!vars
  BY <1>5 DEF Load, WriteFailed, Log, LogFailed, L!vars
<1>6. ASSUME NEW p \in Processes, Crash(p)
      PROVE  UNCHANGED L!vars
  BY <1>6 DEF Crash, L!vars
<1>7. CASE UNCHANGED vars
  BY <1>7 DEF vars, L!vars
<1> QED
  BY <1>1, <1>2, <1>3, <1>4, <1>5, <1>6, <1>7 DEF Next

(* With one process, OwnerStore implements Ledger: each command takes effect *)
(* once, on what the file holds (_change of grants.py, run of snooze.py).   *)
THEOREM OneProcessSerialises ==
  ASSUME OneProcess
  PROVE  Spec => Serialised
<1>1. Init => Inv
  BY InitInv
<1>2. Inv /\ [Next]_vars => Inv'
  BY NextInv
<1>3. Init => L!Init
  BY DEF Init, L!Init
<1>4. Inv /\ [Next]_vars => [L!Next]_L!vars
  BY LedgerStep
<1> QED
  BY <1>1, <1>2, <1>3, <1>4, PTL DEF Spec, Serialised, L!Spec

-----------------------------------------------------------------------------
(* What a scan sends and what the traffic log tells of the grants.          *)

Held == IF file["grants"] # Unreadable THEN file["grants"].grants ELSE {}

(* A grant that was told of and applies is held, or its end was told of.    *)
Kept(g) == ~Expired(g, now) => g \in Held \cup Told("revoke") \cup Told("edit")

RefOf(g) == g.scope = "session" <=> g.ref # None

RecordInv ==
  /\ file["grants"] # Unreadable => file["grants"] \in GrantFiles
  /\ \A g \in Held : g \in Told("grant") /\ RefOf(g)
  /\ \A g \in Told("grant") : g \in Grants /\ Kept(g)

(* The records that are written, about to be, or lost.                      *)
Records ==
  log \cup unlogged
    \cup {work[t].record : t \in {u \in Threads : work[u].phase = "logging"}}

LEMMA ToldOf ==
  \A op : Told(op) = UNION {r.entries : r \in {x \in Records : x.op = op}}
  BY DEF Told, Records

(* What is told is told for good, and only a write or an edit adds to it.   *)
LEMMA ToldGrows ==
  ASSUME Inv, [Next]_vars
  PROVE  /\ Records \subseteq Records'
         /\ \A r \in Records' :
              \/ r \in Records
              \/ \E t \in Threads : Write(t) /\ r = work[t].out.record
              \/ /\ Edit("grants") /\ file["grants"] # Unreadable
                 /\ r = [op |-> "edit", entries |-> file["grants"].grants]
<1> DEFINE Logs == {work[t].record : t \in {u \in Threads : work[u].phase = "logging"}}
           LogsAfter == {work'[t].record : t \in {u \in Threads : work'[u].phase = "logging"}}
<1>1. /\ Records = log \cup unlogged \cup Logs
      /\ Records' = log' \cup unlogged' \cup LogsAfter
  BY DEF Records
<1>2. ASSUME NEW t \in Threads, NEW w, Set(t, w), w.phase # "logging",
             work[t].phase # "logging"
      PROVE  LogsAfter = Logs
  <2>1. work'[t] = w /\ \A u \in Threads \ {t} : work'[u] = work[u]
    BY <1>2 DEF Inv, WorkShape, Set
  <2> QED
    BY <1>2, <2>1
<1>3. ASSUME NEW t \in Threads, Log(t) \/ LogFailed(t)
      PROVE  Records' = Records
  <2>1. /\ work'[t] = Idle /\ \A u \in Threads \ {t} : work'[u] = work[u]
        /\ work[t].phase = "logging"
    BY <1>3 DEF Inv, WorkShape, Set, Log, LogFailed
  <2>2. Logs = LogsAfter \cup {work[t].record}
    BY <2>1, Phases
  <2>3. log' \cup unlogged' = log \cup unlogged \cup {work[t].record}
    BY <1>3 DEF Log, LogFailed
  <2> HIDE DEF Logs, LogsAfter
  <2> QED
    BY <1>1, <2>2, <2>3
<1>4. ASSUME NEW t \in Threads, Write(t)
      PROVE  Records' = Records \cup {work[t].out.record}
  <2>1. /\ work'[t] = Logging(work[t].out.record) /\ work[t].phase = "writing"
        /\ \A u \in Threads \ {t} : work'[u] = work[u]
    BY <1>4 DEF Inv, WorkShape, Set, Write
  <2>2. LogsAfter = Logs \cup {work[t].out.record}
    BY <2>1, Phases
  <2>3. UNCHANGED <<log, unlogged>>
    BY <1>4 DEF Write
  <2> HIDE DEF Logs, LogsAfter
  <2> QED
    BY <1>1, <2>2, <2>3
<1>5. ASSUME NEW p \in Processes, Crash(p)
      PROVE  Records' = Records
  <2>1. /\ p \subseteq Threads
        /\ \A t \in Threads : work'[t] = IF t \in p THEN Idle ELSE work[t]
    BY <1>5 DEF Crash, Threads
  <2>2. LogsAfter \cup {work[t].record : t \in {u \in p : work[u].phase = "logging"}} = Logs
    BY <2>1, Phases
  <2>3. log' \cup unlogged' =
          log \cup unlogged \cup {work[t].record : t \in {u \in p : work[u].phase = "logging"}}
    BY <1>5 DEF Crash
  <2> HIDE DEF Logs, LogsAfter
  <2> QED
    BY <1>1, <2>2, <2>3
<1>6. ASSUME NEW f \in FileNames, Edit(f)
      PROVE  /\ Records \subseteq Records'
             /\ \A r \in Records' :
                  \/ r \in Records
                  \/ /\ Edit("grants") /\ file["grants"] # Unreadable
                     /\ r = [op |-> "edit", entries |-> file["grants"].grants]
  BY <1>6 DEF Edit, Records
<1>7. CASE UNCHANGED vars \/ Tick
  BY <1>7 DEF vars, Tick, Records
<1>8. ASSUME NEW t \in Threads, NEW cmd \in Commands, Give(t, cmd)
      PROVE  Records' = Records
  <2>1. LogsAfter = Logs
    BY <1>2, <1>8, Phases DEF Give
  <2> HIDE DEF Logs, LogsAfter
  <2> QED
    BY <1>1, <1>8, <2>1 DEF Give
<1>9. ASSUME NEW t \in Threads, Load(t) \/ WriteFailed(t)
      PROVE  Records' = Records
  <2>1. LogsAfter = Logs
    BY <1>2, <1>9, Phases DEF Load, WriteFailed
  <2> HIDE DEF Logs, LogsAfter
  <2> QED
    BY <1>1, <1>9, <2>1 DEF Load, WriteFailed
<1> HIDE DEF Logs, LogsAfter
<1> QED
  BY <1>3, <1>4, <1>5, <1>6, <1>7, <1>8, <1>9 DEF Next

LEMMA RecordInit ==
  ASSUME Init
  PROVE  RecordInv
<1>1. Held = {}
  BY DEF Init, Held, Empty, NoGrants, FileNames
<1>2. Records = {}
  BY Phases DEF Init, Records
<1>3. file["grants"] \in GrantFiles
  BY DEF Init, Empty, NoGrants, FileNames, GrantFiles
<1> QED
  BY <1>1, <1>2, <1>3, ToldOf DEF RecordInv

LEMMA ExpiredLater ==
  ASSUME NEW g \in Grants, NEW m \in Nat, NEW n \in Nat, m <= n, Expired(g, m)
  PROVE  Expired(g, n)
  BY DEF Expired, Grants

(* What a command makes of the grants.                                      *)
Granted(o, data, at, g) ==
  /\ o.data.grants = {x \in data.grants \cup {g} : ~Expired(x, at)}
  /\ o.record = [op |-> "grant", entries |-> {g}]
  /\ g \in Grants /\ RefOf(g)

Revoked(o, data, at, g) ==
  /\ o.data.grants = {x \in data.grants \ {g} : ~Expired(x, at)}
  /\ o.record = [op |-> "revoke", entries |-> {g}]

Rebound(o, data, at) ==
  /\ o.data.grants = {x \in data.grants : ~Expired(x, at)}
  /\ o.record.op \in {"bind_add", "bind_remove"}

LEMMA OutcomeFacts ==
  ASSUME NEW gs \in SUBSET Grants, NEW bs \in SUBSET Channels, NEW at, NEW op, NEW es
  PROVE  LET o == Outcome([grants |-> gs, bindings |-> bs], at, op, es)
         IN  /\ o.data \in GrantFiles
             /\ o.data.grants = {x \in gs : ~Expired(x, at)}
             /\ o.record = [op |-> op, entries |-> es]
  BY DEF Outcome, GrantFiles

LEMMA GrantOutcomes ==
  ASSUME NEW cmd \in Commands, FileOf(cmd) = "grants", NEW data \in GrantFiles,
         NEW at \in Nat, NEW o \in Outcomes(cmd, data, at)
  PROVE  /\ o.data \in GrantFiles
         /\ \/ \E g : Granted(o, data, at, g)
            \/ \E g : Revoked(o, data, at, g)
            \/ Rebound(o, data, at)
<1> DEFINE gs == data.grants
           bs == data.bindings
<1>1. /\ gs \in SUBSET Grants /\ bs \in SUBSET Channels
      /\ data = [grants |-> gs, bindings |-> bs]
  BY DEF GrantFiles
<1>2. ASSUME NEW g \in Grants
      PROVE  /\ [data EXCEPT !.grants = @ \cup {g}] = [grants |-> gs \cup {g}, bindings |-> bs]
             /\ [data EXCEPT !.grants = @ \ {g}] = [grants |-> gs \ {g}, bindings |-> bs]
  BY <1>1
<1>3. ASSUME NEW c
      PROVE  /\ [data EXCEPT !.bindings = @ \cup {c}] = [grants |-> gs, bindings |-> bs \cup {c}]
             /\ [data EXCEPT !.bindings = @ \ {c}] = [grants |-> gs, bindings |-> bs \ {c}]
  BY <1>1
<1> HIDE DEF gs, bs
<1>4. CASE cmd.op = "grant"
  <2>1. PICK id \in Ids :
          o = LET g == [id |-> id, scope |-> cmd.scope, ref |-> cmd.ref,
                        until |-> IF cmd.span = None THEN None ELSE at + cmd.span]
              IN  Outcome([data EXCEPT !.grants = @ \cup {g}], at, "grant", {g})
    BY <1>4 DEF Outcomes, AddGrant
  <2> DEFINE g == [id |-> id, scope |-> cmd.scope, ref |-> cmd.ref,
                   until |-> IF cmd.span = None THEN None ELSE at + cmd.span]
  <2>2. cmd \in SessionGrants \cup StandingGrants
    BY <1>4 DEF Commands, GrantChanges, SnoozeChanges
  <2>3. /\ cmd.scope \in {"session", "persistent"} /\ cmd.ref \in Sessions \cup {None}
        /\ cmd.span \in Spans \cup {None} /\ (cmd.scope = "session" <=> cmd.ref # None)
    BY <2>2, GrantAssumption DEF SessionGrants, StandingGrants
  <2>4. g \in Grants /\ RefOf(g)
    <3> DEFINE until == IF cmd.span = None THEN None ELSE at + cmd.span
    <3>1. until \in Nat \cup {None}
      <4>1. CASE cmd.span = None
        BY <4>1
      <4>2. CASE cmd.span # None
        <5>1. cmd.span \in Nat
          BY <2>3, <4>2, GrantAssumption
        <5> QED
          BY <4>2, <5>1
      <4> QED
        BY <4>1, <4>2
    <3>2. g = [id |-> id, scope |-> cmd.scope, ref |-> cmd.ref, until |-> until]
      OBVIOUS
    <3> HIDE DEF until, g
    <3>3. g \in Grants
      BY <2>3, <3>1, <3>2 DEF Grants
    <3>4. g.scope = cmd.scope /\ g.ref = cmd.ref
      BY <3>2
    <3> QED
      BY <2>3, <3>3, <3>4 DEF RefOf
  <2>5. o = Outcome([data EXCEPT !.grants = @ \cup {g}], at, "grant", {g})
    BY <2>1
  <2> HIDE DEF g
  <2>6. o = Outcome([grants |-> gs \cup {g}, bindings |-> bs], at, "grant", {g})
    BY <1>2, <2>4, <2>5
  <2>7. gs \cup {g} \in SUBSET Grants
    BY <1>1, <2>4
  <2>8. Granted(o, data, at, g) /\ o.data \in GrantFiles
    BY <1>1, <2>4, <2>6, <2>7, OutcomeFacts DEF Granted, gs
  <2> QED
    BY <2>8
<1>5. CASE cmd.op = "revoke"
  <2>1. PICK g \in data.grants : o = Outcome([data EXCEPT !.grants = @ \ {g}], at, "revoke", {g})
    BY <1>5 DEF Outcomes, Revoke
  <2>2. g \in Grants /\ gs \ {g} \in SUBSET Grants
    BY <1>1 DEF gs
  <2>3. o = Outcome([grants |-> gs \ {g}, bindings |-> bs], at, "revoke", {g})
    BY <1>2, <2>1, <2>2
  <2>4. Revoked(o, data, at, g) /\ o.data \in GrantFiles
    BY <1>1, <2>2, <2>3, OutcomeFacts DEF Revoked, gs
  <2> QED
    BY <2>4
<1>6. CASE cmd.op \in {"bind_add", "bind_remove"}
  <2>1. cmd.channel \in Channels
    BY <1>6 DEF Commands, SessionGrants, StandingGrants, GrantChanges, SnoozeChanges
  <2>2. PICK op \in {"bind_add", "bind_remove"}, new \in {bs \cup {cmd.channel}, bs \ {cmd.channel}} :
          o = Outcome([grants |-> gs, bindings |-> new], at, op, {cmd.channel})
    BY <1>3, <1>6 DEF Outcomes, BindAdd, BindRemove
  <2>3. new \in SUBSET Channels
    BY <1>1, <2>1
  <2>4. /\ o.data \in GrantFiles /\ o.data.grants = {x \in gs : ~Expired(x, at)}
        /\ o.record = [op |-> op, entries |-> {cmd.channel}]
    <3> DEFINE es == {cmd.channel}
    <3>1. o = Outcome([grants |-> gs, bindings |-> new], at, op, es)
      BY <2>2
    <3> HIDE DEF es
    <3>2. /\ o.data \in GrantFiles /\ o.data.grants = {x \in gs : ~Expired(x, at)}
          /\ o.record = [op |-> op, entries |-> es]
      BY <1>1, <2>3, <3>1, OutcomeFacts
    <3> QED
      BY <3>2 DEF es
  <2>5. o.record.op = op
    BY <2>4
  <2>6. Rebound(o, data, at)
    BY <2>4, <2>5 DEF Rebound, gs
  <2> QED
    BY <2>4, <2>6
<1>7. cmd.op \in {"grant", "revoke", "bind_add", "bind_remove"}
  BY DEF Commands, SessionGrants, StandingGrants, GrantChanges, SnoozeChanges, FileOf
<1> QED
  BY <1>4, <1>5, <1>6, <1>7

LEMMA ToldMoves ==
  ASSUME Inv, [Next]_vars
  PROVE  /\ \A op : Told(op) \subseteq Told(op)'
         /\ \A g \in Told("grant")' :
              \/ g \in Told("grant")
              \/ \E t \in Threads : /\ Write(t) /\ work[t].out.record.op = "grant"
                                    /\ g \in work[t].out.record.entries
         /\ \A t \in Threads : \A op :
              Write(t) /\ work[t].out.record.op = op =>
                work[t].out.record.entries \subseteq Told(op)'
         /\ Edit("grants") /\ file["grants"] # Unreadable =>
              file["grants"].grants \subseteq Told("edit")'
<1>1. \A op : /\ Told(op) = UNION {r.entries : r \in {x \in Records : x.op = op}}
              /\ Told(op)' = UNION {r.entries : r \in {x \in Records' : x.op = op}}
  BY ToldOf DEF Told, Records
<1>2. \A op : Told(op) \subseteq Told(op)'
  BY <1>1, ToldGrows
<1>3. ASSUME NEW g \in Told("grant")', g \notin Told("grant")
      PROVE  \E t \in Threads : /\ Write(t) /\ work[t].out.record.op = "grant"
                                /\ g \in work[t].out.record.entries
  <2>1. PICK r \in Records' : r.op = "grant" /\ g \in r.entries
    BY <1>1, <1>3
  <2>2. r \notin Records
    BY <1>1, <1>3, <2>1
  <2>3. [op |-> "edit", entries |-> file["grants"].grants].op # "grant"
    OBVIOUS
  <2> QED
    BY <2>1, <2>2, <2>3, ToldGrows
<1>4. ASSUME NEW t \in Threads, Write(t)
      PROVE  work[t].out.record \in Records'
  <2>1. work'[t] = Logging(work[t].out.record)
    BY <1>4 DEF Inv, WorkShape, Set, Write
  <2> QED
    BY <2>1, Phases DEF Records
<1>5. ASSUME Edit("grants"), file["grants"] # Unreadable
      PROVE  file["grants"].grants \subseteq Told("edit")'
  <2> DEFINE r == [op |-> "edit", entries |-> file["grants"].grants]
  <2>1. r \in Records'
    BY <1>5 DEF Edit, Records
  <2>2. r.op = "edit" /\ r.entries = file["grants"].grants
    OBVIOUS
  <2> HIDE DEF r
  <2> QED
    BY <1>1, <2>1, <2>2
<1> QED
  BY <1>1, <1>2, <1>3, <1>4, <1>5

(* A step that leaves the grants alone and tells of no new one.             *)
LEMMA QuietGrants ==
  ASSUME Inv, RecordInv, [Next]_vars, file'["grants"] = file["grants"],
         Told("grant")' \subseteq Told("grant")
  PROVE  RecordInv'
<1>1. now \in Nat /\ now' \in Nat /\ now <= now'
  BY DEF Inv, Next, Give, Load, Write, WriteFailed, Log, LogFailed, Crash, Edit, Tick, vars
<1>2. Held' = Held
  BY DEF Held
<1>3. ASSUME NEW g \in Told("grant"), ~Expired(g, now')
      PROVE  g \in Held \cup Told("revoke")' \cup Told("edit")'
  <2>1. g \in Grants /\ Kept(g)
    BY DEF RecordInv
  <2>2. ~Expired(g, now)
    BY <1>1, <1>3, <2>1, ExpiredLater
  <2> QED
    BY <2>1, <2>2, ToldMoves DEF Kept
<1> QED
  BY <1>2, <1>3, ToldMoves DEF RecordInv, Kept

LEMMA GrantsWritten ==
  ASSUME Inv, RecordInv, [Next]_vars, NEW t \in Threads, Write(t),
         FileOf(work[t].cmd) = "grants"
  PROVE  RecordInv'
<1> DEFINE o == work[t].out
           at == work[t].at
           gs == file["grants"].grants
<1>1. PICK c \in Commands, a \in 0..now : \E x : work[t] = Writing(c, a, x)
  BY Phases DEF Inv, WorkShape, Write
<1>2. work[t].cmd \in Commands /\ at \in Nat /\ at <= now /\ now \in Nat
  BY <1>1, Phases DEF Inv
<1>3. file["grants"] # Unreadable /\ o \in Outcomes(work[t].cmd, file["grants"], at)
  BY DEF Inv, CopyInv, Write
<1>4. file["grants"] \in GrantFiles /\ Held = gs
  BY <1>3 DEF RecordInv, Held
<1>5. /\ o.data \in GrantFiles
      /\ \/ \E g : Granted(o, file["grants"], at, g)
         \/ \E g : Revoked(o, file["grants"], at, g)
         \/ Rebound(o, file["grants"], at)
  BY <1>2, <1>3, <1>4, GrantOutcomes
<1>6. file'["grants"] = o.data /\ now' = now
  BY DEF Inv, Write, FileNames
<1>7. Held' = o.data.grants
  BY <1>5, <1>6, FileAssumption DEF Held
<1>8. \A g \in Told("grant")' : g \in Told("grant") \/ (o.record.op = "grant" /\ g \in o.record.entries)
  <2>1. ASSUME NEW u \in Threads, Write(u)
        PROVE  u = t \/ UNCHANGED work[t]
    BY <2>1 DEF Inv, WorkShape, Set, Write
  <2>2. work'[t].phase # work[t].phase
    BY Phases DEF Inv, WorkShape, Set, Write
  <2>3. \A u \in Threads : Write(u) => u = t
    BY <2>1, <2>2
  <2> QED
    BY <2>3, ToldMoves
<1>9. \A g \in gs : g \in Told("grant")' /\ RefOf(g) /\ g \in Grants
  BY <1>4, ToldMoves DEF RecordInv
<1>10. ASSUME NEW g \in Grants, ~Expired(g, now')
       PROVE  ~Expired(g, at)
  BY <1>2, <1>6, <1>10, ExpiredLater
<1>11. ASSUME NEW g \in Told("grant"), ~Expired(g, now')
       PROVE  g \in gs \cup Told("revoke")' \cup Told("edit")'
  BY <1>4, <1>6, <1>11, ToldMoves DEF RecordInv, Kept
<1>12. \A g \in Told("grant") : g \in Grants
  BY DEF RecordInv
<1> HIDE DEF o, at, gs
<1>13. ASSUME NEW g, Granted(o, file["grants"], at, g)
       PROVE  RecordInv'
  <2>1. /\ o.data.grants = {x \in gs \cup {g} : ~Expired(x, at)} /\ g \in Grants /\ RefOf(g)
        /\ o.record.op = "grant" /\ o.record.entries = {g}
    BY <1>13 DEF Granted, gs
  <2>2. g \in Told("grant")'
    BY <2>1, ToldMoves DEF o
  <2>3. \A x \in Held' : x \in Told("grant")' /\ RefOf(x)
    BY <1>7, <1>9, <2>1, <2>2
  <2>4. ASSUME NEW x \in Told("grant")', ~Expired(x, now')
        PROVE  x \in Grants /\ x \in Held' \cup Told("revoke")' \cup Told("edit")'
    <3>1. CASE x = g
      BY <1>7, <1>10, <2>1, <2>4, <3>1
    <3>2. CASE x \in Told("grant")
      BY <1>7, <1>10, <1>11, <1>12, <2>1, <2>4, <3>2
    <3> QED
      BY <1>8, <2>1, <3>1, <3>2
  <2>5. \A x \in Told("grant")' : x \in Grants
    BY <1>8, <1>12, <2>1
  <2> QED
    BY <1>5, <1>6, <2>3, <2>4, <2>5 DEF RecordInv, Kept
<1>14. ASSUME NEW g, Revoked(o, file["grants"], at, g)
       PROVE  RecordInv'
  <2>1. /\ o.data.grants = {x \in gs \ {g} : ~Expired(x, at)}
        /\ o.record.op = "revoke" /\ o.record.entries = {g}
    BY <1>14 DEF Revoked, gs
  <2>2. g \in Told("revoke")'
    BY <2>1, ToldMoves DEF o
  <2>3. \A x \in Told("grant")' : x \in Told("grant") /\ x \in Grants
    BY <1>8, <1>12, <2>1
  <2>4. ASSUME NEW x \in Told("grant")', ~Expired(x, now')
        PROVE  x \in Held' \cup Told("revoke")' \cup Told("edit")'
    BY <1>7, <1>10, <1>11, <2>1, <2>2, <2>3, <2>4
  <2> QED
    BY <1>5, <1>6, <1>7, <1>9, <2>1, <2>3, <2>4 DEF RecordInv, Kept
<1>15. ASSUME Rebound(o, file["grants"], at)
       PROVE  RecordInv'
  <2>1. /\ o.data.grants = {x \in gs : ~Expired(x, at)}
        /\ o.record.op # "grant"
    BY <1>15 DEF Rebound, gs
  <2>2. \A x \in Told("grant")' : x \in Told("grant") /\ x \in Grants
    BY <1>8, <1>12, <2>1
  <2>3. ASSUME NEW x \in Told("grant")', ~Expired(x, now')
        PROVE  x \in Held' \cup Told("revoke")' \cup Told("edit")'
    BY <1>7, <1>10, <1>11, <2>1, <2>2, <2>3
  <2> QED
    BY <1>5, <1>6, <1>7, <1>9, <2>1, <2>2, <2>3 DEF RecordInv, Kept
<1> QED
  BY <1>5, <1>13, <1>14, <1>15 DEF o, at

LEMMA GrantsEdited ==
  ASSUME Inv, RecordInv, [Next]_vars, Edit("grants")
  PROVE  RecordInv'
<1>1. PICK new \in {Unreadable, NoGrants} : file'["grants"] = new
  BY DEF Inv, Edit, Empty, FileNames
<1>2. NoGrants \in GrantFiles /\ NoGrants.grants = {}
  BY DEF NoGrants, GrantFiles
<1>3. Held' = {} /\ (file'["grants"] # Unreadable => file'["grants"] \in GrantFiles)
  BY <1>1, <1>2 DEF Held
<1>4. now' = now /\ \A t \in Threads : ~Write(t)
  BY Phases DEF Edit, Write, Inv, WorkShape, Set
<1>5. ASSUME NEW g \in Told("grant")'
      PROVE  g \in Grants /\ Kept(g)'
  <2>1. g \in Told("grant")
    BY <1>4, <1>5, ToldMoves
  <2>2. Held \subseteq Told("edit")'
    BY ToldMoves DEF Held
  <2> QED
    BY <1>4, <2>1, <2>2, ToldMoves DEF RecordInv, Kept
<1> QED
  BY <1>3, <1>5 DEF RecordInv

LEMMA SnoozeRecords ==
  ASSUME NEW cmd, cmd.op \in {"set", "off"}, NEW data, NEW at,
         NEW o \in Outcomes(cmd, data, at)
  PROVE  o.record.op # "grant"
<1>1. CASE cmd.op = "set"
  <2>1. Outcomes(cmd, data, at) = SetSnooze(data, at, cmd.ref, cmd.span)
    BY <1>1 DEF Outcomes
  <2>2. PICK d, es : o = [data |-> d, record |-> [op |-> "set", entries |-> es]]
    BY <2>1, Zenon DEF SetSnooze
  <2> QED
    BY <2>2
<1>2. CASE cmd.op = "off"
  <2>1. Outcomes(cmd, data, at) = SnoozeOff(data, at, cmd.ref)
    BY <1>2 DEF Outcomes
  <2> DEFINE live  == {x \in EntriesOf(data) : Live(x, at)}
             ended == {e \in live : Ends(e, cmd.ref)}
             rest  == Chosen(data, live \ ended)
             off   == [data |-> rest, record |-> [op |-> "off", entries |-> ended]]
  <2>3. o \in IF ended = {} THEN {} ELSE {off}
    BY <2>1 DEF SnoozeOff
  <2>4. off.record.op = "off"
    OBVIOUS
  <2> HIDE DEF off, ended
  <2>2. o = off
    BY <2>3
  <2> QED
    BY <2>2, <2>4
<1> QED
  BY <1>1, <1>2

LEMMA RecordStep ==
  ASSUME Inv, RecordInv, [Next]_vars
  PROVE  RecordInv'
<1>1. ASSUME NEW t \in Threads, Write(t), FileOf(work[t].cmd) # "grants"
      PROVE  RecordInv'
  <2> DEFINE o == work[t].out
  <2>1. PICK c \in Commands, a \in 0..now : \E x : work[t] = Writing(c, a, x)
    BY <1>1, Phases DEF Inv, WorkShape, Write
  <2>2. work[t].cmd \in Commands /\ work[t].cmd.op \in {"set", "off"}
    BY <1>1, <2>1, Phases DEF FileOf
  <2>3. o \in Outcomes(work[t].cmd, file["snooze"], work[t].at)
    BY <1>1, <2>2 DEF Inv, CopyInv, Write, FileOf
  <2>4. o.record.op # "grant"
    BY <2>2, <2>3, SnoozeRecords
  <2>5. file'["grants"] = file["grants"]
    BY <1>1 DEF Write, Inv
  <2>6. \A u \in Threads : Write(u) => u = t
    BY <1>1, Phases DEF Write, Inv, WorkShape, Set
  <2>7. Told("grant")' \subseteq Told("grant")
    BY <2>4, <2>6, ToldMoves
  <2> QED
    BY <2>5, <2>7, QuietGrants
<1>2. CASE \A t \in Threads : ~Write(t)
  <2>1. Told("grant")' \subseteq Told("grant")
    BY <1>2, ToldMoves
  <2>2. CASE Edit("grants")
    BY <2>2, GrantsEdited
  <2>3. CASE ~Edit("grants")
    <3>1. file'["grants"] = file["grants"]
      BY <1>2, <2>3 DEF Next, Give, Load, WriteFailed, Log, LogFailed, Crash, Edit, Tick, vars,
                        FileNames, Inv
    <3> QED
      BY <2>1, <3>1, QuietGrants
  <2> QED
    BY <2>2, <2>3
<1> QED
  BY <1>1, <1>2, GrantsWritten

(* With one process, what a scan sends is what the traffic log tells of:    *)
(* no grant that was revoked or never given, and every one that applies,    *)
(* whichever commands, failures, crashes and edits come in between.         *)
THEOREM SentOnRecord ==
  ASSUME OneProcess
  PROVE  Spec => []SentIsOnRecord
<1>1. Init => Inv /\ RecordInv
  BY InitInv, RecordInit
<1>2. Inv /\ RecordInv /\ [Next]_vars => (Inv /\ RecordInv)'
  BY NextInv, RecordStep
<1>3. RecordInv => SentIsOnRecord
  <2> SUFFICES ASSUME RecordInv, file["grants"] # Unreadable, NEW s \in Sessions
               PROVE  LET sent == Effective(file["grants"], now, s)
                      IN  /\ sent \subseteq {g \in Told("grant") : g.ref \in {None, s}}
                          /\ \A g \in Told("grant") :
                               g.ref \in {None, s} /\ ~Expired(g, now) =>
                                 g \in sent \cup Told("revoke") \cup Told("edit")
    BY DEF SentIsOnRecord
  <2>1. \A g \in Held : g \in Told("grant") /\ RefOf(g)
    BY DEF RecordInv
  <2>2. Effective(file["grants"], now, s) =
          {g \in Held : ~Expired(g, now) /\ (g.scope = "session" => g.ref = s)}
    BY DEF Effective, Held
  <2>3. s # None
    BY GrantAssumption
  <2> QED
    BY <2>1, <2>2, <2>3 DEF RecordInv, RefOf, Kept
<1> QED
  BY <1>1, <1>2, <1>3, PTL DEF Spec

-----------------------------------------------------------------------------
(* A non-empty set of numbers has a least element.                          *)
LEMMA Least ==
  ASSUME NEW T, T \subseteq Nat, T # {}
  PROVE  \E n \in T : \A m \in T : n <= m
<1>1. PICK n \in T : \A m \in T : ~(<<m, n>> \in OpToRel(<, Nat))
  BY NatLessThanWellFounded, WFMin
<1>2. \A m \in T : ~(m < n)
  BY <1>1 DEF OpToRel
<1> QED
  BY <1>2

(* Induction, as a fact about sets: one with 0 and every successor has all  *)
(* numbers.                                                                *)
LEMMA Counting ==
  ASSUME NEW A, 0 \in A, \A n \in Nat : n \in A => n + 1 \in A
  PROVE  \A n \in Nat : n \in A
<1> SUFFICES ASSUME NEW k \in Nat, k \notin A PROVE FALSE
  OBVIOUS
<1> DEFINE missing == {n \in Nat : n \notin A}
<1>1. PICK n \in missing : \A m \in missing : n <= m
  <2>1. missing \subseteq Nat /\ missing # {}
    OBVIOUS
  <2> HIDE DEF missing
  <2> QED
    BY <2>1, Least
<1>2. n - 1 \in Nat /\ n - 1 \notin missing /\ n - 1 + 1 = n
  BY <1>1
<1> QED
  BY <1>1, <1>2

-----------------------------------------------------------------------------
(* Chosen.                                                                 *)

(* What the first i entries of q leave, given what the ones before left.    *)
Takes(q, S, f, i) ==
  IF i = 0 THEN <<>>
  ELSE IF q[i] \in S THEN Append(f[i - 1], q[i]) ELSE f[i - 1]

Taken(q, S) == CHOOSE f : f = [i \in 0..Len(q) |-> Takes(q, S, f, i)]

LEMMA TakenExists ==
  ASSUME NEW q, NEW S, NEW k \in Nat
  PROVE  \E f : f = [i \in 0..k |-> Takes(q, S, f, i)]
<1> DEFINE A == {n \in Nat : \E f : f = [i \in 0..n |-> Takes(q, S, f, i)]}
<1>1. 0 \in A
  <2> DEFINE g == [i \in 0..0 |-> <<>>]
  <2>1. \A i \in 0..0 : Takes(q, S, g, i) = <<>>
    BY DEF Takes
  <2>2. g = [i \in 0..0 |-> Takes(q, S, g, i)]
    BY <2>1
  <2> QED
    BY <2>2
<1>2. ASSUME NEW n \in Nat, n \in A
      PROVE  n + 1 \in A
  <2>1. PICK f : f = [i \in 0..n |-> Takes(q, S, f, i)]
    BY <1>2
  <2> DEFINE g == [i \in 0..(n + 1) |-> IF i = n + 1 THEN Takes(q, S, f, i) ELSE f[i]]
  <2>2. \A i \in 0..n : g[i] = f[i]
    OBVIOUS
  <2>3. ASSUME NEW i \in 0..(n + 1)
        PROVE  g[i] = Takes(q, S, g, i)
    <3>1. i # 0 => g[i - 1] = f[i - 1]
      BY <2>2
    <3>2. Takes(q, S, g, i) = Takes(q, S, f, i)
      BY <3>1 DEF Takes
    <3>3. i # n + 1 => f[i] = Takes(q, S, f, i)
      BY <2>1
    <3> QED
      BY <3>2, <3>3
  <2> HIDE DEF g
  <2>4. g = [i \in 0..(n + 1) |-> g[i]]
    BY DEF g
  <2>5. g = [i \in 0..(n + 1) |-> Takes(q, S, g, i)]
    BY <2>3, <2>4
  <2> QED
    BY <2>5
<1> HIDE DEF A
<1>3. k \in A
  BY <1>1, <1>2, Counting
<1> QED
  BY <1>3 DEF A

LEMMA TakenBy ==
  ASSUME NEW T, NEW q \in Seq(T), NEW S
  PROVE  /\ Chosen(q, S) = Taken(q, S)[Len(q)]
         /\ \A i \in 0..Len(q) : Taken(q, S)[i] = Takes(q, S, Taken(q, S), i)
<1>1. Len(q) \in Nat
  OBVIOUS
<1>2. \E f : f = [i \in 0..Len(q) |-> Takes(q, S, f, i)]
  BY <1>1, TakenExists
<1>3. Taken(q, S) = [i \in 0..Len(q) |-> Takes(q, S, Taken(q, S), i)]
  BY <1>2 DEF Taken
<1>4. Chosen(q, S) = Taken(q, S)[Len(q)]
  BY DEF Chosen, Taken, Takes
<1> HIDE DEF Taken
<1> QED
  BY <1>3, <1>4

(* What is chosen is a sequence of the entries that are wanted, no longer    *)
(* than the whole, and the whole when it is as long.                       *)
LEMMA ChosenFacts ==
  ASSUME NEW T, NEW q \in Seq(T), NEW S
  PROVE  /\ Chosen(q, S) \in Seq(T)
         /\ Len(Chosen(q, S)) <= Len(q)
         /\ EntriesOf(Chosen(q, S)) = EntriesOf(q) \cap S
         /\ Len(Chosen(q, S)) = Len(q) => Chosen(q, S) = q
<1> DEFINE f == Taken(q, S)
           Fine(n) == n <= Len(q) =>
                        /\ f[n] \in Seq(T) /\ Len(f[n]) <= n
                        /\ EntriesOf(f[n]) = {q[j] : j \in 1..n} \cap S
                        /\ Len(f[n]) = n => \A j \in 1..n : f[n][j] = q[j]
           A == {n \in Nat : Fine(n)}
<1>1. \A i \in 0..Len(q) : f[i] = Takes(q, S, f, i)
  BY TakenBy
<1> HIDE DEF f
<1>2. 0 \in A
  <2>1. f[0] = <<>> /\ 1..0 = {}
    BY <1>1 DEF Takes
  <2>2. <<>> \in Seq(T) /\ Len(<<>>) = 0 /\ EntriesOf(<<>>) = {}
    BY DEF EntriesOf
  <2>3. {q[j] : j \in 1..0} = {}
    BY <2>1
  <2>4. EntriesOf(f[0]) = {q[j] : j \in 1..0} \cap S /\ \A j \in 1..0 : f[0][j] = q[j]
    BY <2>1, <2>2, <2>3
  <2>5. f[0] \in Seq(T) /\ Len(f[0]) <= 0
    BY <2>1, <2>2
  <2> QED
    BY <2>4, <2>5
<1>3. ASSUME NEW n \in Nat, n \in A
      PROVE  n + 1 \in A
  <2> SUFFICES ASSUME n + 1 <= Len(q)
               PROVE  /\ f[n + 1] \in Seq(T) /\ Len(f[n + 1]) <= n + 1
                      /\ EntriesOf(f[n + 1]) = {q[j] : j \in 1..(n + 1)} \cap S
                      /\ Len(f[n + 1]) = n + 1 => \A j \in 1..(n + 1) : f[n + 1][j] = q[j]
    OBVIOUS
  <2>1. /\ f[n] \in Seq(T) /\ Len(f[n]) \in Nat /\ Len(f[n]) <= n
        /\ EntriesOf(f[n]) = {q[j] : j \in 1..n} \cap S
        /\ Len(f[n]) = n => \A j \in 1..n : f[n][j] = q[j]
    BY <1>3
  <2>2. n + 1 \in 1..Len(q) /\ n + 1 - 1 = n /\ q[n + 1] \in T
    OBVIOUS
  <2>3. f[n + 1] = IF q[n + 1] \in S THEN Append(f[n], q[n + 1]) ELSE f[n]
    BY <1>1, <2>2 DEF Takes
  <2>4. {q[j] : j \in 1..(n + 1)} = {q[j] : j \in 1..n} \cup {q[n + 1]}
    <3>1. 1..(n + 1) = 1..n \cup {n + 1}
      OBVIOUS
    <3> QED
      BY <3>1
  <2>5. CASE q[n + 1] \in S
    <3>1. f[n + 1] = Append(f[n], q[n + 1])
      BY <2>3, <2>5
    <3>2. /\ f[n + 1] \in Seq(T) /\ Len(f[n + 1]) = Len(f[n]) + 1
          /\ \A j \in 1..Len(f[n]) : f[n + 1][j] = f[n][j]
          /\ f[n + 1][Len(f[n]) + 1] = q[n + 1]
      BY <2>1, <2>2, <3>1
    <3>3. EntriesOf(f[n + 1]) = EntriesOf(f[n]) \cup {q[n + 1]}
      <4>1. DOMAIN f[n] = 1..Len(f[n]) /\ DOMAIN f[n + 1] = 1..Len(f[n]) \cup {Len(f[n]) + 1}
        BY <2>1, <3>2
      <4> QED
        BY <3>2, <4>1 DEF EntriesOf
    <3>4. EntriesOf(f[n + 1]) = {q[j] : j \in 1..(n + 1)} \cap S
      BY <2>1, <2>4, <2>5, <3>3
    <3>5. ASSUME Len(f[n + 1]) = n + 1, NEW j \in 1..(n + 1)
          PROVE  f[n + 1][j] = q[j]
      <4>1. Len(f[n]) = n
        BY <2>1, <3>2, <3>5
      <4>2. CASE j = n + 1
        BY <3>2, <4>1, <4>2
      <4>3. CASE j \in 1..n
        BY <2>1, <3>2, <4>1, <4>3
      <4> QED
        BY <4>2, <4>3
    <3> QED
      BY <2>1, <3>2, <3>4, <3>5
  <2>6. CASE q[n + 1] \notin S
    <3>1. f[n + 1] = f[n]
      BY <2>3, <2>6
    <3> QED
      BY <2>1, <2>4, <2>6, <3>1
  <2> QED
    BY <2>5, <2>6
<1>4. Len(q) \in Nat
  OBVIOUS
<1> HIDE DEF A
<1>5. Len(q) \in A
  BY <1>2, <1>3, <1>4, Counting
<1>6. Fine(Len(q)) /\ Chosen(q, S) = f[Len(q)]
  BY <1>5, TakenBy DEF A, f
<1>7. {q[j] : j \in 1..Len(q)} = EntriesOf(q)
  BY DEF EntriesOf
<1> QED
  BY <1>4, <1>6, <1>7

-----------------------------------------------------------------------------
(* Snoozes.                                                                *)

(* A file of snoozes as the commands leave it: not too many, none for       *)
(* longer than the longest time.                                           *)
Proper(q, at) ==
  /\ q \in Seq(Snoozes) /\ Len(q) <= MaxEntries
  /\ \A e \in EntriesOf(q) : e.until <= at + SnoozeMax

LEMMA Newest200Facts ==
  ASSUME NEW q \in Seq(Snoozes), Len(q) <= MaxEntries + 1
  PROVE  /\ Newest200(q) \in Seq(Snoozes) /\ Len(Newest200(q)) <= MaxEntries
         /\ EntriesOf(Newest200(q)) \subseteq EntriesOf(q)
         /\ \A e \in EntriesOf(q) :
              e \in EntriesOf(Newest200(q)) \/ (Len(q) = MaxEntries + 1 /\ e = q[1])
<1> DEFINE n == Len(q)
           d == IF n > MaxEntries THEN n - MaxEntries ELSE 0
           r == SubSeq(q, d + 1, n)
<1>1. MaxEntries \in Nat \ {0} /\ n \in Nat
  BY SnoozeAssumption
<1>2. d \in {0, 1} /\ (d = 1 => n = MaxEntries + 1) /\ n - d <= MaxEntries /\ n - d \in Nat
  BY <1>1
<1>3. Newest200(q) = r
  BY DEF Newest200
<1> HIDE DEF d
<1>4. /\ r \in Seq(Snoozes) /\ Len(r) = n - d
      /\ \A i \in 1..(n - d) : r[i] = q[i + d]
  BY <1>1, <1>2
<1> HIDE DEF r, n
<1>5. DOMAIN r = 1..(n - d) /\ DOMAIN q = 1..n
  BY <1>4 DEF n
<1>6. \A i \in 1..(n - d) : i + d \in 1..n
  BY <1>1, <1>2
<1>7. EntriesOf(r) \subseteq EntriesOf(q)
  BY <1>4, <1>5, <1>6 DEF EntriesOf
<1>8. ASSUME NEW i \in 1..n
      PROVE  q[i] \in EntriesOf(r) \/ (n = MaxEntries + 1 /\ i = 1)
  <2>1. CASE i > d
    <3>1. i - d \in 1..(n - d) /\ i - d + d = i
      BY <1>1, <1>2, <2>1
    <3> QED
      BY <1>4, <1>5, <3>1 DEF EntriesOf
  <2>2. CASE ~(i > d)
    BY <1>1, <1>2, <2>2
  <2> QED
    BY <2>1, <2>2
<1>9. ASSUME NEW e \in EntriesOf(q)
      PROVE  e \in EntriesOf(r) \/ (n = MaxEntries + 1 /\ e = q[1])
  <2>1. PICK i \in 1..n : e = q[i]
    BY <1>5 DEF EntriesOf
  <2> QED
    BY <1>8, <2>1
<1>10. r \in Seq(Snoozes) /\ Len(r) <= MaxEntries
  BY <1>2, <1>4
<1> QED
  BY <1>3, <1>7, <1>9, <1>10 DEF n

LEMMA AppendFacts ==
  ASSUME NEW q \in Seq(Snoozes), NEW e \in Snoozes
  PROVE  /\ Append(q, e) \in Seq(Snoozes) /\ Len(Append(q, e)) = Len(q) + 1
         /\ EntriesOf(Append(q, e)) = EntriesOf(q) \cup {e}
         /\ Len(q) > 0 => Append(q, e)[1] = q[1]
<1>1. /\ Append(q, e) \in Seq(Snoozes) /\ Len(Append(q, e)) = Len(q) + 1 /\ Len(q) \in Nat
      /\ \A i \in 1..Len(q) : Append(q, e)[i] = q[i]
      /\ Append(q, e)[Len(q) + 1] = e
  OBVIOUS
<1>2. DOMAIN Append(q, e) = 1..Len(q) \cup {Len(q) + 1} /\ DOMAIN q = 1..Len(q)
  BY <1>1
<1>3. EntriesOf(Append(q, e)) = EntriesOf(q) \cup {e}
  BY <1>1, <1>2 DEF EntriesOf
<1> QED
  BY <1>1, <1>3

(* What `set` and `off` make of a proper file: what they may drop, and that *)
(* they add nothing but the snooze that is set.                            *)
SetBy(cmd, at, data, new) ==
  LET e == [ref |-> cmd.ref, until |-> at + cmd.span] IN
    /\ e \in Snoozes /\ e.until <= at + SnoozeMax
    /\ EntriesOf(new) \subseteq EntriesOf(data) \cup {e}
    /\ \A x \in EntriesOf(data) :
         Live(x, at) /\ x \notin EntriesOf(new) =>
           x.ref = cmd.ref \/ (Len(data) = MaxEntries /\ x = data[1])

EndedBy(cmd, at, data, new) ==
  /\ EntriesOf(new) \subseteq EntriesOf(data)
  /\ \A x \in EntriesOf(data) :
       Live(x, at) /\ x \notin EntriesOf(new) => cmd.ref = None \/ x.ref \in {None, cmd.ref}

LEMMA SetFacts ==
  ASSUME NEW data \in Seq(Snoozes), Len(data) <= MaxEntries, NEW at \in Nat,
         NEW cmd \in Commands, cmd.op = "set",
         NEW o \in Outcomes(cmd, data, at)
  PROVE  /\ o.data \in Seq(Snoozes) /\ Len(o.data) <= MaxEntries
         /\ SetBy(cmd, at, data, o.data)
<1> DEFINE e == [ref |-> cmd.ref, until |-> at + cmd.span]
           S == {x \in EntriesOf(data) : Live(x, at) /\ x.ref # cmd.ref}
           kept == Chosen(data, S)
           full == Append(kept, e)
<1>1. cmd.ref \in Sessions \cup {None} /\ cmd.span \in Durations
  BY DEF Commands, SessionGrants, StandingGrants, GrantChanges, SnoozeChanges
<1>2. cmd.span \in Nat /\ cmd.span <= SnoozeMax /\ SnoozeMax \in Nat /\ MaxEntries \in Nat
  <2>1. cmd.span \in 1..SnoozeMax /\ SnoozeMax \in Nat /\ MaxEntries \in Nat
    BY <1>1, SnoozeAssumption
  <2> HIDE DEF e
  <2> QED
    BY <2>1
<1>3. e \in Snoozes /\ e.until <= at + SnoozeMax /\ e.ref = cmd.ref
  BY <1>1, <1>2 DEF Snoozes
<1>4. o.data = Newest200(full)
  <2>1. o \in SetSnooze(data, at, cmd.ref, cmd.span)
    BY DEF Outcomes
  <2>2. o = [data |-> Newest200(full), record |-> [op |-> "set", entries |-> {e}]]
    BY <2>1 DEF SetSnooze
  <2> HIDE DEF full
  <2> QED
    BY <2>2
<1> HIDE DEF e
<1>5. /\ kept \in Seq(Snoozes) /\ Len(kept) <= Len(data)
      /\ EntriesOf(kept) = EntriesOf(data) \cap S
      /\ Len(kept) = Len(data) => kept = data
  <2> HIDE DEF S
  <2> QED
    BY ChosenFacts
<1> HIDE DEF kept
<1>6. /\ full \in Seq(Snoozes) /\ Len(full) = Len(kept) + 1
      /\ EntriesOf(full) = EntriesOf(kept) \cup {e}
      /\ Len(kept) > 0 => full[1] = kept[1]
  BY <1>3, <1>5, AppendFacts
<1> HIDE DEF full
<1>7. Len(kept) \in Nat /\ Len(data) \in Nat /\ Len(full) <= MaxEntries + 1
  BY <1>2, <1>5, <1>6
<1>8. /\ o.data \in Seq(Snoozes) /\ Len(o.data) <= MaxEntries
      /\ EntriesOf(o.data) \subseteq EntriesOf(full)
      /\ \A x \in EntriesOf(full) :
           x \in EntriesOf(o.data) \/ (Len(full) = MaxEntries + 1 /\ x = full[1])
  BY <1>4, <1>6, <1>7, Newest200Facts
<1>9. ASSUME NEW x \in EntriesOf(data), Live(x, at), x \notin EntriesOf(o.data),
             x.ref # cmd.ref
      PROVE  Len(data) = MaxEntries /\ x = data[1]
  <2>1. x \in EntriesOf(kept)
    BY <1>5, <1>9
  <2>2. Len(full) = MaxEntries + 1 /\ x = full[1]
    BY <1>6, <1>8, <1>9, <2>1
  <2>3. Len(kept) = Len(data) /\ Len(data) = MaxEntries /\ Len(kept) > 0
    BY <1>2, <1>5, <1>6, <1>7, <2>2, SnoozeAssumption
  <2> QED
    BY <1>5, <1>6, <2>2, <2>3
<1>10. EntriesOf(o.data) \subseteq EntriesOf(data) \cup {e}
  BY <1>5, <1>6, <1>8
<1>11. SetBy(cmd, at, data, o.data)
  BY <1>3, <1>9, <1>10 DEF SetBy, e
<1> QED
  BY <1>8, <1>11

LEMMA OffFacts ==
  ASSUME NEW data \in Seq(Snoozes), Len(data) <= MaxEntries, NEW at,
         NEW cmd, cmd.op = "off",
         NEW o \in Outcomes(cmd, data, at)
  PROVE  /\ o.data \in Seq(Snoozes) /\ Len(o.data) <= MaxEntries
         /\ EndedBy(cmd, at, data, o.data)
<1> DEFINE live  == {x \in EntriesOf(data) : Live(x, at)}
           ended == {x \in live : Ends(x, cmd.ref)}
           rest  == live \ ended
<1>1. o.data = Chosen(data, rest)
  <2> DEFINE new == Chosen(data, rest)
             off == [data |-> new, record |-> [op |-> "off", entries |-> ended]]
  <2>1. o \in SnoozeOff(data, at, cmd.ref)
    BY DEF Outcomes
  <2>2. o \in IF ended = {} THEN {} ELSE {off}
    BY <2>1 DEF SnoozeOff
  <2>3. off.data = new
    OBVIOUS
  <2> HIDE DEF ended, off
  <2> QED
    BY <2>2, <2>3
<1>2. \A x \in live : x \in rest \/ cmd.ref = None \/ x.ref \in {None, cmd.ref}
  BY DEF Ends, AppliesTo
<1> HIDE DEF rest
<1>3. /\ o.data \in Seq(Snoozes) /\ Len(o.data) <= Len(data)
      /\ EntriesOf(o.data) = EntriesOf(data) \cap rest
  BY <1>1, ChosenFacts
<1>4. Len(o.data) <= MaxEntries
  <2>1. Len(o.data) \in Nat /\ Len(data) \in Nat /\ MaxEntries \in Nat
    BY <1>3, SnoozeAssumption
  <2> QED
    BY <1>3, <2>1
<1> QED
  BY <1>2, <1>3, <1>4 DEF EndedBy

(* A file of snoozes that can be read is as the commands leave it.          *)
SnoozeInv == file["snooze"] # Unreadable => Proper(file["snooze"], now)

LEMMA SnoozeWritten ==
  ASSUME Inv, SnoozeInv, NEW t \in Threads, Write(t), FileOf(work[t].cmd) = "snooze"
  PROVE  LET cmd == work[t].cmd
             at  == work[t].at
             old == file["snooze"]
             new == file'["snooze"]
         IN  /\ now' = now /\ at \in 0..now /\ Proper(old, now) /\ old # Unreadable
             /\ new \in Seq(Snoozes) /\ Len(new) <= MaxEntries
             /\ \/ cmd.op = "set" /\ SetBy(cmd, at, old, new)
                \/ cmd.op = "off" /\ EndedBy(cmd, at, old, new)
<1> DEFINE cmd == work[t].cmd
           at  == work[t].at
           old == file["snooze"]
           o   == work[t].out
<1>1. PICK c \in Commands, a \in 0..now : \E x : work[t] = Writing(c, a, x)
  BY Phases DEF Inv, WorkShape, Write
<1>2. cmd \in Commands /\ at \in 0..now /\ at \in Nat
  BY <1>1, Phases DEF Inv
<1>3. cmd.op \in {"set", "off"}
  BY DEF FileOf
<1>4. old # Unreadable /\ o \in Outcomes(cmd, old, at)
  BY DEF Inv, CopyInv, Write
<1>5. Proper(old, now)
  BY <1>4 DEF SnoozeInv
<1>6. file'["snooze"] = o.data /\ now' = now
  BY DEF Inv, Write, FileNames
<1>7. old \in Seq(Snoozes) /\ Len(old) <= MaxEntries
  BY <1>5 DEF Proper
<1> HIDE DEF cmd, at, old, o
<1>8. CASE cmd.op = "set"
  <2>1. o.data \in Seq(Snoozes) /\ Len(o.data) <= MaxEntries /\ SetBy(cmd, at, old, o.data)
    BY <1>2, <1>4, <1>7, <1>8, SetFacts
  <2> QED
    BY <1>2, <1>4, <1>5, <1>6, <1>8, <2>1 DEF cmd, at, old, o
<1>9. CASE cmd.op = "off"
  <2>1. o.data \in Seq(Snoozes) /\ Len(o.data) <= MaxEntries /\ EndedBy(cmd, at, old, o.data)
    BY <1>4, <1>7, <1>9, OffFacts
  <2> QED
    BY <1>2, <1>4, <1>5, <1>6, <1>9, <2>1 DEF cmd, at, old, o
<1> QED
  BY <1>3, <1>8, <1>9

(* What may change the snoozes, and what leaves them as they are.           *)
LEMMA SnoozeMoves ==
  ASSUME Inv, [Next]_vars
  PROVE  \/ \E t \in Threads : Write(t) /\ FileOf(work[t].cmd) = "snooze"
         \/ Edit("snooze")
         \/ file'["snooze"] = file["snooze"] /\ now \in Nat /\ now' \in {now, now + 1}
<1>1. ASSUME NEW t \in Threads, Write(t), FileOf(work[t].cmd) # "snooze"
      PROVE  file'["snooze"] = file["snooze"] /\ now' = now
  BY <1>1 DEF Inv, Write
<1>2. ASSUME NEW f \in FileNames, Edit(f), f # "snooze"
      PROVE  file'["snooze"] = file["snooze"] /\ now' = now
  BY <1>2 DEF Inv, Edit
<1>3. ASSUME NEW t \in Threads, \/ \E cmd \in Commands : Give(t, cmd)
                                \/ Load(t) \/ WriteFailed(t) \/ Log(t) \/ LogFailed(t)
      PROVE  file' = file /\ now' = now
  BY <1>3 DEF Give, Load, WriteFailed, Log, LogFailed
<1>4. ASSUME NEW p \in Processes, Crash(p)
      PROVE  file' = file /\ now' = now
  BY <1>4 DEF Crash
<1>5. CASE Tick
  BY <1>5 DEF Tick, Inv
<1>6. CASE UNCHANGED vars
  BY <1>6 DEF vars, Inv
<1> QED
  BY <1>1, <1>2, <1>3, <1>4, <1>5, <1>6 DEF Next, Inv

LEMMA SnoozesEdited ==
  ASSUME Inv, Edit("snooze")
  PROVE  now' = now /\ file'["snooze"] \in {Unreadable, <<>>}
  BY DEF Inv, Edit, Empty, FileNames

LEMMA EmptyProper ==
  ASSUME NEW at
  PROVE  Proper(<<>>, at) /\ EntriesOf(<<>>) = {}
<1>1. EntriesOf(<<>>) = {} /\ Len(<<>>) = 0 /\ <<>> \in Seq(Snoozes)
  BY DEF EntriesOf
<1> QED
  BY <1>1, SnoozeAssumption DEF Proper

LEMMA SnoozeInit ==
  ASSUME Init
  PROVE  SnoozeInv
<1>1. file["snooze"] = <<>>
  BY DEF Init, Empty, FileNames
<1> QED
  BY <1>1, EmptyProper DEF SnoozeInv

LEMMA SnoozeStep ==
  ASSUME Inv, SnoozeInv, [Next]_vars
  PROVE  SnoozeInv'
<1>1. ASSUME NEW t \in Threads, Write(t), FileOf(work[t].cmd) = "snooze"
      PROVE  SnoozeInv'
  <2> DEFINE cmd == work[t].cmd
             at  == work[t].at
             old == file["snooze"]
             new == file'["snooze"]
  <2>1. /\ now' = now /\ at \in 0..now /\ Proper(old, now)
        /\ new \in Seq(Snoozes) /\ Len(new) <= MaxEntries
        /\ SetBy(cmd, at, old, new) \/ EndedBy(cmd, at, old, new)
    BY <1>1, SnoozeWritten
  <2>2. now \in Nat /\ SnoozeMax \in Nat /\ at + SnoozeMax <= now + SnoozeMax
    BY <2>1, SnoozeAssumption DEF Inv
  <2> HIDE DEF cmd, at, old, new
  <2>3. ASSUME NEW x \in EntriesOf(new)
        PROVE  x.until <= now + SnoozeMax
    <3> DEFINE e == [ref |-> cmd.ref, until |-> at + cmd.span]
    <3>1. x \in EntriesOf(old) \/ (x = e /\ e \in Snoozes /\ e.until <= at + SnoozeMax)
      BY <2>1, <2>3 DEF SetBy, EndedBy
    <3>2. CASE x \in EntriesOf(old)
      BY <2>1, <3>2 DEF Proper
    <3>3. CASE x = e /\ e \in Snoozes /\ e.until <= at + SnoozeMax
      <4>1. x.until \in Nat /\ x.until <= at + SnoozeMax
        BY <3>3 DEF Snoozes
      <4>2. at \in Nat
        BY <2>1, <2>2
      <4> HIDE DEF e
      <4> QED
        BY <2>2, <4>1, <4>2
    <3> QED
      BY <3>1, <3>2, <3>3
  <2> QED
    BY <2>1, <2>3 DEF SnoozeInv, Proper, new
<1>2. CASE Edit("snooze")
  BY <1>2, SnoozesEdited, EmptyProper DEF SnoozeInv
<1>3. CASE file'["snooze"] = file["snooze"] /\ now \in Nat /\ now' \in {now, now + 1}
  <2> SUFFICES ASSUME file["snooze"] # Unreadable
               PROVE  Proper(file["snooze"], now')
    BY <1>3 DEF SnoozeInv
  <2>1. Proper(file["snooze"], now)
    BY DEF SnoozeInv
  <2>2. ASSUME NEW x \in EntriesOf(file["snooze"])
        PROVE  x.until <= now' + SnoozeMax
    <3>1. x \in Snoozes /\ x.until <= now + SnoozeMax
      BY <2>1 DEF Proper, EntriesOf
    <3>2. x.until \in Nat /\ SnoozeMax \in Nat
      BY <3>1, SnoozeAssumption DEF Snoozes
    <3> QED
      BY <1>3, <3>1, <3>2
  <2> QED
    BY <2>1, <2>2 DEF Proper
<1> QED
  BY <1>1, <1>2, <1>3, SnoozeMoves

(* Whether reviews of a session are snoozed is whether an entry that lives   *)
(* applies to it.                                                          *)
LEMMA ActiveFacts ==
  ASSUME NEW q \in Seq(Snoozes), NEW s, NEW at
  PROVE  Active(q, s, at) <=> \E x \in EntriesOf(q) : Live(x, at) /\ AppliesTo(x, s)
  BY DEF Active, EntriesOf

LEMMA ReliefStep ==
  ASSUME Inv, SnoozeInv, SnoozeInv', [Next]_vars, NEW s \in Sessions,
         ~ActiveIn(s), ActiveIn(s)'
  PROVE  \E t \in Threads :
           /\ WritesTo(t, "snooze") /\ work'[t].phase = "logging"
           /\ work[t].cmd.op = "set" /\ work[t].cmd.ref \in {None, s}
<1> DEFINE old == file["snooze"]
           new == file'["snooze"]
<1>1. new # Unreadable /\ new \in Seq(Snoozes) /\ Active(new, s, now')
  BY DEF ActiveIn, SnoozeInv, Proper
<1>2. PICK x \in EntriesOf(new) : Live(x, now') /\ AppliesTo(x, s)
  BY <1>1, ActiveFacts
<1>3. ASSUME old # Unreadable, x \in EntriesOf(old), Live(x, now)
      PROVE  FALSE
  <2>1. old \in Seq(Snoozes)
    BY <1>3 DEF SnoozeInv, Proper
  <2> QED
    BY <1>2, <1>3, <2>1, ActiveFacts DEF ActiveIn
<1>4. ASSUME NEW t \in Threads, Write(t), FileOf(work[t].cmd) = "snooze"
      PROVE  /\ WritesTo(t, "snooze") /\ work'[t].phase = "logging"
             /\ work[t].cmd.op = "set" /\ work[t].cmd.ref \in {None, s}
  <2> DEFINE cmd == work[t].cmd
             at  == work[t].at
  <2>1. /\ now' = now /\ old # Unreadable
        /\ \/ cmd.op = "set" /\ SetBy(cmd, at, old, new)
           \/ cmd.op = "off" /\ EndedBy(cmd, at, old, new)
    BY <1>4, SnoozeWritten
  <2>2. x \notin EntriesOf(old)
    BY <1>2, <1>3, <2>1
  <2>3. WritesTo(t, "snooze") /\ work'[t].phase = "logging"
    BY <1>4, Phases DEF WritesTo, Write, Inv, WorkShape, Set
  <2> HIDE DEF cmd, at, old, new
  <2>4. cmd.op = "set" /\ x = [ref |-> cmd.ref, until |-> at + cmd.span]
    BY <1>2, <2>1, <2>2 DEF SetBy, EndedBy
  <2>5. cmd.ref \in {None, s}
    BY <1>2, <2>4 DEF AppliesTo
  <2> QED
    BY <2>3, <2>4, <2>5 DEF cmd
<1>5. CASE Edit("snooze")
  BY <1>1, <1>2, <1>5, SnoozesEdited, EmptyProper
<1>6. CASE new = old /\ now \in Nat /\ now' \in {now, now + 1}
  <2>1. x \in Snoozes /\ x.until <= now + SnoozeMax
    BY <1>1, <1>2, <1>6 DEF SnoozeInv, Proper, EntriesOf
  <2>2. x.until \in Nat /\ SnoozeMax \in Nat
    BY <2>1, SnoozeAssumption DEF Snoozes
  <2>3. Live(x, now)
    BY <1>2, <1>6, <2>1, <2>2 DEF Live
  <2> QED
    BY <1>1, <1>2, <1>3, <1>6, <2>3
<1> QED
  BY <1>4, <1>5, <1>6, SnoozeMoves

LEMMA LastsStep ==
  ASSUME Inv, SnoozeInv, [Next]_vars, NEW t \in Threads,
         WritesTo(t, "snooze"), work'[t].phase = "logging",
         NEW e \in EntriesOf(file["snooze"]),
         Live(e, now), e \notin EntriesOf(file'["snooze"])
  PROVE  LET cmd == work[t].cmd IN
           \/ cmd.op = "off" /\ (cmd.ref = None \/ e.ref \in {None, cmd.ref})
           \/ cmd.op = "set" /\ e.ref = cmd.ref
           \/ cmd.op = "set" /\ Len(file["snooze"]) = MaxEntries
                             /\ e = file["snooze"][1]
           \/ e.until > work[t].at + SnoozeMax
<1> DEFINE cmd == work[t].cmd
           at  == work[t].at
           old == file["snooze"]
           new == file'["snooze"]
<1>1. Write(t)
  BY Phases DEF WritesTo, vars, Next, Give, Load, Write, WriteFailed, Log, LogFailed,
                Crash, Edit, Tick, Set, Inv, WorkShape
<1>2. /\ at \in 0..now /\ Proper(old, now)
      /\ \/ cmd.op = "set" /\ SetBy(cmd, at, old, new)
         \/ cmd.op = "off" /\ EndedBy(cmd, at, old, new)
  BY <1>1, SnoozeWritten DEF WritesTo
<1> HIDE DEF cmd, at, old, new
<1>3. e \in EntriesOf(old) /\ e \notin EntriesOf(new)
  BY DEF old, new
<1>4. e.until \in Nat /\ SnoozeMax \in Nat /\ now \in Nat /\ at \in Nat /\ at <= now
  <2>1. e \in Snoozes
    BY <1>2, <1>3 DEF Proper, EntriesOf
  <2> QED
    BY <1>2, <2>1, SnoozeAssumption DEF Snoozes, Inv
<1>5. CASE e.until <= at + SnoozeMax
  <2>1. Live(e, at)
    BY <1>4, <1>5 DEF Live
  <2> QED
    BY <1>2, <1>3, <2>1 DEF SetBy, EndedBy, cmd, old
<1>6. CASE ~(e.until <= at + SnoozeMax)
  <2>1. e.until > at + SnoozeMax
    BY <1>4, <1>6
  <2> QED
    BY <2>1 DEF at
<1> QED
  BY <1>5, <1>6

(* With one process, reviews of a session become snoozed only by a command   *)
(* that snoozes them: an entry that was ended or has run out does not come   *)
(* back with a later command, a failure, an edit or the clock (snooze.run).  *)
THEOREM ReliefBySet ==
  ASSUME OneProcess
  PROVE  Spec => ReliefOnlyBySet
<1>1. Init => Inv /\ SnoozeInv
  BY InitInv, SnoozeInit
<1>2. Inv /\ SnoozeInv /\ [Next]_vars => (Inv /\ SnoozeInv)'
  BY NextInv, SnoozeStep
<1>3. Inv /\ SnoozeInv /\ SnoozeInv' /\ [Next]_vars =>
        [\A s \in Sessions : ~ActiveIn(s) /\ ActiveIn(s)' =>
           \E t \in Threads :
             /\ WritesTo(t, "snooze") /\ work'[t].phase = "logging"
             /\ work[t].cmd.op = "set" /\ work[t].cmd.ref \in {None, s}]_vars
  BY ReliefStep
<1> QED
  BY <1>1, <1>2, <1>3, PTL DEF Spec, ReliefOnlyBySet

(* With one process, a snooze that applies is never dropped by a command     *)
(* that is not about it, but as the oldest of too many or by one too late    *)
(* to see that it applies (snooze.run).                                    *)
THEOREM SnoozesLast ==
  ASSUME OneProcess
  PROVE  Spec => SnoozeLasts
<1>1. Init => Inv /\ SnoozeInv
  BY InitInv, SnoozeInit
<1>2. Inv /\ SnoozeInv /\ [Next]_vars => (Inv /\ SnoozeInv)'
  BY NextInv, SnoozeStep
<1>3. Inv /\ SnoozeInv /\ [Next]_vars =>
        [\A t \in Threads :
           WritesTo(t, "snooze") /\ work'[t].phase = "logging" /\ file["snooze"] # Unreadable =>
             \A e \in EntriesOf(file["snooze"]) :
               Live(e, now) /\ e \notin EntriesOf(file'["snooze"]) =>
                 LET cmd == work[t].cmd IN
                   \/ cmd.op = "off" /\ (cmd.ref = None \/ e.ref \in {None, cmd.ref})
                   \/ cmd.op = "set" /\ e.ref = cmd.ref
                   \/ cmd.op = "set" /\ Len(file["snooze"]) = MaxEntries
                                     /\ e = file["snooze"][1]
                   \/ e.until > work[t].at + SnoozeMax]_vars
  BY LastsStep
<1> QED
  BY <1>1, <1>2, <1>3, PTL DEF Spec, SnoozeLasts

=============================================================================
