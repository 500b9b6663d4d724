----------------------------- MODULE TrafficLog -----------------------------
(***************************************************************************)
(* The traffic log of the Hermes plugin (integrations/hermes/plugin:       *)
(* traffic.py, and its readers in history.py and commands.py; the OpenClaw *)
(* plugin's traffic.ts and history.ts do the same).                        *)
(*                                                                         *)
(* Each TrafficLog has a lock of its own, so an instance writes one record *)
(* at a time; but the hooks of a process, its commands (commands._changed) *)
(* and other processes have instances of their own over the same file.  A  *)
(* write looks at the size, rotates, opens and appends, in steps between   *)
(* which the others go on; it may be cut off by a crash or a full disk,    *)
(* and one write call may append less than it was given.                   *)
(***************************************************************************)
EXTENDS History

CONSTANTS Instances,  \* TrafficLog instances over one file
          MaxBytes,   \* max_bytes
          Chunks,     \* chunk sizes to read with, _CHUNK
          Budgets,    \* bytes to read, READ_BUDGET_BYTES
          Limits,     \* scans to show: `why` 1, `history` n
          MaxScans,   \* bounds of the runs: scans, cut-off writes,
          MaxFailures

ASSUME LogAssumption ==
  /\ Instances # {} /\ MaxBytes \in Nat
  /\ Chunks # {} /\ IsFiniteSet(Chunks) /\ Chunks \subseteq Nat \ {0}
  /\ Budgets \subseteq Nat /\ Limits \subseteq Nat \ {0}
  /\ MaxScans \in Nat /\ MaxFailures \in Nat

VARIABLES
  files,     \* every file there was, as the bytes appended to it
  current,   \* the file that has the path, 0 for none
  rotated,   \* the file that has the path with .1, 0 for none
  writers,   \* what each instance is doing
  asked,     \* the scans of each instance whose review is not answered
  reader,    \* a reading of the history
  scans,     \* scans so far
  failures,  \* cut-off and short writes so far
  whole      \* ghost: the records written with no other write in between

vars == <<files, current, rotated, writers, asked, reader, scans, failures, whole>>

Rids == 1..MaxScans

(* mark: where its file ended when it was opened, or after its first bytes; *)
(* clean: no other write was cut off before its first bytes.                *)
Writers ==
  [at : {"idle", "sized", "placed", "opened", "short"}, over : BOOLEAN,
   rec : Records(0..MaxScans), file : 0..2 * MaxScans, lead : BOOLEAN,
   mark : Nat, clean : BOOLEAN]

Idle ==
  [at |-> "idle", over |-> FALSE, rec |-> [kind |-> "scan", rid |-> 0], file |-> 0,
   lead |-> FALSE, mark |-> 0, clean |-> FALSE]

(* A reading: the records of the file it has read, what is left of the      *)
(* budget; ghosts: what was on lines of the two files when it began.        *)
NoReading ==
  [at |-> "none", records |-> <<>>, left |-> 0, limit |-> 1,
   before |-> {}, kept |-> {}, shown |-> <<>>]

Content(f) == IF f = 0 THEN <<>> ELSE files[f]

TypeOK ==
  /\ \A f \in DOMAIN files : \A i \in DOMAIN files[f] :
       files[f][i] = NewLine \/ files[f][i].rid \in Rids
  /\ current \in 0..Len(files) /\ rotated \in 0..Len(files)
  /\ writers \in [Instances -> Writers]
  /\ asked \in [Instances -> SUBSET Rids]
  /\ scans \in 0..MaxScans /\ failures \in 0..MaxFailures

Init ==
  /\ files = <<>> /\ current = 0 /\ rotated = 0
  /\ writers = [w \in Instances |-> Idle]
  /\ asked = [w \in Instances |-> {}]
  /\ reader = NoReading
  /\ scans = 0 /\ failures = 0 /\ whole = {}

-----------------------------------------------------------------------------
(* Writing.                                                                 *)

Over(f) == Len(Content(f)) > MaxBytes

(* An instance takes its lock with a record to write, and looks at the size *)
(* of the file: a scan, or the resolution of one whose review is open.      *)
Sizes(w, rec) ==
  /\ writers[w].at = "idle"
  /\ writers' = [writers EXCEPT ![w] = [Idle EXCEPT !.at = "sized", !.rec = rec,
                                                   !.over = Over(current)]]
  /\ UNCHANGED <<files, current, rotated, reader, failures, whole>>

WriteScan(w) ==
  /\ scans < MaxScans
  /\ Sizes(w, [kind |-> "scan", rid |-> scans + 1])
  /\ scans' = scans + 1
  /\ asked' = [asked EXCEPT ![w] = @ \cup {scans + 1}]

WriteResolution(w) ==
  \E rid \in asked[w] :
    /\ Sizes(w, [kind |-> "resolution", rid |-> rid])
    /\ asked' = [asked EXCEPT ![w] = @ \ {rid}]
    /\ UNCHANGED scans

(* The rename: the file that has the path now, which need not be the one    *)
(* whose size was looked at.  A path that is gone is passed over.           *)
Rotate(w) ==
  /\ writers[w].at = "sized"
  /\ writers' = [writers EXCEPT ![w].at = "placed"]
  /\ IF writers[w].over /\ current # 0
     THEN rotated' = current /\ current' = 0
     ELSE UNCHANGED <<rotated, current>>
  /\ UNCHANGED <<files, asked, reader, scans, failures, whole>>

(* Mutant: the record is appended whatever the file ends with.              *)
LeadNever(text) == FALSE

(* The lead newline ends a line that was cut off.                           *)
Lead(text) == Torn(text)

(* O_CREAT and O_APPEND: from here on the instance has the file, whatever   *)
(* becomes of its name.                                                     *)
Open(w) ==
  /\ writers[w].at = "placed"
  /\ LET f == IF current = 0 THEN Len(files) + 1 ELSE current
     IN  /\ files' = IF current = 0 THEN Append(files, <<>>) ELSE files
         /\ current' = f
         /\ writers' = [writers EXCEPT ![w].at = "opened", ![w].file = f,
                                       ![w].lead = Lead(Content(current)),
                                       ![w].mark = Len(Content(current))]
  /\ UNCHANGED <<rotated, asked, reader, scans, failures, whole>>

Bytes(writer) ==
  (IF writer.lead THEN <<NewLine>> ELSE <<>>) \o Line(writer.rec) \o <<NewLine>>

(* The bytes that are still to be written.                                  *)
Rest(writer) ==
  IF writer.at = "opened" THEN Bytes(writer) ELSE <<Byte(writer.rec, 2), NewLine>>

(* No other write was cut off since the file was opened, and none came      *)
(* between the bytes of this one.                                           *)
Undisturbed(w) ==
  LET writer == writers[w] text == files[writer.file]
  IN  IF writer.at = "opened" THEN Torn(text) => Torn(SubSeq(text, 1, writer.mark))
      ELSE writer.clean /\ Len(text) = writer.mark

Write(w) ==
  /\ writers[w].at \in {"opened", "short"}
  /\ files' = [files EXCEPT ![writers[w].file] = @ \o Rest(writers[w])]
  /\ writers' = [writers EXCEPT ![w] = Idle]
  /\ whole' = IF Undisturbed(w)
              THEN whole \cup {[rec |-> writers[w].rec, file |-> writers[w].file]}
              ELSE whole
  /\ UNCHANGED <<current, rotated, asked, reader, scans, failures>>

(* A write call that appends only the first bytes: the rest follows, or an  *)
(* error or a crash.                                                        *)
WriteShort(w) ==
  /\ writers[w].at = "opened" /\ failures < MaxFailures
  /\ failures' = failures + 1
  /\ LET writer == writers[w] f == writer.file
         text == files[f] \o (IF writer.lead THEN <<NewLine>> ELSE <<>>)
                          \o <<Byte(writer.rec, 1)>>
     IN  /\ files' = [files EXCEPT ![f] = text]
         /\ writers' = [writers EXCEPT ![w].at = "short", ![w].mark = Len(text),
                                       ![w].clean = Undisturbed(w)]
  /\ UNCHANGED <<current, rotated, asked, reader, scans, whole>>

(* An OSError is logged and the record given up; the lock is released.      *)
Fail(w) ==
  /\ writers[w].at # "idle"
  /\ writers[w].at # "short" => failures < MaxFailures
  /\ failures' = IF writers[w].at = "short" THEN failures ELSE failures + 1
  /\ writers' = [writers EXCEPT ![w] = Idle]
  /\ UNCHANGED <<files, current, rotated, asked, reader, scans, whole>>

(* A process ends in the middle of it, and its open reviews with it.        *)
Crash(w) ==
  /\ failures < MaxFailures \/ writers[w].at = "short"
  /\ failures' = IF writers[w].at = "short" THEN failures ELSE failures + 1
  /\ writers' = [writers EXCEPT ![w] = Idle]
  /\ asked' = [asked EXCEPT ![w] = {}]
  /\ UNCHANGED <<files, current, rotated, reader, scans, whole>>

-----------------------------------------------------------------------------
(* Reading: one file is read to its end before the other is opened, and a   *)
(* file only grows behind what is being read.                               *)

(* Mutant: the rotated file is read first.                                  *)
RotatedFirst == <<rotated, current>>

ReadOrder == <<current, rotated>>

Named == {current, rotated}

ReadFirst(budget, limit) ==
  /\ reader.at = "none"
  /\ LET read == LinesBackward(Content(ReadOrder[1]), Max(Chunks), budget)
     IN  reader' = [NoReading EXCEPT
                      !.at = "between", !.records = Parsed(read.lines), !.left = read.left,
                      !.limit = limit,
                      !.before = UNION {[rec : OnLines(Content(f)), file : {f}] : f \in Named}]
  /\ UNCHANGED <<files, current, rotated, writers, asked, scans, failures, whole>>

ReadSecond ==
  /\ reader.at = "between"
  /\ LET read == LinesBackward(Content(ReadOrder[2]), Max(Chunks), reader.left)
         records == reader.records \o Parsed(read.lines)
     IN  reader' = [reader EXCEPT !.at = "done",
                      !.shown = RecentScans(records, reader.limit, Rids),
                      !.records = <<>>, !.left = read.left, !.kept = Named]
  /\ UNCHANGED <<files, current, rotated, writers, asked, scans, failures, whole>>

Next ==
  \/ \E w \in Instances :
       \/ WriteScan(w) \/ WriteResolution(w) \/ Rotate(w) \/ Open(w)
       \/ Write(w) \/ WriteShort(w) \/ Fail(w) \/ Crash(w)
  \/ \E budget \in Budgets, limit \in Limits : ReadFirst(budget, limit)
  \/ ReadSecond

Spec == Init /\ [][Next]_vars

-----------------------------------------------------------------------------
(* A record that no short write of another instance got into is on a line   *)
(* of its own, whatever was cut off before it and whatever came after.      *)
OwnLine ==
  \A entry \in whole : entry.rec \in OnLines(files[entry.file])

(* A scan of the history has its review's answer if that was on a line when *)
(* the reading began: a rotation during the reading does not part them.     *)
AnswersJoined ==
  \A i \in DOMAIN reader.shown :
    (\E e \in reader.before : e.rec = [kind |-> "resolution", rid |-> reader.shown[i].rid])
      => reader.shown[i].resolved

(* A scan that was on a line when the reading began, in a file that still   *)
(* has a name when it ends, is listed once if limit and budget allow.        *)
ScansListed ==
  reader.at = "done" =>
    /\ \A i, j \in DOMAIN reader.shown :
         reader.shown[i].rid = reader.shown[j].rid => i = j
    /\ reader.left > 0 /\ Len(reader.shown) < reader.limit =>
         \A e \in reader.before :
           e.rec.kind = "scan" /\ e.file \in reader.kept =>
             \E i \in DOMAIN reader.shown : reader.shown[i].rid = e.rec.rid

(* What history shows is what the two files held, whatever the writers do   *)
(* between the reading of the one and of the other.                         *)
HistoryTold == AnswersJoined /\ ScansListed

(* Reading in chunks gives the lines that are entirely among the last bytes *)
(* the budget allows, for every file the writers leave behind.              *)
ReadsTail ==
  \A f \in {current, rotated}, chunk \in Chunks, budget \in Budgets :
    LinesBackward(Content(f), chunk, budget).lines = LastLines(Content(f), budget)

(* The two plugins' decisions, for every configuration.                     *)
Hermes(mode, onError) ==
  INSTANCE PluginPolicy WITH ReviewAt <- 1, BlockAt <- 2, Mode <- mode, OnScanError <- onError

OpenClaw(mode, onError, scheduled) ==
  INSTANCE OpenClawPolicy WITH ReviewAt <- 1, BlockAt <- 2, Mode <- mode,
    OnScanError <- onError, ScheduledIntents <- scheduled, ScheduledBehavior <- "deny"

(* What history has to say of a call: a prompt about a failed scan is seen  *)
(* only in its answer, and until then its call is held.                     *)
Told(hook, failed, resolved) ==
  IF hook = "run" THEN "allowed"
  ELSE IF hook = "block" \/ (failed /\ ~resolved) THEN "blocked" ELSE "asked"

Answered(hook) == {FALSE} \cup (IF hook = "approve" THEN {TRUE} ELSE {})

ScannedTold(mode, onError, unattended, resolved) ==
  \A verdict \in {"allow", "review", "block"}, snoozed \in BOOLEAN :
    \A hook \in {Hermes(mode, onError)!Directive(verdict, unattended, snoozed),
                 OpenClaw(mode, onError, {})!Hook(verdict, snoozed)} :
      LET scan == [failed |-> FALSE, mode |-> mode, verdict |-> verdict,
                   decision |-> Hermes(mode, onError)!ScannedDecision[hook],
                   snoozed |-> mode # "observe" /\ verdict = "review" /\ hook = "run"]
      IN  resolved \in Answered(hook) =>
            CountedAs(ActionOf(scan, resolved)) = Told(hook, FALSE, resolved)

FailedTold(mode, onError, unattended, resolved) ==
  \A failure \in Hermes(mode, onError)!FailureKinds :
    \A hook \in {Hermes(mode, onError)!ErrorDirective(failure, unattended),
                 OpenClaw(mode, onError, IF unattended THEN {"user"} ELSE {})
                   !ErrorHook(failure, "message")} :
      LET scan == [failed |-> TRUE, mode |-> mode, verdict |-> "allow",
                   decision |-> Hermes(mode, onError)!ErrorDecision[hook], snoozed |-> FALSE]
      IN  resolved \in Answered(hook) =>
            CountedAs(ActionOf(scan, resolved)) = Told(hook, TRUE, resolved)

ToldRight ==
  {resolved \in BOOLEAN :
     \A mode \in {"enforce", "observe"}, onError \in {"allow", "review", "deny"},
        unattended \in BOOLEAN :
       /\ ScannedTold(mode, onError, unattended, resolved)
       /\ FailedTold(mode, onError, unattended, resolved)}

(* What history says of a scan it lists is what happened to the call: for   *)
(* every mode, verdict, failure, unattended run and snooze of either plugin *)
(* action_of gives back the branch that was taken.                          *)
ActionsTold ==
  \A i \in DOMAIN reader.shown : reader.shown[i].resolved \in ToldRight

=============================================================================
