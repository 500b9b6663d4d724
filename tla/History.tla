------------------------------ MODULE History ------------------------------
(***************************************************************************)
(* What `/sentrook history` and `/sentrook why` make of the traffic log    *)
(* (integrations/hermes/plugin/history.py; integrations/openclaw/plugin/   *)
(* history.ts is the same).  A file is a sequence of bytes, where a byte   *)
(* is a part of a record or a newline; a record is cut in two parts, so    *)
(* that a write can be cut off between them.                               *)
(***************************************************************************)
EXTENDS Naturals, Sequences, FiniteSets, SequencesExt, FiniteSetsExt

Kinds == {"scan", "resolution"}
Records(rids) == [kind : Kinds, rid : rids]

NewLine == [kind |-> "newline", rid |-> 0, part |-> 0]

Byte(rec, n) == [kind |-> rec.kind, rid |-> rec.rid, part |-> n]

Line(rec) == <<Byte(rec, 1), Byte(rec, 2)>>

(* True when the file is non-empty and does not end with a newline.         *)
Torn(text) == text # <<>> /\ Last(text) # NewLine

-----------------------------------------------------------------------------
(* bytes.split(b"\n"): a newline begins a line, another byte goes on with it. *)
AddByte(parts, byte) ==
  IF byte = NewLine THEN Append(parts, <<>>)
  ELSE [parts EXCEPT ![Len(parts)] = Append(@, byte)]

Split(text) == FoldLeft(AddByte, << <<>> >>, text)

(* Mutant: the beginning of a chunk is not carried to the one before it.    *)
CarriedNot(chunk, head) == chunk

(* What is before the first newline of a chunk ends a line that begins in   *)
(* the chunk before it.                                                     *)
Carried(chunk, head) == chunk \o head

(* One chunk, read before position pos.                                     *)
ReadChunk(text, chunk, r) ==
  LET step == Min({chunk, r.pos, r.left})
      parts == Split(Carried(SubSeq(text, r.pos - step + 1, r.pos), r.head))
  IN  IF step = 0 THEN r
      ELSE [pos |-> r.pos - step, left |-> r.left - step, head |-> Head(parts),
            lines |-> r.lines \o Reverse(Tail(parts))]

(* _lines_backward: chunks from the end, as far as the budget goes; what is *)
(* left over is a line only at the beginning of the file.                   *)
LinesBackward(text, chunk, budget) ==
  LET Read(r, i) == ReadChunk(text, chunk, r)
      end == FoldLeft(Read, [pos |-> Len(text), left |-> budget, head |-> <<>>, lines |-> <<>>],
                      [i \in 1..Len(text) |-> i])
  IN  [lines |-> IF end.pos = 0 THEN Append(end.lines, end.head) ELSE end.lines,
       left |-> end.left]

(* The lines that are entirely among the last bytes of a file, newest first. *)
LastLines(text, budget) ==
  IF budget >= Len(text) THEN Reverse(Split(text))
  ELSE Reverse(Tail(Split(SubSeq(text, Len(text) - budget + 1, Len(text)))))

(* A line that does not parse is skipped.                                   *)
IsRecord(line) == /\ Len(line) = 2 /\ line[1].part = 1 /\ line[2].part = 2
                  /\ line[1].kind = line[2].kind /\ line[1].rid = line[2].rid

RecordOf(line) == [kind |-> line[1].kind, rid |-> line[1].rid]

KeepRecord(records, line) ==
  IF IsRecord(line) THEN Append(records, RecordOf(line)) ELSE records

Parsed(lines) == FoldLeft(KeepRecord, <<>>, lines)

OnLines(text) == {RecordOf(line) : line \in {part \in ToSet(Split(text)) : IsRecord(part)}}

(* recent_scans: newest first, each scan once, with the resolution that was *)
(* read before it, until limit of them match.                               *)
TakeRecord(r, rec, limit, matches) ==
  IF Len(r.shown) >= limit THEN r
  ELSE IF rec.kind = "resolution" THEN [r EXCEPT !.resolved = @ \cup {rec.rid}]
  ELSE IF rec.rid \in r.seen THEN r
  ELSE [r EXCEPT !.seen = @ \cup {rec.rid},
                 !.shown = IF rec.rid \in matches
                           THEN Append(@, [rid |-> rec.rid,
                                           resolved |-> rec.rid \in r.resolved])
                           ELSE @]

RecentScans(records, limit, matches) ==
  LET Take(r, rec) == TakeRecord(r, rec, limit, matches)
  IN  FoldLeft(Take, [resolved |-> {}, seen |-> {}, shown |-> <<>>], records).shown

-----------------------------------------------------------------------------
(* What a scan record says of the call, as far as the table shows it.       *)
ScanRecords ==
  [failed : BOOLEAN, mode : {"enforce", "observe"}, verdict : {"allow", "review", "block"},
   decision : {"allowed", "blocked", "review_timed_out", "allowed_on_error", "blocked_on_error"},
   snoozed : BOOLEAN]

(* Mutant: the mode of the plugin is not looked at.                         *)
NeverObserved(scan) == FALSE

Observed(scan) == scan.mode = "observe"

(* action_of: what the plugin did with the call.                            *)
ActionOf(scan, resolved) ==
  IF scan.failed
  THEN IF resolved THEN "review (scan error)"
       ELSE IF scan.decision = "blocked_on_error" THEN "blocked (scan error)"
       ELSE "allowed (scan error)"
  ELSE IF Observed(scan)
       THEN IF scan.verdict \in {"review", "block"} THEN "observed" ELSE "allowed"
  ELSE IF scan.verdict = "block" THEN "blocked"
  ELSE IF scan.verdict = "allow" THEN "allowed"
  ELSE IF scan.decision = "allowed" /\ scan.snoozed THEN "allowed (snoozed)"
  ELSE IF scan.decision = "blocked" THEN "blocked (no reviewer)" ELSE "review"

(* skill_review.counts: one of the three for every loop save.               *)
CountedAs(action) ==
  IF action \in {"blocked", "blocked (scan error)", "blocked (no reviewer)"} THEN "blocked"
  ELSE IF action \in {"review", "review (scan error)"} THEN "asked" ELSE "allowed"

=============================================================================
