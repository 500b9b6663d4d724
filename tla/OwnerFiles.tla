------------------------------ MODULE OwnerFiles ------------------------------
(***************************************************************************)
(* The two files the owner's commands change, in the Hermes plugin:        *)
(* grants.json (grants.py), the grants and channel bindings a scan sends,  *)
(* and snooze.json (snooze.py), the relief from review prompts.  What a    *)
(* command makes of a file is a set of outcomes: its new contents and the  *)
(* record for the traffic log.  No outcome: the command replies and        *)
(* changes nothing.                                                        *)
(*                                                                         *)
(* Times are numbers; an expiry that cannot be read counts as past.        *)
(***************************************************************************)
EXTENDS Naturals, Sequences

CONSTANTS None,
          Sessions,        \* session_refs
          Ids,             \* "gr-" and six random hex digits
          Spans,           \* the durations of --expires
          Channels,        \* delivery destinations
          ConfigChannels,  \* channel_bindings of the plugin settings
          Durations,       \* the durations a snooze may be set for
          SnoozeMax,       \* 24 hours
          MaxEntries,      \* snooze.json keeps 200 entries
          Verbs            \* the commands of a run

ASSUME GrantAssumption ==
  /\ None \notin Sessions
  /\ Spans \subseteq Nat \ {0} /\ ConfigChannels \subseteq Channels

ASSUME SnoozeAssumption ==
  /\ SnoozeMax \in Nat /\ Durations \subseteq 1..SnoozeMax
  /\ MaxEntries \in Nat \ {0}

-----------------------------------------------------------------------------
(* Grants.                                                                 *)

Grants == [id : Ids, scope : {"session", "persistent"},
           ref : Sessions \cup {None}, until : Nat \cup {None}]

GrantFiles == [grants : SUBSET Grants, bindings : SUBSET Channels]

NoGrants == [grants |-> {}, bindings |-> {}]

Expired(g, at) == g.until # None /\ g.until <= at

(* effective: a session grant only in its own session.                      *)
Effective(data, at, s) ==
  {g \in data.grants : ~Expired(g, at) /\ (g.scope = "session" => g.ref = s)}

(* The grants among the destinations a scan sends.                          *)
Bound(data) == ConfigChannels \cup data.bindings

(* A write drops expired grants.                                           *)
Outcome(data, at, op, entries) ==
  [data   |-> [data EXCEPT !.grants = {g \in @ : ~Expired(g, at)}],
   record |-> [op |-> op, entries |-> entries]]

(* add_grant: a new id, not in use in the file.                             *)
AddGrant(data, at, scope, ref, span) ==
  {LET g == [id |-> id, scope |-> scope, ref |-> ref,
             until |-> IF span = None THEN None ELSE at + span]
   IN  Outcome([data EXCEPT !.grants = @ \cup {g}], at, "grant", {g}) :
     id \in Ids \ {g.id : g \in data.grants}}

Revoke(data, at, id) ==
  {Outcome([data EXCEPT !.grants = @ \ {g}], at, "revoke", {g}) :
     g \in {h \in data.grants : h.id = id}}

BindAdd(data, at, channel) ==
  IF channel \in Bound(data) THEN {}
  ELSE {Outcome([data EXCEPT !.bindings = @ \cup {channel}], at, "bind_add", {channel})}

BindRemove(data, at, channel) ==
  IF channel \in ConfigChannels \/ channel \notin data.bindings THEN {}
  ELSE {Outcome([data EXCEPT !.bindings = @ \ {channel}], at, "bind_remove", {channel})}

-----------------------------------------------------------------------------
(* Snoozes, oldest first; one with ref None is for every session.          *)

Snoozes == [ref : Sessions \cup {None}, until : Nat]

SnoozeFiles == Seq(Snoozes)

(* _live: an expiry within the next 24 hours.                               *)
Live(e, at) == at < e.until /\ e.until <= at + SnoozeMax

AppliesTo(e, s) == e.ref \in {None, s}

(* active: whether reviews of the session are snoozed.                      *)
Active(data, s, at) ==
  \E i \in DOMAIN data : Live(data[i], at) /\ AppliesTo(data[i], s)

Newest200(q) == SubSeq(q, (IF Len(q) > MaxEntries THEN Len(q) - MaxEntries ELSE 0) + 1, Len(q))

EntriesOf(q) == {q[i] : i \in DOMAIN q}

(* The entries of q that are in S, in their order.                          *)
Chosen(q, S) ==
  LET taken[i \in 0..Len(q)] ==
        IF i = 0 THEN <<>>
        ELSE IF q[i] \in S THEN Append(taken[i - 1], q[i]) ELSE taken[i - 1]
  IN  taken[Len(q)]

(* run, set: what still applies is kept, the entry for the same session is  *)
(* replaced, and the oldest goes when there are too many.                   *)
SetSnooze(data, at, ref, span) ==
  LET e == [ref |-> ref, until |-> at + span]
      kept == Chosen(data, {x \in EntriesOf(data) : Live(x, at) /\ x.ref # ref})
  IN  {[data   |-> Newest200(Append(kept, e)),
        record |-> [op |-> "set", entries |-> {e}]]}

(* Mutant: off in a session ends the snoozes of the others.                 *)
EndsAll(e, ref) == TRUE

(* `off` in a session ends what applies there, `off --all` and `off` on the *)
(* command line (ref None) everything.                                      *)
Ends(e, ref) == ref = None \/ AppliesTo(e, ref)

SnoozeOff(data, at, ref) ==
  LET live  == {x \in EntriesOf(data) : Live(x, at)}
      ended == {e \in live : Ends(e, ref)}
  IN  IF ended = {} THEN {}
      ELSE {[data   |-> Chosen(data, live \ ended),
             record |-> [op |-> "off", entries |-> ended]]}

-----------------------------------------------------------------------------
(* Commands that pass the owner check and the parser.  A session grant has  *)
(* the session it names or was sent from; without one it is refused.        *)

SessionGrants == [op : {"grant"}, scope : {"session"}, ref : Sessions,
                  span : Spans \cup {None}]
StandingGrants == [op : {"grant"}, scope : {"persistent"}, ref : {None},
                   span : Spans \cup {None}]
GrantChanges == [op : {"revoke"}, id : Ids]
                \cup [op : {"bind_add", "bind_remove"}, channel : Channels]
SnoozeChanges == [op : {"set"}, ref : Sessions \cup {None}, span : Durations]
                 \cup [op : {"off"}, ref : Sessions \cup {None}]

Commands ==
  {c \in SessionGrants \cup StandingGrants \cup GrantChanges \cup SnoozeChanges :
     c.op \in Verbs}

FileNames == {"grants", "snooze"}
FileOf(cmd) == IF cmd.op \in {"set", "off"} THEN "snooze" ELSE "grants"

(* A missing file reads as empty, one that cannot be read as None.          *)
Empty(f) == IF f = "grants" THEN NoGrants ELSE <<>>
Unreadable == None

(* A file that cannot be read is told from one that can.                    *)
ASSUME FileAssumption == Unreadable \notin GrantFiles

Outcomes(cmd, data, at) ==
  CASE cmd.op = "grant"       -> AddGrant(data, at, cmd.scope, cmd.ref, cmd.span)
    [] cmd.op = "revoke"      -> Revoke(data, at, cmd.id)
    [] cmd.op = "bind_add"    -> BindAdd(data, at, cmd.channel)
    [] cmd.op = "bind_remove" -> BindRemove(data, at, cmd.channel)
    [] cmd.op = "set"         -> SetSnooze(data, at, cmd.ref, cmd.span)
    [] cmd.op = "off"         -> SnoozeOff(data, at, cmd.ref)

=============================================================================
