----------------------------- MODULE MCSession -----------------------------
(***************************************************************************)
(* AgentSession on a small world: a document of the owner's, a script of   *)
(* the agent's, a tree and a place in it, two hosts that look alike, an     *)
(* address and a table.                                                    *)
(***************************************************************************)
EXTENDS AgentSession

CONSTANTS doc, script, tree, inside, host, twin, person, table

UnderTree == {<<doc, doc>>, <<script, script>>, <<tree, tree>>, <<inside, inside>>,
              <<inside, tree>>}
PersonsHost == [x \in {person} |-> host]
Twins == {<<twin, host>>}

NothingAsked == [verbatim |-> {}, named |-> {}, selfCopy |-> FALSE, secret |-> FALSE]
NoRoles == [r \in Roles |-> {}]
Plain(kind) ==
  [kind |-> kind, roles |-> NoRoles, reads |-> FALSE, path |-> None, content |-> {},
   cut |-> FALSE, moves |-> {}, destroys |-> {}, drops |-> {}, copy |-> None,
   request |-> NothingAsked, harm |-> 100]

Upload(to) == [Plain("exec") EXCEPT !.roles["source"] = {doc}, !.roles["destination"] = {to},
                                    !.harm = 400]
Look == [Plain("file_read") EXCEPT !.roles["source"] = {doc}, !.reads = TRUE, !.harm = 0]
WriteScript == [Plain("file_write") EXCEPT !.path = script, !.content = {twin, "secret"}, !.cut = TRUE,
                                           !.roles["destination"] = {script}, !.harm = 200]
EditScript == [Plain("file_edit") EXCEPT !.path = script, !.content = {doc},
                                         !.roles["destination"] = {script}, !.harm = 300]
RunScript == [Plain("exec") EXCEPT !.roles["executable"] = {script}]
MoveIn == [Plain("exec") EXCEPT !.moves = {<<doc, inside>>}, !.roles["source"] = {doc},
                                !.roles["destination"] = {inside}]
Destroy == [Plain("exec") EXCEPT !.destroys = {tree}, !.roles["destination"] = {tree},
                                 !.harm = 500]
Mail == [Plain("message_send") EXCEPT !.roles["recipient"] = {person}, !.copy = person,
           !.request = [NothingAsked EXCEPT !.named = {person}, !.selfCopy = TRUE]]
Drop == [Plain("exec") EXCEPT !.drops = {table}, !.roles["source"] = {table}]

UploadTwin == [Upload(twin) EXCEPT !.request.verbatim = {host}]

(* The owner's "copy me" means an address at the host the call names.        *)
Copied == [Mail EXCEPT !.roles["destination"] = {host}, !.request.named = {}]

SessionCalls == {Upload(host), WriteScript, EditScript, Mail}

AnyCall == SessionCalls \cup {UploadTwin, Look, Destroy, RunScript, MoveIn, Drop, Copied}

SessionTexts ==
  {[thing |-> twin, live |-> FALSE, instructs |-> TRUE],
   [thing |-> host, live |-> FALSE, instructs |-> FALSE],
   [thing |-> person, live |-> TRUE, instructs |-> FALSE]}

=============================================================================
