----------------------------- MODULE MCOpenClaw -----------------------------
(***************************************************************************)
(* OpenClawPlugin on small instances: what a run can be started by.        *)
(***************************************************************************)
EXTENDS OpenClawPlugin, TLC

Message == [trigger |-> "user", subagent |-> FALSE, builtin |-> FALSE]
Cron == [trigger |-> "cron", subagent |-> FALSE, builtin |-> FALSE]

MessageRuns == {Message}
=============================================================================
