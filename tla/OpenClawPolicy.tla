--------------------------- MODULE OpenClawPolicy ---------------------------
(***************************************************************************)
(* What the OpenClaw plugin makes of a run's context, of a scan's answer    *)
(* and of a scan that failed (integrations/openclaw/plugin: planir.ts,      *)
(* approvalPolicy.ts, decision.ts, scanErrorPolicy.ts and the branches of   *)
(* index.ts, scanOne).  It differs from the Hermes plugin's policy: who is  *)
(* unattended is configured per kind of run, and an unattended review is    *)
(* asked, with a timeout that may allow.                                    *)
(***************************************************************************)
EXTENDS Naturals

CONSTANTS ReviewAt, BlockAt,   \* the risk thresholds of the configuration
          Mode,                \* "enforce" or "observe"
          OnScanError,         \* "allow", "review" or "deny"
          ScheduledIntents,    \* the kinds of run nobody attends
          ScheduledBehavior    \* what an unattended review's timeout does

ASSUME PolicyAssumption ==
  /\ ReviewAt \in Nat /\ BlockAt \in Nat /\ ReviewAt <= BlockAt
  /\ Mode \in {"enforce", "observe"}
  /\ OnScanError \in {"allow", "review", "deny"}
  /\ ScheduledIntents \subseteq {"user", "cron", "subagent", "system"}
  /\ ScheduledBehavior \in {"allow", "deny"}

-----------------------------------------------------------------------------
(* What started a run, as the host labels it: its trigger ("none" while no  *)
(* hook has told), whether a subagent is the source of its input, and       *)
(* whether the message came over OpenClaw's own provider.                   *)
Triggers == {"user", "manual", "cron", "heartbeat", "hook", "none"}
RunContexts == [trigger : Triggers, subagent : BOOLEAN, builtin : BOOLEAN]
NoContext == [trigger |-> "none", subagent |-> FALSE, builtin |-> FALSE]

(* The operator's own chat with the built-in system agent.                  *)
IsSystemAgentTurn(run) == run.trigger = "manual" /\ run.builtin

TriggerKinds ==
  {"message", "scheduled", "heartbeat", "subagent", "system", "unknown"}

TriggerKind(run) ==
  CASE run.subagent -> "subagent"
    [] ~run.subagent /\ (run.trigger = "user" \/ IsSystemAgentTurn(run)) -> "message"
    [] ~run.subagent /\ run.trigger = "cron" -> "scheduled"
    [] ~run.subagent /\ run.trigger = "heartbeat" -> "heartbeat"
    [] ~run.subagent /\ run.trigger = "none" -> "unknown"
    [] OTHER -> "system"

IntentKindOf(kind) ==
  [message |-> "user", subagent |-> "subagent", scheduled |-> "cron",
   heartbeat |-> "cron", system |-> "system", unknown |-> "system"][kind]

(* resolveApprovalTiming.                                                   *)
Unattended(kind) == IntentKindOf(kind) \in ScheduledIntents

TimeoutBehavior(kind) == IF Unattended(kind) THEN ScheduledBehavior ELSE "deny"

-----------------------------------------------------------------------------
Verdicts == {"allow", "review", "block"}

Rank == [allow |-> 0, review |-> 1, block |-> 2]

(* decide: the local lines, raised to the scanner's floor.                  *)
Decide(risk, enforced) ==
  LET local == IF risk >= BlockAt THEN "block"
               ELSE IF risk >= ReviewAt THEN "review" ELSE "allow"
  IN  IF Rank[enforced] > Rank[local] THEN enforced ELSE local

(* Only a human's message is snoozed, and only a review the plugin's own    *)
(* lines ask for.                                                           *)
Snoozable(kind, enforced) ==
  kind = "message" /\ ~Unattended(kind) /\ enforced = "allow"

(* What the host is told of a scanned call.                                 *)
Hook(verdict, snoozed) ==
  IF Mode = "observe" \/ verdict = "allow" THEN "run"
  ELSE IF verdict = "block" THEN "block"
  ELSE IF snoozed THEN "run" ELSE "approve"

ScannedDecision ==
  [run |-> "allowed", block |-> "blocked", approve |-> "review_timed_out"]

(* ScanFailureKind; "auth" is an "http" failure with status 401 or 403.     *)
FailureKinds ==
  {"config", "auth", "http", "rate_limited", "timeout", "network", "scan_error"}

IsAuthFailure(failure) == failure \in {"config", "auth"}

(* scanErrorToHookResult: no failed login or configuration fails open, and  *)
(* nobody is asked about a run nobody attends.                              *)
ErrorHook(failure, kind) ==
  IF Mode = "observe" THEN "run"
  ELSE IF OnScanError = "allow" THEN IF IsAuthFailure(failure) THEN "block" ELSE "run"
  ELSE IF OnScanError = "deny" \/ Unattended(kind) THEN "block" ELSE "approve"

ErrorDecision ==
  [run |-> "allowed_on_error", block |-> "blocked_on_error",
   approve |-> "blocked_on_error"]

-----------------------------------------------------------------------------
(* How the host's prompt ends.                                              *)
Resolutions == {"allow-once", "allow-always", "deny", "timeout", "cancelled"}

Approved(resolution) == resolution \in {"allow-once", "allow-always"}

(* Mutant: a prompt that was cancelled counts as allowed on an error.       *)
FinalUnlessDenied(onError, resolution) ==
  CASE onError -> IF resolution = "deny" THEN "blocked_on_error" ELSE "allowed_on_error"
    [] ~onError /\ Approved(resolution) -> "approved_by_user"
    [] ~onError /\ resolution = "deny" -> "denied_by_user"
    [] ~onError /\ resolution = "timeout" -> "review_timed_out"
    [] OTHER -> "blocked"

(* The decision onResolution writes.                                        *)
Final(onError, resolution) ==
  CASE onError -> IF Approved(resolution) THEN "allowed_on_error" ELSE "blocked_on_error"
    [] ~onError /\ Approved(resolution) -> "approved_by_user"
    [] ~onError /\ resolution = "deny" -> "denied_by_user"
    [] ~onError /\ resolution = "timeout" -> "review_timed_out"
    [] OTHER -> "blocked"

(* NOT_RUN: "History decisions after which the tool did not run."           *)
NotRun == {"blocked", "denied_by_user", "review_timed_out", "blocked_on_error"}

Decisions == NotRun \cup {"allowed", "allowed_on_error", "approved_by_user"}

=============================================================================
