---------------------------- MODULE PluginPolicy ----------------------------
(***************************************************************************)
(* What the Hermes plugin decides from a scan's answer or failure          *)
(* (integrations/hermes/plugin/decision.py, scan_error_policy.py and the   *)
(* verdict branches of __init__.py, _scan_one).                            *)
(***************************************************************************)
EXTENDS Naturals

CONSTANTS ReviewAt, BlockAt,  \* the risk thresholds of the configuration
          Mode,               \* "enforce" or "observe"
          OnScanError         \* "allow", "review" or "deny"

ASSUME PolicyAssumption ==
  /\ ReviewAt \in Nat /\ BlockAt \in Nat /\ ReviewAt <= BlockAt
  /\ Mode \in {"enforce", "observe"}
  /\ OnScanError \in {"allow", "review", "deny"}

Verdicts == {"allow", "review", "block"}

Rank == [allow |-> 0, review |-> 1, block |-> 2]

Stricter(v, w) == IF Rank[w] > Rank[v] THEN w ELSE v

(* The verdict of a response: the local thresholds, raised to `enforced`.   *)
Decide(risk, enforced) ==
  Stricter(IF risk >= BlockAt THEN "block"
           ELSE IF risk >= ReviewAt THEN "review" ELSE "allow", enforced)

(* A snooze covers a review the plugin's own thresholds ask for, never one  *)
(* the scanner enforces.                                                   *)
SnoozeApplies(enforced) == enforced = "allow"

(* What happens to a scanned call.  A review nobody can answer is a block;  *)
(* a snoozed one is not asked.                                             *)
Directive(verdict, unattended, snoozed) ==
  IF Mode = "observe" \/ verdict = "allow" THEN "run"
  ELSE IF verdict = "block" \/ unattended THEN "block"
  ELSE IF snoozed THEN "run" ELSE "approve"

ScannedDecision ==
  [run |-> "allowed", block |-> "blocked", approve |-> "review_timed_out"]

(* ScanFailureKind; "auth" is an "http" failure with status 401 or 403.     *)
FailureKinds ==
  {"config", "auth", "http", "rate_limited", "timeout", "network", "scan_error"}

IsAuthFailure(kind) == kind \in {"config", "auth"}

(* What happens to a call whose scan failed; an authentication or           *)
(* configuration failure never fails open.                                 *)
ErrorDirective(kind, unattended) ==
  IF Mode = "observe" THEN "run"
  ELSE IF OnScanError = "allow" THEN IF IsAuthFailure(kind) THEN "block" ELSE "run"
  ELSE IF OnScanError = "deny" \/ unattended THEN "block" ELSE "approve"

ErrorDecision ==
  [run |-> "allowed_on_error", block |-> "blocked_on_error",
   approve |-> "blocked_on_error"]

(* The owner's answer to a prompt, as on_post_approval_response writes it.  *)
Choices == {"approve", "deny", "timeout", "other"}

(* Mutant: a prompt that timed out counts as approved.                      *)
FinalUnlessDenied(onError, choice) ==
  IF onError THEN IF choice = "deny" THEN "blocked_on_error" ELSE "allowed_on_error"
  ELSE IF choice = "deny" THEN "denied_by_user" ELSE "approved_by_user"

FinalDecision(onError, choice) ==
  CASE onError -> IF choice = "approve" THEN "allowed_on_error" ELSE "blocked_on_error"
    [] ~onError -> [approve |-> "approved_by_user", deny |-> "denied_by_user",
                    timeout |-> "review_timed_out", other |-> "blocked"][choice]

(* NOT_RUN: "History decisions after which the tool did not run."           *)
NotRun == {"blocked", "denied_by_user", "review_timed_out", "blocked_on_error"}

Decisions == NotRun \cup {"allowed", "allowed_on_error", "approved_by_user"}

=============================================================================
