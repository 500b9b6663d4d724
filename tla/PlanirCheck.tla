----------------------------- MODULE PlanirCheck -----------------------------
(***************************************************************************)
(* The structural checks the scanner makes before it scores a request      *)
(* (sentrook/planir/validate.py, check).  A request that fails one is      *)
(* answered 422 and is never scored.  Size limits are left out: no plugin  *)
(* state depends on them.                                                  *)
(***************************************************************************)
EXTENDS Naturals, Sequences

StepsIncrease(history) ==
  \A i, j \in DOMAIN history : i < j => history[i].step < history[j].step

(* expected_step is max(history.step) + 1, or 1.                           *)
StepFollows(step, history) ==
  step = IF history = <<>> THEN 1 ELSE history[Len(history)].step + 1

CallsDistinct(history) ==
  \A i, j \in DOMAIN history : history[i].call = history[j].call => i = j

PendingIsNew(req) ==
  /\ \A i \in DOMAIN req.history : req.history[i].call # req.pending
  /\ req.pending \notin req.siblings

InputsRefer(inputs, history) ==
  \A it \in inputs : \E i \in DOMAIN history : history[i].call = it.call

InputsOrdered(inputs) ==
  \A a, b \in inputs : a.seq = b.seq => a = b

WellFormed(req) ==
  /\ StepsIncrease(req.history)
  /\ StepFollows(req.step, req.history)
  /\ CallsDistinct(req.history)
  /\ PendingIsNew(req)
  /\ InputsRefer(req.inputs, req.history)
  /\ InputsOrdered(req.inputs)

=============================================================================
