---------------------------- MODULE Convergence -----------------------------
(***************************************************************************)
(* Convergence (sentrook/converge): what the probes say about a call       *)
(* becomes a risk, a minimum outcome and a status.  Pure operators.        *)
(*                                                                         *)
(* An envelope is what a probe returns: a status, claims about signals,    *)
(* floors, session flags, and its evidence.  Numbers are thousandths; a    *)
(* product is rounded down to one.  The parameters are those of conv-v3,   *)
(* which the service loads unless it is told otherwise.                    *)
(***************************************************************************)
EXTENDS Naturals, FiniteSetsExt, Functions

Probes == {"jev_exposure", "jev_call", "aira", "entity_oracle", "context"}
Statuses == {"ok", "timeout", "error", "skipped"}
Flags == {"tainted", "holds_sensitive"}

Scale == 1000
Times(a, b) == (a * b) \div Scale

U == 500
TaintFloor == 300
AgreementHigh == 600
AgreementLow == 300
StatusPenalty ==
  [error |-> 500, timeout |-> 600, skipped |-> Scale, ok |-> Scale]

(* The leaves a suspicion is made of, with taint_link for the two signals   *)
(* that only count together.                                               *)
SuspicionLeaves == {"misalignment", "concealment", "overreach", "distrust",
                    "request_origin", "retry_after_denial"}
ConfidenceSignals == {"coverage", "model_certainty"}

AnySubject == "*"
Claim(probe, signal, value, subject) ==
  [probe |-> probe, signal |-> signal, value |-> value, subject |-> subject]

NoEvidence == [entities |-> {}, inputs |-> {}, fallback |-> FALSE]

Failed(status) ==
  [status |-> status, claims |-> {}, floors |-> {}, flags |-> {},
   evidence |-> NoEvidence]

Skipped == Failed("skipped")

Answered(claims, floors, flags, evidence) ==
  [status |-> "ok", claims |-> claims, floors |-> floors, flags |-> flags,
   evidence |-> evidence]

-----------------------------------------------------------------------------
(* Merge.                                                                  *)

Answering(env) == {p \in DOMAIN env : env[p].status = "ok"}

CollectClaims(env) == UNION {env[p].claims : p \in Answering(env)}

Kept(claims, excluded) ==
  {c \in claims : /\ <<c.signal, c.subject>> \notin excluded
                  /\ <<c.signal, AnySubject>> \notin excluded}

ValuesOf(claims, signal) == {c.value : c \in {d \in claims : d.signal = signal}}

(* A confidence signal is worth its lowest claim, any other its highest.    *)
ValueOr(claims, signal, default) ==
  LET values == ValuesOf(claims, signal)
  IN  IF values = {} THEN default
      ELSE IF signal \in ConfidenceSignals THEN Min(values) ELSE Max(values)

-----------------------------------------------------------------------------
(* Tier scores and risk.                                                   *)

Claimants(claims, signal) ==
  {c.probe : c \in {d \in claims : d.signal = signal}}

ProbeValue(claims, signal, probe) ==
  Max({c.value : c \in {d \in claims : d.signal = signal /\ d.probe = probe}})

Shared(claims) ==
  {s \in {c.signal : c \in claims} \ ConfidenceSignals :
     Cardinality(Claimants(claims, s)) > 1}

Disagreeing(claims) ==
  {s \in Shared(claims) :
     \E p, q \in Claimants(claims, s) :
       ProbeValue(claims, s, p) > AgreementHigh
         /\ ProbeValue(claims, s, q) < AgreementLow}

Agreement(claims) ==
  IF Shared(claims) = {} THEN Scale
  ELSE Scale - (Scale * Cardinality(Disagreeing(claims)))
                 \div Cardinality(Shared(claims))

NoisyOr(values) ==
  Scale - FoldFunction(LAMBDA v, acc : Times(acc, Scale - v), Scale, values)

TaintLink(claims) ==
  Times(ValueOr(claims, "untrusted_origin", 0),
        Max({ValueOr(claims, "exposure", 0), TaintFloor}))

Suspicion(claims) ==
  NoisyOr([s \in SuspicionLeaves \cup {"taint_link"} |->
             IF s = "taint_link" THEN TaintLink(claims)
                                 ELSE ValueOr(claims, s, 0)])

Consequence(claims) ==
  LET v(s) == ValueOr(claims, s, 0)
  IN  Max({(v("sensitivity") + v("reach") + v("irreversibility")) \div 3,
           v("self_modification")})

Confidence(claims, env) ==
  Min({Agreement(claims), ValueOr(claims, "coverage", Scale),
       ValueOr(claims, "model_certainty", Scale)}
      \cup {StatusPenalty[env[p].status] : p \in DOMAIN env})

Risk(claims, env) ==
  Times(Consequence(claims),
        Max({Suspicion(claims), Times(U, Scale - Confidence(claims, env))}))

-----------------------------------------------------------------------------
(* Relief, floors and status.  `ent` is the call's key entity as the table  *)
(* of prepare has it (Scanner, Entity).                                    *)

KnownGood(env) ==
  {x[1] : x \in {y \in env["entity_oracle"].evidence.entities :
                   env["entity_oracle"].status = "ok" /\ y[2] = "known_good"}}

(* Mutant: a good reputation relieves a send to what was read, too.         *)
RelievedByName(ent, env) ==
  \/ ent.grant
  \/ ent.sink /\ ent.request /\ ent.owner
  \/ ent.sink /\ ent.id \in KnownGood(env)

(* A destination grant; the owner's request naming where a send goes; a     *)
(* reputation, for a send to what nothing read so far has named.            *)
Relieved(ent, env) ==
  \/ ent.grant
  \/ ent.sink /\ ent.request /\ ent.owner
  \/ ent.sink /\ ent.id \in KnownGood(env) /\ ~ent.remembered /\ ~ent.read

Excluded(ent, env) ==
  IF Relieved(ent, env)
  THEN {<<"distrust", ent.id>>, <<"untrusted_origin", ent.id>>} ELSE {}

EnforceRank == [none |-> 0, review |-> 1, block |-> 2]

(* Mutant: what is relieved is relieved of its floors too.                  *)
FloorsNotRelieved(ent, env) ==
  {f \in UNION {env[p].floors : p \in Answering(env)} :
     f.subject = ent.id => ~Relieved(ent, env)}

Floors(ent, env) == UNION {env[p].floors : p \in Answering(env)}

Enforced(floors) ==
  CHOOSE e \in DOMAIN EnforceRank :
    EnforceRank[e] = Max({0} \cup {EnforceRank[f.enforce] : f \in floors})

(* Mutant: a probe that timed out is taken for one that had nothing to say. *)
DegradedOnError(env, blind) ==
  \/ \E p \in DOMAIN env : env[p].status = "error" \/ env[p].evidence.fallback
  \/ blind

(* `blind`: a fresh session, or content the request came without.           *)
Degraded(env, blind) ==
  \/ \E p \in DOMAIN env :
       env[p].status \in {"error", "timeout"} \/ env[p].evidence.fallback
  \/ blind

Converged(ent, env, blind) ==
  LET kept == Kept(CollectClaims(env), Excluded(ent, env))
      floors == Floors(ent, env)
  IN  [status |-> IF Degraded(env, blind) THEN "degraded" ELSE "ok",
       claims |-> kept,
       risk |-> Max({Risk(kept, env)} \cup {f.min : f \in floors}),
       enforced |-> Enforced(floors),
       flags |-> UNION {env[p].flags : p \in Answering(env)}]

=============================================================================
