---------------------------- MODULE RateLimiter ----------------------------
(***************************************************************************)
(* MemoryTokenBucketLimiter of the scan service (sentrook/serve/            *)
(* rate_limit.py): what allow() makes of the table of buckets.  Tokens are  *)
(* counted in credits: a request costs Cost of them and Rate come back in a *)
(* tick of the clock, so that the code's fractions are whole numbers.       *)
(***************************************************************************)
EXTENDS Integers, FiniteSets

CONSTANTS Rate, Cost, Burst,  \* the configured rate and burst
          MaxBuckets          \* _MAX_BUCKETS, 10000

ASSUME LimiterAssumption ==
  /\ Rate \in Nat \ {0} /\ Cost \in Nat \ {0} /\ Burst \in Nat \ {0}
  /\ MaxBuckets \in Nat \ {0}

Cap == Burst * Cost

Buckets == [credit : Nat, updated : Nat]

FullBucket(stamp) == [credit |-> Cap, updated |-> stamp]

(* What comes back since the bucket was used last; a stamp from before that *)
(* gives nothing and still sets the time back.                             *)
Elapsed(b, stamp) == IF stamp > b.updated THEN stamp - b.updated ELSE 0

Refilled(b, stamp) ==
  LET credit == b.credit + Elapsed(b, stamp) * Rate
  IN  [credit |-> IF credit > Cap THEN Cap ELSE credit, updated |-> stamp]

(* A table at its limit loses the older half of its buckets to a new one.   *)
Evictions(table) ==
  LET n == Cardinality(DOMAIN table)
  IN  IF n < MaxBuckets THEN {{}}
      ELSE {old \in SUBSET DOMAIN table :
              /\ Cardinality(old) = IF n \div 2 = 0 THEN 1 ELSE n \div 2
              /\ \A k \in old, kept \in DOMAIN table \ old :
                   table[k].updated <= table[kept].updated}

(* The bucket a request finds, refilled, and the table it is put back into. *)
BucketFor(table, key, stamp) ==
  IF key \in DOMAIN table THEN Refilled(table[key], stamp) ELSE FullBucket(stamp)

Evicting(table, key) == IF key \in DOMAIN table THEN {{}} ELSE Evictions(table)

With(table, gone, key, bucket) ==
  [k \in (DOMAIN table \ gone) \cup {key} |-> IF k = key THEN bucket ELSE table[k]]

(* Mutant: what is left of a token is enough.                               *)
AdmitsAny(bucket) == bucket.credit > 0

Admits(bucket) == bucket.credit >= Cost

Spent(bucket) == [bucket EXCEPT !.credit = @ - Cost]

(* The Retry-After of a refusal: whole ticks, rounded up, at least one.     *)
(* Mutant: rounded down.                                                    *)
RetryAfterDown(bucket) ==
  LET wait == (Cost - bucket.credit) \div Rate
  IN  IF wait = 0 THEN 1 ELSE wait

RetryAfter(bucket) ==
  LET wait == (Cost - bucket.credit + Rate - 1) \div Rate
  IN  IF wait = 0 THEN 1 ELSE wait

=============================================================================
