\* A Hermes thread and an OpenClaw call with the same and other credentials,
\* a bucket of one request and a table of one bucket.
CONSTANTS
  None = None
  Hermes = {h1}
  OpenClaw = {o1}
  Keys = {k1, k2}
  Rate = 2
  Cost = 3
  Burst = 1
  MaxBuckets = 1
  Lifetimes = {1, 2}
  TokenKinds = {"jwt", "opaque"}
  Skew = 1
  Timeout = 2
  MaxPosts = 2
  MaxTime = 1
SPECIFICATION FairSpec
INVARIANTS
  LimitKept
  ScannedOnce
PROPERTIES
  RetryAfterSuffices
  PostEnds
CHECK_DEADLOCK FALSE
