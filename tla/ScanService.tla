---------------------------- MODULE ScanService ----------------------------
(***************************************************************************)
(* How a plugin gets its scan: the access token and its cache (auth.py,     *)
(* auth.ts), the POST with its deadline and its one retry (scan_client.py,  *)
(* scanClient.ts), and the service's handlers with their authentication and *)
(* rate limit (sentrook/serve: server.py, auth.py, oidc.py, rate_limit.py). *)
(*                                                                         *)
(* Callers of a Hermes process are threads that share a cache under a lock; *)
(* callers of an OpenClaw gateway are async calls of one thread that share  *)
(* a cache of one entry.  The service has a thread for every request.       *)
(***************************************************************************)
EXTENDS RateLimiter, Functions

CONSTANTS None,
          Hermes, OpenClaw,  \* callers: scans of a Hermes and of an OpenClaw
          Keys,              \* credentials, each an OIDC client of its own
          Lifetimes,         \* how long a token can live
          TokenKinds,        \* "jwt", and "opaque": one without a readable exp
          Skew,              \* TOKEN_EXPIRY_SKEW_S
          Timeout,           \* timeout_ms of a scan
          MaxPosts, MaxTime  \* bounds of a run

Callers == Hermes \cup OpenClaw

ASSUME ServiceAssumption ==
  /\ None \notin Keys /\ Hermes \cap OpenClaw = {}
  /\ Lifetimes \subseteq Nat \ {0} /\ TokenKinds \subseteq {"jwt", "opaque"}
  /\ Skew \in Nat /\ Timeout \in Nat \ {0} /\ MaxPosts \in Nat /\ MaxTime \in Nat

VARIABLES
  now,       \* the clock, of both sides
  cache,     \* the cached token of each process and credential, or None
  post,      \* the post_scan of each caller
  handlers,  \* the service's threads, one for each request it has
  buckets,   \* the limiter's table
  scanned,   \* how often the body of each post was scanned
  account    \* what the limiter gave each caller id since the service started

clientVars == <<cache, post>>
serviceVars == <<handlers, buckets, scanned, account>>
vars == <<now, clientVars, serviceVars>>

-----------------------------------------------------------------------------
Processes == {"hermes", "openclaw"}
Process(c) == IF c \in Hermes THEN "hermes" ELSE "openclaw"

Tokens == [key : Keys, exp : Nat, kind : {"jwt", "opaque"}]
Cached == [token : Tokens, exp : Nat]

(* Where a post_scan is, and how the last one ended: with a usable answer   *)
(* or with a ScanFailure, whose kinds the plugin's policy tells apart and   *)
(* nothing here.  `read` is the time the token lookup went by,      *)
(* `minted` whether the post got its token itself.                         *)
Places == {"idle", "looking", "minting", "issued", "ready", "sent", "sleeping"}
Outcomes == {"none", "ok", "failed"}
Posts == [n : Nat, at : Places, key : Keys \cup {None}, read : Nat, minted : BOOLEAN,
          token : Tokens \cup {None}, life : Nat, deadline : Nat, retried : BOOLEAN,
          wake : Nat, outcome : Outcomes]

NoPost(n, outcome) ==
  [n |-> n, at |-> "idle", key |-> None, read |-> 0, minted |-> FALSE, token |-> None,
   life |-> 0, deadline |-> 0, retried |-> FALSE, wake |-> 0, outcome |-> outcome]

(* A request at the service: its place, the time the limiter goes by, and   *)
(* its answer.                                                             *)
Answers == {"none", "ok", "failed", "rate_limited"}
Handlers == [caller : Callers, n : Nat, try : {1, 2}, token : Tokens,
             at : {"arrived", "stamped", "admitted", "answered"}, stamp : Nat,
             answer : Answers, retry : Nat]

(* The books the properties go by: requests admitted, buckets filled, the   *)
(* stamp of the last request, time that was counted twice, and the time at  *)
(* which a refused caller was told to come again.                          *)
Accounts == [admitted : Nat, fills : Nat, last : Nat, twice : Nat, due : Nat \cup {None}]

Init ==
  /\ now = 0
  /\ cache = [p \in Processes |-> [k \in Keys |-> None]]
  /\ post = [c \in Callers |-> NoPost(0, "none")]
  /\ handlers = {}
  /\ buckets = [k \in {} |-> [credit |-> 0, updated |-> 0]]
  /\ scanned = [c \in Callers |-> [n \in 1..MaxPosts |-> 0]]
  /\ account = [k \in Keys |->
       [admitted |-> 0, fills |-> 0, last |-> 0, twice |-> 0, due |-> None]]

Becomes(c, p) == post' = [post EXCEPT ![c] = p]

Ends(c, outcome) == Becomes(c, NoPost(post[c].n, outcome))

-----------------------------------------------------------------------------
(* The access token.                                                       *)

(* The token in hand, the scan's deadline starts.                           *)
Ready(p, token, minted) ==
  [p EXCEPT !.at = "ready", !.token = token, !.minted = minted, !.life = 0,
            !.deadline = now + Timeout]

LookedUp(c, p) ==
  LET hit == cache[Process(c)][p.key]
  IN  IF hit # None /\ hit.exp > p.read + Skew THEN Ready(p, hit.token, FALSE)
      ELSE [p EXCEPT !.at = "minting"]

Begun(c, key) ==
  [NoPost(post[c].n + 1, "none") EXCEPT !.at = "looking", !.key = key, !.read = now]

(* The bound on posts: of all callers together, so of each.                 *)
MorePosts(c) ==
  /\ post[c].n < MaxPosts
  /\ FoldFunction(LAMBDA p, n : p.n + n, 0, post) < MaxPosts

Start(c) ==
  /\ post[c].at = "idle" /\ now < MaxTime /\ MorePosts(c)
  /\ \/ Becomes(c, NoPost(post[c].n + 1, "failed"))
     \/ \E key \in Keys :
          Becomes(c, IF c \in Hermes THEN Begun(c, key) ELSE LookedUp(c, Begun(c, key)))
  /\ UNCHANGED <<now, cache, serviceVars>>

(* Hermes takes the lock after it has read the clock.                       *)
LookUp(c) ==
  /\ post[c].at = "looking"
  /\ Becomes(c, LookedUp(c, post[c]))
  /\ UNCHANGED <<now, cache, serviceVars>>

(* Discovery and the mint itself, each with a timeout, outside the lock.    *)
Issued(c) ==
  /\ post[c].at = "minting"
  /\ \E life \in Lifetimes, kind \in TokenKinds :
       Becomes(c, [post[c] EXCEPT !.at = "issued", !.life = life,
                     !.token = [key |-> post[c].key, exp |-> now + life, kind |-> kind]])
  /\ UNCHANGED <<now, cache, serviceVars>>

MintFailed(c) ==
  /\ post[c].at = "minting"
  /\ Ends(c, "failed")
  /\ UNCHANGED <<now, cache, serviceVars>>

(* The exp of a JWT, else expires_in from the time the lookup went by.      *)
CachedExpiry(p) == IF p.token.kind = "jwt" THEN p.token.exp ELSE p.read + p.life

StoredHermes(key, entry) == [cache EXCEPT !["hermes"][key] = entry]

(* OpenClaw has one entry, with the credentials it is for.                  *)
StoredOpenClaw(key, entry) ==
  [cache EXCEPT !["openclaw"] = [k \in Keys |-> IF k = key THEN entry ELSE None]]

Store(c) ==
  LET p == post[c]
      entry == [token |-> p.token, exp |-> CachedExpiry(p)]
  IN  /\ p.at = "issued"
      /\ cache' = IF c \in Hermes THEN StoredHermes(p.key, entry) ELSE StoredOpenClaw(p.key, entry)
      /\ Becomes(c, Ready(p, p.token, TRUE))
      /\ UNCHANGED <<now, serviceVars>>

-----------------------------------------------------------------------------
(* The POST and its retry.                                                 *)

Tries(p) == IF p.retried THEN 2 ELSE 1

Arrival(c) ==
  [caller |-> c, n |-> post[c].n, try |-> Tries(post[c]), token |-> post[c].token,
   at |-> "arrived", stamp |-> 0, answer |-> "none", retry |-> 0]

Send(c) ==
  /\ post[c].at = "ready" /\ now < post[c].deadline
  /\ Becomes(c, [post[c] EXCEPT !.at = "sent"])
  /\ handlers' = handlers \cup {Arrival(c)}
  /\ UNCHANGED <<now, cache, buckets, scanned, account>>

(* Mutant: the request itself has no timeout.                               *)
TimesOutBefore(c) ==
  /\ \/ post[c].at = "ready"
     \/ post[c].at = "sleeping" /\ c \in OpenClaw
  /\ now >= post[c].deadline
  /\ Ends(c, "failed")
  /\ UNCHANGED <<now, cache, serviceVars>>

(* The deadline passes before a request, while its answer is out, and (in   *)
(* OpenClaw, whose signal ends the sleep) before a retry.                   *)
TimesOut(c) ==
  /\ \/ post[c].at \in {"ready", "sent"}
     \/ post[c].at = "sleeping" /\ c \in OpenClaw
  /\ now >= post[c].deadline
  /\ Ends(c, "failed")
  /\ UNCHANGED <<now, cache, serviceVars>>

(* Mutant: a request whose connection broke is sent again.                  *)
BrokenRetried(c) ==
  /\ post[c].at = "sent"
  /\ IF post[c].retried THEN Ends(c, "failed")
     ELSE Becomes(c, [post[c] EXCEPT !.at = "ready", !.retried = TRUE])
  /\ UNCHANGED <<now, cache, serviceVars>>

Broken(c) ==
  /\ post[c].at = "sent"
  /\ Ends(c, "failed")
  /\ UNCHANGED <<now, cache, serviceVars>>

(* What the client makes of an answer.  A 429 is retried once, if its       *)
(* Retry-After ends within the deadline.                                   *)
RetryFits(p, retry) == ~p.retried /\ p.deadline - now > retry

Taken(p, h) ==
  IF h.answer = "rate_limited" /\ RetryFits(p, h.retry)
  THEN [p EXCEPT !.at = "sleeping", !.retried = TRUE, !.wake = now + h.retry]
  ELSE NoPost(p.n, IF h.answer = "ok" THEN "ok" ELSE "failed")

Waiting(h) ==
  LET p == post[h.caller] IN p.at = "sent" /\ p.n = h.n /\ Tries(p) = h.try

Answered(h) ==
  /\ h.at = "answered"
  /\ IF Waiting(h) THEN Becomes(h.caller, Taken(post[h.caller], h)) ELSE UNCHANGED post
  /\ handlers' = handlers \ {h}
  /\ UNCHANGED <<now, cache, buckets, scanned, account>>

Wake(c) ==
  /\ post[c].at = "sleeping" /\ now >= post[c].wake
  /\ Becomes(c, [post[c] EXCEPT !.at = "ready"])
  /\ UNCHANGED <<now, cache, serviceVars>>

-----------------------------------------------------------------------------
(* The service.  A request or an answer that is lost, or whose thread dies, *)
(* is one that goes no further.                                            *)

(* An answer that nobody waits for is gone.                                 *)
Moves(h, g) ==
  handlers' = (handlers \ {h}) \cup (IF g.at = "answered" /\ ~Waiting(h) THEN {} ELSE {g})

Answer(h, answer, retry) ==
  [h EXCEPT !.at = "answered", !.stamp = 0, !.answer = answer, !.retry = retry]

(* verify_scan_auth, and the clock that allow() reads before its lock.      *)
Accepted(token) == token.kind = "jwt" /\ token.exp > now

Authorise(h) ==
  /\ h.at = "arrived"
  /\ Moves(h, IF Accepted(h.token) THEN [h EXCEPT !.at = "stamped", !.stamp = now]
              ELSE Answer(h, "failed", 0))
  /\ UNCHANGED <<now, clientVars, buckets, scanned, account>>

(* The books: a stamp behind the last one counts that time again.           *)
Booked(key, stamp, admits, wait) ==
  LET a == account[key]
  IN  [account EXCEPT ![key] =
         [admitted |-> IF admits THEN a.admitted + 1 ELSE a.admitted,
          fills |-> IF key \in DOMAIN buckets THEN a.fills ELSE a.fills + 1,
          last |-> stamp,
          twice |-> IF stamp < a.last THEN a.twice + a.last - stamp ELSE a.twice,
          due |-> IF admits THEN None ELSE now + wait]]

(* allow() under its lock.                                                  *)
Allow(h) ==
  LET key == h.token.key
      b   == BucketFor(buckets, key, h.stamp)
  IN  /\ h.at = "stamped"
      /\ \E gone \in Evicting(buckets, key) :
           buckets' = With(buckets, gone, key, IF Admits(b) THEN Spent(b) ELSE b)
      /\ account' = Booked(key, h.stamp, Admits(b), RetryAfter(b))
      /\ Moves(h, IF Admits(b) THEN [h EXCEPT !.at = "admitted", !.stamp = 0]
                  ELSE Answer(h, "rate_limited", RetryAfter(b)))
      /\ UNCHANGED <<now, clientVars, scanned>>

(* _scan: the status of the response decides between 200 and 422.           *)
Scan(h) ==
  /\ h.at = "admitted"
  /\ scanned' = [scanned EXCEPT ![h.caller][h.n] = @ + 1]
  /\ \E answer \in {"ok", "failed"} : Moves(h, Answer(h, answer, 0))
  /\ UNCHANGED <<now, clientVars, buckets, account>>

(* Time goes on while a scan is begun or a deadline is ahead.               *)
Tick ==
  /\ \/ now < MaxTime
     \/ \E c \in Callers : post[c].at \in {"sent", "ready", "sleeping"} /\ now < post[c].deadline
  /\ now' = now + 1
  /\ UNCHANGED <<clientVars, serviceVars>>

(* What a caller does on its own, and what its timeouts make it do.         *)
GoesOn(c) ==
  LookUp(c) \/ Issued(c) \/ MintFailed(c) \/ Store(c) \/ Send(c) \/ TimesOut(c) \/ Wake(c)

Handle(h) == Authorise(h) \/ Allow(h) \/ Scan(h) \/ Answered(h)

Next ==
  \/ \E c \in Callers : Start(c) \/ GoesOn(c) \/ Broken(c)
  \/ \E h \in handlers : Handle(h)
  \/ Tick

Spec == Init /\ [][Next]_vars

(* Threads and the event loop go on, and so does the clock; the service and *)
(* the identity service owe nothing.                                        *)
FairSpec == Spec /\ WF_vars(Tick) /\ \A c \in Callers : WF_vars(GoesOn(c))

-----------------------------------------------------------------------------
TypeOK ==
  /\ now \in Nat
  /\ cache \in [Processes -> [Keys -> Cached \cup {None}]]
  /\ post \in [Callers -> Posts]
  /\ handlers \subseteq Handlers
  /\ DOMAIN buckets \subseteq Keys /\ buckets \in [DOMAIN buckets -> Buckets]
  /\ scanned \in [Callers -> [1..MaxPosts -> Nat]]
  /\ account \in [Keys -> Accounts]

(* The rate limit: what a caller id was admitted is no more than a full     *)
(* bucket for each time one was made for it (a bucket can be evicted) and   *)
(* what came back since the start; time counts twice only where two threads *)
(* took the lock in another order than they read the clock.                *)
LimitKept ==
  \A k \in Keys :
    Cost * account[k].admitted <=
      Cap * account[k].fills + Rate * (now + account[k].twice)

(* A refused caller that comes again when Retry-After told it to is         *)
(* admitted, unless a request of the same caller id was admitted meanwhile. *)
RetryAfterSuffices ==
  [][\A h \in handlers :
       LET a == account[h.token.key]
       IN  Allow(h) /\ a.due # None /\ h.stamp >= a.due
           => account'[h.token.key].admitted = a.admitted + 1]_vars

(* "One 429 is retried": whatever is lost, late or retried, the body of a   *)
(* post is scanned at most once, and was scanned if the post succeeded.     *)
ScannedOnce ==
  \A c \in Callers :
    /\ \A n \in 1..MaxPosts : scanned[c][n] <= 1
    /\ post[c].outcome = "ok" => scanned[c][post[c].n] = 1

(* A post ends: by its answer, or by its deadline.                          *)
PostEnds == \A c \in Callers : post[c].at # "idle" ~> post[c].at = "idle"

=============================================================================
