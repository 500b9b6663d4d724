------------------------- MODULE ScanServiceProofs -------------------------
(***************************************************************************)
(* Theorems about ScanService, for any callers, credentials, rates, bursts, *)
(* table sizes and bounds: the rate limit holds, Retry-After suffices, and  *)
(* the body of a post is scanned at most once.                             *)
(***************************************************************************)
EXTENDS ScanService, TLAPS

(* What a place of post_scan has in hand.                                   *)
Placed(p) ==
  /\ p.at \in {"looking", "minting", "issued"} => p.key \in Keys
  /\ p.at \in {"issued", "ready", "sent", "sleeping"} => p.token \in Tokens

PlaceInv == \A c \in Callers : Placed(post[c])

StampInv == \A h \in handlers : h.stamp <= now

TypeInv == TypeOK /\ PlaceInv /\ StampInv

-----------------------------------------------------------------------------
(* What a refused caller waits is a number, and enough.                     *)
LEMMA WaitSuffices ==
  ASSUME NEW b \in Buckets, ~Admits(b)
  PROVE  RetryAfter(b) \in Nat /\ b.credit + Rate * RetryAfter(b) >= Cost
<1> USE LimiterAssumption
<1> DEFINE n == Cost - b.credit + Rate - 1
<1>1. b.credit \in Nat /\ b.credit < Cost
  BY DEF Buckets, Admits
<1>2. n \in Nat
  BY <1>1
<1>3. n \div Rate \in Nat /\ Rate * (n \div Rate) + Rate > n
  <2> HIDE DEF n
  <2> QED BY <1>2
<1>4. RetryAfter(b) = IF n \div Rate = 0 THEN 1 ELSE n \div Rate
  BY DEF RetryAfter
<1> DEFINE w == n \div Rate
<1>5. w \in Nat /\ Rate * w + Rate > Cost - b.credit + Rate - 1
  BY <1>3
<1>6. RetryAfter(b) = IF w = 0 THEN 1 ELSE w
  BY <1>4
<1> HIDE DEF w, n
<1>7. CASE w = 0
  <2>1. Rate * 0 = 0 /\ Rate * 1 = Rate
    OBVIOUS
  <2> QED BY <1>1, <1>5, <1>6, <1>7, <2>1
<1>8. CASE w # 0
  <2> DEFINE x == Rate * w
  <2>1. x \in Nat /\ x + Rate > Cost - b.credit + Rate - 1
    BY <1>5
  <2>2. RetryAfter(b) = w /\ Rate * RetryAfter(b) = x
    BY <1>6, <1>8
  <2> HIDE DEF x
  <2> QED BY <1>1, <1>5, <2>1, <2>2
<1> QED BY <1>7, <1>8

(* The bucket of a request holds no more than its cap, and its time.        *)
LEMMA BucketShape ==
  ASSUME DOMAIN buckets \subseteq Keys, buckets \in [DOMAIN buckets -> Buckets],
         NEW k, NEW stamp \in Nat
  PROVE  LET b == BucketFor(buckets, k, stamp)
         IN  b \in Buckets /\ b.credit <= Cap /\ b.updated = stamp
<1> USE LimiterAssumption
<1> Cap \in Nat
  BY DEF Cap
<1>1. CASE k \in DOMAIN buckets
  <2> DEFINE e == Elapsed(buckets[k], stamp)
             credit == buckets[k].credit + e * Rate
  <2>1. buckets[k] \in Buckets
    BY <1>1
  <2>2. e \in Nat
    BY <2>1 DEF Elapsed, Buckets
  <2>3. credit \in Nat
    BY <2>1, <2>2 DEF Buckets
  <2>4. BucketFor(buckets, k, stamp)
          = [credit |-> IF credit > Cap THEN Cap ELSE credit, updated |-> stamp]
    BY <1>1 DEF BucketFor, Refilled
  <2> HIDE DEF credit
  <2> QED BY <2>3, <2>4 DEF Buckets
<1>2. CASE k \notin DOMAIN buckets
  BY <1>2 DEF BucketFor, FullBucket, Buckets
<1> QED BY <1>1, <1>2

LEMMA SpentShape ==
  ASSUME NEW b \in Buckets, Admits(b)
  PROVE  Spent(b) \in Buckets /\ Spent(b).credit = b.credit - Cost
                              /\ Spent(b).updated = b.updated
BY LimiterAssumption DEF Spent, Admits, Buckets

-----------------------------------------------------------------------------
(* Types.                                                                  *)

LEMMA PostSet ==
  ASSUME TypeOK, PlaceInv, NEW c \in Callers, NEW p \in Posts, Placed(p), Becomes(c, p)
  PROVE  post' \in [Callers -> Posts] /\ PlaceInv'
BY DEF TypeOK, PlaceInv, Becomes

LEMMA PostEnded ==
  ASSUME TypeOK, PlaceInv, NEW c \in Callers, NEW outcome \in Outcomes, Ends(c, outcome)
  PROVE  post' \in [Callers -> Posts] /\ PlaceInv'
<1> DEFINE p == NoPost(post[c].n, outcome)
<1>1. p \in Posts /\ Placed(p)
  BY DEF TypeOK, Posts, NoPost, Outcomes, Places, Placed
<1>2. Becomes(c, p)
  BY DEF Ends
<1> HIDE DEF p
<1> QED BY <1>1, <1>2, PostSet

LEMMA InHand ==
  ASSUME TypeOK, NEW p \in Posts, NEW t \in Tokens, NEW minted \in BOOLEAN
  PROVE  Ready(p, t, minted) \in Posts /\ Placed(Ready(p, t, minted))
<1>1. now + Timeout \in Nat
  BY ServiceAssumption DEF TypeOK
<1>2. Ready(p, t, minted) \in Posts
  BY <1>1 DEF Ready, Posts, Places
<1>3. Ready(p, t, minted).at = "ready" /\ Ready(p, t, minted).token = t
  BY DEF Ready, Posts
<1> QED BY <1>2, <1>3 DEF Placed

LEMMA TokenFound ==
  ASSUME TypeOK, NEW c \in Callers, NEW p \in Posts, p.key \in Keys
  PROVE  LookedUp(c, p) \in Posts /\ Placed(LookedUp(c, p))
<1> DEFINE hit == cache[Process(c)][p.key]
<1>1. hit \in Cached \cup {None}
  BY DEF TypeOK, Process, Processes
<1>2. CASE hit # None /\ hit.exp > p.read + Skew
  <2>1. hit.token \in Tokens
    BY <1>1, <1>2 DEF Cached
  <2>2. LookedUp(c, p) = Ready(p, hit.token, FALSE)
    BY <1>2 DEF LookedUp
  <2> QED BY <2>1, <2>2, InHand
<1>3. CASE ~(hit # None /\ hit.exp > p.read + Skew)
  <2>1. LookedUp(c, p) = [p EXCEPT !.at = "minting"]
    BY <1>3 DEF LookedUp
  <2> QED BY <2>1 DEF Posts, Places, Placed
<1> QED BY <1>2, <1>3

LEMMA StartTyped ==
  ASSUME TypeInv, NEW c \in Callers, Start(c)
  PROVE  post' \in [Callers -> Posts] /\ PlaceInv'
<1> USE DEF TypeInv
<1>1. ASSUME Becomes(c, NoPost(post[c].n + 1, "failed"))
      PROVE  post' \in [Callers -> Posts] /\ PlaceInv'
  <2> DEFINE p == NoPost(post[c].n + 1, "failed")
  <2>1. p \in Posts /\ Placed(p)
    BY DEF TypeOK, Posts, NoPost, Outcomes, Places, Placed
  <2> HIDE DEF p
  <2> QED BY <1>1, <2>1, PostSet DEF p
<1>2. ASSUME NEW key \in Keys,
             Becomes(c, IF c \in Hermes THEN Begun(c, key) ELSE LookedUp(c, Begun(c, key)))
      PROVE  post' \in [Callers -> Posts] /\ PlaceInv'
  <2> DEFINE q == NoPost(post[c].n + 1, "none")
  <2>a. q \in Posts /\ now \in Nat
    BY DEF TypeOK, Posts, NoPost, Outcomes, Places
  <2>b. Begun(c, key) = [q EXCEPT !.at = "looking", !.key = key, !.read = now]
    BY DEF Begun
  <2> HIDE DEF q
  <2>1. /\ Begun(c, key) \in Posts /\ Placed(Begun(c, key))
        /\ Begun(c, key).key = key
    BY <2>a, <2>b DEF Posts, Places, Placed
  <2>2. LookedUp(c, Begun(c, key)) \in Posts /\ Placed(LookedUp(c, Begun(c, key)))
    BY <2>1, TokenFound
  <2> QED BY <1>2, <2>1, <2>2, PostSet
<1> QED BY <1>1, <1>2 DEF Start

LEMMA GoesOnTyped ==
  ASSUME TypeInv, NEW c \in Callers, GoesOn(c)
  PROVE  post' \in [Callers -> Posts] /\ PlaceInv'
<1> USE DEF TypeInv
<1> post[c] \in Posts /\ Placed(post[c])
  BY DEF TypeOK, PlaceInv
<1>1. CASE LookUp(c)
  <2>1. post[c].key \in Keys
    BY <1>1 DEF LookUp, Placed
  <2> QED BY <1>1, <2>1, TokenFound, PostSet DEF LookUp
<1>2. CASE Issued(c)
  <2> PICK life \in Lifetimes, kind \in TokenKinds :
        Becomes(c, [post[c] EXCEPT !.at = "issued", !.life = life,
                      !.token = [key |-> post[c].key, exp |-> now + life, kind |-> kind]])
    BY <1>2 DEF Issued
  <2> DEFINE t == [key |-> post[c].key, exp |-> now + life, kind |-> kind]
             p == [post[c] EXCEPT !.at = "issued", !.life = life, !.token = t]
  <2>1. post[c].key \in Keys
    BY <1>2 DEF Issued, Placed
  <2>2. now + life \in Nat /\ life \in Nat /\ kind \in {"jwt", "opaque"}
    BY ServiceAssumption DEF TypeOK
  <2>3. t \in Tokens
    BY <2>1, <2>2 DEF Tokens
  <2> HIDE DEF t
  <2>4. p \in Posts /\ p.at = "issued" /\ p.key = post[c].key /\ p.token = t
    BY <2>2, <2>3 DEF Posts, Places
  <2>5. Placed(p)
    BY <2>1, <2>3, <2>4 DEF Placed
  <2> QED BY <2>4, <2>5, PostSet DEF t
<1>3. CASE MintFailed(c)
  BY <1>3, PostEnded DEF MintFailed, Outcomes
<1>4. CASE Store(c)
  <2>1. post[c].token \in Tokens
    BY <1>4 DEF Store, Placed
  <2> QED BY <1>4, <2>1, InHand, PostSet DEF Store
<1>5. CASE Send(c)
  <2> DEFINE p == [post[c] EXCEPT !.at = "sent"]
  <2>1. p \in Posts /\ Placed(p)
    BY <1>5 DEF Send, Posts, Places, Placed
  <2> QED BY <1>5, <2>1, PostSet DEF Send
<1>6. CASE TimesOut(c)
  BY <1>6, PostEnded DEF TimesOut, Outcomes
<1>7. CASE Wake(c)
  <2> DEFINE p == [post[c] EXCEPT !.at = "ready"]
  <2>1. p \in Posts /\ Placed(p)
    BY <1>7 DEF Wake, Posts, Places, Placed
  <2> QED BY <1>7, <2>1, PostSet DEF Wake
<1> QED BY <1>1, <1>2, <1>3, <1>4, <1>5, <1>6, <1>7 DEF GoesOn

LEMMA AnsweredTyped ==
  ASSUME TypeInv, NEW h \in handlers, Answered(h)
  PROVE  post' \in [Callers -> Posts] /\ PlaceInv'
<1> USE DEF TypeInv
<1> DEFINE c == h.caller  p == post[c]
<1>1. h \in Handlers /\ c \in Callers /\ h.retry \in Nat /\ h.answer \in Answers
  BY DEF TypeOK, Handlers
<1>2. p \in Posts /\ Placed(p)
  BY <1>1 DEF TypeOK, PlaceInv
<1>3. CASE ~Waiting(h)
  BY <1>3 DEF Answered, TypeOK, PlaceInv, Placed
<1>4. CASE Waiting(h)
  <2>1. Becomes(c, Taken(p, h)) /\ p.at = "sent" /\ p.token \in Tokens
    BY <1>2, <1>4 DEF Answered, Waiting, Placed
  <2>2. CASE h.answer = "rate_limited" /\ RetryFits(p, h.retry)
    <3> DEFINE q == [p EXCEPT !.at = "sleeping", !.retried = TRUE, !.wake = now + h.retry]
    <3>1. now + h.retry \in Nat
      BY <1>1 DEF TypeOK
    <3>2. q \in Posts /\ q.at = "sleeping" /\ q.token = p.token
      BY <1>2, <3>1 DEF Posts, Places
    <3>3. Placed(q)
      BY <2>1, <3>2 DEF Placed
    <3>4. Taken(p, h) = q
      BY <2>2 DEF Taken
    <3> QED BY <1>1, <2>1, <3>2, <3>3, <3>4, PostSet
  <2>3. CASE ~(h.answer = "rate_limited" /\ RetryFits(p, h.retry))
    <3> DEFINE q == NoPost(p.n, IF h.answer = "ok" THEN "ok" ELSE "failed")
    <3>1. q \in Posts /\ Placed(q)
      BY <1>2 DEF Posts, NoPost, Outcomes, Places, Placed
    <3>2. Taken(p, h) = q
      BY <2>3 DEF Taken
    <3> QED BY <1>1, <2>1, <3>1, <3>2, PostSet
  <2> QED BY <2>2, <2>3
<1> QED BY <1>3, <1>4

LEMMA MovesTyped ==
  ASSUME TypeInv, NEW h \in handlers, NEW g \in Handlers, g.stamp <= now,
         Moves(h, g), now' = now
  PROVE  handlers' \subseteq Handlers /\ StampInv'
BY DEF TypeInv, TypeOK, StampInv, Moves

LEMMA AnswerTyped ==
  ASSUME TypeInv, NEW h \in handlers, NEW answer \in Answers, NEW retry \in Nat
  PROVE  Answer(h, answer, retry) \in Handlers /\ Answer(h, answer, retry).stamp <= now
<1>1. h \in Handlers /\ now \in Nat
  BY DEF TypeInv, TypeOK
<1>2. Answer(h, answer, retry) \in Handlers /\ Answer(h, answer, retry).stamp = 0
  BY <1>1 DEF Answer, Handlers
<1> QED BY <1>1, <1>2

LEMMA SendTyped ==
  ASSUME TypeInv, NEW c \in Callers, Send(c)
  PROVE  handlers' \subseteq Handlers /\ StampInv'
<1>1. post[c] \in Posts /\ post[c].token \in Tokens
  BY DEF TypeInv, TypeOK, PlaceInv, Placed, Send
<1>2. Arrival(c) \in Handlers /\ Arrival(c).stamp = 0
  BY <1>1 DEF Arrival, Handlers, Answers, Posts, Tries
<1> QED BY <1>1, <1>2 DEF Send, TypeInv, TypeOK, StampInv

LEMMA AuthoriseTyped ==
  ASSUME TypeInv, NEW h \in handlers, Authorise(h)
  PROVE  handlers' \subseteq Handlers /\ StampInv'
<1>1. h \in Handlers /\ now \in Nat /\ now' = now
  BY DEF TypeInv, TypeOK, Authorise
<1> DEFINE g == [h EXCEPT !.at = "stamped", !.stamp = now]
<1>2. g \in Handlers /\ g.stamp <= now
  <2>1. g \in Handlers
    BY <1>1 DEF Handlers
  <2>2. g.stamp = now
    BY <1>1 DEF Handlers
  <2> QED BY <1>1, <2>1, <2>2
<1>3. Answer(h, "failed", 0) \in Handlers /\ Answer(h, "failed", 0).stamp <= now
  BY AnswerTyped DEF Answers
<1> HIDE DEF g
<1>4. Moves(h, IF Accepted(h.token) THEN g ELSE Answer(h, "failed", 0))
  BY DEF Authorise, g
<1> QED BY <1>1, <1>2, <1>3, <1>4, MovesTyped

LEMMA ScanTyped ==
  ASSUME TypeInv, NEW h \in handlers, Scan(h)
  PROVE  /\ handlers' \subseteq Handlers /\ StampInv'
         /\ scanned' \in [Callers -> [1..MaxPosts -> Nat]]
<1>1. now' = now
  BY DEF Scan
<1>2. \A answer \in {"ok", "failed"} :
        Answer(h, answer, 0) \in Handlers /\ Answer(h, answer, 0).stamp <= now
  BY AnswerTyped DEF Answers
<1>3. handlers' \subseteq Handlers /\ StampInv'
  BY <1>1, <1>2, MovesTyped DEF Scan
<1>4. scanned' \in [Callers -> [1..MaxPosts -> Nat]]
  <2> DEFINE f == scanned[h.caller]
  <2>1. h.caller \in Callers /\ scanned \in [Callers -> [1..MaxPosts -> Nat]]
    BY DEF TypeInv, TypeOK, Handlers
  <2>2. [f EXCEPT ![h.n] = f[h.n] + 1] \in [1..MaxPosts -> Nat]
    <3>1. f \in [1..MaxPosts -> Nat]
      BY <2>1
    <3> HIDE DEF f
    <3>2. CASE h.n \in 1..MaxPosts
      BY <3>1, <3>2
    <3>3. CASE h.n \notin 1..MaxPosts
      BY <3>1, <3>3
    <3> QED BY <3>2, <3>3
  <2>3. scanned' = [scanned EXCEPT ![h.caller] = [f EXCEPT ![h.n] = f[h.n] + 1]]
    BY DEF Scan
  <2> QED BY <2>1, <2>2, <2>3
<1> QED BY <1>3, <1>4

(* What allow() finds, does and books.                                      *)
LEMMA AllowTyped ==
  ASSUME TypeInv, NEW h \in handlers, Allow(h)
  PROVE  /\ handlers' \subseteq Handlers /\ StampInv'
         /\ DOMAIN buckets' \subseteq Keys /\ buckets' \in [DOMAIN buckets' -> Buckets]
         /\ account' \in [Keys -> Accounts]
<1> DEFINE key == h.token.key
           b == BucketFor(buckets, key, h.stamp)
           left == IF Admits(b) THEN Spent(b) ELSE b
<1>1. h \in Handlers /\ key \in Keys /\ h.stamp \in Nat /\ now \in Nat /\ now' = now
  BY DEF TypeInv, TypeOK, Handlers, Tokens, Allow
<1>2. b \in Buckets
  BY <1>1, BucketShape DEF TypeInv, TypeOK
<1> HIDE DEF b
<1>3. left \in Buckets
  BY <1>2, SpentShape
<1>4. ~Admits(b) => RetryAfter(b) \in Nat
  BY <1>2, WaitSuffices
<1>5. DOMAIN buckets' \subseteq Keys /\ buckets' \in [DOMAIN buckets' -> Buckets]
  <2> PICK gone \in Evicting(buckets, key) : buckets' = With(buckets, gone, key, left)
    BY DEF Allow, b
  <2> HIDE DEF left
  <2> QED BY <1>1, <1>3 DEF With, TypeInv, TypeOK
<1>6. handlers' \subseteq Handlers /\ StampInv'
  <2>1. Moves(h, IF Admits(b) THEN [h EXCEPT !.at = "admitted", !.stamp = 0]
                 ELSE Answer(h, "rate_limited", RetryAfter(b)))
    BY DEF Allow, b
  <2>2. CASE Admits(b)
    <3> DEFINE g == [h EXCEPT !.at = "admitted", !.stamp = 0]
    <3>1. g \in Handlers /\ g.stamp <= now
      <4>1. g \in Handlers
        BY <1>1 DEF Handlers
      <4>2. g.stamp = 0
        BY <1>1 DEF Handlers
      <4> QED BY <1>1, <4>1, <4>2
    <3> HIDE DEF g
    <3> QED BY <1>1, <2>1, <2>2, <3>1, MovesTyped DEF g
  <2>3. CASE ~Admits(b)
    <3>1. /\ Answer(h, "rate_limited", RetryAfter(b)) \in Handlers
          /\ Answer(h, "rate_limited", RetryAfter(b)).stamp <= now
      BY <1>4, <2>3, AnswerTyped DEF Answers
    <3> QED BY <1>1, <2>1, <2>3, <3>1, MovesTyped
  <2> QED BY <2>2, <2>3
<1>7. account' \in [Keys -> Accounts]
  <2>1. account' = Booked(key, h.stamp, Admits(b), RetryAfter(b))
    BY DEF Allow, b
  <2> DEFINE a == account[key]
             entry == [admitted |-> IF Admits(b) THEN a.admitted + 1 ELSE a.admitted,
                       fills |-> IF key \in DOMAIN buckets THEN a.fills ELSE a.fills + 1,
                       last |-> h.stamp,
                       twice |-> IF h.stamp < a.last THEN a.twice + a.last - h.stamp ELSE a.twice,
                       due |-> IF Admits(b) THEN None ELSE now + RetryAfter(b)]
  <2>2. account' = [account EXCEPT ![key] = entry]
    BY <2>1 DEF Booked
  <2>3. a \in Accounts
    BY <1>1 DEF TypeInv, TypeOK
  <2>4. (IF Admits(b) THEN None ELSE now + RetryAfter(b)) \in Nat \cup {None}
    BY <1>1, <1>4
  <2>5. (IF h.stamp < a.last THEN a.twice + a.last - h.stamp ELSE a.twice) \in Nat
    BY <1>1, <2>3 DEF Accounts
  <2>6. entry \in Accounts
    BY <1>1, <2>3, <2>4, <2>5 DEF Accounts
  <2> HIDE DEF entry
  <2> QED BY <1>1, <2>2, <2>6 DEF TypeInv, TypeOK
<1> QED BY <1>5, <1>6, <1>7

LEMMA CacheTyped ==
  ASSUME TypeInv, NEW c \in Callers, Store(c)
  PROVE  cache' \in [Processes -> [Keys -> Cached \cup {None}]]
<1> DEFINE p == post[c]  entry == [token |-> p.token, exp |-> CachedExpiry(p)]
<1>1. p \in Posts /\ p.token \in Tokens /\ p.key \in Keys
  BY DEF TypeInv, TypeOK, PlaceInv, Placed, Store
<1>2. CachedExpiry(p) \in Nat
  BY <1>1 DEF CachedExpiry, Posts, Tokens
<1>3. entry \in Cached
  BY <1>1, <1>2 DEF Cached
<1>4. cache' = IF c \in Hermes THEN StoredHermes(p.key, entry) ELSE StoredOpenClaw(p.key, entry)
  BY DEF Store
<1> HIDE DEF entry, p
<1>5. StoredHermes(p.key, entry) \in [Processes -> [Keys -> Cached \cup {None}]]
  BY <1>1, <1>3 DEF StoredHermes, Processes, TypeInv, TypeOK
<1>6. StoredOpenClaw(p.key, entry) \in [Processes -> [Keys -> Cached \cup {None}]]
  BY <1>1, <1>3 DEF StoredOpenClaw, Processes, TypeInv, TypeOK
<1> QED BY <1>4, <1>5, <1>6

LEMMA TypeInit == Init => TypeInv
<1> SUFFICES ASSUME Init PROVE TypeInv
  OBVIOUS
<1>1. post \in [Callers -> Posts] /\ PlaceInv
  BY DEF Init, NoPost, Posts, Places, Outcomes, PlaceInv, Placed
<1>2. handlers \subseteq Handlers /\ StampInv
  BY DEF Init, StampInv
<1>3. DOMAIN buckets \subseteq Keys /\ buckets \in [DOMAIN buckets -> Buckets]
  BY DEF Init
<1>4. account \in [Keys -> Accounts]
  BY DEF Init, Accounts
<1>5. cache \in [Processes -> [Keys -> Cached \cup {None}]]
  BY DEF Init
<1>6. scanned \in [Callers -> [1..MaxPosts -> Nat]] /\ now \in Nat
  BY DEF Init
<1> QED BY <1>1, <1>2, <1>3, <1>4, <1>5, <1>6 DEF TypeInv, TypeOK

LEMMA TypeStep == TypeInv /\ [Next]_vars => TypeInv'
<1> SUFFICES ASSUME TypeInv, [Next]_vars PROVE TypeInv'
  OBVIOUS
<1> USE DEF TypeInv
<1>1. ASSUME NEW c \in Callers, Start(c) PROVE TypeInv'
  BY <1>1, StartTyped DEF Start, TypeOK, StampInv, serviceVars
<1>2. ASSUME NEW c \in Callers, GoesOn(c) PROVE TypeInv'
  <2>1. post' \in [Callers -> Posts] /\ PlaceInv'
    BY <1>2, GoesOnTyped
  <2>2. CASE Store(c)
    BY <2>1, <2>2, CacheTyped DEF Store, TypeOK, StampInv, serviceVars
  <2>3. CASE Send(c)
    BY <2>1, <2>3, SendTyped DEF Send, TypeOK, StampInv
  <2>4. CASE LookUp(c) \/ Issued(c) \/ MintFailed(c) \/ TimesOut(c) \/ Wake(c)
    <3>1. UNCHANGED <<now, cache, serviceVars>>
      BY <2>4 DEF LookUp, Issued, MintFailed, TimesOut, Wake
    <3> QED BY <2>1, <3>1 DEF TypeOK, StampInv, serviceVars
  <2> QED BY <1>2, <2>2, <2>3, <2>4 DEF GoesOn
<1>3. ASSUME NEW c \in Callers, Broken(c) PROVE TypeInv'
  <2>1. post' \in [Callers -> Posts] /\ PlaceInv'
    BY <1>3, PostEnded DEF Broken, Outcomes
  <2> QED BY <1>3, <2>1 DEF Broken, TypeOK, StampInv, serviceVars
<1>4. ASSUME NEW h \in handlers, Handle(h) PROVE TypeInv'
  <2>1. CASE Authorise(h)
    BY <2>1, AuthoriseTyped DEF Authorise, TypeOK, PlaceInv, clientVars
  <2>2. CASE Allow(h)
    BY <2>2, AllowTyped DEF Allow, TypeOK, PlaceInv, clientVars
  <2>3. CASE Scan(h)
    BY <2>3, ScanTyped DEF Scan, TypeOK, PlaceInv, clientVars
  <2>4. CASE Answered(h)
    BY <2>4, AnsweredTyped DEF Answered, TypeOK, StampInv
  <2> QED BY <1>4, <2>1, <2>2, <2>3, <2>4 DEF Handle
<1>5. CASE Tick
  BY <1>5 DEF Tick, TypeOK, PlaceInv, StampInv, clientVars, serviceVars, Handlers
<1>6. CASE UNCHANGED vars
  BY <1>6 DEF vars, clientVars, serviceVars, TypeOK, PlaceInv, StampInv
<1> QED BY <1>1, <1>2, <1>3, <1>4, <1>5, <1>6 DEF Next

(* Types hold throughout.                                                   *)
THEOREM ServiceTyped == Spec => []TypeOK
<1>1. TypeInv => TypeOK
  BY DEF TypeInv
<1> QED BY TypeInit, TypeStep, <1>1, PTL DEF Spec

-----------------------------------------------------------------------------
(* The limiter's books.  A caller id is owed what its bucket still holds:   *)
(* that is admitted too before anything more comes back.  A refusal leaves  *)
(* a bucket that is full enough by the time it told.                        *)

Held(k) == IF k \in DOMAIN buckets THEN buckets[k].credit ELSE 0

Balanced(k) ==
  Cost * account[k].admitted + Held(k)
    <= Cap * account[k].fills + Rate * (account[k].last + account[k].twice)

KeptTime(k) ==
  /\ account[k].last <= now
  /\ k \in DOMAIN buckets => buckets[k].updated = account[k].last

Promised(k) ==
  k \in DOMAIN buckets /\ account[k].due # None =>
    /\ account[k].due >= buckets[k].updated
    /\ buckets[k].credit + Rate * (account[k].due - buckets[k].updated) >= Cost

BooksInv == \A k \in Keys : Balanced(k) /\ KeptTime(k) /\ Promised(k)

LEMMA Distributes ==
  ASSUME NEW x \in Nat, NEW y \in Nat, NEW z \in Nat
  PROVE  x * y \in Nat /\ x * (y + z) = x * y + x * z
OBVIOUS

(* The request finds in its bucket no more than was there and what came     *)
(* back since the time of the last one, or a new bucket.                    *)
LEMMA Refill ==
  ASSUME TypeInv, BooksInv, NEW k \in Keys, NEW stamp \in Nat
  PROVE  LET a == account[k]
             b == BucketFor(buckets, k, stamp)
             e == IF stamp > a.last THEN stamp - a.last ELSE 0
         IN  b.credit + Cost * a.admitted
               <= Cap * (IF k \in DOMAIN buckets THEN a.fills ELSE a.fills + 1)
                    + Rate * (a.last + a.twice) + Rate * e
<1> USE LimiterAssumption
<1> DEFINE a == account[k]
           b == BucketFor(buckets, k, stamp)
           e == IF stamp > a.last THEN stamp - a.last ELSE 0
<1>1. a \in Accounts /\ Cap \in Nat
  BY DEF TypeInv, TypeOK, Cap
<1>2. e \in Nat /\ Rate * e \in Nat /\ Cost * a.admitted \in Nat /\ Cap * a.fills \in Nat
      /\ Rate * (a.last + a.twice) \in Nat
  BY <1>1 DEF Accounts
<1>3. CASE k \in DOMAIN buckets
  <2>1. buckets[k] \in Buckets /\ buckets[k].updated = a.last
    BY <1>3 DEF TypeInv, TypeOK, BooksInv, KeptTime
  <2>2. Elapsed(buckets[k], stamp) = e
    BY <2>1 DEF Elapsed
  <2>3. b.credit <= buckets[k].credit + e * Rate
    <3> DEFINE c == buckets[k].credit + e * Rate
    <3>1. b.credit = IF c > Cap THEN Cap ELSE c
      BY <1>3, <2>2 DEF BucketFor, Refilled
    <3>2. c \in Nat
      BY <1>2, <2>1 DEF Buckets
    <3> HIDE DEF c
    <3>3. b.credit <= c
      BY <1>1, <3>1, <3>2
    <3> QED BY <3>3 DEF c
  <2>4. b.credit \in Nat
    BY BucketShape DEF TypeInv, TypeOK, Buckets
  <2>5. Cost * a.admitted + buckets[k].credit <= Cap * a.fills + Rate * (a.last + a.twice)
    BY <1>3 DEF BooksInv, Balanced, Held
  <2>6. e * Rate = Rate * e /\ buckets[k].credit \in Nat
    BY <1>2, <2>1 DEF Buckets
  <2> DEFINE X == Cost * a.admitted  Y == Cap * a.fills
             Z == Rate * (a.last + a.twice)  W == Rate * e
  <2>7. X \in Nat /\ Y \in Nat /\ Z \in Nat /\ W \in Nat
    BY <1>2
  <2>8. b.credit <= buckets[k].credit + W /\ X + buckets[k].credit <= Y + Z
    BY <2>3, <2>5, <2>6
  <2> HIDE DEF X, Y, Z, W
  <2>9. b.credit + X <= Y + Z + W
    BY <2>4, <2>6, <2>7, <2>8
  <2> QED BY <1>3, <2>9 DEF X, Y, Z, W
<1>4. CASE k \notin DOMAIN buckets
  <2>1. b.credit = Cap
    BY <1>4 DEF BucketFor, FullBucket
  <2>2. Cost * a.admitted <= Cap * a.fills + Rate * (a.last + a.twice)
    <3>1. Cost * a.admitted + 0 <= Cap * a.fills + Rate * (a.last + a.twice)
      BY <1>4 DEF BooksInv, Balanced, Held
    <3> QED BY <1>2, <3>1
  <2>3. Cap * (a.fills + 1) = Cap * a.fills + Cap
    BY <1>1 DEF Accounts
  <2> DEFINE X == Cost * a.admitted  Y == Cap * a.fills
             Z == Rate * (a.last + a.twice)  W == Rate * e
  <2>4. X \in Nat /\ Y \in Nat /\ Z \in Nat /\ W \in Nat /\ X <= Y + Z
        /\ Cap * (a.fills + 1) = Y + Cap
    BY <1>2, <2>2, <2>3
  <2> HIDE DEF X, Y, Z, W
  <2>5. b.credit + X <= Cap * (a.fills + 1) + Z + W
    BY <1>1, <2>1, <2>4
  <2> QED BY <1>4, <2>5 DEF X, Y, Z, W
<1> QED BY <1>3, <1>4

(* Time that went back since the last request counts again.                 *)
LEMMA TimeBooked ==
  ASSUME NEW last \in Nat, NEW twice \in Nat, NEW stamp \in Nat
  PROVE  LET e == IF stamp > last THEN stamp - last ELSE 0
             again == IF stamp < last THEN twice + last - stamp ELSE twice
         IN  again \in Nat /\ stamp + again = last + twice + e
OBVIOUS

(* What allow() does for the caller id of the request, the names of the     *)
(* values as in the code.                                                  *)
LEMMA AllowBooks ==
  ASSUME TypeInv, BooksInv, NEW h \in handlers, Allow(h)
  PROVE  LET k == h.token.key
         IN  k \in Keys /\ Balanced(k)' /\ KeptTime(k)' /\ Promised(k)'
<1> USE LimiterAssumption
<1> DEFINE k == h.token.key
           a == account[k]
           b == BucketFor(buckets, k, h.stamp)
           left == IF Admits(b) THEN Spent(b) ELSE b
           e == IF h.stamp > a.last THEN h.stamp - a.last ELSE 0
           fills == IF k \in DOMAIN buckets THEN a.fills ELSE a.fills + 1
           again == IF h.stamp < a.last THEN a.twice + a.last - h.stamp ELSE a.twice
<1>1. /\ k \in Keys /\ h.stamp \in Nat /\ h.stamp <= now /\ now \in Nat /\ now' = now
      /\ a \in Accounts /\ Cap \in Nat
  BY DEF TypeInv, TypeOK, StampInv, Handlers, Tokens, Allow, Cap
<1>2. b \in Buckets /\ b.updated = h.stamp
  BY <1>1, BucketShape DEF TypeInv, TypeOK
<1>3. b.credit + Cost * a.admitted <= Cap * fills + Rate * (a.last + a.twice) + Rate * e
  BY <1>1, Refill
<1>4. again \in Nat /\ h.stamp + again = a.last + a.twice + e
  BY <1>1, TimeBooked DEF Accounts
<1>5. account'[k] = [admitted |-> IF Admits(b) THEN a.admitted + 1 ELSE a.admitted,
                     fills |-> fills, last |-> h.stamp, twice |-> again,
                     due |-> IF Admits(b) THEN None ELSE now + RetryAfter(b)]
  <2>1. account' = Booked(k, h.stamp, Admits(b), RetryAfter(b))
    BY DEF Allow
  <2> QED BY <1>1, <2>1 DEF Booked, TypeInv, TypeOK
<1>6. k \in DOMAIN buckets' /\ buckets'[k] = left
  <2> PICK gone \in Evicting(buckets, k) : buckets' = With(buckets, gone, k, left)
    BY DEF Allow
  <2> QED BY DEF With
<1>7. left \in Buckets /\ left.updated = h.stamp
  BY <1>2, SpentShape
<1> HIDE DEF b, left
<1>8. KeptTime(k)'
  BY <1>1, <1>5, <1>6, <1>7 DEF KeptTime
<1>9. Balanced(k)'
  <2> DEFINE admitted == IF Admits(b) THEN a.admitted + 1 ELSE a.admitted
  <2>1. Cost * admitted + left.credit = Cost * a.admitted + b.credit
    <3>1. CASE Admits(b)
      <4>1. left.credit = b.credit - Cost
        BY <1>2, <3>1, SpentShape DEF left
      <4>2. Cost * (a.admitted + 1) = Cost * a.admitted + Cost /\ Cost * a.admitted \in Nat
        BY <1>1 DEF Accounts
      <4>3. admitted = a.admitted + 1 /\ b.credit \in Nat
        BY <1>2, <3>1 DEF Buckets
      <4> DEFINE X == Cost * a.admitted
      <4>4. Cost * admitted = X + Cost /\ X \in Nat
        BY <4>2, <4>3
      <4> HIDE DEF X, admitted
      <4>5. X + Cost + left.credit = X + b.credit
        BY <4>1, <4>3, <4>4
      <4> QED BY <4>4, <4>5 DEF X
    <3>2. CASE ~Admits(b)
      BY <3>2 DEF left
    <3> QED BY <3>1, <3>2
  <2>2. Rate * (h.stamp + again) = Rate * (a.last + a.twice) + Rate * e
    <3>1. a.last + a.twice \in Nat /\ e \in Nat
      BY <1>1 DEF Accounts
    <3>2. Rate * ((a.last + a.twice) + e) = Rate * (a.last + a.twice) + Rate * e
      BY <3>1, Distributes
    <3>3. h.stamp + again = (a.last + a.twice) + e
      BY <1>4
    <3> QED BY <3>2, <3>3
  <2>3. b.credit + Cost * a.admitted = Cost * a.admitted + b.credit
    <3>1. Cost * a.admitted \in Nat /\ b.credit \in Nat
      BY <1>1, <1>2 DEF Accounts, Buckets
    <3> QED BY <3>1
  <2>4. Cap * fills + Rate * (a.last + a.twice) + Rate * e = Cap * fills + Rate * (h.stamp + again)
    <3>1. Cap * fills \in Nat /\ Rate * (a.last + a.twice) \in Nat /\ Rate * e \in Nat
      BY <1>1 DEF Accounts
    <3> DEFINE Y == Cap * fills  Z == Rate * (a.last + a.twice)  W == Rate * e
               S == Rate * (h.stamp + again)
    <3>2. Y \in Nat /\ Z \in Nat /\ W \in Nat /\ S = Z + W
      BY <2>2, <3>1
    <3> HIDE DEF Y, Z, W, S
    <3>3. Y + Z + W = Y + S
      BY <3>2
    <3> QED BY <3>3 DEF Y, Z, W, S
  <2>5. Cost * admitted + left.credit <= Cap * fills + Rate * (h.stamp + again)
    BY <1>3, <2>1, <2>3, <2>4
  <2>6. Held(k)' = left.credit
    BY <1>6 DEF Held
  <2>7. /\ account'[k].admitted = admitted /\ account'[k].fills = fills
        /\ account'[k].last = h.stamp /\ account'[k].twice = again
    BY <1>5
  <2> QED BY <2>5, <2>6, <2>7 DEF Balanced
<1>10. Promised(k)'
  <2>1. CASE Admits(b)
    BY <1>5, <2>1 DEF Promised
  <2>2. CASE ~Admits(b)
    <3>1. RetryAfter(b) \in Nat /\ b.credit + Rate * RetryAfter(b) >= Cost
      BY <1>2, <2>2, WaitSuffices
    <3>2. buckets'[k] = b /\ account'[k].due = now + RetryAfter(b)
      BY <1>5, <1>6, <2>2 DEF left
    <3> DEFINE w == RetryAfter(b)  gap == now - h.stamp
    <3>3. w \in Nat /\ gap \in Nat /\ (now + w) - h.stamp = w + gap /\ now + w >= h.stamp
      BY <1>1, <3>1
    <3>4. Rate * (w + gap) = Rate * w + Rate * gap /\ Rate * gap \in Nat /\ Rate * w \in Nat
      <4> HIDE DEF w, gap
      <4> QED BY <3>3, Distributes
    <3>5. b.credit + Rate * (w + gap) >= Cost
      <4> DEFINE V == Rate * w  G == Rate * gap  S == Rate * (w + gap)
      <4>1. /\ V \in Nat /\ G \in Nat /\ S = V + G /\ b.credit \in Nat
            /\ b.credit + V >= Cost
        BY <1>2, <3>1, <3>4 DEF Buckets
      <4> HIDE DEF V, G, S
      <4>2. b.credit + S >= Cost
        BY <4>1
      <4> QED BY <4>2 DEF S
    <3> HIDE DEF w, gap
    <3>6. account'[k].due = now + w /\ buckets'[k].updated = h.stamp /\ buckets'[k].credit = b.credit
      BY <1>2, <3>2 DEF w
    <3>7. Rate * (account'[k].due - buckets'[k].updated) = Rate * (w + gap)
      BY <3>3, <3>6
    <3> QED BY <3>3, <3>5, <3>6, <3>7 DEF Promised
  <2> QED BY <2>1, <2>2
<1> QED BY <1>1, <1>8, <1>9, <1>10

(* The books of the other caller ids are as they were, but a bucket may go. *)
LEMMA AllowOthers ==
  ASSUME TypeInv, BooksInv, NEW h \in handlers, Allow(h),
         NEW j \in Keys, j # h.token.key
  PROVE  Balanced(j)' /\ KeptTime(j)' /\ Promised(j)'
<1> USE LimiterAssumption
<1> DEFINE k == h.token.key
           b == BucketFor(buckets, k, h.stamp)
           left == IF Admits(b) THEN Spent(b) ELSE b
<1>1. account'[j] = account[j] /\ now' = now
  BY DEF Allow, Booked, TypeInv, TypeOK
<1>2. j \in DOMAIN buckets' => j \in DOMAIN buckets /\ buckets'[j] = buckets[j]
  <2> PICK gone \in Evicting(buckets, k) : buckets' = With(buckets, gone, k, left)
    BY DEF Allow
  <2> QED BY DEF With
<1>3. Balanced(j) /\ KeptTime(j) /\ Promised(j)
  BY DEF BooksInv
<1>4. KeptTime(j)' /\ Promised(j)'
  BY <1>1, <1>2, <1>3 DEF KeptTime, Promised
<1>5. Balanced(j)'
  <2> DEFINE X == Cost * account[j].admitted
             Y == Cap * account[j].fills + Rate * (account[j].last + account[j].twice)
  <2>1. account[j] \in Accounts /\ Cap \in Nat
    BY DEF TypeInv, TypeOK, Cap
  <2>2. X \in Nat /\ Y \in Nat
    BY <2>1 DEF Accounts
  <2>3. X + Held(j) <= Y
    BY <1>3 DEF Balanced
  <2>4. Held(j) \in Nat
    BY DEF Held, TypeInv, TypeOK, Buckets
  <2>5. Held(j)' = Held(j) \/ Held(j)' = 0
    BY <1>2 DEF Held
  <2> HIDE DEF X, Y
  <2>6. X + Held(j)' <= Y
    BY <2>2, <2>3, <2>4, <2>5
  <2> QED BY <1>1, <2>6 DEF Balanced, X, Y
<1> QED BY <1>4, <1>5

LEMMA BooksQuiet ==
  ASSUME TypeInv, BooksInv, UNCHANGED <<buckets, account>>, now' \in Nat, now <= now'
  PROVE  BooksInv'
<1> SUFFICES ASSUME NEW k \in Keys PROVE Balanced(k)' /\ KeptTime(k)' /\ Promised(k)'
  BY DEF BooksInv
<1>1. Balanced(k) /\ KeptTime(k) /\ Promised(k)
  BY DEF BooksInv
<1>2. account[k].last \in Nat /\ now \in Nat
  BY DEF TypeInv, TypeOK, Accounts
<1> QED BY <1>1, <1>2 DEF Balanced, Held, KeptTime, Promised

LEMMA BooksInit == Init => BooksInv
<1> SUFFICES ASSUME Init, NEW k \in Keys PROVE Balanced(k) /\ KeptTime(k) /\ Promised(k)
  BY DEF BooksInv
<1>1. account[k] = [admitted |-> 0, fills |-> 0, last |-> 0, twice |-> 0, due |-> None]
  BY DEF Init
<1>2. DOMAIN buckets = {} /\ now = 0
  BY DEF Init
<1>3. Cost * 0 = 0 /\ Cap * 0 = 0 /\ Rate * (0 + 0) = 0
  BY LimiterAssumption DEF Cap
<1> QED BY <1>1, <1>2, <1>3 DEF Balanced, Held, KeptTime, Promised

LEMMA BooksStep == TypeInv /\ BooksInv /\ [Next]_vars => BooksInv'
<1> SUFFICES ASSUME TypeInv, BooksInv, [Next]_vars PROVE BooksInv'
  OBVIOUS
<1> now \in Nat
  BY DEF TypeInv, TypeOK
<1>1. ASSUME NEW c \in Callers, Start(c) PROVE BooksInv'
  BY <1>1, BooksQuiet DEF Start, serviceVars
<1>2. ASSUME NEW c \in Callers, GoesOn(c) PROVE BooksInv'
  <2>1. UNCHANGED <<now, buckets, account>>
    BY <1>2 DEF GoesOn, LookUp, Issued, MintFailed, Store, Send, TimesOut, Wake, serviceVars
  <2> QED BY <2>1, BooksQuiet
<1>3. ASSUME NEW c \in Callers, Broken(c) PROVE BooksInv'
  BY <1>3, BooksQuiet DEF Broken, serviceVars
<1>4. ASSUME NEW h \in handlers, Handle(h) PROVE BooksInv'
  <2>1. CASE Authorise(h) \/ Scan(h) \/ Answered(h)
    <3>1. UNCHANGED <<now, buckets, account>>
      BY <2>1 DEF Authorise, Scan, Answered
    <3> QED BY <3>1, BooksQuiet
  <2>2. CASE Allow(h)
    BY <2>2, AllowBooks, AllowOthers DEF BooksInv
  <2> QED BY <1>4, <2>1, <2>2 DEF Handle
<1>5. CASE Tick
  BY <1>5, BooksQuiet DEF Tick, serviceVars
<1>6. CASE UNCHANGED vars
  BY <1>6, BooksQuiet DEF vars, serviceVars
<1> QED BY <1>1, <1>2, <1>3, <1>4, <1>5, <1>6 DEF Next

(* The rate limit holds: no caller id is admitted more than its buckets and *)
(* the time since the start allow.                                         *)
THEOREM LimitHolds == Spec => []LimitKept
<1>1. TypeInv /\ BooksInv => LimitKept
  <2> SUFFICES ASSUME TypeInv, BooksInv, NEW k \in Keys
               PROVE  Cost * account[k].admitted
                        <= Cap * account[k].fills + Rate * (now + account[k].twice)
    BY DEF LimitKept
  <2> DEFINE a == account[k]
  <2>1. a \in Accounts /\ now \in Nat /\ Cap \in Nat /\ a.last <= now
    BY LimiterAssumption DEF TypeInv, TypeOK, Cap, BooksInv, KeptTime
  <2>2. Cost * a.admitted + Held(k) <= Cap * a.fills + Rate * (a.last + a.twice)
    BY DEF BooksInv, Balanced
  <2>3. Held(k) \in Nat
    BY DEF Held, TypeInv, TypeOK, Buckets
  <2>4. Rate * (now + a.twice) = Rate * (a.last + a.twice) + Rate * (now - a.last)
    <3>1. now - a.last \in Nat /\ a.last + a.twice \in Nat
          /\ (a.last + a.twice) + (now - a.last) = now + a.twice
      BY <2>1 DEF Accounts
    <3>2. Rate * ((a.last + a.twice) + (now - a.last))
            = Rate * (a.last + a.twice) + Rate * (now - a.last)
      BY <3>1, Distributes, LimiterAssumption
    <3> QED BY <3>1, <3>2
  <2> DEFINE X == Cost * a.admitted  Y == Cap * a.fills
             Z == Rate * (a.last + a.twice)  W == Rate * (now - a.last)
  <2>5. X \in Nat /\ Y \in Nat /\ Z \in Nat /\ W \in Nat
    BY <2>1, LimiterAssumption DEF Accounts
  <2> HIDE DEF X, Y, Z, W
  <2>6. X <= Y + (Z + W)
    BY <2>2, <2>3, <2>5 DEF X, Y, Z
  <2> QED BY <2>4, <2>6 DEF X, Y, Z, W
<1> QED BY TypeInit, TypeStep, BooksInit, BooksStep, <1>1, PTL DEF Spec

(* Retry-After suffices: who comes again at the time it told is admitted,   *)
(* unless another request of the caller id was admitted in between.         *)
THEOREM RetrySuffices == Spec => RetryAfterSuffices
<1>1. TypeInv /\ BooksInv /\ [Next]_vars =>
        [\A h \in handlers :
           LET a == account[h.token.key]
           IN  Allow(h) /\ a.due # None /\ h.stamp >= a.due
               => account'[h.token.key].admitted = a.admitted + 1]_vars
  <2> SUFFICES ASSUME TypeInv, BooksInv, NEW h \in handlers, Allow(h),
                      account[h.token.key].due # None,
                      h.stamp >= account[h.token.key].due
               PROVE  account'[h.token.key].admitted = account[h.token.key].admitted + 1
    OBVIOUS
  <2> USE LimiterAssumption
  <2> DEFINE k == h.token.key
             a == account[k]
             b == BucketFor(buckets, k, h.stamp)
  <2>1. k \in Keys /\ h.stamp \in Nat /\ a \in Accounts /\ Cap \in Nat /\ Cap >= Cost
    <3>1. k \in Keys /\ h.stamp \in Nat /\ a \in Accounts
      BY DEF TypeInv, TypeOK, Handlers, Tokens
    <3> DEFINE r == Burst - 1
    <3>2. r \in Nat /\ Burst = 1 + r
      OBVIOUS
    <3>3. Cost * (1 + r) = Cost * 1 + Cost * r /\ Cost * r \in Nat
      <4> HIDE DEF r
      <4> QED BY <3>2, Distributes
    <3>4. Cap = Cost * (1 + r)
      BY <3>2 DEF Cap
    <3> QED BY <3>1, <3>3, <3>4
  <2>2. Admits(b)
    <3>1. CASE k \notin DOMAIN buckets
      BY <2>1, <3>1 DEF BucketFor, FullBucket, Admits
    <3>2. CASE k \in DOMAIN buckets
      <4>1. /\ buckets[k] \in Buckets /\ a.due \in Nat /\ a.due >= buckets[k].updated
            /\ buckets[k].credit + Rate * (a.due - buckets[k].updated) >= Cost
        BY <2>1, <3>2 DEF TypeInv, TypeOK, BooksInv, Promised, Accounts
      <4> DEFINE u == buckets[k].updated  due == a.due - u  more == h.stamp - a.due
                 D == Rate * due  M == Rate * more  E == Elapsed(buckets[k], h.stamp) * Rate
      <4>2. u \in Nat /\ due \in Nat /\ more \in Nat /\ Elapsed(buckets[k], h.stamp) = due + more
        <5>1. u \in Nat /\ a.due \in Nat /\ h.stamp \in Nat /\ a.due >= u /\ h.stamp >= a.due
          BY <2>1, <4>1 DEF Buckets
        <5>2. Elapsed(buckets[k], h.stamp) = IF h.stamp > u THEN h.stamp - u ELSE 0
          BY DEF Elapsed
        <5> HIDE DEF a, u
        <5> QED BY <5>1, <5>2
      <4>3. D \in Nat /\ M \in Nat /\ E = D + M
        <5> HIDE DEF u, due, more
        <5>1. Rate * (due + more) = Rate * due + Rate * more
          BY <4>2, Distributes
        <5>2. (due + more) * Rate = Rate * (due + more) /\ Rate * due \in Nat /\ Rate * more \in Nat
          BY <4>2
        <5> QED BY <4>2, <5>1, <5>2
      <4>4. buckets[k].credit \in Nat /\ buckets[k].credit + D >= Cost
        BY <4>1 DEF Buckets
      <4>5. b.credit = IF buckets[k].credit + E > Cap THEN Cap ELSE buckets[k].credit + E
        BY <3>2 DEF BucketFor, Refilled
      <4> HIDE DEF D, M, E, b
      <4>6. b.credit >= Cost
        BY <2>1, <4>3, <4>4, <4>5
      <4> QED BY <4>6 DEF Admits
    <3> QED BY <3>1, <3>2
  <2>3. account' = Booked(k, h.stamp, Admits(b), RetryAfter(b))
    BY DEF Allow
  <2> HIDE DEF b
  <2> QED BY <2>1, <2>2, <2>3 DEF Booked, TypeInv, TypeOK
<1> QED BY TypeInit, TypeStep, BooksInit, BooksStep, <1>1, PTL DEF Spec, RetryAfterSuffices

-----------------------------------------------------------------------------
(* One request of a post at a time is at the service: a retry is sent only  *)
(* when the answer to the first, a refusal before any scan, was taken.      *)

InFlight == {"arrived", "stamped", "admitted"}

OneRequest == \A h, g \in handlers : h.caller = g.caller /\ h.n = g.n => h = g

(* What a request at the service says of its post.                          *)
Pending(h) ==
  /\ h.n \in 1..MaxPosts /\ h.n <= post[h.caller].n
  /\ h.n = post[h.caller].n => post[h.caller].at \in {"sent", "idle"}
  /\ h.at \in InFlight \/ h.answer = "rate_limited" => scanned[h.caller][h.n] = 0
  /\ h.at \notin InFlight /\ h.answer = "ok" => scanned[h.caller][h.n] = 1

(* What a post says of the scans.                                           *)
Unscanned(c) ==
  /\ post[c].n <= MaxPosts /\ (post[c].at # "idle" => post[c].n >= 1)
  /\ post[c].at \notin {"sent", "idle"} => scanned[c][post[c].n] = 0
  /\ \A n \in 1..MaxPosts : n > post[c].n => scanned[c][n] = 0
  /\ \A n \in 1..MaxPosts : scanned[c][n] <= 1
  /\ post[c].outcome = "ok" =>
       post[c].at = "idle" /\ post[c].n >= 1 /\ scanned[c][post[c].n] = 1

OnceInv ==
  /\ OneRequest
  /\ \A h \in handlers : Pending(h)
  /\ \A c \in Callers : Unscanned(c)

LEMMA OnceInit == Init => OnceInv
<1> SUFFICES ASSUME Init PROVE OnceInv
  OBVIOUS
<1>1. OneRequest /\ \A h \in handlers : Pending(h)
  BY DEF Init, OneRequest
<1>2. ASSUME NEW c \in Callers PROVE Unscanned(c)
  <2>1. post[c] = NoPost(0, "none") /\ \A n \in 1..MaxPosts : scanned[c][n] = 0
    BY DEF Init
  <2>2. post[c].n = 0 /\ post[c].at = "idle" /\ post[c].outcome = "none"
    BY <2>1 DEF NoPost
  <2> QED BY <2>1, <2>2, ServiceAssumption DEF Unscanned
<1> QED BY <1>1, <1>2 DEF OnceInv

(* A caller goes on in the same post, without a new request or scan.        *)
LEMMA OnceSamePost ==
  ASSUME TypeInv, OnceInv, NEW c \in Callers, NEW p \in Posts, Becomes(c, p),
         p.n = post[c].n,
         p.outcome = "ok" => post[c].outcome = "ok" /\ p.at = "idle",
         post[c].at \in {"sent", "idle"} => p.at = "idle",
         post[c].at = "idle" => p.at = "idle",
         UNCHANGED <<handlers, scanned>>
  PROVE  OnceInv'
<1>1. post \in [Callers -> Posts] /\ post' = [post EXCEPT ![c] = p] /\ handlers \subseteq Handlers
  BY DEF TypeInv, TypeOK, Becomes
<1>2. OneRequest'
  BY DEF OnceInv, OneRequest
<1>3. ASSUME NEW h \in handlers' PROVE Pending(h)'
  <2>1. h \in handlers /\ Pending(h) /\ h.caller \in Callers
    BY <1>1 DEF OnceInv, Handlers
  <2>2. CASE h.caller # c
    BY <1>1, <2>1, <2>2 DEF Pending
  <2>3. CASE h.caller = c
    BY <1>1, <2>1, <2>3 DEF Pending
  <2> QED BY <2>2, <2>3
<1>4. ASSUME NEW d \in Callers PROVE Unscanned(d)'
  <2>1. Unscanned(d)
    BY DEF OnceInv
  <2>2. CASE d # c
    BY <1>1, <2>1, <2>2 DEF Unscanned
  <2>3. CASE d = c
    BY <1>1, <2>1, <2>3 DEF Unscanned
  <2> QED BY <2>2, <2>3
<1> QED BY <1>2, <1>3, <1>4 DEF OnceInv

LEMMA OnceStart ==
  ASSUME TypeInv, OnceInv, NEW c \in Callers, Start(c)
  PROVE  OnceInv'
<1>1. post \in [Callers -> Posts] /\ handlers \subseteq Handlers /\ post[c] \in Posts
      /\ post[c].n \in Nat /\ post[c].n < MaxPosts /\ MaxPosts \in Nat
      /\ UNCHANGED <<handlers, scanned>>
  BY ServiceAssumption DEF TypeInv, TypeOK, Start, MorePosts, serviceVars, Posts
<1>2. PICK p \in Posts : /\ Becomes(c, p) /\ p.n = post[c].n + 1
                         /\ p.outcome \in {"none", "failed"}
  <2> DEFINE q == NoPost(post[c].n + 1, "none")
             f == NoPost(post[c].n + 1, "failed")
  <2>1. /\ q \in Posts /\ q.n = post[c].n + 1 /\ q.outcome = "none"
        /\ f \in Posts /\ f.n = post[c].n + 1 /\ f.outcome = "failed"
    BY <1>1 DEF NoPost, Posts, Places, Outcomes
  <2>2. CASE Becomes(c, f)
    BY <2>1, <2>2
  <2>3. ASSUME NEW key \in Keys,
               Becomes(c, IF c \in Hermes THEN Begun(c, key) ELSE LookedUp(c, Begun(c, key)))
        PROVE  \E p \in Posts : /\ Becomes(c, p) /\ p.n = post[c].n + 1
                                /\ p.outcome \in {"none", "failed"}
    <3> DEFINE b == Begun(c, key)
    <3>1. b = [q EXCEPT !.at = "looking", !.key = key, !.read = now] /\ now \in Nat
      BY DEF Begun, TypeInv, TypeOK
    <3> HIDE DEF q, b
    <3>2. b \in Posts /\ b.n = post[c].n + 1 /\ b.outcome = "none" /\ b.key = key
      BY <2>1, <3>1 DEF Posts, Places
    <3>3. /\ LookedUp(c, b) \in Posts /\ LookedUp(c, b).n = b.n
          /\ LookedUp(c, b).outcome = b.outcome
      <4>1. LookedUp(c, b) \in Posts
        BY <3>2, TokenFound DEF TypeInv
      <4>2. LookedUp(c, b).n = b.n /\ LookedUp(c, b).outcome = b.outcome
        BY <3>2 DEF LookedUp, Ready, Posts
      <4> QED BY <4>1, <4>2
    <3> QED BY <2>3, <3>2, <3>3 DEF b
  <2> QED BY <2>2, <2>3 DEF Start
<1>3. post' = [post EXCEPT ![c] = p]
  BY <1>2 DEF Becomes
<1>4. OneRequest'
  BY <1>1 DEF OnceInv, OneRequest
<1>5. ASSUME NEW h \in handlers' PROVE Pending(h)'
  <2>1. h \in handlers /\ Pending(h) /\ h.caller \in Callers /\ h.n \in Nat
    BY <1>1 DEF OnceInv, Handlers
  <2>2. CASE h.caller # c
    BY <1>1, <1>3, <2>1, <2>2 DEF Pending
  <2>3. CASE h.caller = c
    BY <1>1, <1>2, <1>3, <2>1, <2>3 DEF Pending
  <2> QED BY <2>2, <2>3
<1>6. ASSUME NEW d \in Callers PROVE Unscanned(d)'
  <2>1. Unscanned(d)
    BY DEF OnceInv
  <2>2. CASE d # c
    BY <1>1, <1>3, <2>1, <2>2 DEF Unscanned
  <2>3. CASE d = c
    <3>1. p.n \in 1..MaxPosts /\ p.n > post[c].n
      BY <1>1, <1>2
    <3>2. scanned[c][p.n] = 0
      BY <2>1, <2>3, <3>1 DEF Unscanned
    <3>3. \A n \in 1..MaxPosts : n > p.n => scanned[c][n] = 0
      BY <1>1, <1>2, <2>1, <2>3 DEF Unscanned
    <3> QED BY <1>1, <1>2, <1>3, <2>1, <2>3, <3>1, <3>2, <3>3 DEF Unscanned
  <2> QED BY <2>2, <2>3
<1> QED BY <1>4, <1>5, <1>6 DEF OnceInv

LEMMA OnceGoesOn ==
  ASSUME TypeInv, OnceInv, NEW c \in Callers, GoesOn(c), ~Send(c)
  PROVE  OnceInv'
<1> post[c] \in Posts /\ Placed(post[c]) /\ now \in Nat
  BY DEF TypeInv, TypeOK, PlaceInv
<1>1. post[c].outcome = "ok" => post[c].at = "idle"
  BY DEF OnceInv, Unscanned
<1>2. UNCHANGED <<handlers, scanned>>
  BY DEF GoesOn, LookUp, Issued, MintFailed, Store, TimesOut, Wake, serviceVars
<1>3. PICK p \in Posts : /\ Becomes(c, p) /\ p.n = post[c].n
                         /\ p.outcome # "ok" /\ post[c].at # "idle"
                         /\ post[c].at = "sent" => p.at = "idle"
  <2>1. CASE LookUp(c)
    <3> DEFINE p == LookedUp(c, post[c])
    <3>1. post[c].at = "looking" /\ post[c].key \in Keys /\ Becomes(c, p)
      BY <2>1 DEF LookUp, Placed
    <3>2. p \in Posts
      BY <3>1, TokenFound DEF TypeInv
    <3>3. p.n = post[c].n /\ p.outcome = post[c].outcome
      BY DEF LookedUp, Ready, Posts
    <3> QED BY <1>1, <3>1, <3>2, <3>3
  <2>2. CASE Issued(c)
    <3>1. post[c].at = "minting"
      BY <2>2 DEF Issued
    <3>2. post'[c] \in Posts
      BY GoesOnTyped
    <3>3. Becomes(c, post'[c]) /\ post'[c].n = post[c].n /\ post'[c].outcome = post[c].outcome
      <4>1. PICK life \in Lifetimes, kind \in TokenKinds :
              post' = [post EXCEPT ![c] = [post[c] EXCEPT !.at = "issued", !.life = life,
                !.token = [key |-> post[c].key, exp |-> now + life, kind |-> kind]]]
        BY <2>2 DEF Issued, Becomes
      <4> QED BY <4>1 DEF Becomes, TypeInv, TypeOK, Posts
    <3> QED BY <1>1, <3>1, <3>2, <3>3
  <2>3. CASE MintFailed(c) \/ TimesOut(c)
    <3> DEFINE p == NoPost(post[c].n, "failed")
    <3>1. Becomes(c, p) /\ post[c].at # "idle"
      BY <2>3 DEF MintFailed, TimesOut, Ends
    <3>2. p \in Posts /\ p.n = post[c].n /\ p.outcome = "failed" /\ p.at = "idle"
      BY DEF NoPost, Posts, Places, Outcomes
    <3> QED BY <3>1, <3>2
  <2>4. CASE Store(c)
    <3> DEFINE p == Ready(post[c], post[c].token, TRUE)
    <3>1. post[c].at = "issued" /\ post[c].token \in Tokens /\ Becomes(c, p)
      BY <2>4 DEF Store, Placed
    <3>2. p \in Posts
      BY <3>1, InHand DEF TypeInv
    <3>3. p.n = post[c].n /\ p.outcome = post[c].outcome
      BY DEF Ready, Posts
    <3> QED BY <1>1, <3>1, <3>2, <3>3
  <2>5. CASE Wake(c)
    <3> DEFINE p == [post[c] EXCEPT !.at = "ready"]
    <3>1. post[c].at = "sleeping" /\ Becomes(c, p)
      BY <2>5 DEF Wake
    <3>2. p \in Posts /\ p.n = post[c].n /\ p.outcome = post[c].outcome
      BY DEF Posts, Places
    <3> QED BY <1>1, <3>1, <3>2
  <2> QED BY <2>1, <2>2, <2>3, <2>4, <2>5 DEF GoesOn
<1> QED BY <1>2, <1>3, OnceSamePost

LEMMA OnceSend ==
  ASSUME TypeInv, OnceInv, NEW c \in Callers, Send(c)
  PROVE  OnceInv'
<1> PICK p, new : p = [post[c] EXCEPT !.at = "sent"] /\ new = Arrival(c)
  OBVIOUS
<1>1. post \in [Callers -> Posts] /\ handlers \subseteq Handlers /\ post[c] \in Posts
  BY DEF TypeInv, TypeOK
<1>2. /\ post' = [post EXCEPT ![c] = p] /\ handlers' = handlers \cup {new}
      /\ UNCHANGED scanned /\ post[c].at = "ready"
  BY DEF Send, Becomes
<1>3. p \in Posts /\ p.n = post[c].n /\ p.outcome = post[c].outcome /\ p.at = "sent"
  BY <1>1 DEF Posts, Places
<1>4. new.caller = c /\ new.n = post[c].n /\ new.at = "arrived" /\ new.answer = "none"
  BY DEF Arrival
<1>5. \A h \in handlers : h.caller = c => h.n # post[c].n
  BY <1>1, <1>2 DEF OnceInv, Pending, Handlers
<1>6. OneRequest'
  BY <1>2, <1>4, <1>5 DEF OnceInv, OneRequest
<1>7. Unscanned(c) /\ post[c].n \in 1..MaxPosts /\ scanned[c][post[c].n] = 0
  <2>1. Unscanned(c)
    BY DEF OnceInv
  <2>2. post[c].n \in Nat /\ MaxPosts \in Nat
    BY <1>1, ServiceAssumption DEF Posts
  <2> QED BY <1>2, <2>1, <2>2 DEF Unscanned
<1>8. Pending(new)'
  BY <1>1, <1>2, <1>3, <1>4, <1>7 DEF Pending, InFlight
<1>9. ASSUME NEW h \in handlers PROVE Pending(h)'
  <2>1. Pending(h) /\ h.caller \in Callers
    BY <1>1 DEF OnceInv, Handlers
  <2>2. CASE h.caller # c
    BY <1>1, <1>2, <2>1, <2>2 DEF Pending
  <2>3. CASE h.caller = c
    BY <1>1, <1>2, <1>3, <1>5, <2>1, <2>3 DEF Pending
  <2> QED BY <2>2, <2>3
<1>10. ASSUME NEW d \in Callers PROVE Unscanned(d)'
  <2>1. Unscanned(d)
    BY DEF OnceInv
  <2>2. CASE d # c
    BY <1>1, <1>2, <2>1, <2>2 DEF Unscanned
  <2>3. CASE d = c
    <3>1. post'[c] = p /\ scanned' = scanned /\ p.outcome # "ok"
      BY <1>1, <1>2, <1>3, <2>1, <2>3 DEF Unscanned
    <3> QED BY <1>2, <1>3, <2>1, <2>3, <3>1 DEF Unscanned
  <2> QED BY <2>2, <2>3
<1> QED BY <1>2, <1>6, <1>8, <1>9, <1>10 DEF OnceInv

(* A request moves on at the service, without a scan.                       *)
LEMMA OnceMoves ==
  ASSUME TypeInv, OnceInv, NEW h \in handlers, h.at \in InFlight, NEW g \in Handlers,
         g.caller = h.caller, g.n = h.n, g.at \in InFlight \/ g.answer # "ok",
         Moves(h, g), UNCHANGED <<post, scanned>>
  PROVE  OnceInv'
<1>1. Pending(h)
  BY DEF OnceInv
<1>2. Pending(g)'
  BY <1>1 DEF Pending
<1>3. handlers' \subseteq (handlers \ {h}) \cup {g}
  BY DEF Moves
<1>4. OneRequest'
  BY <1>3 DEF OnceInv, OneRequest
<1>5. \A x \in handlers' : Pending(x)'
  BY <1>2, <1>3 DEF OnceInv, Pending
<1>6. \A c \in Callers : Unscanned(c)'
  BY DEF OnceInv, Unscanned
<1> QED BY <1>4, <1>5, <1>6 DEF OnceInv

LEMMA OnceAuthorise ==
  ASSUME TypeInv, OnceInv, NEW h \in handlers, Authorise(h)
  PROVE  OnceInv'
<1>1. h \in Handlers /\ now \in Nat /\ UNCHANGED <<post, scanned>> /\ h.at \in InFlight
  BY DEF TypeInv, TypeOK, Authorise, InFlight, clientVars
<1> DEFINE g == [h EXCEPT !.at = "stamped", !.stamp = now]
           r == Answer(h, "failed", 0)
<1>2. g \in Handlers /\ g.caller = h.caller /\ g.n = h.n /\ g.at = "stamped"
  BY <1>1 DEF Handlers
<1>3. r \in Handlers
  BY AnswerTyped DEF Answers
<1>4. r.caller = h.caller /\ r.n = h.n /\ r.answer = "failed"
  BY <1>1 DEF Answer, Handlers
<1>5. Moves(h, IF Accepted(h.token) THEN g ELSE r)
  BY DEF Authorise
<1> HIDE DEF g, r
<1> QED BY <1>1, <1>2, <1>3, <1>4, <1>5, OnceMoves DEF InFlight

LEMMA OnceAllow ==
  ASSUME TypeInv, OnceInv, NEW h \in handlers, Allow(h)
  PROVE  OnceInv'
<1> DEFINE b == BucketFor(buckets, h.token.key, h.stamp)
           g == [h EXCEPT !.at = "admitted", !.stamp = 0]
           r == Answer(h, "rate_limited", RetryAfter(b))
<1>1. h \in Handlers /\ h.stamp \in Nat /\ UNCHANGED <<post, scanned>> /\ h.at \in InFlight
  BY DEF TypeInv, TypeOK, Allow, InFlight, clientVars, Handlers
<1>2. b \in Buckets
  BY <1>1, BucketShape DEF TypeInv, TypeOK
<1>3. Moves(h, IF Admits(b) THEN g ELSE r)
  BY DEF Allow
<1> HIDE DEF b
<1>4. g \in Handlers /\ g.caller = h.caller /\ g.n = h.n /\ g.at = "admitted"
  BY <1>1 DEF Handlers
<1>5. ~Admits(b) => r \in Handlers
  BY <1>2, WaitSuffices, AnswerTyped DEF Answers
<1>6. r.caller = h.caller /\ r.n = h.n /\ r.answer = "rate_limited"
  BY <1>1 DEF Answer, Handlers
<1> HIDE DEF g, r
<1>7. CASE Admits(b)
  BY <1>1, <1>3, <1>4, <1>7, OnceMoves DEF InFlight
<1>8. CASE ~Admits(b)
  BY <1>1, <1>3, <1>5, <1>6, <1>8, OnceMoves
<1> QED BY <1>7, <1>8

LEMMA OnceScan ==
  ASSUME TypeInv, OnceInv, NEW h \in handlers, Scan(h)
  PROVE  OnceInv'
<1> DEFINE c == h.caller  n == h.n
<1>1. h \in Handlers /\ c \in Callers /\ h.at \in InFlight /\ UNCHANGED post
      /\ scanned \in [Callers -> [1..MaxPosts -> Nat]] /\ handlers \subseteq Handlers
  BY DEF TypeInv, TypeOK, Scan, InFlight, clientVars, Handlers
<1>2. Pending(h) /\ n \in 1..MaxPosts /\ scanned[c][n] = 0
  BY <1>1 DEF OnceInv, Pending
<1>3. scanned' = [scanned EXCEPT ![c][n] = scanned[c][n] + 1]
  BY DEF Scan
<1>4. \A d \in Callers, m \in 1..MaxPosts :
        scanned'[d][m] = IF d = c /\ m = n THEN 1 ELSE scanned[d][m]
  <2> DEFINE f == scanned[c]  g == [f EXCEPT ![n] = f[n] + 1]
  <2>1. f \in [1..MaxPosts -> Nat] /\ f[n] = 0
    BY <1>1, <1>2
  <2>2. scanned' = [scanned EXCEPT ![c] = g]
    BY <1>3
  <2> HIDE DEF f
  <2>3. \A m \in 1..MaxPosts : g[m] = IF m = n THEN 1 ELSE f[m]
    BY <1>2, <2>1
  <2> HIDE DEF g
  <2> QED BY <1>1, <2>2, <2>3 DEF f
<1>5. PICK answer \in {"ok", "failed"} : Moves(h, Answer(h, answer, 0))
  BY DEF Scan
<1> DEFINE g == Answer(h, answer, 0)
<1>6. g.caller = c /\ g.n = n /\ g.at = "answered" /\ g.answer = answer
  BY <1>1 DEF Answer, Handlers
<1>7. handlers' \subseteq (handlers \ {h}) \cup {g}
  BY <1>5 DEF Moves
<1> HIDE DEF g
<1>8. OneRequest'
  BY <1>6, <1>7 DEF OnceInv, OneRequest
<1>9. Pending(g)'
  BY <1>1, <1>2, <1>4, <1>6 DEF Pending, InFlight
<1>10. ASSUME NEW x \in handlers, x # h PROVE Pending(x)'
  <2>1. Pending(x) /\ x.caller \in Callers /\ ~(x.caller = c /\ x.n = n)
    BY <1>1, <1>10 DEF OnceInv, OneRequest, Handlers
  <2>2. scanned'[x.caller][x.n] = scanned[x.caller][x.n]
    BY <1>4, <2>1 DEF Pending
  <2> QED BY <1>1, <2>1, <2>2 DEF Pending
<1>11. ASSUME NEW d \in Callers PROVE Unscanned(d)'
  <2>1. Unscanned(d)
    BY DEF OnceInv
  <2>2. CASE d # c
    <3>1. scanned'[d] = scanned[d]
      BY <1>1, <1>3, <2>2
    <3> QED BY <1>1, <2>1, <3>1 DEF Unscanned
  <2>3. CASE d = c
    <3>1. n <= post[c].n /\ (n = post[c].n => post[c].at \in {"sent", "idle"})
      BY <1>2 DEF Pending
    <3>2. post[c] \in Posts /\ post[c].n \in Nat /\ MaxPosts \in Nat
      BY <1>1, ServiceAssumption DEF TypeInv, TypeOK, Posts
    <3>3. post[c].at # "idle" => post[c].n \in 1..MaxPosts
      BY <2>1, <2>3, <3>2 DEF Unscanned
    <3>4. post[c].at \notin {"sent", "idle"} => scanned'[c][post[c].n] = 0
      BY <1>1, <1>4, <2>1, <2>3, <3>1, <3>3 DEF Unscanned
    <3>5. ASSUME NEW m \in 1..MaxPosts, m > post[c].n PROVE scanned'[c][m] = 0
      <4>1. n \in Nat /\ m # n
        BY <1>2, <3>1, <3>2, <3>5
      <4>2. scanned'[c][m] = scanned[c][m]
        BY <1>1, <1>4, <4>1
      <4> QED BY <2>1, <2>3, <3>5, <4>2 DEF Unscanned
    <3>6. \A m \in 1..MaxPosts : scanned'[c][m] <= 1
      BY <1>1, <1>4, <2>1, <2>3 DEF Unscanned
    <3>7. post[c].outcome = "ok" =>
            post[c].at = "idle" /\ post[c].n >= 1 /\ scanned'[c][post[c].n] = 1
      <4>1. post[c].outcome = "ok" => post[c].n \in 1..MaxPosts /\ scanned[c][post[c].n] = 1
        BY <2>1, <2>3, <3>2 DEF Unscanned
      <4> QED BY <1>1, <1>2, <1>4, <2>1, <2>3, <4>1 DEF Unscanned
    <3> QED BY <1>1, <2>1, <2>3, <3>4, <3>5, <3>6, <3>7 DEF Unscanned
  <2> QED BY <2>2, <2>3
<1> QED BY <1>7, <1>8, <1>9, <1>10, <1>11 DEF OnceInv

LEMMA OnceAnswered ==
  ASSUME TypeInv, OnceInv, NEW h \in handlers, Answered(h)
  PROVE  OnceInv'
<1> DEFINE c == h.caller
<1>1. h \in Handlers /\ c \in Callers /\ h.at = "answered" /\ UNCHANGED scanned
      /\ post \in [Callers -> Posts] /\ handlers' = handlers \ {h} /\ handlers \subseteq Handlers
  BY DEF TypeInv, TypeOK, Answered, Handlers
<1>2. OneRequest'
  BY <1>1 DEF OnceInv, OneRequest
<1>3. CASE ~Waiting(h)
  <2>1. UNCHANGED post
    BY <1>3 DEF Answered
  <2> QED BY <1>1, <1>2, <2>1 DEF OnceInv, Pending, Unscanned
<1>4. CASE Waiting(h)
  <2> PICK p, n : p = Taken(post[c], h) /\ n = h.n
    OBVIOUS
  <2>1. post' = [post EXCEPT ![c] = p]
    BY <1>4 DEF Answered, Becomes
  <2>2. post[c] \in Posts /\ post[c].at = "sent" /\ n = post[c].n /\ Pending(h) /\ n \in Nat
    BY <1>1, <1>4 DEF Waiting, OnceInv, Handlers
  <2>3. /\ p.n = post[c].n /\ p.at \in {"sleeping", "idle"}
        /\ p.at = "sleeping" => h.answer = "rate_limited"
        /\ p.outcome = "ok" => h.answer = "ok" /\ p.at = "idle"
    <3>1. CASE h.answer = "rate_limited" /\ RetryFits(post[c], h.retry)
      <4>1. p = [post[c] EXCEPT !.at = "sleeping", !.retried = TRUE, !.wake = now + h.retry]
        BY <3>1 DEF Taken
      <4>2. post[c].outcome # "ok"
        BY <1>1, <2>2 DEF OnceInv, Unscanned
      <4> QED BY <2>2, <3>1, <4>1, <4>2 DEF Posts
    <3>2. CASE ~(h.answer = "rate_limited" /\ RetryFits(post[c], h.retry))
      <4>1. p = NoPost(post[c].n, IF h.answer = "ok" THEN "ok" ELSE "failed")
        BY <3>2 DEF Taken
      <4> QED BY <4>1 DEF NoPost
    <3> QED BY <3>1, <3>2
  <2>4. \A x \in handlers' : x.caller = c => x.n # n
    BY <1>1 DEF OnceInv, OneRequest
  <2>5. ASSUME NEW x \in handlers' PROVE Pending(x)'
    <3>1. x \in handlers /\ Pending(x) /\ x.caller \in Callers
      BY <1>1 DEF OnceInv, Handlers
    <3>2. CASE x.caller # c
      BY <1>1, <2>1, <3>1, <3>2 DEF Pending
    <3>3. CASE x.caller = c
      BY <1>1, <2>1, <2>2, <2>3, <2>4, <3>1, <3>3 DEF Pending
    <3> QED BY <3>2, <3>3
  <2>6. ASSUME NEW d \in Callers PROVE Unscanned(d)'
    <3>1. Unscanned(d)
      BY DEF OnceInv
    <3>2. CASE d # c
      BY <1>1, <2>1, <3>1, <3>2 DEF Unscanned
    <3>3. CASE d = c
      <4>1. post'[c] = p /\ scanned' = scanned
        BY <1>1, <2>1
      <4>2. h.answer = "rate_limited" => scanned[c][n] = 0
        BY <2>2 DEF Pending
      <4>3. h.answer = "ok" => scanned[c][n] = 1
        BY <1>1, <2>2 DEF Pending, InFlight
      <4>4. n >= 1
        BY <2>2, <3>1, <3>3 DEF Unscanned
      <4> QED BY <2>2, <2>3, <3>1, <3>3, <4>1, <4>2, <4>3, <4>4 DEF Unscanned
    <3> QED BY <3>2, <3>3
  <2> QED BY <1>2, <2>5, <2>6 DEF OnceInv
<1> QED BY <1>3, <1>4

LEMMA OnceStep == TypeInv /\ OnceInv /\ [Next]_vars => OnceInv'
<1> SUFFICES ASSUME TypeInv, OnceInv, [Next]_vars PROVE OnceInv'
  OBVIOUS
<1>1. ASSUME NEW c \in Callers, Start(c) PROVE OnceInv'
  BY <1>1, OnceStart
<1>2. ASSUME NEW c \in Callers, GoesOn(c) PROVE OnceInv'
  BY <1>2, OnceGoesOn, OnceSend
<1>3. ASSUME NEW c \in Callers, Broken(c) PROVE OnceInv'
  <2> PICK p : p = NoPost(post[c].n, "failed")
    OBVIOUS
  <2>1. Becomes(c, p) /\ post[c].at = "sent" /\ post[c] \in Posts
    BY <1>3 DEF Broken, Ends, TypeInv, TypeOK
  <2>2. p \in Posts /\ p.n = post[c].n /\ p.outcome = "failed" /\ p.at = "idle"
    BY <2>1 DEF NoPost, Posts, Places, Outcomes
  <2>3. UNCHANGED <<handlers, scanned>>
    BY <1>3 DEF Broken, serviceVars
  <2> QED BY <2>1, <2>2, <2>3, OnceSamePost
<1>4. ASSUME NEW h \in handlers, Handle(h) PROVE OnceInv'
  BY <1>4, OnceAuthorise, OnceAllow, OnceScan, OnceAnswered DEF Handle
<1>5. CASE Tick \/ UNCHANGED vars
  <2>1. UNCHANGED <<post, handlers, scanned>>
    BY <1>5 DEF Tick, vars, clientVars, serviceVars
  <2> QED BY <2>1 DEF OnceInv, OneRequest, Pending, Unscanned
<1> QED BY <1>1, <1>2, <1>3, <1>4, <1>5 DEF Next

(* The body of a post is scanned at most once, whatever is lost, late or    *)
(* retried, and it was if the post succeeded.                              *)
THEOREM ScannedAtMostOnce == Spec => []ScannedOnce
<1>1. OnceInv => ScannedOnce
  BY DEF OnceInv, Unscanned, ScannedOnce
<1> QED BY TypeInit, TypeStep, OnceInit, OnceStep, <1>1, PTL DEF Spec

=============================================================================
