------------------------- MODULE AgentSessionProofs -------------------------
(***************************************************************************)
(* Theorems about AgentSession for every value of its constants: any       *)
(* world, calls, window, and length of the session.                        *)
(***************************************************************************)
EXTENDS AgentSession, FiniteSetTheorems, WellFoundedInduction, TLAPS

-----------------------------------------------------------------------------
(* Smallest and greatest numbers.                                          *)

LEMMA Least ==
  ASSUME NEW S \in SUBSET Nat, S # {}
  PROVE  Min(S) \in S /\ \A y \in S : Min(S) <= y
<1>1. \E x \in S : \A y \in S : ~(<<y, x>> \in OpToRel(<, Nat))
  BY NatLessThanWellFounded, WFMin
<1>2. PICK x \in S : \A y \in S : ~(<<y, x>> \in OpToRel(<, Nat))
  BY <1>1
<1>3. \A y \in S : ~(y < x)
  BY <1>2, Zenon DEF OpToRel
<1>4. \A y \in S : x =< y
  BY <1>3
<1> QED
  BY <1>4 DEF Min

LEMMA Greatest ==
  ASSUME NEW b \in Nat, NEW S \in SUBSET (0..b), S # {}
  PROVE  Max(S) \in S /\ \A y \in S : Max(S) >= y
<1> DEFINE T == {b - x : x \in S}
<1>1. T \in SUBSET Nat /\ T # {}
  <2>1. \A x \in S : b - x \in Nat
    OBVIOUS
  <2>2. PICK x \in S : TRUE
    OBVIOUS
  <2> QED
    BY <2>1, <2>2
<1>2. PICK m \in T : \A n \in T : m <= n
  <2> HIDE DEF T
  <2> QED
    BY <1>1, Least
<1>3. \E x \in S : \A y \in S : x >= y
  <2>1. PICK x \in S : m = b - x
    BY <1>2
  <2>2. \A y \in S : m <= b - y
    BY <1>2
  <2> QED
    BY <2>1, <2>2
<1> QED
  BY <1>3 DEF Max

LEMMA OfTwo ==
  ASSUME NEW a \in Int, NEW b \in Int
  PROVE  /\ Max({a, b}) = IF a >= b THEN a ELSE b
         /\ Min({a, b}) = IF a <= b THEN a ELSE b
<1>1. /\ \E x \in {a, b} : \A y \in {a, b} : x >= y
      /\ \E x \in {a, b} : \A y \in {a, b} : x =< y
  OBVIOUS
<1> QED
  BY <1>1 DEF Max, Min

-----------------------------------------------------------------------------
(* Claims, and what convergence makes of them.                             *)

Bounded(claims) == \A c \in claims : c.value \in 0..Scale

LEMMA ValueBounded ==
  ASSUME NEW claims, Bounded(claims), NEW signal
  PROVE  ValueOr(claims, signal, 0) \in 0..Scale
<1> DEFINE V == ValuesOf(claims, signal)
<1>1. V \in SUBSET (0..Scale) /\ Scale \in Nat
  BY DEF ValuesOf, Bounded, Scale
<1>2. ValueOr(claims, signal, 0) =
        IF V = {} THEN 0 ELSE IF signal \in ConfidenceSignals THEN Min(V) ELSE Max(V)
  BY DEF ValueOr
<1> HIDE DEF V
<1>3. V # {} => Min(V) \in V
  BY <1>1, Least
<1>4. V # {} => Max(V) \in V
  BY <1>1, Greatest
<1> QED
  <2>1. CASE V = {}
    BY <1>1, <1>2, <2>1
  <2>2. CASE V # {}
    BY <1>1, <1>2, <1>3, <1>4, <2>2
  <2> QED
    BY <2>1, <2>2

LEMMA ValueAtLeast ==
  ASSUME NEW claims, Bounded(claims), NEW c \in claims, c.signal \notin ConfidenceSignals
  PROVE  ValueOr(claims, c.signal, 0) >= c.value
<1> DEFINE V == ValuesOf(claims, c.signal)
<1>1. V \in SUBSET (0..Scale) /\ Scale \in Nat /\ c.value \in V
  BY DEF ValuesOf, Bounded, Scale
<1>2. V # {} => ValueOr(claims, c.signal, 0) = Max(V)
  BY DEF ValueOr
<1> HIDE DEF V
<1> QED
  BY <1>1, <1>2, Greatest

LEMMA ConsequenceBounded ==
  ASSUME NEW claims, Bounded(claims)
  PROVE  /\ Consequence(claims) \in 0..Scale
         /\ \A n \in Nat :
              (\A x \in {"sensitivity", "reach", "irreversibility"} :
                 ValueOr(claims, x, 0) >= n) => Consequence(claims) >= n
<1> DEFINE v(s) == ValueOr(claims, s, 0)
           a == v("sensitivity")
           b == v("reach")
           c == v("irreversibility")
           d == v("self_modification")
           third == (a + b + c) \div 3
<1>1. a \in 0..Scale /\ b \in 0..Scale /\ c \in 0..Scale /\ d \in 0..Scale
  BY ValueBounded
<1>2. Consequence(claims) = Max({third, d})
  BY DEF Consequence
<1> HIDE DEF a, b, c, d
<1>3. third \in 0..Scale /\ \A n \in Nat : a >= n /\ b >= n /\ c >= n => third >= n
  BY <1>1 DEF Scale
<1> HIDE DEF third
<1>4. Consequence(claims) = IF third >= d THEN third ELSE d
  BY <1>1, <1>2, <1>3, OfTwo DEF Scale
<1>5. Consequence(claims) \in 0..Scale /\ Consequence(claims) >= third
  BY <1>1, <1>3, <1>4 DEF Scale
<1>6. ASSUME NEW n \in Nat,
             \A x \in {"sensitivity", "reach", "irreversibility"} : ValueOr(claims, x, 0) >= n
      PROVE  Consequence(claims) >= n
  <2>1. a >= n /\ b >= n /\ c >= n
    BY <1>6 DEF a, b, c
  <2> QED
    BY <1>3, <1>5, <2>1 DEF Scale
<1> QED
  BY <1>5, <1>6

-----------------------------------------------------------------------------
(* What the history, the buffer and the token hold.                        *)

EntryInv(e, i) == e \in Entries /\ e.step = i - 1

HistoryInv ==
  /\ history \in Seq(Entries) /\ Len(history) <= MaxSteps
  /\ \A i \in DOMAIN history : EntryInv(history[i], i)

ReadInv ==
  \A r \in read : r.thing \in Things /\ r.step \in Nat /\ r.step < Len(history)

TokenFields == {"salt", "escalating", "tainted", "untrusted"}

(* What the session has learned is in the token.                            *)
TokenInv ==
  /\ DOMAIN token = TokenFields /\ token.salt = resets /\ resets \in Nat
  /\ learned \subseteq token.untrusted /\ token.untrusted \subseteq Things

(* Where a request's window begins.                                         *)
Off == IF Len(history) > Window THEN Len(history) - Window ELSE 0

LEMMA InWindow ==
  ASSUME HistoryInv
  PROVE  /\ Off \in Nat /\ Off <= Len(history)
         /\ DOMAIN Carried = 1..Len(history) - Off
         /\ \A i \in DOMAIN Carried :
              i + Off \in DOMAIN history /\ Carried[i] = history[i + Off]
<1>1. Len(history) \in Nat /\ DOMAIN history = 1..Len(history) /\ Window \in Nat \ {0}
  BY SessionAssumption DEF HistoryInv
<1>2. Off \in Nat /\ Off <= Len(history)
  BY <1>1 DEF Off
<1>3. Carried = SubSeq(history, Off + 1, Len(history))
  BY <1>1 DEF Carried, Off
<1>4. CASE Off = Len(history)
  BY <1>1, <1>2, <1>3, <1>4 DEF HistoryInv
<1>5. CASE Off < Len(history)
  <2> DEFINE n == Len(history)
             o == Off
  <2>1. n \in Nat /\ o \in Nat /\ o < n
    BY <1>1, <1>2, <1>5
  <2>2. Carried = [i \in 1..(n - (o + 1) + 1) |-> history[o + 1 + i - 1]]
    BY <1>1, <1>3, <2>1 DEF HistoryInv
  <2> HIDE DEF n, o
  <2>3. n - (o + 1) + 1 = n - o /\ \A i \in 1..n - o : o + 1 + i - 1 = i + o /\ i + o \in 1..n
    BY <2>1
  <2>4. DOMAIN Carried = 1..n - o /\ \A i \in 1..n - o : Carried[i] = history[i + o] /\ i + o \in 1..n
    BY <2>2, <2>3
  <2> QED
    BY <1>1, <1>2, <2>4 DEF n, o
<1> QED
  BY <1>2, <1>4, <1>5

LEMMA CarriedEntries ==
  ASSUME HistoryInv
  PROVE  \A i \in DOMAIN Carried : EntryInv(Carried[i], i + Off)
  BY InWindow DEF HistoryInv

-----------------------------------------------------------------------------
(* The claims of the context probe are thousandths.                        *)

LEMMA Weighted ==
  /\ \A roles : RoleWeight(roles) \in {1000, 500, 250}
  /\ \A a \in 0..Scale, w \in {1000, 500, 250} : Times(a, w) \in 0..Scale
  /\ \A w \in {1000, 500, 250} : Times(Scale, w) = w
<1>1. \A roles : RoleWeight(roles) \in {1000, 500, 250}
  BY DEF RoleWeight, Scale
<1>2. ASSUME NEW a \in 0..Scale, NEW w \in {1000, 500, 250}
      PROVE  Times(a, w) \in 0..Scale
  <2>1. a \in Int /\ 0 <= a /\ a <= 1000
    BY DEF Scale
  <2>2. CASE w = 1000
    BY <2>1, <2>2 DEF Times, Scale
  <2>3. CASE w = 500
    BY <2>1, <2>3 DEF Times, Scale
  <2>4. CASE w = 250
    BY <2>1, <2>4 DEF Times, Scale
  <2> QED
    BY <2>2, <2>3, <2>4
<1>3. Times(Scale, 1000) = 1000 /\ Times(Scale, 500) = 500 /\ Times(Scale, 250) = 250
  BY DEF Times, Scale
<1> QED
  BY <1>1, <1>2, <1>3

LEMMA Graded ==
  ASSUME NEW call, NEW entry, NEW salt
  PROVE  GradeOf(call, entry, salt) \in {None} \cup Grades
<1> DEFINE source == Hashes(entry, salt, {"source"})
           destination == Hashes(entry, salt, {"destination", "recipient"})
           code == Hashes(entry, salt, {"code", "executable"})
           src == source \cap InCall(call) # {}
           dst == destination \cap InCall(call) # {}
           p_dst == call.roles["destination"] \cup call.roles["recipient"] # {}
           moved == source # {} /\ destination # {}
           shown == code \cap InCall(call) # {}
           whole == Grade(1000, TRUE)
           most == Grade(800, TRUE)
           less == Grade(500, FALSE)
           half == Grade(500, TRUE)
           g == GradeOf(call, entry, salt)
<1>1. {whole, most, less, half} \subseteq Grades
  BY DEF Grade, Grades
<1>2. g = IF ~(src \/ dst \/ shown) THEN None
          ELSE CASE moved /\ src /\ dst -> whole
                 [] moved /\ src /\ ~dst -> IF p_dst THEN most ELSE less
                 [] moved /\ ~src -> half
                 [] ~moved -> IF call.reads /\ ~shown THEN less ELSE whole
  BY DEF GradeOf
<1> HIDE DEF source, destination, code, src, dst, p_dst, moved, shown, whole, most, less, half, g
<1>3. g \in {None, whole, most, less, half}
  <2>1. CASE ~(src \/ dst \/ shown)
    BY <1>2, <2>1
  <2>2. CASE (src \/ dst \/ shown) /\ moved /\ src /\ dst
    BY <1>2, <2>2
  <2>3. CASE (src \/ dst \/ shown) /\ moved /\ src /\ ~dst
    BY <1>2, <2>3
  <2>4. CASE (src \/ dst \/ shown) /\ moved /\ ~src
    BY <1>2, <2>4
  <2>5. CASE (src \/ dst \/ shown) /\ ~moved
    BY <1>2, <2>5
  <2> QED
    BY <2>1, <2>2, <2>3, <2>4, <2>5
<1> QED
  BY <1>1, <1>3 DEF g

LEMMA Decays ==
  ASSUME NEW v \in {500, 800, 1000}, NEW gap \in Nat \ {0}
  PROVE  /\ Decayed(v, gap) \in 0..Scale
         /\ v = 1000 => Decayed(v, gap) >= 500
<1> DEFINE d == Scale - RetryDecay * (gap - 1)
           m == Max({RetryFloor, d})
<1>1. d \in Int /\ d <= Scale
  BY DEF RetryDecay, Scale
<1> HIDE DEF d
<1>2. m = IF RetryFloor >= d THEN RetryFloor ELSE d
  BY <1>1, OfTwo DEF RetryFloor
<1>3. m \in 500..1000
  BY <1>1, <1>2 DEF RetryFloor, Scale
<1>4. Decayed(v, gap) = (v * m) \div 1000
  BY DEF Decayed, Times, Scale, d
<1> HIDE DEF m
<1>5. CASE v = 500
  <2>1. (500 * m) \div 1000 \in 0..1000
    BY <1>3
  <2> QED
    BY <1>4, <1>5, <2>1 DEF Scale
<1>6. CASE v = 800
  <2>1. (800 * m) \div 1000 \in 0..1000
    BY <1>3
  <2> QED
    BY <1>4, <1>6, <2>1 DEF Scale
<1>7. CASE v = 1000
  <2>1. (1000 * m) \div 1000 \in 500..1000
    BY <1>3
  <2> QED
    BY <1>4, <1>7, <2>1 DEF Scale
<1> QED
  BY <1>5, <1>6, <1>7

(* The retry of a call scores at least what any denied step it repeats      *)
(* makes of it, and carries at least its tier.                              *)
LEMMA RetryScored ==
  ASSUME HistoryInv, NEW call, NEW salt
  PROVE  LET retry == Retry(call, Carried, salt, Step)
             grade(i) == GradeOf(call, Carried[i], salt)
         IN  /\ retry.suspicion \in 0..Scale /\ retry.carried \in 0..Scale
             /\ \A i \in Denied(Carried) : grade(i) # None =>
                  /\ grade(i).value = 1000 => retry.suspicion >= 500
                  /\ grade(i).carries /\ Carried[i].tier # None =>
                       retry.carried >= Carried[i].tier
<1> DEFINE grade(i) == GradeOf(call, Carried[i], salt)
           matches == {i \in Denied(Carried) : grade(i) # None}
           score(i) == Decayed(grade(i).value, Max({1, Step - Carried[i].step}))
           scores == {score(i) : i \in matches}
           best == Max({0} \cup scores)
           tiers == {Carried[i].tier : i \in {j \in matches : grade(j).carries}} \ {None}
           carried == Max({0} \cup tiers)
           more == best + RetryBonus * (Cardinality(matches) - 1)
           retry == Retry(call, Carried, salt, Step)
<1>1. /\ retry.suspicion = IF Cardinality(matches) > 1 THEN Min({Scale, more}) ELSE best
      /\ retry.carried = Min({Scale, Times(carried, RetryCarry)})
  BY DEF Retry
<1>2. matches \subseteq DOMAIN Carried /\ Denied(Carried) \subseteq DOMAIN Carried
  BY DEF Denied
<1>3. ASSUME NEW i \in matches
      PROVE  score(i) \in 0..Scale /\ (grade(i).value = 1000 => score(i) >= 500)
  <2>1. grade(i) \in Grades
    BY Graded
  <2>2. grade(i).value \in {500, 800, 1000}
    BY <2>1 DEF Grades
  <2> DEFINE past == Step - Carried[i].step
             gap == Max({1, past})
  <2>3. past \in Int
    BY <1>2, InWindow, CarriedEntries DEF EntryInv, Entries, Step, HistoryInv
  <2> HIDE DEF past
  <2>4. gap \in Nat \ {0}
    BY <2>3, OfTwo
  <2> QED
    BY <2>2, <2>4, Decays DEF past
<1>4. \A i \in matches : Carried[i].tier \in (0..Scale) \cup {None}
  BY <1>2, CarriedEntries DEF EntryInv, Entries
<1>5. /\ scores \subseteq 0..Scale /\ \A i \in matches : score(i) \in scores
      /\ tiers \subseteq 0..Scale
      /\ \A i \in matches : grade(i).carries /\ Carried[i].tier # None => Carried[i].tier \in tiers
  BY <1>3, <1>4
<1>6. Cardinality(matches) \in Nat
  <2>1. IsFiniteSet(DOMAIN Carried)
    <3> DEFINE n == Len(history) - Off
    <3>1. n \in Int /\ 1 \in Int /\ DOMAIN Carried = 1..n
      BY InWindow DEF HistoryInv
    <3> HIDE DEF n
    <3>2. IsFiniteSet(1..n)
      BY <3>1, FS_Interval
    <3> QED
      BY <3>1, <3>2
  <2> QED
    BY <1>2, <2>1, FS_Subset, FS_CardinalityType
<1> HIDE DEF grade, matches, score, scores, tiers, retry
<1>7. best \in 0..Scale /\ \A x \in scores : best >= x
  <2> DEFINE S == {0} \cup scores
  <2>1. S \in SUBSET (0..Scale) /\ S # {} /\ Scale \in Nat
    BY <1>5 DEF Scale
  <2> HIDE DEF S
  <2>2. Max(S) \in S /\ \A y \in S : Max(S) >= y
    BY <2>1, Greatest
  <2>3. scores \subseteq S /\ best = Max(S)
    BY DEF S
  <2> QED
    BY <2>1, <2>2, <2>3
<1>8. carried \in 0..Scale /\ \A x \in tiers : carried >= x
  <2> DEFINE S == {0} \cup tiers
  <2>1. S \in SUBSET (0..Scale) /\ S # {} /\ Scale \in Nat
    BY <1>5 DEF Scale
  <2> HIDE DEF S
  <2>2. Max(S) \in S /\ \A y \in S : Max(S) >= y
    BY <2>1, Greatest
  <2>3. tiers \subseteq S /\ carried = Max(S)
    BY DEF S
  <2> QED
    BY <2>1, <2>2, <2>3
<1> HIDE DEF best, carried
<1>9. retry.suspicion \in 0..Scale /\ retry.suspicion >= best
  <2>1. CASE Cardinality(matches) > 1
    <3>1. more \in Nat /\ more >= best
      BY <1>6, <1>7, <2>1 DEF RetryBonus, Scale
    <3> HIDE DEF more
    <3>2. retry.suspicion = IF Scale <= more THEN Scale ELSE more
      BY <1>1, <2>1, <3>1, OfTwo DEF Scale
    <3> QED
      BY <1>7, <3>1, <3>2 DEF Scale
  <2>2. CASE ~(Cardinality(matches) > 1)
    BY <1>1, <1>7, <2>2 DEF Scale
  <2> QED
    BY <2>1, <2>2
<1>10. retry.carried = carried
  <2>1. Times(carried, RetryCarry) = carried
    BY <1>8 DEF Times, RetryCarry, Scale
  <2>2. retry.carried = Min({Scale, carried})
    BY <1>1, <2>1
  <2>3. Scale \in Int /\ carried \in Int /\ carried <= Scale
    BY <1>8 DEF Scale
  <2>4. Min({Scale, carried}) = IF Scale <= carried THEN Scale ELSE carried
    BY <2>3, OfTwo
  <2> QED
    BY <2>2, <2>3, <2>4
<1>11. ASSUME NEW i \in Denied(Carried), grade(i) # None
       PROVE  /\ grade(i).value = 1000 => retry.suspicion >= 500
              /\ grade(i).carries /\ Carried[i].tier # None =>
                   retry.carried >= Carried[i].tier
  <2>1. i \in matches
    BY <1>11 DEF matches
  <2> DEFINE n == score(i)
  <2>5. n \in scores
    BY <1>5, <2>1
  <2>6. n \in 0..Scale /\ best >= n
    BY <1>3, <1>7, <2>1, <2>5
  <2> HIDE DEF n
  <2> DEFINE suspicion == retry.suspicion
  <2>8. n \in Int /\ best \in Int /\ suspicion \in Int
    <3>1. Scale \in Int
      BY DEF Scale
    <3>2. suspicion \in 0..Scale
      BY <1>9
    <3>3. best \in 0..Scale
      BY <1>7
    <3> HIDE DEF suspicion
    <3> QED
      BY <2>6, <3>1, <3>2, <3>3
  <2>9. best >= n /\ suspicion >= best
    BY <1>9, <2>6
  <2> HIDE DEF suspicion
  <2>10. suspicion >= n
    BY <2>8, <2>9
  <2>7. retry.suspicion >= n
    BY <2>10 DEF suspicion
  <2>2. retry.suspicion >= score(i)
    BY <2>7 DEF n
  <2>3. score(i) \in 0..Scale /\ (grade(i).value = 1000 => score(i) >= 500)
    BY <1>3, <2>1
  <2>4. grade(i).value = 1000 => retry.suspicion >= 500
    <3> SUFFICES ASSUME grade(i).value = 1000 PROVE retry.suspicion >= 500
      OBVIOUS
    <3>1. n >= 500
      BY <2>3 DEF n
    <3>2. suspicion >= 500
      BY <2>8, <2>10, <3>1
    <3> QED
      BY <3>2 DEF suspicion
  <2> QED
    BY <1>5, <1>8, <1>10, <2>1, <2>4
<1> QED
  BY <1>8, <1>9, <1>10, <1>11 DEF grade, retry

LEMMA OriginBounded ==
  ASSUME NEW call, NEW s
  PROVE  Bounded(OriginClaims(call, s))
<1> DEFINE weight(t) == IF t \in InCall(call) THEN RoleWeight(RolesOf(call, t)) ELSE Scale
           value(t) == IF t \in s.lookalikes THEN Scale ELSE OriginOf(t, s)
<1>1. ASSUME NEW t
      PROVE  value(t) \in 0..Scale
  <2>1. OriginOf(t, s) \in {0, Scale, 400, 100}
    BY DEF OriginOf
  <2> QED
    BY <2>1 DEF Scale
<1>2. ASSUME NEW t
      PROVE  weight(t) \in {1000, 500, 250}
  <2>1. RoleWeight(RolesOf(call, t)) \in {1000, 500, 250}
    BY Weighted
  <2> QED
    BY <2>1 DEF Scale
<1>3. ASSUME NEW c \in OriginClaims(call, s)
      PROVE  \E t : c.value = Times(value(t), weight(t))
  BY <1>3 DEF OriginClaims, Claim
<1> HIDE DEF value, weight
<1> QED
  BY <1>1, <1>2, <1>3, Weighted DEF Bounded

LEMMA LineageBounded ==
  ASSUME NEW call, NEW s
  PROVE  Bounded(LineageClaims(call, s))
<1>1. \A x, v, t : Arm(x, v, t).value = v
  BY DEF Arm, Claim
<1>2. \A c \in FilterClaims(call, s) : c.value \in 0..Scale
  BY <1>1 DEF FilterClaims, Scale
<1> DEFINE moved == UNION {{Arm("irreversibility", Scale, m.source), Arm("reach", 750, m.source),
                               Arm("overreach", 600, m.source)} :
                             m \in {n \in s.movedIn : n.source \notin Scratch}}
           Lost(u) == \E w \in s.listings :
                        /\ "irreplaceable" \in w.content
                        /\ \E p \in w.content \cap Paths : <<p, u>> \in Under
           listed == UNION {{Arm("irreversibility", Scale, t), Arm("overreach", 600, t)} :
                              t \in {u \in call.destroys : Lost(u)}}
           dropped == IF call.drops \cap s.live # {}
                      THEN {Arm("irreversibility", Scale, AnySubject),
                            Arm("overreach", 600, AnySubject)}
                      ELSE {}
           leaked == IF IsSink(call) /\ ~call.request.secret
                     THEN {Arm("overreach", 800, w.path) : w \in {v \in s.sent : "secret" \in v.content}}
                     ELSE {}
           alike == {Arm("concealment", 900, h) : h \in s.lookalikes}
<1>3. LineageClaims(call, s) = moved \cup listed \cup dropped \cup leaked \cup alike \cup FilterClaims(call, s)
  BY Zenon DEF LineageClaims
<1>4. \A c \in moved : c.value \in 0..Scale
  BY <1>1 DEF Scale
<1>5. \A c \in listed : c.value \in 0..Scale
  <2> HIDE DEF Lost
  <2> QED
    BY <1>1 DEF Scale
<1>6. \A c \in dropped \cup leaked \cup alike : c.value \in 0..Scale
  <2>1. \A c \in leaked : \E t : c = Arm("overreach", 800, t)
    OBVIOUS
  <2> HIDE DEF leaked
  <2> QED
    BY <1>1, <2>1 DEF Scale
<1> HIDE DEF moved, listed, dropped, leaked, alike
<1> QED
  BY <1>2, <1>3, <1>4, <1>5, <1>6 DEF Bounded

LEMMA LatestTier ==
  ASSUME HistoryInv, Scored(Carried) # {}
  PROVE  LET latest == Max(Scored(Carried))
         IN  /\ latest \in Scored(Carried) /\ \A i \in Scored(Carried) : latest >= i
             /\ LastTier(Carried) = Carried[latest].tier /\ LastTier(Carried) \in 0..Scale
<1> DEFINE n == Len(history) - Off
<1>1. n \in Nat /\ Scored(Carried) \subseteq 0..n /\ Scored(Carried) \subseteq DOMAIN Carried
  <2>1. Len(history) \in Nat
    BY DEF HistoryInv
  <2> QED
    BY <2>1, InWindow DEF Scored
<1> HIDE DEF n
<1>2. Max(Scored(Carried)) \in Scored(Carried) /\ \A i \in Scored(Carried) : Max(Scored(Carried)) >= i
  BY <1>1, Greatest
<1>3. \A i \in Scored(Carried) : Carried[i].tier \in 0..Scale
  BY <1>1, CarriedEntries DEF EntryInv, Entries, Scored
<1> QED
  BY <1>2, <1>3 DEF LastTier

LEMMA EscalationBounded ==
  ASSUME HistoryInv, NEW call, NEW escalating
  PROVE  Bounded(EscalationClaims(call, Carried, escalating))
<1>1. \A x, v, t : Arm(x, v, t).value = v
  BY DEF Arm, Claim
<1> DEFINE last == LastTier(Carried)
           value == Min({Scale, last + EscalationStep})
<1>2. ASSUME Scored(Carried) # {}
      PROVE  value \in 0..Scale
  <2>1. last \in 0..Scale
    BY <1>2, LatestTier
  <2> HIDE DEF last
  <2> DEFINE next == last + EscalationStep
  <2>2. next \in Nat /\ Scale \in Nat
    BY <2>1 DEF Scale, EscalationStep
  <2> HIDE DEF next
  <2>3. Min({Scale, next}) = IF Scale <= next THEN Scale ELSE next
    BY <2>2, OfTwo
  <2>4. Min({Scale, next}) \in 0..Scale
    BY <2>2, <2>3
  <2> QED
    BY <2>4 DEF next
<1>3. \A c \in EscalationClaims(call, Carried, escalating) :
         Scored(Carried) # {} /\ \E x, t : c = Arm(x, value, t)
  BY DEF EscalationClaims
<1> HIDE DEF value
<1> QED
  BY <1>1, <1>2, <1>3 DEF Bounded

LEMMA RetryBounded ==
  ASSUME HistoryInv, NEW call, NEW salt
  PROVE  Bounded(RetryClaims(call, Carried, salt, Step))
<1>1. \A x, v, t : Arm(x, v, t).value = v
  BY DEF Arm, Claim
<1> DEFINE retry == Retry(call, Carried, salt, Step)
<1>2. \A c \in RetryClaims(call, Carried, salt, Step) :
         \E x, t : c = Arm(x, retry.suspicion, t) \/ c = Arm(x, retry.carried, t)
  BY DEF RetryClaims
<1>3. retry.suspicion \in 0..Scale /\ retry.carried \in 0..Scale
  BY RetryScored
<1> HIDE DEF retry
<1> QED
  BY <1>1, <1>2, <1>3 DEF Bounded

LEMMA ClaimsBounded ==
  ASSUME HistoryInv, NEW call
  PROVE  Bounded(ContextClaims(call))
<1>1. Bounded(OriginClaims(call, Situation(call))) /\ Bounded(LineageClaims(call, Situation(call)))
  BY OriginBounded, LineageBounded
<1>2. /\ Bounded(RetryClaims(call, Carried, token.salt, Step))
      /\ Bounded(EscalationClaims(call, Carried, Escalating))
  BY RetryBounded, EscalationBounded
<1> QED
  BY <1>1, <1>2 DEF ContextClaims, Bounded

(* The tier of a call that may be made is a thousandth.                     *)
LEMMA TierBounded ==
  ASSUME HistoryInv, NEW call \in NextCalls
  PROVE  /\ Bounded(ContextClaims(call) \cup OwnClaims(call))
         /\ Tier(call) \in 0..Scale
<1>1. \A c \in OwnClaims(call) : c.value \in 0..Scale
  BY SessionAssumption DEF OwnClaims, Claim, Calls
<1>2. Bounded(ContextClaims(call) \cup OwnClaims(call))
  BY <1>1, ClaimsBounded DEF Bounded
<1> QED
  BY <1>2, ConsequenceBounded DEF Tier

-----------------------------------------------------------------------------
(* What was shown and not used before is in the untrusted set.              *)

LEMMA LearnedSent ==
  ASSUME HistoryInv, ReadInv
  PROVE  Learned \subseteq learned \cup FromInputs(Carried, SentInputs)
<1> SUFFICES ASSUME NEW q \in SentInputs,
                    \A i \in 1..q.step + 1 : q.thing \notin InCall(history[i].call)
             PROVE  q.thing \in FromInputs(Carried, SentInputs)
  BY DEF Learned
<1> DEFINE t == q.thing
           told == {r.step : r \in {p \in SentInputs : p.thing = t}}
           uses == {Carried[i].step : i \in {j \in DOMAIN Carried : t \in InCall(Carried[j].call)}}
<1>1. told \in SUBSET Nat /\ told # {} /\ q.step \in told /\ q.step \in Nat
  BY DEF ReadInv, SentInputs
<1>2. ASSUME NEW n \in uses
      PROVE  n \in Nat /\ n > q.step
  <2>1. PICK j \in DOMAIN Carried : t \in InCall(Carried[j].call) /\ n = Carried[j].step
    BY <1>2
  <2> DEFINE k == j + Off
  <2>2. k \in DOMAIN history /\ Carried[j] = history[k]
    BY <2>1, InWindow
  <2>3. k \in Nat \ {0} /\ n = k - 1
    <3>1. Carried[j].step = k - 1
      BY <2>1, CarriedEntries DEF EntryInv
    <3>2. DOMAIN history = 1..Len(history) /\ Len(history) \in Nat
      BY DEF HistoryInv
    <3> HIDE DEF k
    <3> QED
      BY <2>1, <2>2, <3>1, <3>2
  <2>4. t \in InCall(history[k].call)
    BY <2>1, <2>2
  <2> HIDE DEF k, t
  <2>5. k \notin 1..q.step + 1
    BY <2>4 DEF t
  <2> QED
    BY <1>1, <2>3, <2>5
<1> HIDE DEF told, uses
<1>3. Min(told) \in Nat /\ Min(told) <= q.step
  BY <1>1, Least
<1>4. uses # {} => Min(uses) \in Nat /\ Min(uses) > q.step
  <2>1. uses \in SUBSET Nat
    BY <1>2
  <2>2. uses # {} => Min(uses) \in uses
    BY <2>1, Least
  <2> QED
    BY <1>2, <2>2
<1>5. FirstUse(Carried, t) = IF uses = {} THEN None ELSE Min(uses)
  BY DEF FirstUse, uses
<1>6. ~AgentFirst(Carried, t, Min(told))
  BY <1>1, <1>3, <1>4, <1>5 DEF AgentFirst
<1>7. t \in {r.thing : r \in SentInputs}
  OBVIOUS
<1> QED
  BY <1>6, <1>7 DEF FromInputs, told

-----------------------------------------------------------------------------
(* What is on disk, seen from the history.                                  *)

RanWrites(h, p) == {i \in WritesOf(h, p) : Ran(h[i].decision)}

Lasting(h, p) ==
  {i \in RanWrites(h, p) :
     \A j \in RanWrites(h, p) : i < j => h[j].call.kind = "file_edit"}

(* A file is what the writes that ran made of it, when they ran in order.   *)
FileInv(h, f, p) ==
  /\ f.by = 0 <=> RanWrites(h, p) = {}
  /\ f.by # 0 => f.by \in RanWrites(h, p)
  /\ f.ordered \in BOOLEAN
  /\ f.ordered =>
       /\ \A i \in RanWrites(h, p) : i <= f.by
       /\ f.content = UNION {h[i].call.content : i \in Lasting(h, p)}

DiskInv == DOMAIN disk = Paths /\ \A p \in Paths : FileInv(history, disk[p], p)

(* A write that runs: the last one if it is in order.                       *)
LEMMA WriteRuns ==
  ASSUME NEW h, NEW g, NEW f, NEW p, NEW k \in Nat \ {0},
         FileInv(h, f, p), RanWrites(h, p) \in SUBSET Nat,
         k \notin RanWrites(h, p), RanWrites(g, p) = RanWrites(h, p) \cup {k},
         \A i \in RanWrites(h, p) : g[i].call = h[i].call
  PROVE  FileInv(g, [content |-> IF g[k].call.kind = "file_edit"
                                 THEN f.content \cup g[k].call.content
                                 ELSE g[k].call.content,
                     by |-> k, ordered |-> f.ordered /\ f.by < k], p)
<1> DEFINE R == RanWrites(h, p)
           n == [content |-> IF g[k].call.kind = "file_edit"
                             THEN f.content \cup g[k].call.content
                             ELSE g[k].call.content,
                 by |-> k, ordered |-> f.ordered /\ f.by < k]
<1>1. n.by = k /\ n.ordered = (f.ordered /\ f.by < k)
  OBVIOUS
<1>2. ASSUME n.ordered
      PROVE  /\ \A i \in RanWrites(g, p) : i <= n.by
             /\ n.content = UNION {g[i].call.content : i \in Lasting(g, p)}
  <2>1. f.ordered /\ \A i \in R : i < k
    <3>1. f.ordered /\ f.by < k /\ \A i \in R : i <= f.by
      BY <1>1, <1>2 DEF FileInv
    <3>2. R = {} \/ f.by \in Nat
      BY DEF FileInv
    <3> QED
      BY <3>1, <3>2
  <2>2. f.content = UNION {h[i].call.content : i \in Lasting(h, p)}
    BY <2>1 DEF FileInv
  <2>3. CASE g[k].call.kind = "file_edit"
    <3>1. Lasting(g, p) = Lasting(h, p) \cup {k}
      BY <2>1, <2>3 DEF Lasting
    <3>2. n.content = f.content \cup g[k].call.content
      BY <2>3
    <3>3. \A i \in Lasting(h, p) : g[i].call.content = h[i].call.content
      BY DEF Lasting
    <3> HIDE DEF n
    <3> QED
      BY <1>1, <2>1, <2>2, <3>1, <3>2, <3>3
  <2>4. CASE g[k].call.kind # "file_edit"
    <3>1. Lasting(g, p) = {k}
      BY <2>1, <2>4 DEF Lasting
    <3>2. n.content = g[k].call.content
      BY <2>4
    <3> HIDE DEF n
    <3> QED
      BY <1>1, <2>1, <3>1, <3>2
  <2> QED
    BY <2>3, <2>4
<1> HIDE DEF n
<1>3. n.by # 0 /\ n.by \in RanWrites(g, p) /\ RanWrites(g, p) # {}
  BY <1>1
<1>4. n.ordered \in BOOLEAN
  BY <1>1
<1>5. FileInv(g, n, p)
  BY <1>2, <1>3, <1>4 DEF FileInv
<1> QED
  BY <1>5 DEF n

(* A file that a step does not write.                                       *)
LEMMA WriteKept ==
  ASSUME NEW h, NEW g, NEW f, NEW p, FileInv(h, f, p),
         RanWrites(g, p) = RanWrites(h, p),
         \A i \in RanWrites(h, p) : g[i].call = h[i].call
  PROVE  FileInv(g, f, p)
<1>1. Lasting(g, p) = Lasting(h, p) /\ \A i \in Lasting(h, p) : g[i].call = h[i].call
  BY DEF Lasting
<1> QED
  BY <1>1 DEF FileInv

(* The disk when the k-th call of a history g is decided.                   *)
LEMMA DiskFollows ==
  ASSUME HistoryInv, DiskInv, NEW g, NEW k \in Nat \ {0},
         DOMAIN g = DOMAIN history \cup {k},
         \A i \in DOMAIN history \ {k} : g[i] = history[i],
         k \in DOMAIN history => ~Ran(history[k].decision),
         disk' = IF Ran(g[k].decision) THEN OnDisk(g[k].call, k) ELSE disk
  PROVE  DOMAIN disk' = Paths /\ \A p \in Paths : FileInv(g, disk'[p], p)
<1> DEFINE call == g[k].call
           written == Ran(g[k].decision) /\ call.kind \in WriteKinds
<1>1. /\ DOMAIN disk = Paths /\ None \notin Paths
      /\ \A p \in Paths : FileInv(history, disk[p], p) /\ RanWrites(history, p) \in SUBSET Nat
  <2>1. DOMAIN history \subseteq Nat
    BY DEF HistoryInv
  <2> QED
    BY <2>1, WorldAssumption DEF DiskInv, Things, RanWrites, WritesOf
<1>2. ASSUME NEW p
      PROVE  /\ k \notin RanWrites(history, p)
             /\ \A i \in RanWrites(history, p) : g[i].call = history[i].call
             /\ RanWrites(g, p) = RanWrites(history, p)
                                   \cup (IF written /\ call.path = p THEN {k} ELSE {})
  <2>1. k \notin RanWrites(history, p)
    BY DEF RanWrites, WritesOf
  <2>2. \A i \in RanWrites(history, p) : i \in DOMAIN history \ {k} /\ g[i] = history[i]
    BY <2>1 DEF RanWrites, WritesOf
  <2>3. \A i \in DOMAIN history \ {k} : i \in RanWrites(g, p) <=> i \in RanWrites(history, p)
    BY DEF RanWrites, WritesOf, Writes
  <2>4. k \in RanWrites(g, p) <=> written /\ call.path = p
    BY DEF RanWrites, WritesOf, Writes
  <2>5. RanWrites(g, p) \subseteq DOMAIN history \cup {k}
    BY DEF RanWrites, WritesOf
  <2> HIDE DEF written, call
  <2> QED
    BY <2>1, <2>2, <2>3, <2>4, <2>5
<1>3. CASE written /\ call.path # None /\ call.path \in Paths
  <2> DEFINE q == call.path
             f == [content |-> IF call.kind = "file_edit"
                               THEN disk[q].content \cup call.content ELSE call.content,
                   by |-> k, ordered |-> disk[q].ordered /\ disk[q].by < k]
  <2>1. disk' = [disk EXCEPT ![q] = f]
    BY <1>3 DEF OnDisk
  <2>2. FileInv(g, f, q)
    <3>1. /\ FileInv(history, disk[q], q) /\ RanWrites(history, q) \in SUBSET Nat
          /\ k \notin RanWrites(history, q) /\ RanWrites(g, q) = RanWrites(history, q) \cup {k}
          /\ \A i \in RanWrites(history, q) : g[i].call = history[i].call
      BY <1>1, <1>2, <1>3
    <3> QED
      BY <3>1, WriteRuns
  <2>3. ASSUME NEW p \in Paths, p # q
        PROVE  FileInv(g, disk[p], p)
    <3>1. /\ FileInv(history, disk[p], p) /\ RanWrites(g, p) = RanWrites(history, p)
          /\ \A i \in RanWrites(history, p) : g[i].call = history[i].call
      BY <1>1, <1>2, <2>3
    <3> QED
      BY <3>1, WriteKept
  <2>4. q \in Paths
    BY <1>3
  <2> HIDE DEF f, q
  <2> QED
    BY <1>1, <2>1, <2>2, <2>3, <2>4
<1>4. CASE ~(written /\ call.path # None /\ call.path \in Paths)
  <2>1. \A p \in Paths : RanWrites(g, p) = RanWrites(history, p)
    BY <1>1, <1>2, <1>4
  <2>2. \A p \in Paths : FileInv(g, disk[p], p)
    BY <1>1, <1>2, <2>1, WriteKept
  <2>3. CASE disk' = disk
    BY <1>1, <2>2, <2>3
  <2>4. CASE disk' # disk
    <3>1. written /\ call.path \notin Paths
      BY <1>4, <2>4 DEF OnDisk
    <3>2. DOMAIN disk' = Paths /\ \A p \in Paths : disk'[p] = disk[p]
      BY <1>1, <3>1 DEF OnDisk
    <3> QED
      BY <2>2, <3>2
  <2> QED
    BY <2>3, <2>4
<1> QED
  BY <1>3, <1>4

-----------------------------------------------------------------------------
(* The invariant.                                                          *)

IInv == HistoryInv /\ ReadInv /\ TokenInv /\ DiskInv

LEMMA Starts == Init => IInv
<1> SUFFICES ASSUME Init PROVE IInv
  OBVIOUS
<1>1. history = <<>> /\ Len(history) = 0 /\ DOMAIN history = {}
  BY DEF Init
<1>2. HistoryInv /\ ReadInv
  BY <1>1, SessionAssumption DEF Init, HistoryInv, ReadInv
<1>3. TokenInv
  BY DEF Init, TokenInv, TokenFields, Fresh
<1>4. \A p : RanWrites(history, p) = {} /\ Lasting(history, p) = {}
  BY <1>1 DEF RanWrites, Lasting, WritesOf
<1>5. DOMAIN disk = Paths /\ \A p \in Paths : disk[p] = NotWritten
  BY DEF Init
<1>6. \A p \in Paths : FileInv(history, disk[p], p)
  <2> DEFINE content(p) == UNION {history[i].call.content : i \in Lasting(history, p)}
  <2>1. \A p : content(p) = {}
    BY <1>4
  <2>2. NotWritten.by = 0 /\ NotWritten.ordered = TRUE /\ NotWritten.content = {}
    BY DEF NotWritten
  <2> QED
    BY <1>4, <1>5, <2>1, <2>2 DEF FileInv
<1> QED
  BY <1>2, <1>3, <1>5, <1>6 DEF IInv, DiskInv

(* An entry that joins the history.                                         *)
LEMMA Appends ==
  ASSUME HistoryInv, DiskInv, NEW e \in Entries, e.step = Step, Step < MaxSteps,
         history' = Append(history, e),
         disk' = IF Ran(e.decision) THEN OnDisk(e.call, Step + 1) ELSE disk
  PROVE  HistoryInv' /\ DiskInv' /\ Len(history') = Len(history) + 1
<1> DEFINE k == Step + 1
<1>1. /\ Len(history) \in Nat /\ DOMAIN history = 1..Len(history) /\ k = Len(history) + 1
      /\ k \in Nat \ {0} /\ MaxSteps \in Nat
  BY SessionAssumption DEF HistoryInv, Step
<1>2. /\ history' \in Seq(Entries) /\ Len(history') = k
      /\ DOMAIN history' = DOMAIN history \cup {k} /\ k \notin DOMAIN history
      /\ history'[k] = e /\ \A i \in DOMAIN history : history'[i] = history[i]
  BY <1>1 DEF HistoryInv
<1> HIDE DEF k
<1>3. HistoryInv'
  <2>1. EntryInv(e, k)
    BY <1>1 DEF EntryInv, Step, k
  <2>2. \A i \in DOMAIN history' : EntryInv(history'[i], i)
    BY <1>2, <2>1 DEF HistoryInv
  <2>3. k <= MaxSteps
    BY <1>1 DEF k, Step
  <2> QED
    BY <1>2, <2>2, <2>3 DEF HistoryInv
<1>4. DiskInv'
  <2> DEFINE g == history'
  <2>1. disk' = IF Ran(g[k].decision) THEN OnDisk(g[k].call, k) ELSE disk
    BY <1>2 DEF k
  <2> QED
    BY <1>1, <1>2, <2>1, DiskFollows DEF DiskInv
<1> QED
  BY <1>1, <1>2, <1>3, <1>4

LEMMA ScanKeeps ==
  ASSUME IInv, NEW call \in Library, NEW decision \in Decisions, Scan(call, decision)
  PROVE  IInv'
<1> DEFINE e == Entry(call, decision, Tier(call), token.salt)
<1> USE DEF IInv
<1>1. e \in Entries /\ e.step = Step /\ e.call = call /\ e.decision = decision
  <2>1. Tier(call) \in 0..Scale
    BY SessionAssumption, TierBounded
  <2>2. token.salt \in Nat /\ Step \in Nat
    BY DEF TokenInv, HistoryInv, Step
  <2>3. call.cut \in BOOLEAN
    BY SessionAssumption DEF Calls
  <2> QED
    BY <2>1, <2>2, <2>3 DEF Entries, Entry
<1>2. history' = Append(history, e) /\ Step < MaxSteps
      /\ disk' = IF Ran(e.decision) THEN OnDisk(e.call, Step + 1) ELSE disk
  BY <1>1 DEF Scan
<1> HIDE DEF e
<1>3. HistoryInv' /\ DiskInv'
  BY <1>1, <1>2, Appends
<1>4. ReadInv'
  BY DEF Scan, ReadInv
<1>5. TokenInv'
  <2> DEFINE shown == FromInputs(Carried, SentInputs)
  <2>1. /\ DOMAIN token' = DOMAIN token /\ token'.salt = token.salt
        /\ token'.untrusted = token.untrusted \cup shown
    BY DEF Scan, TokenInv, TokenFields
  <2>2. learned' \subseteq learned \cup shown /\ resets' = resets
    BY LearnedSent DEF Scan
  <2>3. shown \subseteq Things
    BY DEF FromInputs, SentInputs, ReadInv
  <2> HIDE DEF shown
  <2> QED
    BY <2>1, <2>2, <2>3 DEF TokenInv
<1> QED
  BY <1>3, <1>4, <1>5

LEMMA Forgets ==
  ASSUME TokenInv, Forget
  PROVE  TokenInv'
BY DEF TokenInv, Forget, Fresh, TokenFields

LEMMA ScanFailsKeeps ==
  ASSUME IInv, NEW call \in Library, NEW decision \in Decisions, ScanFails(call, decision)
  PROVE  IInv'
<1> DEFINE e == Entry(call, decision, None, None)
<1> USE DEF IInv
<1>1. e \in Entries /\ e.step = Step /\ e.call = call /\ e.decision = decision
  <2>1. Step \in Nat
    BY DEF HistoryInv, Step
  <2>2. call.cut \in BOOLEAN
    BY SessionAssumption DEF Calls
  <2> QED
    BY <2>1, <2>2 DEF Entries, Entry
<1>2. history' = Append(history, e) /\ Step < MaxSteps
      /\ disk' = IF Ran(e.decision) THEN OnDisk(e.call, Step + 1) ELSE disk
  BY <1>1 DEF ScanFails
<1> HIDE DEF e
<1>3. HistoryInv' /\ DiskInv' /\ Len(history') = Len(history) + 1
  BY <1>1, <1>2, Appends
<1>4. ReadInv'
  BY <1>3 DEF ScanFails, ReadInv, HistoryInv
<1>5. TokenInv'
  BY Forgets DEF ScanFails
<1> QED
  BY <1>3, <1>4, <1>5

LEMMA AnswerKeeps ==
  ASSUME IInv, NEW i \in DOMAIN history, NEW decision \in Decisions, Answer(i, decision)
  PROVE  IInv'
<1> DEFINE g == history'
<1> USE DEF IInv
<1>1. DOMAIN history = 1..Len(history) /\ Len(history) \in Nat /\ i \in Nat \ {0}
  BY DEF HistoryInv
<1>2. /\ g = [history EXCEPT ![i].decision = decision]
      /\ history \in [1..Len(history) -> Entries] /\ history[i] \in Entries
  BY <1>1 DEF Answer, HistoryInv
<1>3. /\ DOMAIN g = DOMAIN history /\ \A j \in DOMAIN history \ {i} : g[j] = history[j]
      /\ g[i] = [history[i] EXCEPT !.decision = decision]
  BY <1>2
<1>4. /\ g[i] \in Entries /\ g[i].step = history[i].step
      /\ g[i].call = history[i].call /\ g[i].decision = decision
  BY <1>2, <1>3 DEF Entries
<1>5. HistoryInv' /\ Len(history') = Len(history)
  <2>1. \A j \in DOMAIN g : g[j] \in Entries /\ EntryInv(g[j], j)
    BY <1>2, <1>3, <1>4 DEF HistoryInv, EntryInv
  <2>2. g = [j \in 1..Len(history) |-> g[j]]
    BY <1>1, <1>2, <1>3
  <2> HIDE DEF g
  <2>3. g \in Seq(Entries) /\ Len(g) = Len(history)
    BY <1>1, <1>3, <2>1, <2>2
  <2> QED
    BY <2>1, <2>3 DEF HistoryInv, g
<1>6. DiskInv'
  <2>1. disk' = IF Ran(g[i].decision) THEN OnDisk(g[i].call, i) ELSE disk
    BY <1>4 DEF Answer
  <2>2. ~Ran(history[i].decision)
    BY DEF Answer, Ran, NotRun
  <2>3. DOMAIN g = DOMAIN history \cup {i}
    BY <1>3
  <2> QED
    BY <1>1, <1>3, <2>1, <2>2, <2>3, DiskFollows DEF DiskInv
<1>7. ReadInv' /\ TokenInv'
  BY <1>5 DEF Answer, ReadInv, TokenInv
<1> QED
  BY <1>5, <1>6, <1>7

LEMMA ResultKeeps ==
  ASSUME IInv, NEW text \in Texts, Result(text)
  PROVE  IInv'
<1> USE DEF IInv
<1>1. HistoryInv' /\ TokenInv' /\ DiskInv'
  BY DEF Result, HistoryInv, TokenInv, DiskInv
<1>2. /\ Step \in Nat \ {0} /\ Step = Len(history) /\ history' = history
      /\ text.thing \in Things
  BY SessionAssumption DEF Result, Step, HistoryInv
<1>3. ReadInv'
  BY <1>2 DEF Result, ReadInv
<1> QED
  BY <1>1, <1>3

LEMMA ResetKeeps ==
  ASSUME IInv, Reset
  PROVE  IInv'
<1> USE DEF IInv
<1>1. HistoryInv' /\ ReadInv' /\ DiskInv'
  BY DEF Reset, HistoryInv, ReadInv, DiskInv
<1>2. TokenInv'
  BY Forgets DEF Reset
<1> QED
  BY <1>1, <1>2

LEMMA Keeps == IInv /\ [Next]_vars => IInv'
<1> SUFFICES ASSUME IInv, [Next]_vars PROVE IInv'
  OBVIOUS
<1>1. CASE UNCHANGED vars
  BY <1>1 DEF vars, IInv, HistoryInv, ReadInv, TokenInv, DiskInv
<1>2. CASE \E call \in Library, decision \in Decisions :
             Scan(call, decision) \/ ScanFails(call, decision)
  BY <1>2, ScanKeeps, ScanFailsKeeps
<1>3. CASE \E i \in DOMAIN history, decision \in Decisions : Answer(i, decision)
  BY <1>3, AnswerKeeps
<1>4. CASE \E text \in Texts : Result(text)
  BY <1>4, ResultKeeps
<1>5. CASE Reset
  BY <1>5, ResetKeeps
<1> QED
  BY <1>1, <1>2, <1>3, <1>4, <1>5 DEF Next

(* The four parts of the invariant hold in every session.                   *)
LEMMA Invariant == Spec => []IInv
  BY Starts, Keeps, PTL DEF Spec

(* The history is one of entries of the session's calls, of its length at   *)
(* most; the token's salt is that of the last reset, and what it and the    *)
(* buffer hold are things.                                                  *)
THEOREM TypeCorrect == Spec => []TypeOK
<1>1. IInv => TypeOK
  BY DEF IInv, HistoryInv, ReadInv, TokenInv, TypeOK
<1> QED
  BY <1>1, Invariant, PTL

-----------------------------------------------------------------------------
(* Retry.                                                                  *)

(* What a call is to itself.                                                *)
Whole == Grade(1000, TRUE)

LEMMA WholeGrade ==
  Whole \in Grades /\ Whole # None /\ Whole.value = 1000 /\ Whole.carries
<1>1. Whole \in Grades /\ Whole.value = 1000 /\ Whole.carries
  BY DEF Whole, Grade, Grades
<1> QED
  BY <1>1, WorldAssumption

(* A call made again is the same action: whole and carried.                 *)
LEMMA SameCallGraded ==
  ASSUME NEW entry, NEW salt, entry.shown \/ entry.salt = salt,
         entry.call.roles \in [Roles -> SUBSET Things],
         InCall(entry.call) # {}, ~entry.call.reads
  PROVE  GradeOf(entry.call, entry, salt) = Whole
<1> DEFINE call == entry.call
           all == InCall(call)
           source == Hashes(entry, salt, {"source"})
           destination == Hashes(entry, salt, {"destination", "recipient"})
           code == Hashes(entry, salt, {"code", "executable"})
           src == source \cap InCall(call) # {}
           dst == destination \cap InCall(call) # {}
           p_dst == call.roles["destination"] \cup call.roles["recipient"] # {}
           moved == source # {} /\ destination # {}
           shown == code \cap InCall(call) # {}
           reads == call.reads
           whole == Grade(1000, TRUE)
           most == Grade(800, TRUE)
           less == Grade(500, FALSE)
           half == Grade(500, TRUE)
           g == GradeOf(call, entry, salt)
<1>1. g = IF ~(src \/ dst \/ shown) THEN None
          ELSE CASE moved /\ src /\ dst -> whole
                 [] moved /\ src /\ ~dst -> IF p_dst THEN most ELSE less
                 [] moved /\ ~src -> half
                 [] ~moved -> IF reads /\ ~shown THEN less ELSE whole
  BY DEF GradeOf
<1>2. source \cup destination \cup code = all
  BY DEF Hashes, InCall, Roles
<1> HIDE DEF source, destination, code, all
<1>3. (moved => src /\ dst) /\ (src \/ dst \/ shown) /\ ~reads
  BY <1>2 DEF all
<1> HIDE DEF src, dst, p_dst, moved, shown, reads, whole, most, less, half, g
<1>4. CASE moved
  <2>1. moved /\ src /\ dst
    BY <1>3, <1>4
  <2>2. g = whole
    BY <1>1, <2>1
  <2> QED
    BY <2>2 DEF g, whole, Whole
<1>5. CASE ~moved
  <2>1. g = IF reads /\ ~shown THEN less ELSE whole
    BY <1>1, <1>3, <1>5
  <2>2. g = whole
    BY <1>3, <2>1
  <2> QED
    BY <2>2 DEF g, whole, Whole
<1> QED
  BY <1>4, <1>5

(* A call made again after a denial that the window still holds, with its   *)
(* arguments or under the same salt, scores as a retry however long ago the *)
(* denial was, and has at least the consequence the denied call had: what   *)
(* _retry_after_denial of probes/context.py promises.                       *)
THEOREM RetriesScore == Spec => []RetriedCallScores
<1>1. IInv => RetriedCallScores
  <2> SUFFICES ASSUME IInv, NEW i \in DOMAIN Carried,
                      Denial(Carried[i].decision), ~Carried[i].call.reads,
                      InCall(Carried[i].call) # {},
                      Carried[i].shown \/ Carried[i].salt = token.salt
               PROVE  LET claims == ContextClaims(Carried[i].call)
                      IN  /\ ValueOr(claims, "retry_after_denial", 0) >= 500
                          /\ Carried[i].tier # None =>
                               \A x \in {"reach", "irreversibility"} :
                                 ValueOr(claims, x, 0) >= Carried[i].tier
    BY DEF RetriedCallScores
  <2> DEFINE entry == Carried[i]
             call == entry.call
             claims == ContextClaims(call)
             retry == Retry(call, Carried, token.salt, Step)
  <2>1. entry \in Entries /\ call \in Calls
    BY CarriedEntries, SessionAssumption DEF IInv, EntryInv, Entries
  <2>2. GradeOf(call, entry, token.salt) = Whole
    <3>1. call.roles \in [Roles -> SUBSET Things]
      BY <2>1 DEF Calls
    <3>2. /\ entry.shown \/ entry.salt = token.salt
          /\ InCall(call) # {} /\ ~call.reads
      OBVIOUS
    <3> HIDE DEF entry
    <3> QED
      BY <3>1, <3>2, SameCallGraded
  <2>3. i \in Denied(Carried)
    BY DEF Denied, Denial
  <2>4. /\ retry.suspicion \in 0..Scale /\ retry.carried \in 0..Scale
        /\ retry.suspicion >= 500 /\ (entry.tier # None => retry.carried >= entry.tier)
    <3>1. GradeOf(call, Carried[i], token.salt) = Whole
      BY <2>2
    <3> HIDE DEF call
    <3> QED
      BY <2>3, <3>1, WholeGrade, RetryScored DEF IInv
  <2>5. Bounded(claims)
    BY ClaimsBounded DEF IInv
  <2>6. /\ Arm("retry_after_denial", retry.suspicion, AnySubject) \in claims
        /\ retry.carried > 0 => \A x \in {"reach", "irreversibility"} :
                                  Arm(x, retry.carried, AnySubject) \in claims
    BY DEF ContextClaims, RetryClaims
  <2>7. \A x, v, t : Arm(x, v, t).signal = x /\ Arm(x, v, t).value = v
    BY DEF Arm, Claim
  <2> HIDE DEF claims, retry
  <2>8. ASSUME NEW x \in {"retry_after_denial", "reach", "irreversibility"}, NEW v,
               Arm(x, v, AnySubject) \in claims
        PROVE  ValueOr(claims, x, 0) >= v
    <3> DEFINE c == Arm(x, v, AnySubject)
    <3>1. c \in claims /\ c.signal = x /\ c.value = v /\ c.signal \notin ConfidenceSignals
      BY <2>7, <2>8 DEF ConfidenceSignals
    <3> HIDE DEF c
    <3>2. ValueOr(claims, c.signal, 0) >= c.value
      BY <2>5, <3>1, ValueAtLeast
    <3> QED
      BY <3>1, <3>2
  <2> DEFINE suspicion == retry.suspicion
             carried == retry.carried
             tier == entry.tier
             score == ValueOr(claims, "retry_after_denial", 0)
  <2>9. score >= 500
    <3>1. score \in 0..Scale
      BY <2>5, ValueBounded
    <3>2. score >= suspicion
      BY <2>6, <2>8
    <3>3. suspicion \in 0..Scale /\ suspicion >= 500
      BY <2>4
    <3> HIDE DEF score, suspicion
    <3> QED
      BY <3>1, <3>2, <3>3 DEF Scale
  <2>10. ASSUME NEW x \in {"reach", "irreversibility"}, entry.tier # None
         PROVE  ValueOr(claims, x, 0) >= tier
    <3> DEFINE v == ValueOr(claims, x, 0)
    <3>1. v \in 0..Scale /\ (carried > 0 => v >= carried)
      BY <2>5, <2>6, <2>8, ValueBounded
    <3>2. tier \in 0..Scale /\ carried \in 0..Scale /\ carried >= tier
      BY <2>1, <2>4, <2>10 DEF Entries
    <3> HIDE DEF v, tier, carried
    <3>3. v \in Nat /\ tier \in Nat /\ carried \in Nat
      BY <3>1, <3>2 DEF Scale
    <3>4. v >= tier
      BY <3>1, <3>2, <3>3
    <3> QED
      BY <3>4 DEF v
  <2> QED
    BY <2>9, <2>10 DEF claims
<1> QED
  BY <1>1, Invariant, PTL

-----------------------------------------------------------------------------
(* Escalation.                                                             *)

(* In a session that escalates, a call with a consequence of its own is at  *)
(* least a step above the last tier that was scored: the ratchet of         *)
(* _escalating and _has_consequence in probes/context.py.                   *)
THEOREM Ratchets == Spec => []EscalationRatchets
<1>1. IInv => EscalationRatchets
  <2> DEFINE scored == {i \in DOMAIN Carried : Carried[i].tier # None}
             latest == CHOOSE i \in scored : \A j \in scored : j <= i
             last == Carried[latest].tier
             next == IF last > Scale - EscalationStep THEN Scale ELSE last + EscalationStep
  <2> SUFFICES ASSUME IInv, Escalating, scored # {},
                      NEW call \in NextCalls, HasConsequence(call)
               PROVE  Tier(call) >= next
    BY DEF EscalationRatchets
  <2> DEFINE claims == ContextClaims(call) \cup OwnClaims(call)
  <2>1. Scored(Carried) = scored
    BY DEF Scored
  <2>2. latest = Max(Scored(Carried))
    <3> DEFINE m == Max(scored)
    <3>1. m \in scored /\ \A i \in scored : m >= i
      BY <2>1, LatestTier DEF IInv
    <3>2. scored \subseteq Nat
      BY InWindow DEF IInv, HistoryInv
    <3> HIDE DEF scored, m
    <3>3. \A i \in scored : (\A j \in scored : j <= i) => i = m
      BY <3>1, <3>2
    <3>4. m \in scored /\ \A j \in scored : j <= m
      BY <3>1, <3>2
    <3> QED
      BY <2>1, <3>3, <3>4 DEF m
  <2>3. last = LastTier(Carried) /\ last \in 0..Scale
    BY <2>1, <2>2, LatestTier DEF IInv
  <2> HIDE DEF scored, latest, last
  <2> DEFINE raised == Min({Scale, last + EscalationStep})
  <2>4. raised = next /\ next \in Nat
    <3> DEFINE more == last + EscalationStep
    <3>1. more \in Nat /\ Scale \in Nat /\ last \in Nat
      BY <2>3 DEF Scale, EscalationStep
    <3>3. next = IF Scale <= more THEN Scale ELSE more
      <4> DEFINE n == last
      <4>1. n \in Nat
        BY <3>1
      <4> HIDE DEF n
      <4>2. (IF n > 1000 - 200 THEN 1000 ELSE n + 200) = (IF 1000 <= n + 200 THEN 1000 ELSE n + 200)
        BY <4>1
      <4> QED
        BY <4>2 DEF n, Scale, EscalationStep
    <3> HIDE DEF more
    <3>2. Min({Scale, more}) = IF Scale <= more THEN Scale ELSE more
      <4>1. more \in Int /\ Scale \in Int
        BY <3>1
      <4> QED
        BY <4>1, OfTwo
    <3>4. next \in Nat
      BY <3>1, <3>3
    <3> QED
      BY <3>2, <3>3, <3>4 DEF more
  <2>5. \A x \in Raised : Arm(x, raised, AnySubject) \in claims
    BY <2>1, <2>3 DEF ContextClaims, EscalationClaims
  <2>6. Bounded(claims)
    BY TierBounded DEF IInv
  <2>7. \A x, v, t : Arm(x, v, t).signal = x /\ Arm(x, v, t).value = v
    BY DEF Arm, Claim
  <2> HIDE DEF claims, raised, next
  <2>8. ASSUME NEW x \in {"sensitivity", "reach", "irreversibility"}
        PROVE  ValueOr(claims, x, 0) >= next
    <3> DEFINE c == Arm(x, raised, AnySubject)
    <3>1. c \in claims /\ c.signal = x /\ c.value = next /\ c.signal \notin ConfidenceSignals
      BY <2>4, <2>5, <2>7 DEF ConfidenceSignals, Raised
    <3> HIDE DEF c
    <3>2. ValueOr(claims, c.signal, 0) >= c.value
      BY <2>6, <3>1, ValueAtLeast
    <3> QED
      BY <3>1, <3>2
  <2>9. Tier(call) = Consequence(claims)
    BY DEF Tier, claims
  <2> QED
    BY <2>4, <2>6, <2>8, <2>9, ConsequenceBounded
<1> QED
  BY <1>1, Invariant, PTL

-----------------------------------------------------------------------------
(* Written files.                                                          *)

(* Writes of the history and of the window, when the window holds them all. *)
LEMMA SameWrites ==
  ASSUME HistoryInv, NEW p, \A i \in WritesOf(history, p) : i > Off
  PROVE  /\ \A i \in WritesOf(history, p) : i - Off \in WritesOf(Carried, p)
         /\ \A i \in WritesOf(Carried, p) : i + Off \in WritesOf(history, p)
<1>1. /\ DOMAIN history = 1..Len(history) /\ Len(history) \in Nat /\ Off \in Nat
      /\ Off <= Len(history)
  BY InWindow DEF HistoryInv
<1>2. ASSUME NEW i \in WritesOf(history, p)
      PROVE  i - Off \in WritesOf(Carried, p)
  <2> DEFINE k == i - Off
  <2>1. i \in DOMAIN history /\ i > Off /\ Writes(history[i], p)
    BY <1>2 DEF WritesOf
  <2>2. k \in 1..(Len(history) - Off) /\ k + Off = i
    BY <1>1, <2>1
  <2>3. k \in DOMAIN Carried
    BY <2>2, InWindow
  <2>4. Carried[k] = history[i]
    BY <2>2, <2>3, InWindow
  <2> QED
    BY <2>1, <2>3, <2>4 DEF WritesOf
<1>3. ASSUME NEW i \in WritesOf(Carried, p)
      PROVE  i + Off \in WritesOf(history, p)
  BY <1>3, InWindow DEF WritesOf
<1> QED
  BY <1>2, <1>3

(* A file that the agent writes is seen with what is in it, when its writes *)
(* are all in the window, all ran, and ran in the order they were asked     *)
(* for: what _find_written of prepare/__init__.py puts together.            *)
THEOREM WritesSeen == Spec => []WrittenContentSeen
<1>1. IInv => WrittenContentSeen
  <2> DEFINE W(p) == WritesOf(history, p)
  <2> SUFFICES ASSUME IInv, NEW p \in Paths, disk[p].by # 0, disk[p].ordered,
                      \A i \in W(p) : i > Len(history) - Window /\ Ran(history[i].decision)
               PROVE  /\ FindWritten(Carried, p) # None
                      /\ disk[p].content \subseteq FindWritten(Carried, p).content
    BY DEF WrittenContentSeen
  <2> USE DEF IInv
  <2> DEFINE V == WritesOf(Carried, p)
             seen == FindWritten(Carried, p)
             newest == Carried[Max(V)]
  <2>1. FileInv(history, disk[p], p)
    BY DEF DiskInv
  <2>2. RanWrites(history, p) = W(p) /\ W(p) # {}
    BY <2>1 DEF RanWrites, FileInv
  <2>3. W(p) \subseteq DOMAIN history /\ V \subseteq DOMAIN Carried
    BY DEF WritesOf
  <2>4. \A i \in W(p) : i > Off
    <3>1. /\ W(p) \subseteq Nat \ {0} /\ Len(history) \in Nat /\ Window \in Nat
          /\ \A i \in W(p) : i > Len(history) - Window
      BY <2>3, SessionAssumption DEF HistoryInv
    <3> HIDE DEF W
    <3> QED
      BY <3>1 DEF Off
  <2>5. /\ \A i \in W(p) : i - Off \in V
        /\ \A i \in V : i + Off \in W(p)
    BY <2>4, SameWrites
  <2>6. /\ DOMAIN history = 1..Len(history) /\ Len(history) \in Nat /\ Off \in Nat
        /\ DOMAIN Carried = 1..Len(history) - Off
        /\ \A i \in DOMAIN Carried : Carried[i] = history[i + Off]
    BY InWindow DEF HistoryInv
  <2>7. V # {}
    BY <2>2, <2>5
  <2>8. newest \in Entries
    <3> DEFINE n == Len(history) - Off
    <3>1. n \in Nat /\ V \subseteq 0..n
      BY <2>3, <2>6, InWindow
    <3> HIDE DEF n, V
    <3>2. Max(V) \in V
      BY <2>7, <3>1, Greatest
    <3> QED
      BY <2>3, <3>2, CarriedEntries DEF EntryInv
  <2>9. seen = [path |-> p, step |-> newest.step,
                content |-> UNION {Carried[i].call.content : i \in Standing(Carried, p)},
                truncated |-> newest.call.cut]
    BY <2>7 DEF FindWritten
  <2>10. \A i \in Standing(Carried, p) : Carried[i].call.content \subseteq Things \cup Marks
    <3>1. \A i \in DOMAIN Carried : Carried[i].call \in Calls
      BY CarriedEntries, SessionAssumption DEF EntryInv, Entries
    <3>2. \A c \in Calls : c.content \subseteq Things \cup Marks
      BY DEF Calls
    <3> QED
      BY <2>3, <3>1, <3>2 DEF Standing
  <2>11. seen # None
    <3>1. newest.step \in Nat /\ newest.call.cut \in BOOLEAN
      BY <2>8, SessionAssumption DEF Entries, Calls
    <3>2. (UNION {Carried[i].call.content : i \in Standing(Carried, p)}) \in SUBSET (Things \cup Marks)
      BY <2>10
    <3> HIDE DEF newest
    <3>3. seen \in WrittenFiles
      BY <2>9, <3>1, <3>2 DEF WrittenFiles
    <3> QED
      BY <3>3, WorldAssumption
  <2>12. ASSUME NEW i \in Lasting(history, p)
         PROVE  /\ i - Off \in Standing(Carried, p)
                /\ history[i].call.content = Carried[i - Off].call.content
    <3> DEFINE k == i - Off
    <3>1. i \in W(p) /\ k \in V /\ k + Off = i /\ i \in Nat
      BY <2>2, <2>3, <2>5, <2>6 DEF Lasting
    <3>2. Carried[k] = history[i]
      BY <2>3, <2>6, <3>1
    <3>3. ASSUME NEW j \in V, k < j
          PROVE  Carried[j].call.kind = "file_edit"
      <4> DEFINE m == j + Off
      <4>1. m \in W(p) /\ Carried[j] = history[m]
        BY <2>3, <2>5, <2>6, <3>3
      <4>2. j \in Nat /\ Off \in Nat /\ i \in Nat /\ i - Off < j
        BY <2>3, <2>6, <3>1, <3>3
      <4>3. i < m
        BY <4>2
      <4> HIDE DEF m
      <4> QED
        BY <2>2, <4>1, <4>3 DEF Lasting
    <3> HIDE DEF k
    <3>4. k \in Standing(Carried, p)
      BY <3>1, <3>3 DEF Standing
    <3> QED
      BY <3>2, <3>4 DEF k
  <2>13. disk[p].content = UNION {history[i].call.content : i \in Lasting(history, p)}
    BY <2>1 DEF FileInv
  <2>14. seen.content = UNION {Carried[i].call.content : i \in Standing(Carried, p)}
    BY <2>9
  <2> HIDE DEF seen
  <2>15. disk[p].content \subseteq seen.content
    BY <2>12, <2>13, <2>14
  <2> QED
    BY <2>11, <2>15 DEF seen
<1> QED
  BY <1>1, Invariant, PTL

-----------------------------------------------------------------------------
(* Untrusted names.                                                        *)

(* Whom content the agent read names is untrusted in every call that        *)
(* reaches them until the token is lost, unless the request spells them:    *)
(* _mark_display_named and _mark_self_copy of prepare/__init__.py never     *)
(* sanction what was read, and _inherit_recipient_domain only the host of   *)
(* an address the request means.                                            *)
THEOREM ReadStaysUntrusted == Spec => []ReadNamesUntrusted
<1>1. IInv => ReadNamesUntrusted
  <2> SUFFICES ASSUME IInv, NEW call \in NextCalls, NEW t \in (InCall(call) \cap Learned) \ Paths,
                      t \notin call.request.verbatim,
                      t \notin {DomainOf[p] : p \in People \cap Meant(call.request, call.copy)}
               PROVE  Claim("context", "untrusted_origin", RoleWeight(RolesOf(call, t)), t)
                        \in ContextClaims(call)
    BY DEF ReadNamesUntrusted
  <2> USE DEF IInv
  <2> DEFINE s == Situation(call)
             named == NamedInRequest(call, s.entities, s.untrusted)
             weight == RoleWeight(RolesOf(call, t))
  <2>1. /\ s.untrusted = token.untrusted \cup FromInputs(Carried, SentInputs)
        /\ s.sanctioned = Sanctioned(call, s.entities, s.untrusted)
        /\ InCall(call) \subseteq s.entities
    BY DEF Situation
  <2>2. t \in s.untrusted /\ t \in s.entities
    BY <2>1, LearnedSent DEF TokenInv
  <2> HIDE DEF s
  <2>3. t \notin named
    BY <2>2 DEF NamedInRequest
  <2>4. named \cup call.request.verbatim \subseteq Meant(call.request, call.copy)
    BY DEF NamedInRequest, Meant
  <2>5. t \notin s.sanctioned
    BY <2>1, <2>3, <2>4 DEF Sanctioned
  <2>6. OriginOf(t, s) = Scale
    BY <2>2, <2>5 DEF OriginOf
  <2>7. weight \in {1000, 500, 250} /\ Times(Scale, weight) = weight
    <3> HIDE DEF weight
    <3>1. weight \in {1000, 500, 250}
      BY Weighted DEF weight
    <3> QED
      BY <3>1, Weighted
  <2>8. Claim("context", "untrusted_origin",
              Times(IF t \in s.lookalikes THEN Scale ELSE OriginOf(t, s),
                    IF t \in InCall(call) THEN weight ELSE Scale), t) \in OriginClaims(call, s)
    BY <2>2 DEF OriginClaims
  <2>9. Claim("context", "untrusted_origin", weight, t) \in OriginClaims(call, s)
    <3> HIDE DEF weight
    <3>1. Times(IF t \in s.lookalikes THEN Scale ELSE OriginOf(t, s),
                IF t \in InCall(call) THEN weight ELSE Scale) = weight
      BY <2>6, <2>7
    <3> QED
      BY <2>8, <3>1
  <2> QED
    BY <2>9 DEF ContextClaims, s
<1> QED
  BY <1>1, Invariant, PTL

=============================================================================
