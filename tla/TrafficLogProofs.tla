-------------------------- MODULE TrafficLogProofs --------------------------
(***************************************************************************)
(* Theorems about TrafficLog and History for every value of the constants: *)
(* any instances, sizes, chunks, budgets, and any number of scans and of   *)
(* writes that are cut off. A record has its own line; the backward reader *)
(* returns the lines it should; what history shows is what the two files   *)
(* held when the reading began, and what it says of a call is what         *)
(* happened to it.                                                         *)
(***************************************************************************)
EXTENDS TrafficLog, FiniteSetTheorems, TLAPS

-----------------------------------------------------------------------------
(* Numbers.                                                                *)

(* A non-empty set of numbers has a least element.                          *)
LEMMA Least ==
  ASSUME NEW T, T \subseteq Nat, T # {}
  PROVE  \E n \in T : \A m \in T : n <= m
<1>1. PICK n \in T : \A m \in T : ~(<<m, n>> \in OpToRel(<, Nat))
  BY NatLessThanWellFounded, WFMin
<1>2. \A m \in T : ~(m < n)
  BY <1>1 DEF OpToRel
<1> QED
  BY <1>2

(* Induction, as a fact about sets: one with 0 and every successor has all  *)
(* numbers.                                                                *)
LEMMA Counting ==
  ASSUME NEW A, 0 \in A, \A n \in Nat : n \in A => n + 1 \in A
  PROVE  \A n \in Nat : n \in A
<1> SUFFICES ASSUME NEW k \in Nat, k \notin A PROVE FALSE
  OBVIOUS
<1> DEFINE missing == {n \in Nat : n \notin A}
<1>1. PICK n \in missing : \A m \in missing : n <= m
  <2>1. missing \subseteq Nat /\ missing # {}
    OBVIOUS
  <2> HIDE DEF missing
  <2> QED
    BY <2>1, Least
<1>2. n - 1 \in Nat /\ n - 1 \notin missing /\ n - 1 + 1 = n
  BY <1>1
<1> QED
  BY <1>1, <1>2

(* Max and Min of a set of numbers that does not grow without bound.        *)
LEMMA MaxFacts ==
  ASSUME NEW bound \in Nat, NEW S, S \subseteq 0..bound, S # {}
  PROVE  Max(S) \in S /\ \A x \in S : x <= Max(S)
<1> DEFINE T == {n \in Nat : bound - n \in S}
<1>1. T \subseteq Nat /\ T # {}
  <2>1. PICK x \in S : x \in 0..bound
    OBVIOUS
  <2>2. bound - x \in Nat /\ bound - (bound - x) = x
    BY <2>1
  <2>3. bound - x \in T
    BY <2>2
  <2> QED
    BY <2>3
<1>2. PICK n \in T : \A m \in T : n <= m
  <2> HIDE DEF T
  <2> QED
    BY <1>1, Least
<1>3. ASSUME NEW x \in S
      PROVE  bound - n >= x
  <2>1. x \in Int /\ bound - x \in Nat /\ bound - (bound - x) = x
    BY <1>3
  <2>2. bound - x \in T
    BY <1>3, <2>1
  <2>3. n <= bound - x /\ n \in Nat
    BY <1>2, <2>2
  <2> QED
    BY <2>1, <2>3
<1>4. bound - n \in S
  BY <1>2
<1> HIDE DEF T
<1>5. \E z \in S : \A x \in S : z >= x
  BY <1>3, <1>4
<1>6. Max(S) \in S /\ \A x \in S : Max(S) >= x
  BY <1>5 DEF Max
<1>7. \A x \in S : x \in Nat
  OBVIOUS
<1> QED
  BY <1>6, <1>7

-----------------------------------------------------------------------------
(* The folds of History, from the left over a sequence.                    *)

SplitFold == [of |-> "split"]
ReadFold(text, chunk) == [of |-> "read", text |-> text, chunk |-> chunk]
KeepFold == [of |-> "keep"]
ShowFold(limit, matches) == [of |-> "show", limit |-> limit, matches |-> matches]

Applied(fold, acc, x) ==
  IF fold.of = "split" THEN AddByte(acc, x)
  ELSE IF fold.of = "read" THEN ReadChunk(fold.text, fold.chunk, acc)
  ELSE IF fold.of = "keep" THEN KeepRecord(acc, x)
  ELSE TakeRecord(acc, x, fold.limit, fold.matches)

(* What the fold makes of the positions in s, given what it makes of fewer. *)
Step(fold, base, q, g, s) ==
  IF s = {} THEN base
  ELSE Applied(fold, g[s \ {Max(s)}], q[Max(s)])

Iter(fold, base, q) == CHOOSE g : g = [s \in SUBSET DOMAIN q |-> Step(fold, base, q, g, s)]

(* A sequence of n elements.                                               *)
Long(q, n) == n \in Nat /\ DOMAIN q = 1..n

(* What it makes of the first n elements.                                  *)
Upto(fold, base, q, n) == Iter(fold, base, q)[1..n]

LEMMA SplitIter ==
  ASSUME NEW text
  PROVE  Split(text) = Iter(SplitFold, << <<>> >>, text)[DOMAIN text]
  BY DEF Split, FoldLeft, MapThenFoldSet, Iter, Step, Applied, SplitFold

Start(text, budget) == [pos |-> Len(text), left |-> budget, head |-> <<>>, lines |-> <<>>]
Turns(text) == [i \in 1..Len(text) |-> i]

LEMMA ReadIter ==
  ASSUME NEW text, NEW chunk, NEW budget
  PROVE  LET end == Iter(ReadFold(text, chunk), Start(text, budget), Turns(text))[DOMAIN Turns(text)]
         IN  LinesBackward(text, chunk, budget) =
               [lines |-> IF end.pos = 0 THEN Append(end.lines, end.head) ELSE end.lines,
                left |-> end.left]
  BY DEF LinesBackward, FoldLeft, MapThenFoldSet, Iter, Step, Applied, ReadFold, Start, Turns

LEMMA KeepIter ==
  ASSUME NEW lines
  PROVE  Parsed(lines) = Iter(KeepFold, <<>>, lines)[DOMAIN lines]
  BY DEF Parsed, FoldLeft, MapThenFoldSet, Iter, Step, Applied, KeepFold

LEMMA ShowIter ==
  ASSUME NEW records, NEW limit, NEW matches
  PROVE  RecentScans(records, limit, matches) =
           Iter(ShowFold(limit, matches), [resolved |-> {}, seen |-> {}, shown |-> <<>>],
                records)[DOMAIN records].shown
  BY DEF RecentScans, FoldLeft, MapThenFoldSet, Iter, Step, Applied, ShowFold

LEMMA IterExists ==
  ASSUME NEW fold, NEW base, NEW q, NEW n \in Nat, DOMAIN q = 1..n
  PROVE  \A s \in SUBSET DOMAIN q :
           Iter(fold, base, q)[s] = Step(fold, base, q, Iter(fold, base, q), s)
<1> DEFINE Within(k) == {s \in SUBSET DOMAIN q : s \subseteq 1..k}
           A == {k \in Nat : \E g : g = [s \in Within(k) |-> Step(fold, base, q, g, s)]}
<1>1. ASSUME NEW s \in SUBSET DOMAIN q, s # {}
      PROVE  Max(s) \in s /\ \A x \in s : x <= Max(s)
  <2>1. s \subseteq 0..n
    OBVIOUS
  <2> QED
    BY <1>1, <2>1, MaxFacts
<1>2. 0 \in A
  <2> DEFINE none == <<>>
             g == [s \in Within(0) |-> Step(fold, base, q, none, s)]
  <2>1. \A s \in Within(0) : s = {}
    OBVIOUS
  <2>2. \A h, s : s = {} => Step(fold, base, q, h, s) = base
    BY DEF Step
  <2>3. \A s \in Within(0) : Step(fold, base, q, g, s) = Step(fold, base, q, none, s)
    <3> HIDE DEF g, none, Within
    <3> QED
      BY <2>1, <2>2
  <2>4. g = [s \in Within(0) |-> Step(fold, base, q, g, s)]
    <3> HIDE DEF Within
    <3> QED
      BY <2>3
  <2> QED
    BY <2>4
<1>3. ASSUME NEW k \in Nat, k \in A
      PROVE  k + 1 \in A
  <2>1. PICK g : g = [s \in Within(k) |-> Step(fold, base, q, g, s)]
    BY <1>3
  <2> DEFINE h == [s \in Within(k + 1) |-> Step(fold, base, q, g, s)]
  <2>2. ASSUME NEW s \in Within(k + 1)
        PROVE  Step(fold, base, q, h, s) = Step(fold, base, q, g, s)
    <3>1. CASE s = {}
      BY <3>1 DEF Step
    <3>2. CASE s # {}
      <4> DEFINE x == Max(s)
      <4>1. x \in s /\ \A y \in s : y <= x
        BY <1>1, <3>2
      <4> HIDE DEF x
      <4>2. s \ {x} \in Within(k) /\ s \ {x} \in Within(k + 1)
        <5>1. s \subseteq 1..(k + 1) /\ s \subseteq DOMAIN q
          OBVIOUS
        <5>2. s \ {x} \subseteq 1..k
          <6> SUFFICES ASSUME NEW y \in s, y # x PROVE y \in 1..k
            OBVIOUS
          <6>1. y \in 1..(k + 1) /\ x \in 1..(k + 1) /\ y <= x
            BY <4>1, <5>1
          <6> QED
            BY <6>1
        <5> QED
          BY <5>1, <5>2
      <4>3. h[s \ {x}] = g[s \ {x}]
        BY <2>1, <4>2
      <4> HIDE DEF h, Within
      <4> QED
        BY <3>2, <4>3 DEF Step, x
    <3> QED
      BY <3>1, <3>2
  <2>3. h = [s \in Within(k + 1) |-> Step(fold, base, q, h, s)]
    BY <2>2
  <2>4. k + 1 \in Nat
    OBVIOUS
  <2> HIDE DEF h, Within
  <2> QED
    BY <2>3, <2>4
<1> HIDE DEF A
<1>4. n \in A
  BY <1>2, <1>3, Counting
<1>5. Within(n) = SUBSET DOMAIN q
  OBVIOUS
<1>6. \E g : g = [s \in SUBSET DOMAIN q |-> Step(fold, base, q, g, s)]
  BY <1>4, <1>5 DEF A
<1>7. Iter(fold, base, q) = [s \in SUBSET DOMAIN q |-> Step(fold, base, q, Iter(fold, base, q), s)]
  BY <1>6 DEF Iter
<1> HIDE DEF Within
<1> QED
  BY <1>7

(* One application for every element.                                       *)
Unrolls(fold, base, q, n) ==
  /\ Upto(fold, base, q, 0) = base
  /\ \A k \in 1..n :
       Upto(fold, base, q, k) = Applied(fold, Upto(fold, base, q, k - 1), q[k])

LEMMA UptoFacts ==
  ASSUME NEW fold, NEW base, NEW q, NEW n, Long(q, n)
  PROVE  Unrolls(fold, base, q, n) /\ Iter(fold, base, q)[DOMAIN q] = Upto(fold, base, q, n)
<1> DEFINE g == Iter(fold, base, q)
<1>0. n \in Nat /\ DOMAIN q = 1..n
  BY DEF Long
<1>1. \A s \in SUBSET DOMAIN q : g[s] = Step(fold, base, q, g, s)
  BY <1>0, IterExists
<1> HIDE DEF g
<1>2. g[1..0] = base
  <2>1. 1..0 = {}
    OBVIOUS
  <2> QED
    BY <1>1, <2>1 DEF Step
<1>3. ASSUME NEW k \in 1..n
      PROVE  g[1..k] = Applied(fold, g[1..(k - 1)], q[k])
  <2>0. k \in Nat /\ k >= 1 /\ k <= n
    BY <1>0
  <2>1. 1..k \in SUBSET DOMAIN q /\ 1..k # {} /\ 1..k \subseteq 0..n /\ k \in 1..k
    <3>1. k \in 1..k
      BY <2>0
    <3>2. 1..k \subseteq 1..n /\ 1..k \subseteq 0..n
      BY <1>0, <2>0
    <3> QED
      BY <1>0, <3>1, <3>2
  <2>2. Max(1..k) = k
    <3>1. Max(1..k) \in 1..k /\ \A x \in 1..k : x <= Max(1..k)
      BY <1>0, <2>1, MaxFacts
    <3> QED
      BY <2>0, <2>1, <3>1
  <2>3. (1..k) \ {k} = 1..(k - 1)
    OBVIOUS
  <2> QED
    BY <1>1, <2>1, <2>2, <2>3 DEF Step
<1> QED
  BY <1>0, <1>2, <1>3 DEF Upto, Unrolls, g

(* The first elements alone decide.                                        *)
LEMMA UptoPrefix ==
  ASSUME NEW fold, NEW base, NEW q, NEW n, Long(q, n),
         NEW p, NEW m, Long(p, m)
  PROVE  1..m \subseteq 1..n /\ (\A i \in 1..m : p[i] = q[i])
           => Upto(fold, base, p, m) = Upto(fold, base, q, m)
<1>0. Unrolls(fold, base, p, m) /\ Unrolls(fold, base, q, n)
  BY UptoFacts
<1> HAVE 1..m \subseteq 1..n /\ \A i \in 1..m : p[i] = q[i]
<1> DEFINE A == {k \in Nat : k <= m => Upto(fold, base, p, k) = Upto(fold, base, q, k)}
<1>1. m \in Nat /\ n \in Nat
  BY DEF Long
<1>2. 0 \in A
  BY <1>0 DEF Unrolls
<1>3. ASSUME NEW k \in Nat, k \in A
      PROVE  k + 1 \in A
  <2> SUFFICES ASSUME k + 1 <= m
               PROVE  Upto(fold, base, p, k + 1) = Upto(fold, base, q, k + 1)
    OBVIOUS
  <2>1. k + 1 \in 1..m /\ k + 1 \in 1..n /\ k + 1 - 1 = k /\ p[k + 1] = q[k + 1]
    BY <1>1
  <2>2. Upto(fold, base, p, k + 1) = Applied(fold, Upto(fold, base, p, k), p[k + 1])
    BY <1>0, <2>1 DEF Unrolls
  <2>3. Upto(fold, base, q, k + 1) = Applied(fold, Upto(fold, base, q, k), q[k + 1])
    BY <1>0, <2>1 DEF Unrolls
  <2> QED
    BY <1>1, <1>3, <2>1, <2>2, <2>3
<1> HIDE DEF A
<1>4. m \in A
  BY <1>1, <1>2, <1>3, Counting
<1> QED
  BY <1>4 DEF A

-----------------------------------------------------------------------------
(* A file in lines.                                                        *)

LEMMA SplitEmpty == Split(<<>>) = << <<>> >>
<1> DEFINE none == <<>>
<1>1. Long(none, 0)
  BY DEF Long
<1> HIDE DEF none
<1>2. Split(none) = Iter(SplitFold, << <<>> >>, none)[DOMAIN none]
  BY SplitIter
<1>3. Iter(SplitFold, << <<>> >>, none)[DOMAIN none] = Upto(SplitFold, << <<>> >>, none, 0)
  BY <1>1, UptoFacts
<1>4. Unrolls(SplitFold, << <<>> >>, none, 0)
  BY <1>1, UptoFacts
<1> QED
  BY <1>2, <1>3, <1>4 DEF none, Unrolls

LEMMA SplitAppend ==
  ASSUME NEW T, NEW q \in Seq(T), NEW x \in T
  PROVE  Split(Append(q, x)) = AddByte(Split(q), x)
<1> DEFINE p == Append(q, x)
           n == Len(q)
           base == << <<>> >>
<1>1. n \in Nat /\ 1..n \subseteq 1..(n + 1) /\ p[n + 1] = x /\ \A i \in 1..n : q[i] = p[i]
  OBVIOUS
<1>2. Long(q, n) /\ Long(p, n + 1)
  BY DEF Long
<1> HIDE DEF p, n, base
<1>3. Split(q) = Upto(SplitFold, base, q, n) /\ Split(p) = Upto(SplitFold, base, p, n + 1)
  <2>1. Split(q) = Iter(SplitFold, base, q)[DOMAIN q] /\ Split(p) = Iter(SplitFold, base, p)[DOMAIN p]
    BY SplitIter DEF base
  <2> QED
    BY <1>2, <2>1, UptoFacts
<1>4. Upto(SplitFold, base, q, n) = Upto(SplitFold, base, p, n)
  BY <1>1, <1>2, UptoPrefix
<1>5. Upto(SplitFold, base, p, n + 1) = AddByte(Upto(SplitFold, base, p, n), x)
  <2>1. n + 1 \in 1..(n + 1) /\ n + 1 - 1 = n
    BY <1>1
  <2>2. Unrolls(SplitFold, base, p, n + 1)
    BY <1>2, UptoFacts
  <2>3. SplitFold.of = "split"
    BY DEF SplitFold
  <2> QED
    BY <1>1, <2>1, <2>2, <2>3 DEF Applied, Unrolls
<1> QED
  BY <1>3, <1>4, <1>5 DEF p

(* Two sequences with the same elements are one.                            *)
LEMMA SameSeq ==
  ASSUME NEW T, NEW p \in Seq(T), NEW q \in Seq(T), Len(p) = Len(q),
         \A i \in 1..Len(p) : p[i] = q[i]
  PROVE  p = q
  OBVIOUS

LEMMA ConcatAppend ==
  ASSUME NEW T, NEW p \in Seq(T), NEW q \in Seq(T), NEW x \in T
  PROVE  p \o Append(q, x) = Append(p \o q, x)
  OBVIOUS

(* Induction over a sequence, as a fact about sets.                         *)
LEMMA Appending ==
  ASSUME NEW T, NEW A, <<>> \in A, \A q \in Seq(T), x \in T : q \in A => Append(q, x) \in A
  PROVE  \A q \in Seq(T) : q \in A
<1> DEFINE B == {n \in Nat : \A q \in Seq(T) : Len(q) = n => q \in A}
<1>1. 0 \in B
  <2>1. \A q \in Seq(T) : Len(q) = 0 => q = <<>>
    OBVIOUS
  <2> QED
    BY <2>1
<1>2. ASSUME NEW n \in Nat, n \in B
      PROVE  n + 1 \in B
  <2>1. ASSUME NEW q \in Seq(T), Len(q) = n + 1
        PROVE  q \in A
    <3> DEFINE p == SubSeq(q, 1, n)
    <3>1. p \in Seq(T) /\ Len(p) = n /\ q[n + 1] \in T /\ \A i \in 1..n : p[i] = q[i]
      BY <2>1
    <3> HIDE DEF p
    <3>2. Append(p, q[n + 1]) = q
      <4> DEFINE r == Append(p, q[n + 1])
      <4>1. r \in Seq(T) /\ Len(r) = n + 1 /\ r[n + 1] = q[n + 1] /\ \A i \in 1..n : r[i] = p[i]
        BY <3>1
      <4> HIDE DEF r
      <4>2. \A i \in 1..(n + 1) : r[i] = q[i]
        BY <3>1, <4>1
      <4>3. r = q
        BY <2>1, <4>1, <4>2, SameSeq
      <4> QED
        BY <4>3 DEF r
    <3> QED
      BY <1>2, <3>1, <3>2
  <2> QED
    BY <2>1
<1> HIDE DEF B
<1>3. \A n \in Nat : n \in B
  BY <1>1, <1>2, Counting
<1> QED
  BY <1>3 DEF B

(* The lines go on after the last line of the one with the first of the     *)
(* other.                                                                  *)
Join(x, y) ==
  [i \in 1..(Len(x) + Len(y) - 1) |->
     IF i < Len(x) THEN x[i]
     ELSE IF i = Len(x) THEN x[i] \o y[1] ELSE y[i - Len(x) + 1]]

LEMMA JoinType ==
  ASSUME NEW T, NEW x \in Seq(Seq(T)), NEW y \in Seq(Seq(T)), x # <<>>, y # <<>>
  PROVE  /\ Join(x, y) \in Seq(Seq(T))
         /\ Len(Join(x, y)) = Len(x) + Len(y) - 1
         /\ Join(x, y) # <<>>
         /\ \A i \in 1..(Len(x) - 1) : Join(x, y)[i] = x[i]
         /\ Join(x, y)[Len(x)] = x[Len(x)] \o y[1]
         /\ \A i \in (Len(x) + 1)..(Len(x) + Len(y) - 1) : Join(x, y)[i] = y[i - Len(x) + 1]
<1> DEFINE n == Len(x) + Len(y) - 1
<1>1. Len(x) \in Nat \ {0} /\ Len(y) \in Nat \ {0} /\ n \in Nat \ {0} /\ Len(x) \in 1..n
  OBVIOUS
<1>2. ASSUME NEW i \in 1..n
      PROVE  /\ i < Len(x) => x[i] \in Seq(T)
             /\ i = Len(x) => x[i] \o y[1] \in Seq(T)
             /\ i > Len(x) => y[i - Len(x) + 1] \in Seq(T)
  <2>1. i < Len(x) => i \in 1..Len(x)
    BY <1>1
  <2>2. i = Len(x) => x[i] \in Seq(T) /\ y[1] \in Seq(T)
    BY <1>1
  <2>3. i > Len(x) => i - Len(x) + 1 \in 1..Len(y)
    BY <1>1
  <2> QED
    BY <2>1, <2>2, <2>3
<1>3. \A i \in 1..n : Join(x, y)[i] \in Seq(T)
  <2> SUFFICES ASSUME NEW i \in 1..n PROVE Join(x, y)[i] \in Seq(T)
    OBVIOUS
  <2>1. Join(x, y)[i] = IF i < Len(x) THEN x[i]
                        ELSE IF i = Len(x) THEN x[i] \o y[1] ELSE y[i - Len(x) + 1]
    BY DEF Join
  <2>2. i < Len(x) \/ i = Len(x) \/ i > Len(x)
    BY <1>1
  <2> QED
    BY <1>1, <1>2, <2>1, <2>2
<1>4. DOMAIN Join(x, y) = 1..n /\ Join(x, y) = [i \in 1..n |-> Join(x, y)[i]]
  BY DEF Join
<1>5. Join(x, y) \in Seq(Seq(T)) /\ Len(Join(x, y)) = n /\ Join(x, y) # <<>>
  <2> DEFINE j == Join(x, y)
  <2>1. j \in [1..n -> Seq(T)]
    <3> HIDE DEF n
    <3> QED
      BY <1>3, <1>4
  <2> HIDE DEF j
  <2>2. j \in Seq(Seq(T)) /\ Len(j) = n /\ j # <<>>
    <3> HIDE DEF n
    <3> QED
      BY <1>1, <2>1
  <2> QED
    BY <2>2 DEF j
<1>6. \A i \in 1..n : Join(x, y)[i] = IF i < Len(x) THEN x[i]
                        ELSE IF i = Len(x) THEN x[i] \o y[1] ELSE y[i - Len(x) + 1]
  BY DEF Join
<1>7. \A i \in 1..(Len(x) - 1) : Join(x, y)[i] = x[i]
  <2> SUFFICES ASSUME NEW i \in 1..(Len(x) - 1) PROVE Join(x, y)[i] = x[i]
    OBVIOUS
  <2>1. i \in 1..n /\ i < Len(x)
    BY <1>1
  <2> QED
    BY <1>6, <2>1
<1>8. Join(x, y)[Len(x)] = x[Len(x)] \o y[1]
  <2>1. ~(Len(x) < Len(x))
    BY <1>1
  <2> QED
    BY <1>1, <1>6, <2>1
<1>9. \A i \in (Len(x) + 1)..n : Join(x, y)[i] = y[i - Len(x) + 1]
  <2> SUFFICES ASSUME NEW i \in (Len(x) + 1)..n PROVE Join(x, y)[i] = y[i - Len(x) + 1]
    OBVIOUS
  <2>1. i \in 1..n /\ ~(i < Len(x)) /\ i # Len(x)
    BY <1>1
  <2> QED
    BY <1>6, <2>1
<1> QED
  BY <1>5, <1>7, <1>8, <1>9

(* The same as one fact about the result.                                  *)
Joined(T, x, y, j) ==
  /\ j \in Seq(Seq(T)) /\ j # <<>> /\ Len(j) = Len(x) + Len(y) - 1
  /\ \A i \in 1..(Len(x) - 1) : j[i] = x[i]
  /\ j[Len(x)] = x[Len(x)] \o y[1]
  /\ \A i \in (Len(x) + 1)..(Len(x) + Len(y) - 1) : j[i] = y[i - Len(x) + 1]

LEMMA JoinFacts ==
  ASSUME NEW T, NEW x \in Seq(Seq(T)), NEW y \in Seq(Seq(T)), x # <<>>, y # <<>>
  PROVE  Joined(T, x, y, Join(x, y))
<1> DEFINE j == Join(x, y)
<1>1. /\ j \in Seq(Seq(T)) /\ j # <<>> /\ Len(j) = Len(x) + Len(y) - 1
      /\ \A i \in 1..(Len(x) - 1) : j[i] = x[i]
      /\ j[Len(x)] = x[Len(x)] \o y[1]
      /\ \A i \in (Len(x) + 1)..(Len(x) + Len(y) - 1) : j[i] = y[i - Len(x) + 1]
  BY JoinType
<1> HIDE DEF j
<1>2. Joined(T, x, y, j)
  BY <1>1 DEF Joined
<1> QED
  BY <1>2 DEF j

LEMMA AddByteType ==
  ASSUME NEW T, NEW x \in Seq(Seq(T)), x # <<>>, NEW c \in T
  PROVE  /\ AddByte(x, c) \in Seq(Seq(T)) /\ AddByte(x, c) # <<>>
         /\ c = NewLine => /\ Len(AddByte(x, c)) = Len(x) + 1
                           /\ \A i \in 1..Len(x) : AddByte(x, c)[i] = x[i]
                           /\ AddByte(x, c)[Len(x) + 1] = <<>>
         /\ c # NewLine => /\ Len(AddByte(x, c)) = Len(x)
                           /\ \A i \in 1..(Len(x) - 1) : AddByte(x, c)[i] = x[i]
                           /\ AddByte(x, c)[Len(x)] = Append(x[Len(x)], c)
<1>1. CASE c = NewLine
  <2>1. AddByte(x, c) = Append(x, <<>>)
    BY <1>1 DEF AddByte
  <2>2. <<>> \in Seq(T)
    OBVIOUS
  <2> HIDE DEF NewLine
  <2> QED
    BY <1>1, <2>1, <2>2
<1>2. CASE c # NewLine
  <2>1. AddByte(x, c) = [x EXCEPT ![Len(x)] = Append(x[Len(x)], c)]
    BY <1>2 DEF AddByte
  <2>2. Len(x) \in 1..Len(x) /\ Append(x[Len(x)], c) \in Seq(T)
    OBVIOUS
  <2> HIDE DEF NewLine
  <2> QED
    BY <1>2, <2>1, <2>2
<1> QED
  BY <1>1, <1>2

LEMMA SplitType ==
  ASSUME NEW T, NEW q \in Seq(T)
  PROVE  Split(q) \in Seq(Seq(T)) /\ Split(q) # <<>>
<1> DEFINE A == {p \in Seq(T) : Split(p) \in Seq(Seq(T)) /\ Split(p) # <<>>}
<1>1. <<>> \in A
  <2>1. << <<>> >> \in Seq(Seq(T)) /\ << <<>> >> # <<>> /\ <<>> \in Seq(T)
    OBVIOUS
  <2> QED
    BY <2>1, SplitEmpty
<1>2. ASSUME NEW p \in Seq(T), NEW x \in T, p \in A
      PROVE  Append(p, x) \in A
  <2>1. Split(Append(p, x)) = AddByte(Split(p), x)
    BY SplitAppend
  <2>2. AddByte(Split(p), x) \in Seq(Seq(T)) /\ AddByte(Split(p), x) # <<>>
    BY <1>2, AddByteType
  <2> QED
    BY <2>1, <2>2
<1> HIDE DEF A
<1>3. q \in A
  BY <1>1, <1>2, Appending
<1> QED
  BY <1>3 DEF A

LEMMA JoinAdd ==
  ASSUME NEW T, NEW x \in Seq(Seq(T)), NEW y \in Seq(Seq(T)), x # <<>>, y # <<>>, NEW c \in T
  PROVE  AddByte(Join(x, y), c) = Join(x, AddByte(y, c))
<1> DEFINE j == Join(x, y)
           z == AddByte(y, c)
           left == AddByte(j, c)
           right == Join(x, z)
           n == Len(x)
           m == Len(y)
<1>1. /\ j \in Seq(Seq(T)) /\ j # <<>> /\ Len(j) = n + m - 1
      /\ \A i \in 1..(n - 1) : j[i] = x[i]
      /\ j[n] = x[n] \o y[1]
      /\ \A i \in (n + 1)..(n + m - 1) : j[i] = y[i - n + 1]
  BY JoinType
<1>2. /\ z \in Seq(Seq(T)) /\ z # <<>>
      /\ c = NewLine => Len(z) = m + 1 /\ (\A i \in 1..m : z[i] = y[i]) /\ z[m + 1] = <<>>
      /\ c # NewLine => Len(z) = m /\ (\A i \in 1..(m - 1) : z[i] = y[i]) /\ z[m] = Append(y[m], c)
  BY AddByteType
<1> HIDE DEF j, z
<1>3. /\ left \in Seq(Seq(T))
      /\ c = NewLine => /\ Len(left) = n + m
                        /\ \A i \in 1..(n + m - 1) : left[i] = j[i]
                        /\ left[n + m] = <<>>
      /\ c # NewLine => /\ Len(left) = n + m - 1
                        /\ \A i \in 1..(n + m - 2) : left[i] = j[i]
                        /\ left[n + m - 1] = Append(j[n + m - 1], c)
  <2>1. n \in Nat /\ m \in Nat
    OBVIOUS
  <2>2. /\ left \in Seq(Seq(T))
        /\ c = NewLine => /\ Len(left) = Len(j) + 1
                          /\ \A i \in 1..Len(j) : left[i] = j[i]
                          /\ left[Len(j) + 1] = <<>>
        /\ c # NewLine => /\ Len(left) = Len(j)
                          /\ \A i \in 1..(Len(j) - 1) : left[i] = j[i]
                          /\ left[Len(j)] = Append(j[Len(j)], c)
    BY <1>1, AddByteType
  <2>3. Len(j) + 1 = n + m /\ Len(j) - 1 = n + m - 2 /\ Len(j) = n + m - 1
    BY <1>1, <2>1
  <2> HIDE DEF n, m, NewLine, left
  <2>4. CASE c = NewLine
    BY <2>2, <2>3, <2>4
  <2>5. CASE c # NewLine
    BY <2>2, <2>3, <2>5
  <2> QED
    BY <2>4, <2>5
<1>4. /\ right \in Seq(Seq(T)) /\ Len(right) = n + Len(z) - 1
      /\ \A i \in 1..(n - 1) : right[i] = x[i]
      /\ right[n] = x[n] \o z[1]
      /\ \A i \in (n + 1)..(n + Len(z) - 1) : right[i] = z[i - n + 1]
  <2>1. Joined(T, x, z, right)
    BY <1>2, JoinFacts
  <2> HIDE DEF right
  <2> QED
    BY <2>1 DEF Joined
<1>5. n \in Nat \ {0} /\ m \in Nat \ {0} /\ x[n] \in Seq(T) /\ y[1] \in Seq(T) /\ y[m] \in Seq(T)
  OBVIOUS
<1> HIDE DEF left, right, n, m, NewLine
<1>e. Len(right) \in Nat /\ Len(left) \in Nat
  BY <1>3, <1>4
<1>6. CASE c = NewLine
  <2>0. Len(z) = m + 1 /\ Len(left) = n + m /\ Len(right) = n + Len(z) - 1
    BY <1>2, <1>3, <1>4, <1>6
  <2>1. Len(left) = Len(right) /\ Len(left) = n + m
    BY <1>5, <2>0
  <2>2. ASSUME NEW i \in 1..(n + m)
        PROVE  left[i] = right[i]
    <3>1. CASE i < n
      <4>1. i \in 1..(n - 1) /\ i \in 1..(n + m - 1)
        BY <1>5, <3>1
      <4> QED
        BY <1>1, <1>3, <1>4, <1>6, <4>1
    <3>2. CASE i = n
      <4>1. i \in 1..(n + m - 1) /\ 1 \in 1..m
        BY <1>5, <3>2
      <4>2. left[i] = x[n] \o y[1] /\ z[1] = y[1]
        BY <1>1, <1>2, <1>3, <1>6, <3>2, <4>1
      <4> QED
        BY <1>4, <3>2, <4>2
    <3>3. CASE i > n /\ i <= n + m - 1
      <4>1. /\ i \in (n + 1)..(n + m - 1) /\ i \in 1..(n + m - 1) /\ i - n + 1 \in 1..m
            /\ i \in (n + 1)..(n + Len(z) - 1)
        BY <1>2, <1>5, <1>6, <3>3
      <4> QED
        BY <1>1, <1>2, <1>3, <1>4, <1>6, <4>1
    <3>4. CASE i = n + m
      <4>1. i \in (n + 1)..(n + Len(z) - 1) /\ i - n + 1 = m + 1
        BY <1>5, <2>0, <3>4
      <4>2. left[n + m] = <<>> /\ z[m + 1] = <<>>
        BY <1>2, <1>3, <1>6
      <4>3. right[i] = z[m + 1]
        BY <1>4, <4>1
      <4> QED
        BY <3>4, <4>2, <4>3
    <3>5. i < n \/ i = n \/ (i > n /\ i <= n + m - 1) \/ i = n + m
      BY <1>5
    <3> QED
      BY <3>1, <3>2, <3>3, <3>4, <3>5
  <2>3. \A i \in 1..Len(left) : left[i] = right[i]
    BY <2>1, <2>2
  <2>4. left = right
    BY <1>3, <1>4, <2>1, <2>3, SameSeq
  <2> QED
    BY <2>4 DEF left, right, j, z
<1>7. CASE c # NewLine
  <2>1. Len(left) = Len(right) /\ Len(left) = n + m - 1
    BY <1>2, <1>3, <1>4, <1>5, <1>7
  <2>2. ASSUME NEW i \in 1..(n + m - 1)
        PROVE  left[i] = right[i]
    <3>1. CASE i < n
      <4>1. i \in 1..(n - 1) /\ i \in 1..(n + m - 2)
        BY <1>5, <3>1
      <4> QED
        BY <1>1, <1>3, <1>4, <1>7, <4>1
    <3>2. CASE i = n /\ m > 1
      <4>1. i \in 1..(n + m - 2) /\ 1 \in 1..(m - 1)
        BY <1>5, <3>2
      <4>2. left[i] = x[n] \o y[1] /\ z[1] = y[1]
        BY <1>1, <1>2, <1>3, <1>7, <3>2, <4>1
      <4> QED
        BY <1>4, <3>2, <4>2
    <3>3. CASE i = n /\ m = 1
      <4>1. n + m - 1 = n /\ m = 1
        BY <1>5, <3>3
      <4>2. left[i] = Append(x[n] \o y[1], c) /\ right[i] = x[n] \o Append(y[1], c)
        <5>1. left[n] = Append(j[n], c) /\ j[n] = x[n] \o y[1]
          BY <1>1, <1>3, <1>7, <4>1
        <5>2. right[n] = x[n] \o z[1] /\ z[1] = Append(y[1], c)
          BY <1>2, <1>4, <1>7, <4>1
        <5>3. left[i] = left[n] /\ right[i] = right[n]
          BY <3>3
        <5> QED
          BY <5>1, <5>2, <5>3
      <4>3. x[n] \o Append(y[1], c) = Append(x[n] \o y[1], c)
        <5>1. x[n] \in Seq(T) /\ y[1] \in Seq(T)
          BY <1>5
        <5>2. \A p, q \in Seq(T) : p \o Append(q, c) = Append(p \o q, c)
          BY ConcatAppend
        <5>3. \A p, q : p \in Seq(T) /\ q \in Seq(T) => p \o Append(q, c) = Append(p \o q, c)
          BY <5>2
        <5> QED
          BY <5>1, <5>3, Zenon
      <4> QED
        BY <4>2, <4>3
    <3>4. CASE i > n /\ i < n + m - 1
      <4>1. /\ i \in (n + 1)..(n + m - 1) /\ i \in 1..(n + m - 2) /\ i - n + 1 \in 1..(m - 1)
            /\ i \in (n + 1)..(n + Len(z) - 1)
        BY <1>2, <1>5, <1>7, <3>4
      <4> QED
        BY <1>1, <1>2, <1>3, <1>4, <1>7, <4>1
    <3>5. CASE i > n /\ i = n + m - 1
      <4>1. i \in (n + 1)..(n + m - 1) /\ i \in (n + 1)..(n + Len(z) - 1) /\ i - n + 1 = m
        BY <1>2, <1>5, <1>7, <3>5
      <4> QED
        BY <1>1, <1>2, <1>3, <1>4, <1>7, <3>5, <4>1
    <3> QED
      BY <1>5, <3>1, <3>2, <3>3, <3>4, <3>5
  <2>3. \A i \in 1..Len(left) : left[i] = right[i]
    BY <2>1, <2>2
  <2>4. left = right
    BY <1>3, <1>4, <2>1, <2>3, SameSeq
  <2> QED
    BY <2>4 DEF left, right, j, z
<1> QED
  BY <1>6, <1>7

LEMMA SplitConcat ==
  ASSUME NEW T, NEW a \in Seq(T), NEW b \in Seq(T)
  PROVE  Split(a \o b) = Join(Split(a), Split(b))
<1> DEFINE A == {p \in Seq(T) : Split(a \o p) = Join(Split(a), Split(p))}
           x == Split(a)
<1>0. x \in Seq(Seq(T)) /\ x # <<>>
  BY SplitType
<1>1. <<>> \in A
  <2>1. a \o <<>> = a
    OBVIOUS
  <2> DEFINE y == << <<>> >>
  <2>2. y \in Seq(Seq(T)) /\ y # <<>> /\ Len(y) = 1 /\ y[1] = <<>>
    OBVIOUS
  <2> HIDE DEF x, y
  <2>7. Len(x) \in Nat /\ Len(x) + Len(y) - 1 = Len(x)
    BY <1>0, <2>2
  <2>3. /\ Join(x, y) \in Seq(Seq(T)) /\ Len(Join(x, y)) = Len(x)
        /\ \A i \in 1..(Len(x) - 1) : Join(x, y)[i] = x[i]
        /\ Join(x, y)[Len(x)] = x[Len(x)] \o <<>>
    <3>1. /\ Join(x, y) \in Seq(Seq(T)) /\ Len(Join(x, y)) = Len(x) + Len(y) - 1
          /\ \A i \in 1..(Len(x) - 1) : Join(x, y)[i] = x[i]
          /\ Join(x, y)[Len(x)] = x[Len(x)] \o y[1]
      BY <1>0, <2>2, JoinType
    <3> QED
      BY <2>2, <2>7, <3>1
  <2>4. x[Len(x)] \o <<>> = x[Len(x)]
    BY <1>0
  <2>5. \A i \in 1..Len(x) : Join(x, y)[i] = x[i]
    BY <1>0, <2>3, <2>4
  <2>6. Join(x, y) = x
    BY <1>0, <2>3, <2>5, SameSeq
  <2> QED
    BY <2>1, <2>6, SplitEmpty DEF x, y
<1>2. ASSUME NEW p \in Seq(T), NEW c \in T, p \in A
      PROVE  Append(p, c) \in A
  <2>1. a \o Append(p, c) = Append(a \o p, c) /\ a \o p \in Seq(T) /\ Append(p, c) \in Seq(T)
    OBVIOUS
  <2>2. Split(Append(a \o p, c)) = AddByte(Split(a \o p), c) /\ Split(Append(p, c)) = AddByte(Split(p), c)
    BY <2>1, SplitAppend
  <2>3. Split(p) \in Seq(Seq(T)) /\ Split(p) # <<>>
    BY SplitType
  <2>4. AddByte(Join(x, Split(p)), c) = Join(x, AddByte(Split(p), c))
    BY <1>0, <2>3, JoinAdd
  <2> QED
    BY <1>2, <2>1, <2>2, <2>4
<1> HIDE DEF A
<1>3. b \in A
  BY <1>1, <1>2, Appending
<1> QED
  BY <1>3 DEF A

Symbols == [kind : Kinds \cup {"newline"}, rid : Nat, part : Nat]

LEMMA ByteFacts ==
  /\ NewLine \in Symbols
  /\ \A rec \in Records(Nat), n \in Nat : Byte(rec, n) \in Symbols
  /\ \A rec, n : n # 0 => Byte(rec, n) # NewLine
<1>1. \A rec, n : Byte(rec, n).part = n
  BY DEF Byte
<1>2. NewLine.part = 0
  BY DEF NewLine
<1>3. NewLine \in Symbols
  BY DEF NewLine, Symbols, Kinds
<1>4. \A rec \in Records(Nat), n \in Nat : Byte(rec, n) \in Symbols
  BY DEF Byte, Symbols, Records, Kinds
<1> QED
  BY <1>1, <1>2, <1>3, <1>4

LEMMA LastFacts ==
  ASSUME NEW T, NEW q \in Seq(T), NEW x \in T
  PROVE  /\ Last(Append(q, x)) = x /\ Append(q, x) # <<>>
         /\ Torn(Append(q, x)) <=> x # NewLine
<1>1. Last(Append(q, x)) = x /\ Append(q, x) # <<>>
  BY DEF Last
<1> QED
  BY <1>1 DEF Torn

(* The line that is begun at the end of a file that is not torn is empty.   *)
LEMMA LastEmpty ==
  ASSUME NEW T, NEW q \in Seq(T), ~Torn(q)
  PROVE  Split(q)[Len(Split(q))] = <<>>
<1> DEFINE A == {p \in Seq(T) : ~Torn(p) => Split(p)[Len(Split(p))] = <<>>}
<1>1. <<>> \in A
  <2> DEFINE x == << <<>> >>
  <2>1. x[Len(x)] = <<>> /\ <<>> \in Seq(T)
    OBVIOUS
  <2> HIDE DEF x
  <2> QED
    BY <2>1, SplitEmpty DEF x
<1>2. ASSUME NEW p \in Seq(T), NEW x \in T, p \in A
      PROVE  Append(p, x) \in A
  <2>1. SUFFICES ASSUME x = NewLine
                 PROVE  Split(Append(p, x))[Len(Split(Append(p, x)))] = <<>>
    BY LastFacts
  <2>2. Split(Append(p, x)) = AddByte(Split(p), x) /\ Split(p) \in Seq(Seq(T)) /\ Split(p) # <<>>
    BY SplitAppend, SplitType
  <2>3. Len(AddByte(Split(p), x)) = Len(Split(p)) + 1 /\ AddByte(Split(p), x)[Len(Split(p)) + 1] = <<>>
    BY <2>1, <2>2, AddByteType
  <2> QED
    BY <2>2, <2>3
<1> HIDE DEF A
<1>3. q \in A
  BY <1>1, <1>2, Appending
<1> QED
  BY <1>3 DEF A

(* A record with its newline, from the beginning of a line.                 *)
Framed(text, rec) ==
  \E pre, post \in Seq(Symbols) :
    ~Torn(pre) /\ text = (pre \o (Line(rec) \o <<NewLine>>)) \o post

LEMMA PairAppend ==
  ASSUME NEW T, NEW s \in T, NEW t \in T
  PROVE  Append(<<s>>, t) = <<s, t>>
<1> DEFINE p == Append(<<s>>, t)
           q == <<s, t>>
<1>1. p \in Seq(T) /\ Len(p) = 2 /\ p[1] = s /\ p[2] = t
  OBVIOUS
<1>2. q \in Seq(T) /\ Len(q) = 2 /\ q[1] = s /\ q[2] = t
  OBVIOUS
<1> HIDE DEF p, q
<1>3. \A i \in 1..2 : i = 1 \/ i = 2
  OBVIOUS
<1>4. \A i \in 1..Len(p) : p[i] = q[i]
  BY <1>1, <1>2, <1>3
<1>5. p = q
  BY <1>1, <1>2, <1>4, SameSeq
<1> QED
  BY <1>5 DEF p, q

LEMMA SplitLine ==
  ASSUME NEW rec \in Records(Nat)
  PROVE  /\ Line(rec) \o <<NewLine>> \in Seq(Symbols)
         /\ Split(Line(rec) \o <<NewLine>>) = <<Line(rec), <<>> >>
<1> DEFINE a == Byte(rec, 1)
           b == Byte(rec, 2)
<1>1. a \in Symbols /\ b \in Symbols /\ NewLine \in Symbols /\ a # NewLine /\ b # NewLine
  BY ByteFacts
<1>2. Line(rec) = <<a, b>>
  BY DEF Line
<1> HIDE DEF a, b
<1>3. /\ <<>> \in Seq(Symbols) /\ <<a>> \in Seq(Symbols) /\ <<a, b>> \in Seq(Symbols)
      /\ Append(<<>>, a) = <<a>> /\ Append(<<a>>, b) = <<a, b>>
      /\ <<a, b>> \o <<NewLine>> = Append(<<a, b>>, NewLine)
  <2>1. <<>> \in Seq(Symbols) /\ <<a>> \in Seq(Symbols) /\ <<a, b>> \in Seq(Symbols)
    BY <1>1
  <2>2. Append(<<>>, a) = <<a>>
    OBVIOUS
  <2>3. Append(<<a>>, b) = <<a, b>>
    BY <1>1, PairAppend
  <2>4. <<a, b>> \o <<NewLine>> = Append(<<a, b>>, NewLine)
    <3> HIDE DEF NewLine
    <3> QED
      OBVIOUS
  <2> QED
    BY <2>1, <2>2, <2>3, <2>4
<1>4. Split(<<a>>) = AddByte(<< <<>> >>, a)
  BY <1>1, <1>3, SplitAppend, SplitEmpty
<1>5. Split(<<a, b>>) = AddByte(Split(<<a>>), b)
  BY <1>1, <1>3, SplitAppend
<1>6. Split(Append(<<a, b>>, NewLine)) = AddByte(Split(<<a, b>>), NewLine)
  BY <1>1, <1>3, SplitAppend
<1>7. AddByte(<< <<>> >>, a) = << <<a>> >>
  BY <1>1 DEF AddByte
<1>8. AddByte(<< <<a>> >>, b) = << <<a, b>> >>
  BY <1>1 DEF AddByte
<1>9. AddByte(<< <<a, b>> >>, NewLine) = << <<a, b>>, <<>> >>
  <2>1. AddByte(<< <<a, b>> >>, NewLine) = Append(<< <<a, b>> >>, <<>>)
    BY DEF AddByte
  <2>2. <<a, b>> \in Seq(Symbols) /\ <<>> \in Seq(Symbols)
    BY <1>3
  <2>3. Append(<< <<a, b>> >>, <<>>) = << <<a, b>>, <<>> >>
    <3> DEFINE s == <<a, b>>
    <3> DEFINE t == <<>>
    <3>1. s \in Seq(Symbols) /\ t \in Seq(Symbols)
      BY <2>2
    <3> HIDE DEF s, t
    <3>2. Append(<<s>>, t) = <<s, t>>
      BY <3>1, PairAppend
    <3> QED
      BY <3>2 DEF s, t
  <2> QED
    BY <2>1, <2>3
<1>10. Line(rec) \o <<NewLine>> \in Seq(Symbols)
  <2>1. <<NewLine>> \in Seq(Symbols)
    BY <1>1
  <2> QED
    BY <1>2, <1>3, <2>1
<1> QED
  BY <1>2, <1>3, <1>4, <1>5, <1>6, <1>7, <1>8, <1>9, <1>10

LEMMA FramedListed ==
  ASSUME NEW text, NEW rec \in Records(Nat), Framed(text, rec)
  PROVE  rec \in OnLines(text)
<1>1. PICK pre \in Seq(Symbols), post \in Seq(Symbols) :
        ~Torn(pre) /\ text = (pre \o (Line(rec) \o <<NewLine>>)) \o post
  BY DEF Framed
<1> DEFINE mid == Line(rec) \o <<NewLine>>
           x == Split(pre)
           y == Split(mid)
           z == Split(post)
           k == Len(x)
<1>2. mid \in Seq(Symbols) /\ y = <<Line(rec), <<>> >>
  BY SplitLine
<1> HIDE DEF mid
<1>3. /\ x \in Seq(Seq(Symbols)) /\ x # <<>> /\ y \in Seq(Seq(Symbols)) /\ y # <<>>
      /\ z \in Seq(Seq(Symbols)) /\ z # <<>>
  BY <1>2, SplitType
<1>4. x[k] = <<>>
  BY <1>1, LastEmpty
<1>5. pre \o mid \in Seq(Symbols) /\ Split(pre \o mid) = Join(x, y)
  <2>1. pre \o mid \in Seq(Symbols)
    BY <1>2
  <2>2. Split(pre \o mid) = Join(Split(pre), Split(mid))
    BY <1>2, SplitConcat
  <2> QED
    BY <2>1, <2>2
<1>6. Split(text) = Join(Join(x, y), z)
  BY <1>1, <1>5, SplitConcat DEF mid
<1>7. y[1] = Line(rec) /\ Len(y) = 2
  BY <1>2
<1> HIDE DEF x, y, z
<1>8. Line(rec) \in Seq(Symbols)
  BY <1>3, <1>7
<1>9. k \in Nat \ {0} /\ k + Len(y) - 1 = k + 1
  BY <1>3, <1>7
<1>10. Join(x, y) \in Seq(Seq(Symbols)) /\ Join(x, y) # <<>> /\ Len(Join(x, y)) = k + 1
       /\ Join(x, y)[k] = Line(rec)
  <2>1. Join(x, y) \in Seq(Seq(Symbols)) /\ Join(x, y) # <<>> /\ Len(Join(x, y)) = k + Len(y) - 1
        /\ Join(x, y)[k] = x[k] \o y[1]
    BY <1>3, JoinType
  <2>2. <<>> \o Line(rec) = Line(rec)
    BY <1>8
  <2> QED
    BY <1>4, <1>7, <1>9, <2>1, <2>2
<1>11. k \in 1..(Len(Join(x, y)) - 1)
  BY <1>9, <1>10
<1>12. /\ Split(text) \in Seq(Seq(Symbols)) /\ Split(text)[k] = Line(rec)
       /\ Len(Split(text)) = Len(Join(x, y)) + Len(z) - 1
  <2> DEFINE j == Join(x, y)
  <2>1. j \in Seq(Seq(Symbols)) /\ j # <<>> /\ j[k] = Line(rec) /\ k \in 1..(Len(j) - 1)
    BY <1>10, <1>11
  <2> HIDE DEF j
  <2>2. /\ Join(j, z) \in Seq(Seq(Symbols)) /\ Len(Join(j, z)) = Len(j) + Len(z) - 1
        /\ \A i \in 1..(Len(j) - 1) : Join(j, z)[i] = j[i]
    BY <1>3, <2>1, JoinType
  <2>3. Split(text) = Join(j, z)
    BY <1>6 DEF j
  <2> QED
    BY <2>1, <2>2, <2>3 DEF j
<1>13. k \in DOMAIN Split(text)
  BY <1>3, <1>9, <1>10, <1>12
<1>14. Line(rec) \in ToSet(Split(text))
  BY <1>12, <1>13 DEF ToSet
<1>15. IsRecord(Line(rec)) /\ RecordOf(Line(rec)) = rec
  BY DEF IsRecord, RecordOf, Line, Byte, Records
<1> QED
  BY <1>14, <1>15 DEF OnLines

LEMMA FramedStays ==
  ASSUME NEW text, NEW rec \in Records(Nat), NEW more \in Seq(Symbols), Framed(text, rec)
  PROVE  Framed(text \o more, rec)
<1>1. PICK pre \in Seq(Symbols), post \in Seq(Symbols) :
        ~Torn(pre) /\ text = (pre \o (Line(rec) \o <<NewLine>>)) \o post
  BY DEF Framed
<1>2. Line(rec) \o <<NewLine>> \in Seq(Symbols)
  BY SplitLine
<1> DEFINE mid == Line(rec) \o <<NewLine>>
<1> HIDE DEF mid
<1>3. ((pre \o mid) \o post) \o more = (pre \o mid) \o (post \o more) /\ post \o more \in Seq(Symbols)
  <2>1. pre \o mid \in Seq(Symbols)
    BY <1>2 DEF mid
  <2> QED
    BY <2>1
<1> QED
  BY <1>1, <1>3 DEF Framed, mid

-----------------------------------------------------------------------------
(* The shapes of the state, and what a step does to the files.             *)

WriterShape ==
  [at : {"idle", "sized", "placed", "opened", "short"}, over : BOOLEAN,
   rec : Records(Nat), file : Nat, lead : BOOLEAN, mark : Nat, clean : BOOLEAN]

HasFile(writer) == writer.at \in {"opened", "short"}

(* The file of an instance is one, and its mark in it.                      *)
Placed(w) ==
  writers[w].file \in DOMAIN files /\ writers[w].mark <= Len(files[writers[w].file])

LogShape ==
  /\ files \in Seq(Seq(Symbols))
  /\ current \in 0..Len(files) /\ rotated \in 0..Len(files)
  /\ writers \in [Instances -> WriterShape]
  /\ asked \in [Instances -> SUBSET Nat]
  /\ scans \in Nat
  /\ whole \subseteq [rec : Records(Nat), file : Nat]
  /\ \A w \in Instances : HasFile(writers[w]) => Placed(w)

Grows ==
  /\ Len(files) <= Len(files')
  /\ \A f \in DOMAIN files : \E more \in Seq(Symbols) : files'[f] = files[f] \o more

LEMMA GrowsFacts ==
  ASSUME LogShape, files' \in Seq(Seq(Symbols)), Grows, NEW f \in DOMAIN files
  PROVE  /\ f \in DOMAIN files'
         /\ Len(files[f]) <= Len(files'[f])
         /\ \A i \in DOMAIN files[f] : files'[f][i] = files[f][i]
         /\ \A n \in 0..Len(files[f]) : SubSeq(files'[f], 1, n) = SubSeq(files[f], 1, n)
<1>1. files \in Seq(Seq(Symbols)) /\ files[f] \in Seq(Symbols) /\ f \in DOMAIN files'
  BY DEF LogShape, Grows
<1>2. PICK more \in Seq(Symbols) : files'[f] = files[f] \o more
  BY DEF Grows
<1> DEFINE a == files[f]
           b == files'[f]
<1>3. a \in Seq(Symbols) /\ b = a \o more
  BY <1>1, <1>2
<1> HIDE DEF a, b
<1>4. b \in Seq(Symbols) /\ Len(a) <= Len(b) /\ \A i \in DOMAIN a : b[i] = a[i]
  BY <1>3
<1>5. ASSUME NEW n \in 0..Len(a)
      PROVE  SubSeq(b, 1, n) = SubSeq(a, 1, n)
  <2> DEFINE p == SubSeq(b, 1, n)
             q == SubSeq(a, 1, n)
  <2>1. p \in Seq(Symbols) /\ Len(p) = n /\ \A i \in 1..n : p[i] = b[i]
    BY <1>3, <1>4
  <2>2. q \in Seq(Symbols) /\ Len(q) = n /\ \A i \in 1..n : q[i] = a[i]
    BY <1>3
  <2>3. \A i \in 1..n : b[i] = a[i]
    BY <1>3, <1>4
  <2> HIDE DEF p, q
  <2>4. p = q
    BY <2>1, <2>2, <2>3, SameSeq
  <2> QED
    BY <2>4 DEF p, q
<1> QED
  BY <1>1, <1>4, <1>5 DEF a, b

LEMMA SameFiles ==
  ASSUME LogShape, files' = files
  PROVE  Grows /\ files' \in Seq(Seq(Symbols))
<1>1. files \in Seq(Seq(Symbols)) /\ Len(files) <= Len(files')
  BY DEF LogShape
<1>2. ASSUME NEW f \in DOMAIN files
      PROVE  \E more \in Seq(Symbols) : files'[f] = files[f] \o more
  <2>1. <<>> \in Seq(Symbols) /\ files[f] \in Seq(Symbols)
    BY <1>1
  <2> DEFINE a == files[f]
             b == files'[f]
  <2>2. a \in Seq(Symbols) /\ b = a
    BY <2>1
  <2> HIDE DEF a, b
  <2>3. b = a \o <<>>
    BY <2>2
  <2> QED
    BY <2>1, <2>3 DEF a, b
<1> QED
  BY <1>1, <1>2 DEF Grows

LEMMA OneFile ==
  ASSUME LogShape, NEW f \in DOMAIN files, NEW more \in Seq(Symbols),
         files' = [files EXCEPT ![f] = files[f] \o more]
  PROVE  /\ Grows /\ files' \in Seq(Seq(Symbols)) /\ Len(files') = Len(files)
         /\ files'[f] = files[f] \o more
         /\ \A g \in DOMAIN files : g # f => files'[g] = files[g]
<1>1. files \in Seq(Seq(Symbols)) /\ files[f] \in Seq(Symbols)
  BY DEF LogShape
<1> DEFINE b == files[f] \o more
<1>2. b \in Seq(Symbols)
  BY <1>1
<1> HIDE DEF b
<1>3. files' = [files EXCEPT ![f] = b]
  BY DEF b
<1>4. /\ files' \in Seq(Seq(Symbols)) /\ Len(files') = Len(files) /\ files'[f] = b
      /\ \A g \in DOMAIN files : g # f => files'[g] = files[g]
  BY <1>1, <1>2, <1>3
<1>5. ASSUME NEW g \in DOMAIN files, g # f
      PROVE  \E rest \in Seq(Symbols) : files'[g] = files[g] \o rest
  <2>1. <<>> \in Seq(Symbols) /\ files[g] \in Seq(Symbols)
    BY <1>1
  <2> DEFINE c == files[g]
             d == files'[g]
  <2>2. c \in Seq(Symbols) /\ d = c
    BY <1>4, <1>5, <2>1
  <2> HIDE DEF c, d
  <2>3. d = c \o <<>>
    BY <2>2
  <2> QED
    BY <2>1, <2>3 DEF c, d
<1>6. \A g \in DOMAIN files : \E rest \in Seq(Symbols) : files'[g] = files[g] \o rest
  BY <1>4, <1>5 DEF b
<1>7. Len(files) \in Nat /\ Len(files) <= Len(files')
  BY <1>1, <1>4
<1>8. Grows
  BY <1>6, <1>7 DEF Grows
<1> QED
  BY <1>4, <1>8 DEF b

LEMMA PlacedStays ==
  ASSUME LogShape, files' \in Seq(Seq(Symbols)), Grows, NEW v \in Instances,
         HasFile(writers[v]), writers'[v] = writers[v]
  PROVE  Placed(v)'
<1>1. Placed(v) /\ writers[v].mark \in Nat
  BY DEF LogShape, WriterShape
<1>2. /\ writers[v].file \in DOMAIN files'
      /\ Len(files[writers[v].file]) <= Len(files'[writers[v].file])
  BY <1>1, GrowsFacts DEF Placed
<1>3. files[writers[v].file] \in Seq(Symbols) /\ files'[writers[v].file] \in Seq(Symbols)
  BY <1>1, <1>2 DEF LogShape, Placed
<1>4. Len(files[writers[v].file]) \in Nat /\ Len(files'[writers[v].file]) \in Nat
  BY <1>3
<1> QED
  BY <1>1, <1>2, <1>4 DEF Placed

LEMMA ContentType ==
  ASSUME LogShape, NEW f \in 0..Len(files)
  PROVE  Content(f) \in Seq(Symbols)
<1>1. CASE f = 0
  BY <1>1 DEF Content
<1>2. CASE f # 0
  <2>1. f \in DOMAIN files
    BY <1>2 DEF LogShape
  <2> QED
    BY <1>2, <2>1 DEF Content, LogShape
<1> QED
  BY <1>1, <1>2

LEMMA IdleShape ==
  /\ Idle \in WriterShape /\ ~HasFile(Idle)
  /\ \A rec \in Records(Nat), over \in BOOLEAN :
       LET writer == [Idle EXCEPT !.at = "sized", !.rec = rec, !.over = over]
       IN  /\ writer \in WriterShape /\ ~HasFile(writer)
           /\ writer.at = "sized" /\ writer.rec = rec
  BY DEF Idle, WriterShape, HasFile, Records, Kinds

(* What an instance appends: at once, or in two parts.                      *)
LEMMA BytesType ==
  ASSUME NEW writer \in WriterShape
  PROVE  /\ Bytes(writer) \in Seq(Symbols) /\ Rest(writer) \in Seq(Symbols)
         /\ (IF writer.lead THEN <<NewLine>> ELSE <<>>) \in Seq(Symbols)
         /\ <<Byte(writer.rec, 1)>> \in Seq(Symbols)
<1> DEFINE a == Byte(writer.rec, 1)
           b == Byte(writer.rec, 2)
<1>1. writer.rec \in Records(Nat) /\ writer.lead \in BOOLEAN
  BY DEF WriterShape
<1>2. a \in Symbols /\ b \in Symbols /\ NewLine \in Symbols
  BY <1>1, ByteFacts
<1> HIDE DEF a, b
<1>3. /\ <<NewLine>> \in Seq(Symbols) /\ <<>> \in Seq(Symbols) /\ <<a>> \in Seq(Symbols)
      /\ <<a, b>> \in Seq(Symbols) /\ <<b, NewLine>> \in Seq(Symbols)
  BY <1>2
<1> DEFINE lead == IF writer.lead THEN <<NewLine>> ELSE <<>>
<1>4. lead \in Seq(Symbols)
  BY <1>1, <1>3
<1> HIDE DEF lead
<1>5. Bytes(writer) = lead \o <<a, b>> \o <<NewLine>>
  BY DEF Bytes, lead, a, b, Line
<1>6. Bytes(writer) \in Seq(Symbols)
  BY <1>3, <1>4, <1>5
<1>7. Rest(writer) \in Seq(Symbols)
  BY <1>3, <1>6 DEF Rest, b
<1> QED
  BY <1>3, <1>4, <1>6, <1>7 DEF lead, a

(* One writer changes.                                                      *)
LEMMA OneWriter ==
  ASSUME LogShape, files' \in Seq(Seq(Symbols)), Grows,
         NEW w \in Instances, NEW writer \in WriterShape,
         writers' = [writers EXCEPT ![w] = writer], HasFile(writer) => Placed(w)'
  PROVE  /\ writers' \in [Instances -> WriterShape] /\ writers'[w] = writer
         /\ \A v \in Instances : v # w => writers'[v] = writers[v]
         /\ \A v \in Instances : HasFile(writers'[v]) => Placed(v)'
<1>1. /\ writers' \in [Instances -> WriterShape] /\ writers'[w] = writer
      /\ \A v \in Instances : v # w => writers'[v] = writers[v]
  BY DEF LogShape
<1>2. \A v \in Instances : HasFile(writers'[v]) => Placed(v)'
  BY <1>1, PlacedStays
<1> QED
  BY <1>1, <1>2

LEMMA SizesShape ==
  ASSUME LogShape, NEW w \in Instances, NEW rec \in Records(Nat), Sizes(w, rec)
  PROVE  /\ Grows /\ files' = files /\ current' = current /\ rotated' = rotated
         /\ whole' = whole /\ reader' = reader
         /\ writers[w].at = "idle"
         /\ writers'[w].at = "sized" /\ writers'[w].rec = rec
         /\ writers' \in [Instances -> WriterShape]
         /\ \A v \in Instances : v # w => writers'[v] = writers[v]
         /\ \A v \in Instances : HasFile(writers'[v]) => Placed(v)'
<1> DEFINE writer == [Idle EXCEPT !.at = "sized", !.rec = rec, !.over = Over(current)]
<1>1. Over(current) \in BOOLEAN
  BY DEF Over
<1>2. writer \in WriterShape /\ ~HasFile(writer) /\ writer.at = "sized" /\ writer.rec = rec
  BY <1>1, IdleShape
<1> HIDE DEF writer
<1>3. files' = files /\ writers' = [writers EXCEPT ![w] = writer]
  BY DEF Sizes, writer
<1>4. Grows /\ files' \in Seq(Seq(Symbols))
  BY <1>3, SameFiles
<1>5. /\ writers' \in [Instances -> WriterShape] /\ writers'[w] = writer
      /\ \A v \in Instances : v # w => writers'[v] = writers[v]
      /\ \A v \in Instances : HasFile(writers'[v]) => Placed(v)'
  BY <1>2, <1>3, <1>4, OneWriter
<1> QED
  BY <1>2, <1>3, <1>4, <1>5 DEF Sizes

(* The instance is as it was but for its place.                             *)
LEMMA OpenShape ==
  ASSUME LogShape, NEW w \in Instances, Open(w)
  PROVE  /\ LogShape' /\ Grows
         /\ writers[w].at = "placed"
         /\ writers'[w].at = "opened" /\ writers'[w].rec = writers[w].rec
         /\ writers'[w].file = current' /\ current' # 0
         /\ writers'[w].lead = Torn(files'[current'])
         /\ writers'[w].mark = Len(files'[current'])
         /\ \A v \in Instances : v # w => writers'[v] = writers[v]
         /\ current # 0 => files' = files /\ current' = current
         /\ current = 0 => current' = Len(files') /\ Len(files') = Len(files) + 1
                           /\ files'[current'] = <<>>
                           /\ \A f \in DOMAIN files : files'[f] = files[f]
<1> DEFINE text == Content(current)
           writer == [writers[w] EXCEPT !.at = "opened", !.file = current', !.lead = Torn(text),
                                        !.mark = Len(text)]
<1>0. /\ files \in Seq(Seq(Symbols)) /\ Len(files) \in Nat /\ current \in 0..Len(files)
      /\ writers \in [Instances -> WriterShape]
  BY DEF LogShape
<1>1. text \in Seq(Symbols) /\ Len(text) \in Nat
  BY <1>0, ContentType
<1>2. /\ current # 0 => files' = files /\ current' = current /\ files'[current'] = text
      /\ current = 0 => /\ files' = Append(files, <<>>) /\ current' = Len(files) + 1
  BY DEF Open, Content
<1>3. /\ files' \in Seq(Seq(Symbols)) /\ Grows
      /\ current' \in 1..Len(files') /\ files'[current'] = text
      /\ current = 0 => /\ Len(files') = Len(files) + 1 /\ current' = Len(files') /\ text = <<>>
                        /\ \A f \in DOMAIN files : files'[f] = files[f]
  <2>1. CASE current # 0
    <3>1. Grows /\ files' \in Seq(Seq(Symbols))
      BY <1>2, <2>1, SameFiles
    <3> QED
      BY <1>0, <1>2, <2>1, <3>1
  <2>2. CASE current = 0
    <3>1. <<>> \in Seq(Symbols)
      OBVIOUS
    <3>2. /\ files' \in Seq(Seq(Symbols)) /\ Len(files') = Len(files) + 1
          /\ files'[Len(files) + 1] = <<>> /\ \A f \in DOMAIN files : files'[f] = files[f]
      <4> DEFINE new == <<>>
      <4>1. new \in Seq(Symbols) /\ files' = Append(files, new)
        BY <1>2, <2>2, <3>1
      <4> HIDE DEF new
      <4>2. /\ files' \in Seq(Seq(Symbols)) /\ Len(files') = Len(files) + 1
            /\ files'[Len(files) + 1] = new /\ \A f \in DOMAIN files : files'[f] = files[f]
        BY <1>0, <4>1
      <4> QED
        BY <4>2 DEF new
    <3>3. ASSUME NEW f \in DOMAIN files
          PROVE  \E more \in Seq(Symbols) : files'[f] = files[f] \o more
      <4> DEFINE a == files[f]
                 b == files'[f]
      <4>1. a \in Seq(Symbols) /\ b = a
        BY <1>0, <3>2
      <4> HIDE DEF a, b
      <4>2. b = a \o <<>>
        BY <4>1
      <4> QED
        BY <3>1, <4>2 DEF a, b
    <3>4. Grows
      <4>1. Len(files) <= Len(files')
        BY <1>0, <3>2
      <4> QED
        BY <3>3, <4>1 DEF Grows
    <3>5. text = <<>>
      BY <2>2 DEF Content
    <3> QED
      BY <1>0, <1>2, <2>2, <3>2, <3>4, <3>5
  <2> QED
    BY <2>1, <2>2
<1> HIDE DEF text
<1>4. writers' = [writers EXCEPT ![w] = writer]
  <2>1. LET f == IF current = 0 THEN Len(files) + 1 ELSE current
        IN  current' = f /\
            writers' = [writers EXCEPT ![w].at = "opened", ![w].file = f,
                                       ![w].lead = Lead(Content(current)),
                                       ![w].mark = Len(Content(current))]
    BY DEF Open
  <2> QED
    BY <1>0, <2>1 DEF Lead, text
<1>5. /\ writer \in WriterShape /\ HasFile(writer)
      /\ writer.at = "opened" /\ writer.rec = writers[w].rec /\ writer.file = current'
      /\ writer.lead = Torn(text) /\ writer.mark = Len(text)
  <2>1. writers[w] \in WriterShape /\ Torn(text) \in BOOLEAN /\ current' \in Nat
    BY <1>0, <1>3 DEF Torn
  <2> HIDE DEF Torn
  <2> QED
    BY <1>1, <2>1 DEF WriterShape, HasFile
<1> HIDE DEF writer
<1>6. writers'[w] = writer
  BY <1>0, <1>4
<1>7. Placed(w)'
  BY <1>1, <1>3, <1>5, <1>6 DEF Placed
<1>8. /\ writers' \in [Instances -> WriterShape]
      /\ \A v \in Instances : v # w => writers'[v] = writers[v]
      /\ \A v \in Instances : HasFile(writers'[v]) => Placed(v)'
  BY <1>3, <1>4, <1>5, <1>7, OneWriter
<1>9. LogShape'
  <2>1. rotated' \in 0..Len(files') /\ asked' = asked /\ scans' = scans /\ whole' = whole
    BY <1>0, <1>3 DEF Open, LogShape, Grows
  <2> QED
    BY <1>3, <1>8, <2>1 DEF LogShape
<1>10. /\ writers'[w].lead = Torn(files'[current']) /\ writers'[w].mark = Len(files'[current'])
       /\ writers'[w].at = "opened" /\ writers'[w].rec = writers[w].rec
       /\ writers'[w].file = current'
  BY <1>3, <1>5, <1>6
<1>11. writers[w].at = "placed" /\ current' # 0
  BY <1>3 DEF Open
<1>12. current = 0 => files'[current'] = <<>>
  BY <1>3
<1> QED
  BY <1>2, <1>3, <1>8, <1>9, <1>10, <1>11, <1>12

LEMMA WriteShape ==
  ASSUME LogShape, NEW w \in Instances, Write(w)
  PROVE  /\ LogShape' /\ Grows /\ writers'[w] = Idle
         /\ \A v \in Instances : v # w => writers'[v] = writers[v]
         /\ writers[w].file \in DOMAIN files /\ Len(files') = Len(files)
         /\ files'[writers[w].file] = files[writers[w].file] \o Rest(writers[w])
         /\ \A g \in DOMAIN files : g # writers[w].file => files'[g] = files[g]
<1> DEFINE f == writers[w].file
           more == Rest(writers[w])
<1>1. writers[w] \in WriterShape /\ HasFile(writers[w])
  BY DEF LogShape, Write, HasFile
<1>2. f \in DOMAIN files /\ more \in Seq(Symbols)
  BY <1>1, BytesType DEF LogShape, Placed
<1>3. files' = [files EXCEPT ![f] = files[f] \o more]
  BY <1>2 DEF Write
<1> HIDE DEF f, more
<1>4. /\ Grows /\ files' \in Seq(Seq(Symbols)) /\ Len(files') = Len(files)
      /\ files'[f] = files[f] \o more
      /\ \A g \in DOMAIN files : g # f => files'[g] = files[g]
  BY <1>2, <1>3, OneFile
<1>5. writers' = [writers EXCEPT ![w] = Idle] /\ Idle \in WriterShape /\ ~HasFile(Idle)
  BY IdleShape DEF Write
<1>6. /\ writers' \in [Instances -> WriterShape] /\ writers'[w] = Idle
      /\ \A v \in Instances : v # w => writers'[v] = writers[v]
      /\ \A v \in Instances : HasFile(writers'[v]) => Placed(v)'
  BY <1>4, <1>5, OneWriter
<1>7. LogShape'
  <2>1. /\ current' = current /\ rotated' = rotated /\ asked' = asked /\ scans' = scans
        /\ whole' \subseteq whole \cup {[rec |-> writers[w].rec, file |-> writers[w].file]}
    BY DEF Write
  <2>2. [rec |-> writers[w].rec, file |-> writers[w].file] \in [rec : Records(Nat), file : Nat]
    BY <1>1 DEF WriterShape
  <2> QED
    BY <1>4, <1>6, <2>1, <2>2 DEF LogShape
<1> QED
  BY <1>2, <1>4, <1>6, <1>7 DEF f, more

LEMMA WriteShortShape ==
  ASSUME LogShape, NEW w \in Instances, WriteShort(w)
  PROVE  LET f == writers[w].file
             more == (IF writers[w].lead THEN <<NewLine>> ELSE <<>>) \o <<Byte(writers[w].rec, 1)>>
         IN  /\ LogShape' /\ Grows
             /\ writers[w].at = "opened"
             /\ writers'[w].at = "short" /\ writers'[w].rec = writers[w].rec
             /\ writers'[w].file = f /\ writers'[w].clean = Undisturbed(w)
             /\ writers'[w].mark = Len(files'[f])
             /\ \A v \in Instances : v # w => writers'[v] = writers[v]
             /\ f \in DOMAIN files /\ Len(files') = Len(files)
             /\ more \in Seq(Symbols) /\ files'[f] = files[f] \o more
             /\ \A g \in DOMAIN files : g # f => files'[g] = files[g]
<1> DEFINE f == writers[w].file
           lead == IF writers[w].lead THEN <<NewLine>> ELSE <<>>
           first == <<Byte(writers[w].rec, 1)>>
           more == lead \o first
           text == files[f] \o more
           clean == Undisturbed(w)
           writer == [writers[w] EXCEPT !.at = "short", !.mark = Len(text), !.clean = clean]
<1>1. writers[w] \in WriterShape /\ HasFile(writers[w]) /\ writers[w].at = "opened"
  BY DEF LogShape, WriteShort, HasFile
<1>2. f \in DOMAIN files /\ files[f] \in Seq(Symbols) /\ lead \in Seq(Symbols) /\ first \in Seq(Symbols)
  BY <1>1, BytesType DEF LogShape, Placed
<1> HIDE DEF f, lead, first
<1>3. more \in Seq(Symbols) /\ text \in Seq(Symbols) /\ text = (files[f] \o lead) \o first
  BY <1>2
<1>4. /\ files' = [files EXCEPT ![f] = (files[f] \o lead) \o first]
      /\ writers' = [writers EXCEPT ![w].at = "short", ![w].mark = Len((files[f] \o lead) \o first),
                                    ![w].clean = clean]
  BY DEF WriteShort, f, lead, first
<1> HIDE DEF more
<1>5. /\ Grows /\ files' \in Seq(Seq(Symbols)) /\ Len(files') = Len(files)
      /\ files'[f] = files[f] \o more
      /\ \A g \in DOMAIN files : g # f => files'[g] = files[g]
  <2>1. files' = [files EXCEPT ![f] = files[f] \o more]
    BY <1>3, <1>4
  <2> QED
    BY <1>2, <1>3, <2>1, OneFile
<1>6. clean \in BOOLEAN /\ Len(text) \in Nat
  <2>1. clean \in BOOLEAN
    BY <1>1 DEF Undisturbed
  <2> QED
    BY <1>3, <2>1
<1> HIDE DEF text, clean
<1>7. /\ writer \in WriterShape /\ HasFile(writer) /\ writer.at = "short"
      /\ writer.rec = writers[w].rec /\ writer.file = f /\ writer.clean = clean
      /\ writer.mark = Len(text)
  BY <1>1, <1>6 DEF WriterShape, HasFile, f
<1>8. writers' = [writers EXCEPT ![w] = writer]
  BY <1>1, <1>3, <1>4 DEF LogShape
<1> HIDE DEF writer
<1>9. writers'[w] = writer
  BY <1>8 DEF LogShape
<1>10. files'[f] = text
  BY <1>5 DEF text
<1>11. Placed(w)'
  BY <1>2, <1>5, <1>6, <1>7, <1>9, <1>10 DEF Placed
<1>12. /\ writers' \in [Instances -> WriterShape]
       /\ \A v \in Instances : v # w => writers'[v] = writers[v]
       /\ \A v \in Instances : HasFile(writers'[v]) => Placed(v)'
  BY <1>5, <1>7, <1>8, <1>11, OneWriter
<1>13. LogShape'
  <2>1. /\ current' = current /\ rotated' = rotated /\ asked' = asked /\ scans' = scans
        /\ whole' = whole
    BY DEF WriteShort
  <2>2. /\ current' \in 0..Len(files') /\ rotated' \in 0..Len(files')
        /\ asked' \in [Instances -> SUBSET Nat] /\ scans' \in Nat
        /\ whole' \subseteq [rec : Records(Nat), file : Nat]
    BY <1>5, <2>1 DEF LogShape
  <2> QED
    BY <1>5, <1>12, <2>2 DEF LogShape
<1>14. /\ writers'[w].at = "short" /\ writers'[w].rec = writers[w].rec
       /\ writers'[w].file = f /\ writers'[w].clean = clean
       /\ writers'[w].mark = Len(files'[f])
  BY <1>7, <1>9, <1>10
<1>15. more \in Seq(Symbols)
  BY <1>3
<1> QED
  BY <1>1, <1>2, <1>5, <1>12, <1>13, <1>14, <1>15 DEF f, lead, first, more, clean

(* The steps that write nothing to a file.                                  *)
LEMMA RotateShape ==
  ASSUME LogShape, NEW w \in Instances, Rotate(w)
  PROVE  /\ LogShape' /\ Grows /\ files' = files
         /\ writers[w].at = "sized"
         /\ writers'[w].at = "placed" /\ writers'[w].rec = writers[w].rec
         /\ \A v \in Instances : v # w => writers'[v] = writers[v]
         /\ \/ current' = current /\ rotated' = rotated
            \/ current # 0 /\ current' = 0 /\ rotated' = current
<1> DEFINE writer == [writers[w] EXCEPT !.at = "placed"]
<1>1. writers \in [Instances -> WriterShape] /\ files' = files
  BY DEF LogShape, Rotate
<1>2. writers' = [writers EXCEPT ![w] = writer]
  BY DEF Rotate
<1>3. writer \in WriterShape /\ ~HasFile(writer) /\ writer.at = "placed" /\ writer.rec = writers[w].rec
  BY <1>1 DEF WriterShape, HasFile
<1> HIDE DEF writer
<1>4. Grows /\ files' \in Seq(Seq(Symbols))
  BY <1>1, SameFiles
<1>5. /\ writers' \in [Instances -> WriterShape] /\ writers'[w] = writer
      /\ \A v \in Instances : v # w => writers'[v] = writers[v]
      /\ \A v \in Instances : HasFile(writers'[v]) => Placed(v)'
  BY <1>2, <1>3, <1>4, OneWriter
<1>6. \/ current' = current /\ rotated' = rotated
      \/ current # 0 /\ current' = 0 /\ rotated' = current
  BY DEF Rotate
<1>7. LogShape'
  <2>1. /\ current' \in 0..Len(files') /\ rotated' \in 0..Len(files')
        /\ asked' = asked /\ scans' = scans /\ whole' = whole
    BY <1>1, <1>6 DEF LogShape, Rotate
  <2> QED
    BY <1>4, <1>5, <2>1 DEF LogShape
<1> QED
  BY <1>1, <1>3, <1>4, <1>5, <1>6, <1>7 DEF Rotate

LEMMA StopShape ==
  ASSUME LogShape, NEW w \in Instances, Fail(w) \/ Crash(w)
  PROVE  /\ LogShape' /\ Grows /\ files' = files
         /\ current' = current /\ rotated' = rotated
         /\ writers'[w] = Idle /\ ~HasFile(Idle)
         /\ \A v \in Instances : v # w => writers'[v] = writers[v]
         /\ \A v \in Instances : asked'[v] \subseteq asked[v]
<1>1. /\ writers' = [writers EXCEPT ![w] = Idle] /\ files' = files
      /\ current' = current /\ rotated' = rotated /\ scans' = scans /\ whole' = whole
      /\ asked' = asked \/ asked' = [asked EXCEPT ![w] = {}]
  BY DEF Fail, Crash
<1>2. Grows /\ files' \in Seq(Seq(Symbols))
  BY <1>1, SameFiles
<1>3. Idle \in WriterShape /\ ~HasFile(Idle)
  BY IdleShape
<1>4. /\ writers' \in [Instances -> WriterShape] /\ writers'[w] = Idle
      /\ \A v \in Instances : v # w => writers'[v] = writers[v]
      /\ \A v \in Instances : HasFile(writers'[v]) => Placed(v)'
  BY <1>1, <1>2, <1>3, OneWriter
<1>5. asked' \in [Instances -> SUBSET Nat] /\ \A v \in Instances : asked'[v] \subseteq asked[v]
  BY <1>1 DEF LogShape
<1>6. LogShape'
  BY <1>1, <1>2, <1>4, <1>5 DEF LogShape
<1> QED
  BY <1>1, <1>2, <1>3, <1>4, <1>5, <1>6

LEMMA ScanShape ==
  ASSUME LogShape, NEW w \in Instances, WriteScan(w)
  PROVE  /\ LogShape' /\ Grows /\ files' = files
         /\ current' = current /\ rotated' = rotated
         /\ writers[w].at = "idle" /\ writers'[w].at = "sized"
         /\ writers'[w].rec = [kind |-> "scan", rid |-> scans + 1]
         /\ scans' = scans + 1
         /\ asked'[w] = asked[w] \cup {scans + 1}
         /\ \A v \in Instances : v # w => writers'[v] = writers[v] /\ asked'[v] = asked[v]
<1> DEFINE rec == [kind |-> "scan", rid |-> scans + 1]
<1>1. rec \in Records(Nat) /\ scans + 1 \in Nat
  BY DEF LogShape, Records, Kinds
<1>2. /\ Grows /\ files' = files /\ current' = current /\ rotated' = rotated
      /\ whole' = whole
      /\ writers[w].at = "idle"
      /\ writers'[w].at = "sized" /\ writers'[w].rec = rec
      /\ writers' \in [Instances -> WriterShape]
      /\ \A v \in Instances : v # w => writers'[v] = writers[v]
      /\ \A v \in Instances : HasFile(writers'[v]) => Placed(v)'
  <2>1. Sizes(w, rec)
    BY DEF WriteScan
  <2> HIDE DEF rec
  <2> QED
    BY <1>1, <2>1, SizesShape
<1>3. scans' = scans + 1 /\ asked' = [asked EXCEPT ![w] = asked[w] \cup {scans + 1}]
  BY DEF WriteScan
<1>4. /\ asked' \in [Instances -> SUBSET Nat] /\ asked'[w] = asked[w] \cup {scans + 1}
      /\ \A v \in Instances : v # w => asked'[v] = asked[v]
  BY <1>1, <1>3 DEF LogShape
<1> HIDE DEF rec
<1>5. LogShape'
  BY <1>1, <1>2, <1>3, <1>4 DEF LogShape
<1> QED
  BY <1>2, <1>3, <1>4, <1>5 DEF rec

LEMMA ResolutionShape ==
  ASSUME LogShape, NEW w \in Instances, WriteResolution(w)
  PROVE  /\ LogShape' /\ Grows /\ files' = files
         /\ current' = current /\ rotated' = rotated
         /\ writers[w].at = "idle" /\ writers'[w].at = "sized"
         /\ scans' = scans
         /\ \E rid \in asked[w] : /\ writers'[w].rec = [kind |-> "resolution", rid |-> rid]
                                  /\ asked'[w] = asked[w] \ {rid}
         /\ \A v \in Instances : v # w => writers'[v] = writers[v] /\ asked'[v] = asked[v]
<1>1. PICK rid \in asked[w] :
        /\ Sizes(w, [kind |-> "resolution", rid |-> rid])
        /\ asked' = [asked EXCEPT ![w] = asked[w] \ {rid}]
        /\ scans' = scans
  BY DEF WriteResolution
<1> DEFINE rec == [kind |-> "resolution", rid |-> rid]
<1>2. rid \in Nat /\ rec \in Records(Nat)
  BY DEF LogShape, Records, Kinds
<1>3. /\ Grows /\ files' = files /\ current' = current /\ rotated' = rotated
      /\ whole' = whole
      /\ writers[w].at = "idle"
      /\ writers'[w].at = "sized" /\ writers'[w].rec = rec
      /\ writers' \in [Instances -> WriterShape]
      /\ \A v \in Instances : v # w => writers'[v] = writers[v]
      /\ \A v \in Instances : HasFile(writers'[v]) => Placed(v)'
  <2>1. Sizes(w, rec)
    BY <1>1
  <2> HIDE DEF rec
  <2> QED
    BY <1>2, <2>1, SizesShape
<1>4. /\ asked' \in [Instances -> SUBSET Nat] /\ asked'[w] = asked[w] \ {rid}
      /\ \A v \in Instances : v # w => asked'[v] = asked[v]
  BY <1>1 DEF LogShape
<1> HIDE DEF rec
<1>5. LogShape'
  BY <1>1, <1>3, <1>4 DEF LogShape
<1> QED
  BY <1>1, <1>3, <1>4, <1>5 DEF rec

Reads == (\E budget \in Budgets, limit \in Limits : ReadFirst(budget, limit)) \/ ReadSecond

LEMMA ReadsShape ==
  ASSUME LogShape, Reads \/ UNCHANGED vars
  PROVE  /\ LogShape' /\ Grows
         /\ files' = files /\ current' = current /\ rotated' = rotated
         /\ writers' = writers /\ asked' = asked /\ scans' = scans /\ whole' = whole
<1>1. /\ files' = files /\ current' = current /\ rotated' = rotated
      /\ writers' = writers /\ asked' = asked /\ scans' = scans /\ whole' = whole
  BY DEF Reads, ReadFirst, ReadSecond, vars
<1>2. Grows
  BY <1>1, SameFiles
<1>3. LogShape'
  BY <1>1 DEF LogShape, Placed
<1> QED
  BY <1>1, <1>2, <1>3

LEMMA ShapeInit == Init => LogShape
<1> SUFFICES ASSUME Init PROVE LogShape
  OBVIOUS
<1>1. files \in Seq(Seq(Symbols)) /\ Len(files) = 0
  BY DEF Init
<1>2. writers \in [Instances -> WriterShape] /\ \A w \in Instances : ~HasFile(writers[w])
  BY IdleShape DEF Init
<1>3. /\ current \in 0..Len(files) /\ rotated \in 0..Len(files)
      /\ asked \in [Instances -> SUBSET Nat] /\ scans \in Nat /\ whole = {}
  BY <1>1 DEF Init
<1> QED
  BY <1>1, <1>2, <1>3 DEF LogShape

LEMMA ShapeStep == LogShape /\ [Next]_vars => LogShape' /\ Grows
<1> SUFFICES ASSUME LogShape, [Next]_vars PROVE LogShape' /\ Grows
  OBVIOUS
<1>1. CASE \E w \in Instances : WriteScan(w) \/ WriteResolution(w)
  BY <1>1, ScanShape, ResolutionShape
<1>2. CASE \E w \in Instances : Rotate(w) \/ Open(w)
  BY <1>2, RotateShape, OpenShape
<1>3. CASE \E w \in Instances : Write(w)
  BY <1>3, WriteShape
<1>4. CASE \E w \in Instances : WriteShort(w)
  BY <1>4, WriteShortShape
<1>5. CASE \E w \in Instances : Fail(w) \/ Crash(w)
  BY <1>5, StopShape
<1>6. CASE Reads \/ UNCHANGED vars
  BY <1>6, ReadsShape
<1> QED
  BY <1>1, <1>2, <1>3, <1>4, <1>5, <1>6 DEF Next, Reads

-----------------------------------------------------------------------------
(* A line of its own.                                                       *)

(* What an instance knows of its file where it opened it, and where it left *)
(* its first bytes.                                                         *)
Begun(w) ==
  LET writer == writers[w]
      text == SubSeq(files[writer.file], 1, writer.mark)
  IN  /\ writer.at = "opened" => writer.lead = Torn(text)
      /\ writer.at = "short" /\ writer.clean =>
           \E pre \in Seq(Symbols) : ~Torn(pre) /\ text = pre \o <<Byte(writer.rec, 1)>>

LineInv ==
  /\ LogShape
  /\ \A w \in Instances : HasFile(writers[w]) => Begun(w)
  /\ \A entry \in whole : entry.file \in DOMAIN files /\ Framed(files[entry.file], entry.rec)

LEMMA BegunStays ==
  ASSUME LineInv, LogShape', Grows, NEW v \in Instances,
         HasFile(writers[v]), writers'[v] = writers[v]
  PROVE  Begun(v)'
<1> DEFINE f == writers[v].file
           n == writers[v].mark
<1>1. f \in DOMAIN files /\ n \in Nat /\ n <= Len(files[f])
  BY DEF LineInv, LogShape, Placed, WriterShape
<1>2. SubSeq(files'[f], 1, n) = SubSeq(files[f], 1, n)
  <2>1. Len(files[f]) \in Nat
    BY <1>1 DEF LineInv, LogShape
  <2>2. n \in 0..Len(files[f])
    BY <1>1, <2>1
  <2>3. LogShape /\ files' \in Seq(Seq(Symbols))
    BY DEF LineInv, LogShape
  <2> QED
    BY <1>1, <2>2, <2>3, GrowsFacts
<1>3. Begun(v)
  BY DEF LineInv
<1> QED
  BY <1>2, <1>3 DEF Begun

LEMMA WholeStays ==
  ASSUME LineInv, LogShape', Grows, NEW entry \in whole
  PROVE  entry.file \in DOMAIN files' /\ Framed(files'[entry.file], entry.rec)
<1>1. /\ entry.file \in DOMAIN files /\ Framed(files[entry.file], entry.rec)
      /\ entry.rec \in Records(Nat)
  BY DEF LineInv, LogShape
<1>2. PICK more \in Seq(Symbols) : files'[entry.file] = files[entry.file] \o more
  BY <1>1 DEF Grows
<1>3. entry.file \in DOMAIN files'
  BY <1>1, GrowsFacts DEF LineInv, LogShape
<1> QED
  BY <1>1, <1>2, <1>3, FramedStays

(* After its lead an instance that was not disturbed is at the beginning of *)
(* a line.                                                                  *)
LEMMA LeadEnds ==
  ASSUME LineInv, NEW w \in Instances, writers[w].at = "opened", Undisturbed(w)
  PROVE  LET pre == files[writers[w].file] \o (IF writers[w].lead THEN <<NewLine>> ELSE <<>>)
         IN  pre \in Seq(Symbols) /\ ~Torn(pre)
<1> DEFINE text == files[writers[w].file]
           lead == writers[w].lead
<1>1. writers[w].file \in DOMAIN files /\ Begun(w) /\ writers[w] \in WriterShape
  BY DEF LineInv, LogShape, Placed, HasFile
<1>2. text \in Seq(Symbols) /\ lead \in BOOLEAN
  BY <1>1 DEF LineInv, LogShape, WriterShape
<1>3. Torn(text) => lead
  BY <1>1 DEF Undisturbed, Begun
<1> HIDE DEF text, lead
<1>4. CASE lead
  <2>1. NewLine \in Symbols
    BY ByteFacts
  <2>2. text \o <<NewLine>> = Append(text, NewLine)
    <3> HIDE DEF NewLine
    <3> QED
      BY <1>2
  <2>3. Append(text, NewLine) \in Seq(Symbols) /\ ~Torn(Append(text, NewLine))
    BY <1>2, <2>1, LastFacts
  <2> QED
    BY <1>4, <2>2, <2>3 DEF text, lead
<1>5. CASE ~lead
  <2>1. text \o <<>> = text
    BY <1>2
  <2> QED
    BY <1>2, <1>3, <1>5, <2>1 DEF text, lead
<1> QED
  BY <1>2, <1>4, <1>5

LEMMA OneConcat ==
  ASSUME NEW T, NEW q \in Seq(T), NEW x \in T
  PROVE  q \o <<x>> = Append(q, x)
  OBVIOUS

(* The bytes of a record, however they were appended.                       *)
LEMMA FramedNow ==
  ASSUME NEW rec \in Records(Nat), NEW pre \in Seq(Symbols), ~Torn(pre)
  PROVE  /\ Framed(pre \o (Line(rec) \o <<NewLine>>), rec)
         /\ Framed((pre \o <<Byte(rec, 1)>>) \o <<Byte(rec, 2), NewLine>>, rec)
<1> DEFINE mid == Line(rec) \o <<NewLine>>
<1>1. mid \in Seq(Symbols)
  BY SplitLine
<1>2. Framed(pre \o mid, rec)
  <2>1. <<>> \in Seq(Symbols)
    OBVIOUS
  <2> HIDE DEF mid
  <2>2. (pre \o mid) \o <<>> = pre \o mid
    <3>1. pre \o mid \in Seq(Symbols)
      BY <1>1
    <3> DEFINE s == pre \o mid
    <3>2. s \in Seq(Symbols)
      BY <3>1
    <3> HIDE DEF s
    <3>3. s \o <<>> = s
      BY <3>2
    <3> QED
      BY <3>3 DEF s
  <2> QED
    BY <2>1, <2>2 DEF Framed, mid
<1>3. (pre \o <<Byte(rec, 1)>>) \o <<Byte(rec, 2), NewLine>> = pre \o mid
  <2> DEFINE a == Byte(rec, 1)
             b == Byte(rec, 2)
             c == NewLine
             three == Append(Append(Append(pre, a), b), c)
  <2>1. a \in Symbols /\ b \in Symbols /\ c \in Symbols
    BY ByteFacts
  <2> HIDE DEF a, b, c
  <2>2. Append(pre, a) \in Seq(Symbols) /\ <<a>> \in Seq(Symbols) /\ <<b>> \in Seq(Symbols)
        /\ <<a, b>> \in Seq(Symbols)
    BY <2>1
  <2>3. pre \o <<a>> = Append(pre, a) /\ Append(pre, a) \o <<b>> = Append(Append(pre, a), b)
        /\ <<a, b>> \o <<c>> = Append(<<a, b>>, c)
    BY <2>1, <2>2, OneConcat
  <2>4. <<a, b>> = Append(<<a>>, b) /\ <<b, c>> = Append(<<b>>, c)
    BY <2>1, PairAppend
  <2>5. Append(pre, a) \o Append(<<b>>, c) = Append(Append(pre, a) \o <<b>>, c)
    BY <2>1, <2>2, ConcatAppend
  <2>6. pre \o Append(<<a, b>>, c) = Append(pre \o <<a, b>>, c)
    BY <2>1, <2>2, ConcatAppend
  <2>7. pre \o Append(<<a>>, b) = Append(pre \o <<a>>, b)
    BY <2>1, <2>2, ConcatAppend
  <2>8. (pre \o <<a>>) \o <<b, c>> = three
    BY <2>3, <2>4, <2>5
  <2>9. pre \o (<<a, b>> \o <<c>>) = three
    BY <2>3, <2>4, <2>6, <2>7
  <2> QED
    BY <2>8, <2>9 DEF mid, Line, a, b, c
<1> QED
  BY <1>2, <1>3

(* What an undisturbed instance has appended is a record with its newline.  *)
LEMMA WriteFrames ==
  ASSUME LineInv, NEW w \in Instances, Write(w), Undisturbed(w)
  PROVE  Framed(files'[writers[w].file], writers[w].rec)
<1> DEFINE f == writers[w].file
           rec == writers[w].rec
           text == files[f]
<1>1. /\ writers[w] \in WriterShape /\ HasFile(writers[w]) /\ rec \in Records(Nat)
      /\ f \in DOMAIN files /\ text \in Seq(Symbols) /\ Begun(w)
  BY DEF LineInv, LogShape, Write, HasFile, Placed, WriterShape
<1>2. files'[f] = text \o Rest(writers[w])
  BY WriteShape DEF LineInv
<1>3. CASE writers[w].at = "opened"
  <2> DEFINE lead == IF writers[w].lead THEN <<NewLine>> ELSE <<>>
             mid == Line(rec) \o <<NewLine>>
             pre == text \o lead
  <2>1. pre \in Seq(Symbols) /\ ~Torn(pre)
    BY <1>3, LeadEnds
  <2>2. Framed(pre \o mid, rec)
    BY <1>1, <2>1, FramedNow
  <2>3. lead \in Seq(Symbols) /\ mid \in Seq(Symbols)
    BY <1>1, BytesType, SplitLine
  <2>4. Rest(writers[w]) = lead \o Line(rec) \o <<NewLine>>
    BY <1>3 DEF Rest, Bytes
  <2>5. Line(rec) \in Seq(Symbols) /\ <<NewLine>> \in Seq(Symbols)
    BY <1>1, ByteFacts DEF Line
  <2> HIDE DEF lead, f, rec, text
  <2>6. Rest(writers[w]) = lead \o mid
    <3> DEFINE l == Line(rec)
               e == <<NewLine>>
    <3>1. l \in Seq(Symbols) /\ e \in Seq(Symbols)
      BY <2>5
    <3> HIDE DEF l, e
    <3>2. (lead \o l) \o e = lead \o (l \o e)
      BY <2>3, <3>1
    <3> QED
      BY <2>4, <3>2 DEF l, e
  <2> HIDE DEF mid
  <2>7. text \o (lead \o mid) = (text \o lead) \o mid
    BY <1>1, <2>3
  <2> QED
    BY <1>2, <2>2, <2>6, <2>7 DEF f, rec
<1>4. CASE writers[w].at # "opened"
  <2>1. writers[w].at = "short"
    BY <1>1, <1>4 DEF HasFile
  <2>2. writers[w].clean /\ Len(text) = writers[w].mark
    BY <1>4 DEF Undisturbed
  <2>3. SubSeq(text, 1, Len(text)) = text
    <3> HIDE DEF text
    <3> QED
      BY <1>1
  <2>4. PICK pre \in Seq(Symbols) : ~Torn(pre) /\ text = pre \o <<Byte(rec, 1)>>
    BY <1>1, <2>1, <2>2, <2>3 DEF Begun
  <2>5. Rest(writers[w]) = <<Byte(rec, 2), NewLine>>
    BY <1>4 DEF Rest
  <2>6. Framed((pre \o <<Byte(rec, 1)>>) \o <<Byte(rec, 2), NewLine>>, rec)
    BY <1>1, <2>4, FramedNow
  <2> QED
    BY <1>2, <2>4, <2>5, <2>6
<1> QED
  BY <1>3, <1>4

(* The other instances and the lines that are written stay as they are.     *)
LEMMA LineStays ==
  ASSUME LineInv, LogShape', Grows, NEW w \in Instances,
         \A v \in Instances : v # w => writers'[v] = writers[v],
         HasFile(writers'[w]) => Begun(w)', whole' = whole
  PROVE  LineInv'
<1>1. \A v \in Instances : HasFile(writers'[v]) => Begun(v)'
  BY BegunStays
<1>2. \A entry \in whole' : entry.file \in DOMAIN files' /\ Framed(files'[entry.file], entry.rec)
  BY WholeStays
<1> QED
  BY <1>1, <1>2 DEF LineInv

LEMMA LineInit == Init => LineInv
<1> SUFFICES ASSUME Init PROVE LineInv
  OBVIOUS
<1>1. LogShape /\ whole = {} /\ \A w \in Instances : ~HasFile(writers[w])
  BY ShapeInit, IdleShape DEF Init
<1> QED
  BY <1>1 DEF LineInv

LEMMA WholeText ==
  ASSUME NEW text \in Seq(Symbols)
  PROVE  SubSeq(text, 1, Len(text)) = text
  OBVIOUS

LEMMA LineStep == LineInv /\ [Next]_vars => LineInv'
<1> SUFFICES ASSUME LineInv, [Next]_vars PROVE LineInv'
  OBVIOUS
<1>0. LogShape /\ LogShape' /\ Grows
  BY ShapeStep DEF LineInv
<1>1. ASSUME NEW w \in Instances, WriteScan(w) \/ WriteResolution(w) PROVE LineInv'
  <2>1. /\ writers'[w].at = "sized" /\ \A v \in Instances : v # w => writers'[v] = writers[v]
    BY <1>0, <1>1, ScanShape, ResolutionShape
  <2>2. whole' = whole /\ ~HasFile(writers'[w])
    BY <1>1, <2>1 DEF WriteScan, WriteResolution, Sizes, HasFile
  <2> QED
    BY <1>0, <2>1, <2>2, LineStays
<1>2. ASSUME NEW w \in Instances, Rotate(w) PROVE LineInv'
  <2>1. /\ writers'[w].at = "placed" /\ \A v \in Instances : v # w => writers'[v] = writers[v]
    BY <1>0, <1>2, RotateShape
  <2>2. whole' = whole /\ ~HasFile(writers'[w])
    BY <1>2, <2>1 DEF Rotate, HasFile
  <2> QED
    BY <1>0, <2>1, <2>2, LineStays
<1>3. ASSUME NEW w \in Instances, Open(w) PROVE LineInv'
  <2>1. /\ writers'[w].at = "opened" /\ writers'[w].file = current' /\ current' # 0
        /\ writers'[w].lead = Torn(files'[current'])
        /\ writers'[w].mark = Len(files'[current'])
        /\ \A v \in Instances : v # w => writers'[v] = writers[v]
    BY <1>0, <1>3, OpenShape
  <2>2. files'[current'] \in Seq(Symbols)
    BY <1>0, <2>1 DEF LogShape
  <2>3. SubSeq(files'[current'], 1, Len(files'[current'])) = files'[current']
    BY <2>2, WholeText
  <2>4. Begun(w)'
    BY <2>1, <2>3 DEF Begun
  <2>5. whole' = whole
    BY <1>3 DEF Open
  <2> QED
    BY <1>0, <2>1, <2>4, <2>5, LineStays
<1>4. ASSUME NEW w \in Instances, Write(w) PROVE LineInv'
  <2>1. /\ writers'[w] = Idle /\ \A v \in Instances : v # w => writers'[v] = writers[v]
        /\ writers[w].file \in DOMAIN files /\ Len(files') = Len(files)
    BY <1>0, <1>4, WriteShape
  <2>2. \A v \in Instances : HasFile(writers'[v]) => Begun(v)'
    BY <1>0, <2>1, BegunStays, IdleShape
  <2>3. ASSUME NEW entry \in whole'
        PROVE  entry.file \in DOMAIN files' /\ Framed(files'[entry.file], entry.rec)
    <3>1. CASE entry \in whole
      BY <1>0, <3>1, WholeStays
    <3>2. CASE entry \notin whole
      <4>1. Undisturbed(w) /\ entry = [rec |-> writers[w].rec, file |-> writers[w].file]
        BY <1>4, <2>3, <3>2 DEF Write
      <4>2. Framed(files'[writers[w].file], writers[w].rec)
        BY <1>4, <4>1, WriteFrames
      <4>3. writers[w].file \in DOMAIN files'
        BY <1>0, <2>1, GrowsFacts DEF LogShape
      <4> QED
        BY <4>1, <4>2, <4>3
    <3> QED
      BY <3>1, <3>2
  <2> QED
    BY <1>0, <2>2, <2>3 DEF LineInv
<1>5. ASSUME NEW w \in Instances, WriteShort(w) PROVE LineInv'
  <2> DEFINE f == writers[w].file
             rec == writers[w].rec
             lead == IF writers[w].lead THEN <<NewLine>> ELSE <<>>
             first == <<Byte(rec, 1)>>
             text == files[f]
  <2>1. /\ writers[w].at = "opened"
        /\ writers'[w].at = "short" /\ writers'[w].rec = rec
        /\ writers'[w].file = f /\ writers'[w].clean = Undisturbed(w)
        /\ writers'[w].mark = Len(files'[f])
        /\ \A v \in Instances : v # w => writers'[v] = writers[v]
        /\ f \in DOMAIN files /\ Len(files') = Len(files)
        /\ files'[f] = text \o (lead \o first)
    BY <1>0, <1>5, WriteShortShape
  <2>2. Undisturbed(w) => text \o lead \in Seq(Symbols) /\ ~Torn(text \o lead)
    BY <2>1, LeadEnds
  <2>3. files'[f] \in Seq(Symbols)
    <3>1. f \in DOMAIN files'
      BY <1>0, <2>1, GrowsFacts DEF LogShape
    <3> QED
      BY <1>0, <3>1 DEF LogShape
  <2>4. SubSeq(files'[f], 1, Len(files'[f])) = files'[f]
    BY <2>3, WholeText
  <2>5. text \o (lead \o first) = (text \o lead) \o first
    <3>1. writers[w] \in WriterShape
      BY <1>0 DEF LogShape
    <3>2. text \in Seq(Symbols)
      BY <1>0, <2>1 DEF LogShape
    <3>3. lead \in Seq(Symbols) /\ first \in Seq(Symbols)
      BY <3>1, BytesType
    <3> HIDE DEF text, lead, first
    <3> QED
      BY <3>2, <3>3
  <2>6. Undisturbed(w) =>
          \E pre \in Seq(Symbols) : ~Torn(pre) /\ files'[f] = pre \o <<Byte(rec, 1)>>
    <3> DEFINE p == text \o lead
    <3>1. Undisturbed(w) => p \in Seq(Symbols) /\ ~Torn(p)
      BY <2>2
    <3>2. files'[f] = p \o <<Byte(rec, 1)>>
      BY <2>1, <2>5
    <3> HIDE DEF p
    <3> QED
      BY <3>1, <3>2
  <2> HIDE DEF f, rec, text, lead, first
  <2>7. Begun(w)'
    BY <2>1, <2>4, <2>6 DEF Begun
  <2>8. whole' = whole
    BY <1>5 DEF WriteShort
  <2> QED
    BY <1>0, <2>1, <2>7, <2>8, LineStays
<1>6. ASSUME NEW w \in Instances, Fail(w) \/ Crash(w) PROVE LineInv'
  <2>1. /\ writers'[w] = Idle /\ ~HasFile(Idle)
        /\ \A v \in Instances : v # w => writers'[v] = writers[v]
    BY <1>0, <1>6, StopShape
  <2>2. whole' = whole
    BY <1>6 DEF Fail, Crash
  <2> QED
    BY <1>0, <2>1, <2>2, LineStays
<1>7. CASE Reads \/ UNCHANGED vars
  <2>1. files' = files /\ writers' = writers /\ whole' = whole
    BY <1>0, <1>7, ReadsShape
  <2> QED
    BY <1>0, <2>1 DEF LineInv, Begun
<1> QED
  BY <1>1, <1>2, <1>3, <1>4, <1>5, <1>6, <1>7 DEF Next, Reads

(* A record that no short write of another instance got into is on a line   *)
(* of its own (traffic.py: the lead newline of _write), however many writes  *)
(* were cut off before it and whatever is appended after it.                *)
THEOREM LinesKept == Spec => []OwnLine
<1>1. LineInv => OwnLine
  <2> SUFFICES ASSUME LineInv, NEW entry \in whole
               PROVE  entry.rec \in OnLines(files[entry.file])
    BY DEF OwnLine
  <2>1. entry.rec \in Records(Nat) /\ Framed(files[entry.file], entry.rec)
    BY DEF LineInv, LogShape
  <2> QED
    BY <2>1, FramedListed
<1> QED
  BY <1>1, LineInit, LineStep, PTL DEF Spec

-----------------------------------------------------------------------------
(* Reading backward.                                                        *)

LEMMA MinFacts ==
  ASSUME NEW S, S \subseteq Nat, S # {}
  PROVE  Min(S) \in S /\ \A x \in S : Min(S) <= x
<1>1. \E n \in S : \A m \in S : n <= m
  BY Least
<1> QED
  BY <1>1 DEF Min

LEMMA ConcatFacts ==
  ASSUME NEW T, NEW p \in Seq(T), NEW q \in Seq(T)
  PROVE  /\ p \o q \in Seq(T) /\ Len(p \o q) = Len(p) + Len(q)
         /\ \A i \in 1..(Len(p) + Len(q)) : (p \o q)[i] = IF i <= Len(p) THEN p[i] ELSE q[i - Len(p)]
  OBVIOUS

LEMMA ReverseConcat ==
  ASSUME NEW T, NEW p \in Seq(T), NEW q \in Seq(T)
  PROVE  /\ Reverse(p) \in Seq(T) /\ Len(Reverse(p)) = Len(p)
         /\ \A i \in 1..Len(p) : Reverse(p)[i] = p[Len(p) - i + 1]
         /\ Reverse(p \o q) = Reverse(q) \o Reverse(p)
<1>1. ASSUME NEW s \in Seq(T)
      PROVE  /\ Reverse(s) \in Seq(T) /\ Len(Reverse(s)) = Len(s)
             /\ \A i \in 1..Len(s) : Reverse(s)[i] = s[Len(s) - i + 1]
  <2>1. \A i \in 1..Len(s) : Len(s) - i + 1 \in 1..Len(s) /\ s[Len(s) - i + 1] \in T
    OBVIOUS
  <2> DEFINE n == Len(s)
  <2>2. n \in Nat /\ Reverse(s) = [i \in 1..n |-> s[n - i + 1]]
    BY DEF Reverse
  <2>3. \A i \in 1..n : s[n - i + 1] \in T
    BY <2>1
  <2> HIDE DEF n
  <2>4. Reverse(s) \in Seq(T) /\ Len(Reverse(s)) = n /\ \A i \in 1..n : Reverse(s)[i] = s[n - i + 1]
    BY <2>2, <2>3
  <2> QED
    BY <2>4 DEF n
<1>2. ASSUME NEW a \in Seq(T), NEW b \in Seq(T)
      PROVE  Reverse(a \o b) = Reverse(b) \o Reverse(a)
  <2> DEFINE n == Len(a)
             m == Len(b)
             c == a \o b
             left == Reverse(c)
             ra == Reverse(a)
             rb == Reverse(b)
             right == rb \o ra
  <2>1. n \in Nat /\ m \in Nat
    OBVIOUS
  <2>2. c \in Seq(T) /\ Len(c) = n + m
        /\ \A i \in 1..(n + m) : c[i] = IF i <= n THEN a[i] ELSE b[i - n]
    BY ConcatFacts
  <2>3. /\ ra \in Seq(T) /\ Len(ra) = n /\ \A i \in 1..n : ra[i] = a[n - i + 1]
        /\ rb \in Seq(T) /\ Len(rb) = m /\ \A i \in 1..m : rb[i] = b[m - i + 1]
    BY <1>1
  <2> HIDE DEF c
  <2>4. left \in Seq(T) /\ Len(left) = n + m /\ \A i \in 1..(n + m) : left[i] = c[n + m - i + 1]
    <3>1. /\ left \in Seq(T) /\ Len(left) = Len(c)
          /\ \A i \in 1..Len(c) : left[i] = c[Len(c) - i + 1]
      BY <1>1, <2>2
    <3> QED
      BY <2>2, <3>1
  <2> HIDE DEF n, m, left, ra, rb
  <2>5. right \in Seq(T) /\ Len(right) = n + m
        /\ \A i \in 1..(n + m) : right[i] = IF i <= m THEN rb[i] ELSE ra[i - m]
    <3>1. /\ right \in Seq(T) /\ Len(right) = Len(rb) + Len(ra)
          /\ \A i \in 1..(Len(rb) + Len(ra)) :
               right[i] = IF i <= Len(rb) THEN rb[i] ELSE ra[i - Len(rb)]
      BY <2>3, ConcatFacts
    <3>2. Len(rb) = m /\ Len(ra) = n /\ m + n = n + m
      BY <2>1, <2>3
    <3> HIDE DEF right
    <3> QED
      BY <3>1, <3>2
  <2> HIDE DEF right
  <2>6. ASSUME NEW i \in 1..(n + m)
        PROVE  left[i] = right[i]
    <3>1. n + m - i + 1 \in 1..(n + m) /\ left[i] = c[n + m - i + 1]
      BY <2>1, <2>4
    <3>0. i \in Nat /\ 1 <= i /\ i <= n + m
      BY <2>1
    <3>2. CASE i <= m
      <4>1. ~(n + m - i + 1 <= n) /\ n + m - i + 1 - n = m - i + 1 /\ i \in 1..m
        BY <2>1, <3>0, <3>2
      <4>2. c[n + m - i + 1] = b[m - i + 1]
        <5> DEFINE k == n + m - i + 1
        <5>1. k \in 1..(n + m) /\ ~(k <= n) /\ k - n = m - i + 1
          BY <2>1, <3>0, <3>1, <4>1
        <5> HIDE DEF k
        <5>2. c[k] = b[k - n]
          BY <2>2, <5>1
        <5> QED
          BY <5>1, <5>2 DEF k
      <4>3. right[i] = rb[i] /\ rb[i] = b[m - i + 1]
        BY <2>3, <2>5, <3>2, <4>1
      <4> QED
        BY <3>1, <4>2, <4>3
    <3>3. CASE ~(i <= m)
      <4>1. n + m - i + 1 <= n /\ i - m \in 1..n /\ n - (i - m) + 1 = n + m - i + 1
        BY <2>1, <3>0, <3>3
      <4>2. c[n + m - i + 1] = a[n + m - i + 1]
        BY <2>2, <3>1, <4>1
      <4>3. right[i] = ra[i - m] /\ ra[i - m] = a[n - (i - m) + 1]
        BY <2>3, <2>5, <3>3, <4>1
      <4> QED
        BY <3>1, <4>1, <4>2, <4>3
    <3> QED
      BY <3>2, <3>3
  <2>7. \A i \in 1..Len(left) : left[i] = right[i]
    BY <2>4, <2>6
  <2>8. left = right
    BY <2>4, <2>5, <2>7, SameSeq
  <2> QED
    BY <2>8 DEF left, right, ra, rb, c
<1> QED
  BY <1>1, <1>2

LEMMA ReverseFirst ==
  ASSUME NEW T, NEW q \in Seq(T), NEW x \in T
  PROVE  Reverse(<<x>> \o q) = Append(Reverse(q), x)
<1>1. <<x>> \in Seq(T)
  OBVIOUS
<1>2. Reverse(<<x>> \o q) = Reverse(q) \o Reverse(<<x>>)
  BY <1>1, ReverseConcat
<1> DEFINE s == <<x>>
<1>3. s \in Seq(T) /\ Len(s) = 1 /\ s[1] = x
  OBVIOUS
<1> HIDE DEF s
<1>4. Reverse(s) \in Seq(T) /\ Len(Reverse(s)) = 1 /\ Reverse(s)[1] = s[1]
  <2>1. /\ Reverse(s) \in Seq(T) /\ Len(Reverse(s)) = Len(s)
        /\ \A i \in 1..Len(s) : Reverse(s)[i] = s[Len(s) - i + 1]
    BY <1>3, ReverseConcat
  <2> QED
    BY <1>3, <2>1
<1>5. \A i \in 1..Len(s) : Reverse(s)[i] = s[i]
  BY <1>3, <1>4
<1>6. Reverse(s) = s
  BY <1>3, <1>4, <1>5, SameSeq
<1>7. Reverse(q) \in Seq(T)
  BY ReverseConcat
<1>8. Reverse(q) \o <<x>> = Append(Reverse(q), x)
  BY <1>7, OneConcat
<1> QED
  BY <1>2, <1>6, <1>8 DEF s

LEMMA TailFacts ==
  ASSUME NEW T, NEW p \in Seq(T), p # <<>>
  PROVE  /\ Tail(p) \in Seq(T) /\ Len(Tail(p)) = Len(p) - 1 /\ p[1] \in T
         /\ \A i \in 1..(Len(p) - 1) : Tail(p)[i] = p[i + 1]
         /\ Head(p) = p[1]
         /\ p = <<p[1]>> \o Tail(p)
<1>1. /\ Tail(p) \in Seq(T) /\ Len(Tail(p)) = Len(p) - 1 /\ p[1] \in T
      /\ \A i \in 1..(Len(p) - 1) : Tail(p)[i] = p[i + 1]
      /\ Head(p) = p[1] /\ Len(p) \in Nat \ {0}
  OBVIOUS
<1> DEFINE t == Tail(p)
           h == <<p[1]>>
           q == h \o t
<1>2. h \in Seq(T) /\ Len(h) = 1 /\ h[1] = p[1]
  BY <1>1
<1>3. t \in Seq(T) /\ Len(t) = Len(p) - 1 /\ \A i \in 1..(Len(p) - 1) : t[i] = p[i + 1]
  BY <1>1
<1> HIDE DEF t, h
<1>4. q \in Seq(T) /\ Len(q) = Len(p)
      /\ \A i \in 1..Len(p) : q[i] = IF i <= 1 THEN h[i] ELSE t[i - 1]
  <2>1. /\ q \in Seq(T) /\ Len(q) = Len(h) + Len(t)
        /\ \A i \in 1..(Len(h) + Len(t)) : q[i] = IF i <= Len(h) THEN h[i] ELSE t[i - Len(h)]
    <3>1. h \in Seq(T) /\ t \in Seq(T)
      BY <1>2, <1>3
    <3>2. /\ h \o t \in Seq(T) /\ Len(h \o t) = Len(h) + Len(t)
          /\ \A i \in 1..(Len(h) + Len(t)) : (h \o t)[i] = IF i <= Len(h) THEN h[i] ELSE t[i - Len(h)]
      BY <3>1, ConcatFacts
    <3> QED
      BY <3>2
  <2>2. Len(h) = 1 /\ Len(h) + Len(t) = Len(p)
    BY <1>1, <1>2, <1>3
  <2> HIDE DEF q
  <2> QED
    BY <2>1, <2>2
<1> HIDE DEF q
<1>5. ASSUME NEW i \in 1..Len(p)
      PROVE  q[i] = p[i]
  <2>1. CASE i = 1
    BY <1>2, <1>4, <2>1
  <2>2. CASE i # 1
    <3>1. ~(i <= 1) /\ i - 1 \in 1..(Len(p) - 1) /\ i - 1 + 1 = i
      BY <1>1, <2>2
    <3>2. q[i] = t[i - 1]
      BY <1>4, <3>1
    <3> QED
      BY <1>3, <3>1, <3>2
  <2> QED
    BY <2>1, <2>2
<1>6. q = p
  BY <1>4, <1>5, SameSeq
<1> QED
  BY <1>1, <1>6 DEF q, h, t

(* No line has a newline in it.                                             *)
Unbroken(line) == \A i \in DOMAIN line : line[i] # NewLine

LEMMA SplitUnbroken ==
  ASSUME NEW T, NEW q \in Seq(T)
  PROVE  \A i \in DOMAIN Split(q) : Unbroken(Split(q)[i])
<1> DEFINE A == {p \in Seq(T) : \A i \in DOMAIN Split(p) : Unbroken(Split(p)[i])}
<1>1. <<>> \in A
  <2>1. DOMAIN << <<>> >> = {1} /\ << <<>> >>[1] = <<>> /\ <<>> \in Seq(T) /\ DOMAIN <<>> = {}
    OBVIOUS
  <2> QED
    BY <2>1, SplitEmpty DEF Unbroken
<1>2. ASSUME NEW p \in Seq(T), NEW x \in T, p \in A
      PROVE  Append(p, x) \in A
  <2> DEFINE y == Split(p)
             z == AddByte(y, x)
  <2>1. Split(Append(p, x)) = z /\ y \in Seq(Seq(T)) /\ y # <<>>
    BY SplitAppend, SplitType
  <2>2. \A i \in DOMAIN y : Unbroken(y[i])
    BY <1>2
  <2> HIDE DEF y
  <2>3. /\ z \in Seq(Seq(T))
        /\ x = NewLine => /\ Len(z) = Len(y) + 1 /\ z[Len(y) + 1] = <<>>
                          /\ \A i \in 1..Len(y) : z[i] = y[i]
        /\ x # NewLine => /\ Len(z) = Len(y) /\ z[Len(y)] = Append(y[Len(y)], x)
                          /\ \A i \in 1..(Len(y) - 1) : z[i] = y[i]
    BY <2>1, AddByteType
  <2> HIDE DEF z
  <2>4. Len(y) \in Nat \ {0} /\ DOMAIN y = 1..Len(y) /\ y[Len(y)] \in Seq(T)
        /\ DOMAIN z = 1..Len(z)
    BY <2>1, <2>3
  <2>5. ASSUME NEW i \in DOMAIN z
        PROVE  Unbroken(z[i])
    <3>1. CASE x = NewLine
      <4>1. i \in 1..Len(y) \/ i = Len(y) + 1
        BY <2>3, <2>4, <3>1
      <4>2. DOMAIN <<>> = {}
        OBVIOUS
      <4>3. Unbroken(<<>>)
        BY <4>2 DEF Unbroken
      <4>4. CASE i \in 1..Len(y)
        <5>1. z[i] = y[i] /\ i \in DOMAIN y
          BY <2>3, <2>4, <3>1, <4>4
        <5> QED
          BY <2>2, <5>1
      <4>5. CASE i = Len(y) + 1
        BY <2>3, <3>1, <4>3, <4>5
      <4> QED
        BY <4>1, <4>4, <4>5
    <3>2. CASE x # NewLine
      <4>0. i \in 1..Len(y) /\ Len(y) \in Nat \ {0}
        BY <2>3, <2>4, <3>2
      <4>1. i \in 1..(Len(y) - 1) \/ i = Len(y)
        BY <4>0
      <4>2. CASE i \in 1..(Len(y) - 1)
        BY <2>2, <2>3, <2>4, <3>2, <4>2
      <4>3. CASE i = Len(y)
        <5> DEFINE s == y[Len(y)]
        <5>1. s \in Seq(T) /\ Unbroken(s)
          BY <2>2, <2>4
        <5> HIDE DEF s
        <5>2. ASSUME NEW j \in DOMAIN Append(s, x)
              PROVE  Append(s, x)[j] # NewLine
          <6>1. j \in 1..(Len(s) + 1) /\ Len(s) \in Nat
            BY <5>1
          <6>2. CASE j \in 1..Len(s)
            <7>1. Append(s, x)[j] = s[j] /\ j \in DOMAIN s
              BY <5>1, <6>2
            <7> QED
              BY <5>1, <7>1 DEF Unbroken
          <6>3. CASE j = Len(s) + 1
            <7>1. Append(s, x)[j] = x
              BY <5>1, <6>3
            <7> QED
              BY <3>2, <7>1
          <6> QED
            BY <6>1, <6>2, <6>3
        <5>3. Unbroken(Append(s, x))
          BY <5>2 DEF Unbroken
        <5> QED
          BY <2>3, <3>2, <4>3, <5>3 DEF s
      <4> QED
        BY <4>1, <4>2, <4>3
    <3> QED
      BY <3>1, <3>2
  <2> QED
    BY <2>1, <2>5
<1> HIDE DEF A
<1>3. q \in A
  BY <1>1, <1>2, Appending
<1> QED
  BY <1>3 DEF A

LEMMA UnbrokenSplit ==
  ASSUME NEW T, NEW q \in Seq(T), Unbroken(q)
  PROVE  Split(q) = <<q>>
<1> DEFINE A == {p \in Seq(T) : Unbroken(p) => Split(p) = <<p>>}
<1>1. <<>> \in A
  BY SplitEmpty
<1>2. ASSUME NEW p \in Seq(T), NEW x \in T, p \in A
      PROVE  Append(p, x) \in A
  <2> SUFFICES ASSUME Unbroken(Append(p, x))
               PROVE  Split(Append(p, x)) = <<Append(p, x)>>
    OBVIOUS
  <2>1. x # NewLine
    <3>1. Append(p, x)[Len(p) + 1] = x /\ Len(p) + 1 \in DOMAIN Append(p, x)
      OBVIOUS
    <3> QED
      BY <3>1 DEF Unbroken
  <2>2. Unbroken(p)
    <3>1. \A i \in DOMAIN p : i \in DOMAIN Append(p, x) /\ Append(p, x)[i] = p[i]
      OBVIOUS
    <3> QED
      BY <3>1 DEF Unbroken
  <2>3. Split(Append(p, x)) = AddByte(<<p>>, x)
    BY <1>2, <2>2, SplitAppend
  <2>4. AddByte(<<p>>, x) = <<Append(p, x)>>
    BY <2>1 DEF AddByte
  <2> QED
    BY <2>3, <2>4
<1> HIDE DEF A
<1>3. q \in A
  BY <1>1, <1>2, Appending
<1> QED
  BY <1>3 DEF A

(* The elements behind position i, up to position j.                        *)
Behind(T, q, i, j, s) ==
  /\ s \in Seq(T) /\ Len(s) = j - i
  /\ \A k \in 1..(j - i) : s[k] = q[i + k]

LEMMA BehindCut ==
  ASSUME NEW T, NEW q \in Seq(T), NEW j \in 0..Len(q), NEW i \in 0..Len(q), i <= j
  PROVE  Behind(T, q, i, j, SubSeq(q, i + 1, j))
BY DEF Behind

(* What is read so far is a tail of the file; its first line is kept apart. *)
ReadState(text, budget, r, k) ==
  LET read == Split(SubSeq(text, r.pos + 1, Len(text)))
  IN  /\ r = [pos |-> r.pos, left |-> r.left, head |-> r.head, lines |-> r.lines]
      /\ r.pos \in 0..Len(text) /\ r.left \in Nat /\ r.left = budget - (Len(text) - r.pos)
      /\ r.head = read[1] /\ r.lines = Reverse(Tail(read))
      /\ r.pos = 0 \/ r.left = 0 \/ r.pos <= Len(text) - k

LEMMA ChunkRead ==
  ASSUME NEW text \in Seq(Symbols), NEW chunk \in Nat \ {0}, NEW budget \in Nat,
         NEW r, NEW k \in 1..Len(text), ReadState(text, budget, r, k - 1)
  PROVE  ReadState(text, budget, ReadChunk(text, chunk, r), k)
<1> DEFINE n == Len(text)
           pos == r.pos
           left == r.left
           step == Min({chunk, pos, left})
           after == SubSeq(text, pos + 1, n)
           part == SubSeq(text, pos - step + 1, pos)
           both == SubSeq(text, pos - step + 1, n)
           x == Split(part)
           y == Split(after)
           parts == Split(part \o r.head)
           next == ReadChunk(text, chunk, r)
<1>1. /\ pos \in 0..n /\ left \in Nat /\ left = budget - (n - pos)
      /\ r.head = y[1] /\ r.lines = Reverse(Tail(y))
      /\ pos = 0 \/ left = 0 \/ pos <= n - (k - 1)
      /\ n \in Nat
  BY DEF ReadState
<1>2. step \in {chunk, pos, left} /\ step \in Nat /\ step <= chunk /\ step <= pos /\ step <= left
  <2>1. {chunk, pos, left} \subseteq Nat /\ {chunk, pos, left} # {}
    BY <1>1
  <2> DEFINE S == {chunk, pos, left}
  <2>2. chunk \in S /\ pos \in S /\ left \in S
    OBVIOUS
  <2>3. S \subseteq Nat /\ S # {}
    BY <2>1
  <2> HIDE DEF S
  <2>4. Min(S) \in S /\ \A z \in S : Min(S) <= z
    BY <2>3, MinFacts
  <2> QED
    BY <2>2, <2>3, <2>4 DEF S
<1>3. next = IF step = 0 THEN r
             ELSE [pos |-> pos - step, left |-> left - step, head |-> Head(parts),
                   lines |-> r.lines \o Reverse(Tail(parts))]
  BY DEF ReadChunk, Carried
<1> HIDE DEF next, step
<1>4. CASE step = 0
  <2>1. next = r
    BY <1>3, <1>4
  <2>2. pos = 0 \/ left = 0
    BY <1>1, <1>2, <1>4
  <2>3. ReadState(text, budget, r, k)
    BY <2>2 DEF ReadState
  <2> QED
    BY <2>1, <2>3 DEF next
<1>5. CASE step # 0
  <2>1. /\ after \in Seq(Symbols) /\ part \in Seq(Symbols) /\ both \in Seq(Symbols)
        /\ both = part \o after
    <3>0. pos \in Nat /\ pos <= n /\ n \in Nat /\ step \in Nat /\ step >= 1 /\ step <= pos
      BY <1>1, <1>2, <1>5
    <3>1. /\ pos \in 1..n /\ pos \in 0..n /\ pos - step \in 0..n /\ step \in 1..pos /\ n \in 0..n
          /\ pos - (pos - step) = step /\ n - (pos - step) = n - pos + step
          /\ pos - step <= pos /\ pos - step <= n
      <4> HIDE DEF pos, n
      <4> QED
        BY <3>0
    <3>2. /\ after \in Seq(Symbols) /\ Len(after) = n - pos
          /\ \A i \in 1..(n - pos) : after[i] = text[pos + i]
      <4>1. Behind(Symbols, text, pos, n, after)
        BY <3>0, <3>1, BehindCut
      <4> HIDE DEF after
      <4> QED
        BY <4>1 DEF Behind
    <3>3. /\ part \in Seq(Symbols) /\ Len(part) = step
          /\ \A i \in 1..step : part[i] = text[pos - step + i]
      <4>0. Behind(Symbols, text, pos - step, pos, part)
        BY <3>1, BehindCut
      <4>1. /\ part \in Seq(Symbols) /\ Len(part) = pos - (pos - step)
            /\ \A i \in 1..(pos - (pos - step)) : part[i] = text[pos - step + i]
        <5> HIDE DEF part
        <5> QED
          BY <4>0 DEF Behind
      <4> QED
        BY <3>1, <4>1
    <3>4. /\ both \in Seq(Symbols) /\ Len(both) = n - pos + step
          /\ \A i \in 1..(n - pos + step) : both[i] = text[pos - step + i]
      <4>0. Behind(Symbols, text, pos - step, n, both)
        BY <3>1, BehindCut
      <4>1. /\ both \in Seq(Symbols) /\ Len(both) = n - (pos - step)
            /\ \A i \in 1..(n - (pos - step)) : both[i] = text[pos - step + i]
        <5> HIDE DEF both
        <5> QED
          BY <4>0 DEF Behind
      <4> QED
        BY <3>1, <4>1
    <3> HIDE DEF after, part, both, n, pos
    <3> DEFINE c == part \o after
    <3>5. /\ c \in Seq(Symbols) /\ Len(c) = Len(part) + Len(after)
          /\ \A i \in 1..(Len(part) + Len(after)) :
               c[i] = IF i <= Len(part) THEN part[i] ELSE after[i - Len(part)]
      BY <3>2, <3>3, ConcatFacts
    <3> HIDE DEF c
    <3>6. Len(part) + Len(after) = n - pos + step
      BY <1>1, <3>1, <3>2, <3>3
    <3>7. ASSUME NEW i \in 1..(n - pos + step)
          PROVE  both[i] = c[i]
      <4>0. i \in Nat /\ 1 <= i /\ i <= n - pos + step
        BY <1>1, <3>1
      <4>1. CASE i <= step
        <5>1. i \in 1..step
          BY <1>1, <3>1, <4>0, <4>1
        <5>2. c[i] = part[i]
          BY <3>3, <3>5, <3>6, <4>1
        <5> QED
          BY <3>3, <3>4, <5>1, <5>2
      <4>2. CASE ~(i <= step)
        <5>1. i - step \in 1..(n - pos) /\ pos + (i - step) = pos - step + i
          BY <1>1, <3>1, <4>0, <4>2
        <5>2. c[i] = after[i - step]
          BY <3>3, <3>5, <3>6, <4>2
        <5>3. after[i - step] = text[pos + (i - step)]
          BY <3>2, <5>1
        <5> QED
          BY <3>4, <5>1, <5>2, <5>3
      <4> QED
        BY <4>1, <4>2
    <3>8. both = c
      BY <3>4, <3>5, <3>6, <3>7, SameSeq
    <3> QED
      BY <3>2, <3>3, <3>4, <3>8 DEF c
  <2>2. x \in Seq(Seq(Symbols)) /\ x # <<>> /\ y \in Seq(Seq(Symbols)) /\ y # <<>>
    BY <2>1, SplitType
  <2>3. Split(both) = Join(x, y)
    BY <2>1, SplitConcat
  <2>4. parts = Join(x, <<y[1]>>) /\ y[1] \in Seq(Symbols)
    <3>1. 1 \in DOMAIN y /\ y[1] \in Seq(Symbols)
      BY <2>2
    <3>2. Unbroken(y[1])
      BY <2>1, <3>1, SplitUnbroken
    <3>3. Split(y[1]) = <<y[1]>>
      BY <3>1, <3>2, UnbrokenSplit
    <3>4. Split(part \o y[1]) = Join(Split(part), Split(y[1]))
      BY <2>1, <3>1, SplitConcat
    <3> QED
      BY <1>1, <3>1, <3>3, <3>4
  <2> DEFINE joined == Join(x, y)
             front == Join(x, <<y[1]>>)
             rest == Tail(y)
  <2>5. /\ joined \in Seq(Seq(Symbols)) /\ joined # <<>>
        /\ front \in Seq(Seq(Symbols)) /\ front # <<>>
        /\ rest \in Seq(Seq(Symbols)) /\ joined = front \o rest
    <3> HIDE DEF x, y
    <3> DEFINE one == <<y[1]>>
    <3>1. one \in Seq(Seq(Symbols)) /\ one # <<>> /\ Len(one) = 1 /\ one[1] = y[1]
      BY <2>4
    <3> HIDE DEF one
    <3>2. /\ joined \in Seq(Seq(Symbols)) /\ joined # <<>> /\ Len(joined) = Len(x) + Len(y) - 1
          /\ \A i \in 1..(Len(x) - 1) : joined[i] = x[i]
          /\ joined[Len(x)] = x[Len(x)] \o y[1]
          /\ \A i \in (Len(x) + 1)..(Len(x) + Len(y) - 1) : joined[i] = y[i - Len(x) + 1]
      <4>1. Joined(Symbols, x, y, joined)
        BY <2>2, JoinFacts
      <4> HIDE DEF joined
      <4> QED
        BY <4>1 DEF Joined
    <3> DEFINE f == Join(x, one)
    <3>3. /\ f \in Seq(Seq(Symbols)) /\ f # <<>> /\ Len(f) = Len(x) + Len(one) - 1
          /\ \A i \in 1..(Len(x) - 1) : f[i] = x[i]
          /\ f[Len(x)] = x[Len(x)] \o one[1]
      <4>1. Joined(Symbols, x, one, f)
        BY <2>2, <3>1, JoinFacts
      <4> HIDE DEF f
      <4> QED
        BY <4>1 DEF Joined
    <3>4. /\ rest \in Seq(Seq(Symbols)) /\ Len(rest) = Len(y) - 1
          /\ \A i \in 1..(Len(y) - 1) : rest[i] = y[i + 1]
      BY <2>2, TailFacts
    <3>5. Len(x) \in Nat \ {0} /\ Len(y) \in Nat \ {0}
      BY <2>2
    <3> HIDE DEF f, rest, joined
    <3> DEFINE c == f \o rest
    <3>6. /\ c \in Seq(Seq(Symbols)) /\ Len(c) = Len(f) + Len(rest)
          /\ \A i \in 1..(Len(f) + Len(rest)) :
               c[i] = IF i <= Len(f) THEN f[i] ELSE rest[i - Len(f)]
      BY <3>3, <3>4, ConcatFacts
    <3> HIDE DEF c
    <3> DEFINE a == Len(x)
               b == Len(y)
    <3>7. Len(f) = a /\ Len(f) + Len(rest) = a + b - 1 /\ Len(joined) = a + b - 1
      BY <3>1, <3>2, <3>3, <3>4, <3>5
    <3> HIDE DEF a, b
    <3>8. ASSUME NEW i \in 1..(a + b - 1)
          PROVE  joined[i] = c[i]
      <4>0. i \in Nat /\ 1 <= i /\ i <= a + b - 1 /\ a \in Nat /\ b \in Nat
        BY <3>5 DEF a, b
      <4>1. c[i] = IF i <= a THEN f[i] ELSE rest[i - a]
        BY <3>6, <3>7
      <4>2. CASE i < a
        <5>1. i \in 1..(a - 1) /\ i <= a
          BY <4>0, <4>2
        <5>2. joined[i] = x[i] /\ f[i] = x[i]
          BY <3>2, <3>3, <5>1 DEF a
        <5> QED
          BY <4>1, <5>1, <5>2
      <4>3. CASE i = a
        <5>1. joined[i] = x[i] \o y[1] /\ f[i] = x[i] \o one[1]
          BY <3>2, <3>3, <4>3 DEF a
        <5>2. i <= a
          BY <4>0, <4>3
        <5> QED
          BY <3>1, <4>1, <5>1, <5>2
      <4>4. CASE i > a
        <5>1. ~(i <= a) /\ i - a \in 1..(b - 1) /\ i \in (a + 1)..(a + b - 1)
          BY <4>0, <4>4
        <5>2. rest[i - a] = y[i - a + 1]
          BY <3>4, <5>1 DEF b
        <5>3. joined[i] = y[i - a + 1]
          BY <3>2, <5>1 DEF a, b
        <5> QED
          BY <4>1, <5>1, <5>2, <5>3
      <4> QED
        BY <4>0, <4>2, <4>3, <4>4
    <3>9. joined = c
      BY <3>2, <3>6, <3>7, <3>8, SameSeq
    <3> QED
      BY <3>2, <3>3, <3>4, <3>9 DEF c, f, one, joined, rest
  <2> HIDE DEF x, y, parts, joined, front, rest, after, part, both
  <2>6. parts = front
    BY <2>4 DEF front
  <2>7. /\ Head(front) = front[1] /\ joined[1] = front[1]
        /\ Tail(joined) = Tail(front) \o rest /\ Tail(front) \in Seq(Seq(Symbols))
    <3>1. /\ Head(front) = front[1] /\ Tail(front) \in Seq(Seq(Symbols))
          /\ Len(Tail(front)) = Len(front) - 1
          /\ \A i \in 1..(Len(front) - 1) : Tail(front)[i] = front[i + 1]
      BY <2>5, TailFacts
    <3>2. /\ Tail(joined) \in Seq(Seq(Symbols)) /\ Len(Tail(joined)) = Len(joined) - 1
          /\ \A i \in 1..(Len(joined) - 1) : Tail(joined)[i] = joined[i + 1]
      BY <2>5, TailFacts
    <3>3. /\ Len(joined) = Len(front) + Len(rest)
          /\ \A i \in 1..(Len(front) + Len(rest)) :
               joined[i] = IF i <= Len(front) THEN front[i] ELSE rest[i - Len(front)]
      BY <2>5, ConcatFacts
    <3> DEFINE a == Len(front)
               b == Len(rest)
               s == Tail(front)
               t == Tail(joined)
               c == s \o rest
    <3>4. a \in Nat \ {0} /\ b \in Nat
      BY <2>5
    <3>5. 1 \in 1..(a + b) /\ 1 <= a
      BY <3>4
    <3>6. joined[1] = front[1]
      BY <3>3, <3>5
    <3> HIDE DEF s, t
    <3>7. /\ c \in Seq(Seq(Symbols)) /\ Len(c) = Len(s) + Len(rest)
          /\ \A i \in 1..(Len(s) + Len(rest)) :
               c[i] = IF i <= Len(s) THEN s[i] ELSE rest[i - Len(s)]
      BY <2>5, <3>1, ConcatFacts DEF s
    <3> HIDE DEF c
    <3>8. Len(s) = a - 1 /\ Len(t) = a + b - 1 /\ Len(s) + Len(rest) = a + b - 1
      BY <3>1, <3>2, <3>3, <3>4 DEF s, t
    <3> HIDE DEF a, b
    <3>9. ASSUME NEW i \in 1..(a + b - 1)
          PROVE  t[i] = c[i]
      <4>0. i \in Nat /\ 1 <= i /\ i <= a + b - 1 /\ i + 1 \in 1..(a + b)
        BY <3>4
      <4>1. t[i] = joined[i + 1]
        BY <3>2, <3>8 DEF t
      <4>2. joined[i + 1] = IF i + 1 <= a THEN front[i + 1] ELSE rest[i + 1 - a]
        BY <3>3, <4>0 DEF a, b
      <4>3. c[i] = IF i <= a - 1 THEN s[i] ELSE rest[i - (a - 1)]
        BY <3>7, <3>8
      <4>4. CASE i <= a - 1
        <5>1. i + 1 <= a /\ i \in 1..(a - 1)
          BY <3>4, <4>0, <4>4
        <5> QED
          BY <3>1, <4>1, <4>2, <4>3, <4>4, <5>1 DEF a, s
      <4>5. CASE ~(i <= a - 1)
        <5>1. ~(i + 1 <= a) /\ i - (a - 1) = i + 1 - a
          BY <3>4, <4>0, <4>5
        <5> QED
          BY <4>1, <4>2, <4>3, <4>5, <5>1
      <4> QED
        BY <4>4, <4>5
    <3>10. t = c
      <4>1. t \in Seq(Seq(Symbols)) /\ Len(t) = Len(c) /\ \A i \in 1..Len(t) : t[i] = c[i]
        BY <3>2, <3>7, <3>8, <3>9 DEF t
      <4> QED
        BY <3>7, <4>1, SameSeq
    <3> QED
      BY <3>1, <3>6, <3>10 DEF s, t, c
  <2>8. r.lines \o Reverse(Tail(parts)) = Reverse(Tail(joined))
    <3>1. Reverse(Tail(front) \o rest) = Reverse(rest) \o Reverse(Tail(front))
      BY <2>5, <2>7, ReverseConcat
    <3>2. r.lines = Reverse(rest)
      BY <1>1 DEF rest
    <3> QED
      BY <2>6, <2>7, <3>1, <3>2
  <2>9. /\ next.pos = pos - step /\ next.left = left - step /\ next.head = joined[1]
        /\ next.lines = Reverse(Tail(joined))
        /\ next = [pos |-> next.pos, left |-> next.left, head |-> next.head, lines |-> next.lines]
    BY <1>3, <1>5, <2>6, <2>7, <2>8
  <2>10. /\ next.pos \in 0..n /\ next.left \in Nat /\ next.left = budget - (n - next.pos)
         /\ next.pos = 0 \/ next.left = 0 \/ next.pos <= n - k
    <3>1. pos - step \in 0..n /\ left - step \in Nat /\ left - step = budget - (n - (pos - step))
      <4>1. n \in Nat /\ pos \in 0..n /\ left \in Nat /\ left = budget - (n - pos)
        BY <1>1
      <4>2. step \in Nat /\ step <= pos /\ step <= left
        BY <1>2
      <4> HIDE DEF n, pos, left
      <4> QED
        BY <4>1, <4>2
    <3>2. pos - step = 0 \/ left - step = 0 \/ pos - step <= n - k
      BY <1>1, <1>2, <1>5
    <3> QED
      BY <2>9, <3>1, <3>2
  <2>11. Split(SubSeq(text, next.pos + 1, n)) = joined
    <3>1. SubSeq(text, next.pos + 1, n) = both
      BY <2>9 DEF both
    <3> QED
      BY <2>3, <3>1 DEF joined
  <2> QED
    BY <2>9, <2>10, <2>11 DEF ReadState, next
<1> QED
  BY <1>4, <1>5

ReadEnd(text, chunk, budget) ==
  Iter(ReadFold(text, chunk), Start(text, budget), Turns(text))[DOMAIN Turns(text)]

LEMMA ReadEnds ==
  ASSUME NEW text \in Seq(Symbols), NEW chunk \in Nat \ {0}, NEW budget \in Nat
  PROVE  ReadState(text, budget, ReadEnd(text, chunk, budget), Len(text))
<1> DEFINE n == Len(text)
           fold == ReadFold(text, chunk)
           base == Start(text, budget)
           q == Turns(text)
           A == {k \in Nat : k <= n => ReadState(text, budget, Upto(fold, base, q, k), k)}
<1>0. n \in Nat /\ Long(q, n) /\ ~(fold.of = "split") /\ fold.of = "read"
      /\ fold.text = text /\ fold.chunk = chunk
  BY DEF Long, Turns, ReadFold
<1> HIDE DEF fold, base, q
<1>1. Unrolls(fold, base, q, n) /\ Iter(fold, base, q)[DOMAIN q] = Upto(fold, base, q, n)
  BY <1>0, UptoFacts
<1>2. ReadState(text, budget, base, 0)
  <2>1. base = [pos |-> n, left |-> budget, head |-> <<>>, lines |-> <<>>]
    BY DEF base, Start
  <2>2. SubSeq(text, n + 1, n) = <<>>
    OBVIOUS
  <2> DEFINE none == << <<>> >>
  <2>3. none[1] = <<>> /\ Tail(none) = <<>>
    OBVIOUS
  <2>4. Reverse(<<>>) = <<>>
    BY DEF Reverse
  <2> HIDE DEF none
  <2>5. Split(SubSeq(text, n + 1, n)) = none
    BY <2>2, SplitEmpty DEF none
  <2>6. n - (n - n) = n /\ budget - (n - n) = budget /\ n <= n - 0 /\ n \in 0..n
    BY <1>0
  <2> HIDE DEF n
  <2>7. base.pos = n /\ base.left = budget /\ base.head = <<>> /\ base.lines = <<>>
        /\ base = [pos |-> base.pos, left |-> base.left, head |-> base.head, lines |-> base.lines]
    BY <2>1
  <2> HIDE DEF base
  <2> QED
    BY <2>3, <2>4, <2>5, <2>6, <2>7 DEF ReadState, n
<1>3. 0 \in A
  BY <1>1, <1>2 DEF Unrolls
<1>4. ASSUME NEW k \in Nat, k \in A
      PROVE  k + 1 \in A
  <2> SUFFICES ASSUME k + 1 <= n
               PROVE  ReadState(text, budget, Upto(fold, base, q, k + 1), k + 1)
    OBVIOUS
  <2>1. k + 1 \in 1..n /\ k + 1 - 1 = k /\ k <= n
    BY <1>0
  <2>2. ReadState(text, budget, Upto(fold, base, q, k), k + 1 - 1)
    BY <1>4, <2>1
  <2>3. Upto(fold, base, q, k + 1) = Applied(fold, Upto(fold, base, q, k), q[k + 1])
    BY <1>1, <2>1 DEF Unrolls
  <2>4. Applied(fold, Upto(fold, base, q, k), q[k + 1]) = ReadChunk(text, chunk, Upto(fold, base, q, k))
    BY <1>0 DEF Applied
  <2>5. ReadState(text, budget, ReadChunk(text, chunk, Upto(fold, base, q, k)), k + 1)
    BY <2>1, <2>2, ChunkRead
  <2> QED
    BY <2>3, <2>4, <2>5
<1> HIDE DEF A
<1>5. n \in A
  BY <1>0, <1>3, <1>4, Counting
<1> QED
  BY <1>0, <1>1, <1>5 DEF A, ReadEnd, fold, base, q

(* The lines are those entirely behind a position of the file; while some   *)
(* of the budget is left it is the beginning.                               *)
LEMMA BackwardFacts ==
  ASSUME NEW text \in Seq(Symbols), NEW chunk \in Nat \ {0}, NEW budget \in Nat
  PROVE  LET read == LinesBackward(text, chunk, budget)
         IN  \E pos \in 0..Len(text) :
               /\ read.left = budget - (Len(text) - pos) /\ read.left \in Nat
               /\ pos = 0 \/ read.left = 0
               /\ pos = 0 => read.lines = Reverse(Split(text))
               /\ pos # 0 => read.lines = Reverse(Tail(Split(SubSeq(text, pos + 1, Len(text)))))
<1> DEFINE end == ReadEnd(text, chunk, budget)
           read == LinesBackward(text, chunk, budget)
           behind == SubSeq(text, end.pos + 1, Len(text))
           y == Split(behind)
<1>1. ReadState(text, budget, end, Len(text))
  BY ReadEnds
<1>2. read = [lines |-> IF end.pos = 0 THEN Append(end.lines, end.head) ELSE end.lines,
              left |-> end.left]
  BY ReadIter DEF ReadEnd
<1> HIDE DEF read, end
<1>3. /\ end.pos \in 0..Len(text) /\ end.left \in Nat /\ end.left = budget - (Len(text) - end.pos)
      /\ end.head = y[1] /\ end.lines = Reverse(Tail(y))
      /\ end.pos = 0 \/ end.left = 0 \/ end.pos <= Len(text) - Len(text)
  BY <1>1 DEF ReadState
<1>4. end.pos = 0 \/ end.left = 0
  <2>1. Len(text) \in Nat
    OBVIOUS
  <2> QED
    BY <1>3, <2>1
<1>5. CASE end.pos = 0
  <2>1. behind = text
    <3>1. end.pos + 1 = 1
      BY <1>5
    <3> QED
      BY <3>1, WholeText
  <2>2. y \in Seq(Seq(Symbols)) /\ y # <<>>
    BY <2>1, SplitType
  <2> HIDE DEF y, behind
  <2>3. Tail(y) \in Seq(Seq(Symbols)) /\ y[1] \in Seq(Symbols) /\ y = <<y[1]>> \o Tail(y)
    BY <2>2, TailFacts
  <2>4. Reverse(<<y[1]>> \o Tail(y)) = Append(Reverse(Tail(y)), y[1])
    BY <2>3, ReverseFirst
  <2>5. read.lines = Reverse(Split(text))
    BY <1>2, <1>3, <1>5, <2>1, <2>3, <2>4 DEF y
  <2> QED
    BY <1>2, <1>3, <1>5, <2>5 DEF read
<1>6. CASE end.pos # 0
  BY <1>2, <1>3, <1>4, <1>6 DEF read
<1> QED
  BY <1>5, <1>6

LEMMA TailRead ==
  ASSUME NEW text \in Seq(Symbols), NEW chunk \in Nat \ {0}, NEW budget \in Nat
  PROVE  LinesBackward(text, chunk, budget).lines = LastLines(text, budget)
<1> DEFINE n == Len(text)
           read == LinesBackward(text, chunk, budget)
<1>1. PICK pos \in 0..n :
        /\ read.left = budget - (n - pos) /\ read.left \in Nat
        /\ pos = 0 \/ read.left = 0
        /\ pos = 0 => read.lines = Reverse(Split(text))
        /\ pos # 0 => read.lines = Reverse(Tail(Split(SubSeq(text, pos + 1, n))))
  BY BackwardFacts
<1>2. n \in Nat
  OBVIOUS
<1> HIDE DEF read, n
<1>3. CASE budget >= n
  <2>1. pos = 0
    BY <1>1, <1>2, <1>3
  <2> QED
    BY <1>1, <1>3, <2>1 DEF LastLines, read, n
<1>4. CASE ~(budget >= n)
  <2>1. pos # 0 /\ pos = n - budget /\ pos + 1 = n - budget + 1
    BY <1>1, <1>2, <1>4
  <2> QED
    BY <1>1, <1>4, <2>1 DEF LastLines, read, n
<1> QED
  BY <1>3, <1>4

(* Reading a file backward in chunks gives the lines that are entirely       *)
(* among its last bytes (_lines_backward of history.py), for every file,     *)
(* chunk and budget.                                                        *)
THEOREM TailsRead == Spec => []ReadsTail
<1>1. LogShape => ReadsTail
  <2> SUFFICES ASSUME LogShape, NEW f \in {current, rotated}, NEW chunk \in Chunks,
                      NEW budget \in Budgets
               PROVE  LinesBackward(Content(f), chunk, budget).lines = LastLines(Content(f), budget)
    BY DEF ReadsTail
  <2>1. chunk \in Nat \ {0} /\ budget \in Nat
    BY LogAssumption
  <2>2. Content(f) \in Seq(Symbols)
    BY ContentType DEF LogShape
  <2> QED
    BY <2>1, <2>2, TailRead
<1> QED
  BY <1>1, ShapeInit, ShapeStep, PTL DEF Spec

-----------------------------------------------------------------------------
(* What the plugins decide, and what history says they did.                *)

Modes == {"enforce", "observe"}
Policies == {"allow", "review", "deny"}

LEMMA ScannedHeld ==
  ASSUME NEW mode \in Modes, NEW onError \in Policies, NEW unattended \in BOOLEAN,
         NEW resolved \in BOOLEAN
  PROVE  ScannedTold(mode, onError, unattended, resolved)
<1> SUFFICES ASSUME NEW verdict \in {"allow", "review", "block"}, NEW snoozed \in BOOLEAN,
                    NEW hook \in {Hermes(mode, onError)!Directive(verdict, unattended, snoozed),
                                  OpenClaw(mode, onError, {})!Hook(verdict, snoozed)},
                    resolved \in Answered(hook)
             PROVE  CountedAs(ActionOf(
                      [failed |-> FALSE, mode |-> mode, verdict |-> verdict,
                       decision |-> Hermes(mode, onError)!ScannedDecision[hook],
                       snoozed |-> mode # "observe" /\ verdict = "review" /\ hook = "run"],
                      resolved)) = Told(hook, FALSE, resolved)
  BY DEF ScannedTold
<1> DEFINE decision == Hermes(mode, onError)!ScannedDecision[hook]
           scan == [failed |-> FALSE, mode |-> mode, verdict |-> verdict,
                    decision |-> decision,
                    snoozed |-> mode # "observe" /\ verdict = "review" /\ hook = "run"]
<1>1. /\ mode = "observe" \/ verdict = "allow" => hook = "run"
      /\ mode = "enforce" /\ verdict = "block" => hook = "block"
      /\ mode = "enforce" /\ verdict = "review" => hook \in {"run", "block", "approve"}
  BY DEF Hermes!Directive, OpenClaw!Hook, Modes
<1>2. hook \in {"run", "block", "approve"}
  BY <1>1 DEF Modes
<1>3. /\ hook = "run" => decision = "allowed"
      /\ hook = "block" => decision = "blocked"
      /\ hook = "approve" => decision = "review_timed_out"
  BY DEF Hermes!ScannedDecision
<1> HIDE DEF decision
<1>4. CountedAs(ActionOf(scan, resolved)) = Told(hook, FALSE, resolved)
  BY <1>1, <1>2, <1>3 DEF ActionOf, Observed, CountedAs, Told, Modes
<1> QED
  BY <1>4 DEF decision

LEMMA FailedHeld ==
  ASSUME NEW mode \in Modes, NEW onError \in Policies, NEW unattended \in BOOLEAN,
         NEW resolved \in BOOLEAN
  PROVE  FailedTold(mode, onError, unattended, resolved)
<1> SUFFICES ASSUME NEW failure \in Hermes(mode, onError)!FailureKinds,
                    NEW hook \in {Hermes(mode, onError)!ErrorDirective(failure, unattended),
                                  OpenClaw(mode, onError, IF unattended THEN {"user"} ELSE {})
                                    !ErrorHook(failure, "message")},
                    resolved \in Answered(hook)
             PROVE  CountedAs(ActionOf(
                      [failed |-> TRUE, mode |-> mode, verdict |-> "allow",
                       decision |-> Hermes(mode, onError)!ErrorDecision[hook], snoozed |-> FALSE],
                      resolved)) = Told(hook, TRUE, resolved)
  BY DEF FailedTold
<1> DEFINE decision == Hermes(mode, onError)!ErrorDecision[hook]
<1>1. hook \in {"run", "block", "approve"}
  BY DEF Hermes!ErrorDirective, OpenClaw!ErrorHook
<1>2. /\ hook = "run" => decision = "allowed_on_error"
      /\ hook \in {"block", "approve"} => decision = "blocked_on_error"
  BY DEF Hermes!ErrorDecision
<1>3. resolved => hook = "approve"
  BY DEF Answered
<1> DEFINE scan == [failed |-> TRUE, mode |-> mode, verdict |-> "allow",
                    decision |-> decision, snoozed |-> FALSE]
<1> HIDE DEF decision
<1>4. CountedAs(ActionOf(scan, resolved)) = Told(hook, TRUE, resolved)
  BY <1>1, <1>2, <1>3 DEF ActionOf, CountedAs, Told
<1> QED
  BY <1>4 DEF decision

-----------------------------------------------------------------------------
(* The records that a reading makes of a file.                             *)

(* A finite set of numbers has a greatest element.                          *)
LEMMA FiniteMax ==
  ASSUME NEW S, S \subseteq Nat, IsFiniteSet(S), S # {}
  PROVE  Max(S) \in S
<1> DEFINE A == {n \in Nat : \A T \in SUBSET Nat :
                   IsFiniteSet(T) /\ Cardinality(T) = n => \E b \in Nat : T \subseteq 0..b}
<1>1. 0 \in A
  <2>1. ASSUME NEW T \in SUBSET Nat, IsFiniteSet(T), Cardinality(T) = 0
        PROVE  \E b \in Nat : T \subseteq 0..b
    <3>1. T = {}
      BY <2>1, FS_EmptySet
    <3>2. T \subseteq 0..0
      BY <3>1
    <3> QED
      BY <3>2
  <2> QED
    BY <2>1
<1>2. ASSUME NEW n \in Nat, n \in A
      PROVE  n + 1 \in A
  <2>1. ASSUME NEW T \in SUBSET Nat, IsFiniteSet(T), Cardinality(T) = n + 1
        PROVE  \E b \in Nat : T \subseteq 0..b
    <3>0. T # {}
      <4>1. T = {} => Cardinality(T) = 0
        BY FS_EmptySet
      <4> QED
        BY <2>1, <4>1
    <3>1. PICK x \in T : TRUE
      BY <3>0
    <3>2. IsFiniteSet(T \ {x}) /\ Cardinality(T \ {x}) = n
      <4>1. IsFiniteSet(T \ {x}) /\ Cardinality(T \ {x}) = Cardinality(T) - 1
        BY <2>1, <3>1, FS_RemoveElement
      <4> QED
        BY <2>1, <4>1
    <3>3. PICK b \in Nat : T \ {x} \subseteq 0..b
      BY <1>2, <3>2
    <3>4. b + x \in Nat /\ T \subseteq 0..(b + x)
      <4>1. x \in Nat
        BY <3>1
      <4>2. ASSUME NEW y \in T
            PROVE  y \in 0..(b + x)
        <5>1. y = x \/ y \in 0..b
          BY <3>3
        <5> QED
          BY <4>1, <5>1
      <4> QED
        BY <4>1, <4>2
    <3> QED
      BY <3>4
  <2> QED
    BY <2>1
<1> HIDE DEF A
<1>3. \A n \in Nat : n \in A
  BY <1>1, <1>2, Counting
<1>4. PICK b \in Nat : S \subseteq 0..b
  <2>1. Cardinality(S) \in Nat
    BY FS_CardinalityType
  <2>2. Cardinality(S) \in A
    BY <1>3, <2>1
  <2> QED
    BY <2>2 DEF A
<1> QED
  BY <1>4, MaxFacts

(* The bytes that the writers append, with requests up to n.                *)
Marks == {NewLine} \cup [kind : Kinds, rid : Nat, part : {1, 2}]

(* The records of the first n lines, in their order.                        *)
Keeps(lines, n, recs) ==
  \A i \in 1..n : IsRecord(lines[i]) => \E k \in 1..Len(recs) : recs[k] = RecordOf(lines[i])

Comes(lines, i, recs, k) ==
  /\ IsRecord(lines[i]) /\ recs[k] = RecordOf(lines[i])
  /\ \A j \in 1..(i - 1) : IsRecord(lines[j]) => \E l \in 1..(k - 1) : recs[l] = RecordOf(lines[j])

Follows(lines, n, recs) ==
  /\ recs \in Seq(Records(Nat))
  /\ Keeps(lines, n, recs)
  /\ \A k \in 1..Len(recs) : \E i \in 1..n : Comes(lines, i, recs, k)

LEMMA RecordOfType ==
  ASSUME NEW line \in Seq(Marks), IsRecord(line)
  PROVE  /\ RecordOf(line) \in Records(Nat)
         /\ line[1] = Byte(RecordOf(line), 1) /\ line[2] = Byte(RecordOf(line), 2)
<1>1. Len(line) = 2 /\ line[1].part = 1 /\ line[2].part = 2
      /\ line[1].kind = line[2].kind /\ line[1].rid = line[2].rid
  BY DEF IsRecord
<1>2. line[1] \in Marks /\ line[2] \in Marks
  <2>1. 1 \in 1..Len(line) /\ 2 \in 1..Len(line)
    BY <1>1
  <2> HIDE DEF Marks
  <2> QED
    BY <2>1
<1>3. NewLine.part = 0
  BY DEF NewLine
<1>4. /\ line[1] \in [kind : Kinds, rid : Nat, part : {1, 2}]
      /\ line[2] \in [kind : Kinds, rid : Nat, part : {1, 2}]
  BY <1>1, <1>2, <1>3 DEF Marks
<1> DEFINE one == line[1] two == line[2]
<1>5. /\ one = [kind |-> one.kind, rid |-> one.rid, part |-> 1]
      /\ two = [kind |-> one.kind, rid |-> one.rid, part |-> 2]
      /\ one.kind \in Kinds /\ one.rid \in Nat
  <2>1. ASSUME NEW b \in [kind : Kinds, rid : Nat, part : {1, 2}]
        PROVE  b = [kind |-> b.kind, rid |-> b.rid, part |-> b.part] /\ b.kind \in Kinds /\ b.rid \in Nat
    OBVIOUS
  <2>2. one = [kind |-> one.kind, rid |-> one.rid, part |-> one.part] /\ one.kind \in Kinds /\ one.rid \in Nat
    BY <1>4, <2>1
  <2>3. two = [kind |-> two.kind, rid |-> two.rid, part |-> two.part]
    BY <1>4, <2>1
  <2>4. one.part = 1 /\ two.part = 2 /\ two.kind = one.kind /\ two.rid = one.rid
    BY <1>1
  <2> HIDE DEF one, two
  <2> QED
    BY <2>2, <2>3, <2>4
<1> HIDE DEF one, two
<1>6. RecordOf(line) = [kind |-> one.kind, rid |-> one.rid]
  BY DEF RecordOf, one
<1>7. one = Byte(RecordOf(line), 1) /\ two = Byte(RecordOf(line), 2)
  BY <1>5, <1>6 DEF Byte
<1> QED
  BY <1>5, <1>6, <1>7 DEF Records, one, two

LEMMA FollowsNext ==
  ASSUME NEW lines \in Seq(Seq(Marks)), NEW n \in Nat, n + 1 \in 1..Len(lines),
         NEW recs, Follows(lines, n, recs)
  PROVE  Follows(lines, n + 1, KeepRecord(recs, lines[n + 1]))
<1> DEFINE line == lines[n + 1]
<1>1. line \in Seq(Marks)
  OBVIOUS
<1>0. recs \in Seq(Records(Nat)) /\ Len(recs) \in Nat
  BY DEF Follows
<1>2. CASE ~IsRecord(line)
  <2>1. KeepRecord(recs, line) = recs
    BY <1>2 DEF KeepRecord
  <2>2. Keeps(lines, n + 1, recs)
    <3>1. ASSUME NEW i \in 1..(n + 1), IsRecord(lines[i])
          PROVE  \E k \in 1..Len(recs) : recs[k] = RecordOf(lines[i])
      <4>1. i \in 1..n
        BY <1>2, <3>1
      <4> QED
        BY <3>1, <4>1 DEF Follows, Keeps
    <3> QED
      BY <3>1 DEF Keeps
  <2>3. \A i \in 1..n : i \in 1..(n + 1)
    OBVIOUS
  <2> QED
    BY <1>0, <2>1, <2>2, <2>3 DEF Follows
<1>3. CASE IsRecord(line)
  <2> DEFINE rec == RecordOf(line)
             more == Append(recs, rec)
  <2>1. rec \in Records(Nat)
    BY <1>1, <1>3, RecordOfType
  <2>2. KeepRecord(recs, line) = more
    BY <1>3 DEF KeepRecord
  <2> HIDE DEF rec
  <2>3. /\ more \in Seq(Records(Nat)) /\ Len(more) = Len(recs) + 1
        /\ \A k \in 1..Len(recs) : more[k] = recs[k]
        /\ more[Len(recs) + 1] = rec
    BY <1>0, <2>1
  <2> HIDE DEF more
  <2> DEFINE m == Len(recs)
  <2>0. m \in Nat
    BY <1>0
  <2> HIDE DEF m
  <2>4. ASSUME NEW i \in 1..n, IsRecord(lines[i])
        PROVE  \E k \in 1..m : more[k] = RecordOf(lines[i])
    <3>1. PICK k \in 1..m : recs[k] = RecordOf(lines[i])
      BY <2>4 DEF Follows, Keeps, m
    <3> QED
      BY <2>3, <3>1 DEF m
  <2>5. Keeps(lines, n + 1, more)
    <3>1. ASSUME NEW i \in 1..(n + 1), IsRecord(lines[i])
          PROVE  \E k \in 1..Len(more) : more[k] = RecordOf(lines[i])
      <4>1. CASE i \in 1..n
        <5>1. PICK k \in 1..m : more[k] = RecordOf(lines[i])
          BY <2>4, <3>1, <4>1
        <5>2. k \in 1..Len(more)
          BY <2>0, <2>3, <5>1 DEF m
        <5> QED
          BY <5>1, <5>2
      <4>2. CASE i = n + 1
        <5>1. m + 1 \in 1..Len(more)
          BY <2>0, <2>3 DEF m
        <5>2. more[m + 1] = RecordOf(lines[i])
          BY <2>3, <4>2 DEF rec, m
        <5> QED
          BY <5>1, <5>2
      <4> QED
        BY <4>1, <4>2
    <3> QED
      BY <3>1 DEF Keeps
  <2>6. ASSUME NEW k \in 1..Len(more)
        PROVE  \E i \in 1..(n + 1) : Comes(lines, i, more, k)
    <3>1. CASE k \in 1..m
      <4>1. PICK i \in 1..n : Comes(lines, i, recs, k)
        BY <3>1 DEF Follows, m
      <4>2. i \in 1..(n + 1)
        OBVIOUS
      <4>3. IsRecord(lines[i]) /\ more[k] = RecordOf(lines[i])
        BY <2>3, <3>1, <4>1 DEF Comes, m
      <4>4. ASSUME NEW j \in 1..(i - 1), IsRecord(lines[j])
            PROVE  \E l \in 1..(k - 1) : more[l] = RecordOf(lines[j])
        <5>1. PICK l \in 1..(k - 1) : recs[l] = RecordOf(lines[j])
          BY <4>1, <4>4 DEF Comes
        <5>2. l \in 1..m
          BY <2>0, <3>1, <5>1
        <5> QED
          BY <2>3, <5>1, <5>2 DEF m
      <4> QED
        BY <4>2, <4>3, <4>4 DEF Comes
    <3>2. CASE k = m + 1
      <4>1. n + 1 \in 1..(n + 1) /\ n + 1 - 1 = n /\ k - 1 = m
        BY <2>0, <3>2
      <4>2. IsRecord(lines[n + 1]) /\ more[k] = RecordOf(lines[n + 1])
        BY <1>3, <2>3, <3>2 DEF rec, m
      <4>3. ASSUME NEW j \in 1..(n + 1 - 1), IsRecord(lines[j])
            PROVE  \E l \in 1..(k - 1) : more[l] = RecordOf(lines[j])
        BY <2>4, <4>1, <4>3
      <4> QED
        BY <4>1, <4>2, <4>3 DEF Comes
    <3> QED
      BY <2>0, <2>3, <3>1, <3>2 DEF m
  <2> QED
    BY <2>2, <2>3, <2>5, <2>6 DEF Follows
<1> QED
  BY <1>2, <1>3

LEMMA ParsedFollows ==
  ASSUME NEW lines \in Seq(Seq(Marks))
  PROVE  Follows(lines, Len(lines), Parsed(lines))
<1> DEFINE n == Len(lines)
           A == {k \in Nat : k <= n => Follows(lines, k, Upto(KeepFold, <<>>, lines, k))}
<1>1. n \in Nat /\ Long(lines, n)
  BY DEF Long
<1>2. /\ Unrolls(KeepFold, <<>>, lines, n)
      /\ Parsed(lines) = Upto(KeepFold, <<>>, lines, n)
  BY <1>1, UptoFacts, KeepIter
<1>3. 0 \in A
  <2>1. Follows(lines, 0, <<>>)
    BY DEF Follows, Keeps
  <2> QED
    BY <1>2, <2>1 DEF Unrolls
<1>4. ASSUME NEW k \in Nat, k \in A
      PROVE  k + 1 \in A
  <2> SUFFICES ASSUME k + 1 <= n
               PROVE  Follows(lines, k + 1, Upto(KeepFold, <<>>, lines, k + 1))
    OBVIOUS
  <2>1. k + 1 \in 1..n /\ k + 1 - 1 = k /\ k <= n
    BY <1>1
  <2>2. Upto(KeepFold, <<>>, lines, k + 1)
          = Applied(KeepFold, Upto(KeepFold, <<>>, lines, k), lines[k + 1])
    BY <1>2, <2>1 DEF Unrolls
  <2>3. Applied(KeepFold, Upto(KeepFold, <<>>, lines, k), lines[k + 1])
          = KeepRecord(Upto(KeepFold, <<>>, lines, k), lines[k + 1])
    BY DEF Applied, KeepFold
  <2>4. Follows(lines, k, Upto(KeepFold, <<>>, lines, k))
    BY <1>4, <2>1
  <2> QED
    BY <2>1, <2>2, <2>3, <2>4, FollowsNext
<1> HIDE DEF A
<1>5. n \in A
  BY <1>1, <1>3, <1>4, Counting
<1> QED
  BY <1>1, <1>2, <1>5 DEF A

-----------------------------------------------------------------------------
(* What is shown of the records.                                           *)

ScanOf(rid) == [kind |-> "scan", rid |-> rid]
ResolutionOf(rid) == [kind |-> "resolution", rid |-> rid]

ShownEntries == [rid : Nat, resolved : BOOLEAN]
ShownStates == [resolved : SUBSET Nat, seen : SUBSET Nat, shown : Seq(ShownEntries)]

(* An entry is that of a scan among the first n records, with its answer if *)
(* that came before it.                                                    *)
ShownFrom(recs, n, e) ==
  \E k \in 1..n :
    /\ recs[k] = ScanOf(e.rid)
    /\ (\E l \in 1..(k - 1) : recs[l] = ResolutionOf(e.rid)) => e.resolved

Taken(recs, n, r) ==
  \A k \in 1..n : IF recs[k].kind = "resolution" THEN recs[k].rid \in r.resolved
                  ELSE recs[k].rid \in r.seen

ShowsTo(recs, n, limit, matches, r) ==
  /\ r \in ShownStates
  /\ \A i \in 1..Len(r.shown) : r.shown[i].rid \in r.seen /\ ShownFrom(recs, n, r.shown[i])
  /\ \A i, j \in 1..Len(r.shown) : r.shown[i].rid = r.shown[j].rid => i = j
  /\ \A x \in r.seen \cap matches : \E i \in 1..Len(r.shown) : r.shown[i].rid = x
  /\ Len(r.shown) < limit => Taken(recs, n, r)

LEMMA ShownFromNext ==
  ASSUME NEW recs, NEW n \in Nat, NEW e, ShownFrom(recs, n, e)
  PROVE  ShownFrom(recs, n + 1, e)
<1>1. \A k \in 1..n : k \in 1..(n + 1)
  OBVIOUS
<1> QED
  BY <1>1 DEF ShownFrom

LEMMA ShowsNext ==
  ASSUME NEW recs \in Seq(Records(Nat)), NEW n \in Nat, n + 1 \in 1..Len(recs),
         NEW limit \in Nat, NEW matches, NEW r, ShowsTo(recs, n, limit, matches, r)
  PROVE  ShowsTo(recs, n + 1, limit, matches, TakeRecord(r, recs[n + 1], limit, matches))
<1> DEFINE rec == recs[n + 1]
           next == TakeRecord(r, rec, limit, matches)
<1>1. rec \in Records(Nat)
  OBVIOUS
<1>2. rec.rid \in Nat /\ rec.kind \in Kinds
  BY <1>1 DEF Records
<1>3. r \in ShownStates
  BY DEF ShowsTo
<1>4. r.shown \in Seq(ShownEntries) /\ r.resolved \in SUBSET Nat /\ r.seen \in SUBSET Nat
      /\ Len(r.shown) \in Nat
  BY <1>3 DEF ShownStates
<1>5. \A i \in 1..Len(r.shown) : r.shown[i].rid \in r.seen /\ ShownFrom(recs, n + 1, r.shown[i])
  BY ShownFromNext DEF ShowsTo
<1>6. \A k \in 1..(n + 1) : k \in 1..n \/ k = n + 1
  OBVIOUS
<1> HIDE DEF rec
<1>7. CASE Len(r.shown) >= limit
  <2>1. next = r /\ ~(Len(r.shown) < limit)
    BY <1>4, <1>7 DEF TakeRecord
  <2> QED
    BY <1>5, <2>1 DEF ShowsTo, rec
<1>8. CASE Len(r.shown) < limit /\ rec.kind = "resolution"
  <2>1. next = [r EXCEPT !.resolved = @ \cup {rec.rid}]
    BY <1>4, <1>8 DEF TakeRecord
  <2>2. /\ next.shown = r.shown /\ next.seen = r.seen /\ next.resolved = r.resolved \cup {rec.rid}
        /\ next \in ShownStates
    BY <1>2, <1>3, <2>1 DEF ShownStates
  <2>3. Taken(recs, n + 1, next)
    <3>1. Taken(recs, n, r)
      BY <1>8 DEF ShowsTo
    <3> QED
      BY <1>6, <1>8, <2>2, <3>1 DEF Taken, rec
  <2> HIDE DEF next
  <2> QED
    BY <1>5, <2>2, <2>3 DEF ShowsTo, next, rec
<1>9. CASE Len(r.shown) < limit /\ rec.kind # "resolution" /\ rec.rid \in r.seen
  <2>1. next = r
    BY <1>4, <1>9 DEF TakeRecord
  <2>2. Taken(recs, n + 1, r)
    <3>1. Taken(recs, n, r)
      BY <1>9 DEF ShowsTo
    <3> QED
      BY <1>6, <1>9, <3>1 DEF Taken, rec
  <2> QED
    BY <1>5, <2>1, <2>2 DEF ShowsTo, rec
<1>10. CASE Len(r.shown) < limit /\ rec.kind # "resolution" /\ rec.rid \notin r.seen
  <2> DEFINE entry == [rid |-> rec.rid, resolved |-> rec.rid \in r.resolved]
             m == Len(r.shown)
  <2>0. m \in Nat /\ entry \in ShownEntries /\ entry.rid = rec.rid
    BY <1>2, <1>4 DEF ShownEntries
  <2>1. next = [r EXCEPT !.seen = @ \cup {rec.rid},
                         !.shown = IF rec.rid \in matches THEN Append(@, entry) ELSE @]
    BY <1>4, <1>10 DEF TakeRecord
  <2>2. Taken(recs, n, r)
    BY <1>10 DEF ShowsTo
  <2>3. rec = ScanOf(rec.rid)
    BY <1>1, <1>10 DEF Records, Kinds, ScanOf
  <2>4. ShownFrom(recs, n + 1, entry)
    <3>1. ASSUME NEW l \in 1..(n + 1 - 1), recs[l] = ResolutionOf(rec.rid)
          PROVE  entry.resolved
      <4>1. l \in 1..n
        OBVIOUS
      <4>2. recs[l].kind = "resolution" /\ recs[l].rid = rec.rid
        BY <3>1 DEF ResolutionOf
      <4> QED
        BY <2>2, <4>1, <4>2 DEF Taken
    <3>2. n + 1 \in 1..(n + 1)
      OBVIOUS
    <3> HIDE DEF entry
    <3> QED
      BY <2>0, <2>3, <3>1, <3>2 DEF ShownFrom, rec
  <2>5. Taken(recs, n + 1, next)
    <3>1. next.resolved = r.resolved /\ next.seen = r.seen \cup {rec.rid}
      BY <1>3, <2>1 DEF ShownStates
    <3> HIDE DEF next
    <3> QED
      BY <1>6, <1>10, <2>2, <3>1 DEF Taken, rec
  <2>6. CASE rec.rid \notin matches
    <3>1. /\ next.shown = r.shown /\ next.seen = r.seen \cup {rec.rid}
          /\ next.resolved = r.resolved /\ next \in ShownStates
      BY <1>2, <1>3, <2>1, <2>6 DEF ShownStates
    <3>2. \A x \in next.seen \cap matches : x \in r.seen \cap matches
      BY <2>6, <3>1
    <3> HIDE DEF next
    <3>3. \A x \in next.seen \cap matches : \E i \in 1..Len(r.shown) : r.shown[i].rid = x
      BY <3>2 DEF ShowsTo
    <3> QED
      BY <1>5, <2>5, <3>1, <3>3 DEF ShowsTo, next, rec
  <2>7. CASE rec.rid \in matches
    <3> DEFINE more == Append(r.shown, entry)
    <3> HIDE DEF entry
    <3>1. /\ more \in Seq(ShownEntries) /\ Len(more) = m + 1
          /\ \A i \in 1..m : more[i] = r.shown[i]
          /\ more[m + 1] = entry
      BY <1>4, <2>0
    <3> HIDE DEF more
    <3>2. /\ next.shown = more /\ next.seen = r.seen \cup {rec.rid}
          /\ next.resolved = r.resolved /\ next \in ShownStates
      <4>1. next = [r EXCEPT !.seen = @ \cup {rec.rid}, !.shown = more]
        BY <2>1, <2>7 DEF more
      <4>2. rec.rid \in Nat
        BY <1>2
      <4> HIDE DEF next, rec
      <4> QED
        BY <1>3, <3>1, <4>1, <4>2 DEF ShownStates
    <3> HIDE DEF next
    <3>3. \A i \in 1..(m + 1) : i \in 1..m \/ i = m + 1
      BY <2>0
    <3> HIDE DEF m
    <3>4. ASSUME NEW i \in 1..(m + 1)
          PROVE  more[i].rid \in next.seen /\ ShownFrom(recs, n + 1, more[i])
      <4>1. CASE i \in 1..m
        BY <1>5, <3>1, <3>2, <4>1 DEF m
      <4>2. CASE i = m + 1
        BY <2>0, <2>4, <3>1, <3>2, <4>2
      <4> QED
        BY <3>3, <4>1, <4>2
    <3>5. ASSUME NEW i \in 1..(m + 1), NEW j \in 1..(m + 1), more[i].rid = more[j].rid
          PROVE  i = j
      <4>1. \A k \in 1..m : more[k].rid \in r.seen
        BY <1>5, <3>1 DEF m
      <4>2. more[m + 1].rid \notin r.seen
        BY <1>10, <2>0, <3>1
      <4>3. CASE i \in 1..m /\ j \in 1..m
        BY <3>1, <3>5, <4>3 DEF ShowsTo, m
      <4> QED
        BY <3>3, <3>5, <4>1, <4>2, <4>3
    <3>6. ASSUME NEW x \in next.seen \cap matches
          PROVE  \E i \in 1..(m + 1) : more[i].rid = x
      <4>1. CASE x = rec.rid
        <5>1. m + 1 \in 1..(m + 1)
          BY <2>0
        <5> QED
          BY <2>0, <3>1, <4>1, <5>1
      <4>2. CASE x \in r.seen
        <5>1. PICK i \in 1..m : r.shown[i].rid = x
          BY <3>6, <4>2 DEF ShowsTo, m
        <5>2. i \in 1..(m + 1)
          BY <2>0
        <5> QED
          BY <3>1, <5>1, <5>2
      <4> QED
        BY <3>2, <3>6, <4>1, <4>2
    <3> QED
      BY <2>5, <3>1, <3>2, <3>4, <3>5, <3>6 DEF ShowsTo, next, rec
  <2> QED
    BY <2>6, <2>7
<1> QED
  BY <1>4, <1>7, <1>8, <1>9, <1>10

(* The table: each scan once, with its answer if that was read before it; of *)
(* the scans that match, all if there is room.                              *)
LEMMA ShownFacts ==
  ASSUME NEW recs \in Seq(Records(Nat)), NEW limit \in Nat, NEW matches
  PROVE  LET shown == RecentScans(recs, limit, matches)
         IN  /\ shown \in Seq(ShownEntries)
             /\ \A i \in 1..Len(shown) : ShownFrom(recs, Len(recs), shown[i])
             /\ \A i, j \in 1..Len(shown) : shown[i].rid = shown[j].rid => i = j
             /\ Len(shown) < limit =>
                  \A k \in 1..Len(recs) :
                    recs[k].kind = "scan" /\ recs[k].rid \in matches =>
                      \E i \in 1..Len(shown) : shown[i].rid = recs[k].rid
<1> DEFINE n == Len(recs)
           fold == ShowFold(limit, matches)
           base == [resolved |-> {}, seen |-> {}, shown |-> <<>>]
           A == {k \in Nat : k <= n => ShowsTo(recs, k, limit, matches, Upto(fold, base, recs, k))}
<1>1. n \in Nat /\ Long(recs, n)
  BY DEF Long
<1>2. /\ Unrolls(fold, base, recs, n)
      /\ RecentScans(recs, limit, matches) = Upto(fold, base, recs, n).shown
  BY <1>1, UptoFacts, ShowIter
<1>3. 0 \in A
  <2>1. base \in ShownStates /\ Len(base.shown) = 0 /\ base.seen = {}
    BY DEF ShownStates
  <2> HIDE DEF base
  <2>2. ShowsTo(recs, 0, limit, matches, base)
    BY <2>1 DEF ShowsTo, Taken
  <2> QED
    BY <1>2, <2>2 DEF Unrolls
<1>4. ASSUME NEW k \in Nat, k \in A
      PROVE  k + 1 \in A
  <2> SUFFICES ASSUME k + 1 <= n
               PROVE  ShowsTo(recs, k + 1, limit, matches, Upto(fold, base, recs, k + 1))
    OBVIOUS
  <2>1. k + 1 \in 1..n /\ k + 1 - 1 = k /\ k <= n
    BY <1>1
  <2> DEFINE r == Upto(fold, base, recs, k)
  <2>2. Upto(fold, base, recs, k + 1) = Applied(fold, r, recs[k + 1])
    BY <1>2, <2>1 DEF Unrolls
  <2>3. Applied(fold, r, recs[k + 1]) = TakeRecord(r, recs[k + 1], limit, matches)
    BY DEF Applied, ShowFold
  <2>4. ShowsTo(recs, k, limit, matches, r)
    BY <1>4, <2>1
  <2> HIDE DEF r, base, fold
  <2> QED
    BY <2>1, <2>2, <2>3, <2>4, ShowsNext
<1> HIDE DEF A
<1>5. n \in A
  BY <1>1, <1>3, <1>4, Counting
<1> DEFINE r == Upto(fold, base, recs, n)
           shown == RecentScans(recs, limit, matches)
<1>6. ShowsTo(recs, n, limit, matches, r) /\ shown = r.shown
  BY <1>1, <1>2, <1>5 DEF A
<1> HIDE DEF r, shown
<1>7. shown \in Seq(ShownEntries)
  BY <1>6 DEF ShowsTo, ShownStates
<1>8. ASSUME Len(shown) < limit, NEW k \in 1..n, recs[k].kind = "scan", recs[k].rid \in matches
      PROVE  \E i \in 1..Len(shown) : shown[i].rid = recs[k].rid
  <2>1. recs[k].rid \in r.seen
    BY <1>6, <1>8 DEF ShowsTo, Taken
  <2> QED
    BY <1>6, <1>8, <2>1 DEF ShowsTo
<1>9. /\ \A i \in 1..Len(shown) : ShownFrom(recs, n, shown[i])
      /\ \A i, j \in 1..Len(shown) : shown[i].rid = shown[j].rid => i = j
  BY <1>6 DEF ShowsTo
<1> QED
  BY <1>7, <1>8, <1>9 DEF shown

-----------------------------------------------------------------------------
(* The lines of a file are in the order of its bytes.                      *)

(* What is on lines is in the text, and what is on a later line is later.   *)
Before(text, lines, b, q) ==
  \A a \in 1..(b - 1) : \A i \in 1..Len(lines[a]) :
    \E p \in 1..(q - 1) : text[p] = lines[a][i]

Reached(text, lines, b, x) ==
  \E q \in 1..Len(text) : text[q] = x /\ Before(text, lines, b, q)

Held(text, lines) ==
  \A b \in 1..Len(lines) : \A j \in 1..Len(lines[b]) : Reached(text, lines, b, lines[b][j])

LEMMA ReachedOn ==
  ASSUME NEW T, NEW text \in Seq(T), NEW c \in T, NEW x, NEW y, NEW b \in Nat, NEW e,
         Reached(text, x, b, e), \A a \in 1..(b - 1) : y[a] = x[a]
  PROVE  Reached(Append(text, c), y, b, e)
<1> DEFINE more == Append(text, c)
           n == Len(text)
<1>1. n \in Nat /\ Len(more) = n + 1 /\ \A p \in 1..n : more[p] = text[p]
  OBVIOUS
<1>2. PICK q \in 1..n : text[q] = e /\ Before(text, x, b, q)
  BY DEF Reached
<1> HIDE DEF more, n
<1>3. ASSUME NEW a \in 1..(b - 1), NEW i \in 1..Len(y[a])
      PROVE  \E p \in 1..(q - 1) : more[p] = y[a][i]
  <2>1. y[a] = x[a]
    OBVIOUS
  <2>2. PICK p \in 1..(q - 1) : text[p] = x[a][i]
    BY <1>2, <2>1 DEF Before
  <2>3. p \in 1..n
    BY <1>1
  <2> QED
    BY <1>1, <2>1, <2>2, <2>3
<1>4. q \in 1..Len(more) /\ more[q] = e
  BY <1>1, <1>2
<1> QED
  BY <1>3, <1>4 DEF Reached, Before, more

LEMMA ReachedAt ==
  ASSUME NEW text, NEW lines, NEW b, NEW x, NEW q \in 1..Len(text), text[q] = x,
         Before(text, lines, b, q)
  PROVE  Reached(text, lines, b, x)
  BY DEF Reached, Before

LEMMA HeldNext ==
  ASSUME NEW T, NEW text \in Seq(T), NEW c \in T, Held(text, Split(text))
  PROVE  Held(Append(text, c), Split(Append(text, c)))
<1> DEFINE more == Append(text, c)
           x == Split(text)
           y == Split(more)
           n == Len(text)
           m == Len(x)
<1>1. /\ more \in Seq(T) /\ Len(more) = n + 1 /\ more[n + 1] = c
      /\ \A p \in 1..n : more[p] = text[p]
      /\ n \in Nat
  OBVIOUS
<1>2. x \in Seq(Seq(T)) /\ x # <<>> /\ y = AddByte(x, c)
  BY SplitType, SplitAppend
<1>3. /\ y \in Seq(Seq(T)) /\ y # <<>>
      /\ c = NewLine => Len(y) = Len(x) + 1 /\ (\A i \in 1..Len(x) : y[i] = x[i])
                        /\ y[Len(x) + 1] = <<>>
      /\ c # NewLine => Len(y) = Len(x) /\ (\A i \in 1..(Len(x) - 1) : y[i] = x[i])
                        /\ y[Len(x)] = Append(x[Len(x)], c)
  <2>1. ASSUME NEW z \in Seq(Seq(T)), z # <<>>
        PROVE  /\ AddByte(z, c) \in Seq(Seq(T)) /\ AddByte(z, c) # <<>>
               /\ c = NewLine => Len(AddByte(z, c)) = Len(z) + 1
                                 /\ (\A i \in 1..Len(z) : AddByte(z, c)[i] = z[i])
                                 /\ AddByte(z, c)[Len(z) + 1] = <<>>
               /\ c # NewLine => Len(AddByte(z, c)) = Len(z)
                                 /\ (\A i \in 1..(Len(z) - 1) : AddByte(z, c)[i] = z[i])
                                 /\ AddByte(z, c)[Len(z)] = Append(z[Len(z)], c)
    BY <2>1, AddByteType
  <2> HIDE DEF x, y
  <2> QED
    BY <1>2, <2>1
<1>4. Held(text, x)
  OBVIOUS
<1> HIDE DEF more, x, y, n
<1>5. m \in Nat \ {0}
  BY <1>2
<1>6. ASSUME NEW b \in 1..m, NEW j \in 1..Len(x[b]), \A a \in 1..(b - 1) : y[a] = x[a]
      PROVE  Reached(more, y, b, x[b][j])
  <2>1. Reached(text, x, b, x[b][j])
    BY <1>4 DEF Held
  <2>2. b \in Nat
    OBVIOUS
  <2> QED
    BY <1>6, <2>1, <2>2, ReachedOn DEF more
<1>7. CASE c = NewLine
  <2>1. Len(y) = m + 1 /\ (\A i \in 1..m : y[i] = x[i]) /\ y[m + 1] = <<>>
    BY <1>3, <1>7
  <2> SUFFICES ASSUME NEW b \in 1..Len(y), NEW j \in 1..Len(y[b])
               PROVE  Reached(more, y, b, y[b][j])
    BY DEF Held, more, y
  <2>2. b # m + 1
    <3>1. b = m + 1 => Len(y[b]) = 0
      BY <2>1
    <3> QED
      BY <3>1
  <2> HIDE DEF m
  <2>3. b \in 1..m /\ \A a \in 1..(b - 1) : a \in 1..m
    BY <1>5, <2>1, <2>2
  <2>4. y[b] = x[b] /\ \A a \in 1..(b - 1) : y[a] = x[a]
    BY <2>1, <2>3
  <2> QED
    BY <1>6, <2>3, <2>4
<1>8. CASE c # NewLine
  <2>1. Len(y) = m /\ (\A i \in 1..(m - 1) : y[i] = x[i]) /\ y[m] = Append(x[m], c)
    BY <1>3, <1>8
  <2> SUFFICES ASSUME NEW b \in 1..Len(y), NEW j \in 1..Len(y[b])
               PROVE  Reached(more, y, b, y[b][j])
    BY DEF Held, more, y
  <2> DEFINE last == x[m]
             k == Len(last)
  <2>2. last \in Seq(T) /\ k \in Nat
    <3>1. m \in 1..Len(x)
      BY <1>5
    <3>2. last \in Seq(T)
      BY <1>2, <3>1
    <3> HIDE DEF last
    <3> QED
      BY <3>2
  <2> DEFINE longer == Append(last, c)
  <2> HIDE DEF last
  <2>3. /\ longer \in Seq(T) /\ Len(longer) = k + 1
        /\ longer[k + 1] = c /\ \A i \in 1..k : longer[i] = last[i]
    BY <2>2
  <2>4. b \in 1..m /\ (\A a \in 1..(b - 1) : a \in 1..m /\ a \in 1..(m - 1))
    BY <1>5, <2>1
  <2>5. (\A a \in 1..(b - 1) : y[a] = x[a]) /\ y[m] = longer
    BY <2>1, <2>4 DEF last
  <2> HIDE DEF k, longer
  <2>6. CASE b = m /\ j = k + 1
    <3>1. y[b][j] = c
      BY <2>3, <2>5, <2>6
    <3>2. ASSUME NEW a \in 1..(b - 1), NEW i \in 1..Len(y[a])
          PROVE  \E p \in 1..n : more[p] = y[a][i]
      <4>1. y[a] = x[a] /\ a \in 1..Len(x)
        BY <2>4, <2>5
      <4>2. Reached(text, x, a, y[a][i])
        BY <1>4, <4>1 DEF Held
      <4>3. PICK q \in 1..n : text[q] = y[a][i]
        BY <4>2 DEF Reached, n
      <4> QED
        BY <1>1, <4>3
    <3> DEFINE s == n + 1
    <3>3. s \in 1..Len(more) /\ s - 1 = n /\ more[s] = c
      BY <1>1
    <3> DEFINE z == y[b][j]
    <3> HIDE DEF z, n, s
    <3>4. Before(more, y, b, s)
      <4> SUFFICES ASSUME NEW a \in 1..(b - 1), NEW i \in 1..Len(y[a])
                   PROVE  \E p \in 1..(s - 1) : more[p] = y[a][i]
        BY DEF Before
      <4>1. PICK p \in 1..n : more[p] = y[a][i]
        BY <3>2
      <4> QED
        BY <3>3, <4>1
    <3>5. more[s] = z
      BY <3>1, <3>3 DEF z
    <3>6. Reached(more, y, b, z)
      BY <3>3, <3>4, <3>5, ReachedAt
    <3> QED
      BY <3>6 DEF z
  <2>7. CASE ~(b = m /\ j = k + 1)
    <3>1. j \in 1..Len(x[b]) /\ y[b][j] = x[b][j]
      <4>1. CASE b = m
        <5>1. j \in 1..(k + 1) /\ j # k + 1
          BY <2>3, <2>5, <2>7, <4>1
        <5>2. j \in 1..k
          BY <2>2, <5>1
        <5> QED
          BY <2>3, <2>5, <4>1, <5>2 DEF last, k
      <4>2. CASE b # m
        <5>1. b \in 1..(m - 1)
          BY <1>5, <2>4, <4>2
        <5> QED
          BY <2>1, <5>1
      <4> QED
        BY <4>1, <4>2
    <3> QED
      BY <1>6, <2>4, <2>5, <3>1
  <2> QED
    BY <2>6, <2>7
<1> QED
  BY <1>7, <1>8

LEMMA LinesHeld ==
  ASSUME NEW T, NEW text \in Seq(T)
  PROVE  Held(text, Split(text))
<1> DEFINE A == {t \in Seq(T) : Held(t, Split(t))}
<1>1. <<>> \in A
  <2>1. Split(<<>>) = << <<>> >>
    BY SplitEmpty
  <2>2. Held(<<>>, << <<>> >>)
    BY DEF Held
  <2> QED
    BY <2>1, <2>2
<1>2. ASSUME NEW t \in Seq(T), NEW c \in T, t \in A
      PROVE  Append(t, c) \in A
  BY <1>2, HeldNext
<1> HIDE DEF A
<1>3. text \in A
  BY <1>1, <1>2, Appending
<1> QED
  BY <1>3 DEF A

(* The last lines of a file, newest first.                                 *)
Newest(lines, read) ==
  /\ Len(read) <= Len(lines)
  /\ \A i \in 1..Len(read) : read[i] = lines[Len(lines) - i + 1]

LEMMA LastLinesNewest ==
  ASSUME NEW T, NEW text \in Seq(T), NEW budget \in Nat
  PROVE  /\ LastLines(text, budget) \in Seq(Seq(T))
         /\ Newest(Split(text), LastLines(text, budget))
         /\ budget >= Len(text) => Len(LastLines(text, budget)) = Len(Split(text))
<1> DEFINE n == Len(text)
           s == Split(text)
           read == LastLines(text, budget)
<1>0. n \in Nat /\ s \in Seq(Seq(T)) /\ s # <<>>
  BY SplitType
<1>1. CASE budget >= n
  <2>1. read = Reverse(s)
    BY <1>1 DEF LastLines
  <2> HIDE DEF s, read
  <2>2. /\ Reverse(s) \in Seq(Seq(T)) /\ Len(Reverse(s)) = Len(s)
        /\ \A i \in 1..Len(s) : Reverse(s)[i] = s[Len(s) - i + 1]
    BY <1>0, ReverseConcat
  <2>3. Len(s) <= Len(s)
    BY <1>0
  <2>4. Newest(s, read)
    BY <2>1, <2>2, <2>3 DEF Newest
  <2> QED
    BY <2>1, <2>2, <2>4 DEF s, read
<1>2. CASE ~(budget >= n)
  <2> DEFINE from == n - budget
             u == SubSeq(text, 0 + 1, from)
             v == SubSeq(text, from + 1, n)
             x == Split(u)
             y == Split(v)
  <2>1. from \in 0..n /\ 0 \in 0..n /\ n \in 0..n /\ 0 <= from /\ from <= n /\ from \in Nat
        /\ from + (n - from) = n
    BY <1>0, <1>2
  <2>2. Behind(T, text, 0, from, u) /\ Behind(T, text, from, n, v)
    BY <2>1, BehindCut
  <2>3. read = Reverse(Tail(y))
    BY <1>2 DEF LastLines
  <2> HIDE DEF from, u, v, n
  <2>4. u \in Seq(T) /\ v \in Seq(T) /\ text = u \o v
    <3>1. u \in Seq(T) /\ Len(u) = from /\ \A i \in 1..from : u[i] = text[i]
      BY <2>1, <2>2 DEF Behind
    <3>2. v \in Seq(T) /\ Len(v) = n - from /\ \A i \in 1..(n - from) : v[i] = text[from + i]
      BY <2>2 DEF Behind
    <3> DEFINE c == u \o v
    <3>3. /\ c \in Seq(T) /\ Len(c) = Len(u) + Len(v)
          /\ \A i \in 1..(Len(u) + Len(v)) : c[i] = IF i <= Len(u) THEN u[i] ELSE v[i - Len(u)]
      BY <3>1, <3>2, ConcatFacts
    <3> HIDE DEF c
    <3>4. Len(c) = n
      BY <1>0, <2>1, <3>1, <3>2, <3>3
    <3>5. ASSUME NEW i \in 1..n
          PROVE  text[i] = c[i]
      <4>1. c[i] = IF i <= from THEN u[i] ELSE v[i - from]
        BY <3>1, <3>3, <3>4
      <4>2. CASE i <= from
        <5>1. i \in 1..from
          BY <4>2
        <5> QED
          BY <3>1, <4>1, <4>2, <5>1
      <4>3. CASE ~(i <= from)
        <5>1. i - from \in 1..(n - from) /\ from + (i - from) = i
          BY <1>0, <2>1, <4>3
        <5> QED
          BY <3>2, <4>1, <4>3, <5>1
      <4> QED
        BY <4>2, <4>3
    <3>6. text = c
      BY <3>3, <3>4, <3>5, SameSeq DEF n
    <3> QED
      BY <3>1, <3>2, <3>6 DEF c
  <2>5. s = Join(x, y)
    BY <2>4, SplitConcat
  <2>6. x \in Seq(Seq(T)) /\ x # <<>> /\ y \in Seq(Seq(T)) /\ y # <<>>
    BY <2>4, SplitType
  <2> HIDE DEF x, y, s, read
  <2>7. Joined(T, x, y, s)
    BY <2>5, <2>6, JoinFacts
  <2> DEFINE t == Tail(y)
             r == Reverse(t)
             a == Len(x)
             b == Len(y)
  <2>8. a \in Nat \ {0} /\ b \in Nat \ {0}
    BY <2>6
  <2>9. t \in Seq(Seq(T)) /\ Len(t) = b - 1 /\ \A i \in 1..(b - 1) : t[i] = y[i + 1]
    BY <2>6, TailFacts
  <2> HIDE DEF t
  <2>10. r \in Seq(Seq(T)) /\ Len(r) = Len(t) /\ \A i \in 1..Len(t) : r[i] = t[Len(t) - i + 1]
    BY <2>9, ReverseConcat
  <2>11. /\ Len(s) = a + b - 1
         /\ \A i \in (a + 1)..(a + b - 1) : s[i] = y[i - a + 1]
    BY <2>7 DEF Joined
  <2>12. read = r
    BY <2>3 DEF t
  <2> HIDE DEF a, b, r
  <2>13. Len(read) = b - 1 /\ Len(read) <= Len(s)
    BY <2>8, <2>9, <2>10, <2>11, <2>12
  <2>14. ASSUME NEW i \in 1..(b - 1)
         PROVE  read[i] = s[Len(s) - i + 1]
    <3>1. read[i] = t[b - 1 - i + 1]
      BY <2>9, <2>10, <2>12
    <3>2. b - 1 - i + 1 \in 1..(b - 1) /\ b - 1 - i + 1 + 1 = b - i + 1
      BY <2>8
    <3>3. read[i] = y[b - i + 1]
      BY <2>9, <3>1, <3>2
    <3> DEFINE k == Len(s) - i + 1
    <3>4. k \in (a + 1)..(a + b - 1) /\ k - a + 1 = b - i + 1
      BY <2>8, <2>11
    <3> HIDE DEF k
    <3>5. s[k] = y[b - i + 1]
      BY <2>11, <3>4
    <3> QED
      BY <3>3, <3>5 DEF k
  <2>15. Newest(s, read)
    BY <2>13, <2>14 DEF Newest
  <2> QED
    BY <1>2, <2>10, <2>12, <2>15 DEF n, s, read
<1> QED
  BY <1>1, <1>2

-----------------------------------------------------------------------------
(* The records read of a file, newest first.                               *)

LEMMA MarkFacts ==
  /\ Marks \subseteq Symbols
  /\ \A q \in Seq(Marks) : q \in Seq(Symbols)
<1>1. Marks \subseteq Symbols
  BY ByteFacts DEF Marks, Symbols
<1> HIDE DEF Marks, Symbols
<1> QED
  BY <1>1

LEMMA KindFacts ==
  ASSUME NEW rid, NEW n
  PROVE  /\ ScanOf(rid) # ResolutionOf(rid)
         /\ Byte(ScanOf(rid), n).kind = "scan" /\ Byte(ScanOf(rid), n).rid = rid
         /\ Byte(ResolutionOf(rid), n).kind = "resolution" /\ Byte(ResolutionOf(rid), n).rid = rid
<1>1. /\ Byte(ScanOf(rid), n).kind = "scan" /\ Byte(ScanOf(rid), n).rid = rid
      /\ Byte(ResolutionOf(rid), n).kind = "resolution" /\ Byte(ResolutionOf(rid), n).rid = rid
  BY DEF ScanOf, ResolutionOf, Byte
<1>2. ScanOf(rid).kind = "scan" /\ ResolutionOf(rid).kind = "resolution"
  BY DEF ScanOf, ResolutionOf
<1> QED
  BY <1>1, <1>2

(* A line that has the record.                                              *)
Has(lines, b, rec) ==
  b \in 1..Len(lines) /\ IsRecord(lines[b]) /\ RecordOf(lines[b]) = rec

LEMMA OnLinesFacts ==
  ASSUME NEW text, NEW rec
  PROVE  rec \in OnLines(text) <=> \E b : b \in DOMAIN Split(text) /\ IsRecord(Split(text)[b])
                                        /\ RecordOf(Split(text)[b]) = rec
  BY DEF OnLines, ToSet

LEMMA OnLinesHas ==
  ASSUME NEW text \in Seq(Marks), NEW rec
  PROVE  rec \in OnLines(text) <=> \E b : Has(Split(text), b, rec)
<1>1. Split(text) \in Seq(Seq(Marks))
  BY SplitType
<1>2. DOMAIN Split(text) = 1..Len(Split(text))
  BY <1>1
<1> QED
  BY <1>2, OnLinesFacts DEF Has

(* The first byte of a record on a line, with those of the lines before it. *)
LEMMA LineBytes ==
  ASSUME NEW text \in Seq(Marks), NEW b, NEW rec, Has(Split(text), b, rec)
  PROVE  /\ rec \in Records(Nat)
         /\ Len(Split(text)[b]) = 2 /\ Split(text)[b][1] = Byte(rec, 1)
         /\ \E q \in 1..Len(text) :
              text[q] = Byte(rec, 1) /\ Before(text, Split(text), b, q)
<1> DEFINE s == Split(text)
           line == s[b]
<1>1. s \in Seq(Seq(Marks)) /\ Held(text, s)
  BY SplitType, LinesHeld
<1>2. b \in 1..Len(s) /\ IsRecord(line) /\ RecordOf(line) = rec
  BY DEF Has
<1> HIDE DEF s
<1>3. line \in Seq(Marks)
  BY <1>1, <1>2
<1> HIDE DEF line
<1>4. rec \in Records(Nat) /\ line[1] = Byte(rec, 1)
  BY <1>2, <1>3, RecordOfType
<1>5. Len(line) = 2
  BY <1>2 DEF IsRecord
<1>6. Reached(text, s, b, line[1])
  <2>1. 1 \in 1..Len(line)
    BY <1>5
  <2> QED
    BY <1>1, <1>2, <2>1 DEF Held, line
<1> QED
  BY <1>4, <1>5, <1>6 DEF Reached, line, s

(* The bytes of a scan are before those of its answer.                      *)
Ordered(text) ==
  \A p, q \in 1..Len(text) :
    text[p].kind = "resolution" /\ text[q].kind = "scan" /\ text[p].rid = text[q].rid => q < p

LEMMA AnswerBehind ==
  ASSUME NEW text \in Seq(Marks), Ordered(text), NEW rid, NEW a, NEW b,
         Has(Split(text), a, ScanOf(rid)), Has(Split(text), b, ResolutionOf(rid))
  PROVE  a < b
<1> DEFINE s == Split(text)
<1>1. a # b /\ a \in 1..Len(s) /\ b \in 1..Len(s)
  BY KindFacts DEF Has
<1>2. Len(s) \in Nat
  <2>1. s \in Seq(Seq(Marks))
    BY SplitType
  <2> HIDE DEF s
  <2> QED
    BY <2>1
<1>3. SUFFICES ASSUME b < a PROVE FALSE
  BY <1>1, <1>2
<1>4. PICK q \in 1..Len(text) : text[q] = Byte(ScanOf(rid), 1) /\ Before(text, s, a, q)
  BY LineBytes
<1>5. Len(s[b]) = 2 /\ s[b][1] = Byte(ResolutionOf(rid), 1)
  BY LineBytes
<1> HIDE DEF s
<1>6. b \in 1..(a - 1) /\ 1 \in 1..Len(s[b])
  BY <1>1, <1>2, <1>3, <1>5
<1>7. PICK p \in 1..(q - 1) : text[p] = s[b][1]
  BY <1>4, <1>6 DEF Before
<1>8. p \in 1..Len(text) /\ p < q /\ q \in Nat /\ p \in Nat
  BY <1>7
<1>9. text[p].kind = "resolution" /\ text[q].kind = "scan" /\ text[p].rid = text[q].rid
  BY <1>4, <1>5, <1>7, KindFacts
<1>10. q < p
  BY <1>8, <1>9 DEF Ordered
<1> QED
  BY <1>8, <1>10

(* An answer that is on a line comes before its scan.                       *)
AnsweredBefore(recs, rid) ==
  \A k \in 1..Len(recs) :
    recs[k] = ScanOf(rid) => \E l \in 1..(k - 1) : recs[l] = ResolutionOf(rid)

LEMMA TailRecords ==
  ASSUME NEW text \in Seq(Marks), NEW budget \in Nat
  PROVE  LET recs == Parsed(LastLines(text, budget))
         IN  /\ recs \in Seq(Records(Nat))
             /\ \A k \in 1..Len(recs) : recs[k] \in OnLines(text)
             /\ budget >= Len(text) =>
                  \A rec \in OnLines(text) : \E k \in 1..Len(recs) : recs[k] = rec
             /\ Ordered(text) =>
                  \A rid : ResolutionOf(rid) \in OnLines(text) => AnsweredBefore(recs, rid)
<1> DEFINE s == Split(text)
           lines == LastLines(text, budget)
           recs == Parsed(lines)
           n == Len(s)
           m == Len(lines)
<1>1. /\ s \in Seq(Seq(Marks)) /\ n \in Nat
      /\ lines \in Seq(Seq(Marks)) /\ m \in Nat
      /\ Newest(s, lines) /\ (budget >= Len(text) => m = n)
  <2>1. s \in Seq(Seq(Marks))
    BY SplitType
  <2>2. /\ lines \in Seq(Seq(Marks)) /\ Newest(s, lines)
        /\ budget >= Len(text) => m = n
    BY LastLinesNewest
  <2> HIDE DEF s, lines
  <2> QED
    BY <2>1, <2>2
<1>2. Follows(lines, m, recs)
  <2> HIDE DEF lines
  <2> QED
    BY <1>1, ParsedFollows
<1>3. \A rec : rec \in OnLines(text) <=> \E b : Has(s, b, rec)
  BY OnLinesHas
<1>4. \A rid, a, b : Ordered(text) /\ Has(s, a, ScanOf(rid)) /\ Has(s, b, ResolutionOf(rid)) => a < b
  BY AnswerBehind
<1> HIDE DEF s, lines, recs, n, m
<1>5. m <= n /\ \A i \in 1..m : lines[i] = s[n - i + 1]
  BY <1>1 DEF Newest, m, n
<1>6. ASSUME NEW k \in 1..Len(recs)
      PROVE  \E i \in 1..m : Comes(lines, i, recs, k) /\ Has(s, n - i + 1, recs[k])
  <2>1. PICK i \in 1..m : Comes(lines, i, recs, k)
    BY <1>2 DEF Follows
  <2>2. IsRecord(lines[i]) /\ recs[k] = RecordOf(lines[i])
    BY <2>1 DEF Comes
  <2>3. n - i + 1 \in 1..n /\ lines[i] = s[n - i + 1]
    BY <1>1, <1>5
  <2> QED
    BY <2>1, <2>2, <2>3 DEF Has, n
<1>7. recs \in Seq(Records(Nat))
  BY <1>2 DEF Follows
<1>8. \A k \in 1..Len(recs) : recs[k] \in OnLines(text)
  BY <1>3, <1>6
<1>9. ASSUME budget >= Len(text), NEW rec \in OnLines(text)
      PROVE  \E k \in 1..Len(recs) : recs[k] = rec
  <2>1. PICK b : Has(s, b, rec)
    BY <1>3
  <2>2. b \in 1..n /\ IsRecord(s[b]) /\ RecordOf(s[b]) = rec
    BY <2>1 DEF Has, n
  <2> DEFINE i == n - b + 1
  <2>3. i \in 1..m /\ n - i + 1 = b
    BY <1>1, <1>9, <2>2
  <2> HIDE DEF i
  <2>4. lines[i] = s[b]
    BY <1>5, <2>3
  <2> QED
    BY <1>2, <2>2, <2>3, <2>4 DEF Follows, Keeps
<1>10. ASSUME Ordered(text), NEW rid, ResolutionOf(rid) \in OnLines(text),
              NEW k \in 1..Len(recs), recs[k] = ScanOf(rid)
       PROVE  \E l \in 1..(k - 1) : recs[l] = ResolutionOf(rid)
  <2>1. PICK i \in 1..m : Comes(lines, i, recs, k) /\ Has(s, n - i + 1, recs[k])
    BY <1>6
  <2>2. PICK b : Has(s, b, ResolutionOf(rid))
    BY <1>3, <1>10
  <2>3. n - i + 1 < b
    BY <1>4, <1>10, <2>1, <2>2
  <2>4. b \in 1..n /\ IsRecord(s[b]) /\ RecordOf(s[b]) = ResolutionOf(rid)
    BY <2>2 DEF Has, n
  <2> DEFINE j == n - b + 1
  <2>5. j \in 1..(i - 1) /\ j \in 1..m /\ n - j + 1 = b
    BY <1>1, <2>3, <2>4
  <2> HIDE DEF j
  <2>6. lines[j] = s[b]
    BY <1>5, <2>5
  <2> QED
    BY <2>1, <2>4, <2>5, <2>6 DEF Comes
<1> QED
  BY <1>7, <1>8, <1>9, <1>10 DEF AnsweredBefore, recs, lines

(* A file does not end in the second byte of a record.                      *)
EndsWhole(text) == text = <<>> \/ Last(text).part # 2

LEMMA LastUnread ==
  ASSUME NEW text \in Seq(Marks), EndsWhole(text)
  PROVE  ~IsRecord(Split(text)[Len(Split(text))])
<1> DEFINE A == {t \in Seq(Marks) : EndsWhole(t) => ~IsRecord(Split(t)[Len(Split(t))])}
<1>1. <<>> \in A
  <2> DEFINE none == << <<>> >>
  <2>1. <<>> \in Seq(Marks) /\ Len(none[Len(none)]) = 0
    OBVIOUS
  <2> HIDE DEF none
  <2>2. Split(<<>>) = none
    BY SplitEmpty DEF none
  <2>3. ~IsRecord(none[Len(none)])
    BY <2>1 DEF IsRecord
  <2> QED
    BY <2>1, <2>2, <2>3
<1>2. ASSUME NEW t \in Seq(Marks), NEW c \in Marks, t \in A
      PROVE  Append(t, c) \in A
  <2> DEFINE more == Append(t, c)
             x == Split(t)
             y == Split(more)
  <2>1. more \in Seq(Marks) /\ Last(more) = c /\ more # <<>>
    <3>1. more \in Seq(Marks)
      OBVIOUS
    <3> QED
      BY <3>1, LastFacts
  <2>2. x \in Seq(Seq(Marks)) /\ x # <<>> /\ y = AddByte(x, c)
    BY SplitType, SplitAppend
  <2> HIDE DEF x, y, more
  <2>3. SUFFICES ASSUME c.part # 2 PROVE ~IsRecord(y[Len(y)])
    BY <2>1 DEF EndsWhole, more, y
  <2>4. CASE c = NewLine
    <3>1. Len(y) = Len(x) + 1 /\ y[Len(x) + 1] = <<>>
      BY <2>2, <2>4, AddByteType
    <3>2. Len(y[Len(y)]) = 0
      BY <3>1
    <3> QED
      BY <3>2 DEF IsRecord
  <2>5. CASE c # NewLine
    <3> DEFINE last == x[Len(x)]
               longer == Append(last, c)
    <3>1. Len(y) = Len(x) /\ y[Len(x)] = longer
      BY <2>2, <2>5, AddByteType
    <3>2. last \in Seq(Marks)
      <4>1. Len(x) \in 1..Len(x)
        BY <2>2
      <4> QED
        BY <2>2, <4>1
    <3> HIDE DEF last
    <3>3. Len(last) \in Nat /\ Len(longer) = Len(last) + 1 /\ longer[Len(last) + 1] = c
      BY <3>2
    <3> HIDE DEF longer
    <3>4. SUFFICES ASSUME IsRecord(longer) PROVE FALSE
      BY <3>1
    <3>5. Len(longer) = 2 /\ longer[2].part = 2
      BY <3>4 DEF IsRecord
    <3>6. Len(last) + 1 = 2
      BY <3>3, <3>5
    <3> QED
      BY <2>3, <3>3, <3>5, <3>6
  <2> QED
    BY <2>4, <2>5
<1> HIDE DEF A
<1>3. text \in A
  BY <1>1, <1>2, Appending
<1> QED
  BY <1>3 DEF A

(* What is on lines stays there.                                            *)
LEMMA OnLinesGrow ==
  ASSUME NEW text \in Seq(Marks), EndsWhole(text), NEW more \in Seq(Marks),
         NEW rec \in OnLines(text)
  PROVE  rec \in OnLines(text \o more)
<1> DEFINE longer == text \o more
           x == Split(text)
           y == Split(more)
           s == Split(longer)
<1>1. longer \in Seq(Marks) /\ s = Join(x, y)
  BY SplitConcat
<1>2. x \in Seq(Seq(Marks)) /\ x # <<>> /\ y \in Seq(Seq(Marks)) /\ y # <<>>
  BY SplitType
<1>3. ~IsRecord(x[Len(x)])
  BY LastUnread
<1>4. PICK b : Has(x, b, rec)
  BY OnLinesHas
<1>5. \A b1 : Has(s, b1, rec) => rec \in OnLines(longer)
  BY <1>1, OnLinesHas
<1> HIDE DEF x, y, s, longer
<1>6. Len(x) \in Nat \ {0} /\ Len(y) \in Nat \ {0}
  BY <1>2
<1>7. b \in 1..(Len(x) - 1) /\ IsRecord(x[b]) /\ RecordOf(x[b]) = rec
  <2>1. b \in 1..Len(x) /\ b # Len(x)
    BY <1>3, <1>4 DEF Has
  <2> QED
    BY <1>4, <1>6, <2>1 DEF Has
<1>8. Len(s) = Len(x) + Len(y) - 1 /\ \A i \in 1..(Len(x) - 1) : s[i] = x[i]
  BY <1>1, <1>2, JoinType
<1>9. b \in 1..Len(s)
  BY <1>6, <1>7, <1>8
<1>10. Has(s, b, rec)
  BY <1>7, <1>8, <1>9 DEF Has
<1> QED
  BY <1>5, <1>10 DEF longer

LEMMA ChunkFacts == Max(Chunks) \in Nat \ {0}
<1>1. Chunks \subseteq Nat \ {0} /\ IsFiniteSet(Chunks) /\ Chunks # {}
  BY LogAssumption
<1>2. Max(Chunks) \in Chunks
  BY <1>1, FiniteMax
<1> QED
  BY <1>1, <1>2

(* The records that one reading makes of a file.                            *)
ReadOf(text, budget) == Parsed(LinesBackward(text, Max(Chunks), budget).lines)
LeftOf(text, budget) == LinesBackward(text, Max(Chunks), budget).left

LEMMA NoneRead ==
  ASSUME NEW text \in Seq(Marks)
  PROVE  Len(Parsed(LastLines(text, 0))) = 0
<1> DEFINE lines == LastLines(text, 0)
           recs == Parsed(lines)
           n == Len(text)
<1>1. recs \in Seq(Records(Nat)) /\ \A k \in 1..Len(recs) : recs[k] \in OnLines(text)
  <2>1. 0 \in Nat
    OBVIOUS
  <2> QED
    BY <2>1, TailRecords
<1>2. n \in Nat
  OBVIOUS
<1>3. lines \in Seq(Seq(Marks))
  <2>1. 0 \in Nat
    OBVIOUS
  <2> QED
    BY <2>1, LastLinesNewest
<1>4. Follows(lines, Len(lines), recs)
  <2> HIDE DEF lines
  <2> QED
    BY <1>3, ParsedFollows
<1>5. CASE n = 0
  <2>1. text = <<>>
    BY <1>5
  <2>2. ~ \E b : Has(Split(text), b, recs[1])
    <3> DEFINE none == << <<>> >>
    <3>1. \A b \in 1..Len(none) : Len(none[b]) = 0
      OBVIOUS
    <3> HIDE DEF none
    <3>2. Split(text) = none
      BY <2>1, SplitEmpty DEF none
    <3> HIDE DEF recs
    <3> QED
      BY <3>1, <3>2 DEF Has, IsRecord
  <2>3. recs[1] \notin OnLines(text)
    BY <2>2, OnLinesHas
  <2> HIDE DEF recs
  <2>4. 1 \notin 1..Len(recs) /\ Len(recs) \in Nat
    BY <1>1, <2>3
  <2>5. Len(recs) = 0
    BY <2>4
  <2> QED
    BY <2>5 DEF recs
<1>6. CASE n # 0
  <2>1. ~(0 >= n) /\ n - 0 + 1 = n + 1
    BY <1>2, <1>6
  <2>2. lines = Reverse(Tail(Split(SubSeq(text, n + 1, n))))
    BY <2>1 DEF LastLines
  <2>3. SubSeq(text, n + 1, n) = <<>>
    OBVIOUS
  <2> DEFINE none == << <<>> >>
  <2>4. Tail(none) = <<>>
    OBVIOUS
  <2>5. Reverse(<<>>) = <<>>
    BY DEF Reverse
  <2> HIDE DEF none
  <2>6. Split(<<>>) = none
    BY SplitEmpty DEF none
  <2>7. lines = <<>>
    BY <2>2, <2>3, <2>4, <2>5, <2>6
  <2>8. Len(lines) = 0
    BY <2>7
  <2> HIDE DEF lines, recs
  <2>9. \A k \in 1..Len(recs) : FALSE
    BY <1>4, <2>8 DEF Follows
  <2>10. Len(recs) \in Nat /\ 1 \notin 1..Len(recs)
    BY <1>1, <2>9
  <2>11. Len(recs) = 0
    BY <2>10
  <2> QED
    BY <2>11 DEF recs, lines
<1> QED
  BY <1>5, <1>6

LEMMA ReadFacts ==
  ASSUME NEW text \in Seq(Marks), NEW budget \in Nat
  PROVE  LET recs == ReadOf(text, budget)
             left == LeftOf(text, budget)
         IN  /\ left \in Nat /\ left <= budget
             /\ recs \in Seq(Records(Nat))
             /\ \A k \in 1..Len(recs) : recs[k] \in OnLines(text)
             /\ left > 0 => \A rec \in OnLines(text) : \E k \in 1..Len(recs) : recs[k] = rec
             /\ budget = 0 => Len(recs) = 0
             /\ Ordered(text) =>
                  \A rid : ResolutionOf(rid) \in OnLines(text) => AnsweredBefore(recs, rid)
<1> DEFINE recs == ReadOf(text, budget)
           left == LeftOf(text, budget)
<1>1. text \in Seq(Symbols) /\ Max(Chunks) \in Nat \ {0}
  BY MarkFacts, ChunkFacts
<1>2. recs = Parsed(LastLines(text, budget))
  BY <1>1, TailRead DEF ReadOf
<1>3. PICK pos \in 0..Len(text) :
        /\ left = budget - (Len(text) - pos) /\ left \in Nat
        /\ pos = 0 \/ left = 0
  BY <1>1, BackwardFacts DEF LeftOf
<1> HIDE DEF left, recs
<1>4. left <= budget /\ (left > 0 => budget >= Len(text))
  <2>1. Len(text) \in Nat
    OBVIOUS
  <2> QED
    BY <1>3, <2>1
<1>5. /\ recs \in Seq(Records(Nat))
      /\ \A k \in 1..Len(recs) : recs[k] \in OnLines(text)
      /\ budget >= Len(text) => \A rec \in OnLines(text) : \E k \in 1..Len(recs) : recs[k] = rec
      /\ Ordered(text) =>
           \A rid : ResolutionOf(rid) \in OnLines(text) => AnsweredBefore(recs, rid)
  BY <1>2, TailRecords
<1>6. budget = 0 => Len(recs) = 0
  BY <1>2, NoneRead
<1> QED
  BY <1>3, <1>4, <1>5, <1>6 DEF recs, left

-----------------------------------------------------------------------------
(* What an instance appends is its own.                                    *)

Own(rec) == {NewLine, Byte(rec, 1), Byte(rec, 2)}

(* A whole line, or the first byte of one.                                  *)
Added(more, rec) ==
  more \in Seq(Own(rec)) /\ more # <<>> /\ Last(more).part # 2

TextHas(text, kind, rid) ==
  \E p \in 1..Len(text) : text[p].kind = kind /\ text[p].rid = rid

LEMMA OwnFacts ==
  ASSUME NEW rec \in Records(Nat)
  PROVE  /\ Own(rec) \subseteq Marks
         /\ \A b \in Own(rec) : b.kind \in Kinds => b.kind = rec.kind /\ b.rid = rec.rid
         /\ NewLine.part = 0 /\ Byte(rec, 1).part = 1
<1>1. rec.kind \in Kinds /\ rec.rid \in Nat
  BY DEF Records
<1>2. \A n \in {1, 2} : /\ Byte(rec, n) \in [kind : Kinds, rid : Nat, part : {1, 2}]
                        /\ Byte(rec, n).kind = rec.kind /\ Byte(rec, n).rid = rec.rid
                        /\ Byte(rec, n).part = n
  BY <1>1 DEF Byte
<1>3. NewLine.kind = "newline" /\ NewLine.rid = 0 /\ NewLine.part = 0 /\ "newline" \notin Kinds
  BY DEF NewLine, Kinds
<1>4. Own(rec) \subseteq Marks
  BY <1>2 DEF Own, Marks
<1> QED
  BY <1>2, <1>3, <1>4 DEF Own

LEMMA LastConcat ==
  ASSUME NEW T, NEW p \in Seq(T), NEW q \in Seq(T), q # <<>>
  PROVE  p \o q # <<>> /\ Last(p \o q) = Last(q)
<1> DEFINE c == p \o q
           m == Len(p)
           n == Len(q)
<1>1. /\ c \in Seq(T) /\ Len(c) = m + n
      /\ \A i \in 1..(m + n) : c[i] = IF i <= m THEN p[i] ELSE q[i - m]
  BY ConcatFacts
<1>2. m \in Nat /\ n \in Nat \ {0}
  OBVIOUS
<1> HIDE DEF c, m, n
<1>3. c[m + n] = q[n] /\ Len(c) # 0
  <2>1. m + n \in 1..(m + n) /\ ~(m + n <= m) /\ m + n - m = n
    BY <1>2
  <2> QED
    BY <1>1, <1>2, <2>1
<1>4. c # <<>>
  BY <1>3
<1> QED
  BY <1>1, <1>3, <1>4 DEF Last, c, m, n

LEMMA AddedFacts ==
  ASSUME NEW writer \in WriterShape
  PROVE  /\ Added(Rest(writer), writer.rec)
         /\ Added((IF writer.lead THEN <<NewLine>> ELSE <<>>) \o <<Byte(writer.rec, 1)>>,
                  writer.rec)
<1> DEFINE rec == writer.rec
           S == Own(rec)
           a == Byte(rec, 1)
           b == Byte(rec, 2)
           lead == IF writer.lead THEN <<NewLine>> ELSE <<>>
<1>0. rec \in Records(Nat)
  BY DEF WriterShape
<1>1. a \in S /\ b \in S /\ NewLine \in S /\ NewLine.part = 0 /\ a.part = 1
  BY <1>0, OwnFacts DEF Own
<1> HIDE DEF S, a, b
<1>2. lead \in Seq(S) /\ <<a>> \in Seq(S) /\ <<a, b>> \in Seq(S) /\ <<NewLine>> \in Seq(S)
  BY <1>1
<1> HIDE DEF lead
<1>3. ASSUME NEW x \in S, x.part # 2, NEW q \in Seq(S)
      PROVE  q \o <<x>> \in Seq(S) /\ q \o <<x>> # <<>> /\ Last(q \o <<x>>).part # 2
  <2>1. <<x>> \in Seq(S) /\ <<x>> # <<>> /\ Last(<<x>>) = x
    BY DEF Last
  <2>2. q \o <<x>> \in Seq(S)
    BY <2>1
  <2>3. q \o <<x>> # <<>> /\ Last(q \o <<x>>) = Last(<<x>>)
    BY <2>1, LastConcat
  <2> QED
    BY <1>3, <2>1, <2>2, <2>3
<1>4. Added(lead \o <<a>>, rec)
  BY <1>1, <1>2, <1>3 DEF Added, S
<1>5. CASE writer.at = "opened"
  <2> DEFINE q == lead \o <<a, b>>
  <2>1. q \in Seq(S)
    BY <1>2
  <2>2. Rest(writer) = q \o <<NewLine>>
    BY <1>5 DEF Rest, Bytes, Line, lead, a, b
  <2> HIDE DEF q
  <2>3. Added(Rest(writer), rec)
    BY <1>1, <1>3, <2>1, <2>2 DEF Added, S
  <2> QED
    BY <1>4, <2>3 DEF lead, a
<1>6. CASE writer.at # "opened"
  <2>1. Rest(writer) = <<b, NewLine>>
    BY <1>6 DEF Rest, b
  <2>2. <<b>> \in Seq(S) /\ <<b, NewLine>> = Append(<<b>>, NewLine)
        /\ <<b>> \o <<NewLine>> = Append(<<b>>, NewLine)
    <3>1. <<b>> \in Seq(S)
      BY <1>1
    <3> QED
      BY <1>1, <3>1, PairAppend, OneConcat
  <2> DEFINE q == <<b>>
  <2>3. q \in Seq(S) /\ Rest(writer) = q \o <<NewLine>>
    BY <2>1, <2>2
  <2> HIDE DEF q
  <2>4. Added(Rest(writer), rec)
    BY <1>1, <1>3, <2>3 DEF Added, S
  <2> QED
    BY <1>4, <2>4 DEF lead, a
<1> QED
  BY <1>5, <1>6

(* What a file holds, with the requests up to n.                            *)
TextHeld(text, n) ==
  /\ text \in Seq(Marks) /\ EndsWhole(text) /\ Ordered(text)
  /\ \A p \in 1..Len(text) : text[p].kind \in Kinds => text[p].rid \in 1..n

LEMMA BytesGrow ==
  ASSUME NEW text \in Seq(Marks), NEW rec \in Records(Nat), NEW more, Added(more, rec),
         NEW kind \in Kinds, NEW rid, TextHas(text \o more, kind, rid)
  PROVE  TextHas(text, kind, rid) \/ (kind = rec.kind /\ rid = rec.rid)
<1> DEFINE c == text \o more
           m == Len(text)
           n == Len(more)
<1>0. /\ Own(rec) \subseteq Marks /\ more \in Seq(Own(rec))
      /\ \A b \in Own(rec) : b.kind \in Kinds => b.kind = rec.kind /\ b.rid = rec.rid
  BY OwnFacts DEF Added
<1>1. more \in Seq(Marks)
  <2> HIDE DEF Marks, Own
  <2> QED
    BY <1>0
<1>2. /\ c \in Seq(Marks) /\ Len(c) = m + n
      /\ \A i \in 1..(m + n) : c[i] = IF i <= m THEN text[i] ELSE more[i - m]
  BY <1>1, ConcatFacts
<1>3. m \in Nat /\ n \in Nat
  BY <1>1
<1>4. PICK p \in 1..Len(c) : c[p].kind = kind /\ c[p].rid = rid
  BY DEF TextHas
<1> HIDE DEF c
<1>5. CASE p <= m
  <2>1. p \in 1..Len(text) /\ c[p] = text[p]
    BY <1>2, <1>3, <1>4, <1>5
  <2> QED
    BY <1>4, <2>1 DEF TextHas
<1>6. CASE ~(p <= m)
  <2>1. p - m \in 1..Len(more) /\ c[p] = more[p - m]
    BY <1>2, <1>3, <1>4, <1>6
  <2>2. more[p - m] \in Own(rec)
    BY <1>0, <2>1
  <2> QED
    BY <1>0, <1>4, <2>1, <2>2
<1> QED
  BY <1>5, <1>6

LEMMA TextGrows ==
  ASSUME NEW n \in Nat, NEW text, TextHeld(text, n),
         NEW rec \in Records(Nat), rec.rid \in 1..n, NEW more, Added(more, rec),
         rec.kind = "scan" => ~TextHas(text, "resolution", rec.rid)
  PROVE  TextHeld(text \o more, n)
<1> DEFINE c == text \o more
           l == Len(text)
           m == Len(more)
<1>0. /\ Own(rec) \subseteq Marks /\ more \in Seq(Own(rec)) /\ more # <<>> /\ Last(more).part # 2
      /\ \A b \in Own(rec) : b.kind \in Kinds => b.kind = rec.kind /\ b.rid = rec.rid
  BY OwnFacts DEF Added
<1>1. more \in Seq(Marks) /\ text \in Seq(Marks)
  <2> HIDE DEF Marks, Own
  <2> QED
    BY <1>0 DEF TextHeld
<1>2. /\ c \in Seq(Marks) /\ Len(c) = l + m
      /\ \A i \in 1..(l + m) : c[i] = IF i <= l THEN text[i] ELSE more[i - l]
  BY <1>1, ConcatFacts
<1>3. l \in Nat /\ m \in Nat
  BY <1>1
<1>4. EndsWhole(c)
  BY <1>0, <1>1, LastConcat DEF EndsWhole
<1> HIDE DEF c
<1>5. \A i \in 1..l : i \in 1..Len(c) /\ c[i] = text[i]
  BY <1>2, <1>3
<1>6. ASSUME NEW i \in 1..Len(c), ~(i <= l)
      PROVE  c[i] \in Own(rec)
  <2>1. i - l \in 1..Len(more) /\ c[i] = more[i - l]
    BY <1>2, <1>3, <1>6
  <2> QED
    BY <1>0, <2>1
<1>7. ASSUME NEW p \in 1..Len(c), c[p].kind \in Kinds
      PROVE  c[p].rid \in 1..n
  <2>1. CASE p <= l
    <3>1. p \in 1..Len(text)
      BY <1>3, <2>1
    <3> QED
      BY <1>5, <1>7, <3>1 DEF TextHeld
  <2>2. CASE ~(p <= l)
    <3>1. c[p].rid = rec.rid
      BY <1>0, <1>6, <1>7, <2>2
    <3> QED
      BY <3>1
  <2> QED
    BY <2>1, <2>2
<1>8. ASSUME NEW p \in 1..Len(c), NEW q \in 1..Len(c),
             c[p].kind = "resolution", c[q].kind = "scan", c[p].rid = c[q].rid
      PROVE  q < p
  <2>0. p \in Nat /\ q \in Nat /\ "scan" \in Kinds /\ "resolution" \in Kinds
    BY DEF Kinds
  <2>1. CASE q <= l
    <3>1. CASE p <= l
      <4>1. p \in 1..Len(text) /\ q \in 1..Len(text) /\ c[p] = text[p] /\ c[q] = text[q]
        BY <1>3, <1>5, <2>1, <3>1
      <4> QED
        BY <1>8, <4>1 DEF TextHeld, Ordered
    <3>2. CASE ~(p <= l)
      BY <1>3, <2>0, <2>1, <3>2
    <3> QED
      BY <3>1, <3>2
  <2>2. CASE ~(q <= l)
    <3>1. rec.kind = "scan" /\ rec.rid = c[q].rid
      BY <1>0, <1>6, <1>8, <2>0, <2>2
    <3>2. p <= l
      <4>1. ~(p <= l) => rec.kind = "resolution"
        BY <1>0, <1>6, <1>8, <2>0
      <4> QED
        BY <3>1, <4>1
    <3>3. p \in 1..Len(text) /\ c[p] = text[p]
      BY <1>3, <1>5, <3>2
    <3>4. TextHas(text, "resolution", rec.rid)
      BY <1>8, <3>1, <3>3 DEF TextHas
    <3> QED
      BY <3>1, <3>4
  <2> QED
    BY <2>1, <2>2
<1>9. Ordered(c)
  BY <1>8 DEF Ordered
<1>10. TextHeld(c, n)
  BY <1>2, <1>4, <1>7, <1>9 DEF TextHeld
<1> QED
  BY <1>10 DEF c

-----------------------------------------------------------------------------
(* Scans and their answers in the files.                                   *)

FileHas(texts, f, kind, rid) == f \in 1..Len(texts) /\ TextHas(texts[f], kind, rid)

(* A scan is in no later file than its answer.                              *)
FilesHeld(texts, n) ==
  /\ \A f \in 1..Len(texts) : TextHeld(texts[f], n)
  /\ \A f, g, rid : FileHas(texts, f, "resolution", rid) /\ FileHas(texts, g, "scan", rid) => g <= f

(* The answer of an open review is not written.                             *)
AskedHeld(texts, open, n) ==
  /\ \A w \in Instances : open[w] \subseteq 1..n
  /\ \A v, w \in Instances : \A rid \in open[v] : rid \in open[w] => v = w
  /\ \A w \in Instances : \A rid \in open[w] : \A f : ~FileHas(texts, f, "resolution", rid)

(* A scan is written while its review is open; an answer when it is open no *)
(* more, to a file no earlier than the scan's.                              *)
WriterHeld(texts, open, n, w, writer) ==
  writer.at # "idle" =>
    /\ writer.rec.rid \in 1..n
    /\ writer.rec.kind = "scan" => writer.rec.rid \in open[w]
    /\ writer.rec.kind = "resolution" =>
         /\ \A v \in Instances : writer.rec.rid \notin open[v]
         /\ HasFile(writer) =>
              \A f : FileHas(texts, f, "scan", writer.rec.rid) => f <= writer.file

(* The file that has the path is the newest.                                *)
InOrder == current \in {0, Len(files)} /\ (current # 0 => rotated < current)

AskInv ==
  /\ LogShape /\ InOrder
  /\ scans <= MaxScans
  /\ FilesHeld(files, scans)
  /\ AskedHeld(files, asked, scans)
  /\ \A w \in Instances : WriterHeld(files, asked, scans, w, writers[w])

LEMMA AskedScans == AskInv => scans \in Nat /\ MaxScans \in Nat
  BY LogAssumption DEF AskInv, LogShape

LEMMA KnownRequests ==
  ASSUME NEW n \in Nat, NEW texts, FilesHeld(texts, n), NEW f, NEW kind \in Kinds, NEW rid,
         FileHas(texts, f, kind, rid)
  PROVE  rid \in 1..n
<1>1. f \in 1..Len(texts) /\ TextHeld(texts[f], n) /\ TextHas(texts[f], kind, rid)
  BY DEF FilesHeld, FileHas
<1>2. PICK p \in 1..Len(texts[f]) : texts[f][p].kind = kind /\ texts[f][p].rid = rid
  BY <1>1 DEF TextHas
<1> QED
  BY <1>1, <1>2 DEF TextHeld

LEMMA MoreRequests ==
  ASSUME NEW n \in Nat, NEW texts, FilesHeld(texts, n)
  PROVE  FilesHeld(texts, n + 1)
<1>1. ASSUME NEW f \in 1..Len(texts) PROVE TextHeld(texts[f], n + 1)
  <2>1. TextHeld(texts[f], n)
    BY DEF FilesHeld
  <2>2. ASSUME NEW p \in 1..Len(texts[f]), texts[f][p].kind \in Kinds
        PROVE  texts[f][p].rid \in 1..(n + 1)
    <3> DEFINE x == texts[f][p].rid
    <3>1. x \in 1..n
      BY <2>1, <2>2 DEF TextHeld
    <3> HIDE DEF x
    <3>2. x \in 1..(n + 1)
      BY <3>1
    <3> QED
      BY <3>2 DEF x
  <2> QED
    BY <2>1, <2>2 DEF TextHeld
<1> QED
  BY <1>1 DEF FilesHeld

(* A step that writes nothing leaves the other instances as they are.       *)
LEMMA OthersHeld ==
  ASSUME AskInv, NEW v \in Instances, writers'[v] = writers[v], asked'[v] = asked[v],
         files' = files, scans' \in Nat, scans <= scans',
         \A u \in Instances : asked'[u] \subseteq asked[u] \cup {scans + 1}
  PROVE  WriterHeld(files', asked', scans', v, writers'[v])
<1>1. WriterHeld(files, asked, scans, v, writers[v]) /\ scans \in Nat
  BY AskedScans DEF AskInv
<1>2. CASE writers[v].at = "idle"
  BY <1>2 DEF WriterHeld
<1>3. CASE writers[v].at # "idle"
  <2> DEFINE rec == writers[v].rec
  <2>1. /\ rec.rid \in 1..scans
        /\ rec.kind = "scan" => rec.rid \in asked[v]
        /\ rec.kind = "resolution" =>
             /\ \A u \in Instances : rec.rid \notin asked[u]
             /\ HasFile(writers[v]) =>
                  \A f : FileHas(files, f, "scan", rec.rid) => f <= writers[v].file
    BY <1>1, <1>3 DEF WriterHeld
  <2> HIDE DEF rec
  <2>2. rec.rid \in 1..scans' /\ rec.rid # scans + 1
    BY <1>1, <2>1
  <2>3. rec.kind = "resolution" => \A u \in Instances : rec.rid \notin asked'[u]
    BY <2>1, <2>2
  <2> QED
    BY <2>1, <2>2, <2>3 DEF WriterHeld, rec
<1> QED
  BY <1>2, <1>3

LEMMA ScanHeld ==
  ASSUME AskInv, NEW w \in Instances, WriteScan(w)
  PROVE  AskInv'
<1>1. /\ LogShape' /\ files' = files
      /\ current' = current /\ rotated' = rotated
      /\ writers'[w].at = "sized"
      /\ writers'[w].rec = [kind |-> "scan", rid |-> scans + 1]
      /\ scans' = scans + 1
      /\ asked'[w] = asked[w] \cup {scans + 1}
      /\ \A v \in Instances : v # w => writers'[v] = writers[v] /\ asked'[v] = asked[v]
  BY ScanShape DEF AskInv
<1>2. scans \in Nat /\ MaxScans \in Nat /\ scans < MaxScans
  BY AskedScans DEF WriteScan
<1>3. /\ FilesHeld(files, scans) /\ AskedHeld(files, asked, scans)
      /\ \A v \in Instances : asked[v] \subseteq 1..scans
  BY DEF AskInv, AskedHeld
<1>4. FilesHeld(files', scans')
  BY <1>1, <1>2, <1>3, MoreRequests
<1>5. \A f : ~FileHas(files, f, "resolution", scans + 1)
  <2>1. ASSUME NEW f, FileHas(files, f, "resolution", scans + 1) PROVE FALSE
    <3>1. scans + 1 \in 1..scans
      <4>1. "resolution" \in Kinds
        BY DEF Kinds
      <4> QED
        BY <1>2, <1>3, <2>1, <4>1, KnownRequests
    <3> QED
      BY <1>2, <3>1
  <2> QED
    BY <2>1
<1>6. AskedHeld(files', asked', scans')
  <2>1. ASSUME NEW v \in Instances
        PROVE  /\ asked'[v] \subseteq 1..scans'
               /\ \A rid \in asked'[v] : rid \in asked[v] \/ (v = w /\ rid = scans + 1)
    BY <1>1, <1>2, <1>3
  <2>2. \A v \in Instances : scans + 1 \notin asked[v]
    BY <1>2, <1>3
  <2>3. ASSUME NEW v \in Instances, NEW u \in Instances, NEW rid \in asked'[v], rid \in asked'[u]
        PROVE  v = u
    BY <1>3, <2>1, <2>2, <2>3 DEF AskedHeld
  <2>4. ASSUME NEW v \in Instances, NEW rid \in asked'[v], NEW f
        PROVE  ~FileHas(files', f, "resolution", rid)
    BY <1>1, <1>3, <1>5, <2>1 DEF AskedHeld
  <2> QED
    BY <2>1, <2>3, <2>4 DEF AskedHeld
<1>7. ASSUME NEW v \in Instances
      PROVE  WriterHeld(files', asked', scans', v, writers'[v])
  <2>1. CASE v = w
    <3>1. writers'[w].rec.kind = "scan" /\ writers'[w].rec.rid = scans + 1
      BY <1>1
    <3>2. scans + 1 \in 1..scans' /\ scans + 1 \in asked'[w]
      BY <1>1, <1>2
    <3> QED
      BY <2>1, <3>1, <3>2 DEF WriterHeld
  <2>2. CASE v # w
    <3>1. scans' \in Nat /\ scans <= scans'
          /\ \A u \in Instances : asked'[u] \subseteq asked[u] \cup {scans + 1}
      BY <1>1, <1>2
    <3> QED
      BY <1>1, <2>2, <3>1, OthersHeld
  <2> QED
    BY <2>1, <2>2
<1>8. InOrder' /\ scans' <= MaxScans
  BY <1>1, <1>2 DEF AskInv, InOrder
<1> QED
  BY <1>1, <1>4, <1>6, <1>7, <1>8 DEF AskInv

(* Fewer reviews are open.                                                  *)
LEMMA FewerHeld ==
  ASSUME AskInv, files' = files, scans' = scans,
         \A v \in Instances : asked'[v] \subseteq asked[v]
  PROVE  FilesHeld(files', scans') /\ AskedHeld(files', asked', scans')
<1>1. FilesHeld(files, scans) /\ AskedHeld(files, asked, scans)
  BY DEF AskInv
<1>2. AskedHeld(files, asked', scans)
  BY <1>1 DEF AskedHeld
<1> QED
  BY <1>1, <1>2

LEMMA ResolutionHeld ==
  ASSUME AskInv, NEW w \in Instances, WriteResolution(w)
  PROVE  AskInv'
<1>1. /\ LogShape' /\ files' = files
      /\ current' = current /\ rotated' = rotated
      /\ writers'[w].at = "sized" /\ scans' = scans
      /\ \A v \in Instances : v # w => writers'[v] = writers[v] /\ asked'[v] = asked[v]
  BY ResolutionShape DEF AskInv
<1>2. PICK rid \in asked[w] : /\ writers'[w].rec = [kind |-> "resolution", rid |-> rid]
                              /\ asked'[w] = asked[w] \ {rid}
  BY ResolutionShape DEF AskInv
<1>3. scans \in Nat /\ AskedHeld(files, asked, scans)
  BY AskedScans DEF AskInv
<1>4. \A v \in Instances : asked'[v] \subseteq asked[v]
  BY <1>1, <1>2
<1>5. FilesHeld(files', scans') /\ AskedHeld(files', asked', scans')
  BY <1>1, <1>4, FewerHeld
<1>6. WriterHeld(files', asked', scans', w, writers'[w])
  <2>1. writers'[w].rec.kind = "resolution" /\ writers'[w].rec.rid = rid /\ ~HasFile(writers'[w])
    BY <1>1, <1>2 DEF HasFile
  <2>2. rid \in 1..scans' /\ \A v \in Instances : rid \notin asked'[v]
    BY <1>1, <1>2, <1>3 DEF AskedHeld
  <2> QED
    BY <2>1, <2>2 DEF WriterHeld
<1>7. ASSUME NEW v \in Instances, v # w
      PROVE  WriterHeld(files', asked', scans', v, writers'[v])
  <2>1. scans' \in Nat /\ scans <= scans'
        /\ \A u \in Instances : asked'[u] \subseteq asked[u] \cup {scans + 1}
    BY <1>1, <1>3, <1>4
  <2> QED
    BY <1>1, <1>7, <2>1, OthersHeld
<1>8. InOrder' /\ scans' <= MaxScans
  BY <1>1 DEF AskInv, InOrder
<1> QED
  BY <1>1, <1>5, <1>6, <1>7, <1>8 DEF AskInv

LEMMA RotateHeld ==
  ASSUME AskInv, NEW w \in Instances, Rotate(w)
  PROVE  AskInv'
<1>1. /\ LogShape' /\ files' = files
      /\ writers[w].at = "sized"
      /\ writers'[w].at = "placed" /\ writers'[w].rec = writers[w].rec
      /\ \A v \in Instances : v # w => writers'[v] = writers[v]
      /\ \/ current' = current /\ rotated' = rotated
         \/ current # 0 /\ current' = 0 /\ rotated' = current
  BY RotateShape DEF AskInv
<1>2. asked' = asked /\ scans' = scans /\ scans \in Nat
  BY AskedScans DEF Rotate
<1>3. FilesHeld(files', scans') /\ AskedHeld(files', asked', scans')
  BY <1>1, <1>2, FewerHeld
<1>4. WriterHeld(files', asked', scans', w, writers'[w])
  <2>1. WriterHeld(files, asked, scans, w, writers[w]) /\ ~HasFile(writers'[w])
    BY <1>1 DEF AskInv, HasFile
  <2> QED
    BY <1>1, <1>2, <2>1 DEF WriterHeld
<1>5. ASSUME NEW v \in Instances, v # w
      PROVE  WriterHeld(files', asked', scans', v, writers'[v])
  <2>1. scans' \in Nat /\ scans <= scans' /\ asked'[v] = asked[v]
        /\ \A u \in Instances : asked'[u] \subseteq asked[u] \cup {scans + 1}
    BY <1>2
  <2> QED
    BY <1>1, <1>5, <2>1, OthersHeld
<1>6. InOrder' /\ scans' <= MaxScans
  BY <1>1, <1>2 DEF AskInv, InOrder
<1> QED
  BY <1>1, <1>3, <1>4, <1>5, <1>6 DEF AskInv

LEMMA StopHeld ==
  ASSUME AskInv, NEW w \in Instances, Fail(w) \/ Crash(w)
  PROVE  AskInv'
<1>1. /\ LogShape' /\ files' = files
      /\ current' = current /\ rotated' = rotated
      /\ writers'[w] = Idle
      /\ \A v \in Instances : v # w => writers'[v] = writers[v]
      /\ \A v \in Instances : asked'[v] \subseteq asked[v]
  BY StopShape DEF AskInv
<1>2. scans' = scans /\ scans \in Nat /\ \A v \in Instances : v # w => asked'[v] = asked[v]
  <2>1. asked' = asked \/ asked' = [asked EXCEPT ![w] = {}]
    BY DEF Fail, Crash
  <2>2. asked \in [Instances -> SUBSET Nat]
    BY DEF AskInv, LogShape
  <2>3. scans' = scans
    BY DEF Fail, Crash
  <2> QED
    BY <2>1, <2>2, <2>3, AskedScans
<1>3. FilesHeld(files', scans') /\ AskedHeld(files', asked', scans')
  BY <1>1, <1>2, FewerHeld
<1>4. WriterHeld(files', asked', scans', w, writers'[w])
  BY <1>1 DEF WriterHeld, Idle
<1>5. ASSUME NEW v \in Instances, v # w
      PROVE  WriterHeld(files', asked', scans', v, writers'[v])
  <2>1. scans' \in Nat /\ scans <= scans'
        /\ \A u \in Instances : asked'[u] \subseteq asked[u] \cup {scans + 1}
    BY <1>1, <1>2
  <2> QED
    BY <1>1, <1>2, <1>5, <2>1, OthersHeld
<1>6. InOrder' /\ scans' <= MaxScans
  BY <1>1, <1>2 DEF AskInv, InOrder
<1> QED
  BY <1>1, <1>3, <1>4, <1>5, <1>6 DEF AskInv

LEMMA OpenHeld ==
  ASSUME AskInv, NEW w \in Instances, Open(w)
  PROVE  AskInv'
<1>1. /\ LogShape'
      /\ writers[w].at = "placed"
      /\ writers'[w].at = "opened" /\ writers'[w].rec = writers[w].rec
      /\ writers'[w].file = current' /\ current' # 0
      /\ \A v \in Instances : v # w => writers'[v] = writers[v]
      /\ current # 0 => files' = files /\ current' = current
      /\ current = 0 => current' = Len(files') /\ Len(files') = Len(files) + 1
                        /\ files'[current'] = <<>>
                        /\ \A f \in DOMAIN files : files'[f] = files[f]
  BY OpenShape DEF AskInv
<1>2. rotated' = rotated /\ asked' = asked /\ scans' = scans
  BY DEF Open
<1>3. /\ scans \in Nat /\ Len(files) \in Nat /\ Len(files') \in Nat
      /\ current \in {0, Len(files)} /\ rotated \in 0..Len(files)
      /\ DOMAIN files = 1..Len(files)
      /\ current' \in 1..Len(files')
  BY <1>1, AskedScans DEF AskInv, InOrder, LogShape
<1>4. current' = Len(files') /\ rotated' < current'
  <2>1. CASE current # 0
    BY <1>1, <1>2, <1>3, <2>1 DEF AskInv, InOrder
  <2>2. CASE current = 0
    BY <1>1, <1>2, <1>3, <2>2
  <2> QED
    BY <2>1, <2>2
<1>5. /\ \A f \in 1..Len(files') : (f \in 1..Len(files) /\ files'[f] = files[f]) \/ files'[f] = <<>>
      /\ \A f \in 1..Len(files) : f \in 1..Len(files')
  <2>1. CASE current # 0
    BY <1>1, <2>1
  <2>2. CASE current = 0
    <3>1. \A f \in 1..Len(files') : f \in 1..Len(files) \/ f = Len(files')
      BY <1>1, <1>3, <2>2
    <3> QED
      BY <1>1, <1>3, <2>2, <3>1
  <2> QED
    BY <2>1, <2>2
<1>6. ASSUME NEW f, NEW kind, NEW rid, FileHas(files', f, kind, rid)
      PROVE  FileHas(files, f, kind, rid)
  <2>1. f \in 1..Len(files') /\ TextHas(files'[f], kind, rid)
    BY <1>6 DEF FileHas
  <2>2. ~TextHas(<<>>, kind, rid)
    BY DEF TextHas
  <2> QED
    BY <1>5, <2>1, <2>2 DEF FileHas
<1>7. FilesHeld(files', scans')
  <2>1. FilesHeld(files, scans)
    BY DEF AskInv
  <2>2. TextHeld(<<>>, scans)
    <3> DEFINE none == <<>>
    <3>1. none \in Seq(Marks) /\ Len(none) = 0 /\ none = <<>>
      OBVIOUS
    <3> HIDE DEF none
    <3>2. TextHeld(none, scans)
      BY <3>1 DEF TextHeld, EndsWhole, Ordered
    <3> QED
      BY <3>1, <3>2
  <2>3. \A f \in 1..Len(files') : TextHeld(files'[f], scans')
    BY <1>2, <1>5, <2>1, <2>2 DEF FilesHeld
  <2> QED
    BY <1>6, <2>1, <2>3 DEF FilesHeld
<1>8. AskedHeld(files', asked', scans')
  <2>1. AskedHeld(files, asked, scans)
    BY DEF AskInv
  <2> QED
    BY <1>2, <1>6, <2>1 DEF AskedHeld
<1>9. ASSUME NEW v \in Instances
      PROVE  WriterHeld(files', asked', scans', v, writers'[v])
  <2>1. WriterHeld(files, asked, scans, v, writers[v])
    BY DEF AskInv
  <2>2. CASE v = w
    <3>1. ASSUME NEW f, NEW kind, NEW rid, FileHas(files', f, kind, rid)
          PROVE  f <= current'
      <4>1. f \in 1..Len(files')
        BY <3>1 DEF FileHas
      <4>2. Len(files') \in Nat /\ current' = Len(files')
        BY <1>3, <1>4
      <4> QED
        BY <4>1, <4>2
    <3>2. writers[w].at # "idle"
      BY <1>1
    <3> DEFINE rec == writers[w].rec
    <3>3. /\ rec.rid \in 1..scans
          /\ rec.kind = "scan" => rec.rid \in asked[w]
          /\ rec.kind = "resolution" => \A u \in Instances : rec.rid \notin asked[u]
      BY <2>1, <2>2, <3>2 DEF WriterHeld
    <3>4. writers'[w].rec = rec
      BY <1>1
    <3> HIDE DEF rec
    <3>5. WriterHeld(files', asked', scans', w, writers'[w])
      BY <1>1, <1>2, <3>1, <3>3, <3>4 DEF WriterHeld
    <3> QED
      BY <2>2, <3>5
  <2>3. CASE v # w
    BY <1>1, <1>2, <1>6, <2>1, <2>3 DEF WriterHeld
  <2> QED
    BY <2>2, <2>3
<1>10. InOrder' /\ scans' <= MaxScans
  BY <1>2, <1>4 DEF AskInv, InOrder
<1> QED
  BY <1>1, <1>7, <1>8, <1>9, <1>10 DEF AskInv

(* What an instance appends to its file.                                    *)
LEMMA AppendHeld ==
  ASSUME AskInv, NEW w \in Instances, HasFile(writers[w]),
         NEW more, Added(more, writers[w].rec), writers[w].file \in DOMAIN files,
         Len(files') = Len(files), files'[writers[w].file] = files[writers[w].file] \o more,
         \A g \in DOMAIN files : g # writers[w].file => files'[g] = files[g]
  PROVE  /\ FilesHeld(files', scans) /\ AskedHeld(files', asked, scans)
         /\ \A v \in Instances : WriterHeld(files', asked, scans, v, writers[v])
         /\ \A f \in 1..Len(files) : \E rest \in Seq(Marks) : files'[f] = files[f] \o rest
<1> DEFINE f == writers[w].file
           rec == writers[w].rec
           text == files[f]
<1>1. /\ scans \in Nat /\ Len(files) \in Nat /\ DOMAIN files = 1..Len(files)
      /\ FilesHeld(files, scans) /\ AskedHeld(files, asked, scans)
      /\ \A v \in Instances : WriterHeld(files, asked, scans, v, writers[v])
  BY AskedScans DEF AskInv, LogShape
<1>2. /\ rec \in Records(Nat) /\ rec.rid \in 1..scans
      /\ rec.kind = "scan" => rec.rid \in asked[w]
      /\ rec.kind = "resolution" =>
           /\ \A v \in Instances : rec.rid \notin asked[v]
           /\ \A g : FileHas(files, g, "scan", rec.rid) => g <= f
  <2>1. writers[w] \in WriterShape /\ writers[w].at # "idle"
    BY DEF AskInv, LogShape, HasFile
  <2> QED
    BY <1>1, <2>1 DEF WriterHeld, WriterShape
<1> HIDE DEF f, rec
<1>3. /\ f \in 1..Len(files) /\ Len(files') = Len(files)
      /\ files'[f] = text \o more /\ Added(more, rec)
      /\ \A g \in 1..Len(files) : g # f => files'[g] = files[g]
  BY <1>1 DEF f, rec
<1>4. TextHeld(text, scans) /\ text \in Seq(Marks)
  BY <1>1, <1>3 DEF FilesHeld, TextHeld
<1>5. rec.kind = "scan" => \A g : ~FileHas(files, g, "resolution", rec.rid)
  BY <1>1, <1>2 DEF AskedHeld
<1>6. TextHeld(text \o more, scans)
  <2>1. rec.kind = "scan" => ~TextHas(text, "resolution", rec.rid)
    BY <1>3, <1>5 DEF FileHas
  <2> HIDE DEF text
  <2> QED
    BY <1>1, <1>2, <1>3, <1>4, <2>1, TextGrows
<1>7. ASSUME NEW g, NEW kind \in Kinds, NEW rid, FileHas(files', g, kind, rid)
      PROVE  FileHas(files, g, kind, rid) \/ (g = f /\ kind = rec.kind /\ rid = rec.rid)
  <2>1. g \in 1..Len(files) /\ TextHas(files'[g], kind, rid)
    BY <1>3, <1>7 DEF FileHas
  <2>2. CASE g = f
    <3>1. TextHas(text \o more, kind, rid)
      BY <1>3, <2>1, <2>2
    <3>2. TextHas(text, kind, rid) \/ (kind = rec.kind /\ rid = rec.rid)
      <4> HIDE DEF text
      <4> QED
        BY <1>2, <1>3, <1>4, <3>1, BytesGrow
    <3> QED
      BY <2>1, <2>2, <3>2 DEF FileHas
  <2>3. CASE g # f
    BY <1>3, <2>1, <2>3 DEF FileHas
  <2> QED
    BY <2>2, <2>3
<1>8. "scan" \in Kinds /\ "resolution" \in Kinds
  BY DEF Kinds
<1>9. FilesHeld(files', scans)
  <2>1. \A g \in 1..Len(files') : TextHeld(files'[g], scans)
    BY <1>1, <1>3, <1>6 DEF FilesHeld
  <2>2. ASSUME NEW g, NEW h, NEW rid,
               FileHas(files', g, "resolution", rid), FileHas(files', h, "scan", rid)
        PROVE  h <= g
    <3>1. FileHas(files, g, "resolution", rid) \/ (g = f /\ rec.kind = "resolution" /\ rid = rec.rid)
      BY <1>7, <1>8, <2>2
    <3>2. FileHas(files, h, "scan", rid) \/ (h = f /\ rec.kind = "scan" /\ rid = rec.rid)
      BY <1>7, <1>8, <2>2
    <3>3. CASE FileHas(files, h, "scan", rid) /\ FileHas(files, g, "resolution", rid)
      BY <1>1, <3>3 DEF FilesHeld
    <3>4. CASE FileHas(files, h, "scan", rid) /\ g = f /\ rec.kind = "resolution" /\ rid = rec.rid
      BY <1>2, <3>4
    <3>5. CASE rec.kind = "scan" /\ rid = rec.rid
      BY <1>5, <3>1, <3>5
    <3> QED
      BY <3>1, <3>2, <3>3, <3>4, <3>5
  <2> QED
    BY <2>1, <2>2 DEF FilesHeld
<1>10. AskedHeld(files', asked, scans)
  <2>1. ASSUME NEW v \in Instances, NEW rid \in asked[v], NEW g,
               FileHas(files', g, "resolution", rid)
        PROVE  FALSE
    <3>1. FileHas(files, g, "resolution", rid) \/ (rec.kind = "resolution" /\ rid = rec.rid)
      BY <1>7, <1>8, <2>1
    <3> QED
      BY <1>1, <1>2, <2>1, <3>1 DEF AskedHeld
  <2> QED
    BY <1>1, <2>1 DEF AskedHeld
<1>11. ASSUME NEW v \in Instances
       PROVE  WriterHeld(files', asked, scans, v, writers[v])
  <2>1. WriterHeld(files, asked, scans, v, writers[v])
    BY <1>1
  <2>2. ASSUME writers[v].at # "idle", writers[v].rec.kind = "resolution", HasFile(writers[v]),
               NEW g, FileHas(files', g, "scan", writers[v].rec.rid)
        PROVE  g <= writers[v].file
    <3> DEFINE rid == writers[v].rec.rid
    <3>1. FileHas(files, g, "scan", rid) \/ (rec.kind = "scan" /\ rid = rec.rid)
      BY <1>7, <1>8, <2>2
    <3>2. /\ \A u \in Instances : rid \notin asked[u]
          /\ FileHas(files, g, "scan", rid) => g <= writers[v].file
      BY <2>1, <2>2 DEF WriterHeld
    <3> HIDE DEF rid
    <3> QED
      BY <1>2, <3>1, <3>2
  <2> QED
    BY <2>1, <2>2 DEF WriterHeld
<1>12. ASSUME NEW g \in 1..Len(files)
       PROVE  \E rest \in Seq(Marks) : files'[g] = files[g] \o rest
  <2>1. CASE g = f
    <3>1. more \in Seq(Marks)
      <4>1. more \in Seq(Own(rec)) /\ Own(rec) \subseteq Marks
        BY <1>2, <1>3, OwnFacts DEF Added
      <4> HIDE DEF Own, Marks
      <4> QED
        BY <4>1
    <3> QED
      BY <1>3, <2>1, <3>1
  <2>2. CASE g # f
    <3>1. TextHeld(files[g], scans)
      BY <1>1 DEF FilesHeld
    <3> DEFINE a == files[g]
    <3>2. a \in Seq(Marks) /\ files'[g] = a
      BY <1>3, <2>2, <3>1 DEF TextHeld
    <3> HIDE DEF a
    <3>3. a \o <<>> = a /\ <<>> \in Seq(Marks)
      <4> HIDE DEF Marks
      <4> QED
        BY <3>2
    <3> QED
      BY <3>2, <3>3 DEF a
  <2> QED
    BY <2>1, <2>2
<1> QED
  BY <1>9, <1>10, <1>11, <1>12

LEMMA WriteHeld ==
  ASSUME AskInv, NEW w \in Instances, Write(w)
  PROVE  /\ AskInv'
         /\ \A f \in 1..Len(files) : \E rest \in Seq(Marks) : files'[f] = files[f] \o rest
<1>1. /\ LogShape' /\ writers'[w] = Idle
      /\ \A v \in Instances : v # w => writers'[v] = writers[v]
      /\ writers[w].file \in DOMAIN files /\ Len(files') = Len(files)
      /\ files'[writers[w].file] = files[writers[w].file] \o Rest(writers[w])
      /\ \A g \in DOMAIN files : g # writers[w].file => files'[g] = files[g]
  BY WriteShape DEF AskInv
<1>2. writers[w] \in WriterShape /\ HasFile(writers[w])
  BY DEF AskInv, LogShape, Write, HasFile
<1> DEFINE more == Rest(writers[w])
<1>3. Added(more, writers[w].rec)
  BY <1>2, AddedFacts
<1>4. current' = current /\ rotated' = rotated /\ asked' = asked /\ scans' = scans
  BY DEF Write
<1> HIDE DEF more
<1>5. files'[writers[w].file] = files[writers[w].file] \o more
  BY <1>1 DEF more
<1>6. /\ FilesHeld(files', scans) /\ AskedHeld(files', asked, scans)
      /\ \A v \in Instances : WriterHeld(files', asked, scans, v, writers[v])
      /\ \A f \in 1..Len(files) : \E rest \in Seq(Marks) : files'[f] = files[f] \o rest
  BY <1>1, <1>2, <1>3, <1>5, AppendHeld
<1>7. WriterHeld(files', asked', scans', w, writers'[w])
  BY <1>1 DEF WriterHeld, Idle
<1>8. \A v \in Instances : WriterHeld(files', asked', scans', v, writers'[v])
  BY <1>1, <1>4, <1>6, <1>7
<1>9. InOrder' /\ scans' <= MaxScans
  BY <1>1, <1>4 DEF AskInv, InOrder
<1> QED
  BY <1>1, <1>4, <1>6, <1>8, <1>9 DEF AskInv

LEMMA WriteShortHeld ==
  ASSUME AskInv, NEW w \in Instances, WriteShort(w)
  PROVE  /\ AskInv'
         /\ \A f \in 1..Len(files) : \E rest \in Seq(Marks) : files'[f] = files[f] \o rest
<1> DEFINE more == (IF writers[w].lead THEN <<NewLine>> ELSE <<>>) \o <<Byte(writers[w].rec, 1)>>
<1>1. /\ LogShape'
      /\ writers[w].at = "opened"
      /\ writers'[w].at = "short" /\ writers'[w].rec = writers[w].rec
      /\ writers'[w].file = writers[w].file
      /\ \A v \in Instances : v # w => writers'[v] = writers[v]
      /\ writers[w].file \in DOMAIN files /\ Len(files') = Len(files)
      /\ files'[writers[w].file] = files[writers[w].file] \o more
      /\ \A g \in DOMAIN files : g # writers[w].file => files'[g] = files[g]
  BY WriteShortShape DEF AskInv
<1>2. writers[w] \in WriterShape /\ HasFile(writers[w]) /\ HasFile(writers'[w])
  BY <1>1 DEF AskInv, LogShape, HasFile
<1>3. Added(more, writers[w].rec)
  BY <1>2, AddedFacts
<1>4. current' = current /\ rotated' = rotated /\ asked' = asked /\ scans' = scans
  BY DEF WriteShort
<1> HIDE DEF more
<1>6. /\ FilesHeld(files', scans) /\ AskedHeld(files', asked, scans)
      /\ \A v \in Instances : WriterHeld(files', asked, scans, v, writers[v])
      /\ \A f \in 1..Len(files) : \E rest \in Seq(Marks) : files'[f] = files[f] \o rest
  BY <1>1, <1>2, <1>3, AppendHeld
<1>7. WriterHeld(files', asked', scans', w, writers'[w])
  <2>1. WriterHeld(files', asked, scans, w, writers[w])
    BY <1>6
  <2> QED
    BY <1>1, <1>2, <1>4, <2>1 DEF WriterHeld
<1>8. \A v \in Instances : WriterHeld(files', asked', scans', v, writers'[v])
  BY <1>1, <1>4, <1>6, <1>7
<1>9. InOrder' /\ scans' <= MaxScans
  BY <1>1, <1>4 DEF AskInv, InOrder
<1> QED
  BY <1>1, <1>4, <1>6, <1>8, <1>9 DEF AskInv

LEMMA AskInit == Init => AskInv
<1> SUFFICES ASSUME Init PROVE AskInv
  OBVIOUS
<1>1. /\ LogShape /\ files = <<>> /\ current = 0 /\ scans = 0
      /\ \A w \in Instances : writers[w].at = "idle" /\ asked[w] = {}
  BY ShapeInit DEF Init, Idle
<1>2. Len(files) = 0 /\ InOrder
  BY <1>1 DEF InOrder
<1>3. FilesHeld(files, scans)
  BY <1>2 DEF FilesHeld, FileHas
<1>4. AskedHeld(files, asked, scans) /\ scans <= MaxScans
  BY <1>1, LogAssumption DEF AskedHeld
<1> QED
  BY <1>1, <1>2, <1>3, <1>4 DEF AskInv, WriterHeld

(* The lines that a file has stay in it.                                    *)
LinesStay ==
  /\ Len(files) <= Len(files')
  /\ \A f \in 1..Len(files) : OnLines(files[f]) \subseteq OnLines(files'[f])

LEMMA GrownLines ==
  ASSUME AskInv, Len(files) <= Len(files'),
         \A f \in 1..Len(files) : \E rest \in Seq(Marks) : files'[f] = files[f] \o rest
  PROVE  LinesStay
<1>1. ASSUME NEW f \in 1..Len(files), NEW rec \in OnLines(files[f])
      PROVE  rec \in OnLines(files'[f])
  <2>1. PICK rest \in Seq(Marks) : files'[f] = files[f] \o rest
    OBVIOUS
  <2>2. files[f] \in Seq(Marks) /\ EndsWhole(files[f])
    BY DEF AskInv, FilesHeld, TextHeld
  <2> QED
    BY <1>1, <2>1, <2>2, OnLinesGrow
<1> QED
  BY <1>1 DEF LinesStay

LEMMA AskStep == AskInv /\ [Next]_vars => AskInv' /\ LinesStay
<1> SUFFICES ASSUME AskInv, [Next]_vars PROVE AskInv' /\ LinesStay
  OBVIOUS
<1>0. Len(files) \in Nat /\ LogShape
  BY DEF AskInv, LogShape
<1>1. ASSUME files' = files PROVE LinesStay
  BY <1>0, <1>1 DEF LinesStay
<1>2. ASSUME NEW w \in Instances, WriteScan(w) PROVE AskInv' /\ LinesStay
  BY <1>0, <1>1, <1>2, ScanHeld, ScanShape
<1>3. ASSUME NEW w \in Instances, WriteResolution(w) PROVE AskInv' /\ LinesStay
  BY <1>0, <1>1, <1>3, ResolutionHeld, ResolutionShape
<1>4. ASSUME NEW w \in Instances, Rotate(w) PROVE AskInv' /\ LinesStay
  BY <1>0, <1>1, <1>4, RotateHeld, RotateShape
<1>5. ASSUME NEW w \in Instances, Open(w) PROVE AskInv' /\ LinesStay
  <2>1. AskInv'
    BY <1>5, OpenHeld
  <2>2. /\ current # 0 => files' = files
        /\ current = 0 => /\ Len(files') = Len(files) + 1
                          /\ \A f \in DOMAIN files : files'[f] = files[f]
    BY <1>0, <1>5, OpenShape
  <2>3. DOMAIN files = 1..Len(files)
    BY <1>0 DEF LogShape
  <2>4. CASE current # 0
    BY <1>1, <2>1, <2>2, <2>4
  <2>5. CASE current = 0
    <3>1. Len(files) <= Len(files') /\ \A f \in 1..Len(files) : files'[f] = files[f]
      BY <1>0, <2>2, <2>3, <2>5
    <3>2. LinesStay
      BY <3>1 DEF LinesStay
    <3> QED
      BY <2>1, <3>2
  <2> QED
    BY <2>4, <2>5
<1>6. ASSUME NEW w \in Instances, Write(w) PROVE AskInv' /\ LinesStay
  <2>0. Len(files') = Len(files)
    BY <1>0, <1>6, WriteShape
  <2>1. Len(files) <= Len(files')
    BY <1>0, <2>0
  <2> QED
    BY <1>6, <2>1, WriteHeld, GrownLines
<1>7. ASSUME NEW w \in Instances, WriteShort(w) PROVE AskInv' /\ LinesStay
  <2>0. Len(files') = Len(files)
    BY <1>0, <1>7, WriteShortShape
  <2>1. Len(files) <= Len(files')
    BY <1>0, <2>0
  <2> QED
    BY <1>7, <2>1, WriteShortHeld, GrownLines
<1>8. ASSUME NEW w \in Instances, Fail(w) \/ Crash(w) PROVE AskInv' /\ LinesStay
  BY <1>0, <1>1, <1>8, StopHeld, StopShape
<1>9. CASE Reads \/ UNCHANGED vars
  <2>1. /\ LogShape' /\ files' = files /\ current' = current /\ rotated' = rotated
        /\ writers' = writers /\ asked' = asked /\ scans' = scans
    BY <1>0, <1>9, ReadsShape
  <2>2. AskInv'
    BY <2>1 DEF AskInv, InOrder
  <2> QED
    BY <1>1, <2>1, <2>2
<1> QED
  BY <1>2, <1>3, <1>4, <1>5, <1>6, <1>7, <1>8, <1>9 DEF Next, Reads

-----------------------------------------------------------------------------
(* A reading, and what the writers do meanwhile.                           *)

Entries == [rec : Records(Nat), file : Nat]

ReaderShape ==
  [at : {"none", "between", "done"}, records : Seq(Records(Nat)), left : Nat, limit : Nat,
   before : SUBSET Entries, kept : SUBSET Nat, shown : Seq(ShownEntries)]

(* The answers that were on lines come before their scans.                  *)
Answers(recs, before) ==
  \A rid : (\E e \in before : e.rec = ResolutionOf(rid)) => AnsweredBefore(recs, rid)

(* The file c has been read, and r was the rotated one: it still is, or c   *)
(* or a newer one has been rotated since.                                   *)
ReadTo(c, r) ==
  /\ r <= rotated
  /\ c # 0 => r < c
  /\ current # 0 => r < current
  /\ \A e \in reader.before :
       e.file \in {c, r} /\ e.file \in 1..Len(files) /\ e.rec \in OnLines(files[e.file])
  /\ reader.left > 0 =>
       \A e \in reader.before : e.file = c =>
         \E k \in 1..Len(reader.records) : reader.records[k] = e.rec

Between ==
  /\ reader.at = "between" /\ reader.shown = <<>>
  /\ Answers(reader.records, reader.before)
  /\ \E c, r \in 0..Len(files) : ReadTo(c, r)

ReaderInv ==
  /\ reader \in ReaderShape
  /\ \/ reader.at = "none" /\ reader.shown = <<>>
     \/ Between
     \/ reader.at = "done" /\ HistoryTold

HistoryInv == AskInv /\ ReaderInv

LEMMA FileText ==
  ASSUME AskInv, NEW f \in 1..Len(files)
  PROVE  files[f] \in Seq(Marks) /\ Ordered(files[f]) /\ Content(f) = files[f]
<1>1. f # 0
  BY DEF AskInv, LogShape
<1> QED
  BY <1>1 DEF AskInv, FilesHeld, TextHeld, Content

LEMMA ContentHeld ==
  ASSUME AskInv, NEW f \in 0..Len(files)
  PROVE  /\ Content(f) \in Seq(Marks) /\ Ordered(Content(f))
         /\ \A rec \in OnLines(Content(f)) :
              f \in 1..Len(files) /\ Content(f) = files[f]
<1>0. Len(files) \in Nat
  BY DEF AskInv, LogShape
<1>1. CASE f = 0
  <2> DEFINE none == <<>>
  <2>1. none \in Seq(Marks) /\ Len(none) = 0 /\ none = <<>>
    OBVIOUS
  <2>2. Content(f) = none
    BY <1>1 DEF Content
  <2> HIDE DEF none
  <2>3. OnLines(none) = {}
    <3> DEFINE s == << <<>> >>
    <3>1. \A b \in 1..Len(s) : Len(s[b]) = 0
      OBVIOUS
    <3> HIDE DEF s
    <3>2. Split(none) = s
      BY <2>1, SplitEmpty DEF s
    <3>3. ASSUME NEW rec \in OnLines(none) PROVE FALSE
      <4>1. PICK b : Has(s, b, rec)
        BY <2>1, <3>2, <3>3, OnLinesHas
      <4> QED
        BY <3>1, <4>1 DEF Has, IsRecord
    <3> QED
      BY <3>3
  <2> QED
    BY <2>1, <2>2, <2>3 DEF Ordered
<1>2. CASE f # 0
  <2>1. f \in 1..Len(files)
    BY <1>0, <1>2
  <2> QED
    BY <2>1, FileText
<1> QED
  BY <1>1, <1>2

LEMMA LineHas ==
  ASSUME AskInv, NEW f \in 1..Len(files), NEW rec \in OnLines(files[f])
  PROVE  /\ rec \in Records(Nat) /\ FileHas(files, f, rec.kind, rec.rid)
         /\ rec.rid \in 1..scans
<1>1. files[f] \in Seq(Marks)
  BY FileText
<1>2. PICK b : Has(Split(files[f]), b, rec)
  BY <1>1, OnLinesHas
<1>3. /\ rec \in Records(Nat)
      /\ \E q \in 1..Len(files[f]) : files[f][q] = Byte(rec, 1)
  BY <1>1, <1>2, LineBytes
<1>4. FileHas(files, f, rec.kind, rec.rid)
  <2>1. Byte(rec, 1).kind = rec.kind /\ Byte(rec, 1).rid = rec.rid
    BY DEF Byte
  <2> QED
    BY <1>3, <2>1 DEF FileHas, TextHas
<1>5. rec.rid \in 1..scans
  <2>1. rec.kind \in Kinds /\ scans \in Nat /\ FilesHeld(files, scans)
    BY <1>3, AskedScans DEF Records, AskInv
  <2> QED
    BY <1>4, <2>1, KnownRequests
<1> QED
  BY <1>3, <1>4, <1>5

(* A scan is in no later file than its answer.                              *)
LEMMA ScanNoLater ==
  ASSUME AskInv, NEW f \in 1..Len(files), NEW g \in 1..Len(files), NEW rid,
         ResolutionOf(rid) \in OnLines(files[f]), ScanOf(rid) \in OnLines(files[g])
  PROVE  g <= f
<1>1. /\ ResolutionOf(rid).kind = "resolution" /\ ResolutionOf(rid).rid = rid
      /\ ScanOf(rid).kind = "scan" /\ ScanOf(rid).rid = rid
  BY DEF ResolutionOf, ScanOf
<1>2. FileHas(files, f, "resolution", rid) /\ FileHas(files, g, "scan", rid)
  BY <1>1, LineHas
<1> QED
  BY <1>2 DEF AskInv, FilesHeld

LEMMA ReadFirstHeld ==
  ASSUME HistoryInv, NEW budget \in Budgets, NEW limit \in Limits, ReadFirst(budget, limit)
  PROVE  ReaderInv'
<1> DEFINE text == Content(current)
           recs == ReadOf(text, budget)
           left == LeftOf(text, budget)
           before == UNION {[rec : OnLines(Content(f)), file : {f}] : f \in Named}
<1>1. /\ reader' = [NoReading EXCEPT !.at = "between", !.records = recs, !.left = left,
                                     !.limit = limit, !.before = before]
      /\ files' = files /\ current' = current /\ rotated' = rotated
  BY DEF ReadFirst, ReadOf, LeftOf, ReadOrder
<1>2. /\ AskInv /\ current \in 0..Len(files) /\ rotated \in 0..Len(files)
      /\ Len(files) \in Nat /\ (current # 0 => rotated < current)
      /\ budget \in Nat /\ limit \in Nat
  BY LogAssumption DEF HistoryInv, AskInv, LogShape, InOrder
<1>3. text \in Seq(Marks) /\ Ordered(text)
      /\ \A rec \in OnLines(text) : current \in 1..Len(files) /\ text = files[current]
  BY <1>2, ContentHeld
<1>4. /\ left \in Nat /\ recs \in Seq(Records(Nat))
      /\ \A k \in 1..Len(recs) : recs[k] \in OnLines(text)
      /\ left > 0 => \A rec \in OnLines(text) : \E k \in 1..Len(recs) : recs[k] = rec
      /\ \A rid : ResolutionOf(rid) \in OnLines(text) => AnsweredBefore(recs, rid)
  BY <1>2, <1>3, ReadFacts
<1>5. ASSUME NEW e \in before
      PROVE  /\ e.file \in {current, rotated} /\ e.file \in 1..Len(files)
             /\ e.rec \in OnLines(files[e.file]) /\ e.rec \in OnLines(Content(e.file))
             /\ e \in Entries
  <2>1. PICK f \in Named : e \in [rec : OnLines(Content(f)), file : {f}]
    BY <1>5
  <2>2. e.file = f /\ e.rec \in OnLines(Content(f)) /\ e = [rec |-> e.rec, file |-> e.file]
    BY <2>1
  <2>3. f \in 0..Len(files) /\ f \in {current, rotated}
    BY <1>2 DEF Named
  <2>4. f \in 1..Len(files) /\ Content(f) = files[f]
    BY <1>2, <2>2, <2>3, ContentHeld
  <2>5. e.rec \in Records(Nat) /\ e.file \in Nat
    BY <1>2, <2>2, <2>4, LineHas
  <2>6. e \in Entries
    BY <2>2, <2>5 DEF Entries
  <2> QED
    BY <2>2, <2>3, <2>4, <2>6
<1> HIDE DEF before, recs, left, text
<1>6. /\ reader'.at = "between" /\ reader'.records = recs /\ reader'.left = left
      /\ reader'.before = before /\ reader'.shown = <<>>
  BY <1>1 DEF NoReading
<1>7. (reader \in ReaderShape)'
  <2>1. before \in SUBSET Entries
    BY <1>5
  <2>2. <<>> \in Seq(ShownEntries) /\ {} \in SUBSET Nat
    OBVIOUS
  <2>3. reader' = [at |-> "between", records |-> recs, left |-> left, limit |-> limit,
                   before |-> before, kept |-> {}, shown |-> <<>>]
    BY <1>1 DEF NoReading
  <2> HIDE DEF Entries, ShownEntries
  <2> QED
    BY <1>2, <1>4, <2>1, <2>2, <2>3 DEF ReaderShape
<1>8. Answers(recs, before)
  <2> SUFFICES ASSUME NEW rid, NEW e \in before, e.rec = ResolutionOf(rid)
               PROVE  AnsweredBefore(recs, rid)
    BY DEF Answers
  <2>1. CASE e.file = current
    <3>1. ResolutionOf(rid) \in OnLines(text)
      BY <1>5, <2>1 DEF text
    <3> QED
      BY <1>4, <3>1
  <2>2. CASE e.file # current
    <3>1. e.file = rotated /\ e.file \in 1..Len(files) /\ ResolutionOf(rid) \in OnLines(files[e.file])
      BY <1>5, <2>2
    <3>2. ASSUME NEW k \in 1..Len(recs), recs[k] = ScanOf(rid)
          PROVE  FALSE
      <4>1. ScanOf(rid) \in OnLines(text)
        BY <1>4, <3>2
      <4>2. current \in 1..Len(files) /\ ScanOf(rid) \in OnLines(files[current])
        BY <1>3, <4>1
      <4>3. current <= rotated
        BY <1>2, <3>1, <4>2, ScanNoLater
      <4> QED
        BY <1>2, <4>2, <4>3
    <3> QED
      BY <3>2 DEF AnsweredBefore
  <2> QED
    BY <2>1, <2>2
<1>9. ReadTo(current, rotated)'
  <2>1. rotated <= rotated
    BY <1>2
  <2>2. left > 0 => \A e \in before : e.file = current => \E k \in 1..Len(recs) : recs[k] = e.rec
    BY <1>4, <1>5 DEF text
  <2> QED
    BY <1>1, <1>2, <1>5, <1>6, <2>1, <2>2 DEF ReadTo
<1>10. Between'
  <2>1. current' \in 0..Len(files') /\ rotated' \in 0..Len(files')
    BY <1>1, <1>2
  <2> QED
    BY <1>6, <1>8, <1>9, <2>1 DEF Between
<1> QED
  BY <1>7, <1>10 DEF ReaderInv

LEMMA TwoParts ==
  ASSUME NEW T, NEW p \in Seq(T), NEW q \in Seq(T), NEW k \in 1..Len(p \o q)
  PROVE  \/ k \in 1..Len(p) /\ (p \o q)[k] = p[k]
         \/ \E l \in 1..Len(q) : k = Len(p) + l /\ (p \o q)[k] = q[l]
<1> DEFINE c == p \o q
           m == Len(p)
           n == Len(q)
<1>1. /\ Len(c) = m + n
      /\ \A i \in 1..(m + n) : c[i] = IF i <= m THEN p[i] ELSE q[i - m]
  BY ConcatFacts
<1>2. m \in Nat /\ n \in Nat
  OBVIOUS
<1> HIDE DEF c, m, n
<1>3. k \in 1..(m + n)
  BY <1>1 DEF c
<1>4. CASE k <= m
  <2>1. k \in 1..m /\ c[k] = p[k]
    BY <1>1, <1>2, <1>3, <1>4
  <2> QED
    BY <2>1 DEF c, m
<1>5. CASE ~(k <= m)
  <2>1. k - m \in 1..n /\ k = m + (k - m) /\ c[k] = q[k - m]
    BY <1>1, <1>2, <1>3, <1>5
  <2>2. \E l \in 1..n : k = m + l /\ c[k] = q[l]
    BY <2>1
  <2> QED
    BY <2>2 DEF c, m, n
<1> QED
  BY <1>4, <1>5

LEMMA PartsFacts ==
  ASSUME NEW T, NEW p \in Seq(T), NEW q \in Seq(T)
  PROVE  /\ p \o q \in Seq(T) /\ Len(p \o q) = Len(p) + Len(q)
         /\ Len(p) \in Nat /\ Len(q) \in Nat
         /\ \A k \in 1..Len(p) : k \in 1..Len(p \o q) /\ (p \o q)[k] = p[k]
         /\ \A l \in 1..Len(q) : Len(p) + l \in 1..Len(p \o q) /\ (p \o q)[Len(p) + l] = q[l]
<1> DEFINE c == p \o q
           m == Len(p)
           n == Len(q)
<1>1. /\ c \in Seq(T) /\ Len(c) = m + n
      /\ \A i \in 1..(m + n) : c[i] = IF i <= m THEN p[i] ELSE q[i - m]
  BY ConcatFacts
<1>2. m \in Nat /\ n \in Nat
  OBVIOUS
<1> HIDE DEF c, m, n
<1>3. ASSUME NEW k \in 1..m PROVE k \in 1..Len(c) /\ c[k] = p[k]
  BY <1>1, <1>2
<1>4. ASSUME NEW l \in 1..n PROVE m + l \in 1..Len(c) /\ c[m + l] = q[l]
  <2> DEFINE t == m + l
  <2>1. t \in 1..(m + n) /\ ~(t <= m) /\ t - m = l
    BY <1>2
  <2> HIDE DEF t
  <2>2. t \in 1..Len(c) /\ c[t] = q[l]
    BY <1>1, <2>1
  <2> QED
    BY <2>2 DEF t
<1> QED
  BY <1>1, <1>2, <1>3, <1>4 DEF c, m, n

LEMMA ReadSecondHeld ==
  ASSUME HistoryInv, ReadSecond
  PROVE  ReaderInv'
<1> DEFINE text == Content(rotated)
           first == reader.records
           second == ReadOf(text, reader.left)
           left == LeftOf(text, reader.left)
           recs == first \o second
           shown == RecentScans(recs, reader.limit, Rids)
           before == reader.before
<1>1. /\ reader' = [reader EXCEPT !.at = "done", !.shown = shown,
                                  !.records = <<>>, !.left = left, !.kept = Named]
      /\ reader.at = "between"
  BY DEF ReadSecond, ReadOf, LeftOf, ReadOrder
<1>2. /\ AskInv /\ current \in 0..Len(files) /\ rotated \in 0..Len(files)
      /\ Len(files) \in Nat /\ reader \in ReaderShape /\ Between
      /\ scans \in Nat /\ MaxScans \in Nat /\ scans <= MaxScans
  BY <1>1, AskedScans DEF HistoryInv, ReaderInv, AskInv, LogShape
<1>3. PICK c \in 0..Len(files), r \in 0..Len(files) : ReadTo(c, r)
  BY <1>2 DEF Between
<1>4. /\ first \in Seq(Records(Nat)) /\ reader.left \in Nat /\ reader.limit \in Nat
      /\ before \in SUBSET Entries
  BY <1>2 DEF ReaderShape
<1>5. text \in Seq(Marks) /\ Ordered(text)
      /\ \A rec \in OnLines(text) : rotated \in 1..Len(files) /\ text = files[rotated]
  BY <1>2, ContentHeld
<1>6. /\ left \in Nat /\ left <= reader.left /\ second \in Seq(Records(Nat))
      /\ \A k \in 1..Len(second) : second[k] \in OnLines(text)
      /\ left > 0 => \A rec \in OnLines(text) : \E k \in 1..Len(second) : second[k] = rec
      /\ reader.left = 0 => Len(second) = 0
      /\ \A rid : ResolutionOf(rid) \in OnLines(text) => AnsweredBefore(second, rid)
  BY <1>4, <1>5, ReadFacts
<1>7. ASSUME NEW e \in before
      PROVE  /\ e.file \in {c, r} /\ e.file \in 1..Len(files)
             /\ e.rec \in OnLines(files[e.file])
             /\ reader.left > 0 /\ e.file = c => \E k \in 1..Len(first) : first[k] = e.rec
             /\ e.rec \in Records(Nat) /\ e.rec.rid \in 1..scans
  <2>1. /\ e.file \in {c, r} /\ e.file \in 1..Len(files) /\ e.rec \in OnLines(files[e.file])
        /\ reader.left > 0 /\ e.file = c => \E k \in 1..Len(first) : first[k] = e.rec
    BY <1>3 DEF ReadTo
  <2> QED
    BY <1>2, <2>1, LineHas
<1>8. r <= rotated /\ (current # 0 => r < current)
  BY <1>3 DEF ReadTo
<1>9. Answers(first, before) /\ reader.shown = <<>>
  BY <1>2 DEF Between
<1> HIDE DEF text, first, second, left, before
<1>10. /\ recs \in Seq(Records(Nat)) /\ Len(recs) = Len(first) + Len(second)
       /\ Len(first) \in Nat /\ Len(second) \in Nat
       /\ \A k \in 1..Len(first) : k \in 1..Len(recs) /\ recs[k] = first[k]
       /\ \A l \in 1..Len(second) : Len(first) + l \in 1..Len(recs)
                                    /\ recs[Len(first) + l] = second[l]
  BY <1>4, <1>6, PartsFacts
<1>11. ASSUME NEW k \in 1..Len(recs)
       PROVE  \/ k \in 1..Len(first) /\ recs[k] = first[k]
              \/ \E l \in 1..Len(second) : k = Len(first) + l /\ recs[k] = second[l]
  BY <1>4, <1>6, TwoParts
<1>12. /\ shown \in Seq(ShownEntries)
       /\ \A i \in 1..Len(shown) : ShownFrom(recs, Len(recs), shown[i])
       /\ \A i, j \in 1..Len(shown) : shown[i].rid = shown[j].rid => i = j
       /\ Len(shown) < reader.limit =>
            \A k \in 1..Len(recs) :
              recs[k].kind = "scan" /\ recs[k].rid \in Rids =>
                \E i \in 1..Len(shown) : shown[i].rid = recs[k].rid
  <2> DEFINE limit == reader.limit
  <2>1. recs \in Seq(Records(Nat)) /\ limit \in Nat
    BY <1>4, <1>10
  <2> HIDE DEF recs, limit
  <2>2. LET found == RecentScans(recs, limit, Rids)
        IN  /\ found \in Seq(ShownEntries)
            /\ \A i \in 1..Len(found) : ShownFrom(recs, Len(recs), found[i])
            /\ \A i, j \in 1..Len(found) : found[i].rid = found[j].rid => i = j
            /\ Len(found) < limit =>
                 \A k \in 1..Len(recs) :
                   recs[k].kind = "scan" /\ recs[k].rid \in Rids =>
                     \E i \in 1..Len(found) : found[i].rid = recs[k].rid
    BY <2>1, ShownFacts
  <2> QED
    BY <2>2 DEF limit
<1> HIDE DEF recs, shown
<1>13. Answers(recs, before)
  <2> SUFFICES ASSUME NEW rid, NEW e \in before, e.rec = ResolutionOf(rid),
                      NEW k \in 1..Len(recs), recs[k] = ScanOf(rid)
               PROVE  \E l \in 1..(k - 1) : recs[l] = ResolutionOf(rid)
    BY DEF Answers, AnsweredBefore
  <2>1. CASE k \in 1..Len(first) /\ recs[k] = first[k]
    <3>1. PICK l \in 1..(k - 1) : first[l] = ResolutionOf(rid)
      BY <1>9, <2>1 DEF Answers, AnsweredBefore
    <3>2. l \in 1..Len(first)
      BY <1>10, <2>1
    <3> QED
      BY <1>10, <3>1, <3>2
  <2>2. CASE \E j \in 1..Len(second) : k = Len(first) + j /\ recs[k] = second[j]
    <3>1. PICK j \in 1..Len(second) : k = Len(first) + j /\ recs[k] = second[j]
      BY <2>2
    <3>2. reader.left > 0
      <4>1. reader.left # 0
        BY <1>6, <1>10, <3>1
      <4> QED
        BY <1>4, <4>1
    <3>3. /\ rotated \in 1..Len(files) /\ text = files[rotated]
          /\ ScanOf(rid) \in OnLines(text)
      BY <1>5, <1>6, <3>1
    <3>4. CASE e.file = c
      <4>1. PICK l \in 1..Len(first) : first[l] = ResolutionOf(rid)
        BY <1>7, <3>2, <3>4
      <4>2. l \in 1..(k - 1)
        BY <1>10, <3>1
      <4> QED
        BY <1>10, <4>1, <4>2
    <3>5. CASE e.file = r
      <4>1. r \in 1..Len(files) /\ ResolutionOf(rid) \in OnLines(files[r])
        BY <1>7, <3>5
      <4>2. rotated <= r
        BY <1>2, <3>3, <4>1, ScanNoLater
      <4>3. rotated = r
        BY <1>8, <3>3, <4>1, <4>2
      <4>4. AnsweredBefore(second, rid)
        BY <1>6, <3>3, <4>1, <4>3
      <4>5. PICK l \in 1..(j - 1) : second[l] = ResolutionOf(rid)
        BY <3>1, <4>4 DEF AnsweredBefore
      <4>6. l \in 1..Len(second) /\ Len(first) + l \in 1..(k - 1)
        BY <1>10, <3>1, <4>5
      <4> QED
        BY <1>10, <4>5, <4>6
    <3> QED
      BY <1>7, <3>4, <3>5
  <2> QED
    BY <1>11, <2>1, <2>2
<1>14. /\ reader'.at = "done" /\ reader'.shown = shown /\ reader'.left = left
       /\ reader'.before = before /\ reader'.kept = Named /\ reader'.limit = reader.limit
       /\ (reader \in ReaderShape)'
  <2>1. Named \in SUBSET Nat /\ <<>> \in Seq(Records(Nat))
    BY <1>2 DEF Named
  <2> HIDE DEF Entries, ShownEntries
  <2> QED
    BY <1>1, <1>2, <1>6, <1>12, <2>1 DEF ReaderShape, before
<1>15. DOMAIN shown = 1..Len(shown)
  BY <1>12
<1>16. AnswersJoined'
  <2>1. ASSUME NEW i \in 1..Len(shown), NEW e \in before,
               e.rec = [kind |-> "resolution", rid |-> shown[i].rid]
        PROVE  shown[i].resolved
    <3> DEFINE rid == shown[i].rid
    <3>1. PICK k \in 1..Len(recs) :
            /\ recs[k] = ScanOf(rid)
            /\ (\E l \in 1..(k - 1) : recs[l] = ResolutionOf(rid)) => shown[i].resolved
      BY <1>12 DEF ShownFrom
    <3>2. e.rec = ResolutionOf(rid)
      BY <2>1 DEF ResolutionOf
    <3> HIDE DEF rid
    <3>3. AnsweredBefore(recs, rid)
      BY <1>13, <3>2 DEF Answers
    <3> QED
      BY <3>1, <3>3 DEF AnsweredBefore
  <2> QED
    BY <1>14, <1>15, <2>1 DEF AnswersJoined
<1>17. ASSUME left > 0, Len(shown) < reader.limit, NEW e \in before,
              e.rec.kind = "scan", e.file \in Named
       PROVE  \E i \in 1..Len(shown) : shown[i].rid = e.rec.rid
  <2>1. reader.left > 0
    BY <1>4, <1>6, <1>17
  <2>2. \E k \in 1..Len(recs) : recs[k] = e.rec
    <3>1. CASE e.file = c
      <4>1. PICK k \in 1..Len(first) : first[k] = e.rec
        BY <1>7, <2>1, <3>1
      <4> QED
        BY <1>10, <4>1
    <3>2. CASE e.file = r
      <4>1. r \in 1..Len(files) /\ e.rec \in OnLines(files[r])
        BY <1>7, <3>2
      <4>2. r = rotated
        <5>1. r \in {current, rotated} /\ r # 0
          BY <1>17, <3>2, <4>1 DEF Named
        <5> QED
          BY <1>2, <1>8, <5>1
      <4>3. text = files[rotated]
        BY <1>2, <4>1, <4>2, FileText DEF text
      <4>4. PICK l \in 1..Len(second) : second[l] = e.rec
        BY <1>6, <1>17, <4>1, <4>2, <4>3
      <4> QED
        BY <1>10, <4>4
    <3> QED
      BY <1>7, <3>1, <3>2
  <2>3. e.rec.rid \in Rids
    <3>1. e.rec.rid \in 1..scans
      BY <1>7
    <3> QED
      BY <1>2, <3>1 DEF Rids
  <2> QED
    BY <1>12, <1>17, <2>2, <2>3
<1>18. ScansListed'
  BY <1>12, <1>14, <1>15, <1>17 DEF ScansListed
<1> QED
  BY <1>14, <1>16, <1>18 DEF ReaderInv, HistoryTold

(* Where the names of the log go.                                           *)
NamesMove ==
  \/ current' = current /\ rotated' = rotated
  \/ current # 0 /\ current' = 0 /\ rotated' = current
  \/ current = 0 /\ current' > Len(files) /\ rotated' = rotated

LEMMA WritersMove ==
  ASSUME LogShape, NEW w \in Instances,
         \/ WriteScan(w) \/ WriteResolution(w) \/ Rotate(w) \/ Open(w)
         \/ Write(w) \/ WriteShort(w) \/ Fail(w) \/ Crash(w)
  PROVE  NamesMove /\ reader' = reader
<1>1. CASE Rotate(w)
  BY <1>1, RotateShape DEF Rotate, NamesMove
<1>2. CASE Open(w)
  <2>1. CASE current = 0
    <3>1. current' = Len(files) + 1 /\ rotated' = rotated /\ reader' = reader
      BY <1>2, <2>1 DEF Open
    <3>2. Len(files) \in Nat
      BY DEF LogShape
    <3>3. current' > Len(files)
      BY <3>1, <3>2
    <3> QED
      BY <2>1, <3>1, <3>3 DEF NamesMove
  <2>2. CASE current # 0
    BY <1>2, <2>2 DEF Open, NamesMove
  <2> QED
    BY <2>1, <2>2
<1>3. CASE \/ WriteScan(w) \/ WriteResolution(w) \/ Write(w) \/ WriteShort(w)
           \/ Fail(w) \/ Crash(w)
  BY <1>3 DEF WriteScan, WriteResolution, Sizes, Write, WriteShort, Fail, Crash, NamesMove
<1> QED
  BY <1>1, <1>2, <1>3

LEMMA ReadStays ==
  ASSUME HistoryInv, AskInv', LinesStay, NamesMove, reader' = reader
  PROVE  ReaderInv'
<1>1. /\ current \in 0..Len(files) /\ rotated \in 0..Len(files)
      /\ Len(files) \in Nat /\ Len(files') \in Nat
      /\ current' \in 0..Len(files') /\ rotated' \in 0..Len(files')
      /\ (current # 0 => rotated < current)
  BY DEF HistoryInv, AskInv, LogShape, InOrder
<1>2. ASSUME Between PROVE Between'
  <2>1. PICK c \in 0..Len(files), r \in 0..Len(files) : ReadTo(c, r)
    BY <1>2 DEF Between
  <2>2. r <= rotated' /\ (current' # 0 => r < current')
    <3>1. r <= rotated /\ (current # 0 => r < current)
      BY <2>1 DEF ReadTo
    <3>2. CASE current' = current /\ rotated' = rotated
      BY <3>1, <3>2
    <3>3. CASE current # 0 /\ current' = 0 /\ rotated' = current
      BY <1>1, <3>1, <3>3
    <3>4. CASE current = 0 /\ current' > Len(files) /\ rotated' = rotated
      BY <1>1, <3>1, <3>4
    <3> QED
      BY <3>2, <3>3, <3>4 DEF NamesMove
  <2>3. ASSUME NEW e \in reader.before
        PROVE  /\ e.file \in {c, r} /\ e.file \in 1..Len(files')
               /\ e.rec \in OnLines(files'[e.file])
    <3>1. /\ e.file \in {c, r} /\ e.file \in 1..Len(files)
          /\ e.rec \in OnLines(files[e.file])
      BY <2>1 DEF ReadTo
    <3>2. e.file \in 1..Len(files')
      BY <1>1, <3>1 DEF LinesStay
    <3> QED
      BY <3>1, <3>2 DEF LinesStay
  <2>4. ReadTo(c, r)'
    BY <2>1, <2>2, <2>3 DEF ReadTo
  <2>5. c \in 0..Len(files') /\ r \in 0..Len(files')
    BY <1>1 DEF LinesStay
  <2>6. reader'.at = "between" /\ reader'.shown = <<>> /\ Answers(reader'.records, reader'.before)
    BY <1>2 DEF Between
  <2> QED
    BY <2>4, <2>5, <2>6 DEF Between
<1>3. HistoryTold => HistoryTold'
  BY DEF HistoryTold, AnswersJoined, ScansListed
<1>4. ReaderInv
  BY DEF HistoryInv
<1>5. CASE reader.at = "none" /\ reader.shown = <<>>
  BY <1>4, <1>5 DEF ReaderInv
<1>6. CASE Between
  BY <1>2, <1>4, <1>6 DEF ReaderInv
<1>7. CASE reader.at = "done" /\ HistoryTold
  BY <1>3, <1>4, <1>7 DEF ReaderInv
<1> QED
  BY <1>4, <1>5, <1>6, <1>7 DEF ReaderInv

LEMMA HistoryInit == Init => HistoryInv
<1> SUFFICES ASSUME Init PROVE HistoryInv
  OBVIOUS
<1>1. AskInv /\ reader = NoReading
  BY AskInit DEF Init
<1>2. reader \in ReaderShape
  <2>1. /\ <<>> \in Seq(Records(Nat)) /\ <<>> \in Seq(ShownEntries)
        /\ {} \in SUBSET Entries /\ {} \in SUBSET Nat
    OBVIOUS
  <2> HIDE DEF Entries, ShownEntries
  <2> QED
    BY <1>1, <2>1 DEF NoReading, ReaderShape
<1>3. reader.at = "none" /\ reader.shown = <<>>
  BY <1>1 DEF NoReading
<1> QED
  BY <1>1, <1>2, <1>3 DEF HistoryInv, ReaderInv

LEMMA HistoryStep == HistoryInv /\ [Next]_vars => HistoryInv'
<1> SUFFICES ASSUME HistoryInv, [Next]_vars PROVE HistoryInv'
  OBVIOUS
<1>1. AskInv' /\ LinesStay /\ LogShape
  BY AskStep DEF HistoryInv, AskInv
<1>2. ASSUME NEW w \in Instances,
             \/ WriteScan(w) \/ WriteResolution(w) \/ Rotate(w) \/ Open(w)
             \/ Write(w) \/ WriteShort(w) \/ Fail(w) \/ Crash(w)
      PROVE  ReaderInv'
  BY <1>1, <1>2, WritersMove, ReadStays
<1>3. ASSUME NEW budget \in Budgets, NEW limit \in Limits, ReadFirst(budget, limit)
      PROVE  ReaderInv'
  BY <1>3, ReadFirstHeld
<1>4. ASSUME ReadSecond PROVE ReaderInv'
  BY <1>4, ReadSecondHeld
<1>5. ASSUME UNCHANGED vars PROVE ReaderInv'
  <2>1. NamesMove /\ reader' = reader
    BY <1>5 DEF vars, NamesMove
  <2> QED
    BY <1>1, <2>1, ReadStays
<1> QED
  BY <1>1, <1>2, <1>3, <1>4, <1>5 DEF Next, HistoryInv

(* What history shows is what the two files held when the reading began     *)
(* (history.py: read_records and recent_scans): a scan has its answer if    *)
(* that was on a line, and is listed if budget and limit allow, whatever    *)
(* the writers append and rotate between the reading of the one file and    *)
(* of the other.                                                           *)
THEOREM HistoryHolds == Spec => []HistoryTold
<1>1. HistoryInv => HistoryTold
  <2> SUFFICES ASSUME HistoryInv PROVE HistoryTold
    OBVIOUS
  <2>1. ReaderInv
    BY DEF HistoryInv
  <2>2. CASE reader.shown = <<>> /\ reader.at \in {"none", "between"}
    <3>1. DOMAIN reader.shown = {} /\ reader.at # "done"
      BY <2>2
    <3> QED
      BY <3>1 DEF HistoryTold, AnswersJoined, ScansListed
  <2>3. CASE HistoryTold
    BY <2>3
  <2> QED
    BY <2>1, <2>2, <2>3 DEF ReaderInv, Between
<1> QED
  BY <1>1, HistoryInit, HistoryStep, PTL DEF Spec

(* What history says of a scan it lists is what happened to the call        *)
(* (history.py: action_of): for every mode, verdict, failure, unattended    *)
(* run and snooze of either plugin it gives back the branch that was taken. *)
THEOREM ActionsHold == Spec => []ActionsTold
<1>1. \A resolved \in BOOLEAN : resolved \in ToldRight
  <2> SUFFICES ASSUME NEW resolved \in BOOLEAN, NEW mode \in Modes, NEW onError \in Policies,
                      NEW unattended \in BOOLEAN
               PROVE  /\ ScannedTold(mode, onError, unattended, resolved)
                      /\ FailedTold(mode, onError, unattended, resolved)
    BY DEF ToldRight, Modes, Policies
  <2> QED
    BY ScannedHeld, FailedHeld
<1>2. HistoryInv => ActionsTold
  <2> SUFFICES ASSUME HistoryInv, NEW i \in DOMAIN reader.shown
               PROVE  reader.shown[i].resolved \in ToldRight
    BY DEF ActionsTold
  <2>1. reader.shown \in Seq(ShownEntries)
    BY DEF HistoryInv, ReaderInv, ReaderShape
  <2>2. reader.shown[i] \in ShownEntries
    BY <2>1
  <2>3. reader.shown[i].resolved \in BOOLEAN
    BY <2>2 DEF ShownEntries
  <2> QED
    BY <1>1, <2>3
<1> QED
  BY <1>2, HistoryInit, HistoryStep, PTL DEF Spec
====
