--------------------------- MODULE SequenceRanges ---------------------------
(***************************************************************************)
(* Facts about sequences for the proofs: which elements the queues of the  *)
(* models hold, and induction over the places of a sequence.               *)
(*                                                                         *)
(* The induction is about a set of numbers, not about a predicate, and can *)
(* be used by giving it the set of the n for which a statement holds.      *)
(***************************************************************************)
EXTENDS Sequences, FiniteSetsExt, WellFoundedInduction, TLAPS

LEMMA RangeOfEmpty == Range(<<>>) = {}
  BY DEF Range

\* Append adds its element and nothing else.
LEMMA RangeOfAppend ==
  ASSUME NEW S, NEW q \in Seq(S), NEW e
  PROVE  Range(Append(q, e)) = Range(q) \cup {e}
  <1>1. /\ DOMAIN Append(q, e) = 1 .. Len(q) + 1
        /\ \A i \in 1 .. Len(q) : Append(q, e)[i] = q[i]
        /\ Append(q, e)[Len(q) + 1] = e
    OBVIOUS
  <1>2. DOMAIN q = 1 .. Len(q) /\ Len(q) \in Nat
    OBVIOUS
  <1>3. 1 .. Len(q) + 1 = (1 .. Len(q)) \cup {Len(q) + 1}
    BY <1>2
  <1>4. QED
    BY <1>1, <1>2, <1>3 DEF Range

\* A queue holds its head and what its tail holds.
LEMMA RangeOfTail ==
  ASSUME NEW S, NEW q \in Seq(S), q # <<>>
  PROVE  Range(q) = {Head(q)} \cup Range(Tail(q))
  <1>1. /\ DOMAIN Tail(q) = 1 .. Len(q) - 1
        /\ \A i \in 1 .. Len(q) - 1 : Tail(q)[i] = q[i + 1]
        /\ Head(q) = q[1]
    OBVIOUS
  <1>2. DOMAIN q = 1 .. Len(q) /\ Len(q) \in Nat \ {0}
    OBVIOUS
  <1>3. \A i \in 1 .. Len(q) : i = 1 \/ i - 1 \in 1 .. Len(q) - 1
    BY <1>2
  <1>4. ASSUME NEW i \in 1 .. Len(q)
        PROVE  q[i] = Head(q) \/ q[i] \in Range(Tail(q))
    <2>1. CASE i = 1
      BY <2>1, <1>1
    <2>2. CASE i - 1 \in 1 .. Len(q) - 1
      <3>1. Tail(q)[i - 1] = q[i]
        BY <2>2, <1>1, <1>2
      <3>2. QED
        BY <3>1, <2>2, <1>1 DEF Range
    <2>3. QED
      BY <1>3, <2>1, <2>2
  <1>5. Range(q) \subseteq {Head(q)} \cup Range(Tail(q))
    BY <1>2, <1>4 DEF Range
  <1>6. {Head(q)} \cup Range(Tail(q)) \subseteq Range(q)
    <2>1. \A i \in 1 .. Len(q) - 1 : i + 1 \in 1 .. Len(q) /\ Tail(q)[i] = q[i + 1]
      BY <1>1, <1>2
    <2>2. Range(Tail(q)) \subseteq Range(q)
      BY <1>1, <1>2, <2>1 DEF Range
    <2>3. Head(q) \in Range(q)
      BY <1>1, <1>2 DEF Range
    <2>4. QED
      BY <2>2, <2>3
  <1>7. QED
    BY <1>5, <1>6

\* Two sequences in a row hold what either of them holds.
LEMMA RangeOfConcat ==
  ASSUME NEW S, NEW q \in Seq(S), NEW r \in Seq(S)
  PROVE  Range(q \o r) = Range(q) \cup Range(r)
  <1>1. /\ Len(q) \in Nat
        /\ Len(r) \in Nat
        /\ DOMAIN q = 1 .. Len(q)
        /\ DOMAIN r = 1 .. Len(r)
        /\ DOMAIN (q \o r) = 1 .. Len(q) + Len(r)
        /\ \A i \in 1 .. Len(q) + Len(r) :
              (q \o r)[i] = IF i <= Len(q) THEN q[i] ELSE r[i - Len(q)]
    OBVIOUS
  <1>2. \A i \in 1 .. Len(q) + Len(r) :
          \/ i \in 1 .. Len(q)
          \/ i > Len(q) /\ i - Len(q) \in 1 .. Len(r)
    BY <1>1
  <1>3. Range(q \o r) \subseteq Range(q) \cup Range(r)
    <2>1. ASSUME NEW i \in 1 .. Len(q) + Len(r)
          PROVE  (q \o r)[i] \in Range(q) \cup Range(r)
      <3>1. CASE i \in 1 .. Len(q)
        <4>1. (q \o r)[i] = q[i]
          BY <3>1, <1>1
        <4>2. QED
          BY <3>1, <4>1, <1>1 DEF Range
      <3>2. CASE i > Len(q) /\ i - Len(q) \in 1 .. Len(r)
        <4>1. (q \o r)[i] = r[i - Len(q)]
          BY <3>2, <1>1
        <4>2. QED
          BY <3>2, <4>1, <1>1 DEF Range
      <3>3. QED
        BY <3>1, <3>2, <1>2
    <2>2. QED
      BY <2>1, <1>1 DEF Range
  <1>4. Range(q) \subseteq Range(q \o r)
    <2>1. \A i \in 1 .. Len(q) :
            i \in 1 .. Len(q) + Len(r) /\ (q \o r)[i] = q[i]
      BY <1>1
    <2>2. QED
      BY <2>1, <1>1 DEF Range
  <1>5. Range(r) \subseteq Range(q \o r)
    <2>1. \A i \in 1 .. Len(r) :
            /\ Len(q) + i \in 1 .. Len(q) + Len(r)
            /\ (q \o r)[Len(q) + i] = r[i]
      BY <1>1
    <2>2. \A i \in 1 .. Len(r) : \E j \in DOMAIN (q \o r) : (q \o r)[j] = r[i]
      BY <2>1, <1>1
    <2>3. QED
      BY <2>2, <1>1 DEF Range
  <1>6. QED
    BY <1>3, <1>4, <1>5

\* A piece of a sequence, from a place on.
LEMMA SubSeqIs ==
  ASSUME NEW S, NEW s \in Seq(S), NEW m \in 1..(Len(s) + 1), NEW n \in (m - 1)..Len(s)
  PROVE  /\ SubSeq(s, m, n) \in Seq(S)
         /\ Len(SubSeq(s, m, n)) = n - (m - 1)
         /\ \A i \in 1..(n - (m - 1)) : SubSeq(s, m, n)[i] = s[(m - 1) + i]
<1>1. Len(s) \in Nat /\ m \in Nat /\ n \in Nat
  OBVIOUS
<1> QED
  BY <1>1

\* What two sequences in a row hold at each place.
LEMMA ConcatIs ==
  ASSUME NEW S, NEW front \in Seq(S), NEW back \in Seq(S)
  PROVE  /\ front \o back \in Seq(S)
         /\ DOMAIN (front \o back) = 1..(Len(front) + Len(back))
         /\ \A k \in 1..(Len(front) + Len(back)) :
              (front \o back)[k] =
                IF k <= Len(front) THEN front[k] ELSE back[k - Len(front)]
OBVIOUS

-----------------------------------------------------------------------------
(* Induction                                                               *)

\* Every set of natural numbers with something in it has a least number.
LEMMA LeastNat ==
  ASSUME NEW T, T \subseteq Nat, T # {}
  PROVE  \E n \in T : \A m \in T : n <= m
<1> DEFINE R == OpToRel(<, Nat)
<1>1. \E n \in T : \A m \in T : <<m, n>> \notin R
  BY NatLessThanWellFounded, WFMin
<1>2. \A m, n \in Nat : m < n => <<m, n>> \in R
  BY DEF OpToRel
<1> HIDE DEF R
<1>3. PICK n \in T : \A m \in T : <<m, n>> \notin R
  BY <1>1
<1>4. \A m \in T : m \in Nat /\ n \in Nat /\ ~(m < n)
  BY <1>2, <1>3
<1> QED
  BY <1>4

\* Induction, about a set of numbers.
LEMMA SetInduction ==
  ASSUME NEW T, 0 \in T, \A n \in Nat : n \in T => n + 1 \in T
  PROVE  Nat \subseteq T
<1> SUFFICES ASSUME Nat \ T # {}
             PROVE  FALSE
  OBVIOUS
<1>1. PICK n \in Nat \ T : \A m \in Nat \ T : n <= m
  BY LeastNat
<1>2. n # 0 /\ n - 1 \in Nat
  BY <1>1
<1>3. n - 1 \in T
  BY <1>1, <1>2
<1> QED
  BY <1>1, <1>2, <1>3

\* What is defined by recursion over the natural numbers: there is a function
\* whose value at 0 is base and at n what step makes of n and the value before,
\* and each value is of the type that M has for n.
LEMMA RecursionExists ==
  ASSUME NEW M, NEW step, NEW base \in M[0],
         \A n \in Nat : \A x \in M[n] : step[<<n + 1, x>>] \in M[n + 1]
  PROVE  \E f : /\ f = [n \in Nat |-> IF n = 0 THEN base ELSE step[<<n, f[n - 1]>>]]
                /\ \A n \in Nat : f[n] \in M[n]
<1> DEFINE UpTo(g, n) == g = [i \in 0..n |-> IF i = 0 THEN base
                                              ELSE step[<<i, g[i - 1]>>]]
           T == {n \in Nat : \E g : UpTo(g, n)}
           Agreed == {i \in Nat : \A n, m \in Nat : \A g, h :
                        UpTo(g, n) /\ UpTo(h, m) /\ i <= n /\ i <= m => g[i] = h[i]}
<1>1. 0 \in T
  <2>1. UpTo([i \in 0..0 |-> base], 0)
    OBVIOUS
  <2> QED
    BY <2>1
<1>2. ASSUME NEW n \in Nat, n \in T
      PROVE  n + 1 \in T
  <2>1. PICK g : UpTo(g, n)
    BY <1>2
  <2> DEFINE h == [i \in 0..(n + 1) |-> IF i = n + 1 THEN step[<<i, g[n]>>] ELSE g[i]]
  <2>2. ASSUME NEW i \in 0..(n + 1)
        PROVE  h[i] = IF i = 0 THEN base ELSE step[<<i, h[i - 1]>>]
    <3>1. CASE i = n + 1
      <4>1. n \in 0..(n + 1) /\ n # n + 1 /\ i # 0 /\ i - 1 = n
        BY <3>1
      <4>2. h[i - 1] = g[n] /\ h[i] = step[<<i, g[n]>>]
        BY <3>1, <4>1
      <4> QED
        BY <4>1, <4>2
    <3>2. CASE i \in 0..n
      <4>1. h[i] = g[i] /\ (i # 0 => i - 1 \in 0..(n + 1) /\ i - 1 # n + 1)
        BY <3>2
      <4>2. i # 0 => h[i - 1] = g[i - 1]
        BY <4>1
      <4>3. g[i] = IF i = 0 THEN base ELSE step[<<i, g[i - 1]>>]
        BY <2>1, <3>2
      <4> QED
        BY <4>1, <4>2, <4>3
    <3> QED
      BY <3>1, <3>2
  <2> HIDE DEF h
  <2>3. h = [i \in 0..(n + 1) |-> IF i = 0 THEN base ELSE step[<<i, h[i - 1]>>]]
    BY <2>2 DEF h
  <2> QED
    BY <2>3
<1>3. 0 \in Agreed
  <2>1. ASSUME NEW n \in Nat, NEW g, UpTo(g, n)
        PROVE  g[0] = base
    <3>1. 0 \in 0..n
      OBVIOUS
    <3> QED
      BY <2>1, <3>1
  <2> HIDE DEF UpTo
  <2> QED
    BY <2>1
<1>4. ASSUME NEW i \in Nat, i \in Agreed
      PROVE  i + 1 \in Agreed
  <2> SUFFICES ASSUME NEW n \in Nat, NEW m \in Nat, NEW g, NEW h,
                      UpTo(g, n), UpTo(h, m), i + 1 <= n, i + 1 <= m
               PROVE  g[i + 1] = h[i + 1]
    OBVIOUS
  <2>1. g[i] = h[i]
    <3>1. i <= n /\ i <= m
      OBVIOUS
    <3> HIDE DEF UpTo
    <3> QED
      BY <1>4, <3>1
  <2>2. i + 1 \in 0..n /\ i + 1 \in 0..m /\ i + 1 # 0 /\ (i + 1) - 1 = i
    OBVIOUS
  <2>3. g[i + 1] = step[<<i + 1, g[i]>>] /\ h[i + 1] = step[<<i + 1, h[i]>>]
    BY <2>2
  <2> QED
    BY <2>1, <2>3
<1> DEFINE G(n) == CHOOSE g : UpTo(g, n)
           f == [n \in Nat |-> G(n)[n]]
<1> HIDE DEF T, Agreed, UpTo
<1>5. /\ \A n \in Nat : n \in T
      /\ \A i \in Nat : i \in Agreed
  <2>1. Nat \subseteq T
    BY <1>1, <1>2, SetInduction
  <2>2. Nat \subseteq Agreed
    BY <1>3, <1>4, SetInduction
  <2> QED
    BY <2>1, <2>2
<1>6. ASSUME NEW n \in Nat
      PROVE  UpTo(G(n), n)
  <2>1. \E g : UpTo(g, n)
    BY <1>5 DEF T
  <2> QED
    BY <2>1
<1> HIDE DEF G
<1>7. ASSUME NEW n \in Nat
      PROVE  f[n] = IF n = 0 THEN base ELSE step[<<n, f[n - 1]>>]
  <2>1. G(n)[n] = IF n = 0 THEN base ELSE step[<<n, G(n)[n - 1]>>]
    BY <1>6 DEF UpTo
  <2>2. ASSUME n # 0
        PROVE  G(n)[n - 1] = G(n - 1)[n - 1]
    <3>1. n - 1 \in Nat /\ n - 1 <= n /\ n - 1 <= n - 1
      BY <2>2
    <3>2. n - 1 \in Agreed /\ UpTo(G(n), n) /\ UpTo(G(n - 1), n - 1)
      BY <1>5, <1>6, <3>1
    <3> QED
      BY <3>1, <3>2 DEF Agreed
  <2>3. n # 0 => n - 1 \in Nat
    OBVIOUS
  <2> QED
    BY <2>1, <2>2, <2>3
<1> HIDE DEF f
<1>8. f = [n \in Nat |-> IF n = 0 THEN base ELSE step[<<n, f[n - 1]>>]]
  BY <1>7 DEF f
<1> DEFINE Typed == {n \in Nat : f[n] \in M[n]}
<1>9. 0 \in Typed
  BY <1>7
<1>10. ASSUME NEW n \in Nat, n \in Typed
       PROVE  n + 1 \in Typed
  <2>1. f[n + 1] = step[<<n + 1, f[n]>>]
    <3>1. n + 1 \in Nat /\ n + 1 # 0 /\ (n + 1) - 1 = n
      OBVIOUS
    <3> QED
      BY <1>7, <3>1
  <2> QED
    BY <1>10, <2>1
<1>11. \A n \in Nat : f[n] \in M[n]
  <2> HIDE DEF Typed
  <2>1. Nat \subseteq Typed
    BY <1>9, <1>10, SetInduction
  <2> QED
    BY <2>1 DEF Typed
<1> QED
  BY <1>8, <1>11

\* A set of some of the first n numbers has a greatest one.
LEMMA MaxOfSome ==
  ASSUME NEW n \in Nat, NEW s \in SUBSET (1..n), s # {}
  PROVE  Max(s) \in s /\ \A i \in s : i <= Max(s)
<1> DEFINE Bounds == {b \in Nat : \A i \in s : i <= b}
<1>1. n \in Bounds
  OBVIOUS
<1>2. PICK b \in Bounds : \A c \in Bounds : b <= c
  BY <1>1, LeastNat
<1>3. b \in s
  <2>1. SUFFICES ASSUME b \notin s PROVE FALSE
    OBVIOUS
  <2>2. PICK i \in s : TRUE
    OBVIOUS
  <2>3. b - 1 \in Nat /\ \A j \in s : j <= b - 1
    BY <1>2, <2>1, <2>2
  <2> QED
    BY <1>2, <2>3
<1>4. \A i \in s : b >= i
  BY <1>2
<1> HIDE DEF Bounds
<1>5. \E x \in s : \A y \in s : x >= y
  BY <1>3, <1>4
<1>6. Max(s) \in s /\ \A i \in s : Max(s) >= i
  BY <1>5 DEF Max
<1> QED
  BY <1>6

\* It is n, if n is one of them.
LEMMA MaxIsLast ==
  ASSUME NEW n \in Nat, NEW s \in SUBSET (1..n), n \in s
  PROVE  Max(s) = n
<1>1. s # {}
  OBVIOUS
<1>2. Max(s) \in s /\ n <= Max(s)
  BY <1>1, MaxOfSome
<1>3. Max(s) \in 1..n
  BY <1>2
<1> QED
  BY <1>2, <1>3

\* What FoldLeft of SequencesExt goes through a sequence with: a function of sets
\* of places.
IsFold(g, base, step, N, seq) ==
  \A s \in SUBSET (1..N) :
    g[s] = IF s = {} THEN base ELSE step[<<g[s \ {Max(s)}], seq[Max(s)]>>]

\* There is such a function for a step that stays in S.
LEMMA FoldExists ==
  ASSUME NEW S, NEW E, NEW base \in S, NEW step \in [S \X E -> S],
         NEW N \in Nat, NEW seq \in [1..N -> E]
  PROVE  \E g \in [SUBSET (1..N) -> S] : IsFold(g, base, step, N, seq)
<1> DEFINE Folds(g, n) ==
      /\ g \in [SUBSET (1..n) -> S]
      /\ IsFold(g, base, step, n, seq)
    T == {n \in Nat : n <= N => \E g : Folds(g, n)}
<1> HIDE DEF Folds, IsFold
<1>1. 0 \in T
  <2> DEFINE g == [s \in SUBSET (1..0) |-> base]
  <2>1. SUBSET (1..0) = {{}}
    OBVIOUS
  <2>2. Folds(g, 0)
    BY <2>1 DEF Folds, IsFold
  <2> QED
    BY <2>2
<1>2. ASSUME NEW n \in Nat, n \in T
      PROVE  n + 1 \in T
  <2> SUFFICES ASSUME n + 1 <= N
               PROVE  \E g : Folds(g, n + 1)
    OBVIOUS
  <2>1. PICK g : Folds(g, n)
    BY <1>2
  <2> DEFINE h == [s \in SUBSET (1..(n + 1)) |->
                     IF n + 1 \in s THEN step[<<g[s \ {n + 1}], seq[n + 1]>>]
                     ELSE g[s]]
  <2>2. ASSUME NEW s \in SUBSET (1..(n + 1))
        PROVE  /\ n + 1 \in s => s \ {n + 1} \in SUBSET (1..n)
               /\ n + 1 \notin s => s \in SUBSET (1..n)
    BY <2>2
  <2>3. h \in [SUBSET (1..(n + 1)) -> S]
    <3>1. ASSUME NEW s \in SUBSET (1..(n + 1))
          PROVE  h[s] \in S
      <4>1. CASE n + 1 \in s
        <5>1. g[s \ {n + 1}] \in S /\ seq[n + 1] \in E
          BY <2>1, <2>2, <4>1 DEF Folds, IsFold
        <5> QED
          BY <4>1, <5>1
      <4>2. CASE n + 1 \notin s
        BY <2>1, <2>2, <4>2 DEF Folds, IsFold
      <4> QED
        BY <4>1, <4>2
    <3> QED
      BY <3>1
  <2>4. ASSUME NEW s \in SUBSET (1..(n + 1))
        PROVE  h[s] = IF s = {} THEN base
                      ELSE step[<<h[s \ {Max(s)}], seq[Max(s)]>>]
    <3>1. CASE n + 1 \in s
      <4>1. Max(s) = n + 1
        BY <3>1, MaxIsLast
      <4>2. h[s \ {n + 1}] = g[s \ {n + 1}]
        OBVIOUS
      <4> QED
        BY <3>1, <4>1, <4>2
    <3>2. CASE n + 1 \notin s /\ s # {}
      <4>1. s \in SUBSET (1..n) /\ Max(s) \in s
        BY <2>2, <3>2, MaxOfSome
      <4>2. h[s] = g[s] /\ h[s \ {Max(s)}] = g[s \ {Max(s)}]
        BY <3>2
      <4>3. g[s] = step[<<g[s \ {Max(s)}], seq[Max(s)]>>]
        BY <2>1, <3>2, <4>1 DEF Folds, IsFold
      <4> QED
        BY <3>2, <4>2, <4>3
    <3>3. CASE s = {}
      <4>1. {} \in SUBSET (1..n)
        OBVIOUS
      <4>2. g[{}] = base
        BY <2>1, <4>1 DEF Folds, IsFold
      <4> QED
        BY <3>3, <4>2
    <3> QED
      BY <3>1, <3>2, <3>3
  <2> HIDE DEF h
  <2> QED
    BY <2>3, <2>4 DEF Folds, IsFold
<1> HIDE DEF T
<1>3. N \in T
  BY <1>1, <1>2, SetInduction
<1>4. PICK g : Folds(g, N)
  BY <1>3 DEF T
<1> QED
  BY <1>4 DEF Folds, IsFold

\* The sets that matter are the first n places, for each n.
LEMMA FirstPlaces ==
  ASSUME NEW n \in Nat
  PROVE  Max(1..(n + 1)) = n + 1 /\ (1..(n + 1)) \ {n + 1} = 1..n
<1>1. 1..(n + 1) \in SUBSET (1..(n + 1)) /\ n + 1 \in 1..(n + 1)
  OBVIOUS
<1>2. Max(1..(n + 1)) = n + 1
  BY <1>1, MaxIsLast
<1>3. (1..(n + 1)) \ {n + 1} = 1..n
  OBVIOUS
<1> QED
  BY <1>2, <1>3
=============================================================================
