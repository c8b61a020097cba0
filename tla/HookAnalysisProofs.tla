------------------------- MODULE HookAnalysisProofs -------------------------
(***************************************************************************)
(* What HookCommunicator::analysis() computes, proved for schedules of any *)
(* length: step by step, each step's loop by induction over its rounds.    *)
(*                                                                         *)
(* The loops are folds of SequencesExt, which are defined by a CHOOSE of a *)
(* function over the sets of places.  The lemmas named ...Loop unfold each *)
(* of them once, into what it holds after each round; the lemmas after     *)
(* them only speak of rounds.                                              *)
(***************************************************************************)
EXTENDS HookAnalysis, SequenceRanges

-----------------------------------------------------------------------------
(* Sequences                                                               *)

Distinct(q) == \A i, j \in DOMAIN q : i # j => q[i] # q[j]

\* What is appended to a sequence of distinct elements is new to it.
LEMMA DistinctAppend ==
  ASSUME NEW S, NEW q \in Seq(S), Distinct(q), NEW e, e \notin Range(q)
  PROVE  Distinct(Append(q, e))
<1>1. /\ DOMAIN Append(q, e) = 1..(Len(q) + 1) /\ DOMAIN q = 1..Len(q)
      /\ \A i \in 1..Len(q) : Append(q, e)[i] = q[i]
      /\ Append(q, e)[Len(q) + 1] = e
      /\ Len(q) \in Nat
  OBVIOUS
<1>2. \A i \in 1..Len(q) : q[i] # e
  BY <1>1 DEF Range
<1> QED
  BY <1>1, <1>2 DEF Distinct

\* Two of them make one, if they have nothing in common.
LEMMA DistinctConcat ==
  ASSUME NEW S, NEW q \in Seq(S), NEW r \in Seq(S), Distinct(q), Distinct(r),
         Range(q) \cap Range(r) = {}
  PROVE  Distinct(q \o r)
<1>1. /\ DOMAIN (q \o r) = 1..(Len(q) + Len(r))
      /\ DOMAIN q = 1..Len(q) /\ DOMAIN r = 1..Len(r)
      /\ Len(q) \in Nat /\ Len(r) \in Nat
      /\ \A i \in 1..(Len(q) + Len(r)) :
           (q \o r)[i] = IF i <= Len(q) THEN q[i] ELSE r[i - Len(q)]
  OBVIOUS
<1>2. \A i \in 1..Len(q), j \in 1..Len(r) : q[i] # r[j]
  BY <1>1 DEF Range
<1>3. \A i \in 1..(Len(q) + Len(r)) : i > Len(q) => i - Len(q) \in 1..Len(r)
  BY <1>1
<1> QED
  BY <1>1, <1>2, <1>3 DEF Distinct

\* Keep(), round by round: FoldLeft goes through a sequence from the first element to the last.
LEMMA KeepLoop ==
  ASSUME NEW S, NEW seq \in Seq(S), NEW set
  PROVE  \E loop :
           /\ loop[0] = <<>>
           /\ \A n \in 0..(Len(seq) - 1) :
                loop[n + 1] = IF seq[n + 1] \in set
                              THEN Append(loop[n], seq[n + 1]) ELSE loop[n]
           /\ loop[Len(seq)] = Keep(seq, set)
<1> DEFINE N == Len(seq)
           Op(kept, e) == IF e \in set THEN Append(kept, e) ELSE kept
           step == [x \in Seq(S) \X S |-> Op(x[1], x[2])]
           Folds(g) == g = [s \in SUBSET (DOMAIN seq) |->
                              IF s = {} THEN <<>>
                              ELSE Op(g[s \ {Max(s)}], seq[Max(s)])]
           g == CHOOSE g : Folds(g)
           loop == [n \in 0..N |-> g[1..n]]
<1>1. Keep(seq, set) = g[DOMAIN seq]
  BY Zenon DEF Keep, FoldLeft, MapThenFoldSet
<1>2. <<>> \in Seq(S) /\ step \in [Seq(S) \X S -> Seq(S)]
  OBVIOUS
<1>3. /\ N \in Nat /\ DOMAIN seq = 1..N
      /\ seq \in [1..N -> S]
  OBVIOUS
<1>4. PICK h \in [SUBSET (1..N) -> Seq(S)] : IsFold(h, <<>>, step, N, seq)
  <2> HIDE DEF step, N
  <2> QED
    BY <1>2, <1>3, FoldExists
<1>5. Folds(h)
  <2>1. ASSUME NEW s \in SUBSET (1..N), s # {}
        PROVE  step[<<h[s \ {Max(s)}], seq[Max(s)]>>]
                 = Op(h[s \ {Max(s)}], seq[Max(s)])
    <3>1. h[s \ {Max(s)}] \in Seq(S) /\ seq[Max(s)] \in S
      BY <1>3, <1>4, <2>1, MaxOfSome
    <3> QED
      BY <3>1
  <2> HIDE DEF step, Op, N
  <2> QED
    BY <1>3, <1>4, <2>1 DEF IsFold
<1>6. Folds(g)
  <2> HIDE DEF Folds
  <2> QED
    BY <1>5
<1> HIDE DEF g, N
<1>7. ASSUME NEW n \in 0..(N - 1)
      PROVE  g[1..(n + 1)] = Op(g[1..n], seq[n + 1])
  <2>1. /\ n \in Nat /\ 1..(n + 1) \in SUBSET (1..N)
        /\ n + 1 \in 1..(n + 1)
    BY <1>3
  <2>2. Max(1..(n + 1)) = n + 1 /\ (1..(n + 1)) \ {n + 1} = 1..n
    BY <2>1, FirstPlaces
  <2>3. 1..(n + 1) # {}
    BY <2>1
  <2> HIDE DEF Op
  <2> QED
    BY <1>3, <1>6, <2>1, <2>2, <2>3
<1>8. g[1..0] = <<>>
  BY <1>3, <1>6
<1>9. loop[N] = Keep(seq, set)
  BY <1>1, <1>3
<1>10. \A n \in 0..(N - 1) : loop[n + 1] = Op(loop[n], seq[n + 1])
  <2> HIDE DEF Op
  <2> QED
    BY <1>3, <1>7
<1>11. loop[0] = <<>>
  BY <1>3, <1>8
<1> HIDE DEF loop
<1> QED
  BY <1>9, <1>10, <1>11 DEF N

\* Keep() loses nothing that it is to keep, and repeats nothing.
LEMMA KeepKeeps ==
  ASSUME NEW S, NEW seq \in Seq(S), NEW set
  PROVE  /\ Keep(seq, set) \in Seq(S)
         /\ Range(Keep(seq, set)) = Range(seq) \cap set
         /\ Distinct(seq) => Distinct(Keep(seq, set))
<1>1. PICK loop :
        /\ loop[0] = <<>>
        /\ \A n \in 0..(Len(seq) - 1) :
             loop[n + 1] = IF seq[n + 1] \in set
                           THEN Append(loop[n], seq[n + 1]) ELSE loop[n]
        /\ loop[Len(seq)] = Keep(seq, set)
  BY KeepLoop
<1>2. Len(seq) \in Nat /\ DOMAIN seq = 1..Len(seq)
  OBVIOUS
<1> DEFINE Kept(n) ==
      /\ loop[n] \in Seq(S)
      /\ Range(loop[n]) = {seq[i] : i \in 1..n} \cap set
      /\ Distinct(seq) => Distinct(loop[n])
    T == {n \in Nat : n <= Len(seq) => Kept(n)}
<1>3. Kept(0)
  BY <1>1, RangeOfEmpty DEF Distinct
<1>4. ASSUME NEW n \in 0..(Len(seq) - 1), Kept(n)
      PROVE  Kept(n + 1)
  <2>1. 1..(n + 1) = (1..n) \cup {n + 1} /\ n + 1 \in 1..Len(seq)
    BY <1>2
  <2>2. {seq[i] : i \in 1..(n + 1)} = {seq[i] : i \in 1..n} \cup {seq[n + 1]}
    BY <2>1
  <2>3. CASE seq[n + 1] \notin set
    BY <1>1, <1>4, <2>2, <2>3
  <2>4. CASE seq[n + 1] \in set
    <3>1. loop[n + 1] = Append(loop[n], seq[n + 1])
      BY <1>1, <2>4
    <3>2. loop[n + 1] \in Seq(S)
      BY <1>4, <2>1, <3>1
    <3>3. Range(loop[n + 1]) = Range(loop[n]) \cup {seq[n + 1]}
      BY <1>4, <3>1, RangeOfAppend
    <3>4. ASSUME Distinct(seq)
          PROVE  Distinct(loop[n + 1])
      <4>1. \A i \in 1..n : i \in 1..Len(seq) /\ i # n + 1
        BY <1>2
      <4>2. seq[n + 1] \notin {seq[i] : i \in 1..n}
        BY <1>2, <2>1, <3>4, <4>1 DEF Distinct
      <4>3. seq[n + 1] \notin Range(loop[n])
        BY <1>4, <4>2
      <4> QED
        BY <1>4, <3>1, <3>4, <4>3, DistinctAppend
    <3> QED
      BY <1>4, <2>2, <2>4, <3>2, <3>3, <3>4
  <2> QED
    BY <2>3, <2>4
<1> HIDE DEF Kept
<1>5. 0 \in T
  BY <1>3
<1>6. ASSUME NEW n \in Nat, n \in T
      PROVE  n + 1 \in T
  <2>1. n + 1 <= Len(seq) => n \in 0..(Len(seq) - 1) /\ Kept(n)
    BY <1>2, <1>6
  <2> QED
    BY <1>4, <2>1
<1> HIDE DEF T
<1>7. Len(seq) \in T
  BY <1>2, <1>5, <1>6, SetInduction
<1>8. Kept(Len(seq))
  BY <1>2, <1>7 DEF T
<1> QED
  BY <1>1, <1>2, <1>8 DEF Kept, Range

\* SelectInSeq() finds the least place of its kind.
LEMMA MinOfSome ==
  ASSUME NEW n \in Nat, NEW I \in SUBSET (1..n), I # {}
  PROVE  Min(I) \in I /\ \A i \in I : Min(I) <= i
<1>1. I \subseteq Nat
  OBVIOUS
<1>2. \E i \in I : \A j \in I : i <= j
  BY <1>1, LeastNat
<1> QED
  BY <1>2 DEF Min

-----------------------------------------------------------------------------
(* KeyPrefixes and behaviours                                                 *)

Keys == Seq(FuncHashes \X FuncHashes)

\* The behaviours that one key covers.
KeyPrefixes(t) == {SubSeq(t, 1, n) : n \in 1..Len(t)}

\* The order of the vector does not matter.
LEMMA BehavioursAre ==
  ASSUME NEW q \in Seq(Keys)
  PROVE  Behaviours(q) = UNION {KeyPrefixes(t) : t \in Range(q)}
<1>1. Behaviours(q) = UNION {KeyPrefixes(q[i]) : i \in DOMAIN q}
  BY DEF Behaviours, KeyPrefixes
<1>2. {KeyPrefixes(q[i]) : i \in DOMAIN q} = {KeyPrefixes(t) : t \in Range(q)}
  BY DEF Range
<1> QED
  BY <1>1, <1>2

\* A prefix covers less than what it is a prefix of.
LEMMA PrefixCoversLess ==
  ASSUME NEW s \in Keys, NEW t \in Keys, is_prefix_of(s, t)
  PROVE  KeyPrefixes(s) \subseteq KeyPrefixes(t)
<1>1. ASSUME NEW n \in 1..Len(s)
      PROVE  SubSeq(s, 1, n) \in KeyPrefixes(t)
  <2>1. n \in 1..Len(t) /\ \A i \in 1..n : s[i] = t[i]
    BY DEF is_prefix_of, Keys
  <2>2. SubSeq(s, 1, n) = SubSeq(t, 1, n)
    BY <2>1 DEF Keys
  <2> QED
    BY <2>1, <2>2 DEF KeyPrefixes
<1> QED
  BY <1>1 DEF KeyPrefixes

\* A key covers itself.
LEMMA OwnPrefix ==
  ASSUME NEW s \in Keys, s # <<>>
  PROVE  s \in KeyPrefixes(s)
<1>1. Len(s) \in 1..Len(s) /\ SubSeq(s, 1, Len(s)) = s
  BY DEF Keys
<1> QED
  BY <1>1 DEF KeyPrefixes

\* What a key covers is a prefix of it.
LEMMA PrefixIs ==
  ASSUME NEW s, NEW t \in Keys, s \in KeyPrefixes(t)
  PROVE  is_prefix_of(s, t)
<1>1. PICK n \in 1..Len(t) : s = SubSeq(t, 1, n)
  BY DEF KeyPrefixes
<1>2. Len(s) = n /\ DOMAIN s = 1..n /\ \A i \in 1..n : s[i] = t[i]
  BY <1>1 DEF Keys
<1> QED
  BY <1>2 DEF is_prefix_of

\* What covers a behaviour covers what that behaviour does.
LEMMA CoversPrefixes ==
  ASSUME NEW q \in Seq(Keys), NEW s \in Keys, s \in Behaviours(q)
  PROVE  KeyPrefixes(s) \subseteq Behaviours(q)
<1>1. PICK t \in Range(q) : s \in KeyPrefixes(t)
  BY BehavioursAre
<1>2. t \in Keys
  BY DEF Range
<1>3. KeyPrefixes(s) \subseteq KeyPrefixes(t)
  BY <1>1, <1>2, PrefixIs, PrefixCoversLess
<1> QED
  BY <1>3, BehavioursAre

\* A behaviour is covered exactly when the loop finds it to be.
LEMMA CoveredIs ==
  ASSUME NEW old \in Seq(Keys), NEW s \in Keys, s # <<>>
  PROVE  IsCovered(s, old) <=> s \in Behaviours(old)
<1>1. ASSUME NEW i \in DOMAIN old, is_prefix_of(s, old[i])
      PROVE  s \in Behaviours(old)
  <2>1. s \in KeyPrefixes(old[i])
    BY <1>1, OwnPrefix, PrefixCoversLess
  <2> QED
    BY <2>1, BehavioursAre DEF Range
<1>2. ASSUME s \in Behaviours(old)
      PROVE  IsCovered(s, old)
  <2>1. PICK i \in DOMAIN old : s \in KeyPrefixes(old[i])
    BY <1>2, BehavioursAre DEF Range
  <2>2. old[i] \in Keys
    OBVIOUS
  <2> QED
    BY <2>1, <2>2, PrefixIs DEF IsCovered
<1> QED
  BY <1>1, <1>2 DEF IsCovered

\* What is erased is a prefix of s, and the sequence that covers s is not.
LEMMA EraseLoopErases ==
  ASSUME NEW old \in Seq(Keys), NEW s \in Keys
  PROVE  /\ EraseLoop(s, old) \in Seq(Keys)
         /\ Range(EraseLoop(s, old)) \subseteq Range(old)
         /\ \A t \in Range(old) :
              t \in Range(EraseLoop(s, old)) \/ is_prefix_of(t, s)
         /\ IsCovered(s, old) =>
              \E t \in Range(EraseLoop(s, old)) : is_prefix_of(s, t)
         /\ ~IsCovered(s, old) =>
              \A t \in Range(EraseLoop(s, old)) :
                ~is_prefix_of(s, t) /\ ~is_prefix_of(t, s)
         /\ Distinct(old) => Distinct(EraseLoop(s, old))
<1> DEFINE I == {i \in 1..Len(old) : is_prefix_of(s, old[i])}
           found == IF I # {} THEN Min(I) ELSE 0
           stop == IF found = 0 THEN Len(old) ELSE found - 1
           first == SubSeq(old, 1, stop)
           rest == SubSeq(old, stop + 1, Len(old))
           kept == Keep(first, {t \in Range(old) : ~is_prefix_of(t, s)})
<1>1. EraseLoop(s, old) = kept \o rest
  BY DEF EraseLoop, SelectInSeq
<1>2. Len(old) \in Nat /\ DOMAIN old = 1..Len(old)
  OBVIOUS
<1>3. I # {} => found \in I
  BY <1>2, MinOfSome
<1>4. stop \in 0..Len(old) /\ (I # {} => stop + 1 \in I)
  BY <1>2, <1>3
<1> HIDE DEF stop
<1>5. /\ first \in Seq(Keys) /\ rest \in Seq(Keys)
      /\ Range(first) = {old[i] : i \in 1..stop}
      /\ Range(rest) = {old[i] : i \in (stop + 1)..Len(old)}
      /\ Distinct(old) => Distinct(first) /\ Distinct(rest)
  <2>1. /\ first \in Seq(Keys) /\ Len(first) = stop
        /\ \A i \in 1..stop : first[i] = old[i]
    BY <1>2, <1>4
  <2>2. /\ rest \in Seq(Keys) /\ Len(rest) = Len(old) - stop
        /\ \A i \in 1..(Len(old) - stop) : rest[i] = old[stop + i]
    <3>1. /\ stop + 1 \in 1..(Len(old) + 1)
          /\ Len(old) \in ((stop + 1) - 1)..Len(old)
          /\ (stop + 1) - 1 = stop
      BY <1>2, <1>4
    <3>2. LET k == (stop + 1) - 1
          IN  /\ rest \in Seq(Keys) /\ Len(rest) = Len(old) - k
              /\ \A i \in 1..(Len(old) - k) : rest[i] = old[k + i]
      BY <3>1, SubSeqIs
    <3> HIDE DEF rest
    <3> QED
      BY <3>1, <3>2
  <2> HIDE DEF rest, first
  <2>3. DOMAIN first = 1..stop
    BY <2>1
  <2>4. \A i \in (stop + 1)..Len(old) :
          i - stop \in 1..(Len(old) - stop) /\ rest[i - stop] = old[i]
    BY <1>2, <1>4, <2>2
  <2>5. \A i \in 1..(Len(old) - stop) :
          stop + i \in (stop + 1)..Len(old) /\ rest[i] = old[stop + i]
    BY <1>2, <1>4, <2>2
  <2>6. DOMAIN rest = 1..(Len(old) - stop)
    BY <2>2
  <2>7. Range(rest) = {old[i] : i \in (stop + 1)..Len(old)}
    BY <2>4, <2>5, <2>6 DEF Range
  <2>8. Range(first) = {old[i] : i \in 1..stop}
    BY <2>1, <2>3 DEF Range
  <2>9. Distinct(old) => Distinct(first)
    <3>1. \A i \in 1..stop : i \in DOMAIN old
      BY <1>2, <1>4
    <3> QED
      BY <2>1, <2>3, <3>1 DEF Distinct
  <2>10. Distinct(old) => Distinct(rest)
    <3>1. \A i, j \in 1..(Len(old) - stop) :
            stop + i \in DOMAIN old /\ (i # j => stop + i # stop + j)
      BY <1>2, <1>4
    <3> QED
      BY <2>2, <2>6, <3>1 DEF Distinct
  <2> QED
    BY <2>1, <2>2, <2>7, <2>8, <2>9, <2>10
<1> HIDE DEF first, rest
<1>6. /\ kept \in Seq(Keys)
      /\ Range(kept)
           = Range(first) \cap {t \in Range(old) : ~is_prefix_of(t, s)}
      /\ Distinct(first) => Distinct(kept)
  BY <1>5, KeepKeeps
<1> HIDE DEF kept
<1>7. /\ EraseLoop(s, old) \in Seq(Keys)
      /\ Range(EraseLoop(s, old)) = Range(kept) \cup Range(rest)
  BY <1>1, <1>5, <1>6, RangeOfConcat
<1>8. Range(old) = Range(first) \cup Range(rest)
  <2>1. \A i \in 1..Len(old) : i \in 1..stop \/ i \in (stop + 1)..Len(old)
    BY <1>2, <1>4
  <2>2. \A i \in 1..stop : i \in 1..Len(old)
    BY <1>2, <1>4
  <2>3. \A i \in (stop + 1)..Len(old) : i \in 1..Len(old)
    BY <1>2, <1>4
  <2> QED
    BY <1>2, <1>5, <2>1, <2>2, <2>3 DEF Range
<1>9. IsCovered(s, old) => \E t \in Range(rest) : is_prefix_of(s, t)
  <2>1. IsCovered(s, old) => I # {}
    BY <1>2 DEF IsCovered
  <2>2. I # {} => stop + 1 \in (stop + 1)..Len(old)
    BY <1>2, <1>4
  <2> QED
    BY <1>4, <1>5, <2>1, <2>2
<1>10. ~IsCovered(s, old) =>
         \A t \in Range(EraseLoop(s, old)) :
           ~is_prefix_of(s, t) /\ ~is_prefix_of(t, s)
  <2>1. ~IsCovered(s, old) => stop = Len(old)
    BY <1>2 DEF IsCovered, stop
  <2>2. ~IsCovered(s, old) => Range(rest) = {}
    BY <1>2, <1>5, <2>1
  <2>3. ~IsCovered(s, old) => \A t \in Range(old) : ~is_prefix_of(s, t)
    BY DEF IsCovered, Range
  <2> QED
    BY <1>6, <1>7, <2>2, <2>3
<1>11. Distinct(old) => Distinct(EraseLoop(s, old))
  <2>1. ASSUME Distinct(old)
        PROVE  Range(first) \cap Range(rest) = {}
    <3>1. \A i \in 1..stop, j \in (stop + 1)..Len(old) :
            i \in DOMAIN old /\ j \in DOMAIN old /\ i # j
      BY <1>2, <1>4
    <3> QED
      BY <1>5, <2>1, <3>1 DEF Distinct
  <2>2. ASSUME Distinct(old)
        PROVE  Distinct(kept) /\ Distinct(rest) /\ Range(kept) \cap Range(rest) = {}
    BY <1>5, <1>6, <2>1, <2>2
  <2>3. kept \in Seq(Keys) /\ rest \in Seq(Keys)
    BY <1>5, <1>6
  <2>4. ASSUME Distinct(old)
        PROVE  Distinct(kept \o rest)
    BY <2>2, <2>3, <2>4, DistinctConcat
  <2> QED
    BY <1>1, <2>4
<1> QED
  BY <1>6, <1>7, <1>8, <1>9, <1>10, <1>11

-----------------------------------------------------------------------------
(* Step 4                                                                  *)

Results == [old : Seq(Keys), added : Seq(Keys)]

\* A round of step 4 leaves two vectors of keys.
LEMMA MergeOneType ==
  \A r \in Results, s \in Keys : MergeOne(r, s) \in Results
BY EraseLoopErases DEF MergeOne, Results

\* Step 4, round by round.
LEMMA MergeLoop ==
  ASSUME NEW old \in Seq(Keys), NEW sequences \in Seq(Keys)
  PROVE  \E loop :
           /\ loop[0] = [old |-> old, added |-> <<>>]
           /\ \A n \in 0..(Len(sequences) - 1) :
                loop[n + 1] = MergeOne(loop[n], sequences[n + 1])
           /\ loop[Len(sequences)] = Merge(old, sequences)
<1> DEFINE N == Len(sequences)
           base == [old |-> old, added |-> <<>>]
           step == [x \in Results \X Keys |-> MergeOne(x[1], x[2])]
           Folds(g) == g = [s \in SUBSET (DOMAIN sequences) |->
                              IF s = {} THEN base
                              ELSE MergeOne(g[s \ {Max(s)}], sequences[Max(s)])]
           g == CHOOSE g : Folds(g)
           loop == [n \in 0..N |-> g[1..n]]
<1>1. Merge(old, sequences) = g[DOMAIN sequences]
  BY Zenon DEF Merge, FoldLeft, MapThenFoldSet
<1>2. base \in Results /\ step \in [Results \X Keys -> Results]
  BY MergeOneType DEF Results
<1>3. /\ N \in Nat /\ DOMAIN sequences = 1..N
      /\ sequences \in [1..N -> Keys]
  OBVIOUS
<1>4. PICK h \in [SUBSET (1..N) -> Results] :
        IsFold(h, base, step, N, sequences)
  <2> HIDE DEF base, step, N
  <2> QED
    BY <1>2, <1>3, FoldExists
<1>5. Folds(h)
  <2>1. ASSUME NEW s \in SUBSET (1..N), s # {}
        PROVE  step[<<h[s \ {Max(s)}], sequences[Max(s)]>>]
                 = MergeOne(h[s \ {Max(s)}], sequences[Max(s)])
    <3>1. h[s \ {Max(s)}] \in Results /\ sequences[Max(s)] \in Keys
      BY <1>3, <1>4, <2>1, MaxOfSome
    <3> QED
      BY <3>1
  <2> HIDE DEF step, base, N
  <2> QED
    BY <1>3, <1>4, <2>1 DEF IsFold
<1>6. Folds(g)
  <2> HIDE DEF Folds
  <2> QED
    BY <1>5
<1> HIDE DEF g, base, N
<1>7. ASSUME NEW n \in 0..(N - 1)
      PROVE  g[1..(n + 1)] = MergeOne(g[1..n], sequences[n + 1])
  <2>1. /\ n \in Nat /\ 1..(n + 1) \in SUBSET (1..N)
        /\ n + 1 \in 1..(n + 1)
    BY <1>3
  <2>2. Max(1..(n + 1)) = n + 1 /\ (1..(n + 1)) \ {n + 1} = 1..n
    BY <2>1, FirstPlaces
  <2>3. 1..(n + 1) # {}
    BY <2>1
  <2> QED
    BY <1>3, <1>6, <2>1, <2>2, <2>3
<1>8. g[1..0] = base
  BY <1>3, <1>6
<1>9. loop[N] = Merge(old, sequences)
  BY <1>1, <1>3
<1>10. \A n \in 0..(N - 1) : loop[n + 1] = MergeOne(loop[n], sequences[n + 1])
  BY <1>3, <1>7
<1>11. loop[0] = base
  BY <1>3, <1>8
<1> QED
  BY <1>9, <1>10, <1>11 DEF N, base

\* What both vectors cover together.
BehavioursOf(r) == Behaviours(r.old) \cup Behaviours(r.added)

\* One more key.
LEMMA BehavioursAppend ==
  ASSUME NEW q \in Seq(Keys), NEW s \in Keys
  PROVE  Behaviours(Append(q, s)) = Behaviours(q) \cup KeyPrefixes(s)
<1>1. Append(q, s) \in Seq(Keys)
  OBVIOUS
<1>2. Range(Append(q, s)) = Range(q) \cup {s}
  BY RangeOfAppend
<1>3. Behaviours(Append(q, s)) = UNION {KeyPrefixes(t) : t \in Range(q) \cup {s}}
  BY <1>1, <1>2, BehavioursAre
<1>4. Behaviours(q) = UNION {KeyPrefixes(t) : t \in Range(q)}
  BY BehavioursAre
<1> QED
  BY <1>3, <1>4

\* One sequence of the run: its behaviours are covered then, and no others are
\* lost or won; and the vector of new sequences grows only by what is new.
LEMMA MergeOneCovers ==
  ASSUME NEW r \in Results, NEW s \in Keys, s # <<>>
  PROVE  LET next == MergeOne(r, s)
         IN  /\ BehavioursOf(next) = BehavioursOf(r) \cup KeyPrefixes(s)
             /\ \/ /\ next.added = r.added
                   /\ s \in Behaviours(r.old)
                \/ /\ next.added = Append(r.added, s)
                   /\ s \notin Behaviours(r.old)
<1> DEFINE old == EraseLoop(s, r.old)
           next == MergeOne(r, s)
<1>1. r.old \in Seq(Keys) /\ r.added \in Seq(Keys)
  BY DEF Results
<1>2. /\ old \in Seq(Keys) /\ Range(old) \subseteq Range(r.old)
      /\ \A t \in Range(r.old) : t \in Range(old) \/ is_prefix_of(t, s)
      /\ IsCovered(s, r.old) => \E t \in Range(old) : is_prefix_of(s, t)
  BY <1>1, EraseLoopErases
<1>3. /\ next.old = old
      /\ next.added = IF IsCovered(s, r.old) THEN r.added ELSE Append(r.added, s)
  BY DEF MergeOne
<1> HIDE DEF old, next
<1>4. Range(r.old) \subseteq Keys
  BY <1>1 DEF Range
<1>5. \A t \in Range(r.old) : is_prefix_of(t, s) => KeyPrefixes(t) \subseteq KeyPrefixes(s)
  BY <1>4, PrefixCoversLess
<1>6. Behaviours(old) \cup KeyPrefixes(s) = Behaviours(r.old) \cup KeyPrefixes(s)
  BY <1>1, <1>2, <1>5, BehavioursAre
<1>7. CASE IsCovered(s, r.old)
  <2>1. KeyPrefixes(s) \subseteq Behaviours(old)
    <3>1. PICK t \in Range(old) : is_prefix_of(s, t)
      BY <1>2, <1>7
    <3>2. KeyPrefixes(s) \subseteq KeyPrefixes(t)
      BY <1>2, <1>4, <3>1, PrefixCoversLess
    <3> QED
      BY <1>2, <3>1, <3>2, BehavioursAre
  <2>2. s \in Behaviours(r.old)
    BY <1>1, <1>7, CoveredIs
  <2> QED
    BY <1>3, <1>6, <1>7, <2>1, <2>2 DEF BehavioursOf, next
<1>8. CASE ~IsCovered(s, r.old)
  <2>1. Behaviours(next.added) = Behaviours(r.added) \cup KeyPrefixes(s)
    BY <1>1, <1>3, <1>8, BehavioursAppend
  <2>2. s \notin Behaviours(r.old)
    BY <1>1, <1>8, CoveredIs
  <2> QED
    BY <1>3, <1>6, <1>8, <2>1, <2>2 DEF BehavioursOf, next
<1> QED
  BY <1>7, <1>8

\* Step 4 as a whole.
LEMMA MergeCovers ==
  ASSUME NEW old \in Seq(Keys), NEW sequences \in Seq(Keys),
         \A i \in DOMAIN sequences : sequences[i] # <<>>
  PROVE  LET result == Merge(old, sequences)
         IN  /\ result \in Results
             /\ BehavioursOf(result) = Behaviours(old) \cup Behaviours(sequences)
             /\ result.added # <<>> <=> BehavioursOf(result) # Behaviours(old)
<1>1. PICK loop :
        /\ loop[0] = [old |-> old, added |-> <<>>]
        /\ \A n \in 0..(Len(sequences) - 1) :
             loop[n + 1] = MergeOne(loop[n], sequences[n + 1])
        /\ loop[Len(sequences)] = Merge(old, sequences)
  BY MergeLoop
<1>2. /\ Len(sequences) \in Nat /\ DOMAIN sequences = 1..Len(sequences)
      /\ \A i \in 1..Len(sequences) : sequences[i] \in Keys /\ sequences[i] # <<>>
  OBVIOUS
<1> DEFINE Until(n) == UNION {KeyPrefixes(sequences[i]) : i \in 1..n}
    Covers(n) ==
      /\ loop[n] \in Results
      /\ BehavioursOf(loop[n]) = Behaviours(old) \cup Until(n)
      /\ loop[n].added = <<>> => BehavioursOf(loop[n]) = Behaviours(old)
      /\ loop[n].added # <<>> => ~(BehavioursOf(loop[n]) \subseteq Behaviours(old))
    T == {n \in Nat : n <= Len(sequences) => Covers(n)}
<1>3. Behaviours(<<>>) = {}
  BY DEF Behaviours
<1>4. Covers(0)
  <2>1. loop[0].old = old /\ loop[0].added = <<>> /\ loop[0] \in Results
    BY <1>1 DEF Results
  <2>2. Until(0) = {}
    OBVIOUS
  <2> HIDE DEF Until
  <2> QED
    BY <1>3, <2>1, <2>2 DEF BehavioursOf
<1>5. ASSUME NEW n \in 0..(Len(sequences) - 1), Covers(n)
      PROVE  Covers(n + 1)
  <2> DEFINE s == sequences[n + 1]
  <2>1. n + 1 \in 1..Len(sequences) /\ 1..(n + 1) = (1..n) \cup {n + 1}
    BY <1>2
  <2>2. s \in Keys /\ s # <<>>
    BY <1>2, <2>1
  <2>3. loop[n + 1] = MergeOne(loop[n], s)
    BY <1>1
  <2>4. Until(n + 1) = Until(n) \cup KeyPrefixes(s)
    BY <2>1
  <2>5. loop[n + 1] \in Results
    BY <1>5, <2>2, <2>3, MergeOneType
  <2> HIDE DEF Until, s
  <2>6. /\ BehavioursOf(loop[n + 1]) = BehavioursOf(loop[n]) \cup KeyPrefixes(s)
        /\ \/ /\ loop[n + 1].added = loop[n].added
              /\ s \in Behaviours(loop[n].old)
           \/ /\ loop[n + 1].added = Append(loop[n].added, s)
              /\ s \notin Behaviours(loop[n].old)
    BY <1>5, <2>2, <2>3, MergeOneCovers
  <2>7. loop[n].added \in Seq(Keys)
    BY <1>5 DEF Results
  <2>8. s \in KeyPrefixes(s)
    BY <2>2, OwnPrefix
  <2>9. CASE loop[n].added # <<>>
    <3>1. loop[n + 1].added # <<>>
      BY <2>2, <2>6, <2>7, <2>9
    <3> QED
      BY <1>5, <2>4, <2>5, <2>6, <2>9, <3>1
  <2>10. CASE loop[n].added = <<>> /\ loop[n + 1].added = <<>>
    <3>1. s \in Behaviours(old)
      BY <1>3, <1>5, <2>2, <2>6, <2>10 DEF BehavioursOf
    <3>2. KeyPrefixes(s) \subseteq Behaviours(old)
      BY <2>2, <3>1, CoversPrefixes
    <3> QED
      BY <1>5, <2>4, <2>5, <2>6, <2>10, <3>2
  <2>11. CASE loop[n].added = <<>> /\ loop[n + 1].added # <<>>
    <3>1. s \notin Behaviours(old)
      BY <1>3, <1>5, <2>6, <2>11 DEF BehavioursOf
    <3> QED
      BY <1>5, <2>4, <2>5, <2>6, <2>8, <2>11, <3>1
  <2> QED
    BY <2>9, <2>10, <2>11
<1> HIDE DEF Covers
<1>6. 0 \in T
  BY <1>4
<1>7. ASSUME NEW n \in Nat, n \in T
      PROVE  n + 1 \in T
  <2>1. n + 1 <= Len(sequences) => n \in 0..(Len(sequences) - 1) /\ Covers(n)
    BY <1>2, <1>7
  <2> QED
    BY <1>5, <2>1
<1> HIDE DEF T
<1>8. Len(sequences) \in T
  BY <1>2, <1>6, <1>7, SetInduction
<1>9. Covers(Len(sequences))
  BY <1>2, <1>8 DEF T
<1>10. Until(Len(sequences)) = Behaviours(sequences)
  BY <1>2 DEF Behaviours, KeyPrefixes
<1> HIDE DEF Until
<1> QED
  BY <1>1, <1>9, <1>10 DEF Covers

-----------------------------------------------------------------------------
(* Steps 1 and 2                                                           *)

CallStackPairs == [LCS : CallStackInfo, GCS : CallStackInfo]

\* The call stacks of infos that join with LCS, each as often as it came.
LEMMA PairsOfAre ==
  ASSUME NEW infos \in Seq(CallStackInfo), NEW LCS \in CallStackInfo
  PROVE  /\ PairsOf(LCS, infos) \in Seq(CallStackPairs)
         /\ Distinct(infos) => Distinct(PairsOf(LCS, infos))
         /\ Range(PairsOf(LCS, infos)) =
              {p \in CallStackPairs : /\ p.LCS = LCS
                                      /\ p.GCS \in Range(infos)
                                      /\ is_concurrent(LCS, p.GCS)}
<1> DEFINE set == {GCS \in Range(infos) : is_concurrent(LCS, GCS)}
           partners == Keep(infos, set)
           pairs == [i \in DOMAIN partners |-> Pair(LCS, partners[i])]
<1>1. PairsOf(LCS, infos) = pairs
  BY DEF PairsOf
<1>2. /\ partners \in Seq(CallStackInfo)
      /\ Range(partners) = Range(infos) \cap set
      /\ Distinct(infos) => Distinct(partners)
  BY KeepKeeps
<1> HIDE DEF partners
<1>3. /\ DOMAIN partners = 1..Len(partners) /\ Len(partners) \in Nat
      /\ \A i \in 1..Len(partners) : partners[i] \in CallStackInfo
  BY <1>2
<1>4. \A G \in CallStackInfo :
        /\ Pair(LCS, G) \in CallStackPairs
        /\ Pair(LCS, G).LCS = LCS /\ Pair(LCS, G).GCS = G
  BY DEF Pair, CallStackPairs
<1>5. DOMAIN pairs = 1..Len(partners)
  BY <1>3
<1>6. pairs \in Seq(CallStackPairs)
  <2>1. pairs \in [1..Len(partners) -> CallStackPairs]
    BY <1>3, <1>4
  <2> QED
    BY <1>3, <2>1
<1>7. Distinct(infos) => Distinct(pairs)
  BY <1>2, <1>3, <1>4, <1>5 DEF Distinct
<1>8. \A p \in CallStackPairs :
        p.LCS = LCS => p = Pair(LCS, p.GCS) /\ p.GCS \in CallStackInfo
  BY DEF Pair, CallStackPairs
<1>9. Range(pairs) = {p \in CallStackPairs : p.LCS = LCS /\ p.GCS \in Range(partners)}
  BY <1>3, <1>4, <1>5, <1>8 DEF Range
<1> QED
  BY <1>1, <1>2, <1>6, <1>7, <1>9

\* Step 2, round by round.
LEMMA PairsLoop ==
  ASSUME NEW infos \in Seq(CallStackInfo)
  PROVE  \E lifecycle \in Seq(CallStackInfo) : \E loop :
           /\ Distinct(infos) => Distinct(lifecycle)
           /\ Range(lifecycle) = {info \in Range(infos) : IsLifecycle(info)}
           /\ loop[0] = <<>>
           /\ \A n \in 0..(Len(lifecycle) - 1) :
                loop[n + 1] = loop[n] \o PairsOf(lifecycle[n + 1], infos)
           /\ loop[Len(lifecycle)] = Pairs(infos)
<1> DEFINE set == {info \in Range(infos) : IsLifecycle(info)}
           lifecycle == Keep(infos, set)
           N == Len(lifecycle)
           S == Seq(CallStackPairs)
           Op(pairs, LCS) == pairs \o PairsOf(LCS, infos)
           step == [x \in S \X CallStackInfo |-> Op(x[1], x[2])]
           Folds(g) == g = [s \in SUBSET (DOMAIN lifecycle) |->
                              IF s = {} THEN <<>>
                              ELSE Op(g[s \ {Max(s)}], lifecycle[Max(s)])]
           g == CHOOSE g : Folds(g)
           loop == [n \in 0..N |-> g[1..n]]
<1>1. Pairs(infos) = g[DOMAIN lifecycle]
  BY Zenon DEF Pairs, FoldLeft, MapThenFoldSet
<1>2. /\ lifecycle \in Seq(CallStackInfo)
      /\ Range(lifecycle) = Range(infos) \cap set
      /\ Distinct(infos) => Distinct(lifecycle)
  BY KeepKeeps
<1> HIDE DEF lifecycle
<1>3. <<>> \in S /\ step \in [S \X CallStackInfo -> S]
  BY PairsOfAre
<1>4. /\ N \in Nat /\ DOMAIN lifecycle = 1..N
      /\ lifecycle \in [1..N -> CallStackInfo]
  BY <1>2
<1>5. PICK h \in [SUBSET (1..N) -> S] : IsFold(h, <<>>, step, N, lifecycle)
  <2> HIDE DEF step, N, S
  <2> QED
    BY <1>3, <1>4, FoldExists
<1>6. Folds(h)
  <2>1. ASSUME NEW s \in SUBSET (1..N), s # {}
        PROVE  step[<<h[s \ {Max(s)}], lifecycle[Max(s)]>>]
                 = Op(h[s \ {Max(s)}], lifecycle[Max(s)])
    <3>1. h[s \ {Max(s)}] \in S /\ lifecycle[Max(s)] \in CallStackInfo
      BY <1>4, <1>5, <2>1, MaxOfSome
    <3> HIDE DEF Op, S
    <3> QED
      BY <3>1
  <2> HIDE DEF step, Op, N, S
  <2> QED
    BY <1>4, <1>5, <2>1 DEF IsFold
<1>7. Folds(g)
  <2> HIDE DEF Folds
  <2> QED
    BY <1>6
<1> HIDE DEF g, N
<1>8. ASSUME NEW n \in 0..(N - 1)
      PROVE  g[1..(n + 1)] = Op(g[1..n], lifecycle[n + 1])
  <2>1. /\ n \in Nat /\ 1..(n + 1) \in SUBSET (1..N)
        /\ n + 1 \in 1..(n + 1)
    BY <1>4
  <2>2. Max(1..(n + 1)) = n + 1 /\ (1..(n + 1)) \ {n + 1} = 1..n
    BY <2>1, FirstPlaces
  <2>3. 1..(n + 1) # {}
    BY <2>1
  <2> HIDE DEF Op
  <2> QED
    BY <1>4, <1>7, <2>1, <2>2, <2>3
<1>9. g[1..0] = <<>>
  BY <1>4, <1>7
<1>10. loop[N] = Pairs(infos)
  BY <1>1, <1>4
<1>11. \A n \in 0..(N - 1) : loop[n + 1] = Op(loop[n], lifecycle[n + 1])
  <2> HIDE DEF Op
  <2> QED
    BY <1>4, <1>8
<1>12. loop[0] = <<>>
  BY <1>4, <1>9
<1>13. Range(lifecycle) = set
  BY <1>2
<1> HIDE DEF loop
<1> QED
  BY <1>2, <1>10, <1>11, <1>12, <1>13 DEF N

\* The pairs of a schedule.
Concurrent(infos) ==
  {p \in CallStackPairs : /\ p.LCS \in Range(infos) /\ IsLifecycle(p.LCS)
                          /\ p.GCS \in Range(infos)
                          /\ is_concurrent(p.LCS, p.GCS)}

\* The two loops find all of them, and each once if each call stack came once.
LEMMA PairsAre ==
  ASSUME NEW infos \in Seq(CallStackInfo)
  PROVE  /\ Pairs(infos) \in Seq(CallStackPairs)
         /\ Distinct(infos) => Distinct(Pairs(infos))
         /\ Range(Pairs(infos)) = Concurrent(infos)
<1>0. PICK lifecycle \in Seq(CallStackInfo) : \E loop :
        /\ Distinct(infos) => Distinct(lifecycle)
        /\ Range(lifecycle) = {info \in Range(infos) : IsLifecycle(info)}
        /\ loop[0] = <<>>
        /\ \A n \in 0..(Len(lifecycle) - 1) :
             loop[n + 1] = loop[n] \o PairsOf(lifecycle[n + 1], infos)
        /\ loop[Len(lifecycle)] = Pairs(infos)
  BY PairsLoop
<1>1. PICK loop :
        /\ Distinct(infos) => Distinct(lifecycle)
        /\ Range(lifecycle) = {info \in Range(infos) : IsLifecycle(info)}
        /\ loop[0] = <<>>
        /\ \A n \in 0..(Len(lifecycle) - 1) :
             loop[n + 1] = loop[n] \o PairsOf(lifecycle[n + 1], infos)
        /\ loop[Len(lifecycle)] = Pairs(infos)
  BY <1>0
<1>2. Len(lifecycle) \in Nat /\ DOMAIN lifecycle = 1..Len(lifecycle)
  OBVIOUS
<1> DEFINE First(n) == {lifecycle[i] : i \in 1..n}
    PairsWith(L) ==
      {p \in CallStackPairs : /\ p.LCS \in L
                              /\ p.GCS \in Range(infos)
                              /\ is_concurrent(p.LCS, p.GCS)}
    Found(n) ==
      /\ loop[n] \in Seq(CallStackPairs)
      /\ Distinct(infos) => Distinct(loop[n])
      /\ Range(loop[n]) = PairsWith(First(n))
    T == {n \in Nat : n <= Len(lifecycle) => Found(n)}
<1>3. Found(0)
  <2>1. First(0) = {}
    OBVIOUS
  <2> QED
    BY <1>1, <2>1, RangeOfEmpty DEF Distinct
<1>4. ASSUME NEW n \in 0..(Len(lifecycle) - 1), Found(n)
      PROVE  Found(n + 1)
  <2> DEFINE LCS == lifecycle[n + 1]
             more == PairsOf(LCS, infos)
  <2>1. /\ 1..(n + 1) = (1..n) \cup {n + 1} /\ n + 1 \in 1..Len(lifecycle)
        /\ \A i \in 1..n : i \in 1..Len(lifecycle) /\ i # n + 1
    BY <1>2
  <2>2. First(n + 1) = First(n) \cup {LCS}
    BY <2>1
  <2>3. LCS \in CallStackInfo
    BY <2>1
  <2>4. Distinct(infos) => LCS \notin First(n)
    BY <1>1, <1>2, <2>1 DEF Distinct
  <2> HIDE DEF First, LCS
  <2>5. /\ more \in Seq(CallStackPairs)
        /\ Distinct(infos) => Distinct(more)
        /\ Range(more) = PairsWith({LCS})
    BY <2>3, PairsOfAre
  <2>6. loop[n + 1] = loop[n] \o more
    BY <1>1 DEF LCS
  <2>7. Distinct(infos) => PairsWith(First(n)) \cap PairsWith({LCS}) = {}
    BY <2>4
  <2>8. PairsWith(First(n + 1)) = PairsWith(First(n)) \cup PairsWith({LCS})
    BY <2>2
  <2> HIDE DEF more, PairsWith
  <2>9. Distinct(infos) => Distinct(loop[n] \o more)
    BY <1>4, <2>5, <2>7, DistinctConcat
  <2>10. Range(loop[n] \o more) = Range(loop[n]) \cup Range(more)
    BY <1>4, <2>5, RangeOfConcat
  <2>11. loop[n] \o more \in Seq(CallStackPairs)
    BY <1>4, <2>5
  <2>12. Range(loop[n + 1]) = PairsWith(First(n + 1))
    BY <1>4, <2>5, <2>6, <2>8, <2>10
  <2> QED
    BY <2>6, <2>9, <2>11, <2>12
<1> HIDE DEF Found
<1>5. 0 \in T
  BY <1>3
<1>6. ASSUME NEW n \in Nat, n \in T
      PROVE  n + 1 \in T
  <2>1. n + 1 <= Len(lifecycle) => n \in 0..(Len(lifecycle) - 1) /\ Found(n)
    BY <1>2, <1>6
  <2> QED
    BY <1>4, <2>1
<1> HIDE DEF T
<1>7. Len(lifecycle) \in T
  BY <1>2, <1>5, <1>6, SetInduction
<1>8. Found(Len(lifecycle))
  BY <1>2, <1>7 DEF T
<1>9. First(Len(lifecycle)) = Range(lifecycle)
  BY <1>2 DEF Range
<1>10. PairsWith(Range(lifecycle)) = Concurrent(infos)
  BY <1>1 DEF Concurrent
<1> QED
  BY <1>1, <1>8, <1>9, <1>10 DEF Found

-----------------------------------------------------------------------------
(* Step 3                                                                  *)

Ordered(s) ==
  \A i, j \in DOMAIN s : i < j => s[i].GCS.start_time <= s[j].GCS.start_time

\* The place that the loop finds for a pair keeps the sequence in its order.
LEMMA InsertInOrderInserts ==
  ASSUME NEW s \in Seq(CallStackPairs), NEW p \in CallStackPairs
  PROVE  LET r == InsertInOrder(s, p)
         IN  /\ r \in Seq(CallStackPairs)
             /\ r # <<>>
             /\ Range(r) = Range(s) \cup {p}
             /\ Ordered(s) => Ordered(r)
             /\ Distinct(s) /\ p \notin Range(s) => Distinct(r)
<1> DEFINE I == {i \in 1..Len(s) : p.GCS.start_time < s[i].GCS.start_time}
           place == IF I # {} THEN Min(I) ELSE 0
           at == IF place = 0 THEN Len(s) + 1 ELSE place
           r == InsertAt(s, at, p)
<1>1. InsertInOrder(s, p) = r
  BY DEF InsertInOrder, SelectInSeq
<1>2. /\ Len(s) \in Nat /\ DOMAIN s = 1..Len(s)
      /\ \A i \in 1..Len(s) : s[i] \in CallStackPairs
  OBVIOUS
<1>3. \A a \in CallStackPairs : a.GCS.start_time \in Nat
  BY DEF CallStackPairs, CallStackInfo
<1>4. I # {} => place \in I /\ \A i \in I : place <= i
  BY <1>2, MinOfSome
<1>5. /\ at \in 1..(Len(s) + 1)
      /\ at <= Len(s) => at \in I
      /\ \A i \in 1..Len(s) : i < at => i \notin I
  <2>1. I = {} => place = 0
    OBVIOUS
  <2>2. I \subseteq 1..Len(s)
    OBVIOUS
  <2> HIDE DEF I, place
  <2>3. CASE I = {}
    BY <1>2, <2>1, <2>3
  <2>4. CASE I # {}
    <3>1. place \in 1..Len(s)
      BY <1>4, <2>2, <2>4
    <3>2. at = place
      BY <1>2, <3>1
    <3> QED
      BY <1>2, <1>4, <2>2, <2>4, <3>1, <3>2
  <2> QED
    BY <2>3, <2>4
<1> HIDE DEF at
<1>6. /\ r \in Seq(CallStackPairs) /\ Len(r) = Len(s) + 1
      /\ \A i \in 1..(Len(s) + 1) :
           r[i] = IF i < at THEN s[i] ELSE IF i = at THEN p ELSE s[i - 1]
  <2> DEFINE before == SubSeq(s, 1, at - 1)
             after == SubSeq(s, at, Len(s))
  <2>1. /\ before \in Seq(CallStackPairs) /\ Len(before) = at - 1
        /\ \A i \in 1..(at - 1) : before[i] = s[i]
    BY <1>2, <1>5
  <2>2. /\ after \in Seq(CallStackPairs) /\ Len(after) = Len(s) + 1 - at
        /\ \A i \in 1..(Len(s) + 1 - at) : after[i] = s[at + i - 1]
    BY <1>2, <1>5
  <2>3. r = before \o <<p>> \o after
    BY DEF InsertAt
  <2> HIDE DEF before, after, r
  <2> DEFINE begin == before \o <<p>>
  <2>4. /\ begin \in Seq(CallStackPairs) /\ Len(begin) = at
        /\ \A i \in 1..(at - 1) : begin[i] = s[i]
        /\ begin[at] = p
    BY <1>5, <2>1
  <2>5. r = begin \o after
    BY <2>3
  <2> HIDE DEF begin
  <2>6. /\ r \in Seq(CallStackPairs) /\ Len(r) = Len(s) + 1
        /\ \A i \in 1..(Len(s) + 1) :
             r[i] = IF i <= at THEN begin[i] ELSE after[i - at]
    <3>1. Len(begin) + Len(after) = Len(s) + 1
      BY <1>2, <1>5, <2>2, <2>4
    <3>2. begin \in Seq(CallStackPairs) /\ after \in Seq(CallStackPairs)
      BY <2>2, <2>4
    <3>3. /\ begin \o after \in Seq(CallStackPairs)
          /\ Len(begin \o after) = Len(begin) + Len(after)
          /\ \A i \in 1..(Len(begin) + Len(after)) :
               (begin \o after)[i] = IF i <= Len(begin) THEN begin[i]
                                     ELSE after[i - Len(begin)]
      BY <3>2
    <3> QED
      BY <2>4, <2>5, <3>1, <3>3
  <2>7. ASSUME NEW i \in 1..(Len(s) + 1), i > at
        PROVE  after[i - at] = s[i - 1]
    <3>1. i - at \in 1..(Len(s) + 1 - at) /\ at + (i - at) - 1 = i - 1
      BY <1>2, <1>5, <2>7
    <3> QED
      BY <2>2, <3>1
  <2> QED
    BY <1>2, <1>5, <2>4, <2>6, <2>7
<1> HIDE DEF r
<1>7. DOMAIN r = 1..(Len(s) + 1)
  BY <1>6
<1>8. r # <<>>
  BY <1>2, <1>6
<1>9. Range(r) = Range(s) \cup {p}
  <2>1. \A i \in 1..(Len(s) + 1) :
          r[i] = p \/ \E j \in 1..Len(s) : r[i] = s[j]
    <3>1. \A i \in 1..(Len(s) + 1) :
            \/ i \in 1..Len(s) /\ i < at
            \/ i = at
            \/ i - 1 \in 1..Len(s) /\ i > at
      BY <1>2, <1>5
    <3> QED
      BY <1>5, <1>6, <3>1
  <2>2. \A j \in 1..Len(s) : \E i \in 1..(Len(s) + 1) : r[i] = s[j]
    <3>1. \A j \in 1..Len(s) : j < at => j \in 1..(Len(s) + 1) /\ r[j] = s[j]
      BY <1>2, <1>6
    <3>2. \A j \in 1..Len(s) :
            j >= at => /\ j + 1 \in 1..(Len(s) + 1) /\ j + 1 > at
                       /\ (j + 1) - 1 = j
      BY <1>2, <1>5
    <3>3. \A j \in 1..Len(s) : j >= at => r[j + 1] = s[j]
      BY <1>5, <1>6, <3>2
    <3> QED
      BY <1>5, <3>1, <3>2, <3>3
  <2>3. at \in 1..(Len(s) + 1) /\ r[at] = p
    BY <1>5, <1>6
  <2>4. Range(r) \subseteq Range(s) \cup {p}
    BY <1>2, <1>7, <2>1 DEF Range
  <2>5. Range(s) \cup {p} \subseteq Range(r)
    BY <1>2, <1>7, <2>2, <2>3 DEF Range
  <2> QED
    BY <2>4, <2>5
<1>10. ASSUME Ordered(s)
       PROVE  Ordered(r)
  <2> DEFINE S(i) == s[i].GCS.start_time
             P == p.GCS.start_time
  <2>1. P \in Nat /\ \A i \in 1..Len(s) : S(i) \in Nat
    BY <1>2, <1>3
  <2>2. \A i \in 1..Len(s) : i < at => S(i) <= P
    BY <1>5, <2>1
  <2>3. \A i, j \in 1..Len(s) : i <= j => S(i) <= S(j)
    BY <1>2, <1>10, <2>1 DEF Ordered
  <2>4. \A i \in 1..Len(s) : i >= at => P <= S(i)
    <3>1. at <= Len(s) => at \in 1..Len(s) /\ P < S(at)
      BY <1>5
    <3> QED
      BY <1>2, <1>5, <2>1, <2>3, <3>1
  <2>5. \A i \in 1..(Len(s) + 1) :
          r[i].GCS.start_time = IF i < at THEN S(i)
                                ELSE IF i = at THEN P ELSE S(i - 1)
    BY <1>6
  <2> HIDE DEF S, P
  <2>6. ASSUME NEW i \in 1..(Len(s) + 1), NEW j \in 1..(Len(s) + 1), i < j
        PROVE  r[i].GCS.start_time <= r[j].GCS.start_time
    <3>1. CASE j < at
      <4>1. i \in 1..Len(s) /\ j \in 1..Len(s) /\ i < at
        BY <1>2, <1>5, <2>6, <3>1
      <4> QED
        BY <2>3, <2>5, <2>6, <3>1, <4>1
    <3>2. CASE j = at
      <4>1. i \in 1..Len(s) /\ i < at
        BY <1>2, <1>5, <2>6, <3>2
      <4> QED
        BY <2>2, <2>5, <3>2, <4>1
    <3>3. CASE j > at /\ i < at
      <4>1. i \in 1..Len(s) /\ j - 1 \in 1..Len(s) /\ i <= j - 1 /\ ~(j < at) /\ j # at
        BY <1>2, <1>5, <2>6, <3>3
      <4> QED
        BY <2>3, <2>5, <3>3, <4>1
    <3>4. CASE j > at /\ i = at
      <4>1. j - 1 \in 1..Len(s) /\ j - 1 >= at /\ ~(j < at) /\ j # at /\ ~(i < at)
        BY <1>2, <1>5, <2>6, <3>4
      <4> QED
        BY <2>4, <2>5, <3>4, <4>1
    <3>5. CASE i > at
      <4>1. /\ i - 1 \in 1..Len(s) /\ j - 1 \in 1..Len(s) /\ i - 1 <= j - 1
            /\ ~(j < at) /\ j # at /\ ~(i < at) /\ i # at
        BY <1>2, <1>5, <2>6, <3>5
      <4> QED
        BY <2>3, <2>5, <4>1
    <3> QED
      BY <1>2, <1>5, <3>1, <3>2, <3>3, <3>4, <3>5
  <2> QED
    BY <1>7, <2>6 DEF Ordered
<1>11. ASSUME Distinct(s), p \notin Range(s)
       PROVE  Distinct(r)
  <2>1. \A i \in 1..Len(s) : s[i] # p
    BY <1>2, <1>11 DEF Range
  <2>2. \A i \in 1..(Len(s) + 1) :
          /\ i < at => i \in 1..Len(s)
          /\ i > at => i - 1 \in 1..Len(s)
    BY <1>2, <1>5
  <2> DEFINE k(i) == IF i < at THEN i ELSE i - 1
  <2>3. \A i \in 1..(Len(s) + 1) : i # at => k(i) \in 1..Len(s) /\ r[i] = s[k(i)]
    BY <1>5, <1>6, <2>2
  <2>4. \A i, j \in 1..(Len(s) + 1) :
          i # at /\ j # at /\ i # j => k(i) # k(j)
    BY <1>2, <1>5
  <2>5. r[at] = p
    BY <1>5, <1>6
  <2>6. \A i, j \in 1..Len(s) : i # j => s[i] # s[j]
    BY <1>2, <1>11 DEF Distinct
  <2> HIDE DEF k
  <2> QED
    BY <1>7, <2>1, <2>3, <2>4, <2>5, <2>6 DEF Distinct
<1> QED
  BY <1>1, <1>6, <1>8, <1>9, <1>10, <1>11

Sequences == Seq(Seq(CallStackPairs))

SameGroup(a, b) == a.LCS = b.LCS /\ a.GCS.thread_id = b.GCS.thread_id

\* The sequences are the groups of the pairs of P.
Grouping(sequences, P) ==
  /\ sequences \in Sequences
  /\ \A i \in DOMAIN sequences :
       /\ sequences[i] # <<>>
       /\ Ordered(sequences[i])
  /\ \A a : a \in P <=> \E i \in DOMAIN sequences : a \in Range(sequences[i])
  /\ \A i, j \in DOMAIN sequences :
       \A a \in Range(sequences[i]), b \in Range(sequences[j]) :
          SameGroup(a, b) <=> i = j

\* No sequence has a pair twice.
EachOnce(sequences) == \A i \in DOMAIN sequences : Distinct(sequences[i])

\* The loop over a sequence asks for one pair of the same group.
LEMMA BelongsToIs ==
  ASSUME NEW pair, NEW s
  PROVE  BelongsTo(pair, s) <=> \E a \in Range(s) : SameGroup(a, pair)
BY DEF BelongsTo, SameGroup, Range

\* A pair starts a sequence, or goes into one that it belongs to.
LEMMA InsertPairCases ==
  ASSUME NEW sequences \in Sequences, NEW pair \in CallStackPairs
  PROVE  \/ /\ InsertPair(sequences, pair) = Append(sequences, <<pair>>)
            /\ \A i \in DOMAIN sequences : ~BelongsTo(pair, sequences[i])
         \/ \E home \in DOMAIN sequences :
              /\ BelongsTo(pair, sequences[home])
              /\ InsertPair(sequences, pair) =
                   [sequences EXCEPT ![home] = InsertInOrder(@, pair)]
<1> DEFINE I == {i \in 1..Len(sequences) : BelongsTo(pair, sequences[i])}
           home == IF I # {} THEN Min(I) ELSE 0
<1>1. InsertPair(sequences, pair) =
        IF home = 0 THEN Append(sequences, <<pair>>)
        ELSE [sequences EXCEPT ![home] = InsertInOrder(@, pair)]
  BY DEF InsertPair, SelectInSeq
<1>2. Len(sequences) \in Nat /\ DOMAIN sequences = 1..Len(sequences)
  BY DEF Sequences
<1>3. I # {} => home \in I
  BY <1>2, MinOfSome
<1>4. I = {} => home = 0
  OBVIOUS
<1>5. \A i \in I : i # 0 /\ i \in DOMAIN sequences /\ BelongsTo(pair, sequences[i])
  BY <1>2
<1>6. I = {} => \A i \in DOMAIN sequences : ~BelongsTo(pair, sequences[i])
  BY <1>2
<1> HIDE DEF I, home
<1>7. CASE I = {}
  BY <1>1, <1>4, <1>6, <1>7
<1>8. CASE I # {}
  BY <1>1, <1>3, <1>5, <1>8
<1> QED
  BY <1>7, <1>8

\* Either way the vector stays one of sequences of pairs.
LEMMA InsertPairType ==
  ASSUME NEW sequences \in Sequences, NEW pair \in CallStackPairs
  PROVE  InsertPair(sequences, pair) \in Sequences
<1>1. <<pair>> \in Seq(CallStackPairs)
  OBVIOUS
<1>2. Append(sequences, <<pair>>) \in Sequences
  BY <1>1 DEF Sequences
<1>3. ASSUME NEW home \in DOMAIN sequences
      PROVE  [sequences EXCEPT ![home] = InsertInOrder(@, pair)] \in Sequences
  <2>1. sequences[home] \in Seq(CallStackPairs)
    BY DEF Sequences
  <2>2. InsertInOrder(sequences[home], pair) \in Seq(CallStackPairs)
    BY <2>1, InsertInOrderInserts
  <2> QED
    BY <2>2 DEF Sequences
<1>4. CASE InsertPair(sequences, pair) = Append(sequences, <<pair>>)
  BY <1>2, <1>4
<1>5. CASE \E home \in DOMAIN sequences :
             InsertPair(sequences, pair) =
               [sequences EXCEPT ![home] = InsertInOrder(@, pair)]
  BY <1>3, <1>5
<1> QED
  BY <1>4, <1>5, InsertPairCases

\* Each pair of the queue goes where it belongs.
LEMMA InsertPairGroups ==
  ASSUME NEW P, NEW sequences, Grouping(sequences, P),
         NEW pair \in CallStackPairs
  PROVE  /\ Grouping(InsertPair(sequences, pair), P \cup {pair})
         /\ pair \notin P /\ EachOnce(sequences) =>
              EachOnce(InsertPair(sequences, pair))
<1> DEFINE next == InsertPair(sequences, pair)
<1>1. sequences \in Sequences /\ next \in Sequences
  BY InsertPairType DEF Grouping
<1>2. /\ DOMAIN sequences = 1..Len(sequences) /\ Len(sequences) \in Nat
      /\ \A i \in DOMAIN sequences : sequences[i] \in Seq(CallStackPairs)
  BY <1>1 DEF Sequences
<1>3. CASE /\ next = Append(sequences, <<pair>>)
           /\ \A i \in DOMAIN sequences : ~BelongsTo(pair, sequences[i])
  <2> DEFINE last == Len(sequences) + 1
  <2>1. /\ DOMAIN next = DOMAIN sequences \cup {last}
        /\ last \notin DOMAIN sequences
        /\ \A i \in DOMAIN sequences : next[i] = sequences[i]
        /\ next[last] = <<pair>>
    <3>1. 1..last = (1..Len(sequences)) \cup {last} /\ last \notin 1..Len(sequences)
      BY <1>2
    <3>2. /\ DOMAIN next = 1..last
          /\ \A i \in 1..Len(sequences) : next[i] = sequences[i]
          /\ next[last] = <<pair>>
      BY <1>1, <1>3 DEF Sequences
    <3> QED
      BY <1>2, <3>1, <3>2
  <2>2. Range(<<pair>>) = {pair}
    BY DEF Range
  <2>3. <<pair>> # <<>> /\ Ordered(<<pair>>) /\ Distinct(<<pair>>)
    BY DEF Ordered, Distinct
  <2>4. \A i \in DOMAIN sequences : \A a \in Range(sequences[i]) :
          ~SameGroup(a, pair) /\ ~SameGroup(pair, a)
    BY <1>3, BelongsToIs DEF SameGroup
  <2>5. SameGroup(pair, pair)
    BY DEF SameGroup
  <2> HIDE DEF last, next
  <2>6. \A i \in DOMAIN next :
          next[i] # <<>> /\ Ordered(next[i])
    BY <2>1, <2>3 DEF Grouping
  <2>7. \A a : a \in P \cup {pair} <=> \E i \in DOMAIN next : a \in Range(next[i])
    BY <2>1, <2>2 DEF Grouping
  <2>8. ASSUME NEW i \in DOMAIN next, NEW j \in DOMAIN next,
               NEW a \in Range(next[i]), NEW b \in Range(next[j])
        PROVE  SameGroup(a, b) <=> i = j
    BY <2>1, <2>2, <2>4, <2>5, <2>8 DEF Grouping
  <2>9. EachOnce(sequences) => EachOnce(next)
    BY <2>1, <2>3 DEF EachOnce
  <2> QED
    BY <1>1, <2>6, <2>7, <2>8, <2>9 DEF Grouping, next
<1>4. ASSUME NEW home \in DOMAIN sequences,
             BelongsTo(pair, sequences[home]),
             next = [sequences EXCEPT ![home] = InsertInOrder(@, pair)]
      PROVE  /\ Grouping(next, P \cup {pair})
             /\ pair \notin P /\ EachOnce(sequences) => EachOnce(next)
  <2> DEFINE r == InsertInOrder(sequences[home], pair)
  <2>1. /\ DOMAIN next = DOMAIN sequences
        /\ \A i \in DOMAIN sequences : i # home => next[i] = sequences[i]
        /\ next[home] = r
    BY <1>1, <1>4 DEF Sequences
  <2>2. pair \notin P => pair \notin Range(sequences[home])
    BY DEF Grouping
  <2>3. /\ r # <<>>
        /\ Range(r) = Range(sequences[home]) \cup {pair}
        /\ Ordered(sequences[home]) => Ordered(r)
        /\ pair \notin P /\ Distinct(sequences[home]) => Distinct(r)
    BY <1>2, <2>2, InsertInOrderInserts
  <2>4. PICK c \in Range(sequences[home]) : SameGroup(c, pair)
    BY <1>4, BelongsToIs
  <2>5. ASSUME NEW i \in DOMAIN sequences, NEW a \in Range(sequences[i])
        PROVE  /\ SameGroup(a, pair) <=> i = home
               /\ SameGroup(pair, a) <=> i = home
    <3>1. SameGroup(a, c) <=> i = home
      BY DEF Grouping
    <3> QED
      BY <2>4, <3>1 DEF SameGroup
  <2>6. SameGroup(pair, pair)
    BY DEF SameGroup
  <2> HIDE DEF r, next
  <2>7. \A i \in DOMAIN next :
          next[i] # <<>> /\ Ordered(next[i])
    BY <2>1, <2>3 DEF Grouping
  <2>8. \A a : a \in P \cup {pair} <=> \E i \in DOMAIN next : a \in Range(next[i])
    BY <2>1, <2>3 DEF Grouping
  <2>9. \A i \in DOMAIN next : \A a \in Range(next[i]) :
          a \in Range(sequences[i]) \/ (i = home /\ a = pair)
    BY <2>1, <2>3
  <2>10. ASSUME NEW i \in DOMAIN next, NEW j \in DOMAIN next,
                NEW a \in Range(next[i]), NEW b \in Range(next[j])
         PROVE  SameGroup(a, b) <=> i = j
    <3>1. CASE a \in Range(sequences[i]) /\ b \in Range(sequences[j])
      BY <2>1, <3>1 DEF Grouping
    <3>2. CASE i = home /\ a = pair /\ b \in Range(sequences[j])
      BY <2>1, <2>5, <3>2
    <3>3. CASE a \in Range(sequences[i]) /\ j = home /\ b = pair
      BY <2>1, <2>5, <3>3
    <3>4. CASE i = home /\ a = pair /\ j = home /\ b = pair
      BY <2>6, <3>4
    <3> QED
      BY <2>9, <3>1, <3>2, <3>3, <3>4
  <2>11. pair \notin P /\ EachOnce(sequences) => EachOnce(next)
    BY <2>1, <2>3 DEF EachOnce
  <2> QED
    BY <1>1, <2>7, <2>8, <2>10, <2>11 DEF Grouping, next
<1> QED
  BY <1>1, <1>3, <1>4, InsertPairCases

\* Step 3, round by round.
LEMMA CombineLoop ==
  ASSUME NEW pairs \in Seq(CallStackPairs)
  PROVE  \E loop :
           /\ loop[0] = <<>>
           /\ \A n \in 0..(Len(pairs) - 1) :
                loop[n + 1] = InsertPair(loop[n], pairs[n + 1])
           /\ loop[Len(pairs)] = Combine(pairs)
<1> DEFINE N == Len(pairs)
           step == [x \in Sequences \X CallStackPairs |-> InsertPair(x[1], x[2])]
           Folds(g) == g = [s \in SUBSET (DOMAIN pairs) |->
                              IF s = {} THEN <<>>
                              ELSE InsertPair(g[s \ {Max(s)}], pairs[Max(s)])]
           g == CHOOSE g : Folds(g)
           loop == [n \in 0..N |-> g[1..n]]
<1>1. Combine(pairs) = g[DOMAIN pairs]
  BY Zenon DEF Combine, FoldLeft, MapThenFoldSet
<1>2. <<>> \in Sequences
  BY DEF Sequences
<1>3. step \in [Sequences \X CallStackPairs -> Sequences]
  BY InsertPairType
<1>4. /\ N \in Nat /\ DOMAIN pairs = 1..N
      /\ pairs \in [1..N -> CallStackPairs]
  OBVIOUS
<1>5. PICK h \in [SUBSET (1..N) -> Sequences] : IsFold(h, <<>>, step, N, pairs)
  <2> HIDE DEF step, N
  <2> QED
    BY <1>2, <1>3, <1>4, FoldExists
<1>6. Folds(h)
  <2>1. ASSUME NEW s \in SUBSET (1..N), s # {}
        PROVE  step[<<h[s \ {Max(s)}], pairs[Max(s)]>>]
                 = InsertPair(h[s \ {Max(s)}], pairs[Max(s)])
    <3>1. h[s \ {Max(s)}] \in Sequences /\ pairs[Max(s)] \in CallStackPairs
      BY <1>4, <1>5, <2>1, MaxOfSome
    <3> QED
      BY <3>1
  <2> HIDE DEF step, N
  <2> QED
    BY <1>4, <1>5, <2>1 DEF IsFold
<1>7. Folds(g)
  <2> HIDE DEF Folds
  <2> QED
    BY <1>6
<1> HIDE DEF g, N
<1>8. ASSUME NEW n \in 0..(N - 1)
      PROVE  g[1..(n + 1)] = InsertPair(g[1..n], pairs[n + 1])
  <2>1. /\ n \in Nat /\ 1..(n + 1) \in SUBSET (1..N)
        /\ n + 1 \in 1..(n + 1)
    BY <1>4
  <2>2. Max(1..(n + 1)) = n + 1 /\ (1..(n + 1)) \ {n + 1} = 1..n
    BY <2>1, FirstPlaces
  <2>3. 1..(n + 1) # {}
    BY <2>1
  <2> QED
    BY <1>4, <1>7, <2>1, <2>2, <2>3
<1>9. g[1..0] = <<>>
  BY <1>4, <1>7
<1>10. loop[N] = Combine(pairs)
  BY <1>1, <1>4
<1>11. \A n \in 0..(N - 1) : loop[n + 1] = InsertPair(loop[n], pairs[n + 1])
  BY <1>4, <1>8
<1>12. loop[0] = <<>>
  BY <1>4, <1>9
<1> HIDE DEF loop
<1> QED
  BY <1>10, <1>11, <1>12 DEF N

\* Step 3 as a whole.
LEMMA CombineGroups ==
  ASSUME NEW pairs \in Seq(CallStackPairs)
  PROVE  /\ Grouping(Combine(pairs), Range(pairs))
         /\ Distinct(pairs) => EachOnce(Combine(pairs))
<1>1. PICK loop :
        /\ loop[0] = <<>>
        /\ \A n \in 0..(Len(pairs) - 1) :
             loop[n + 1] = InsertPair(loop[n], pairs[n + 1])
        /\ loop[Len(pairs)] = Combine(pairs)
  BY CombineLoop
<1>2. Len(pairs) \in Nat /\ DOMAIN pairs = 1..Len(pairs)
  OBVIOUS
<1> DEFINE First(n) == {pairs[i] : i \in 1..n}
           Grouped(n) == /\ Grouping(loop[n], First(n))
                         /\ Distinct(pairs) => EachOnce(loop[n])
           T == {n \in Nat : n <= Len(pairs) => Grouped(n)}
<1>3. Grouped(0)
  <2>1. First(0) = {}
    OBVIOUS
  <2>2. Grouping(<<>>, {}) /\ EachOnce(<<>>)
    BY DEF Grouping, Sequences, EachOnce
  <2> QED
    BY <1>1, <2>1, <2>2
<1>4. ASSUME NEW n \in 0..(Len(pairs) - 1), Grouped(n)
      PROVE  Grouped(n + 1)
  <2>1. /\ 1..(n + 1) = (1..n) \cup {n + 1} /\ n + 1 \in 1..Len(pairs)
        /\ \A i \in 1..n : i \in 1..Len(pairs) /\ i # n + 1
    BY <1>2
  <2>2. First(n + 1) = First(n) \cup {pairs[n + 1]}
    BY <2>1
  <2>3. pairs[n + 1] \in CallStackPairs
    BY <2>1
  <2>4. Distinct(pairs) => pairs[n + 1] \notin First(n)
    BY <1>2, <2>1 DEF Distinct
  <2> HIDE DEF First
  <2> QED
    BY <1>1, <1>4, <2>2, <2>3, <2>4, InsertPairGroups
<1> HIDE DEF Grouped
<1>5. 0 \in T
  BY <1>3
<1>6. ASSUME NEW n \in Nat, n \in T
      PROVE  n + 1 \in T
  <2>1. n + 1 <= Len(pairs) => n \in 0..(Len(pairs) - 1) /\ Grouped(n)
    BY <1>2, <1>6
  <2> QED
    BY <1>4, <2>1
<1> HIDE DEF T
<1>7. Len(pairs) \in T
  BY <1>2, <1>5, <1>6, SetInduction
<1>8. Grouped(Len(pairs))
  BY <1>2, <1>7 DEF T
<1>9. First(Len(pairs)) = Range(pairs)
  BY <1>2 DEF Range
<1> QED
  BY <1>1, <1>8, <1>9 DEF Grouped

-----------------------------------------------------------------------------
(* The properties                                                          *)

\* What the analyses rely on and leave: the sequences of the last run are the
\* groups of its pairs, and what is covered is a vector of keys.
AnalysisInv ==
  /\ Grouping(combined, Concurrent(func_schedule_))
  /\ Distinct(func_schedule_) => EachOnce(combined)
  /\ func_schedule_ \in Seq(CallStackInfo)
  /\ covered \in Seq(Keys)

\* What step 4 is given: a vector of keys, none of them empty.
LEMMA KeysOf ==
  ASSUME NEW sequences \in Sequences, \A i \in DOMAIN sequences : sequences[i] # <<>>
  PROVE  LET keys == [i \in DOMAIN sequences |-> Key(sequences[i])]
         IN  keys \in Seq(Keys) /\ \A i \in DOMAIN keys : keys[i] # <<>>
<1>1. /\ DOMAIN sequences = 1..Len(sequences) /\ Len(sequences) \in Nat
      /\ \A i \in DOMAIN sequences : sequences[i] \in Seq(CallStackPairs)
  BY DEF Sequences
<1>2. ASSUME NEW s \in Seq(CallStackPairs), s # <<>>
      PROVE  Key(s) \in Keys /\ Key(s) # <<>>
  <2>1. /\ DOMAIN s = 1..Len(s) /\ Len(s) \in Nat /\ Len(s) # 0
        /\ \A i \in 1..Len(s) : s[i] \in CallStackPairs
    BY <1>2
  <2>2. \A p \in CallStackPairs :
          <<p.LCS.func_hash, p.GCS.func_hash>> \in FuncHashes \X FuncHashes
    BY DEF CallStackPairs, CallStackInfo
  <2>3. Key(s) \in [1..Len(s) -> FuncHashes \X FuncHashes]
    BY <2>1, <2>2 DEF Key
  <2>4. Key(s) \in Keys /\ Len(Key(s)) = Len(s)
    BY <2>1, <2>3 DEF Keys
  <2> QED
    BY <2>1, <2>4
<1> DEFINE keys == [i \in DOMAIN sequences |-> Key(sequences[i])]
<1>3. keys \in [1..Len(sequences) -> Keys]
  BY <1>1, <1>2
<1>4. keys \in Seq(Keys)
  BY <1>1, <1>3
<1> QED
  BY <1>1, <1>2, <1>4

\* One analysis.
LEMMA AnalysisIs ==
  ASSUME NEW infos \in Schedules, Analysis(infos), AnalysisInv
  PROVE  /\ AnalysisInv'
         /\ Behaviours(covered') = Behaviours(covered) \cup Behaviours(CombinedKeys')
         /\ con_cov_up_' > 0 <=> Behaviours(covered') # Behaviours(covered)
<1> DEFINE sequences == Combine(Pairs(infos))
           keys == [i \in DOMAIN sequences |-> Key(sequences[i])]
           result == Merge(covered, keys)
<1>1. infos \in Seq(CallStackInfo)
  BY AnalysisAssumption
<1>2. /\ Grouping(sequences, Concurrent(infos))
      /\ Distinct(infos) => EachOnce(sequences)
  BY <1>1, PairsAre, CombineGroups
<1>3. /\ func_schedule_' = infos /\ combined' = sequences
      /\ covered' = result.old \o result.added
      /\ con_cov_up_' = Len(result.added)
  BY DEF Analysis
<1> HIDE DEF sequences
<1>4. keys \in Seq(Keys) /\ \A i \in DOMAIN keys : keys[i] # <<>>
  BY <1>2, KeysOf DEF Grouping
<1>5. CombinedKeys' = keys
  BY <1>3 DEF CombinedKeys
<1> HIDE DEF keys
<1>6. covered \in Seq(Keys)
  BY DEF AnalysisInv
<1>7. /\ result \in Results
      /\ BehavioursOf(result) = Behaviours(covered) \cup Behaviours(keys)
      /\ result.added # <<>> <=> BehavioursOf(result) # Behaviours(covered)
  BY <1>4, <1>6, MergeCovers
<1> HIDE DEF result
<1>8. result.old \in Seq(Keys) /\ result.added \in Seq(Keys)
  BY <1>7 DEF Results
<1>9. covered' \in Seq(Keys)
  BY <1>3, <1>8
<1>10. Behaviours(covered') = BehavioursOf(result)
  <2>1. Range(covered') = Range(result.old) \cup Range(result.added)
    BY <1>3, <1>8, RangeOfConcat
  <2>2. Behaviours(covered') = UNION {KeyPrefixes(t) : t \in Range(covered')}
    BY <1>9, BehavioursAre
  <2>3. /\ Behaviours(result.old) = UNION {KeyPrefixes(t) : t \in Range(result.old)}
        /\ Behaviours(result.added) = UNION {KeyPrefixes(t) : t \in Range(result.added)}
    BY <1>8, BehavioursAre
  <2> QED
    BY <2>1, <2>2, <2>3 DEF BehavioursOf
<1>11. con_cov_up_' > 0 <=> result.added # <<>>
  BY <1>3, <1>8
<1>12. AnalysisInv'
  BY <1>1, <1>2, <1>3, <1>9 DEF AnalysisInv
<1> QED
  BY <1>5, <1>7, <1>10, <1>11, <1>12

\* The invariant is inductive.
LEMMA AnalysisInvHolds == Spec => []AnalysisInv
<1>1. Init => AnalysisInv
  <2>1. Concurrent(<<>>) = {}
    BY RangeOfEmpty DEF Concurrent
  <2>2. Grouping(<<>>, {}) /\ EachOnce(<<>>)
    BY DEF Grouping, Sequences, EachOnce
  <2> SUFFICES ASSUME Init PROVE AnalysisInv
    OBVIOUS
  <2>3. func_schedule_ = <<>> /\ combined = <<>> /\ covered = <<>>
    BY DEF Init
  <2>4. Grouping(combined, Concurrent(func_schedule_)) /\ EachOnce(combined)
    BY <2>1, <2>2, <2>3
  <2>5. func_schedule_ \in Seq(CallStackInfo) /\ covered \in Seq(Keys)
    BY <2>3
  <2> QED
    BY <2>4, <2>5 DEF AnalysisInv
<1>2. AnalysisInv /\ [Next]_vars => AnalysisInv'
  <2>1. ASSUME AnalysisInv, Next
        PROVE  AnalysisInv'
    BY <2>1, AnalysisIs DEF Next
  <2>2. ASSUME AnalysisInv, UNCHANGED vars
        PROVE  AnalysisInv'
    BY <2>2 DEF AnalysisInv, vars
  <2> QED
    BY <2>1, <2>2
<1> QED
  BY <1>1, <1>2, PTL DEF Spec

\* The groups of a grouping of its pairs are the groups of the schedule.
LEMMA GroupsAre ==
  ASSUME AnalysisInv
  PROVE  CombinedIsGrouping
<1> DEFINE C == Concurrent(func_schedule_)
           infos == Range(func_schedule_)
           pairs == {Pair(L, G) : L \in {i \in infos : IsLifecycle(i)}, G \in infos}
           concurrent == {p \in pairs : is_concurrent(p.LCS, p.GCS)}
<1>1. Grouping(combined, C) /\ infos \subseteq CallStackInfo
  BY DEF AnalysisInv, Range
<1>2. concurrent = C
  <2>1. \A L, G \in CallStackInfo :
          /\ Pair(L, G) \in CallStackPairs
          /\ Pair(L, G).LCS = L /\ Pair(L, G).GCS = G
    BY DEF Pair, CallStackPairs
  <2>2. \A p \in CallStackPairs : p = Pair(p.LCS, p.GCS)
    BY DEF Pair, CallStackPairs
  <2>3. ASSUME NEW p \in concurrent
        PROVE  p \in C
    BY <1>1, <2>1, <2>3 DEF Concurrent
  <2>4. ASSUME NEW p \in C
        PROVE  p \in concurrent
    BY <2>2, <2>4 DEF Concurrent
  <2> QED
    BY <2>3, <2>4
<1>3. Groups = {{q \in C : SameGroup(q, p)} : p \in C}
  BY <1>2 DEF Groups, SameGroup
<1> HIDE DEF C
<1>4. ASSUME NEW i \in DOMAIN combined
      PROVE  Range(combined[i]) # {}
  <2>1. combined[i] \in Seq(CallStackPairs) /\ combined[i] # <<>>
    BY <1>1 DEF Grouping, Sequences
  <2>2. 1 \in DOMAIN combined[i]
    BY <2>1
  <2> QED
    BY <2>2 DEF Range
<1>5. ASSUME NEW i \in DOMAIN combined, NEW a \in Range(combined[i])
      PROVE  a \in C /\ Range(combined[i]) = {q \in C : SameGroup(q, a)}
  BY <1>1 DEF Grouping
<1>6. {Range(combined[i]) : i \in DOMAIN combined} \subseteq Groups
  BY <1>3, <1>4, <1>5
<1>7. Groups \subseteq {Range(combined[i]) : i \in DOMAIN combined}
  <2>1. SUFFICES ASSUME NEW p \in C
                 PROVE  {q \in C : SameGroup(q, p)}
                          \in {Range(combined[i]) : i \in DOMAIN combined}
    BY <1>3
  <2>2. PICK i \in DOMAIN combined : p \in Range(combined[i])
    BY <1>1 DEF Grouping
  <2>3. Range(combined[i]) = {q \in C : SameGroup(q, p)}
    BY <1>5, <2>2
  <2> QED
    BY <2>3
<1>8. ASSUME NEW i \in DOMAIN combined, NEW j \in DOMAIN combined, i # j
      PROVE  Range(combined[i]) # Range(combined[j])
  <2>1. PICK a : a \in Range(combined[i])
    BY <1>4
  <2>2. SameGroup(a, a)
    BY DEF SameGroup
  <2> QED
    BY <1>1, <1>8, <2>1, <2>2 DEF Grouping
<1>9. ASSUME NEW i \in DOMAIN combined,
             NEW j \in DOMAIN combined[i], NEW k \in DOMAIN combined[i], j < k
      PROVE  combined[i][j].GCS.start_time <= combined[i][k].GCS.start_time
  BY <1>1, <1>9 DEF Grouping, Ordered
<1>10. IsInjective(func_schedule_) =>
         \A i \in DOMAIN combined : IsInjective(combined[i])
  BY DEF AnalysisInv, EachOnce, Distinct, IsInjective
<1> QED
  BY <1>6, <1>7, <1>8, <1>9, <1>10 DEF CombinedIsGrouping

-----------------------------------------------------------------------------
(* Step 4 and prefixes                                                     *)

\* Neither of the sequences is a prefix of the other.
Incomparable(s, t) == ~is_prefix_of(s, t) /\ ~is_prefix_of(t, s)

\* A sequence is a prefix of itself, so that those of a vector without
\* prefixes are distinct, and its order does not matter.
LEMMA ApartIs ==
  ASSUME NEW q \in Seq(Keys)
  PROVE  Apart(q) <=> /\ Distinct(q)
                      /\ \A s, t \in Range(q) : s # t => ~is_prefix_of(s, t)
<1>1. \A i \in DOMAIN q : is_prefix_of(q[i], q[i])
  BY DEF is_prefix_of, Keys
<1>2. Apart(q) => Distinct(q)
  BY <1>1 DEF Apart, Distinct
<1>3. Apart(q) => \A s, t \in Range(q) : s # t => ~is_prefix_of(s, t)
  BY DEF Apart, Range
<1>4. ASSUME Distinct(q), \A s, t \in Range(q) : s # t => ~is_prefix_of(s, t)
      PROVE  Apart(q)
  BY <1>4 DEF Apart, Distinct, Range
<1> QED
  BY <1>2, <1>3, <1>4

\* Two such vectors make one, if no sequence of the one is comparable with one
\* of the other.
LEMMA ApartConcat ==
  ASSUME NEW q \in Seq(Keys), NEW r \in Seq(Keys), Apart(q), Apart(r),
         \A s \in Range(q), t \in Range(r) : Incomparable(s, t)
  PROVE  Apart(q \o r)
<1>1. \A s \in Range(q) : is_prefix_of(s, s)
  BY DEF is_prefix_of, Keys, Range
<1>2. Range(q) \cap Range(r) = {}
  BY <1>1 DEF Incomparable
<1>3. Distinct(q) /\ Distinct(r)
  BY ApartIs
<1>4. Distinct(q \o r)
  BY <1>2, <1>3, DistinctConcat
<1>5. q \o r \in Seq(Keys) /\ Range(q \o r) = Range(q) \cup Range(r)
  BY RangeOfConcat
<1>6. \A s, t \in Range(q \o r) : s # t => ~is_prefix_of(s, t)
  BY <1>5, ApartIs DEF Incomparable
<1> QED
  BY <1>4, <1>5, <1>6, ApartIs

\* Step 4 leaves no covered sequence that is comparable with a new one, in
\* whatever order they come: what is new to the covered sequences when its
\* turn comes stays so, for they only get fewer.
LEMMA MergeSeparates ==
  ASSUME NEW old \in Seq(Keys), NEW sequences \in Seq(Keys)
  PROVE  LET result == Merge(old, sequences)
         IN  /\ result \in Results
             /\ \A s \in Range(result.old), t \in Range(result.added) :
                  Incomparable(s, t)
             /\ Range(result.old) \subseteq Range(old)
             /\ Distinct(old) => Distinct(result.old)
             /\ Range(result.added) \subseteq Range(sequences)
             /\ Distinct(sequences) => Distinct(result.added)
<1>1. PICK loop :
        /\ loop[0] = [old |-> old, added |-> <<>>]
        /\ \A n \in 0..(Len(sequences) - 1) :
             loop[n + 1] = MergeOne(loop[n], sequences[n + 1])
        /\ loop[Len(sequences)] = Merge(old, sequences)
  BY MergeLoop
<1>2. /\ Len(sequences) \in Nat /\ DOMAIN sequences = 1..Len(sequences)
      /\ \A i \in 1..Len(sequences) : sequences[i] \in Keys
  OBVIOUS
<1> DEFINE First(n) == {sequences[i] : i \in 1..n}
    Separates(n) ==
      /\ loop[n] \in Results
      /\ \A s \in Range(loop[n].old), t \in Range(loop[n].added) :
           Incomparable(s, t)
      /\ Range(loop[n].old) \subseteq Range(old)
      /\ Distinct(old) => Distinct(loop[n].old)
      /\ Range(loop[n].added) \subseteq First(n)
      /\ Distinct(sequences) => Distinct(loop[n].added)
    T == {n \in Nat : n <= Len(sequences) => Separates(n)}
<1>3. Separates(0)
  <2>1. loop[0].old = old /\ loop[0].added = <<>> /\ loop[0] \in Results
    BY <1>1 DEF Results
  <2> QED
    BY <2>1, RangeOfEmpty DEF Distinct
<1>4. ASSUME NEW n \in 0..(Len(sequences) - 1), Separates(n)
      PROVE  Separates(n + 1)
  <2> DEFINE s == sequences[n + 1]
             left == EraseLoop(s, loop[n].old)
  <2>1. /\ n + 1 \in 1..Len(sequences) /\ 1..(n + 1) = (1..n) \cup {n + 1}
        /\ \A i \in 1..n : i \in 1..Len(sequences) /\ i # n + 1
    BY <1>2
  <2>2. s \in Keys
    BY <1>2, <2>1
  <2>3. First(n + 1) = First(n) \cup {s}
    BY <2>1
  <2>4. loop[n].old \in Seq(Keys) /\ loop[n].added \in Seq(Keys)
    BY <1>4 DEF Results
  <2>5. loop[n + 1] = MergeOne(loop[n], s)
    BY <1>1
  <2>6. Distinct(sequences) => s \notin First(n)
    BY <1>2, <2>1 DEF Distinct
  <2> HIDE DEF First, s
  <2>7. /\ left \in Seq(Keys)
        /\ Range(left) \subseteq Range(loop[n].old)
        /\ ~IsCovered(s, loop[n].old) => \A t \in Range(left) : Incomparable(t, s)
        /\ Distinct(loop[n].old) => Distinct(left)
    BY <2>2, <2>4, EraseLoopErases DEF Incomparable
  <2>8. /\ loop[n + 1].old = left
        /\ loop[n + 1].added = IF IsCovered(s, loop[n].old) THEN loop[n].added
                               ELSE Append(loop[n].added, s)
    BY <2>5 DEF MergeOne
  <2>9. loop[n + 1] \in Results
    BY <1>4, <2>2, <2>5, MergeOneType
  <2> HIDE DEF left
  <2>10. CASE IsCovered(s, loop[n].old)
    BY <1>4, <2>3, <2>7, <2>8, <2>9, <2>10
  <2>11. CASE ~IsCovered(s, loop[n].old)
    <3>1. loop[n + 1].added = Append(loop[n].added, s)
      BY <2>8, <2>11
    <3>2. Range(loop[n + 1].added) = Range(loop[n].added) \cup {s}
      BY <2>2, <2>4, <3>1, RangeOfAppend
    <3>3. Distinct(sequences) => Distinct(loop[n + 1].added)
      BY <1>4, <2>2, <2>4, <2>6, <3>1, DistinctAppend
    <3> QED
      BY <1>4, <2>3, <2>7, <2>8, <2>9, <2>11, <3>2, <3>3
  <2> QED
    BY <2>10, <2>11
<1> HIDE DEF Separates
<1>5. 0 \in T
  BY <1>3
<1>6. ASSUME NEW n \in Nat, n \in T
      PROVE  n + 1 \in T
  <2>1. n + 1 <= Len(sequences) => n \in 0..(Len(sequences) - 1) /\ Separates(n)
    BY <1>2, <1>6
  <2> QED
    BY <1>4, <2>1
<1> HIDE DEF T
<1>7. Len(sequences) \in T
  BY <1>2, <1>5, <1>6, SetInduction
<1>8. Separates(Len(sequences))
  BY <1>2, <1>7 DEF T
<1>9. First(Len(sequences)) = Range(sequences)
  BY <1>2 DEF Range
<1> HIDE DEF First
<1> QED
  BY <1>1, <1>8, <1>9 DEF Separates

\* One analysis, of a run whose own sequences are apart.
LEMMA AnalysisKeepsApart ==
  ASSUME NEW infos \in Schedules, Analysis(infos), AnalysisInv,
         Apart(covered), Apart(CombinedKeys')
  PROVE  Apart(covered')
<1> DEFINE sequences == Combine(Pairs(infos))
           keys == [i \in DOMAIN sequences |-> Key(sequences[i])]
           result == Merge(covered, keys)
<1>1. infos \in Seq(CallStackInfo)
  BY AnalysisAssumption
<1>2. Grouping(sequences, Concurrent(infos))
  BY <1>1, PairsAre, CombineGroups
<1>3. combined' = sequences /\ covered' = result.old \o result.added
  BY DEF Analysis
<1> HIDE DEF sequences
<1>4. keys \in Seq(Keys)
  BY <1>2, KeysOf DEF Grouping
<1>5. CombinedKeys' = keys
  BY <1>3 DEF CombinedKeys
<1> HIDE DEF keys
<1>6. covered \in Seq(Keys) /\ Apart(covered)
  BY DEF AnalysisInv
<1>7. /\ result \in Results
      /\ \A s \in Range(result.old), t \in Range(result.added) : Incomparable(s, t)
      /\ Range(result.old) \subseteq Range(covered)
      /\ Distinct(covered) => Distinct(result.old)
      /\ Range(result.added) \subseteq Range(keys)
      /\ Distinct(keys) => Distinct(result.added)
  BY <1>4, <1>6, MergeSeparates
<1> HIDE DEF result
<1>8. result.old \in Seq(Keys) /\ result.added \in Seq(Keys)
  BY <1>7 DEF Results
<1>9. Apart(result.old)
  BY <1>6, <1>7, <1>8, ApartIs
<1>10. Apart(keys)
  BY <1>5
<1>11. Apart(result.added)
  BY <1>4, <1>7, <1>8, <1>10, ApartIs
<1>12. Apart(covered')
  BY <1>3, <1>7, <1>8, <1>9, <1>11, ApartConcat
<1> QED
  BY <1>12

-----------------------------------------------------------------------------
(* The theorems                                                            *)

\* Whatever the order in which the call stacks arrive, step 3
\* (hook_communicator.cpp:43-99) makes one sequence of each group.
THEOREM CombinedCorrect == Spec => []CombinedIsGrouping
<1>1. AnalysisInv => CombinedIsGrouping
  BY GroupsAre
<1> QED
  BY <1>1, AnalysisInvHolds, PTL

\* An analysis covers what was covered before and what the run showed, and
\* nothing else: hook_communicator.cpp:105-128 erases only what it keeps in
\* another form.
THEOREM CoverageCorrect == Spec => CoverageGrowsByRun
<1>1. AnalysisInv /\ [Next]_vars =>
        [Behaviours(covered') = Behaviours(covered) \cup Behaviours(CombinedKeys')]_vars
  BY AnalysisIs DEF Next
<1> QED
  BY <1>1, AnalysisInvHolds, PTL DEF Spec, CoverageGrowsByRun

\* con_cov_up_ says truly whether a run is of interest.
THEOREM GainCorrect == Spec => GainIffNew
<1>1. AnalysisInv /\ [Next]_vars =>
        [con_cov_up_' > 0 <=> Behaviours(covered') # Behaviours(covered)]_vars
  BY AnalysisIs DEF Next
<1> QED
  BY <1>1, AnalysisInvHolds, PTL DEF Spec, GainIffNew

\* A run keeps the covered sequences free of prefixes (hook_communicator.hpp:45-46)
\* unless its own new sequences are prefixes of one another: that step 4 does
\* not compare these is the one way in which a prefix gets among them.
THEOREM OnlyOwnPrefixes == Spec => PrefixesAreOwn
<1>1. AnalysisInv /\ [Next]_vars =>
        [Apart(covered) /\ Apart(CombinedKeys') => Apart(covered')]_vars
  BY AnalysisKeepsApart DEF Next
<1> QED
  BY <1>1, AnalysisInvHolds, PTL DEF Spec, PrefixesAreOwn
=============================================================================
