--------------------------- MODULE MutatorProofs ---------------------------
(***************************************************************************)
(* Theorems about Mutator: the type of its variables, that InsertBytes()   *)
(* stays inside its buffer, and the sizes of mutants, for a Mutator alone  *)
(* and in the hands of a YamlMutator.  All of them rest on                 *)
(* a few lemmas about remainders and on one invariant: a limit is always a *)
(* multiple of the alignment.                                              *)
(*                                                                         *)
(* Then about YamlMutator: mutants keep the shape of the node, by          *)
(* induction over the levels of nodes and over the mutations.              *)
(*                                                                         *)
(* Then about WeightedChoice, by which a mutation and a seed are chosen:   *)
(* the walk along the weights, by induction over the sums of the first n.  *)
(***************************************************************************)
EXTENDS YamlMutator, WeightedChoice, SequenceRanges, FiniteSetTheorems

-----------------------------------------------------------------------------
(* Remainders                                                              *)

\* The remainder is below the divisor and no more than the number.
LEMMA RemainderBelow ==
    ASSUME NEW x \in Nat, NEW a \in Nat \ {0}
    PROVE  x % a \in 0..(a - 1) /\ x % a <= x
OBVIOUS

\* A number is a multiple of the divisor and the remainder.
LEMMA Division ==
    ASSUME NEW x \in Nat, NEW a \in Nat \ {0}
    PROVE  \E q \in Nat : x = a * q + (x % a)
OBVIOUS

\* A number below the divisor is its own remainder.
LEMMA OwnRemainder ==
    ASSUME NEW a \in Nat \ {0}, NEW r \in 0..(a - 1)
    PROVE  r % a = r
OBVIOUS

\* The remainder of such a sum.
LEMMA Remainder ==
    ASSUME NEW q \in Nat, NEW a \in Nat \ {0}, NEW r \in 0..(a - 1)
    PROVE  (a * q + r) % a = r
OBVIOUS

\* A multiple leaves no remainder.
LEMMA NoRemainder ==
    ASSUME NEW q \in Nat, NEW a \in Nat \ {0}
    PROVE  (a * q) % a = 0
OBVIOUS

\* Rounding down: what kept of RoundDownToRemove() leaves is aligned.
LEMMA RoundedDown ==
    ASSUME NEW x \in Nat, NEW a \in Nat \ {0}
    PROVE  (x - (x % a)) % a = 0
<1> DEFINE r == x % a
<1>1. PICK q \in Nat : x = a * q + r
  BY Division
<1>2. r \in Nat /\ a * q \in Nat
  BY RemainderBelow
<1> HIDE DEF r
<1>3. x - r = a * q
  BY <1>1, <1>2
<1>4. (x - r) % a = 0
  BY <1>3, NoRemainder
<1> QED
  BY <1>4 DEF r

\* Rounding up: the remainder is filled up to the alignment.
LEMMA RoundedUp ==
    ASSUME NEW x \in Nat, NEW a \in Nat \ {0}
    PROVE  (x + (a - (x % a))) % a = 0
<1> DEFINE r == x % a
<1>1. PICK q \in Nat : x = a * q + r
  BY Division
<1>2. r \in Nat /\ a * q \in Nat
  BY RemainderBelow
<1>3. a * (q + 1) = a * q + a
  OBVIOUS
<1> HIDE DEF r
<1>4. x + (a - r) = a * (q + 1)
  BY <1>1, <1>2, <1>3
<1>5. (x + (a - r)) % a = 0
  BY <1>4, NoRemainder
<1> QED
  BY <1>5 DEF r

\* A multiple is at least the divisor, and one divisor less is a multiple.
LEMMA Multiple ==
    ASSUME NEW x \in Nat \ {0}, NEW a \in Nat \ {0}, x % a = 0
    PROVE  x >= a /\ (x - a) % a = 0
<1>1. PICK q \in Nat : x = a * q + (x % a)
  BY Division
<1>2. x = a * q /\ q >= 1
  BY <1>1
<1>3. a * q = a * (q - 1) + a /\ q - 1 \in Nat /\ a * (q - 1) \in Nat
  BY <1>2
<1>4. x - a = a * (q - 1) /\ x >= a
  BY <1>2, <1>3
<1> QED
  BY <1>3, <1>4, NoRemainder

\* A difference that is not below zero does not wrap around.
LEMMA NoWrap ==
    ASSUME NEW x \in 0..SizeMax
    PROVE  Wrap(x + (SizeMax + 1)) = x
<1>1. x + (SizeMax + 1) = (SizeMax + 1) * 1 + x /\ SizeMax + 1 \in Nat \ {0}
  BY MutatorAssumption
<1>2. x \in 0..((SizeMax + 1) - 1)
  BY MutatorAssumption
<1> QED
  BY <1>1, <1>2, Remainder DEF Wrap

-----------------------------------------------------------------------------
(* The settings                                                            *)

\* set_max_len() and set_size_alignment() let no other limit pass.
LimitIsAligned ==
    max_len_ # Unlimited =>
      size_alignment_ # 0 /\ max_len_ % size_alignment_ = 0

\* What a call of Mutate() starts with, when it does not divide by zero.
Ready(data) ==
    MutatorTypeOK /\ LimitIsAligned /\ data \in 0..MaxSize

CanDivide == size_alignment_ # 0

\* The numbers at hand, and that no sum of them wraps around.
LEMMA Settings ==
    ASSUME MutatorTypeOK
    PROVE  /\ size_alignment_ \in Nat
           /\ max_len_ \in 0..SizeMax
           /\ SizeMax \in Nat /\ MaxSize \in Nat
           /\ kMaxInsertSize \in Nat \ {0} /\ kMaxEntrySize \in Nat \ {0}
           /\ MaxSize + kMaxInsertSize + size_alignment_ <= SizeMax
           /\ MaxSize + kMaxEntrySize <= SizeMax
<1>1. size_alignment_ \in Alignments \cup {1} /\ max_len_ \in Limits \cup {SizeMax}
  BY DEF MutatorTypeOK, Unlimited
<1> QED
  BY <1>1, MutatorAssumption, SizesFit DEF MutatorTypeOK

-----------------------------------------------------------------------------
(* Inserting                                                               *)

\* RoundUpToAdd() stays below the limit, and what it returns makes the size a
\* multiple of the alignment.
LEMMA RoundUp ==
    ASSUME NEW data, Ready(data), CanDivide, data < max_len_,
           NEW n \in 1..kMaxInsertSize
    PROVE  /\ RoundUpToAdd(data, n) \in Nat
           /\ RoundUpToAdd(data, n) <= n + size_alignment_ - 1
           /\ data + RoundUpToAdd(data, n) <= max_len_
           /\ (data + RoundUpToAdd(data, n)) % size_alignment_ = 0
<1> DEFINE a == size_alignment_
           r == (data + n) % a
           rounded == IF r # 0 THEN n + a - r ELSE n
<1>1. /\ a \in Nat \ {0} /\ max_len_ \in Nat /\ data \in Nat /\ n \in Nat
      /\ n >= 1 /\ n <= kMaxInsertSize /\ kMaxInsertSize \in Nat
      /\ MaxSize \in Nat /\ SizeMax \in Nat /\ data <= MaxSize
      /\ MaxSize + kMaxInsertSize + a <= SizeMax
  BY Settings DEF Ready, CanDivide
<1>2. r \in 0..(a - 1)
  <2>1. data + n \in Nat
    BY <1>1
  <2> QED
    BY <1>1, <2>1, RemainderBelow
<1>3. (data + rounded) % a = 0
  <2>1. CASE r = 0
    BY <2>1
  <2>2. CASE r # 0
    <3>1. ((data + n) + (a - r)) % a = 0
      <4>1. data + n \in Nat
        BY <1>1
      <4> QED
        BY <1>1, <4>1, RoundedUp
    <3>2. (data + n) + (a - r) = data + (n + a - r)
      BY <1>1, <1>2
    <3>3. rounded = n + a - r
      BY <2>2
    <3> QED
      BY <3>1, <3>2, <3>3
  <2> QED
    BY <2>1, <2>2
<1>4. RoundUpToAdd(data, n) =
        IF data >= max_len_ THEN 0
        ELSE IF data + rounded > max_len_ THEN max_len_ - data
        ELSE rounded
  BY DEF RoundUpToAdd
<1> HIDE DEF r
<1>5. rounded \in Nat /\ rounded <= n + a - 1
  BY <1>1, <1>2
<1> HIDE DEF rounded, a
<1>6. CASE data + rounded > max_len_
  <2>1. RoundUpToAdd(data, n) = max_len_ - data
    BY <1>1, <1>4, <1>6
  <2>2. max_len_ < SizeMax
    BY <1>1, <1>5, <1>6
  <2>3. max_len_ % a = 0
    BY <1>1, <2>2 DEF Ready, LimitIsAligned, Unlimited, a
  <2>4. data + (max_len_ - data) = max_len_
    BY <1>1
  <2> QED
    BY <1>1, <1>5, <1>6, <2>1, <2>3, <2>4 DEF a
<1>7. CASE ~(data + rounded > max_len_)
  <2>1. RoundUpToAdd(data, n) = rounded
    BY <1>1, <1>4, <1>7
  <2> QED
    BY <1>1, <1>3, <1>5, <1>7, <2>1 DEF a
<1> QED
  BY <1>6, <1>7

\* InsertBytes() inserts what fits into its buffer and aligns the size, or the
\* alignment is greater than the buffer.
LEMMA Inserted ==
    ASSUME NEW data, Ready(data), CanDivide, data < max_len_,
           NEW n \in 1..kMaxInsertSize
    PROVE  \/ /\ BytesToInsert(data, n) > kMaxInsertSize
              /\ size_alignment_ > kMaxInsertSize
           \/ /\ BytesToInsert(data, n) \in 0..kMaxInsertSize
              /\ data + BytesToInsert(data, n) <= max_len_
              /\ (data + BytesToInsert(data, n)) % size_alignment_ = 0
<1> DEFINE a == size_alignment_
           t == RoundUpToAdd(data, n)
<1>1. /\ a \in Nat \ {0} /\ max_len_ \in Nat /\ data \in Nat /\ n \in Nat
      /\ n >= 1 /\ n <= kMaxInsertSize /\ kMaxInsertSize \in Nat \ {0}
      /\ MaxSize \in Nat /\ SizeMax \in Nat
      /\ MaxSize + kMaxInsertSize + a <= SizeMax
  BY Settings DEF Ready, CanDivide
<1>2. /\ t \in Nat /\ t <= n + a - 1 /\ data + t <= max_len_
      /\ (data + t) % a = 0
  BY RoundUp
<1>3. BytesToInsert(data, n) = IF t > kMaxInsertSize THEN Wrap(t + SizeMax + 1 - a)
                                               ELSE t
  BY DEF BytesToInsert
<1> HIDE DEF t, a
<1>4. CASE t <= kMaxInsertSize
  <2>1. BytesToInsert(data, n) = t
    BY <1>1, <1>2, <1>3, <1>4
  <2> QED
    BY <1>1, <1>2, <1>4, <2>1 DEF a
<1>5. CASE t > kMaxInsertSize /\ t >= a
  <2>1. t - a \in 0..kMaxInsertSize /\ t - a \in 0..SizeMax
    BY <1>1, <1>2, <1>5
  <2>2. t + SizeMax + 1 - a = (t - a) + (SizeMax + 1)
    BY <1>1, <1>2
  <2>3. BytesToInsert(data, n) = t - a
    BY <1>3, <1>5, <2>1, <2>2, NoWrap
  <2>4. data + t \in Nat \ {0} /\ data + (t - a) = (data + t) - a
    BY <1>1, <1>2, <1>5
  <2>5. ((data + t) - a) % a = 0
    BY <1>1, <1>2, <2>4, Multiple
  <2>6. data + (t - a) <= max_len_
    BY <1>1, <1>2, <2>1
  <2> QED
    BY <2>1, <2>3, <2>4, <2>5, <2>6 DEF a
<1>6. CASE t > kMaxInsertSize /\ t < a
  <2> DEFINE w == t + SizeMax + 1 - a
  <2>1. w \in Nat /\ w <= SizeMax /\ w > kMaxInsertSize
    BY <1>1, <1>2, <1>6
  <2>2. w = (SizeMax + 1) * 0 + w /\ w \in 0..((SizeMax + 1) - 1)
    BY <1>1, <2>1
  <2>3. SizeMax + 1 \in Nat \ {0}
    BY <1>1
  <2> HIDE DEF w
  <2>4. w % (SizeMax + 1) = w
    BY <1>1, <2>1, <2>2, <2>3
  <2>5. BytesToInsert(data, n) = w
    BY <1>3, <1>6, <2>4 DEF w, Wrap
  <2> QED
    BY <1>1, <1>2, <1>6, <2>1, <2>5 DEF a
<1> QED
  BY <1>1, <1>2, <1>4, <1>5, <1>6

-----------------------------------------------------------------------------
(* Erasing                                                                 *)

\* EraseBytes() leaves a size that is aligned and not greater than it was; and
\* if the limit is not zero, neither above it nor zero.
LEMMA Erased ==
    ASSUME NEW data, Ready(data), CanDivide, data > size_alignment_,
           NEW n \in 1..(data \div 2), RoundDownToRemove(data, n) # 0,
           NEW rest, rest = data - RoundDownToRemove(data, n)
    PROVE  /\ rest \in 0..data
           /\ max_len_ > 0 => rest > 0 /\ rest <= max_len_
           /\ rest % size_alignment_ = 0
<1> DEFINE a == size_alignment_
           kept == data - n
           result == kept - (kept % a)
<1>1. /\ a \in Nat \ {0} /\ max_len_ \in Nat /\ data \in Nat /\ n \in Nat
      /\ n >= 1 /\ n < data /\ SizeMax \in Nat /\ data < SizeMax
  BY Settings DEF Ready, CanDivide
<1>2. kept \in Nat /\ kept < data
  BY <1>1
<1> HIDE DEF a, kept
<1>3. result \in Nat /\ result <= kept /\ result % a = 0
  <2>1. kept % a \in 0..(a - 1) /\ kept % a <= kept
    BY <1>1, <1>2, RemainderBelow
  <2>2. (kept - (kept % a)) % a = 0
    BY <1>1, <1>2, RoundedDown
  <2> QED
    BY <1>1, <1>2, <2>1, <2>2
<1>4. RoundDownToRemove(data, n) =
        IF result > max_len_ THEN data - max_len_
        ELSE IF result = 0 THEN data - a
        ELSE data - result
  BY <1>1 DEF RoundDownToRemove, a, kept
<1> HIDE DEF result
<1>5. max_len_ < data => max_len_ % a = 0
  BY <1>1 DEF Ready, LimitIsAligned, Unlimited, a
<1>6. CASE result > max_len_
  <2>1. rest = max_len_
    BY <1>1, <1>2, <1>3, <1>4, <1>6
  <2> QED
    BY <1>1, <1>2, <1>3, <1>5, <1>6, <2>1 DEF a
<1>7. CASE result <= max_len_ /\ result = 0
  <2>1. rest = a /\ a < data
    BY <1>1, <1>4, <1>7 DEF a
  <2>2. a % a = 0
    BY <1>1
  <2>3. max_len_ > 0 => a <= max_len_
    BY <1>1, <1>5, <2>1, Multiple
  <2> QED
    BY <1>1, <2>1, <2>2, <2>3 DEF a
<1>8. CASE result <= max_len_ /\ result # 0
  <2>1. rest = result
    BY <1>1, <1>2, <1>3, <1>4, <1>8
  <2> QED
    BY <1>1, <1>2, <1>3, <1>8, <2>1 DEF a
<1> QED
  BY <1>1, <1>3, <1>6, <1>7, <1>8

-----------------------------------------------------------------------------
(* One call of Mutate()                                                    *)

\* Only a strategy's own knobs are chosen, whatever the weights.
LEMMA Chosen ==
    ASSUME NEW ids, NEW id \in Choose(ids)
    PROVE  id \in ids
BY DEF Choose

\* What a strategy may do, by the size.
LEMMA Strategies ==
    ASSUME NEW data, Ready(data), NEW id \in Choose(Strategy(data))
    PROVE  /\ id \in strat3_
           /\ data >= max_len_ =>
                id \notin {"InsertBytes", "InsertFromDictionary"}
           /\ data > max_len_ => id = "EraseBytes"
<1>1. id \in Strategy(data)
  BY Chosen
<1>2. max_len_ \in Nat /\ data \in Nat
  BY Settings DEF Ready
<1> QED
  BY <1>1, <1>2 DEF Strategy, strat1_, strat2_, strat3_

\* What one call leaves behind, with any data.
LEMMA SizeAfter ==
    ASSUME NEW data, MutatorTypeOK, LimitIsAligned, data \in 0..MaxSize,
           Mutate(data)
    PROVE  /\ size' \in 0..SizeMax
           /\ fault' \in {"none", "overrun", "divided"}
           /\ fault' = "overrun" => size_alignment_ > kMaxInsertSize
           /\ fault' = "divided" => size_alignment_ = 0
           /\ did' \in strat3_ \cup {"none"}
           /\ MutantSizeIsRight(data)
<1>0. Ready(data)
  BY DEF Ready
<1>1. /\ size_alignment_ \in Nat /\ max_len_ \in 0..SizeMax
      /\ data \in Nat /\ SizeMax \in Nat /\ MaxSize \in Nat
      /\ kMaxInsertSize \in Nat \ {0} /\ kMaxEntrySize \in Nat \ {0}
      /\ MaxSize + kMaxInsertSize + size_alignment_ <= SizeMax
      /\ MaxSize + kMaxEntrySize <= SizeMax
      /\ data <= MaxSize
  BY Settings
<1>2. fault = "none"
  BY DEF Mutate
<1>3. PICK id \in Choose(Strategy(data)) :
        IF DividesByZero(id, data)
        THEN fault' = "divided" /\ did' = "none" /\ size' = data
        ELSE \/ Apply(id, data) /\ did' = id
             \/ /\ MayRefuse(id, data)
                /\ did' = "none" /\ size' = data /\ UNCHANGED fault
  BY DEF Mutate
<1>4. /\ id \in strat3_
      /\ data >= max_len_ => id \notin {"InsertBytes", "InsertFromDictionary"}
      /\ data > max_len_ => id = "EraseBytes"
  BY <1>0, Strategies
<1>d. CASE /\ DividesByZero(id, data)
           /\ fault' = "divided" /\ did' = "none" /\ size' = data
  BY <1>1, <1>2, <1>d DEF MutantSizeIsRight, DividesByZero
<1>5. CASE did' = "none" /\ size' = data /\ UNCHANGED fault
  BY <1>1, <1>2, <1>5 DEF MutantSizeIsRight
<1>6. CASE /\ ~DividesByZero(id, data)
           /\ id = "EraseBytes" /\ did' = id /\ EraseBytes(data)
  <2>1. PICK n \in 1..(data \div 2) :
          /\ RoundDownToRemove(data, n) # 0
          /\ size' = data - RoundDownToRemove(data, n)
    BY <1>6 DEF EraseBytes
  <2>2. data > size_alignment_ /\ UNCHANGED fault
    BY <1>6 DEF EraseBytes
  <2>c. CanDivide
    BY <1>1, <1>6, <2>2 DEF DividesByZero, CanDivide
  <2>3. /\ size' \in 0..data
        /\ max_len_ > 0 => size' > 0 /\ size' <= max_len_
        /\ size' % size_alignment_ = 0
    BY <1>0, <2>1, <2>2, <2>c, Erased
  <2>4. did' # "InsertFromDictionary" /\ size' \in Nat
    BY <1>1, <1>6, <2>3
  <2>5. MutantSizeIsRight(data)
    <3>1. did' # "none" /\ data > max_len_ /\ max_len_ > 0 => size' <= max_len_
      BY <2>3
    <3>2. data <= max_len_ => size' <= max_len_ + 0
      BY <1>1, <2>2, <2>3, <2>4
    <3>3. data > 0 /\ max_len_ > 0 => size' > 0
      BY <2>3
    <3> QED
      BY <2>3, <2>4, <3>1, <3>2, <3>3 DEF MutantSizeIsRight
  <2> QED
    BY <1>1, <1>2, <1>4, <1>6, <2>2, <2>3, <2>5
<1>7. CASE /\ did' = id /\ size' = data /\ UNCHANGED fault
           /\ \/ id \in {"FlipBit", "SwapBytes", "ChangeByte"} /\ data > 0
              \/ id = "OverwriteFromDictionary"
  BY <1>1, <1>2, <1>4, <1>7 DEF MutantSizeIsRight
<1>8. CASE /\ ~DividesByZero(id, data)
           /\ id = "InsertBytes" /\ did' = id /\ InsertBytes(data)
  <2>1. data < max_len_
    BY <1>1, <1>4, <1>8
  <2>c. CanDivide
    BY <1>8 DEF DividesByZero, CanDivide
  <2>2. PICK n \in 1..kMaxInsertSize :
          IF BytesToInsert(data, n) > kMaxInsertSize
          THEN fault' = "overrun" /\ size' = data
          ELSE size' = data + BytesToInsert(data, n) /\ UNCHANGED fault
    BY <1>8 DEF InsertBytes
  <2>3. CASE BytesToInsert(data, n) > kMaxInsertSize
    <3>1. size_alignment_ > kMaxInsertSize
      BY <1>0, <1>1, <2>1, <2>3, <2>c, Inserted
    <3> QED
      BY <1>1, <1>4, <1>8, <2>1, <2>2, <2>3, <3>1 DEF MutantSizeIsRight
  <2>4. CASE ~(BytesToInsert(data, n) > kMaxInsertSize)
    <3>1. /\ BytesToInsert(data, n) \in Nat
          /\ size' = data + BytesToInsert(data, n)
          /\ size' <= max_len_
          /\ size' % size_alignment_ = 0
      BY <1>0, <2>1, <2>2, <2>4, <2>c, Inserted
    <3> QED
      BY <1>1, <1>2, <1>4, <1>8, <2>1, <2>2, <2>4, <3>1
      DEF MutantSizeIsRight
  <2> QED
    BY <2>3, <2>4
<1>9. CASE /\ id = "InsertFromDictionary" /\ did' = id
           /\ InsertFromDictionary(data)
  <2>1. data < max_len_
    BY <1>1, <1>4, <1>9
  <2>2. PICK n \in dictionary_ : size' = data + n
    BY <1>9 DEF InsertFromDictionary
  <2>3. n \in Nat /\ n <= kMaxEntrySize /\ UNCHANGED fault
    BY <1>1, <1>9 DEF InsertFromDictionary, MutatorTypeOK
  <2> QED
    BY <1>1, <1>2, <1>4, <1>9, <2>1, <2>2, <2>3 DEF MutantSizeIsRight
<1> QED
  BY <1>3, <1>d, <1>5, <1>6, <1>7, <1>8, <1>9
  DEF Apply, ChangeBytes, OverwriteFromDictionary

-----------------------------------------------------------------------------
(* The theorems                                                            *)

\* What the theorems rest on.
MutatorInv == MutatorTypeOK /\ LimitIsAligned /\ InsertFits

\* Of the Mutator that a YamlMutator has: nobody else sets it.
OwnMutator ==
    seed # NoCorpus =>
      /\ size_alignment_ = 1 /\ max_len_ = Unlimited
      /\ fault = "none"
      /\ did # "none" => size > 0

\* They hold at the start: no limit is set.
LEMMA InitInv == Init => MutatorInv /\ OwnMutator
<1> SUFFICES ASSUME Init
             PROVE  MutatorInv /\ OwnMutator
  OBVIOUS
<1>0. MutatorInit
  BY DEF Init
<1>1. size \in 0..SizeMax
  BY <1>0, MutatorAssumption, SizesFit DEF MutatorInit
<1>2. dictionary_ \subseteq 0..kMaxEntrySize
  BY <1>0, MutatorAssumption DEF MutatorInit
<1>3. knobs_ \in [strat3_ -> 0..255]
  BY <1>0 DEF MutatorInit
<1> QED
  BY <1>0, <1>1, <1>2, <1>3
  DEF MutatorInit, MutatorInv, MutatorTypeOK, LimitIsAligned, InsertFits,
      OwnMutator

\* Mutate() keeps the first, for any data.
LEMMA MutateInv ==
    ASSUME MutatorInv, NEW data \in Nat, Mutate(data)
    PROVE  MutatorInv' /\ MutantSizeIsRight(data)
<1>1. MutatorTypeOK /\ LimitIsAligned /\ data \in 0..MaxSize
  BY MutatorAssumption DEF MutatorInv, Mutate
<1>2. UNCHANGED <<size_alignment_, max_len_, dictionary_, knobs_>>
  BY DEF Mutate, settings
<1>3. /\ size' \in 0..SizeMax
      /\ fault' \in {"none", "overrun", "divided"}
      /\ fault' = "overrun" => size_alignment_ > kMaxInsertSize
      /\ did' \in strat3_ \cup {"none"}
      /\ MutantSizeIsRight(data)
  BY <1>1, SizeAfter
<1>4. MutatorTypeOK'
  BY <1>2, <1>3 DEF MutatorInv, MutatorTypeOK
<1>5. LimitIsAligned'
  BY <1>2 DEF MutatorInv, LimitIsAligned
<1>6. InsertFits'
  BY <1>2, <1>3 DEF InsertFits
<1> QED
  BY <1>3, <1>4, <1>5, <1>6 DEF MutatorInv

\* And so do the weights, whoever sets them.
LEMMA SetKnobsInv ==
    ASSUME MutatorInv, SetKnobs, did' \in strat3_ \cup {"none"}
    PROVE  MutatorInv'
<1>1. knobs_' \in [strat3_ -> 0..255]
  BY DEF SetKnobs
<1> QED
  BY <1>1
  DEF SetKnobs, MutatorInv, MutatorTypeOK, LimitIsAligned, InsertFits

\* And every setter, and a caller who turns to other data.
LEMMA ConfigureInv == MutatorInv /\ Configure => MutatorInv'
<1> SUFFICES ASSUME MutatorInv, Configure
             PROVE  MutatorInv'
  OBVIOUS
<1> USE DEF MutatorInv, MutatorTypeOK
<1>1. did' = "none" /\ fault = "none"
  BY DEF Configure
<1>2. ASSUME NEW a \in Alignments, set_size_alignment(a)
      PROVE  MutatorInv'
  BY <1>1, <1>2 DEF set_size_alignment, LimitIsAligned, InsertFits
<1>3. ASSUME NEW m \in Limits \cup {Unlimited}, set_max_len(m)
      PROVE  MutatorInv'
  BY <1>1, <1>3 DEF set_max_len, LimitIsAligned, InsertFits
<1>4. ASSUME add_dictionary(kMaxEntrySize)
      PROVE  MutatorInv'
  <2>1. dictionary_' \subseteq 0..kMaxEntrySize
    BY <1>4 DEF add_dictionary
  <2> QED
    BY <1>1, <1>4, <2>1 DEF add_dictionary, LimitIsAligned, InsertFits
<1>5. ASSUME SetKnobs
      PROVE  MutatorInv'
  BY <1>1, <1>5, SetKnobsInv
<1>6. ASSUME TakeData
      PROVE  MutatorInv'
  <2>1. size' \in 0..SizeMax
    BY <1>6, MutatorAssumption, SizesFit DEF TakeData
  <2> QED
    BY <1>1, <1>6, <2>1 DEF TakeData, settings, LimitIsAligned, InsertFits
<1> QED
  BY <1>2, <1>3, <1>4, <1>5, <1>6 DEF Configure

\* A Mutator in the hands of a YamlMutator keeps both: its settings are the
\* first ones, by which every size may be rounded.
LEMMA ScalarInv ==
    ASSUME MutatorInv, OwnMutator, seed # NoCorpus,
           NEW bytes \in ScalarSizes, Mutate(bytes), UNCHANGED seed
    PROVE  MutatorInv' /\ OwnMutator'
<1>1. bytes \in Nat /\ bytes > 0
  BY DEF ScalarSizes
<1>2. MutatorInv' /\ MutantSizeIsRight(bytes)
  BY <1>1, MutateInv
<1>3. /\ size_alignment_ = 1 /\ max_len_ = SizeMax
      /\ SizeMax > 0 /\ kMaxInsertSize > 0
  BY MutatorAssumption DEF OwnMutator, Unlimited
<1>4. UNCHANGED <<size_alignment_, max_len_>>
  BY DEF Mutate, settings
<1>5. /\ fault' \in {"none", "overrun", "divided"}
      /\ fault' = "overrun" => size_alignment_ > kMaxInsertSize
      /\ fault' = "divided" => size_alignment_ = 0
  <2>1. MutatorTypeOK /\ LimitIsAligned /\ bytes \in 0..MaxSize
    BY <1>1, MutatorAssumption DEF MutatorInv, Mutate
  <2> QED
    BY <2>1, SizeAfter
<1>6. fault' = "none"
  BY <1>3, <1>5, MutatorAssumption
<1>7. size' > 0
  BY <1>1, <1>2, <1>3 DEF MutantSizeIsRight
<1> QED
  BY <1>2, <1>3, <1>4, <1>6, <1>7 DEF OwnMutator, Unlimited

\* Doing nothing to it keeps both.
LEMMA StutterInv ==
    ASSUME MutatorInv, OwnMutator, UNCHANGED <<mutatorVars, seed>>
    PROVE  MutatorInv' /\ OwnMutator'
BY DEF MutatorInv, MutatorTypeOK, LimitIsAligned, InsertFits, OwnMutator,
       mutatorVars, settings

\* Every step keeps both.
LEMMA NextInv ==
    MutatorInv /\ OwnMutator /\ [Next]_vars => (MutatorInv /\ OwnMutator)'
<1> SUFFICES ASSUME MutatorInv, OwnMutator, [Next]_vars
             PROVE  MutatorInv' /\ OwnMutator'
  OBVIOUS
<1>1. CASE seed = NoCorpus /\ Mutate(size) /\ UNCHANGED seed
  <2>1. size \in Nat
    BY DEF MutatorInv, MutatorTypeOK
  <2> QED
    BY <1>1, <2>1, MutateInv DEF OwnMutator
<1>2. CASE seed = NoCorpus /\ Configure /\ UNCHANGED seed
  BY <1>2, ConfigureInv DEF OwnMutator
<1>3. CASE API_mutate
  <2>1. SetKnobs /\ UNCHANGED <<seed, did>>
    BY <1>3 DEF API_mutate
  <2>2. MutatorInv'
    BY <2>1, SetKnobsInv DEF MutatorInv, MutatorTypeOK
  <2> QED
    BY <2>1, <2>2 DEF OwnMutator, SetKnobs
<1>4. CASE mutate_once
  <2>1. UNCHANGED seed
    BY <1>4 DEF mutate_once
  <2>2. ASSUME NEW bytes \in ScalarSizes, Mutate(bytes)
        PROVE  MutatorInv' /\ OwnMutator'
    <3>1. CASE seed = NoCorpus
      <4>1. bytes \in Nat
        BY DEF ScalarSizes
      <4> QED
        BY <2>1, <2>2, <3>1, <4>1, MutateInv DEF OwnMutator
    <3>2. CASE seed # NoCorpus
      BY <2>1, <2>2, <3>2, ScalarInv
    <3> QED
      BY <3>1, <3>2
  <2>3. CASE UNCHANGED mutatorVars
    BY <2>1, <2>3, StutterInv
  <2> QED
    BY <1>4, <2>2, <2>3 DEF mutate_once
<1>5. CASE UNCHANGED vars
  BY <1>5, StutterInv DEF vars
<1> QED
  BY <1>1, <1>2, <1>3, <1>4, <1>5 DEF Next

\* The invariant of the mutator.
THEOREM MutatorInvariant == Spec => [](MutatorInv /\ OwnMutator)
BY InitInv, NextInv, PTL DEF Spec

\* Settings, sizes and the dictionary stay what they are meant to be: no size
\* wraps around, whatever is set and mutated in whatever order.
THEOREM TypeCorrect == Spec => []MutatorTypeOK
<1>1. MutatorInv => MutatorTypeOK
  BY DEF MutatorInv
<1> QED
  BY MutatorInvariant, <1>1, PTL

\* InsertBytes() stays inside its buffer for every alignment up to the size
\* of the buffer (mutator.cc:88-99); and no number or truth value that a
\* YamlMutator gives to its Mutator makes it write behind the buffer or divide
\* by zero, or comes back without bytes, whatever the weights
\* (yaml_mutator.hpp:69-88).
THEOREM BytesAlwaysFit == Spec => []BytesFit
<1>1. MutatorInv /\ OwnMutator => BytesFit
  BY DEF MutatorInv, OwnMutator, BytesFit
<1> QED
  BY MutatorInvariant, <1>1, PTL

\* Every call of Mutate() leaves a size within the limit, aligned and not zero
\* with the two exceptions that MutantSizeIsRight names, an entry of the
\* dictionary inserted past the limit and a limit of zero: for all limits and
\* alignments that fit each other (mutator.cc:84-194).
THEOREM SizesOfMutants == Spec => MutantSizes
<1>1. MutatorInv => [\A data \in {size} \cup ScalarSizes :
                       Mutate(data) => MutantSizeIsRight(data)]_mutatorVars
  <2> SUFFICES ASSUME MutatorInv, NEW data \in {size} \cup ScalarSizes,
                      Mutate(data)
               PROVE  MutantSizeIsRight(data)
    OBVIOUS
  <2>1. data \in Nat
    BY DEF MutatorInv, MutatorTypeOK, ScalarSizes
  <2> QED
    BY <2>1, MutateInv
<1> QED
  BY MutatorInvariant, <1>1, PTL DEF MutantSizes

-----------------------------------------------------------------------------
(* Nodes of YAML, level by level                                           *)

\* Nodes is what its definition says: such a function exists, for each value
\* follows from those before.
LEMMA NodesAre ==
    Nodes = [n \in Nat |-> IF n = 0 THEN {} ELSE NodesOver(Nodes[n - 1])]
<1> DEFINE UpTo(g, n) == g = [i \in 0..n |-> IF i = 0 THEN {}
                                             ELSE NodesOver(g[i - 1])]
           T == {n \in Nat : \E g : UpTo(g, n)}
           Agreed == {i \in Nat : \A n, m \in Nat : \A g, h :
                        UpTo(g, n) /\ UpTo(h, m) /\ i <= n /\ i <= m => g[i] = h[i]}
<1>1. 0 \in T
  <2>1. UpTo([i \in 0..0 |-> {}], 0)
    OBVIOUS
  <2> QED
    BY <2>1
<1>2. ASSUME NEW n \in Nat, n \in T
      PROVE  n + 1 \in T
  <2>1. PICK g : UpTo(g, n)
    BY <1>2
  <2> DEFINE h == [i \in 0..(n + 1) |-> IF i = n + 1 THEN NodesOver(g[n]) ELSE g[i]]
  <2>2. ASSUME NEW i \in 0..(n + 1)
        PROVE  h[i] = IF i = 0 THEN {} ELSE NodesOver(h[i - 1])
    <3>1. CASE i = n + 1
      <4>1. n \in 0..(n + 1) /\ n # n + 1 /\ i # 0 /\ i - 1 = n
        BY <3>1
      <4>2. h[i - 1] = g[n] /\ h[i] = NodesOver(g[n])
        BY <3>1, <4>1
      <4> QED
        BY <4>1, <4>2
    <3>2. CASE i \in 0..n
      <4>1. h[i] = g[i] /\ (i # 0 => i - 1 \in 0..(n + 1) /\ i - 1 # n + 1)
        BY <3>2
      <4>2. i # 0 => h[i - 1] = g[i - 1]
        BY <4>1
      <4>3. g[i] = IF i = 0 THEN {} ELSE NodesOver(g[i - 1])
        BY <2>1, <3>2
      <4> QED
        BY <4>1, <4>2, <4>3
    <3> QED
      BY <3>1, <3>2
  <2> HIDE DEF h
  <2>3. h = [i \in 0..(n + 1) |-> IF i = 0 THEN {} ELSE NodesOver(h[i - 1])]
    BY <2>2 DEF h
  <2> QED
    BY <2>3
<1>3. 0 \in Agreed
  <2>1. ASSUME NEW n \in Nat, NEW g, UpTo(g, n)
        PROVE  g[0] = {}
    <3>1. 0 \in 0..n
      OBVIOUS
    <3> QED
      BY <2>1, <3>1
  <2> HIDE DEF UpTo
  <2> QED
    BY <2>1
<1>4. ASSUME NEW i \in Nat, i \in Agreed
      PROVE  i + 1 \in Agreed
  <2> SUFFICES ASSUME NEW n \in Nat, NEW m \in Nat, NEW g, NEW h,
                      UpTo(g, n), UpTo(h, m), i + 1 <= n, i + 1 <= m
               PROVE  g[i + 1] = h[i + 1]
    OBVIOUS
  <2>1. g[i] = h[i]
    <3>1. i <= n /\ i <= m
      OBVIOUS
    <3> HIDE DEF UpTo
    <3> QED
      BY <1>4, <3>1
  <2>2. i + 1 \in 0..n /\ i + 1 \in 0..m /\ i + 1 # 0 /\ (i + 1) - 1 = i
    OBVIOUS
  <2>3. g[i + 1] = NodesOver(g[i]) /\ h[i + 1] = NodesOver(h[i])
    BY <2>2
  <2> QED
    BY <2>1, <2>3
<1> DEFINE G(n) == CHOOSE g : UpTo(g, n)
           f == [n \in Nat |-> G(n)[n]]
<1> HIDE DEF T, Agreed, UpTo
<1>5. /\ \A n \in Nat : n \in T
      /\ \A i \in Nat : i \in Agreed
  <2>1. Nat \subseteq T
    BY <1>1, <1>2, SetInduction
  <2>2. Nat \subseteq Agreed
    BY <1>3, <1>4, SetInduction
  <2> QED
    BY <2>1, <2>2
<1>6. ASSUME NEW n \in Nat
      PROVE  UpTo(G(n), n)
  <2>1. \E g : UpTo(g, n)
    BY <1>5 DEF T
  <2> QED
    BY <2>1
<1> HIDE DEF G
<1>7. ASSUME NEW n \in Nat
      PROVE  f[n] = IF n = 0 THEN {} ELSE NodesOver(f[n - 1])
  <2>1. G(n)[n] = IF n = 0 THEN {} ELSE NodesOver(G(n)[n - 1])
    BY <1>6 DEF UpTo
  <2>2. ASSUME n # 0
        PROVE  G(n)[n - 1] = G(n - 1)[n - 1]
    <3>1. n - 1 \in Nat /\ n - 1 <= n /\ n - 1 <= n - 1
      BY <2>2
    <3>2. n - 1 \in Agreed /\ UpTo(G(n), n) /\ UpTo(G(n - 1), n - 1)
      BY <1>5, <1>6, <3>1
    <3> QED
      BY <3>1, <3>2 DEF Agreed
  <2>3. n # 0 => n - 1 \in Nat
    OBVIOUS
  <2> QED
    BY <2>1, <2>2, <2>3
<1> HIDE DEF f
<1>8. f = [n \in Nat |-> IF n = 0 THEN {} ELSE NodesOver(f[n - 1])]
  BY <1>7 DEF f
<1> QED
  BY <1>8, Zenon DEF Nodes

LEMMA NodesByLevel ==
    /\ Nodes[0] = {}
    /\ \A n \in Nat : Nodes[n + 1] = NodesOver(Nodes[n])
<1>1. 0 \in Nat /\ \A n \in Nat : n + 1 \in Nat /\ n + 1 # 0 /\ (n + 1) - 1 = n
  OBVIOUS
<1>2. \A n \in Nat : Nodes[n] = IF n = 0 THEN {} ELSE NodesOver(Nodes[n - 1])
  BY NodesAre, Zenon
<1> QED
  BY <1>1, <1>2

\* The three kinds of nodes, and their parts.
LEMMA NodeKinds ==
    ASSUME NEW parts, NEW node \in NodesOver(parts)
    PROVE  \/ /\ IsScalar(node) /\ ~IsSequence(node) /\ ~IsMap(node)
              /\ node.text \in Texts /\ node = Scalar(node.text)
           \/ /\ IsSequence(node) /\ ~IsScalar(node) /\ ~IsMap(node)
              /\ node.items \in Seq(parts) /\ node = List(node.items)
           \/ /\ IsMap(node) /\ ~IsScalar(node) /\ ~IsSequence(node)
              /\ node.fields \in [Keys -> parts \cup {Absent}]
              /\ node = Map(node.fields)
<1>1. /\ "text" # "items" /\ "text" # "fields" /\ "items" # "fields"
  OBVIOUS
<1>2. CASE node \in [text : Texts]
  BY <1>2 DEF IsScalar, IsSequence, IsMap, Scalar
<1>3. CASE node \in [items : Seq(parts)]
  BY <1>3 DEF IsScalar, IsSequence, IsMap, List
<1>4. CASE node \in [fields : [Keys -> parts \cup {Absent}]]
  BY <1>4 DEF IsScalar, IsSequence, IsMap, Map
<1> QED
  BY <1>2, <1>3, <1>4 DEF NodesOver

\* None of them stands for no node.
LEMMA NoNode ==
    ASSUME NEW parts, NEW node \in NodesOver(parts)
    PROVE  node # Absent /\ node # Broken /\ node # NoCorpus
<1>1. /\ DOMAIN Absent = {"absent"} /\ DOMAIN Broken = {"broken"}
      /\ DOMAIN NoCorpus = {"none"}
  BY DEF Absent, Broken, NoCorpus
<1>2. DOMAIN node \in {{"text"}, {"items"}, {"fields"}}
  BY NodeKinds DEF IsScalar, IsSequence, IsMap
<1> QED
  BY <1>1, <1>2

\* What nodes are made of.
LEMMA NodesMade ==
    ASSUME NEW parts
    PROVE  /\ \A t \in Texts : /\ Scalar(t) \in NodesOver(parts)
                               /\ IsScalar(Scalar(t)) /\ Scalar(t).text = t
           /\ \A s \in Seq(parts) : /\ List(s) \in NodesOver(parts)
                                    /\ IsSequence(List(s)) /\ List(s).items = s
           /\ \A f \in [Keys -> parts \cup {Absent}] :
                /\ Map(f) \in NodesOver(parts)
                /\ IsMap(Map(f)) /\ Map(f).fields = f
BY DEF NodesOver, Scalar, List, Map, IsScalar, IsSequence, IsMap

-----------------------------------------------------------------------------
(* One mutation                                                            *)

\* A scalar is still read as what it was read as.
LEMMA ScalarsKeepType ==
    ASSUME NEW text \in Texts, NEW t \in MutateScalar(text)
    PROVE  t \in Texts /\ ValueType(t) = ValueType(text)
<1>1. /\ ValueType("whole") = "Integer" /\ ValueType("decimal") = "Double"
      /\ ValueType("large") = "Double" /\ ValueType("nan") = "Double"
      /\ ValueType("bool") = "Bool" /\ ValueType("null") = "Empty"
      /\ ValueType("word") = "String"
  BY DEF ValueType
<1>2. \A number \in Uint8ToDouble : DoubleText(number) \in {"decimal", "large", "nan"}
  BY DEF Uint8ToDouble, DoubleText, to_string, Written
<1>3. CASE text = "whole"
  BY <1>1, <1>3 DEF MutateScalar, Uint8ToInt, Texts
<1>4. CASE text \in {"decimal", "large", "nan"}
  <2>1. MutateScalar(text) = {DoubleText(number) : number \in Uint8ToDouble}
    BY <1>1, <1>4 DEF MutateScalar
  <2>2. t \in {"decimal", "large", "nan"}
    BY <1>2, <2>1
  <2> QED
    BY <1>1, <1>4, <2>2 DEF Texts
<1>5. CASE text = "bool"
  BY <1>1, <1>5 DEF MutateScalar, Uint8ToBool, Texts
<1>6. CASE text \in {"null", "word"}
  BY <1>1, <1>6 DEF MutateScalar
<1> QED
  BY <1>3, <1>4, <1>5, <1>6 DEF Texts

\* The new items of a sequence come from those that were there, if each is the
\* same or a mutant.
LEMMA ItemsComeFrom ==
    ASSUME NEW parts, NEW alike, NEW old \in Seq(parts), NEW new \in Seq(parts),
           \A i \in DOMAIN new : \E j \in DOMAIN old : new[i] \in alike[old[j]]
    PROVE  /\ List(new) \in NodesOver(parts)
           /\ KeepsShape(List(new), List(old), alike)
<1>1. /\ List(new) \in NodesOver(parts) /\ IsSequence(List(new))
      /\ List(new).items = new
      /\ List(old) \in NodesOver(parts) /\ IsSequence(List(old))
      /\ List(old).items = old
  BY NodesMade
<1>2. ~IsScalar(List(new)) /\ ~IsMap(List(new))
  BY <1>1, NodeKinds
<1>3. DOMAIN List(new) = DOMAIN List(old)
  BY <1>1 DEF IsSequence
<1> QED
  BY <1>1, <1>2, <1>3 DEF KeepsShape

\* What the list mutators make of the items.
LEMMA ListMutants ==
    ASSUME NEW parts, NEW mutants, NEW alike, NEW items \in Seq(parts),
           \A p \in parts : /\ p \in alike[p]
                            /\ \A m \in mutants[p] \ {Broken} :
                                 m \in parts /\ m \in alike[p],
           NEW m \in mutate_list(items, mutants), m # Broken
    PROVE  m \in NodesOver(parts) /\ KeepsShape(m, List(items), alike)
<1>1. /\ DOMAIN items = 1..Len(items) /\ Len(items) \in Nat
      /\ \A i \in DOMAIN items : items[i] \in parts
  OBVIOUS
<1> SUFFICES \E new \in Seq(parts) :
               /\ m = List(new)
               /\ \A i \in DOMAIN new : \E j \in DOMAIN items : new[i] \in alike[items[j]]
  BY ItemsComeFrom
<1>2. CASE m \in list_value_mutate(items, mutants)
  <2>1. PICK i \in DOMAIN items :
          \E n \in mutants[items[i]] :
            m = IF n = Broken THEN Broken ELSE List([items EXCEPT ![i] = n])
    BY <1>2 DEF list_value_mutate
  <2>0. PICK n \in mutants[items[i]] :
          m = IF n = Broken THEN Broken ELSE List([items EXCEPT ![i] = n])
    BY <2>1
  <2> DEFINE new == [items EXCEPT ![i] = n]
  <2>2. m = List(new) /\ n \in parts /\ n \in alike[items[i]]
    BY <1>1, <2>0
  <2>3. new \in Seq(parts) /\ DOMAIN new = DOMAIN items
    BY <1>1, <2>2
  <2>4. \A k \in DOMAIN new : new[k] \in alike[items[k]]
    BY <1>1, <2>2
  <2> QED
    BY <2>2, <2>3, <2>4
<1>3. CASE m \in list_swap_item(items)
  <2>1. PICK i \in DOMAIN items, j \in DOMAIN items :
          m = List([items EXCEPT ![i] = items[j], ![j] = items[i]])
    BY <1>3 DEF list_swap_item
  <2> DEFINE new == [items EXCEPT ![i] = items[j], ![j] = items[i]]
  <2>2. new \in Seq(parts) /\ DOMAIN new = DOMAIN items
    BY <1>1
  <2>3. \A k \in DOMAIN new : \E l \in DOMAIN items : new[k] = items[l]
    BY <1>1
  <2> HIDE DEF new
  <2>4. \A k \in DOMAIN new : \E l \in DOMAIN items : new[k] \in alike[items[l]]
    BY <1>1, <2>3
  <2> QED
    BY <2>1, <2>2, <2>4 DEF new
<1>4. CASE m \in list_insert_item(items)
  <2>1. PICK i \in DOMAIN items : m = List(Append(items, items[i]))
    BY <1>4 DEF list_insert_item
  <2> DEFINE new == Append(items, items[i])
  <2>2. /\ new \in Seq(parts) /\ DOMAIN new = 1..(Len(items) + 1)
        /\ \A k \in 1..Len(items) : new[k] = items[k]
        /\ new[Len(items) + 1] = items[i]
    BY <1>1
  <2>3. ASSUME NEW k \in DOMAIN new
        PROVE  \E l \in DOMAIN items : new[k] \in alike[items[l]]
    <3>1. k \in 1..Len(items) \/ k = Len(items) + 1
      BY <1>1, <2>2
    <3> QED
      BY <1>1, <2>2, <3>1
  <2> QED
    BY <2>1, <2>2, <2>3
<1>5. CASE m \in list_erase_item(items)
  <2>1. PICK i \in DOMAIN items :
          m = List(SubSeq(items, 1, i - 1) \o SubSeq(items, i + 1, Len(items)))
    BY <1>5 DEF list_erase_item
  <2> DEFINE front == SubSeq(items, 1, i - 1)
             back == SubSeq(items, i + 1, Len(items))
             new == front \o back
  <2>2. /\ i \in 1..Len(items) /\ i - 1 \in Nat /\ i - 1 <= Len(items)
        /\ i + 1 \in 1..(Len(items) + 1) /\ Len(items) \in i..Len(items)
        /\ 1 \in 1..(Len(items) + 1) /\ i - 1 \in 0..Len(items)
    BY <1>1
  <2>3. /\ front \in Seq(parts) /\ Len(front) = i - 1
        /\ \A k \in 1..(i - 1) : front[k] = items[k]
    BY <2>2, SubSeqIs
  <2>4. /\ back \in Seq(parts) /\ Len(back) = Len(items) - i
        /\ \A k \in 1..(Len(items) - i) : back[k] = items[i + k]
    <3>1. /\ (i + 1) - 1 = i /\ Len(items) \in ((i + 1) - 1)..Len(items)
          /\ i + 1 \in 1..(Len(items) + 1)
      BY <1>1, <2>2
    <3>2. LET k == (i + 1) - 1
          IN  /\ back \in Seq(parts) /\ Len(back) = Len(items) - k
              /\ \A j \in 1..(Len(items) - k) : back[j] = items[k + j]
      BY <3>1, SubSeqIs
    <3> HIDE DEF back
    <3> QED
      BY <3>1, <3>2
  <2> HIDE DEF front, back
  <2>5. /\ new \in Seq(parts) /\ DOMAIN new = 1..((i - 1) + (Len(items) - i))
        /\ \A k \in 1..((i - 1) + (Len(items) - i)) :
             new[k] = IF k <= i - 1 THEN front[k] ELSE back[k - (i - 1)]
    <3>1. /\ new \in Seq(parts) /\ DOMAIN new = 1..(Len(front) + Len(back))
          /\ \A k \in 1..(Len(front) + Len(back)) :
               new[k] = IF k <= Len(front) THEN front[k] ELSE back[k - Len(front)]
      <4>1. front \in Seq(parts) /\ back \in Seq(parts)
        BY <2>3, <2>4
      <4> QED
        BY <4>1, ConcatIs
    <3> HIDE DEF new
    <3> QED
      BY <2>3, <2>4, <3>1
  <2> HIDE DEF new
  <2>6. ASSUME NEW k \in DOMAIN new
        PROVE  \E l \in DOMAIN items : new[k] \in alike[items[l]]
    <3>1. CASE k <= i - 1
      <4>1. k \in 1..(i - 1) /\ k \in DOMAIN items
        BY <1>1, <2>2, <2>5, <3>1
      <4>2. new[k] = items[k]
        BY <2>3, <2>5, <3>1, <4>1
      <4> QED
        BY <1>1, <4>1, <4>2
    <3>2. CASE k > i - 1
      <4>1. /\ k - (i - 1) \in 1..(Len(items) - i)
            /\ i + (k - (i - 1)) \in DOMAIN items
        <5>1. k \in 1..((i - 1) + (Len(items) - i))
          BY <2>5
        <5> QED
          BY <1>1, <2>2, <3>2, <5>1
      <4>2. ~(k <= i - 1) /\ k \in 1..((i - 1) + (Len(items) - i))
        BY <2>2, <2>5, <3>2
      <4>3. new[k] = back[k - (i - 1)]
        BY <2>5, <4>2
      <4>4. new[k] = items[i + (k - (i - 1))]
        BY <2>4, <4>1, <4>3
      <4> QED
        BY <1>1, <4>1, <4>4
    <3> QED
      BY <1>1, <2>2, <2>5, <3>1, <3>2
  <2> QED
    BY <2>1, <2>5, <2>6 DEF new, front, back
<1> QED
  BY <1>2, <1>3, <1>4, <1>5 DEF mutate_list

\* A sequence breaks nothing but by one of its items.
LEMMA ListBreaks ==
    ASSUME NEW mutants, NEW items, Broken \in mutate_list(items, mutants)
    PROVE  \E i \in DOMAIN items : Broken \in mutants[items[i]]
<1>1. \A s : List(s) # Broken
  BY DEF List, Broken
<1>2. Broken \in list_value_mutate(items, mutants)
  <2>1. Broken \notin list_swap_item(items)
    <3> SUFFICES ASSUME Broken \in list_swap_item(items)
                 PROVE  FALSE
      OBVIOUS
    <3>1. \E i, j \in DOMAIN items :
            Broken = List([items EXCEPT ![i] = items[j], ![j] = items[i]])
      BY DEF list_swap_item
    <3> QED
      BY <1>1, <3>1
  <2>2. Broken \notin list_insert_item(items)
    BY <1>1, Zenon DEF list_insert_item
  <2>3. Broken \notin list_erase_item(items)
    BY <1>1, Zenon DEF list_erase_item
  <2> QED
    BY <2>1, <2>2, <2>3 DEF mutate_list
<1>3. PICK i \in DOMAIN items :
        \E n \in mutants[items[i]] :
          Broken = IF n = Broken THEN Broken ELSE List([items EXCEPT ![i] = n])
  BY <1>2 DEF list_value_mutate
<1> QED
  BY <1>1, <1>3

\* What a mutation makes of the map under one of its keys.
LEMMA MapMutants ==
    ASSUME NEW parts, NEW alike, NEW fields \in [Keys -> parts \cup {Absent}],
           \A p \in parts : p # Absent /\ p \in alike[p],
           NEW key \in KeysOf(fields), NEW n \in parts, n \in alike[fields[key]]
    PROVE  /\ Map([fields EXCEPT ![key] = n]) \in NodesOver(parts)
           /\ KeepsShape(Map([fields EXCEPT ![key] = n]), Map(fields), alike)
<1> DEFINE new == [fields EXCEPT ![key] = n]
<1>1. key \in Keys /\ n # Absent /\ fields[key] # Absent
  BY DEF KeysOf
<1>2. new \in [Keys -> parts \cup {Absent}]
  OBVIOUS
<1>3. \A k \in Keys : new[k] = IF k = key THEN n ELSE fields[k]
  OBVIOUS
<1> HIDE DEF new
<1>4. /\ Map(new) \in NodesOver(parts) /\ IsMap(Map(new)) /\ Map(new).fields = new
      /\ Map(fields) \in NodesOver(parts) /\ IsMap(Map(fields))
      /\ Map(fields).fields = fields
  BY <1>2, NodesMade
<1>5. ~IsScalar(Map(new)) /\ ~IsSequence(Map(new))
  BY <1>4, NodeKinds
<1>6. KeysOf(new) = KeysOf(fields)
  BY <1>1, <1>3 DEF KeysOf
<1>7. ASSUME NEW k \in KeysOf(new)
      PROVE  new[k] \in alike[fields[k]]
  <2>1. k \in Keys /\ fields[k] \in parts
    BY <1>6 DEF KeysOf
  <2> QED
    BY <1>3, <2>1
<1>8. KeepsShape(Map(new), Map(fields), alike)
  BY <1>4, <1>5, <1>6, <1>7 DEF KeepsShape, IsMap
<1> QED
  BY <1>4, <1>8 DEF new

\* One mutation keeps the shape of a node, if the mutations of its parts do, and
\* breaks the program only on an empty map.
LEMMA MutationKeepsShape ==
    ASSUME NEW parts, NEW mutants, NEW alike, NEW empty,
           \A p \in parts : /\ p # Absent /\ p # Broken /\ p \in alike[p]
                            /\ \A m \in mutants[p] :
                                 IF m = Broken THEN p \in empty
                                 ELSE m \in parts /\ m \in alike[p],
           NEW node \in NodesOver(parts), NEW m \in mutate_item(node, mutants)
    PROVE  IF m = Broken THEN HasEmptyMap(node, empty)
           ELSE m \in NodesOver(parts) /\ KeepsShape(m, node, alike)
<1>1. CASE IsScalar(node)
  <2>1. node.text \in Texts /\ node = Scalar(node.text) /\ ~IsSequence(node) /\ ~IsMap(node)
    BY <1>1, NodeKinds
  <2>2. PICK t \in MutateScalar(node.text) : m = Scalar(t)
    BY <1>1 DEF mutate_item
  <2>3. t \in Texts /\ ValueType(t) = ValueType(node.text)
    BY <2>1, <2>2, ScalarsKeepType
  <2>4. m \in NodesOver(parts) /\ IsScalar(m) /\ m.text = t
    BY <2>2, <2>3, NodesMade
  <2>5. m # Broken /\ ~IsSequence(m) /\ ~IsMap(m)
    BY <2>4, NoNode, NodeKinds
  <2>6. DOMAIN m = DOMAIN node
    BY <1>1, <2>4 DEF IsScalar
  <2> QED
    BY <2>3, <2>4, <2>5, <2>6 DEF KeepsShape
<1>2. CASE IsSequence(node)
  <2> DEFINE items == node.items
  <2>1. items \in Seq(parts) /\ node = List(items) /\ ~IsScalar(node) /\ ~IsMap(node)
    BY <1>2, NodeKinds
  <2>2. m \in mutate_list(items, mutants)
    BY <1>2, <2>1 DEF mutate_item, mutate_yaml
  <2> HIDE DEF items
  <2>3. CASE m = Broken
    <3>1. PICK i \in DOMAIN items : Broken \in mutants[items[i]]
      BY <2>2, <2>3, ListBreaks
    <3>2. items[i] \in parts
      BY <2>1, <3>1
    <3>3. items[i] \in empty
      BY <3>1, <3>2
    <3> QED
      BY <1>2, <2>3, <3>3 DEF HasEmptyMap, items
  <2>4. CASE m # Broken
    <3>1. \A p \in parts : /\ p \in alike[p]
                           /\ \A n \in mutants[p] \ {Broken} :
                                n \in parts /\ n \in alike[p]
      OBVIOUS
    <3>2. m \in NodesOver(parts) /\ KeepsShape(m, List(items), alike)
      BY <2>1, <2>2, <2>4, <3>1, ListMutants
    <3> QED
      BY <2>1, <2>4, <3>2
  <2> QED
    BY <2>3, <2>4
<1>3. CASE IsMap(node)
  <2> DEFINE fields == node.fields
  <2>1. /\ fields \in [Keys -> parts \cup {Absent}] /\ node = Map(fields)
        /\ ~IsScalar(node) /\ ~IsSequence(node)
    BY <1>3, NodeKinds
  <2>2. m \in mutate_yaml(node, mutants)
    BY <2>1 DEF mutate_item
  <2>3. CASE KeysOf(fields) = {}
    <3>1. m = Broken
      BY <2>1, <2>2, <2>3 DEF mutate_yaml
    <3> QED
      BY <1>3, <2>3, <3>1 DEF HasEmptyMap
  <2>4. CASE KeysOf(fields) # {}
    <3>1. PICK key \in KeysOf(fields) :
            \E n \in mutants[fields[key]] :
              m = IF n = Broken THEN Broken ELSE Map([fields EXCEPT ![key] = n])
      BY <2>1, <2>2, <2>4 DEF mutate_yaml
    <3>2. PICK n \in mutants[fields[key]] :
            m = IF n = Broken THEN Broken ELSE Map([fields EXCEPT ![key] = n])
      BY <3>1
    <3> HIDE DEF fields
    <3>3. fields[key] \in parts
      BY <2>1 DEF KeysOf
    <3>4. CASE n = Broken
      <4>1. fields[key] \in empty /\ m = Broken
        BY <3>2, <3>3, <3>4
      <4> QED
        BY <1>3, <4>1 DEF HasEmptyMap, fields
    <3>5. CASE n # Broken
      <4>1. n \in parts /\ n \in alike[fields[key]]
        BY <3>2, <3>3, <3>5
      <4>2. \A p \in parts : p # Absent /\ p \in alike[p]
        OBVIOUS
      <4>3. /\ m = Map([fields EXCEPT ![key] = n])
            /\ m \in NodesOver(parts) /\ KeepsShape(m, Map(fields), alike)
        BY <2>1, <3>2, <3>5, <4>1, <4>2, MapMutants
      <4>4. m # Broken
        BY <4>3, NoNode
      <4> QED
        BY <2>1, <4>3, <4>4
    <3> QED
      BY <3>4, <3>5
  <2> QED
    BY <2>3, <2>4
<1> QED
  BY <1>1, <1>2, <1>3, NodeKinds

-----------------------------------------------------------------------------
(* Mutations and shapes, level by level                                    *)

\* What a mutation makes of a node is a node, unless the program breaks.
LEMMA MutantsAreNodes ==
    ASSUME NEW parts, NEW mutants,
           \A p \in parts : mutants[p] \subseteq parts \cup {Broken},
           \A p \in parts : p # Absent /\ p # Broken,
           NEW node \in NodesOver(parts)
    PROVE  mutate_item(node, mutants) \subseteq NodesOver(parts) \cup {Broken}
<1> DEFINE alike == [p \in parts |-> parts]
<1>1. \A p \in parts : /\ p # Absent /\ p # Broken /\ p \in alike[p]
                       /\ \A m \in mutants[p] :
                            IF m = Broken THEN p \in parts
                            ELSE m \in parts /\ m \in alike[p]
  OBVIOUS
<1> HIDE DEF alike
<1>2. ASSUME NEW m \in mutate_item(node, mutants), m # Broken
      PROVE  m \in NodesOver(parts)
  BY <1>1, <1>2, MutationKeepsShape
<1> QED
  BY <1>2

\* Nodes of one level or more.
LEMMA NodesDiffer ==
    ASSUME NEW n \in Nat, NEW node \in Nodes[n]
    PROVE  node # Absent /\ node # Broken /\ node # NoCorpus
<1>1. n # 0 /\ n - 1 \in Nat /\ (n - 1) + 1 = n
  BY NodesByLevel
<1>2. node \in NodesOver(Nodes[n - 1])
  BY <1>1, NodesByLevel
<1> QED
  BY <1>2, NoNode

\* One level more of mutants.
LEMMA MutantsNext ==
    ASSUME NEW n \in Nat, NEW x \in [Nodes[n] -> SUBSET (Nodes[n] \cup {Broken})]
    PROVE  [node \in Nodes[n + 1] |-> mutate_item(node, x)]
             \in [Nodes[n + 1] -> SUBSET (Nodes[n + 1] \cup {Broken})]
<1>1. Nodes[n + 1] = NodesOver(Nodes[n])
  BY NodesByLevel
<1>2. \A p \in Nodes[n] : p # Absent /\ p # Broken /\ x[p] \subseteq Nodes[n] \cup {Broken}
  BY NodesDiffer
<1>3. ASSUME NEW node \in Nodes[n + 1]
      PROVE  mutate_item(node, x) \subseteq Nodes[n + 1] \cup {Broken}
  BY <1>1, <1>2, MutantsAreNodes
<1> QED
  BY <1>3

\* Mutants is what its definition says.
LEMMA MutantsAre ==
    Mutants = [n \in Nat |-> [node \in Nodes[n] |-> mutate_item(node, Mutants[n - 1])]]
<1> DEFINE Type(n) == [Nodes[n] -> SUBSET (Nodes[n] \cup {Broken})]
           M == [n \in Nat |-> Type(n)]
           All == UNION {M[n] : n \in Nat}
           step == [p \in Nat \X All |-> [node \in Nodes[p[1]] |-> mutate_item(node, p[2])]]
           base == [node \in Nodes[0] |-> {}]
<1>1. base \in M[0]
  OBVIOUS
<1>2. ASSUME NEW n \in Nat, NEW x \in M[n]
      PROVE  step[<<n + 1, x>>] = [node \in Nodes[n + 1] |-> mutate_item(node, x)]
  <2>1. x \in All /\ n + 1 \in Nat
    OBVIOUS
  <2> HIDE DEF All
  <2> QED
    BY <2>1
<1>3. ASSUME NEW n \in Nat, NEW x \in M[n]
      PROVE  step[<<n + 1, x>>] \in M[n + 1]
  <2>1. M[n] = Type(n) /\ M[n + 1] = Type(n + 1)
    OBVIOUS
  <2> HIDE DEF step, M
  <2>2. x \in [Nodes[n] -> SUBSET (Nodes[n] \cup {Broken})]
    BY <2>1
  <2>3. [node \in Nodes[n + 1] |-> mutate_item(node, x)]
          \in [Nodes[n + 1] -> SUBSET (Nodes[n + 1] \cup {Broken})]
    BY <2>2, MutantsNext
  <2>4. step[<<n + 1, x>>] \in [Nodes[n + 1] -> SUBSET (Nodes[n + 1] \cup {Broken})]
    BY <1>2, <2>3
  <2> QED
    BY <2>1, <2>4
<1> HIDE DEF base, step, M
<1>4. \A n \in Nat : \A x \in M[n] : step[<<n + 1, x>>] \in M[n + 1]
  BY <1>3
<1>5. \E f : /\ f = [n \in Nat |-> IF n = 0 THEN base ELSE step[<<n, f[n - 1]>>]]
             /\ \A n \in Nat : f[n] \in M[n]
  BY <1>1, <1>4, RecursionExists
<1>6. PICK f : /\ f = [n \in Nat |-> IF n = 0 THEN base ELSE step[<<n, f[n - 1]>>]]
               /\ \A n \in Nat : f[n] \in M[n]
  BY <1>5
<1>7. ASSUME NEW n \in Nat
      PROVE  f[n] = [node \in Nodes[n] |-> mutate_item(node, f[n - 1])]
  <2>1. f[n] = IF n = 0 THEN base ELSE step[<<n, f[n - 1]>>]
    BY <1>6
  <2>2. CASE n = 0
    BY <2>1, <2>2, NodesByLevel DEF base
  <2>3. CASE n # 0
    <3>1. n - 1 \in Nat /\ (n - 1) + 1 = n
      BY <2>3
    <3>2. f[n - 1] \in M[n - 1]
      BY <1>6, <3>1
    <3> QED
      BY <1>2, <2>1, <2>3, <3>1, <3>2
  <2> QED
    BY <2>2, <2>3
<1>8. f = [n \in Nat |-> [node \in Nodes[n] |-> mutate_item(node, f[n - 1])]]
  <2>1. f = [n \in Nat |-> f[n]]
    BY <1>6
  <2> QED
    BY <1>7, <2>1
<1> QED
  BY <1>8, Zenon DEF Mutants

\* What they are on each level.
LEMMA MutantsByLevel ==
    ASSUME NEW n \in Nat
    PROVE  /\ Mutants[n] \in [Nodes[n] -> SUBSET (Nodes[n] \cup {Broken})]
           /\ \A node \in Nodes[n + 1] :
                Mutants[n + 1][node] = mutate_item(node, Mutants[n])
<1>1. \A k \in Nat : Mutants[k] = [node \in Nodes[k] |-> mutate_item(node, Mutants[k - 1])]
  BY MutantsAre, Zenon
<1>2. ASSUME NEW k \in Nat
      PROVE  Mutants[k + 1] = [node \in Nodes[k + 1] |-> mutate_item(node, Mutants[k])]
  <2>1. k + 1 \in Nat /\ (k + 1) - 1 = k
    OBVIOUS
  <2> QED
    BY <1>1, <2>1
<1> DEFINE T == {k \in Nat : Mutants[k] \in [Nodes[k] -> SUBSET (Nodes[k] \cup {Broken})]}
<1>3. 0 \in T
  <2>1. Mutants[0] = [node \in {} |-> mutate_item(node, Mutants[0 - 1])]
    BY <1>1, NodesByLevel
  <2>2. Nodes[0] = {}
    BY NodesByLevel
  <2> QED
    BY <2>1, <2>2
<1>4. ASSUME NEW k \in Nat, k \in T
      PROVE  k + 1 \in T
  <2> DEFINE x == Mutants[k]
  <2>1. x \in [Nodes[k] -> SUBSET (Nodes[k] \cup {Broken})]
    BY <1>4
  <2> HIDE DEF x
  <2>2. [node \in Nodes[k + 1] |-> mutate_item(node, x)]
          \in [Nodes[k + 1] -> SUBSET (Nodes[k + 1] \cup {Broken})]
    BY <2>1, MutantsNext
  <2>3. Mutants[k + 1] = [node \in Nodes[k + 1] |-> mutate_item(node, x)]
    BY <1>2 DEF x
  <2>4. k + 1 \in Nat
    OBVIOUS
  <2> QED
    BY <2>2, <2>3, <2>4
<1>5. n \in T
  <2> HIDE DEF T
  <2> QED
    BY <1>3, <1>4, SetInduction
<1> QED
  BY <1>2, <1>5

\* So is Alike.
LEMMA AlikeIs ==
    Alike = [n \in Nat |-> [old \in Nodes[n] |->
               {new \in Nodes[n] : KeepsShape(new, old, Alike[n - 1])}]]
<1> DEFINE Type(n) == [Nodes[n] -> SUBSET Nodes[n]]
           M == [n \in Nat |-> Type(n)]
           All == UNION {M[n] : n \in Nat}
           Level(n, x) == [old \in Nodes[n] |->
                             {new \in Nodes[n] : KeepsShape(new, old, x)}]
           step == [p \in Nat \X All |-> Level(p[1], p[2])]
           base == [old \in Nodes[0] |-> {}]
<1>1. base \in M[0]
  OBVIOUS
<1>2. ASSUME NEW n \in Nat, NEW x \in M[n]
      PROVE  step[<<n + 1, x>>] = Level(n + 1, x)
  <2>1. x \in All /\ n + 1 \in Nat
    OBVIOUS
  <2> HIDE DEF All, Level
  <2> QED
    BY <2>1
<1>3. ASSUME NEW n \in Nat, NEW x \in M[n]
      PROVE  step[<<n + 1, x>>] \in M[n + 1]
  <2>1. M[n + 1] = Type(n + 1)
    OBVIOUS
  <2> HIDE DEF step, M
  <2>2. Level(n + 1, x) \in Type(n + 1)
    OBVIOUS
  <2> QED
    BY <1>2, <2>1, <2>2
<1> HIDE DEF base, step, M
<1>4. \A n \in Nat : \A x \in M[n] : step[<<n + 1, x>>] \in M[n + 1]
  BY <1>3
<1>5. \E f : /\ f = [n \in Nat |-> IF n = 0 THEN base ELSE step[<<n, f[n - 1]>>]]
             /\ \A n \in Nat : f[n] \in M[n]
  BY <1>1, <1>4, RecursionExists
<1>6. PICK f : /\ f = [n \in Nat |-> IF n = 0 THEN base ELSE step[<<n, f[n - 1]>>]]
               /\ \A n \in Nat : f[n] \in M[n]
  BY <1>5
<1>7. ASSUME NEW n \in Nat
      PROVE  f[n] = Level(n, f[n - 1])
  <2>1. f[n] = IF n = 0 THEN base ELSE step[<<n, f[n - 1]>>]
    BY <1>6
  <2>2. CASE n = 0
    BY <2>1, <2>2, NodesByLevel DEF base
  <2>3. CASE n # 0
    <3>1. n - 1 \in Nat /\ (n - 1) + 1 = n
      BY <2>3
    <3>2. f[n - 1] \in M[n - 1]
      BY <1>6, <3>1
    <3> HIDE DEF Level
    <3> QED
      BY <1>2, <2>1, <2>3, <3>1, <3>2
  <2> QED
    BY <2>2, <2>3
<1>8. f = [n \in Nat |-> Level(n, f[n - 1])]
  <2>1. f = [n \in Nat |-> f[n]]
    BY <1>6
  <2> HIDE DEF Level
  <2> QED
    BY <1>7, <2>1
<1> QED
  BY <1>8, Zenon DEF Alike

LEMMA AlikeByLevel ==
    ASSUME NEW n \in Nat
    PROVE  /\ \A old \in Nodes[n] : Alike[n][old] \subseteq Nodes[n]
           /\ \A old, new \in Nodes[n + 1] :
                new \in Alike[n + 1][old] <=> KeepsShape(new, old, Alike[n])
<1>1. \A k \in Nat : Alike[k] = [old \in Nodes[k] |->
                       {new \in Nodes[k] : KeepsShape(new, old, Alike[k - 1])}]
  BY AlikeIs, Zenon
<1>2. n + 1 \in Nat /\ (n + 1) - 1 = n
  OBVIOUS
<1>3. Alike[n + 1] = [old \in Nodes[n + 1] |->
                        {new \in Nodes[n + 1] : KeepsShape(new, old, Alike[n])}]
  BY <1>1, <1>2
<1>4. \A old \in Nodes[n] : Alike[n][old] \subseteq Nodes[n]
  <2>1. \A old \in Nodes[n] :
          Alike[n][old] = {new \in Nodes[n] : KeepsShape(new, old, Alike[n - 1])}
    BY <1>1
  <2> QED
    BY <2>1, Zenon
<1>5. \A old \in Nodes[n + 1] :
        Alike[n + 1][old] = {new \in Nodes[n + 1] : KeepsShape(new, old, Alike[n])}
  BY <1>3
<1> QED
  BY <1>4, <1>5, Zenon

\* And WithEmptyMap.
LEMMA WithEmptyMapIs ==
    WithEmptyMap = [n \in Nat |->
      {node \in Nodes[n] : HasEmptyMap(node, WithEmptyMap[n - 1])}]
<1> DEFINE Type(n) == SUBSET Nodes[n]
           M == [n \in Nat |-> Type(n)]
           All == UNION {M[n] : n \in Nat}
           Level(n, x) == {node \in Nodes[n] : HasEmptyMap(node, x)}
           step == [p \in Nat \X All |-> Level(p[1], p[2])]
<1>1. {} \in M[0]
  OBVIOUS
<1>2. ASSUME NEW n \in Nat, NEW x \in M[n]
      PROVE  step[<<n + 1, x>>] = Level(n + 1, x)
  <2>1. x \in All /\ n + 1 \in Nat
    OBVIOUS
  <2> HIDE DEF All, Level
  <2> QED
    BY <2>1
<1>3. ASSUME NEW n \in Nat, NEW x \in M[n]
      PROVE  step[<<n + 1, x>>] \in M[n + 1]
  <2>1. M[n + 1] = Type(n + 1)
    OBVIOUS
  <2> HIDE DEF step, M
  <2>2. Level(n + 1, x) \in Type(n + 1)
    OBVIOUS
  <2> QED
    BY <1>2, <2>1, <2>2
<1> HIDE DEF step, M
<1>4. \A n \in Nat : \A x \in M[n] : step[<<n + 1, x>>] \in M[n + 1]
  BY <1>3
<1>5. \E f : /\ f = [n \in Nat |-> IF n = 0 THEN {} ELSE step[<<n, f[n - 1]>>]]
             /\ \A n \in Nat : f[n] \in M[n]
  BY <1>1, <1>4, RecursionExists
<1>6. PICK f : /\ f = [n \in Nat |-> IF n = 0 THEN {} ELSE step[<<n, f[n - 1]>>]]
               /\ \A n \in Nat : f[n] \in M[n]
  BY <1>5
<1>7. ASSUME NEW n \in Nat
      PROVE  f[n] = Level(n, f[n - 1])
  <2>1. f[n] = IF n = 0 THEN {} ELSE step[<<n, f[n - 1]>>]
    BY <1>6
  <2>2. CASE n = 0
    BY <2>1, <2>2, NodesByLevel
  <2>3. CASE n # 0
    <3>1. n - 1 \in Nat /\ (n - 1) + 1 = n
      BY <2>3
    <3>2. f[n - 1] \in M[n - 1]
      BY <1>6, <3>1
    <3> HIDE DEF Level
    <3> QED
      BY <1>2, <2>1, <2>3, <3>1, <3>2
  <2> QED
    BY <2>2, <2>3
<1>8. f = [n \in Nat |-> Level(n, f[n - 1])]
  <2>1. f = [n \in Nat |-> f[n]]
    BY <1>6
  <2> HIDE DEF Level
  <2> QED
    BY <1>7, <2>1
<1> QED
  BY <1>8, Zenon DEF WithEmptyMap

LEMMA WithEmptyMapByLevel ==
    ASSUME NEW n \in Nat
    PROVE  \A node \in Nodes[n + 1] :
             node \in WithEmptyMap[n + 1] <=> HasEmptyMap(node, WithEmptyMap[n])
<1>1. \A k \in Nat :
        WithEmptyMap[k] = {node \in Nodes[k] : HasEmptyMap(node, WithEmptyMap[k - 1])}
  BY WithEmptyMapIs, Zenon
<1>2. n + 1 \in Nat /\ (n + 1) - 1 = n
  OBVIOUS
<1> QED
  BY <1>1, <1>2

\* A node has a level, and its parts are nodes of the level below.
LEMMA PartsOf ==
    ASSUME NEW n \in Nat, NEW node \in Nodes[n + 1]
    PROVE  /\ node \in NodesOver(Nodes[n])
           /\ IsSequence(node) => \A i \in DOMAIN node.items : node.items[i] \in Nodes[n]
           /\ IsMap(node) => \A key \in KeysOf(node.fields) :
                               node.fields[key] \in Nodes[n]
<1>1. node \in NodesOver(Nodes[n])
  BY NodesByLevel
<1>2. ASSUME IsSequence(node)
      PROVE  \A i \in DOMAIN node.items : node.items[i] \in Nodes[n]
  <2>1. node.items \in Seq(Nodes[n])
    BY <1>1, <1>2, NodeKinds
  <2> QED
    BY <2>1
<1>3. ASSUME IsMap(node)
      PROVE  \A key \in KeysOf(node.fields) : node.fields[key] \in Nodes[n]
  <2>1. node.fields \in [Keys -> Nodes[n] \cup {Absent}]
    BY <1>1, <1>3, NodeKinds
  <2> QED
    BY <2>1 DEF KeysOf
<1> QED
  BY <1>1, <1>2, <1>3

\* Every node keeps its own shape.
LEMMA AlikeReflexive ==
    \A n \in Nat : \A node \in Nodes[n] : node \in Alike[n][node]
<1> DEFINE T == {n \in Nat : \A node \in Nodes[n] : node \in Alike[n][node]}
<1>1. 0 \in T
  BY NodesByLevel
<1>2. ASSUME NEW n \in Nat, n \in T
      PROVE  n + 1 \in T
  <2>1. ASSUME NEW node \in Nodes[n + 1]
        PROVE  KeepsShape(node, node, Alike[n])
    <3>1. \A part \in Nodes[n] : part \in Alike[n][part]
      BY <1>2
    <3> QED
      BY <3>1, PartsOf DEF KeepsShape
  <2> QED
    BY <2>1, AlikeByLevel
<1> HIDE DEF T
<1>3. Nat \subseteq T
  BY <1>1, <1>2, SetInduction
<1> QED
  BY <1>3 DEF T

\* What keeps the shape of what keeps the shape of a node keeps its shape.
LEMMA AlikeTransitive ==
    \A n \in Nat : \A old, mid, new \in Nodes[n] :
      mid \in Alike[n][old] /\ new \in Alike[n][mid] => new \in Alike[n][old]
<1> DEFINE T == {n \in Nat : \A old, mid, new \in Nodes[n] :
                   mid \in Alike[n][old] /\ new \in Alike[n][mid]
                     => new \in Alike[n][old]}
<1>1. 0 \in T
  BY NodesByLevel
<1>2. ASSUME NEW n \in Nat, n \in T
      PROVE  n + 1 \in T
  <2>1. ASSUME NEW old \in Nodes[n + 1], NEW mid \in Nodes[n + 1], NEW new \in Nodes[n + 1],
               KeepsShape(mid, old, Alike[n]), KeepsShape(new, mid, Alike[n])
        PROVE  KeepsShape(new, old, Alike[n])
    <3>1. \A p, q, r \in Nodes[n] :
            q \in Alike[n][p] /\ r \in Alike[n][q] => r \in Alike[n][p]
      BY <1>2
    <3>2. DOMAIN new = DOMAIN old /\ DOMAIN new = DOMAIN mid
      BY <2>1 DEF KeepsShape
    <3>3. ASSUME IsScalar(new)
          PROVE  ValueType(new.text) = ValueType(old.text)
      <4>1. IsScalar(mid)
        BY <3>2, <3>3 DEF IsScalar
      <4> QED
        BY <2>1, <3>3, <4>1 DEF KeepsShape
    <3>4. ASSUME IsSequence(new), NEW i \in DOMAIN new.items
          PROVE  \E k \in DOMAIN old.items : new.items[i] \in Alike[n][old.items[k]]
      <4>1. IsSequence(mid) /\ IsSequence(old)
        BY <3>2, <3>4 DEF IsSequence
      <4>2. PICK j \in DOMAIN mid.items : new.items[i] \in Alike[n][mid.items[j]]
        BY <2>1, <3>4 DEF KeepsShape
      <4>3. PICK k \in DOMAIN old.items : mid.items[j] \in Alike[n][old.items[k]]
        BY <2>1, <4>1 DEF KeepsShape
      <4>4. /\ new.items[i] \in Nodes[n] /\ mid.items[j] \in Nodes[n]
            /\ old.items[k] \in Nodes[n]
        BY <3>4, <4>1, PartsOf
      <4> QED
        BY <3>1, <4>2, <4>3, <4>4
    <3>5. ASSUME IsMap(new)
          PROVE  /\ KeysOf(new.fields) = KeysOf(old.fields)
                 /\ \A key \in KeysOf(new.fields) :
                      new.fields[key] \in Alike[n][old.fields[key]]
      <4>1. IsMap(mid) /\ IsMap(old)
        BY <3>2, <3>5 DEF IsMap
      <4>2. /\ KeysOf(new.fields) = KeysOf(mid.fields)
            /\ KeysOf(mid.fields) = KeysOf(old.fields)
        BY <2>1, <3>5, <4>1 DEF KeepsShape
      <4>3. ASSUME NEW key \in KeysOf(new.fields)
            PROVE  new.fields[key] \in Alike[n][old.fields[key]]
        <5>1. /\ new.fields[key] \in Alike[n][mid.fields[key]]
              /\ mid.fields[key] \in Alike[n][old.fields[key]]
          BY <2>1, <3>5, <4>1, <4>2 DEF KeepsShape
        <5>2. /\ new.fields[key] \in Nodes[n] /\ mid.fields[key] \in Nodes[n]
              /\ old.fields[key] \in Nodes[n]
          BY <3>5, <4>1, <4>2, PartsOf
        <5> QED
          BY <3>1, <5>1, <5>2
      <4> QED
        BY <4>2, <4>3
    <3> QED
      BY <3>2, <3>3, <3>4, <3>5 DEF KeepsShape
  <2> QED
    BY <2>1, AlikeByLevel
<1> HIDE DEF T
<1>3. Nat \subseteq T
  BY <1>1, <1>2, SetInduction
<1> QED
  BY <1>3 DEF T

\* No mutation brings in an empty map.
LEMMA EmptyMapsStay ==
    \A n \in Nat : \A old, new \in Nodes[n] :
      new \in Alike[n][old] /\ new \in WithEmptyMap[n] => old \in WithEmptyMap[n]
<1> DEFINE T == {n \in Nat : \A old, new \in Nodes[n] :
                   new \in Alike[n][old] /\ new \in WithEmptyMap[n]
                     => old \in WithEmptyMap[n]}
<1>1. 0 \in T
  BY NodesByLevel
<1>2. ASSUME NEW n \in Nat, n \in T
      PROVE  n + 1 \in T
  <2>1. ASSUME NEW old \in Nodes[n + 1], NEW new \in Nodes[n + 1],
               KeepsShape(new, old, Alike[n]), HasEmptyMap(new, WithEmptyMap[n])
        PROVE  HasEmptyMap(old, WithEmptyMap[n])
    <3>1. \A p, q \in Nodes[n] :
            q \in Alike[n][p] /\ q \in WithEmptyMap[n] => p \in WithEmptyMap[n]
      BY <1>2
    <3>2. DOMAIN new = DOMAIN old
      BY <2>1 DEF KeepsShape
    <3>3. CASE IsMap(new)
      <4>1. IsMap(old) /\ ~IsSequence(new)
        BY <3>2, <3>3, PartsOf, NodeKinds DEF IsMap
      <4>2. /\ KeysOf(new.fields) = KeysOf(old.fields)
            /\ \A key \in KeysOf(new.fields) :
                 new.fields[key] \in Alike[n][old.fields[key]]
        BY <2>1, <3>3 DEF KeepsShape
      <4>3. CASE KeysOf(new.fields) = {}
        BY <4>1, <4>2, <4>3 DEF HasEmptyMap
      <4>4. CASE KeysOf(new.fields) # {}
        <5>1. PICK key \in KeysOf(new.fields) : new.fields[key] \in WithEmptyMap[n]
          BY <2>1, <4>1, <4>4 DEF HasEmptyMap
        <5>2. new.fields[key] \in Nodes[n] /\ old.fields[key] \in Nodes[n]
          BY <3>3, <4>1, <4>2, PartsOf
        <5>3. old.fields[key] \in WithEmptyMap[n]
          BY <3>1, <4>2, <5>1, <5>2
        <5> QED
          BY <4>1, <4>2, <5>3 DEF HasEmptyMap
      <4> QED
        BY <4>3, <4>4
    <3>4. CASE IsSequence(new) /\ ~IsMap(new)
      <4>1. IsSequence(old)
        BY <3>2, <3>4 DEF IsSequence
      <4>2. PICK i \in DOMAIN new.items : new.items[i] \in WithEmptyMap[n]
        BY <2>1, <3>4 DEF HasEmptyMap
      <4>3. PICK j \in DOMAIN old.items : new.items[i] \in Alike[n][old.items[j]]
        BY <2>1, <3>4 DEF KeepsShape
      <4>4. new.items[i] \in Nodes[n] /\ old.items[j] \in Nodes[n]
        BY <3>4, <4>1, PartsOf
      <4>5. old.items[j] \in WithEmptyMap[n]
        BY <3>1, <4>2, <4>3, <4>4
      <4> QED
        BY <4>1, <4>5 DEF HasEmptyMap
    <3> QED
      BY <2>1, <3>3, <3>4 DEF HasEmptyMap
  <2> QED
    BY <2>1, AlikeByLevel, WithEmptyMapByLevel
<1> HIDE DEF T
<1>3. Nat \subseteq T
  BY <1>1, <1>2, SetInduction
<1> QED
  BY <1>3 DEF T

\* What one mutation makes of a node keeps its shape, on every level; and only
\* an empty map breaks the program.
LEMMA MutantsKeepShape ==
    \A n \in Nat : \A node \in Nodes[n] : \A m \in Mutants[n][node] :
      IF m = Broken THEN node \in WithEmptyMap[n]
      ELSE m \in Nodes[n] /\ m \in Alike[n][node]
<1> DEFINE T == {n \in Nat : \A node \in Nodes[n] : \A m \in Mutants[n][node] :
                   IF m = Broken THEN node \in WithEmptyMap[n]
                   ELSE m \in Nodes[n] /\ m \in Alike[n][node]}
<1>1. 0 \in T
  BY NodesByLevel
<1>2. ASSUME NEW n \in Nat, n \in T
      PROVE  n + 1 \in T
  <2>1. ASSUME NEW node \in Nodes[n + 1], NEW m \in Mutants[n + 1][node]
        PROVE  IF m = Broken THEN node \in WithEmptyMap[n + 1]
               ELSE m \in Nodes[n + 1] /\ m \in Alike[n + 1][node]
    <3>1. \A p \in Nodes[n] : /\ p # Absent /\ p # Broken /\ p \in Alike[n][p]
                              /\ \A q \in Mutants[n][p] :
                                   IF q = Broken THEN p \in WithEmptyMap[n]
                                   ELSE q \in Nodes[n] /\ q \in Alike[n][p]
      BY <1>2, NodesDiffer, AlikeReflexive
    <3>2. node \in NodesOver(Nodes[n]) /\ m \in mutate_item(node, Mutants[n])
      BY MutantsByLevel, PartsOf
    <3>3. IF m = Broken THEN HasEmptyMap(node, WithEmptyMap[n])
          ELSE m \in NodesOver(Nodes[n]) /\ KeepsShape(m, node, Alike[n])
      BY <3>1, <3>2, MutationKeepsShape
    <3>4. Nodes[n + 1] = NodesOver(Nodes[n])
      BY NodesByLevel
    <3> QED
      BY <3>3, <3>4, AlikeByLevel, WithEmptyMapByLevel
  <2>2. n + 1 \in Nat
    OBVIOUS
  <2> QED
    BY <2>1, <2>2
<1> HIDE DEF T
<1>3. Nat \subseteq T
  BY <1>1, <1>2, SetInduction
<1> QED
  BY <1>3 DEF T

-----------------------------------------------------------------------------
(* Mutation after mutation                                                 *)

\* The node at hand is there only if one was given, and has kept the shape of
\* that one, of a map or a sequence.
ShapeInv ==
    /\ seed \in Corpora \cup {NoCorpus}
    /\ seed = NoCorpus => corpus_ = NoCorpus
    /\ corpus_ \notin {NoCorpus, Broken} => corpus_ \in Nodes[Levels]
    /\ ShapeKept

\* The node that was given is of Levels levels, and not a scalar.
LEMMA Given ==
    ASSUME seed \in Corpora \cup {NoCorpus}, seed # NoCorpus
    PROVE  /\ seed \in Nodes[Levels] /\ ~IsScalar(seed)
           /\ seed # Broken
           /\ Levels \in Nat /\ Levels - 1 \in Nat /\ (Levels - 1) + 1 = Levels
<1>1. /\ seed \in Nodes[Levels] /\ ~IsScalar(seed)
      /\ Levels \in Nat /\ Levels - 1 \in Nat /\ (Levels - 1) + 1 = Levels
  BY YamlAssumption
<1> QED
  BY <1>1, NodesDiffer

\* Before mutate() is called there is none.
LEMMA InitShape == Init => ShapeInv
BY DEF Init, ShapeInv, ShapeKept

\* It holds of the node that is given.
LEMMA API_mutateShape == ShapeInv /\ API_mutate => ShapeInv'
<1> SUFFICES ASSUME ShapeInv, API_mutate
             PROVE  ShapeInv'
  OBVIOUS
<1>1. /\ seed \in Corpora \cup {NoCorpus} /\ seed # NoCorpus
      /\ corpus_' = seed /\ seed' = seed
  BY DEF API_mutate, ShapeInv
<1>2. /\ seed \in Nodes[Levels] /\ seed # Broken
      /\ seed \in Alike[Levels][seed]
  BY <1>1, Given, AlikeReflexive
<1> QED
  BY <1>1, <1>2 DEF ShapeInv, ShapeKept

\* One mutation keeps it.
LEMMA mutate_onceShape == ShapeInv /\ mutate_once => ShapeInv'
<1> SUFFICES ASSUME ShapeInv, mutate_once
             PROVE  ShapeInv'
  OBVIOUS
<1>1. /\ corpus_ # NoCorpus /\ corpus_ # Broken /\ seed # NoCorpus
      /\ seed' = seed /\ seed \in Corpora \cup {NoCorpus}
      /\ corpus_ \in Nodes[Levels] /\ corpus_ \in Alike[Levels][seed]
  BY DEF ShapeInv, ShapeKept, mutate_once
<1>2. /\ seed \in Nodes[Levels] /\ ~IsScalar(seed)
      /\ Levels \in Nat /\ Levels - 1 \in Nat /\ (Levels - 1) + 1 = Levels
  BY <1>1, Given
<1>3. CASE corpus_' = corpus_
  BY <1>1, <1>3 DEF ShapeInv, ShapeKept
<1>4. CASE corpus_' \in mutate_yaml(corpus_, Mutants[Levels - 1])
  <2> DEFINE k == Levels - 1
  <2>1. ~IsScalar(corpus_)
    <3>1. KeepsShape(corpus_, seed, Alike[k])
      <4>1. /\ k \in Nat /\ Levels = k + 1
            /\ corpus_ \in Nodes[k + 1] /\ seed \in Nodes[k + 1]
            /\ corpus_ \in Alike[k + 1][seed]
        BY <1>1, <1>2
      <4> HIDE DEF k
      <4> QED
        BY <4>1, AlikeByLevel
    <3> QED
      BY <1>2, <3>1 DEF KeepsShape, IsScalar
  <2>2. corpus_' \in Mutants[Levels][corpus_]
    <3>1. corpus_' \in mutate_item(corpus_, Mutants[k])
      BY <1>4, <2>1 DEF mutate_item
    <3>2. k \in Nat /\ Levels = k + 1 /\ corpus_ \in Nodes[k + 1]
      BY <1>1, <1>2
    <3> HIDE DEF k
    <3> QED
      BY <3>1, <3>2, MutantsByLevel
  <2>3. CASE corpus_' = Broken
    <3>1. corpus_ \in WithEmptyMap[Levels]
      BY <1>1, <1>2, <2>2, <2>3, MutantsKeepShape
    <3>2. seed \in WithEmptyMap[Levels]
      BY <1>1, <1>2, <3>1, EmptyMapsStay
    <3>3. Broken # NoCorpus
      BY DEF Broken, NoCorpus
    <3> QED
      BY <1>1, <2>3, <3>2, <3>3 DEF ShapeInv, ShapeKept
  <2>4. CASE corpus_' # Broken
    <3>1. corpus_' \in Nodes[Levels] /\ corpus_' \in Alike[Levels][corpus_]
      BY <1>1, <1>2, <2>2, <2>4, MutantsKeepShape
    <3>2. corpus_' \in Alike[Levels][seed]
      BY <1>1, <1>2, <3>1, AlikeTransitive
    <3>3. corpus_' # NoCorpus
      BY <1>2, <3>1, NodesDiffer
    <3> QED
      BY <1>1, <2>4, <3>1, <3>2, <3>3 DEF ShapeInv, ShapeKept
  <2> QED
    BY <2>3, <2>4
<1> QED
  BY <1>3, <1>4 DEF mutate_once

\* However often a node is mutated, its mutants keep its keys and the types of
\* its values, and only an empty map breaks the program: for all nodes, of any
\* number of levels and any keys (yaml_mutator.hpp:75-82, yaml_mutator.cpp:22).
THEOREM MutantsKeepTypes == Spec => []ShapeKept
<1>1. ShapeInv /\ [Next]_vars => ShapeInv'
  <2> SUFFICES ASSUME ShapeInv, [Next]_vars
               PROVE  ShapeInv'
    OBVIOUS
  <2>1. CASE mutate_once
    BY <2>1, mutate_onceShape
  <2>3. CASE API_mutate
    BY <2>3, API_mutateShape
  <2>2. CASE UNCHANGED <<seed, corpus_>>
    BY <2>2 DEF ShapeInv, ShapeKept
  <2> QED
    BY <2>1, <2>2, <2>3 DEF Next, vars
<1>2. ShapeInv => ShapeKept
  BY DEF ShapeInv
<1> QED
  BY InitShape, <1>1, <1>2, PTL DEF Spec

-----------------------------------------------------------------------------
(* Choices by weight                                                       *)

\* L[n] is the sum of the first n values.
PartialSums(L, values) ==
  /\ L[0] = 0
  /\ \A n \in 0..(Len(values) - 1) : L[n + 1] = L[n] + values[n + 1]

\* The sum, value by value.
LEMMA SumLoop ==
  ASSUME NEW values \in Seq(Int)
  PROVE  \E L \in [0..Len(values) -> Int] :
           PartialSums(L, values) /\ L[Len(values)] = SumOf(values)
<1> DEFINE N == Len(values)
           step == [x \in Int \X Int |-> x[1] + x[2]]
           Folds(g) == g = [s \in SUBSET (DOMAIN values) |->
                              IF s = {} THEN 0
                              ELSE g[s \ {Max(s)}] + values[Max(s)]]
           g == CHOOSE g : Folds(g)
<1>1. SumOf(values) = g[DOMAIN values]
  BY Zenon DEF SumOf, FoldLeft, MapThenFoldSet
<1>2. 0 \in Int /\ step \in [Int \X Int -> Int]
  OBVIOUS
<1>3. N \in Nat /\ DOMAIN values = 1..N /\ values \in [1..N -> Int]
  OBVIOUS
<1>4. PICK h \in [SUBSET (1..N) -> Int] : IsFold(h, 0, step, N, values)
  <2> HIDE DEF step, N
  <2> QED
    BY <1>2, <1>3, FoldExists
<1>5. Folds(h)
  <2>1. ASSUME NEW s \in SUBSET (1..N), s # {}
        PROVE  step[<<h[s \ {Max(s)}], values[Max(s)]>>]
                 = h[s \ {Max(s)}] + values[Max(s)]
    <3>1. h[s \ {Max(s)}] \in Int /\ values[Max(s)] \in Int
      BY <1>3, <1>4, <2>1, MaxOfSome
    <3> QED
      BY <3>1
  <2> HIDE DEF step, N
  <2> QED
    BY <1>3, <1>4, <2>1 DEF IsFold
<1>6. Folds(g)
  <2> HIDE DEF Folds
  <2> QED
    BY <1>5
<1> HIDE DEF g, N
<1>7. ASSUME NEW n \in 0..(N - 1)
      PROVE  g[1..(n + 1)] = g[1..n] + values[n + 1]
  <2>1. /\ n \in Nat /\ 1..(n + 1) \in SUBSET (1..N)
        /\ n + 1 \in 1..(n + 1)
    BY <1>3
  <2>2. Max(1..(n + 1)) = n + 1 /\ (1..(n + 1)) \ {n + 1} = 1..n
    BY <2>1, FirstPlaces
  <2>3. 1..(n + 1) # {}
    BY <2>1
  <2> QED
    BY <1>3, <1>6, <2>1, <2>2, <2>3
<1>8. g[1..0] = 0
  BY <1>3, <1>6
<1> DEFINE loop == [n \in 0..N |-> g[1..n]]
           T == {n \in Nat : n <= N => g[1..n] \in Int}
<1>9. 0 \in T
  BY <1>8
<1>10. ASSUME NEW n \in Nat, n \in T
       PROVE  n + 1 \in T
  <2> SUFFICES ASSUME n + 1 <= N
               PROVE  g[1..(n + 1)] \in Int
    OBVIOUS
  <2>1. n \in 0..(N - 1) /\ g[1..n] \in Int /\ values[n + 1] \in Int
    BY <1>3, <1>10
  <2> QED
    BY <1>7, <2>1
<1>11. Nat \subseteq T
  <2> HIDE DEF T
  <2> QED
    BY <1>9, <1>10, SetInduction
<1>12. loop \in [0..N -> Int]
  BY <1>3, <1>11
<1>13. loop[0] = 0 /\ \A n \in 0..(N - 1) : loop[n + 1] = loop[n] + values[n + 1]
  BY <1>3, <1>7, <1>8
<1>14. loop[N] = SumOf(values)
  BY <1>1, <1>3
<1> HIDE DEF loop
<1> QED
  BY <1>12, <1>13, <1>14 DEF N, PartialSums

\* There is one such function.
LEMMA SumIs ==
  ASSUME NEW values \in Seq(Int), NEW L, PartialSums(L, values)
  PROVE  SumOf(values) = L[Len(values)]
<1>1. PICK M \in [0..Len(values) -> Int] :
        PartialSums(M, values) /\ M[Len(values)] = SumOf(values)
  BY SumLoop
<1> DEFINE T == {n \in Nat : n <= Len(values) => L[n] = M[n]}
<1>2. 0 \in T
  BY <1>1 DEF PartialSums
<1>3. ASSUME NEW n \in Nat, n \in T
      PROVE  n + 1 \in T
  <2> SUFFICES ASSUME n + 1 <= Len(values)
               PROVE  L[n + 1] = M[n + 1]
    OBVIOUS
  <2>1. n \in 0..(Len(values) - 1) /\ L[n] = M[n]
    BY <1>3
  <2> QED
    BY <1>1, <2>1 DEF PartialSums
<1>4. Len(values) \in Nat
  OBVIOUS
<1> HIDE DEF T
<1>5. Len(values) \in T
  BY <1>2, <1>3, <1>4, SetInduction
<1> QED
  BY <1>1, <1>4, <1>5 DEF T

\* The sums of the first values, up to each place.
LEMMA SumsAre ==
  ASSUME NEW values \in Seq(Int)
  PROVE  \E L \in [0..Len(values) -> Int] :
           /\ PartialSums(L, values)
           /\ L[Len(values)] = SumOf(values)
           /\ \A n \in 0..Len(values) : SumOf(SubSeq(values, 1, n)) = L[n]
<1>1. PICK L \in [0..Len(values) -> Int] :
        PartialSums(L, values) /\ L[Len(values)] = SumOf(values)
  BY SumLoop
<1>2. ASSUME NEW n \in 0..Len(values)
      PROVE  SumOf(SubSeq(values, 1, n)) = L[n]
  <2> DEFINE first == SubSeq(values, 1, n)
  <2>1. /\ first \in Seq(Int) /\ Len(first) = n
        /\ \A i \in 1..n : first[i] = values[i]
    BY SubSeqIs
  <2> HIDE DEF first
  <2>2. ASSUME NEW m \in 0..(n - 1)
        PROVE  L[m + 1] = L[m] + first[m + 1]
    <3>1. m \in 0..(Len(values) - 1) /\ m + 1 \in 1..n
      OBVIOUS
    <3> QED
      BY <1>1, <2>1, <3>1 DEF PartialSums
  <2>3. PartialSums(L, first)
    BY <1>1, <2>1, <2>2 DEF PartialSums
  <2> QED
    BY <2>1, <2>3, SumIs DEF first
<1> QED
  BY <1>1, <1>2

\* The walk ends at the first place where the sum exceeds the number.
LEMMA WalkEnds ==
  ASSUME NEW values \in Seq(Int), NEW r \in Nat, r < SumOf(values),
         NEW L \in [0..Len(values) -> Int], PartialSums(L, values),
         L[Len(values)] = SumOf(values),
         \A n \in 0..Len(values) : SumOf(SubSeq(values, 1, n)) = L[n]
  PROVE  LET i == FirstBeyond(values, r)
         IN  /\ i \in 1..Len(values)
             /\ L[i] > r
             /\ \A j \in 0..(i - 1) : L[j] <= r
<1> DEFINE N == Len(values)
           Beyond == {i \in 1..N : L[i] > r}
           First(i) == /\ SumOf(SubSeq(values, 1, i)) > r
                       /\ \A j \in 1..(i - 1) : SumOf(SubSeq(values, 1, j)) <= r
<1>1. N \in Nat /\ DOMAIN values = 1..N /\ L[0] = 0
  BY DEF PartialSums
<1>2. N # 0
  BY <1>1
<1>3. N \in Beyond /\ Beyond \subseteq Nat
  BY <1>1, <1>2
<1>4. PICK i \in Beyond : \A j \in Beyond : i <= j
  <2> HIDE DEF Beyond
  <2> QED
    BY <1>3, LeastNat
<1>5. \A j \in 1..(i - 1) : j \in 1..N /\ j \notin Beyond
  BY <1>1, <1>4
<1>6. First(i)
  BY <1>1, <1>4, <1>5
<1> HIDE DEF First
<1>7. FirstBeyond(values, r) = CHOOSE k \in 1..N : First(k)
  BY <1>1 DEF FirstBeyond, First
<1>8. PICK k \in 1..N : k = FirstBeyond(values, r) /\ First(k)
  BY <1>4, <1>6, <1>7
<1>9. L[k] > r /\ \A j \in 1..(k - 1) : j \in 0..N /\ L[j] <= r
  BY <1>1, <1>8 DEF First
<1>10. \A j \in 0..(k - 1) : j = 0 \/ j \in 1..(k - 1)
  BY <1>1, <1>8
<1> QED
  BY <1>1, <1>8, <1>9, <1>10

\* Without negative values the sums do not shrink.
LEMMA SumsGrow ==
  ASSUME NEW values \in Seq(Nat),
         NEW L \in [0..Len(values) -> Int], PartialSums(L, values)
  PROVE  \A m, n \in 0..Len(values) : m <= n => L[m] <= L[n]
<1> DEFINE T == {n \in Nat : n <= Len(values) => \A m \in 0..n : L[m] <= L[n]}
<1>1. Len(values) \in Nat /\ \A n \in 1..Len(values) : values[n] \in Nat
  OBVIOUS
<1>2. 0 \in T
  BY <1>1
<1>3. ASSUME NEW n \in Nat, n \in T
      PROVE  n + 1 \in T
  <2> SUFFICES ASSUME n + 1 <= Len(values), NEW m \in 0..(n + 1)
               PROVE  L[m] <= L[n + 1]
    OBVIOUS
  <2>1. n \in 0..(Len(values) - 1) /\ n + 1 \in 1..Len(values)
    BY <1>1
  <2>2. L[n + 1] = L[n] + values[n + 1] /\ values[n + 1] \in Nat
    BY <1>1, <2>1 DEF PartialSums
  <2>3. n \in 0..Len(values)
    BY <1>1, <2>1
  <2>4. L[n] \in Int
    BY <2>3
  <2>5. CASE m = n + 1
    BY <2>2, <2>4, <2>5
  <2>6. CASE m \in 0..n
    <3>1. m \in 0..Len(values)
      BY <2>3, <2>6
    <3>2. L[m] \in Int
      BY <3>1
    <3>3. L[m] <= L[n]
      BY <1>3, <2>3, <2>6
    <3> QED
      BY <2>2, <2>4, <3>2, <3>3
  <2>7. m = n + 1 \/ m \in 0..n
    BY <2>3
  <2> QED
    BY <2>5, <2>6, <2>7
<1> HIDE DEF T
<1>4. Nat \subseteq T
  BY <1>2, <1>3, SetInduction
<1> QED
  BY <1>1, <1>4 DEF T

\* v numbers begin at a.
LEMMA SizeOfInterval ==
  ASSUME NEW a \in Int, NEW v \in Nat
  PROVE  Cardinality(a..((a + v) - 1)) = v
<1>1. (a + v) - 1 \in Int
  OBVIOUS
<1>2. Cardinality(a..((a + v) - 1)) =
        IF a > (a + v) - 1 THEN 0 ELSE ((a + v) - 1) - a + 1
  BY <1>1, FS_Interval
<1> QED
  BY <1>2

\* As many numbers end the walk at a place as it has weight.
LEMMA WalkIsFair ==
  ASSUME NEW values \in Seq(Nat), NEW i \in DOMAIN values
  PROVE  Cardinality({r \in 0..(SumOf(values) - 1) : FirstBeyond(values, r) = i})
           = values[i]
<1>1. values \in Seq(Int) /\ DOMAIN values = 1..Len(values) /\ Len(values) \in Nat
  OBVIOUS
<1>2. PICK L \in [0..Len(values) -> Int] :
        /\ PartialSums(L, values)
        /\ L[Len(values)] = SumOf(values)
        /\ \A n \in 0..Len(values) : SumOf(SubSeq(values, 1, n)) = L[n]
  BY <1>1, SumsAre
<1> DEFINE total == SumOf(values)
<1>3. \A m, n \in 0..Len(values) : m <= n => L[m] <= L[n]
  BY <1>2, SumsGrow
<1>4. /\ i - 1 \in 0..(Len(values) - 1) /\ (i - 1) + 1 = i
      /\ i \in 0..Len(values) /\ i - 1 \in 0..Len(values)
      /\ values[i] \in Nat
  BY <1>1
<1>5. L[i] = L[i - 1] + values[i]
  BY <1>2, <1>4 DEF PartialSums
<1>6. /\ L[i] \in Int /\ L[i - 1] \in Int
      /\ total \in Int /\ L[i] <= total /\ 0 <= L[i - 1]
  <2>1. L[0] = 0
    BY <1>2 DEF PartialSums
  <2>2. 0 \in 0..Len(values) /\ Len(values) \in 0..Len(values)
    BY <1>1
  <2> QED
    BY <1>1, <1>2, <1>3, <1>4, <2>1, <2>2
<1> DEFINE low == L[i - 1]
           high == L[i]
<1>7. /\ low \in Int /\ high \in Int /\ total \in Int
      /\ high <= total /\ 0 <= low
      /\ high = low + values[i] /\ values[i] \in Nat
  BY <1>4, <1>5, <1>6
<1>8. ASSUME NEW r \in 0..(total - 1)
      PROVE  FirstBeyond(values, r) = i <=> low <= r /\ r < high
  <2> DEFINE k == FirstBeyond(values, r)
  <2>1. r \in Nat /\ r < SumOf(values)
    BY <1>7 DEF total
  <2>2. k \in 1..Len(values) /\ L[k] > r /\ \A j \in 0..(k - 1) : L[j] <= r
    BY <1>1, <1>2, <2>1, WalkEnds
  <2>3. k \in Nat /\ i \in Nat /\ r \in Int
    BY <1>1, <2>1, <2>2
  <2> HIDE DEF k
  <2>4. CASE k = i
    <3>1. high > r /\ low <= r
      BY <1>4, <2>2, <2>4
    <3> HIDE DEF low, high
    <3> QED
      BY <1>7, <2>1, <2>4, <3>1 DEF k
  <2>5. CASE k < i
    <3>1. k \in 0..Len(values) /\ k <= i - 1
      BY <1>1, <1>4, <2>2, <2>5
    <3>2. L[k] \in Int
      BY <3>1
    <3>3. L[k] <= low
      BY <1>3, <1>4, <3>1
    <3>4. L[k] > r /\ k # i
      BY <2>3, <2>2, <2>5
    <3> HIDE DEF low, high
    <3>5. ~(low <= r)
      <4>1. low \in Int
        BY <1>7
      <4> QED
        BY <2>3, <3>2, <3>3, <3>4, <4>1
    <3> QED
      BY <3>4, <3>5 DEF k
  <2>6. CASE k > i
    <3>1. i \in 0..(k - 1) /\ k # i
      BY <2>3, <2>6
    <3>2. high <= r
      BY <2>2, <3>1
    <3> HIDE DEF low, high
    <3>3. ~(r < high)
      BY <1>7, <2>1, <3>2
    <3> QED
      BY <3>1, <3>3 DEF k
  <2>7. k < i \/ k = i \/ k > i
    BY <1>1, <2>2
  <2> HIDE DEF low, high
  <2> QED
    BY <2>4, <2>5, <2>6, <2>7
<1> HIDE DEF total, low, high
<1>9. {r \in 0..(total - 1) : FirstBeyond(values, r) = i} = low..(high - 1)
  <2>1. \A r \in low..(high - 1) : r \in 0..(total - 1) /\ low <= r /\ r < high
    BY <1>7
  <2>2. \A r \in 0..(total - 1) : low <= r /\ r < high => r \in low..(high - 1)
    BY <1>7
  <2> QED
    BY <1>8, <2>1, <2>2
<1>10. Cardinality(low..(high - 1)) = values[i]
  BY <1>7, SizeOfInterval
<1> QED
  BY <1>9, <1>10 DEF total

\* For any weights, each mutation has the chance of its weight (knobs.cc:21-43).
THEOREM KnobsAreFair == \A values \in Seq(Nat) : KnobsChooseByWeight(values)
<1> SUFFICES ASSUME NEW values \in Seq(Nat), NEW i \in DOMAIN values
             PROVE  /\ SumOf(values) = 0 =>
                         Cardinality({r \in 0..(Len(values) - 1) :
                                        KnobsChoose(values, r) = i}) = 1
                    /\ SumOf(values) # 0 =>
                         Cardinality({r \in 0..(SumOf(values) - 1) :
                                        KnobsChoose(values, r) = i}) = values[i]
  BY DEF KnobsChooseByWeight, Chances
<1>1. Len(values) \in Nat \ {0} /\ i \in 1..Len(values)
  OBVIOUS
<1>2. SumOf(values) \in Nat
  <2>1. values \in Seq(Int)
    OBVIOUS
  <2>2. PICK L \in [0..Len(values) -> Int] :
          PartialSums(L, values) /\ L[Len(values)] = SumOf(values)
    BY <2>1, SumLoop
  <2>3. /\ 0 \in 0..Len(values) /\ Len(values) \in 0..Len(values)
        /\ 0 <= Len(values)
    BY <1>1
  <2>4. L[0] <= L[Len(values)]
    BY <2>2, <2>3, SumsGrow
  <2> QED
    BY <2>2, <2>3, <2>4 DEF PartialSums
<1>3. CASE SumOf(values) = 0
  <2>1. \A r \in 0..(Len(values) - 1) : r % Len(values) = r
    BY <1>1, OwnRemainder
  <2>2. \A r \in 0..(Len(values) - 1) : KnobsChoose(values, r) = 1 + r
    BY <1>3, <2>1 DEF KnobsChoose
  <2>3. {r \in 0..(Len(values) - 1) : KnobsChoose(values, r) = i} = {i - 1}
    <3>1. /\ i - 1 \in 0..(Len(values) - 1) /\ 1 + (i - 1) = i
          /\ \A r \in 0..(Len(values) - 1) : 1 + r = i => r = i - 1
      BY <1>1
    <3> QED
      BY <2>2, <3>1
  <2> QED
    BY <1>3, <2>3, FS_Singleton
<1>4. CASE SumOf(values) # 0
  <2> DEFINE total == SumOf(values)
  <2>1. total \in Nat \ {0}
    BY <1>2, <1>4
  <2>2. \A r \in 0..(total - 1) : KnobsChoose(values, r) = FirstBeyond(values, r % total)
    BY <1>4 DEF KnobsChoose
  <2> HIDE DEF total
  <2>3. \A r \in 0..(total - 1) : r % total = r
    BY <2>1, OwnRemainder
  <2>4. {r \in 0..(total - 1) : KnobsChoose(values, r) = i}
          = {r \in 0..(total - 1) : FirstBeyond(values, r) = i}
    BY <2>2, <2>3
  <2> QED
    BY <1>4, <2>4, WalkIsFair DEF total
<1> QED
  BY <1>3, <1>4

\* For any weights whose sum is positive, a pick of a seed is fair if none is
\* negative, and ends at a seed of positive weight (seed_pool.cpp:104-119).
THEOREM SeedPicksAreFair == \A values \in Seq(Int) : PickSeedByWeight(values)
<1> SUFFICES ASSUME NEW values \in Seq(Int), SumOf(values) >= 1
             PROVE  /\ (\A i \in DOMAIN values : values[i] >= 0) =>
                         \A i \in DOMAIN values :
                           Cardinality({r \in 0..(SumOf(values) - 1) :
                                 pickSeed(FALSE, values, r) = i}) = values[i]
                    /\ \A r \in 0..(SumOf(values) - 1) :
                         /\ values[pickSeed(FALSE, values, r)] > 0
                         /\ SumOf(SubSeq(values, 1, pickSeed(FALSE, values, r))) > r
  BY DEF PickSeedByWeight, PickIsDefined, Chances
<1> DEFINE total == SumOf(values)
           N == Len(values)
<1>1. PICK L \in [0..N -> Int] :
        /\ PartialSums(L, values)
        /\ L[N] = SumOf(values)
        /\ \A n \in 0..N : SumOf(SubSeq(values, 1, n)) = L[n]
  BY SumsAre
<1>2. /\ N \in Nat /\ DOMAIN values = 1..N /\ L[0] = 0
      /\ \A n \in 1..N : values[n] \in Int
  BY <1>1 DEF PartialSums
<1>3. N \in 0..N /\ L[N] \in Int
  BY <1>1, <1>2
<1>4. total \in Nat \ {0} /\ N # 0
  BY <1>1, <1>2, <1>3
<1> HIDE DEF total, N
<1>5. ASSUME NEW r \in 0..(total - 1)
      PROVE  /\ r \in Nat /\ r < SumOf(values)
             /\ pickSeed(FALSE, values, r) = FirstBeyond(values, r)
  <2>1. r % total = r /\ r \in Nat /\ r < total /\ (1 + r) - 1 = r
    BY <1>4, OwnRemainder
  <2>2. values # <<>>
    BY <1>2, <1>4 DEF N
  <2>3. N \in DOMAIN values /\ SumOf(SubSeq(values, 1, N)) >= 1 + r
    BY <1>1, <1>2, <1>3, <1>4, <2>1 DEF total
  <2>4. pickSeed(FALSE, values, r) = val_pickSeed(values, 1 + r)
    BY <2>1, <2>2 DEF pickSeed, total
  <2>5. val_pickSeed(values, 1 + r) = FirstBeyond(values, r)
    BY <2>1, <2>3 DEF val_pickSeed
  <2> QED
    BY <2>1, <2>4, <2>5 DEF total
<1>6. ASSUME \A i \in DOMAIN values : values[i] >= 0, NEW i \in DOMAIN values
      PROVE  Cardinality({r \in 0..(total - 1) : pickSeed(FALSE, values, r) = i})
               = values[i]
  <2>1. values \in Seq(Nat)
    <3>1. \A n \in DOMAIN values : values[n] \in Nat
      <4>1. \A n \in DOMAIN values : values[n] \in Int
        BY <1>2
      <4> QED
        BY <1>6, <4>1
    <3> QED
      BY <3>1
  <2>2. {r \in 0..(total - 1) : pickSeed(FALSE, values, r) = i}
          = {r \in 0..(total - 1) : FirstBeyond(values, r) = i}
    BY <1>5
  <2> QED
    BY <2>1, <2>2, WalkIsFair DEF total
<1>7. ASSUME NEW r \in 0..(total - 1)
      PROVE  /\ values[FirstBeyond(values, r)] > 0
             /\ SumOf(SubSeq(values, 1, FirstBeyond(values, r))) > r
  <2> DEFINE k == FirstBeyond(values, r)
  <2>1. k \in 1..N /\ L[k] > r /\ \A j \in 0..(k - 1) : L[j] <= r
    BY <1>1, <1>5, WalkEnds DEF N
  <2> HIDE DEF k
  <2>2. k - 1 \in 0..(N - 1) /\ (k - 1) + 1 = k /\ k \in 0..N /\ k - 1 \in 0..(k - 1)
    BY <1>2, <2>1
  <2>3. L[k] = L[k - 1] + values[k] /\ L[k - 1] <= r
    BY <1>1, <2>1, <2>2 DEF PartialSums, N
  <2>4. k - 1 \in 0..N
    BY <1>2, <2>2
  <2>5. L[k] \in Int /\ L[k - 1] \in Int /\ values[k] \in Int /\ r \in Int
    BY <1>1, <1>2, <1>5, <2>1, <2>2, <2>4
  <2>6. values[k] > 0
    BY <2>1, <2>3, <2>5
  <2>7. SumOf(SubSeq(values, 1, k)) > r
    BY <1>1, <2>1, <2>2
  <2> QED
    BY <2>6, <2>7 DEF k
<1> QED
  BY <1>5, <1>6, <1>7 DEF total
=============================================================================
