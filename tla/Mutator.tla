------------------------------ MODULE Mutator ------------------------------
(***************************************************************************)
(* The mutator of byte arrays (mutator.cc) with the weights that choose a  *)
(* mutation (knobs.cc).  Only the sizes of arrays and dictionary entries   *)
(* are kept: no mutation looks at the bytes.  A random number is any       *)
(* number.                                                                 *)
(*                                                                         *)
(* Sizes are size_t: what is subtracted below zero wraps around.  Division *)
(* by zero ends the program, as it does on the machines ROS 2 runs on with *)
(* an x86 processor.                                                       *)
(***************************************************************************)
EXTENDS Naturals

CONSTANTS
    SizeMax,            \* numeric_limits<size_t>::max()
    kMaxInsertSize,     \* the buffer of InsertBytes()
    kMaxEntrySize,      \* the most bytes of a dictionary entry
    Alignments,         \* the arguments of set_size_alignment()
    Limits,             \* those of set_max_len()
    DataSizes,          \* the sizes of the arrays that callers mutate
    MaxSize             \* bound: longer arrays are mutated no further

ASSUME MutatorAssumption ==
    /\ kMaxInsertSize \in Nat \ {0}
    /\ kMaxEntrySize \in Nat \ {0}
    /\ SizeMax \in Nat /\ kMaxInsertSize < SizeMax
    /\ Alignments \subseteq 0..SizeMax
    /\ Limits \subseteq 0..SizeMax
    /\ MaxSize \in Nat
    /\ DataSizes \subseteq 0..MaxSize

\* Arrays and alignments are far smaller than what a size_t may hold.
ASSUME SizesFit ==
    /\ MaxSize + kMaxEntrySize <= SizeMax
    /\ \A a \in Alignments \cup {1} : MaxSize + kMaxInsertSize + a <= SizeMax

VARIABLES
    size_alignment_, max_len_,
    dictionary_,    \* the sizes of its entries
    knobs_,         \* the weight of each mutation
    size,           \* the size of the array at hand
    did,            \* the mutation that took place last, or "none"
    fault           \* "overrun": InsertBytes() wrote behind its buffer;
                    \* "divided": by zero, which ended the program; or "none"

settings == <<size_alignment_, max_len_, dictionary_, knobs_>>
mutatorVars == <<settings, size, did, fault>>

Unlimited == SizeMax

\* The knobs of the three strategies: each has those of the one before.
strat1_ == {"EraseBytes"}
strat2_ == strat1_ \cup
    {"FlipBit", "SwapBytes", "ChangeByte", "OverwriteFromDictionary"}
strat3_ == strat2_ \cup {"InsertBytes", "InsertFromDictionary"}

\* Knobs::Choose() for any random number: a knob of the strategy, by weight,
\* or any of them if all weights are zero.
Choose(knob_ids) ==
    LET weighted == {id \in knob_ids : knobs_[id] > 0}
    IN  IF weighted = {} THEN knob_ids ELSE weighted

-----------------------------------------------------------------------------
(* The sizes.                                                              *)

Wrap(n) == n % (SizeMax + 1)

\* The rounding of sizes, for alignments other than zero.
RoundUpToAdd(curr_size, to_add) ==
    LET remainder == (curr_size + to_add) % size_alignment_
        rounded == IF remainder # 0 THEN to_add + size_alignment_ - remainder
                                    ELSE to_add
    IN  IF curr_size >= max_len_ THEN 0
        ELSE IF curr_size + rounded > max_len_ THEN max_len_ - curr_size
        ELSE rounded

\* Fault: the maximal length is not looked at.
RemoveUnlimited(curr_size, to_remove) ==
    LET kept == curr_size - to_remove
        result_size == kept - (kept % size_alignment_)
    IN  IF curr_size <= size_alignment_ THEN 0
        ELSE IF to_remove >= curr_size \/ result_size = 0
             THEN curr_size - size_alignment_
        ELSE curr_size - result_size

RoundDownToRemove(curr_size, to_remove) ==
    LET kept == curr_size - to_remove
        result_size == kept - (kept % size_alignment_)
    IN  IF curr_size <= size_alignment_ THEN 0
        ELSE IF to_remove >= curr_size THEN curr_size - size_alignment_
        ELSE IF result_size > max_len_ THEN curr_size - max_len_
        ELSE IF result_size = 0 THEN curr_size - size_alignment_
        ELSE curr_size - result_size

\* Fault: what rounding has added is not taken back.
BytesRoundedUp(data, n) == RoundUpToAdd(data, n)

\* How many bytes InsertBytes() fills in and inserts.
BytesToInsert(data, n) ==
    LET to_add == RoundUpToAdd(data, n)
    IN  IF to_add > kMaxInsertSize
        THEN Wrap(to_add + SizeMax + 1 - size_alignment_)
        ELSE to_add

-----------------------------------------------------------------------------
(* The mutations: what one call does to an array of data bytes if it       *)
(* returns true.                                                           *)

\* FlipBit(), SwapBytes() and ChangeByte()
ChangeBytes(data) == data > 0 /\ size' = data /\ UNCHANGED fault

OverwriteFromDictionary(data) ==
    /\ \E n \in dictionary_ : n <= data
    /\ size' = data
    /\ UNCHANGED fault

EraseBytes(data) ==
    /\ data > size_alignment_
    /\ \E n \in 1..(data \div 2) :
         /\ RoundDownToRemove(data, n) # 0
         /\ size' = data - RoundDownToRemove(data, n)
    /\ UNCHANGED fault

InsertBytes(data) ==
    \E n \in 1..kMaxInsertSize :
      IF BytesToInsert(data, n) > kMaxInsertSize
      THEN fault' = "overrun" /\ size' = data
      ELSE size' = data + BytesToInsert(data, n) /\ UNCHANGED fault

InsertFromDictionary(data) ==
    /\ \E n \in dictionary_ : size' = data + n
    /\ UNCHANGED fault

Apply(id, data) ==
    \/ id = "EraseBytes" /\ EraseBytes(data)
    \/ id \in {"FlipBit", "SwapBytes", "ChangeByte"} /\ ChangeBytes(data)
    \/ id = "OverwriteFromDictionary" /\ OverwriteFromDictionary(data)
    \/ id = "InsertBytes" /\ InsertBytes(data)
    \/ id = "InsertFromDictionary" /\ InsertFromDictionary(data)

\* When a call returns false; nothing has changed then.
MayRefuse(id, data) ==
    \/ /\ id = "EraseBytes"
       /\ \/ data <= size_alignment_
          \/ \E n \in 1..(data \div 2) : RoundDownToRemove(data, n) = 0
    \/ id \in {"FlipBit", "SwapBytes", "ChangeByte"} /\ data = 0
    \/ /\ id = "OverwriteFromDictionary"
       /\ dictionary_ = {} \/ \E n \in dictionary_ : n > data
    \/ id = "InsertFromDictionary" /\ dictionary_ = {}

\* Each size that is rounded is divided by the alignment; and of one byte,
\* EraseBytes() takes a number modulo the half.
DividesByZero(id, data) ==
    /\ size_alignment_ = 0
    /\ \/ id = "InsertBytes"
       \/ id = "EraseBytes" /\ data > 0

Strategy(data) ==
    IF data > max_len_ THEN strat1_
    ELSE IF data = max_len_ THEN strat2_
    ELSE strat3_

\* One call for an array of data bytes: up to 15 mutations are tried until one
\* takes place.
Mutate(data) ==
    /\ fault = "none"
    /\ data <= MaxSize
    /\ \E id \in Choose(Strategy(data)) :
         IF DividesByZero(id, data)
         THEN fault' = "divided" /\ did' = "none" /\ size' = data
         ELSE \/ Apply(id, data) /\ did' = id
              \/ /\ MayRefuse(id, data)
                 /\ did' = "none" /\ size' = data /\ UNCHANGED fault
    /\ UNCHANGED settings

-----------------------------------------------------------------------------
(* The callers.                                                            *)

MutatorInit ==
    /\ size_alignment_ = 1
    /\ max_len_ = Unlimited
    /\ dictionary_ = 1..(IF kMaxEntrySize < 8 THEN kMaxEntrySize ELSE 8)
    /\ knobs_ = [id \in strat3_ |-> 0]
    /\ size \in DataSizes
    /\ did = "none"
    /\ fault = "none"

\* The tests of both setters divide by the alignment, if there is a limit.
set_size_alignment(size_alignment) ==
    /\ IF max_len_ # Unlimited /\ size_alignment = 0
       THEN fault' = "divided" /\ UNCHANGED size_alignment_
       ELSE /\ max_len_ # Unlimited => max_len_ % size_alignment = 0
            /\ size_alignment_' = size_alignment
            /\ UNCHANGED fault
    /\ UNCHANGED <<max_len_, dictionary_, knobs_, size>>

set_max_len(max_len) ==
    /\ IF max_len # Unlimited /\ size_alignment_ = 0
       THEN fault' = "divided" /\ UNCHANGED max_len_
       ELSE /\ max_len # Unlimited => max_len % size_alignment_ = 0
            /\ max_len_' = max_len
            /\ UNCHANGED fault
    /\ UNCHANGED <<size_alignment_, dictionary_, knobs_, size>>

\* A longer entry, up to 255 bytes, is a trap in the constructor of DictEntry.
add_dictionary(n) ==
    /\ n \in 0..kMaxEntrySize
    /\ dictionary_' = dictionary_ \cup {n}
    /\ UNCHANGED <<size_alignment_, max_len_, knobs_, size, fault>>

\* Knobs::Set(), with all weights zero or one knob alone.
SetKnobs ==
    /\ \E ids \in {strat3_} \cup {{id} : id \in strat3_} :
         knobs_' = [id \in strat3_ |-> IF id \in ids THEN 1 ELSE 0]
    /\ UNCHANGED <<size_alignment_, max_len_, dictionary_, size, fault>>

\* The caller turns to other data.
TakeData ==
    /\ size' \in DataSizes
    /\ UNCHANGED <<settings, fault>>

Configure ==
    /\ fault = "none"
    /\ did' = "none"
    /\ \/ \E a \in Alignments : set_size_alignment(a)
       \/ \E m \in Limits \cup {Unlimited} : set_max_len(m)
       \/ add_dictionary(kMaxEntrySize)
       \/ SetKnobs
       \/ TakeData

-----------------------------------------------------------------------------

\* Every variable has a value of its kind.
MutatorTypeOK ==
    /\ size_alignment_ \in Alignments \cup {1}
    /\ max_len_ \in Limits \cup {Unlimited}
    /\ dictionary_ \subseteq 0..kMaxEntrySize
    /\ knobs_ \in [strat3_ -> 0..255]
    /\ size \in 0..SizeMax
    /\ did \in strat3_ \cup {"none"}
    /\ fault \in {"none", "overrun", "divided"}

\* InsertBytes() stays inside its array new_bytes, and the size it rounds
\* never wraps around, for every alignment up to the size of that array
\* (mutator.cc:88-99).
InsertFits == fault = "overrun" => size_alignment_ > kMaxInsertSize

\* What one call of Mutate() makes of the size of its data, where it does as
\* mutator.h says: data that are too long come back to the limit, and data
\* within it stay there, but for an entry of the dictionary, which may be
\* inserted past it; what was erased or inserted otherwise leaves the size
\* aligned; and no data become empty, unless the limit is zero.
MutantSizeIsRight(data) ==
    /\ did' # "none" /\ data > max_len_ /\ max_len_ > 0 => size' <= max_len_
    /\ data <= max_len_ =>
         size' <= max_len_ + (IF did' = "InsertFromDictionary" /\ data < max_len_
                              THEN kMaxEntrySize - 1 ELSE 0)
    /\ data > 0 /\ max_len_ > 0 => size' > 0
    /\ did' \in {"EraseBytes", "InsertBytes"} /\ fault' = "none" =>
         size' % size_alignment_ = 0

=============================================================================
