--------------------------- MODULE WeightedChoice ---------------------------
(***************************************************************************)
(* The two choices by weight: Knobs::Choose() takes a mutation (knobs.cc), *)
(* SeedPool::pickSeed() a seed (seed_pool.cpp).  Both draw a random number *)
(* and walk along the weights until their sum reaches it.  A choice is the *)
(* place of what is chosen; a seed pool is the sequence of its weights.    *)
(***************************************************************************)
EXTENDS Integers, SequencesExt

SumOf(values) == FoldLeft(+, 0, values)

\* The first place up to which the weights sum up to more than the number.
FirstBeyond(values, number) ==
    CHOOSE i \in DOMAIN values :
      /\ SumOf(SubSeq(values, 1, i)) > number
      /\ \A j \in 1..(i - 1) : SumOf(SubSeq(values, 1, j)) <= number

\* Knobs::Choose(): if all weights are zero, as if they were equal.
KnobsChoose(values, random) ==
    IF SumOf(values) = 0 THEN 1 + (random % Len(values))
    ELSE FirstBeyond(values, random % SumOf(values))

\* uniform_int_distribution<>(1, totalWeight) has no meaning below 1.
PickIsDefined(values) == SumOf(values) >= 1

val_pickSeed(values, randomWeight) ==
    IF \E i \in DOMAIN values : SumOf(SubSeq(values, 1, i)) >= randomWeight
    THEN FirstBeyond(values, randomWeight - 1)
    ELSE Len(values)

ave_pickSeed(values, random) == 1 + (random % Len(values))

\* 0 stands for the seed without content that an empty pool yields.
pickSeed(ave_possibility_, values, random) ==
    IF values = <<>> THEN 0
    ELSE IF ave_possibility_ THEN ave_pickSeed(values, random)
    ELSE val_pickSeed(values, 1 + (random % SumOf(values)))

-----------------------------------------------------------------------------

\* How many of the random numbers below the total pick place i.
Chances(i, Pick(_), total) == Cardinality({r \in 0..(total - 1) : Pick(r) = i})

\* A mutation is chosen by exactly as many random numbers as it has weight, so
\* that one of weight zero is never chosen; if all weights are zero, each is
\* chosen by one (knobs.h:84-89).
KnobsChooseByWeight(values) ==
    LET total == SumOf(values)
        Pick(r) == KnobsChoose(values, r)
    IN  \A i \in DOMAIN values :
          IF total = 0 THEN Chances(i, Pick, Len(values)) = 1
                       ELSE Chances(i, Pick, total) = values[i]

\* A seed is picked by as many numbers as it has weight.  Where some weights
\* are negative the pick is no longer fair, but still a seed of positive weight
\* at which the walk has come to its end: unless the sum is below 1, the last
\* line of val_pickSeed() is not reached (seed_pool.cpp:104-119).
PickSeedByWeight(values) ==
    LET total == SumOf(values)
        Pick(r) == pickSeed(FALSE, values, r)
    IN  PickIsDefined(values) =>
          /\ (\A i \in DOMAIN values : values[i] >= 0) =>
               \A i \in DOMAIN values : Chances(i, Pick, total) = values[i]
          /\ \A r \in 0..(total - 1) :
               /\ values[Pick(r)] > 0
               /\ SumOf(SubSeq(values, 1, Pick(r))) > r

=============================================================================
