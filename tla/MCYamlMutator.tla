--------------------------- MODULE MCYamlMutator ---------------------------
(* Nodes as those of a seed, and sizes and limits on both sides of every    *)
(* test, for TLC.                                                           *)
EXTENDS YamlMutator, WeightedChoice

MCKeys == {"pose", "flags", "frame", "x", "n"}
MapOf(fields) ==
    Map([key \in MCKeys |-> IF key \in DOMAIN fields THEN fields[key] ELSE Absent])

Point == MapOf([x |-> Scalar("decimal"), n |-> Scalar("whole")])
Flags == List(<<Scalar("bool"), Scalar("word"), Scalar("large")>>)

MCCorpora ==
    {MapOf([pose |-> Point, flags |-> Flags, frame |-> Scalar("word")]),
     List(<<Point, Scalar("null"), List(<<Scalar("nan")>>)>>),
     List(<<MapOf(<<>>), Scalar("whole")>>)}

MCAlignments == {0, 1, 2, 4, 5, 6}
MCLimits == {0, 2, 4, 8, 12}
MCDataSizes == {0, 1, 2, 3, 5, 8, 13}

(* The choices by weight, for every short sequence of small weights.        *)
SmallWeights(low) == UNION {[1..n -> low..3] : n \in 1..4}

ASSUME KnobsAreChosenByWeight ==
    \A values \in SmallWeights(0) : KnobsChooseByWeight(values)

ASSUME SeedsArePickedByWeight ==
    \A values \in SmallWeights(-2) : PickSeedByWeight(values)

=============================================================================
