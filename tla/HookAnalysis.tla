---------------------------- MODULE HookAnalysis ----------------------------
(***************************************************************************)
(* HookCommunicator::analysis() (hook_communicator.cpp): from the call     *)
(* stacks of one run of the target to the concurrency coverage.            *)
(*                                                                         *)
(* A pair joins a lifecycle-related call stack, LCS, with any call stack,  *)
(* GCS, that another thread ran meanwhile.  The pairs of one LCS and one   *)
(* thread form a sequence, ordered by the start of the GCS.  Sequences are *)
(* compared by their functions only: Key() gives what is compared, and the *)
(* covered sequences, of which nothing else matters, are kept as keys.     *)
(***************************************************************************)
EXTENDS Naturals, SequencesExt

CONSTANTS
    FuncHashes, Threads,    \* what a call stack names
    Schedules,              \* what a run of the target can put in info_queue_
    lifecycle_func_hash_,   \* the functions of interest; all, if it is empty
    MaxRounds               \* bound: how many runs are analysed

CallStackInfo == [start_time : Nat, end_time : Nat, func_hash : FuncHashes,
                  thread_id : Threads]

\* Nothing more is known of a schedule: two calls may even bear the same times.
ASSUME AnalysisAssumption ==
    MaxRounds \in Nat /\ Schedules \subseteq Seq(CallStackInfo)

VARIABLES
    func_schedule_,         \* the call stacks that were analysed last
    combined,               \* tmp_covered_lifecycle_pair_sequences_
    covered,                \* covered_lifecycle_pair_sequences_, as keys
    total_con_cov_,
    con_cov_up_,
    round                   \* how many runs were analysed

vars == <<func_schedule_, combined, covered, total_con_cov_, con_cov_up_, round>>

Init ==
    /\ func_schedule_ = <<>>
    /\ combined = <<>>
    /\ covered = <<>>
    /\ total_con_cov_ = 0
    /\ con_cov_up_ = 0
    /\ round = 0

-----------------------------------------------------------------------------
(* Steps 1 and 2: the pairs, in the order of the two loops *)

\* The elements of seq that belong to the set, in their order.
Keep(seq, set) ==
    FoldLeft(LAMBDA kept, e : IF e \in set THEN Append(kept, e) ELSE kept,
             <<>>, seq)

is_concurrent(a, b) ==
    /\ a.thread_id # b.thread_id
    /\ a.start_time < b.end_time
    /\ b.start_time < a.end_time

IsLifecycle(info) ==
    lifecycle_func_hash_ = {} \/ info.func_hash \in lifecycle_func_hash_

Pair(LCS, GCS) == [LCS |-> LCS, GCS |-> GCS]

PairsOf(LCS, infos) ==
    LET partners == Keep(infos, {GCS \in Range(infos) : is_concurrent(LCS, GCS)})
    IN  [i \in DOMAIN partners |-> Pair(LCS, partners[i])]

Pairs(infos) ==
    LET lifecycle == Keep(infos, {info \in Range(infos) : IsLifecycle(info)})
    IN  FoldLeft(LAMBDA pairs, LCS : pairs \o PairsOf(LCS, infos), <<>>, lifecycle)

-----------------------------------------------------------------------------
(* Step 3: a pair goes into the first sequence it belongs to, or a new one *)

BelongsTo(pair, sequence) ==
    \E i \in DOMAIN sequence :
        /\ sequence[i].LCS = pair.LCS
        /\ sequence[i].GCS.thread_id = pair.GCS.thread_id

\* Fault: the pair goes after all those that start no later than it ends.
InsertByEnd(sequence, pair) ==
    LET place == SelectInSeq(sequence, LAMBDA p :
                   pair.GCS.end_time < p.GCS.start_time)
    IN  InsertAt(sequence, IF place = 0 THEN Len(sequence) + 1 ELSE place, pair)

InsertInOrder(sequence, pair) ==
    LET place == SelectInSeq(sequence, LAMBDA p :
                   pair.GCS.start_time < p.GCS.start_time)
    IN  InsertAt(sequence, IF place = 0 THEN Len(sequence) + 1 ELSE place, pair)

InsertPair(sequences, pair) ==
    LET home == SelectInSeq(sequences, LAMBDA s : BelongsTo(pair, s))
    IN  IF home = 0 THEN Append(sequences, <<pair>>)
        ELSE [sequences EXCEPT ![home] = InsertInOrder(@, pair)]

Combine(pairs) == FoldLeft(InsertPair, <<>>, pairs)

-----------------------------------------------------------------------------
(* Step 4: the sequences of this run against those covered before *)

Key(sequence) ==
    [i \in DOMAIN sequence |->
        <<sequence[i].LCS.func_hash, sequence[i].GCS.func_hash>>]

\* Fault: the first pairs are compared, whichever sequence is exhausted first.
agrees_with(s, t) ==
    \A i \in DOMAIN s \cap DOMAIN t : s[i] = t[i]

is_prefix_of(s, t) ==
    Len(s) <= Len(t) /\ \A i \in DOMAIN s : s[i] = t[i]

\* Fault: nothing is erased.
EraseNothing(s, old) == old

\* What the inner loop leaves of the covered sequences when it compares s with
\* them: it erases prefixes of s until it finds s to be a prefix of one.
EraseLoop(s, old) ==
    LET found == SelectInSeq(old, LAMBDA t : is_prefix_of(s, t))
        stop  == IF found = 0 THEN Len(old) ELSE found - 1
    IN  Keep(SubSeq(old, 1, stop), {t \in Range(old) : ~is_prefix_of(t, s)})
            \o SubSeq(old, stop + 1, Len(old))

IsCovered(s, old) == \E i \in DOMAIN old : is_prefix_of(s, old[i])

\* Fault: a sequence that is covered counts as a new one.
MergeUntested(result, s) ==
    [old |-> EraseLoop(s, result.old), added |-> Append(result.added, s)]

MergeOne(result, s) ==
    [old   |-> EraseLoop(s, result.old),
     added |-> IF IsCovered(s, result.old) THEN result.added
               ELSE Append(result.added, s)]

Merge(old, sequences) ==
    FoldLeft(MergeOne, [old |-> old, added |-> <<>>], sequences)

-----------------------------------------------------------------------------

Analysis(infos) ==
    LET sequences == Combine(Pairs(infos))
        result == Merge(covered, [i \in DOMAIN sequences |-> Key(sequences[i])])
    IN  /\ round < MaxRounds
        /\ round' = round + 1
        /\ func_schedule_' = infos
        /\ combined' = sequences
        /\ covered' = result.old \o result.added
        /\ total_con_cov_' = Len(covered')
        /\ con_cov_up_' = Len(result.added)

Next == \E infos \in Schedules : Analysis(infos)

Spec == Init /\ [][Next]_vars

-----------------------------------------------------------------------------
(* Properties *)

\* What step 3 is to produce: the pairs of one LCS with the call stacks of one
\* thread, for each LCS and thread.
Groups ==
    LET infos == Range(func_schedule_)
        pairs == {Pair(L, G) : L \in {i \in infos : IsLifecycle(i)}, G \in infos}
        concurrent == {p \in pairs : is_concurrent(p.LCS, p.GCS)}
    IN  {{q \in concurrent :
             q.LCS = p.LCS /\ q.GCS.thread_id = p.GCS.thread_id} : p \in concurrent}

\* The loops of hook_communicator.cpp:43-99, which look for a home for each
\* pair and rebuild a queue around it, make one sequence of each group, ordered
\* by the start of the GCS, and with each pair once unless a call stack came twice.
CombinedIsGrouping ==
    /\ {Range(combined[i]) : i \in DOMAIN combined} = Groups
    /\ \A i, j \in DOMAIN combined :
         i # j => Range(combined[i]) # Range(combined[j])
    /\ \A i \in DOMAIN combined :
         \A j, k \in DOMAIN combined[i] :
            j < k =>
                combined[i][j].GCS.start_time <= combined[i][k].GCS.start_time
    /\ IsInjective(func_schedule_) =>
         \A i \in DOMAIN combined : IsInjective(combined[i])

\* The behaviours that a set of sequences covers: they and all their prefixes.
Behaviours(sequences) ==
    UNION {{SubSeq(sequences[i], 1, n) : n \in 1..Len(sequences[i])} :
             i \in DOMAIN sequences}

CombinedKeys == [i \in DOMAIN combined |-> Key(combined[i])]

\* An analysis adds to the covered behaviours those of this run, and neither
\* loses nor invents one, whatever it erases from the vector while it loops
\* over it (hook_communicator.cpp:105-128).
CoverageGrowsByRun ==
    [][Behaviours(covered') = Behaviours(covered) \cup Behaviours(CombinedKeys')]_vars

\* con_cov_up_, by which the fuzzer judges a run, is positive exactly when the
\* run showed a behaviour no run had shown before (hook_communicator.cpp:132).
GainIffNew ==
    [][con_cov_up_' > 0 <=> Behaviours(covered') # Behaviours(covered)]_vars

\* No sequence is a prefix of another, nor its equal.
Apart(sequences) ==
    \A i, j \in DOMAIN sequences :
      i # j => ~is_prefix_of(sequences[i], sequences[j])

\* An analysis keeps the covered sequences free of duplicates and prefixes, as
\* hook_communicator.hpp:45-46 says of step 4, unless the new sequences of its
\* own run are prefixes of one another: these it does not compare, and covers
\* and counts all of them (hook_communicator.cpp:105-128).
PrefixesAreOwn ==
    [][Apart(covered) /\ Apart(CombinedKeys') => Apart(covered')]_vars

=============================================================================
