--------------------------- MODULE MCHookAnalysis ---------------------------
(***************************************************************************)
(* Small instances of HookAnalysis for TLC.                                *)
(***************************************************************************)
EXTENDS HookAnalysis

CONSTANTS f, g      \* functions

Info(start, end, func, thread) ==
    [start_time |-> start, end_time |-> end, func_hash |-> func,
     thread_id |-> thread]

\* Two calls that overlap several of the other thread's, in either order of
\* their arrival, calls that start together, and calls that only touch.
SomeInfos ==
    {Info(0, 5, f, 1), Info(0, 2, f, 2), Info(0, 1, g, 2), Info(1, 3, g, 2),
     Info(2, 4, f, 2), Info(5, 6, g, 2), Info(1, 4, g, 3)}

\* Each call once, in any order.
ShortSchedules ==
    {s \in BoundedSeq(SomeInfos, 3) :
       \A i, j \in DOMAIN s : i # j => s[i] # s[j]}

\* As above with four calls, two of which are long.
TwoThreads == {Info(0, 5, f, 1), Info(1, 2, f, 2), Info(3, 4, g, 2), Info(1, 6, f, 3)}
LongerSchedules ==
    {s \in BoundedSeq(TwoThreads, 4) : \A i, j \in DOMAIN s : i # j => s[i] # s[j]}

\* Two calls that bear the same function and times.
TwiceReported == BoundedSeq({Info(0, 5, f, 1), Info(1, 3, g, 2)}, 3)

AllSchedules == ShortSchedules \cup LongerSchedules \cup TwiceReported
AnyFunction == {}
Functions2 == {f, g}
Threads3 == 1..3
=============================================================================
