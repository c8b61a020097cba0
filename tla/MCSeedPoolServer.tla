-------------------------- MODULE MCSeedPoolServer --------------------------
(***************************************************************************)
(* Small instances of SeedPoolServer for TLC.                              *)
(***************************************************************************)
EXTENDS SeedPoolServer

CONSTANTS f1, f2, r1    \* two file pools and a regular one

TwoFilePools == {f1, f2}
OneWithFolder == {f1}
FilePoolsInOrder == <<f1, f2>>
OneRegularPool == <<r1>>

\* Two initial seeds of one name in two folders, as in test/input_seed.
NamesakeSeeds ==
    [p \in TwoFilePools |->
        IF p = f1 THEN {Seed(-1, -1, 1), Seed(-2, -1, 1)} ELSE {}]

\* With 8 as IntHalf: numbers that fit, one that becomes 1 and one that
\* becomes negative.
SomeNums == {0, 1, 2, 17, 8}
JustTwo == {2}
OneAndTwo == {1, 2}
=============================================================================
