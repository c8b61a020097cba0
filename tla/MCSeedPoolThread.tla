-------------------------- MODULE MCSeedPoolThread --------------------------
(***************************************************************************)
(* Small instances of SeedPoolThread for TLC.                              *)
(***************************************************************************)
EXTENDS SeedPoolThread

CONSTANTS s1, wide, huge  \* seeds: an ordinary one and two long ones

AllSeeds == {s1, wide, huge}
JustWide == {wide}
JustHuge == {huge}
OneSeed == {s1}
NoSeeds == {}
StoresAndPicks == AllSeeds \cup {PICK_SEED_REQUEST}
OnlyStores == {s1, wide}
=============================================================================
