---------------------------- MODULE FileSeedPool ----------------------------
(***************************************************************************)
(* What file_seed_pool_thread.cpp adds to a seed pool: a seed is a file.   *)
(* A store copies the file into the pool's temporary folder, under a name  *)
(* made of the time in seconds; restore_for_future() copies the most       *)
(* valuable seeds into a folder beside the initial seeds, under names made *)
(* of the time and of the old name; clean_up_tmp_seeds() removes the       *)
(* temporary folder.                                                       *)
(*                                                                         *)
(* All of this happens in the process of the pools (SeedPoolServer).  A    *)
(* store and its acknowledgement are one step here, and so are the         *)
(* front(), add and pop() of the update thread: SeedPoolThread has them    *)
(* step by step.  The order of seeds of equal value in the priority queue  *)
(* is left open.  Of picks only matters that one which finds nothing       *)
(* prepared leaves the mutex of its pool locked for ever.                  *)
(***************************************************************************)
EXTENDS Integers, Sequences, FiniteSets, Functions

CONSTANTS
    FilePools,      \* the pools, each a FileSeedPoolThread
    InitFolder,     \* those that were given a folder of initial seeds
    InitialSeeds,   \* the seeds init_seeds() found there, for each pool
    Values,         \* the weights of stored seeds
    MaxStores,      \* bound: how many seeds are stored
    MaxTime         \* bound: how many seconds pass

\* A seed: its content, the last part of its path, and its weight.  A stored
\* seed is named by the second of its store, and contents are numbered.
Seed(id, name, value) == [id |-> id, name |-> name, value |-> value]

Stamps == 0..MaxTime
NoFolder == -1

\* Initial seeds have negative contents and names, to tell them from others.
ASSUME FilePoolAssumption ==
    /\ InitFolder \subseteq FilePools
    /\ MaxStores \in Nat
    /\ MaxTime \in Nat
    /\ DOMAIN InitialSeeds = FilePools
    /\ \A p \in FilePools :
         \A s \in InitialSeeds[p] : s.id \in Int /\ s.id < 0 /\ s.name < 0

VARIABLES
    now,        \* the clock stamp() reads
    stores,     \* how many seeds were stored, which also numbers their contents
    up,         \* the pools whose threads run
    waiting,    \* the threads that wait for a mutex nobody will unlock, as
                \* <<pool, "callback">> and <<pool, "update">>
    unstored,   \* unstored[p]: unstored_seed_
    mirror,     \* mirror[p]: mirror_seed_pool_, the same seeds as seed_pool_
    folder,     \* the pools whose name_seed_folder_ exists
    tmp,        \* tmp[p]: the files in it, the content for each name
    done,       \* done[p]: the seeds restore_for_future() has copied
    dir,        \* dir[p]: the stamp of the folder it copies to
    restored    \* restored[p]: the copies, with folder, stamp, name and content

fileVars ==
    <<now, stores, up, waiting, unstored, mirror, folder, tmp, done, dir,
      restored>>

\* What a process holds, when it is created and when it is forked from a
\* process that never launched its pools.
FreshMemory ==
    [unstored |-> [p \in FilePools |-> <<>>],
     mirror   |-> InitialSeeds,
     done     |-> [p \in FilePools |-> {}],
     dir      |-> [p \in FilePools |-> NoFolder]]

FileInit ==
    /\ now = 0
    /\ stores = 0
    /\ up = {}
    /\ waiting = {}
    /\ unstored = FreshMemory.unstored
    /\ mirror = FreshMemory.mirror
    /\ folder = FilePools
    /\ tmp = [p \in FilePools |-> <<>>]
    /\ done = FreshMemory.done
    /\ dir = FreshMemory.dir
    /\ restored = [p \in FilePools |-> {}]

\* fork(): the child has the parent's memory; the files are shared.
ForkMemory ==
    /\ up' = {}
    /\ waiting' = {}
    /\ unstored' = FreshMemory.unstored
    /\ mirror' = FreshMemory.mirror
    /\ done' = FreshMemory.done
    /\ dir' = FreshMemory.dir
    /\ UNCHANGED <<now, stores, folder, tmp, restored>>

Tick ==
    /\ now < MaxTime
    /\ now' = now + 1
    /\ UNCHANGED <<stores, up, waiting, unstored, mirror, folder, tmp, done, dir,
                   restored>>

-----------------------------------------------------------------------------
(* The threads of a pool that is up *)

\* Fault: the copy keeps a file of the same name.
StoreFileOnce(p, value) ==
    /\ p \in up \cap folder
    /\ <<p, "callback">> \notin waiting
    /\ stores < MaxStores
    /\ stores' = stores + 1
    /\ tmp' = [tmp EXCEPT ![p] = [n \in DOMAIN @ \cup {now} |->
                                    IF n \in DOMAIN @ THEN @[n] ELSE stores']]
    /\ unstored' = [unstored EXCEPT ![p] = Append(@, Seed(stores', now, value))]
    /\ UNCHANGED <<now, up, waiting, mirror, folder, done, dir, restored>>

\* StoreSeedRequestCallback(): the copy overwrites a file of the same name.
StoreFile(p, value) ==
    /\ p \in up \cap folder
    /\ <<p, "callback">> \notin waiting
    /\ stores < MaxStores
    /\ stores' = stores + 1
    /\ tmp' = [tmp EXCEPT ![p] = [n \in DOMAIN @ \cup {now} |->
                                    IF n = now THEN stores' ELSE @[n]]]
    /\ unstored' = [unstored EXCEPT ![p] = Append(@, Seed(stores', now, value))]
    /\ UNCHANGED <<now, up, waiting, mirror, folder, done, dir, restored>>

\* Without the folder, std::filesystem::copy() throws in the callback thread.
StoreThrows(p) ==
    /\ p \in up \ folder
    /\ <<p, "callback">> \notin waiting
    /\ stores < MaxStores

\* A pick, from any process, that finds nothing prepared: pop_prepared_seed()
\* returns with the mutex locked, and the retry waits for it.
PickFromEmpty(p) ==
    /\ p \in up
    /\ <<p, "callback">> \notin waiting
    /\ waiting' = waiting \cup {<<p, "callback">>}
    /\ UNCHANGED <<now, stores, up, unstored, mirror, folder, tmp, done, dir,
                   restored>>

\* After update_stored_seeds() the update thread prepares a seed, for none is
\* prepared when the mutex is left locked: it waits for that mutex, too.
UpdateGoesOn(p) ==
    /\ <<p, "update">> \notin waiting
    /\ waiting' = IF <<p, "callback">> \in waiting
                     THEN waiting \cup {<<p, "update">>} ELSE waiting

\* Fault: back() is added and the front is popped.
UpdateStoredBack(p) ==
    /\ p \in up
    /\ unstored[p] # <<>>
    /\ mirror' = [mirror EXCEPT ![p] = @ \cup {unstored[p][Len(unstored[p])]}]
    /\ unstored' = [unstored EXCEPT ![p] = Tail(@)]
    /\ UpdateGoesOn(p)
    /\ UNCHANGED <<now, stores, up, folder, tmp, done, dir, restored>>

\* update_stored_seeds(), which takes no lock
UpdateStored(p) ==
    /\ p \in up
    /\ unstored[p] # <<>>
    /\ mirror' = [mirror EXCEPT ![p] = @ \cup {Head(unstored[p])}]
    /\ unstored' = [unstored EXCEPT ![p] = Tail(@)]
    /\ UpdateGoesOn(p)
    /\ UNCHANGED <<now, stores, up, folder, tmp, done, dir, restored>>

-----------------------------------------------------------------------------
(* Restoring and cleaning, after the threads have been joined *)

\* restore_for_future(num) is over for p, at once or after some copies.
RestoreIsOver(p, num) ==
    \/ p \notin InitFolder
    \/ num <= 0
    \/ Cardinality(done[p]) = num
    \/ dir[p] # NoFolder /\ done[p] = mirror[p]

\* Fault: operator< of a seed is the wrong way round.
LeastValuable(seeds) == {s \in seeds : \A t \in seeds : t.value >= s.value}

MostValuable(seeds) == {s \in seeds : \A t \in seeds : t.value <= s.value}

\* create_directory() of a folder named at this second; one that is already
\* there is used as it is.
MakeFolder(p, num) ==
    /\ ~RestoreIsOver(p, num)
    /\ dir[p] = NoFolder
    /\ dir' = [dir EXCEPT ![p] = now]
    /\ UNCHANGED <<now, stores, up, waiting, unstored, mirror, folder, tmp,
                   done, restored>>

\* The content of the file a seed stands for.
Content(p, s) == IF s.name \in DOMAIN tmp[p] THEN tmp[p][s.name] ELSE s.id

Copy(p, s) ==
    [dir |-> dir[p], stamp |-> now, name |-> s.name, content |-> Content(p, s)]

\* The target of the copy is there already: the copy would throw.
TargetExists(p, s) ==
    \E c \in restored[p] :
        c.dir = dir[p] /\ c.stamp = now /\ c.name = s.name

\* The round of the loop whose seed is s: the seeds are copied in the order
\* of their values.
IsNext(p, num, s) ==
    /\ ~RestoreIsOver(p, num)
    /\ dir[p] # NoFolder
    /\ s \in MostValuable(mirror[p] \ done[p])

RestoreOne(p, num, s) ==
    /\ IsNext(p, num, s)
    /\ ~TargetExists(p, s)
    /\ restored' = [restored EXCEPT ![p] = @ \cup {Copy(p, s)}]
    /\ done' = [done EXCEPT ![p] = @ \cup {s}]
    /\ UNCHANGED <<now, stores, up, waiting, unstored, mirror, folder, tmp, dir>>

\* std::filesystem::copy() throws when the target exists.
RestoreThrows(p, num, s) ==
    /\ IsNext(p, num, s)
    /\ TargetExists(p, s)

\* clean_up_tmp_seeds()
CleanUp(p) ==
    /\ folder' = folder \ {p}
    /\ tmp' = [tmp EXCEPT ![p] = <<>>]
    /\ UNCHANGED <<now, stores, up, waiting, unstored, mirror, done, dir, restored>>
=============================================================================
