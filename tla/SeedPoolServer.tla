--------------------------- MODULE SeedPoolServer ---------------------------
(***************************************************************************)
(* SeedPoolServer (seed_pool_server.cpp): the process that calls launch()  *)
(* and shutdown(num), and the process it forks, in which the seed pools    *)
(* run.  The two talk through one shared int, signal_flag_, that holds     *)
(* either a signal, which is negative, or the number of seeds to restore.  *)
(* Each side polls it; `parent' and `child' are their program counters.    *)
(*                                                                         *)
(* launch() and shutdown() are called in turns, as in the tests.  The      *)
(* pools do what FileSeedPool says; of a regular pool only matters that it *)
(* is launched and shut down, and that its mutex may be left locked.  An   *)
(* exception nobody catches ends the child.                                *)
(***************************************************************************)
EXTENDS FileSeedPool

CONSTANTS
    fileOrder,      \* the file pools, in the order they were created
    regularOrder,   \* the other pools, in the order they were created
    Nums,           \* the arguments of shutdown(), each a uint64_t
    IntHalf,        \* an int has the values -IntHalf .. IntHalf - 1, and a
                    \* uint64_t twice as many bits
    MaxLaunches     \* bound: how often launch() is called

allPools == Range(fileOrder) \cup Range(regularOrder)

ASSUME ServerAssumption ==
    /\ fileOrder \in Seq(FilePools)
    /\ Range(fileOrder) = FilePools
    /\ regularOrder \in Seq(Range(regularOrder))
    /\ Range(regularOrder) \cap FilePools = {}
    /\ IntHalf \in Nat \ {0}
    /\ Nums \subseteq 0 .. 4 * IntHalf * IntHalf - 1
    /\ MaxLaunches \in Nat

EMPTY == -999
REQUEST_SHUTDOWN == -1
ACTIVATED_STATE == -3
SHUTDOWN_STATE == -4
CLEANUP_STATE == -5

Ints == -IntHalf .. IntHalf - 1
Flags == Ints \cup {EMPTY, REQUEST_SHUTDOWN, ACTIVATED_STATE, SHUTDOWN_STATE,
                    CLEANUP_STATE}

\* Fault: no number to restore is taken for a signal.
isNotPositive(num) == num <= 0

isSignal(num) == num < 0

\* *signal_flag_ = restore_for_future_num: a uint64_t made an int.
ToInt(n) == ((n + IntHalf) % (2 * IntHalf)) - IntHalf

VARIABLES
    signal_flag_,   \* the shared int
    parent,         \* program counter of the caller's process
    child,          \* program counter of the forked process
    queue,          \* pools the child's loop over pools has still to visit
    count,          \* the argument of restoreForFuture()
    launches        \* how often launch() was called

serverVars == <<signal_flag_, parent, child, queue, count, launches>>
vars == <<serverVars, fileVars>>

Init ==
    /\ FileInit
    /\ signal_flag_ = EMPTY
    /\ parent = "idle"
    /\ child = "off"
    /\ queue = <<>>
    /\ count = 0
    /\ launches = 0

-----------------------------------------------------------------------------
(* The parent *)

\* launch() up to its loop: open_shared_mem() and fork().
Launch ==
    /\ parent = "idle"
    /\ launches < MaxLaunches
    /\ launches' = launches + 1
    /\ signal_flag_' = EMPTY
    /\ parent' = "launching"
    /\ child' = "launching"
    /\ queue' = fileOrder \o regularOrder
    /\ count' = 0
    /\ ForkMemory

\* The end of launch().
Launched ==
    /\ parent = "launching"
    /\ signal_flag_ = ACTIVATED_STATE
    /\ parent' = "up"
    /\ UNCHANGED <<signal_flag_, child, queue, count, launches, fileVars>>

\* shutdown() up to its first loop.
RequestShutdown ==
    /\ parent = "up"
    /\ signal_flag_' = REQUEST_SHUTDOWN
    /\ parent' = "stopping"
    /\ UNCHANGED <<child, queue, count, launches, fileVars>>

\* The end of the first loop, and the number that starts the second.
RequestRestore(num) ==
    /\ parent = "stopping"
    /\ signal_flag_ = SHUTDOWN_STATE
    /\ signal_flag_' = ToInt(num)
    /\ parent' = "restoring"
    /\ UNCHANGED <<child, queue, count, launches, fileVars>>

\* The end of shutdown(): close_shared_mem().
ShutDown ==
    /\ parent = "restoring"
    /\ signal_flag_ = CLEANUP_STATE
    /\ parent' = "idle"
    /\ UNCHANGED <<signal_flag_, child, queue, count, launches, fileVars>>

-----------------------------------------------------------------------------
(* The child *)

ChildGoesOn(pc, pools) ==
    /\ child' = pc
    /\ queue' = pools
    /\ UNCHANGED <<parent, launches>>

\* seed_pool->launch() of the next pool
LaunchPool ==
    /\ child = "launching"
    /\ queue # <<>>
    /\ up' = up \cup {Head(queue)}
    /\ ChildGoesOn("launching", Tail(queue))
    /\ UNCHANGED <<signal_flag_, count, now, stores, waiting, unstored, mirror,
                   folder, tmp, done, dir, restored>>

\* Fault: the child does not tell that it is active.
ActivateSilently ==
    /\ child = "launching"
    /\ queue = <<>>
    /\ ChildGoesOn("serving", <<>>)
    /\ UNCHANGED <<signal_flag_, count, fileVars>>

Activate ==
    /\ child = "launching"
    /\ queue = <<>>
    /\ signal_flag_' = ACTIVATED_STATE
    /\ ChildGoesOn("serving", <<>>)
    /\ UNCHANGED <<count, fileVars>>

SeeRequest ==
    /\ child = "serving"
    /\ signal_flag_ = REQUEST_SHUTDOWN
    /\ ChildGoesOn("stopping", fileOrder \o regularOrder)
    /\ UNCHANGED <<signal_flag_, count, fileVars>>

\* seed_pool->shutdown() of the next pool, which joins its threads: a thread
\* that waits for a mutex left locked is never joined.
StopPool ==
    /\ child = "stopping"
    /\ queue # <<>>
    /\ <<Head(queue), "callback">> \notin waiting
    /\ up' = up \ {Head(queue)}
    /\ ChildGoesOn("stopping", Tail(queue))
    /\ UNCHANGED <<signal_flag_, count, now, stores, waiting, unstored, mirror,
                   folder, tmp, done, dir, restored>>

\* Fault: SHUTDOWN_STATE is sent before the pools are shut down.
TellShutdownEarly ==
    /\ child = "stopping"
    /\ signal_flag_ = REQUEST_SHUTDOWN
    /\ signal_flag_' = SHUTDOWN_STATE
    /\ ChildGoesOn(IF queue = <<>> THEN "waiting" ELSE "stopping", queue)
    /\ UNCHANGED <<count, fileVars>>

TellShutdown ==
    /\ child = "stopping"
    /\ queue = <<>>
    /\ signal_flag_' = SHUTDOWN_STATE
    /\ ChildGoesOn("waiting", <<>>)
    /\ UNCHANGED <<count, fileVars>>

\* The end of the loop while isSignal(*signal_flag_).
SeeNumber ==
    /\ child = "waiting"
    /\ ~isSignal(signal_flag_)
    /\ count' = signal_flag_
    /\ ChildGoesOn("restoring", fileOrder)
    /\ UNCHANGED <<signal_flag_, fileVars>>

\* restore_for_future(count) of the next file pool
RestorePool ==
    /\ child = "restoring"
    /\ queue # <<>>
    /\ \/ MakeFolder(Head(queue), count)
       \/ \E s \in mirror[Head(queue)] : RestoreOne(Head(queue), count, s)
    /\ UNCHANGED serverVars

PoolRestored ==
    /\ child = "restoring"
    /\ queue # <<>>
    /\ RestoreIsOver(Head(queue), count)
    /\ ChildGoesOn("restoring", Tail(queue))
    /\ UNCHANGED <<signal_flag_, count, fileVars>>

AllRestored ==
    /\ child = "restoring"
    /\ queue = <<>>
    /\ ChildGoesOn("cleaning", fileOrder)
    /\ UNCHANGED <<signal_flag_, count, fileVars>>

CleanPool ==
    /\ child = "cleaning"
    /\ queue # <<>>
    /\ CleanUp(Head(queue))
    /\ ChildGoesOn("cleaning", Tail(queue))
    /\ UNCHANGED <<signal_flag_, count>>

\* CLEANUP_STATE and exit(0)
ChildExit ==
    /\ child = "cleaning"
    /\ queue = <<>>
    /\ signal_flag_' = CLEANUP_STATE
    /\ ChildGoesOn("off", <<>>)
    /\ UNCHANGED <<count, fileVars>>

\* The child ends, with the threads of its pools.
Dies ==
    /\ up' = {}
    /\ waiting' = {}
    /\ ChildGoesOn("dead", <<>>)
    /\ UNCHANGED <<signal_flag_, count, now, stores, unstored, mirror, folder,
                   tmp, done, dir, restored>>

\* A pool ends its process: a request fills the buffer, a reply has no reader,
\* or push() and the update thread collide (SeedPoolThread has them in detail).
PoolDies == up # {} /\ Dies

\* std::filesystem::copy() throws, and nobody catches.
StoreDies == (\E p \in FilePools : StoreThrows(p)) /\ Dies

RestoreDies ==
    /\ child = "restoring"
    /\ queue # <<>>
    /\ \E s \in mirror[Head(queue)] : RestoreThrows(Head(queue), count, s)
    /\ Dies

-----------------------------------------------------------------------------
ParentStep ==
    \/ Launched
    \/ \E num \in Nums : RequestRestore(num)
    \/ ShutDown

ChildStep ==
    \/ LaunchPool \/ Activate \/ SeeRequest \/ StopPool \/ TellShutdown
    \/ SeeNumber \/ RestorePool \/ PoolRestored \/ AllRestored
    \/ RestoreDies \/ CleanPool \/ ChildExit

PoolStep ==
    /\ \E p \in FilePools :
         UpdateStored(p) \/ \E value \in Values : StoreFile(p, value)
    /\ UNCHANGED serverVars

PickStep == (\E p \in allPools : PickFromEmpty(p)) /\ UNCHANGED serverVars

ClockStep == Tick /\ UNCHANGED serverVars

Next ==
    \/ Launch
    \/ RequestShutdown
    \/ ParentStep
    \/ ChildStep
    \/ StoreDies
    \/ PoolDies
    \/ PoolStep
    \/ PickStep
    \/ ClockStep

Spec == Init /\ [][Next]_vars

\* Both processes run; nobody has to launch, to shut down, to store or to pick.
FairSpec == Spec /\ WF_vars(ParentStep) /\ WF_vars(ChildStep)

-----------------------------------------------------------------------------
(* Properties *)

StoredSeeds == [id : 1..MaxStores, name : Stamps, value : Values]
Seeds(p) == StoredSeeds \cup InitialSeeds[p]

ClockTypeOK ==
    /\ now \in Stamps
    /\ stores \in 0..MaxStores

PoolTypeOK ==
    /\ up \subseteq allPools
    /\ waiting \subseteq allPools \X {"callback", "update"}
    /\ unstored \in [FilePools -> Seq(StoredSeeds)]
    /\ DOMAIN mirror = FilePools
    /\ DOMAIN done = FilePools
    /\ \A p \in FilePools :
         mirror[p] \subseteq Seeds(p) /\ done[p] \subseteq mirror[p]

FileTypeOK ==
    /\ folder \subseteq FilePools
    /\ DOMAIN tmp = FilePools
    /\ dir \in [FilePools -> {NoFolder} \cup 0..now]
    /\ DOMAIN restored = FilePools
    /\ \A p \in FilePools :
         /\ DOMAIN tmp[p] \subseteq 0..now
         /\ \A c \in restored[p] : c.dir \in 0..c.stamp /\ c.stamp \in 0..now

ServerTypeOK ==
    /\ signal_flag_ \in Flags
    /\ parent \in {"idle", "launching", "up", "stopping", "restoring"}
    /\ child \in {"off", "launching", "serving", "stopping", "waiting",
                  "restoring", "cleaning", "dead"}
    /\ queue \in Seq(allPools)
    /\ count \in Ints
    /\ launches \in 0..MaxLaunches

\* Every variable has its type: what the flag holds fits in an int, a copy
\* has the second of its folder or a later one, a pool copies seeds it has.
TypeOK == ClockTypeOK /\ PoolTypeOK /\ FileTypeOK /\ ServerTypeOK

\* What the parent may believe of the child when a call has returned, or is
\* half way: after launch() (seed_pool_server.cpp:11) every pool is up and
\* nothing is being shut down; once shutdown() has seen SHUTDOWN_STATE
\* (seed_pool_server.cpp:23) no thread of any pool is left to touch a seed;
\* when shutdown() has returned (seed_pool_server.cpp:30) the child has
\* gone and so are the temporary folders.
HandshakeHonest ==
    /\ parent = "up" /\ child # "dead" => child = "serving" /\ up = allPools
    /\ parent = "restoring" => up = {}
    /\ parent = "idle" =>
         child = "off" /\ up = {} /\ (launches > 0 => folder = {})

\* When shutdown(num) has returned, restore_for_future()
\* (file_seed_pool_thread.cpp:42-74) has copied num seeds of each pool with
\* a folder, or all it had if they are fewer; num is what the flag made of
\* the argument (seed_pool_server.cpp:26), and no seed left behind is worth
\* more than one that was copied.
RestoredMostValuable ==
    parent = "idle" /\ launches > 0 =>
        \A p \in InitFolder :
            /\ \/ Cardinality(done[p]) = count
               \/ Cardinality(done[p]) < count /\ done[p] = mirror[p]
            /\ \A s \in done[p], t \in mirror[p] \ done[p] : t.value <= s.value

\* Which seeds of a pool were stored in one second.
Twins(p, s) ==
    {t \in mirror[p] \cup Range(unstored[p]) : t.id > 0 /\ t.name = s.name}

\* A seed that was stored keeps its file until the child cleans up, and the
\* file has the seed's own content if no other store of that pool came in the
\* same second, else that of the last of them: the name stamp() gives it
\* (file_seed_pool_thread.hpp:48-58) has no more than seconds in it, and the
\* copy overwrites (file_seed_pool_thread.cpp:102).
LastStoreKept ==
    child \in {"launching", "serving", "stopping", "waiting", "restoring"} =>
        \A p \in FilePools :
            \A s \in mirror[p] \cup Range(unstored[p]) :
                s.id > 0 =>
                    /\ s.name \in DOMAIN tmp[p]
                    /\ \E t \in Twins(p, s) : tmp[p][s.name] = t.id
                    /\ \A t \in Twins(p, s) : t.id <= tmp[p][s.name]

\* What shutdown() leaves in unstored_seed_ (seed_pool_server.cpp:50) are the
\* seeds acknowledged last: none of them is older than a seed that was in time.
\* Until then no store is lost: each temporary file belongs to a seed that is
\* in the pool or on its way there (seed_pool_thread.cpp:167-175).
LatestLeftBehind ==
    \A p \in FilePools :
        /\ \A s \in mirror[p], t \in Range(unstored[p]) : s.id < t.id
        /\ child \in {"launching", "serving", "stopping", "waiting", "restoring"} =>
             \A n \in DOMAIN tmp[p] :
                 \E s \in mirror[p] \cup Range(unstored[p]) : s.id = tmp[p][n]

\* A file restore_for_future() wrote is never changed or lost again, by no
\* later copy, shutdown() or launch() (file_seed_pool_thread.cpp:70).
CopiesStay == [][\A p \in FilePools : restored[p] \subseteq restored'[p]]_vars

\* launch() returns (seed_pool_server.cpp:11), unless the child dies.
LaunchReturns == parent = "launching" ~> (parent = "up" \/ child = "dead")

\* The child is joining a thread that waits for ever (seed_pool_thread.cpp:39,
\* after seed_pool_thread.hpp:95).
JoinBlocked ==
    /\ child = "stopping"
    /\ queue # <<>>
    /\ <<Head(queue), "callback">> \in waiting

\* shutdown() returns (seed_pool_server.cpp:22-32), unless the child dies, a
\* pick has found nothing prepared and left a mutex locked, or the number, made
\* an int, is taken for a signal.
ShutdownReturns ==
    parent \in {"stopping", "restoring"} ~>
        \/ parent = "idle"
        \/ child = "dead"
        \/ JoinBlocked
        \/ parent = "restoring" /\ signal_flag_ < 0

\* restore_for_future() saves the num most valuable seeds, as the comment of
\* file_seed_pool_thread.hpp:29 says.  It does not when two of them have files
\* of one name, which copy() refuses: the child dies and shutdown() hangs.
RestoreCompletes ==
    parent = "restoring" /\ signal_flag_ = 2
        ~> \A p \in InitFolder : Cardinality(done[p]) = 2 \/ done[p] = mirror[p]
=============================================================================
