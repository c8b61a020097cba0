------------------------- MODULE FileSeedPoolProofs -------------------------
(***************************************************************************)
(* Theorems about the files of the pools of a SeedPoolServer, for any      *)
(* pools, seeds, numbers and bounds: which content a stored seed has, and  *)
(* which seeds shutdown(num) has copied when it returns.                   *)
(***************************************************************************)
EXTENDS SeedPoolServerProofs, FiniteSetTheorems

-----------------------------------------------------------------------------
(* The files of stored seeds                                               *)

\* The seeds a pool has, in whichever queue.
Held(p) == mirror[p] \cup Range(unstored[p])

\* No seed has a number that is still to be given.
NumbersInv == \A p \in FilePools : \A s \in Held(p) : s.id \in Int /\ s.id <= stores

FilesInv == TypeOK /\ NumbersInv /\ LastStoreKept

\* Where the child is while its pools have the seeds of this launch.
HasSeeds == {"launching", "serving", "stopping", "waiting", "restoring"}

\* A fresh process holds initial seeds only, which have no temporary files.
LEMMA FreshHeld ==
  ASSUME mirror' = InitialSeeds,
         unstored' = [p \in FilePools |-> <<>>],
         stores' \in Nat
  PROVE  NumbersInv' /\ LastStoreKept'
  <1>1. ASSUME NEW p \in FilePools
        PROVE  /\ Held(p)' = InitialSeeds[p]
               /\ \A s \in Held(p)' : s.id \in Int /\ s.id < 0
    BY <1>1, RangeOfEmpty, FilePoolAssumption DEF Held
  <1> QED
    BY <1>1 DEF NumbersInv, LastStoreKept, Held

\* It holds at the start.
LEMMA FilesInit == Init => FilesInv
  <1> SUFFICES ASSUME Init
               PROVE  NumbersInv /\ LastStoreKept
    BY TypesInit DEF FilesInv
  <1>1. ASSUME NEW p \in FilePools
        PROVE  \A s \in Held(p) : s.id \in Int /\ s.id < 0
    BY <1>1, RangeOfEmpty, FilePoolAssumption
    DEF Held, Init, FileInit, FreshMemory
  <1> QED
    BY <1>1 DEF NumbersInv, LastStoreKept, Held, Init, FileInit

\* The same seeds and the same files.
LEMMA SameFiles ==
  ASSUME FilesInv, stores' = stores, tmp' = tmp,
         \A p \in FilePools : Held(p)' = Held(p),
         child' \in HasSeeds => child \in HasSeeds
  PROVE  NumbersInv' /\ LastStoreKept'
  <1>1. NumbersInv'
    BY DEF FilesInv, NumbersInv
  <1>2. ASSUME NEW p \in FilePools, NEW s
        PROVE  Twins(p, s)' = Twins(p, s)
    BY <1>2 DEF Twins, Held
  <1> QED
    BY <1>1, <1>2 DEF FilesInv, LastStoreKept, HasSeeds, Held

\* A store overwrites the file of its second with its own content, which is
\* newer than all others.
LEMMA StoreKeeps ==
  ASSUME FilesInv, NEW p \in FilePools, NEW value \in Values,
         StoreFile(p, value), UNCHANGED child
  PROVE  NumbersInv' /\ LastStoreKept'
  <1> DEFINE new == Seed(stores', now, value)
  <1>1. /\ stores \in Nat /\ stores' = stores + 1 /\ mirror' = mirror
        /\ new.id = stores' /\ new.name = now
    BY DEF StoreFile, FilesInv, TypeOK, ClockTypeOK, Seed
  <1>2. unstored' = [unstored EXCEPT ![p] = Append(unstored[p], new)]
    BY DEF StoreFile
  <1>3. Range(Append(unstored[p], new)) = Range(unstored[p]) \cup {new}
    <2>1. unstored[p] \in Seq(StoredSeeds)
      BY DEF FilesInv, TypeOK, PoolTypeOK
    <2> QED
      BY <2>1, RangeOfAppend
  <1>4. /\ Held(p)' = Held(p) \cup {new}
        /\ \A q \in FilePools \ {p} : Held(q)' = Held(q)
    BY <1>1, <1>2, <1>3 DEF FilesInv, TypeOK, PoolTypeOK, Held
  <1>5. NumbersInv'
    BY <1>1, <1>4 DEF FilesInv, NumbersInv
  <1>6. /\ \A q \in FilePools \ {p} : tmp'[q] = tmp[q]
        /\ DOMAIN tmp'[p] = DOMAIN tmp[p] \cup {now}
        /\ tmp'[p][now] = stores'
        /\ \A n \in DOMAIN tmp[p] \ {now} : tmp'[p][n] = tmp[p][n]
    BY DEF StoreFile, FilesInv, TypeOK, FileTypeOK
  <1>7. ASSUME NEW q \in FilePools, NEW s
        PROVE  Twins(q, s)' = {t \in Held(q)' : t.id > 0 /\ t.name = s.name}
    BY <1>7 DEF Twins, Held
  <1>8. ASSUME NEW q \in FilePools, NEW s \in Held(q)', s.id > 0,
               child \in HasSeeds
        PROVE  /\ s.name \in DOMAIN tmp'[q]
               /\ \E t \in Twins(q, s)' : tmp'[q][s.name] = t.id
               /\ \A t \in Twins(q, s)' : t.id <= tmp'[q][s.name]
    <2>1. CASE q # p \/ s.name # now
      <3>1. s \in Held(q) /\ Twins(q, s)' = Twins(q, s)
        <4>1. CASE q # p
          <5>1. Held(q)' = Held(q)
            BY <1>4, <4>1
          <5> QED
            BY <1>8, <5>1 DEF Twins, Held
        <4>2. CASE q = p /\ s.name # now
          <5>1. s # new /\ Held(q)' = Held(q) \cup {new}
            BY <1>1, <1>4, <4>2
          <5>2. Twins(q, s)' = Twins(q, s)
            BY <1>1, <4>2, <5>1 DEF Twins, Held
          <5> QED
            BY <1>8, <5>1, <5>2
        <4> QED
          BY <2>1, <4>1, <4>2
      <3>2. /\ s.name \in DOMAIN tmp[q]
            /\ \E t \in Twins(q, s) : tmp[q][s.name] = t.id
            /\ \A t \in Twins(q, s) : t.id <= tmp[q][s.name]
        BY <1>8, <3>1 DEF FilesInv, LastStoreKept, HasSeeds, Held
      <3>3. s.name \in DOMAIN tmp'[q] /\ tmp'[q][s.name] = tmp[q][s.name]
        BY <1>6, <2>1, <3>2
      <3> QED
        BY <3>1, <3>2, <3>3
    <2>2. CASE q = p /\ s.name = now
      <3>1. new \in Twins(q, s)'
        BY <1>1, <1>4, <1>7, <2>2
      <3>2. \A t \in Twins(q, s)' : t.id <= stores'
        BY <1>5, <1>7, <2>2 DEF NumbersInv
      <3> QED
        BY <1>1, <1>6, <2>2, <3>1, <3>2
    <2> QED
      BY <2>1, <2>2
  <1> QED
    BY <1>5, <1>8 DEF LastStoreKept, HasSeeds, Held

\* update_stored_seeds() moves a seed from one place to the other.
LEMMA UpdateHolds ==
  ASSUME TypeOK, NEW p \in FilePools, UpdateStored(p)
  PROVE  \A q \in FilePools : Held(q)' = Held(q)
  <1>1. unstored[p] \in Seq(StoredSeeds) /\ unstored[p] # <<>>
    BY DEF TypeOK, PoolTypeOK, UpdateStored
  <1>2. Range(unstored[p]) = {Head(unstored[p])} \cup Range(Tail(unstored[p]))
    BY <1>1, RangeOfTail
  <1>3. /\ mirror' = [mirror EXCEPT ![p] = @ \cup {Head(unstored[p])}]
        /\ unstored' = [unstored EXCEPT ![p] = Tail(unstored[p])]
    BY DEF UpdateStored
  <1> QED
    BY <1>2, <1>3 DEF TypeOK, PoolTypeOK, Held

\* Every step keeps it.
LEMMA FilesStep == FilesInv /\ [Next]_vars => FilesInv'
  <1> SUFFICES ASSUME FilesInv, [Next]_vars
               PROVE  NumbersInv' /\ LastStoreKept'
    BY TypesStep DEF FilesInv
  <1>1. stores \in Nat
    BY DEF FilesInv, TypeOK, ClockTypeOK
  <1>2. CASE Launch
    BY <1>1, <1>2, FreshHeld DEF Launch, ForkMemory, FreshMemory
  <1>3. CASE CleanPool
    <2>1. child' \notin HasSeeds
      BY <1>3 DEF CleanPool, ChildGoesOn, HasSeeds
    <2>2. stores' = stores /\ \A p \in FilePools : Held(p)' = Held(p)
      BY <1>3 DEF CleanPool, CleanUp, Held
    <2> QED
      BY <2>1, <2>2 DEF FilesInv, NumbersInv, LastStoreKept, HasSeeds
  <1>4. CASE PoolStep
    <2>1. ASSUME NEW p \in FilePools, NEW value \in Values, StoreFile(p, value)
          PROVE  NumbersInv' /\ LastStoreKept'
      BY <1>4, <2>1, StoreKeeps DEF PoolStep, serverVars
    <2>2. ASSUME NEW p \in FilePools, UpdateStored(p)
          PROVE  NumbersInv' /\ LastStoreKept'
      <3>1. \A q \in FilePools : Held(q)' = Held(q)
        BY <2>2, UpdateHolds DEF FilesInv
      <3> QED
        BY <1>4, <2>2, <3>1, SameFiles DEF PoolStep, UpdateStored, serverVars
    <2> QED
      BY <1>4, <2>1, <2>2 DEF PoolStep
  <1>5. CASE ~Launch /\ ~CleanPool /\ ~PoolStep
    <2>1. UNCHANGED <<stores, tmp, mirror, unstored>>
      BY <1>5
      DEF Next, vars, fileVars, Launched, RequestShutdown, ParentStep,
          RequestRestore, ShutDown, ChildStep, LaunchPool, Activate,
          SeeRequest, StopPool, TellShutdown, SeeNumber, PoolRestored,
          AllRestored, RestoreDies, Dies, ChildExit, StoreDies, PoolDies,
          PickStep, PickFromEmpty, ClockStep, Tick, RestorePool, MakeFolder,
          RestoreOne
    <2>2. child' \in HasSeeds => child \in HasSeeds
      BY <1>5
      DEF Next, vars, serverVars, ChildGoesOn, Launched, RequestShutdown,
          ParentStep, RequestRestore, ShutDown, ChildStep, LaunchPool,
          Activate, SeeRequest, StopPool, TellShutdown, SeeNumber,
          PoolRestored, AllRestored, RestoreDies, Dies, ChildExit, StoreDies,
          PoolDies, PickStep, ClockStep, RestorePool, HasSeeds
    <2>3. \A p \in FilePools : Held(p)' = Held(p)
      BY <2>1 DEF Held
    <2> QED
      BY <2>1, <2>2, <2>3, SameFiles
  <1> QED
    BY <1>2, <1>3, <1>4, <1>5

\* A stored seed keeps its file, with the content of the last store of its
\* second, until the child cleans up: however stores, updates and seconds
\* interleave.
THEOREM StoresKeepTheLast == Spec => []LastStoreKept
  BY FilesInit, FilesStep, PTL DEF Spec, FilesInv

-----------------------------------------------------------------------------
(* Which seeds shutdown() leaves behind                                    *)

\* Seeds wait in the order of their stores.
QueueInv ==
    \A p \in FilePools : \A i, j \in DOMAIN unstored[p] :
        i < j => unstored[p][i].id < unstored[p][j].id

\* There are no files outside of a folder, nor while there is no child.
EmptyInv ==
    /\ \A p \in FilePools \ folder : DOMAIN tmp[p] = {}
    /\ child = "off" => \A p \in FilePools : DOMAIN tmp[p] = {}

BehindInv ==
    /\ FilesInv /\ HandshakeInv
    /\ QueueInv /\ EmptyInv /\ LatestLeftBehind

\* It holds at the start.
LEMMA BehindInit == Init => BehindInv
  <1> SUFFICES ASSUME Init
               PROVE  QueueInv /\ EmptyInv /\ LatestLeftBehind
    BY FilesInit, HandshakeInit DEF BehindInv
  <1>1. \A p \in FilePools :
          unstored[p] = <<>> /\ Range(unstored[p]) = {} /\ DOMAIN tmp[p] = {}
    BY RangeOfEmpty DEF Init, FileInit, FreshMemory
  <1> QED
    BY <1>1 DEF QueueInv, EmptyInv, LatestLeftBehind

\* A new process has no seed waiting and finds no temporary file.
LEMMA LaunchLeaves ==
  ASSUME BehindInv, Launch
  PROVE  QueueInv' /\ EmptyInv' /\ LatestLeftBehind'
  <1>1. child = "off" /\ UNCHANGED <<tmp, folder>>
    BY DEF Launch, ForkMemory, BehindInv, HandshakeInv, Phases
  <1>2. \A p \in FilePools :
          /\ unstored'[p] = <<>> /\ Range(unstored'[p]) = {}
          /\ DOMAIN tmp'[p] = {}
    BY <1>1, RangeOfEmpty DEF Launch, ForkMemory, FreshMemory, BehindInv, EmptyInv
  <1>3. QueueInv'
    BY <1>2 DEF QueueInv
  <1>4. EmptyInv'
    BY <1>2 DEF EmptyInv
  <1> QED
    BY <1>2, <1>3, <1>4 DEF LatestLeftBehind

\* A new seed is newer than all that are there.
LEMMA StoreLeaves ==
  ASSUME BehindInv, NEW p \in FilePools, NEW value \in Values,
         StoreFile(p, value), UNCHANGED child
  PROVE  QueueInv' /\ EmptyInv' /\ LatestLeftBehind'
  <1> DEFINE new == Seed(stores', now, value)
  <1> DEFINE old == unstored[p]
  <1>1. /\ TypeOK /\ NumbersInv
        /\ stores \in Nat /\ stores' = stores + 1 /\ new.id = stores'
        /\ mirror' = mirror /\ folder' = folder /\ p \in folder /\ p \in up
    BY DEF StoreFile, BehindInv, FilesInv, TypeOK, ClockTypeOK, Seed
  <1>2. /\ unstored'[p] = Append(old, new) /\ old \in Seq(StoredSeeds)
        /\ \A q \in FilePools \ {p} : unstored'[q] = unstored[q]
    BY <1>1 DEF StoreFile, TypeOK, PoolTypeOK
  <1>3. Range(Append(old, new)) = Range(old) \cup {new}
    BY <1>2, RangeOfAppend
  <1>4. \A s \in Held(p) : s.id \in Int /\ s.id < new.id
    BY <1>1 DEF NumbersInv
  <1>5. QueueInv'
    <2>1. ASSUME NEW i \in DOMAIN unstored'[p], NEW j \in DOMAIN unstored'[p], i < j
          PROVE  unstored'[p][i].id < unstored'[p][j].id
      <3>1. CASE j \in DOMAIN old
        BY <1>2, <2>1, <3>1 DEF BehindInv, QueueInv
      <3>2. CASE j \notin DOMAIN old
        <4>1. /\ i \in DOMAIN old /\ unstored'[p][i] = old[i]
              /\ unstored'[p][j] = new
          BY <1>2, <2>1, <3>2
        <4>2. old[i] \in Held(p)
          BY <4>1 DEF Held, Range
        <4> QED
          BY <1>4, <4>1, <4>2
      <3> QED
        BY <3>1, <3>2
    <2> QED
      BY <1>2, <2>1 DEF BehindInv, QueueInv
  <1>6. /\ \A q \in FilePools \ {p} : tmp'[q] = tmp[q]
        /\ DOMAIN tmp'[p] = DOMAIN tmp[p] \cup {now}
        /\ tmp'[p][now] = stores'
        /\ \A n \in DOMAIN tmp[p] \ {now} : tmp'[p][n] = tmp[p][n]
    BY <1>1 DEF StoreFile, TypeOK, FileTypeOK
  <1>7. EmptyInv'
    <2>1. child # "off"
      BY <1>1 DEF BehindInv, HandshakeInv, Visits
    <2> QED
      BY <1>1, <1>6, <2>1 DEF BehindInv, EmptyInv
  <1>8. LatestLeftBehind'
    <2>1. ASSUME NEW q \in FilePools,
                 NEW s \in mirror'[q], NEW t \in Range(unstored'[q])
          PROVE  s.id < t.id
      <3>1. CASE t \in Range(unstored[q])
        BY <1>1, <2>1, <3>1 DEF BehindInv, LatestLeftBehind
      <3>2. CASE t \notin Range(unstored[q])
        <4>1. q = p /\ t = new
          BY <1>2, <1>3, <2>1, <3>2
        <4>2. s \in Held(p)
          BY <1>1, <2>1, <4>1 DEF Held
        <4> QED
          BY <1>4, <4>1, <4>2
      <3> QED
        BY <3>1, <3>2
    <2>2. ASSUME NEW q \in FilePools, NEW n \in DOMAIN tmp'[q], child \in HasSeeds
          PROVE  \E s \in Held(q)' : s.id = tmp'[q][n]
      <3>1. CASE q # p \/ n # now
        <4>1. n \in DOMAIN tmp[q] /\ tmp'[q][n] = tmp[q][n]
          BY <1>6, <2>2, <3>1
        <4>2. PICK s \in Held(q) : s.id = tmp[q][n]
          BY <2>2, <4>1 DEF BehindInv, LatestLeftBehind, Held, HasSeeds
        <4>3. s \in Held(q)'
          BY <1>1, <1>2, <1>3, <4>2 DEF Held
        <4> QED
          BY <4>1, <4>2, <4>3
      <3>2. CASE q = p /\ n = now
        BY <1>1, <1>2, <1>3, <1>6, <3>2 DEF Held
      <3> QED
        BY <3>1, <3>2
    <2> QED
      BY <2>1, <2>2 DEF LatestLeftBehind, Held, HasSeeds
  <1> QED
    BY <1>5, <1>7, <1>8

\* The first that waits is older than the others.
LEMMA UpdateLeaves ==
  ASSUME BehindInv, NEW p \in FilePools, UpdateStored(p), UNCHANGED child
  PROVE  QueueInv' /\ EmptyInv' /\ LatestLeftBehind'
  <1> DEFINE old == unstored[p]
  <1>1. /\ old \in Seq(StoredSeeds) /\ old # <<>>
        /\ unstored'[p] = Tail(old)
        /\ mirror'[p] = mirror[p] \cup {Head(old)}
        /\ \A q \in FilePools \ {p} :
             unstored'[q] = unstored[q] /\ mirror'[q] = mirror[q]
        /\ UNCHANGED <<tmp, folder>>
    BY DEF UpdateStored, BehindInv, FilesInv, TypeOK, PoolTypeOK
  <1>2. Range(old) = {Head(old)} \cup Range(Tail(old))
    BY <1>1, RangeOfTail
  <1>3. \A i, j \in DOMAIN old : i < j => old[i].id < old[j].id
    BY DEF BehindInv, QueueInv
  <1>4. /\ DOMAIN Tail(old) = 1..(Len(old) - 1) /\ Len(old) \in Nat \ {0}
        /\ DOMAIN old = 1..Len(old) /\ Head(old) = old[1]
        /\ \A i \in DOMAIN Tail(old) : Tail(old)[i] = old[i + 1]
    BY <1>1
  <1>5. ASSUME NEW t \in Range(Tail(old))
        PROVE  Head(old).id < t.id
    <2>1. PICK i \in DOMAIN Tail(old) : t = Tail(old)[i]
      BY <1>5 DEF Range
    <2>2. /\ i + 1 \in DOMAIN old /\ 1 \in DOMAIN old /\ 1 < i + 1
          /\ t = old[i + 1]
      BY <1>4, <2>1
    <2> QED
      BY <1>3, <1>4, <2>2
  <1>6. ASSUME NEW i \in DOMAIN Tail(old), NEW j \in DOMAIN Tail(old), i < j
        PROVE  Tail(old)[i].id < Tail(old)[j].id
    <2>1. i + 1 \in DOMAIN old /\ j + 1 \in DOMAIN old /\ i + 1 < j + 1
      BY <1>4, <1>6
    <2> QED
      BY <1>3, <1>4, <2>1
  <1>7. QueueInv'
    BY <1>1, <1>6 DEF BehindInv, QueueInv
  <1>8. EmptyInv'
    BY <1>1 DEF BehindInv, EmptyInv
  <1>9. LatestLeftBehind'
    BY <1>1, <1>2, <1>5 DEF BehindInv, LatestLeftBehind
  <1> QED
    BY <1>7, <1>8, <1>9

\* Every step keeps it.
LEMMA BehindStep ==
  ASSUME NumsAreNotCleanup
  PROVE  BehindInv /\ [Next]_vars => BehindInv'
  <1> SUFFICES ASSUME BehindInv, [Next]_vars
               PROVE  QueueInv' /\ EmptyInv' /\ LatestLeftBehind'
    BY FilesStep, HandshakeStep DEF BehindInv
  <1>1. CASE Launch
    BY <1>1, LaunchLeaves
  <1>2. CASE PoolStep
    BY <1>2, StoreLeaves, UpdateLeaves DEF PoolStep, serverVars
  <1>3. CASE CleanPool
    <2>1. child' = "cleaning" /\ UNCHANGED <<mirror, unstored>>
      BY <1>3 DEF CleanPool, CleanUp, ChildGoesOn
    <2>2. ASSUME NEW p \in FilePools \ folder'
          PROVE  DOMAIN tmp'[p] = {}
      BY <1>3, <2>2
      DEF CleanPool, CleanUp, BehindInv, EmptyInv, FilesInv, TypeOK, FileTypeOK
    <2> QED
      BY <2>1, <2>2 DEF BehindInv, QueueInv, EmptyInv, LatestLeftBehind
  <1>4. CASE ~Launch /\ ~CleanPool /\ ~PoolStep
    <2>1. UNCHANGED <<folder, tmp, mirror, unstored>>
      BY <1>4
      DEF Next, vars, fileVars, Launched, RequestShutdown, ParentStep,
          RequestRestore, ShutDown, ChildStep, LaunchPool, Activate,
          SeeRequest, StopPool, TellShutdown, SeeNumber, PoolRestored,
          AllRestored, RestoreDies, Dies, ChildExit, StoreDies, PoolDies,
          PickStep, PickFromEmpty, ClockStep, Tick, RestorePool, MakeFolder,
          RestoreOne
    <2>2. /\ child' \in HasSeeds => child \in HasSeeds
          /\ child' = "off" =>
               \/ child = "off"
               \/ child = "cleaning" /\ queue = <<>>
      BY <1>4
      DEF Next, vars, serverVars, ChildGoesOn, Launched, RequestShutdown,
          ParentStep, RequestRestore, ShutDown, ChildStep, LaunchPool,
          Activate, SeeRequest, StopPool, TellShutdown, SeeNumber,
          PoolRestored, AllRestored, RestoreDies, Dies, ChildExit, StoreDies,
          PoolDies, PickStep, ClockStep, RestorePool, HasSeeds
    <2>3. child = "cleaning" /\ queue = <<>> => folder = {}
      BY RangeOfEmpty DEF BehindInv, HandshakeInv, Visits
    <2> QED
      BY <2>1, <2>2, <2>3
      DEF BehindInv, QueueInv, EmptyInv, LatestLeftBehind, HasSeeds
  <1> QED
    BY <1>1, <1>2, <1>3, <1>4

\* What shutdown() leaves unstored are the latest seeds, and until then every
\* file belongs to a seed: for any pools, seeds and launches, if no argument
\* looks like CLEANUP_STATE once it is an int.
THEOREM LatestAreLeft ==
  ASSUME NumsAreNotCleanup
  PROVE  Spec => []LatestLeftBehind
  BY BehindInit, BehindStep, PTL DEF Spec, BehindInv

-----------------------------------------------------------------------------
(* What restore_for_future() copies                                        *)

\* Where the child has a number of seeds to restore.
Restored ==
    \/ child \in {"restoring", "cleaning"}
    \/ child = "off" /\ launches # 0

\* Nothing is copied before the number has come.
FreshInv ==
    child \in {"launching", "serving", "stopping", "waiting"} =>
        \A p \in FilePools : done[p] = {}

\* What has been copied is worth as much as anything that has not.
OrderInv ==
    \A p \in FilePools : \A s \in done[p], t \in mirror[p] \ done[p] :
        t.value <= s.value

\* There are never too many copies.
CountInv ==
    /\ \A p \in FilePools : IsFiniteSet(done[p])
    /\ Restored => /\ count \in Nat
                   /\ \A p \in FilePools : Cardinality(done[p]) <= count

\* The pools that the loop has passed are done with.
PassedInv ==
    /\ child = "restoring" =>
         \A p \in FilePools \ Range(queue) : RestoreIsOver(p, count)
    /\ child \in {"cleaning", "off"} /\ launches # 0 =>
         \A p \in FilePools : RestoreIsOver(p, count)

RestoreInv ==
    /\ TypeOK /\ HandshakeInv
    /\ FreshInv /\ OrderInv /\ CountInv /\ PassedInv

\* It holds at the start.
LEMMA RestoreInit == Init => RestoreInv
  <1> SUFFICES ASSUME Init
               PROVE  FreshInv /\ OrderInv /\ CountInv /\ PassedInv
    BY TypesInit, HandshakeInit DEF RestoreInv
  <1>1. \A p \in FilePools : done[p] = {}
    BY DEF Init, FileInit, FreshMemory
  <1> QED
    BY <1>1, FS_EmptySet
    DEF Init, FreshInv, OrderInv, CountInv, PassedInv, Restored

\* A step that neither copies nor stores, and keeps the number.
LEMMA SamePools ==
  ASSUME RestoreInv, UNCHANGED <<done, mirror>>,
         child' \in {"launching", "serving", "stopping", "waiting"} =>
           child \in {"launching", "serving", "stopping", "waiting"},
         Restored' => Restored /\ count' = count
  PROVE  FreshInv' /\ OrderInv' /\ CountInv'
  BY DEF RestoreInv, FreshInv, OrderInv, CountInv

\* The copy of the next seed.
LEMMA CopyKeeps ==
  ASSUME RestoreInv, child = "restoring", NEW p \in FilePools,
         NEW s \in mirror[p], RestoreOne(p, count, s),
         UNCHANGED serverVars
  PROVE  FreshInv' /\ OrderInv' /\ CountInv'
  <1>1. /\ done' = [done EXCEPT ![p] = done[p] \cup {s}] /\ mirror' = mirror
        /\ s \in mirror[p] \ done[p]
        /\ \A t \in mirror[p] \ done[p] : t.value <= s.value
    BY DEF RestoreOne, IsNext, MostValuable
  <1>2. /\ done'[p] = done[p] \cup {s}
        /\ \A q \in FilePools \ {p} : done'[q] = done[q]
    BY <1>1 DEF RestoreInv, TypeOK, PoolTypeOK
  <1>3. FreshInv'
    BY DEF FreshInv, serverVars
  <1>4. OrderInv'
    BY <1>1, <1>2 DEF OrderInv, RestoreInv
  <1>5. /\ IsFiniteSet(done'[p])
        /\ Cardinality(done'[p]) = Cardinality(done[p]) + 1
        /\ Cardinality(done[p]) \in Nat
    BY <1>1, <1>2, FS_AddElement, FS_CardinalityType DEF RestoreInv, CountInv
  <1>6. count \in Nat /\ Cardinality(done[p]) <= count
    BY DEF RestoreInv, CountInv, Restored
  <1>7. Cardinality(done[p]) # count
    BY DEF RestoreOne, IsNext, RestoreIsOver
  <1> QED
    BY <1>2, <1>3, <1>4, <1>5, <1>6, <1>7
    DEF RestoreInv, CountInv, Restored, serverVars

\* While its threads run, a pool has copied nothing, and may get new seeds.
LEMMA UpdateKeeps ==
  ASSUME RestoreInv, NEW p \in FilePools, UpdateStored(p), UNCHANGED serverVars
  PROVE  FreshInv' /\ OrderInv' /\ CountInv' /\ PassedInv'
  <1>1. child \in {"launching", "serving", "stopping"}
    BY DEF RestoreInv, HandshakeInv, Visits, TypeOK, ServerTypeOK, UpdateStored
  <1>2. \A q \in FilePools : done[q] = {}
    BY <1>1 DEF RestoreInv, FreshInv
  <1> QED
    BY <1>1, <1>2
    DEF RestoreInv, FreshInv, OrderInv, CountInv, PassedInv, Restored,
        UpdateStored, serverVars

\* A new process begins anew.
LEMMA LaunchKeeps ==
  ASSUME Launch
  PROVE  FreshInv' /\ OrderInv' /\ CountInv' /\ PassedInv'
  <1>1. child' = "launching" /\ \A p \in FilePools : done'[p] = {}
    BY DEF Launch, ForkMemory, FreshMemory
  <1> QED
    BY <1>1, FS_EmptySet DEF FreshInv, OrderInv, CountInv, PassedInv, Restored
-----------------------------------------------------------------------------
(* Every step                                                              *)

\* What the child has passed stays passed: it goes from one phase to the next
\* when the loop over the pools is over.
LEMMA PassedStep ==
  ASSUME RestoreInv, [Next]_vars, ~Launch, ~PoolStep
  PROVE  PassedInv'
  <1> USE DEF RestoreInv, PassedInv, serverVars, ChildGoesOn
  <1>1. CASE SeeNumber
    BY <1>1, OrdersAreSequences DEF SeeNumber
  <1>2. CASE RestorePool
    <2>1. child = "restoring" /\ UNCHANGED serverVars /\ mirror' = mirror
      BY <1>2 DEF RestorePool, MakeFolder, RestoreOne
    <2>2. ASSUME NEW q \in FilePools, RestoreIsOver(q, count)
          PROVE  done'[q] = done[q] /\ dir'[q] = dir[q]
      BY <1>2, <2>2
      DEF RestorePool, MakeFolder, RestoreOne, IsNext, TypeOK, PoolTypeOK,
          FileTypeOK
    <2>3. \A q \in FilePools : RestoreIsOver(q, count) => RestoreIsOver(q, count)'
      BY <2>1, <2>2 DEF RestoreIsOver
    <2> QED
      BY <2>1, <2>3
  <1>3. CASE PoolRestored
    <2>1. Range(queue) = {Head(queue)} \cup Range(Tail(queue))
      BY <1>3, QueueShrinks DEF PoolRestored, HandshakeInv, Visits
    <2>2. \A q \in FilePools : RestoreIsOver(q, count)' <=> RestoreIsOver(q, count)
      BY <1>3 DEF PoolRestored, fileVars, RestoreIsOver
    <2> QED
      BY <1>3, <2>1, <2>2 DEF PoolRestored
  <1>4. CASE AllRestored
    <2>1. \A q \in FilePools : RestoreIsOver(q, count)' <=> RestoreIsOver(q, count)
      BY <1>4 DEF AllRestored, fileVars, RestoreIsOver
    <2> QED
      BY <1>4, <2>1, RangeOfEmpty DEF AllRestored
  <1>5. CASE ~SeeNumber /\ ~RestorePool /\ ~PoolRestored /\ ~AllRestored
    <2>1. UNCHANGED <<done, mirror, dir>>
      BY <1>5
      DEF Next, vars, fileVars, Launched, RequestShutdown, ParentStep,
          RequestRestore, ShutDown, ChildStep, LaunchPool, Activate,
          SeeRequest, StopPool, TellShutdown, RestoreDies, Dies, CleanPool,
          CleanUp, ChildExit, StoreDies, PoolDies,
          PickStep, PickFromEmpty, ClockStep, Tick
    <2>2. /\ child' \in {"restoring", "cleaning"} => child' = child
          /\ child' = "off" => child \in {"cleaning", "off"}
          /\ child' \in {"restoring", "cleaning", "off"} => count' = count
          /\ child' = "restoring" => queue' = queue
          /\ launches' = launches
      BY <1>5
      DEF Next, vars, fileVars, Launched, RequestShutdown, ParentStep,
          RequestRestore, ShutDown, ChildStep, LaunchPool, Activate,
          SeeRequest, StopPool, TellShutdown, RestoreDies, Dies, CleanPool,
          ChildExit, StoreDies, PoolDies,
          PickStep, PickFromEmpty, ClockStep
    <2>3. \A q \in FilePools :
            count' = count => (RestoreIsOver(q, count)' <=> RestoreIsOver(q, count))
      BY <2>1 DEF RestoreIsOver
    <2> QED
      BY <2>2, <2>3
  <1> QED
    BY <1>1, <1>2, <1>3, <1>4, <1>5

\* The number the child has seen is not negative, and nothing is copied yet.
LEMMA NumberKeeps ==
  ASSUME RestoreInv, SeeNumber
  PROVE  FreshInv' /\ OrderInv' /\ CountInv'
  <1>1. /\ child = "waiting" /\ child' = "restoring"
        /\ count' = signal_flag_ /\ signal_flag_ >= 0
        /\ UNCHANGED <<done, mirror>>
    BY DEF SeeNumber, isSignal, ChildGoesOn, fileVars, RestoreInv, TypeOK,
           ServerTypeOK, Flags, Ints, EMPTY, REQUEST_SHUTDOWN, ACTIVATED_STATE,
           SHUTDOWN_STATE, CLEANUP_STATE
  <1>2. count' \in Nat
    BY <1>1, ServerAssumption
    DEF RestoreInv, TypeOK, ServerTypeOK, Flags, Ints, EMPTY,
        REQUEST_SHUTDOWN, ACTIVATED_STATE, SHUTDOWN_STATE, CLEANUP_STATE
  <1>3. \A p \in FilePools : done[p] = {}
    BY <1>1 DEF RestoreInv, FreshInv
  <1> QED
    BY <1>1, <1>2, <1>3, FS_EmptySet DEF FreshInv, OrderInv, CountInv

\* Every step keeps the invariant.
LEMMA RestoreStep ==
  ASSUME NumsAreNotCleanup
  PROVE  RestoreInv /\ [Next]_vars => RestoreInv'
  <1> SUFFICES ASSUME RestoreInv, [Next]_vars
               PROVE  FreshInv' /\ OrderInv' /\ CountInv' /\ PassedInv'
    BY TypesStep, HandshakeStep DEF RestoreInv
  <1>1. CASE Launch
    BY <1>1, LaunchKeeps
  <1>2. CASE PoolStep
    <2>1. ASSUME NEW p \in FilePools, NEW value \in Values, StoreFile(p, value)
          PROVE  FreshInv' /\ OrderInv' /\ CountInv' /\ PassedInv'
      BY <1>2, <2>1
      DEF RestoreInv, FreshInv, OrderInv, CountInv, PassedInv, Restored,
          RestoreIsOver, PoolStep, StoreFile, serverVars
    <2>2. ASSUME NEW p \in FilePools, UpdateStored(p)
          PROVE  FreshInv' /\ OrderInv' /\ CountInv' /\ PassedInv'
      BY <1>2, <2>2, UpdateKeeps DEF PoolStep
    <2> QED
      BY <1>2, <2>1, <2>2 DEF PoolStep
  <1>3. CASE SeeNumber
    <2>1. ~Launch /\ ~PoolStep
      BY <1>3 DEF SeeNumber, ChildGoesOn, Launch, PoolStep, serverVars
    <2> QED
      BY <1>3, <2>1, NumberKeeps, PassedStep
  <1>4. CASE RestorePool /\ ~Launch /\ ~PoolStep
    <2>1. child = "restoring" /\ UNCHANGED serverVars
      BY <1>4 DEF RestorePool
    <2>2. ASSUME NEW p, MakeFolder(p, count)
          PROVE  FreshInv' /\ OrderInv' /\ CountInv'
      BY <2>1, <2>2
      DEF MakeFolder, serverVars, RestoreInv, FreshInv, OrderInv, CountInv,
          Restored
    <2>3. ASSUME NEW s \in mirror[Head(queue)], RestoreOne(Head(queue), count, s)
          PROVE  FreshInv' /\ OrderInv' /\ CountInv'
      <3>1. Head(queue) \in FilePools
        BY <2>3, FilePoolAssumption DEF RestoreOne, IsNext, RestoreIsOver
      <3> QED
        BY <2>1, <2>3, <3>1, CopyKeeps
    <2> QED
      BY <1>4, <2>2, <2>3, PassedStep DEF RestorePool
  <1>5. CASE ~Launch /\ ~PoolStep /\ ~SeeNumber /\ ~RestorePool
    <2>1. /\ UNCHANGED <<done, mirror>>
          /\ child' \in {"launching", "serving", "stopping", "waiting"} =>
               child \in {"launching", "serving", "stopping", "waiting"}
          /\ Restored' => Restored /\ count' = count
      BY <1>5
      DEF Next, vars, fileVars, serverVars, ChildGoesOn, Launched,
          RequestShutdown, ParentStep, RequestRestore, ShutDown, ChildStep,
          LaunchPool, Activate, SeeRequest, StopPool, TellShutdown,
          PoolRestored, AllRestored, RestoreDies, Dies, CleanPool, CleanUp,
          ChildExit, StoreDies, PoolDies,
          PickStep, PickFromEmpty, ClockStep, Tick, Restored
    <2> QED
      BY <1>5, <2>1, SamePools, PassedStep
  <1> QED
    BY <1>1, <1>2, <1>3, <1>4, <1>5

\* Where shutdown() has returned, all pools are passed.
LEMMA RestoreInvImplies == RestoreInv => RestoredMostValuable
  <1> SUFFICES ASSUME RestoreInv, parent = "idle", launches > 0,
                      NEW p \in InitFolder
               PROVE  /\ \/ Cardinality(done[p]) = count
                         \/ Cardinality(done[p]) < count /\ done[p] = mirror[p]
                      /\ \A s \in done[p], t \in mirror[p] \ done[p] :
                           t.value <= s.value
    BY DEF RestoredMostValuable
  <1>1. child = "off" /\ launches # 0 /\ p \in FilePools
    BY FilePoolAssumption DEF RestoreInv, HandshakeInv, Phases
  <1>2. RestoreIsOver(p, count) /\ Restored
    BY <1>1 DEF RestoreInv, PassedInv, Restored
  <1>3. /\ count \in Nat /\ Cardinality(done[p]) <= count
        /\ Cardinality(done[p]) \in Nat
    BY <1>1, <1>2, FS_CardinalityType DEF RestoreInv, CountInv
  <1> QED
    BY <1>1, <1>2, <1>3 DEF RestoreIsOver, RestoreInv, OrderInv

\* When shutdown(num) has returned, the copies are the most valuable seeds, and
\* as many as the number in the flag: for any pools, seeds and launches, if no
\* argument looks like CLEANUP_STATE once it is an int.
THEOREM CopiesAreMostValuable ==
  ASSUME NumsAreNotCleanup
  PROVE  Spec => []RestoredMostValuable
  BY RestoreInit, RestoreStep, RestoreInvImplies, PTL DEF Spec
=============================================================================
