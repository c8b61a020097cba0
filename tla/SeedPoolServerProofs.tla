------------------------ MODULE SeedPoolServerProofs ------------------------
(***************************************************************************)
(* Theorems about SeedPoolServer, for every set of pools and every bound.  *)
(***************************************************************************)
EXTENDS SeedPoolServer, SequenceRanges, TLAPS

(* HandshakeHonest speaks of the moments when the parent is told something. *)
(* The invariant below says, for each place the parent can be at, where the *)
(* child can be and what the flag can hold, and for each place the child    *)
(* can be at, which pools its loop has still to visit.                      *)
Phases ==
    /\ parent \in {"idle", "launching", "up", "stopping", "restoring"}
    /\ parent = "idle" => child = "off"
    /\ parent = "launching" =>
          \/ child \in {"launching", "dead"} /\ signal_flag_ = EMPTY
          \/ child \in {"serving", "dead"} /\ signal_flag_ = ACTIVATED_STATE
    /\ parent = "up" =>
          child \in {"serving", "dead"} /\ signal_flag_ = ACTIVATED_STATE
    /\ parent = "stopping" =>
          \/ /\ child \in {"serving", "stopping", "dead"}
             /\ signal_flag_ = REQUEST_SHUTDOWN
          \/ child = "waiting" /\ signal_flag_ = SHUTDOWN_STATE
    /\ parent = "restoring" =>
          \/ /\ child \in {"waiting", "restoring", "cleaning", "dead"}
             /\ signal_flag_ # CLEANUP_STATE
          \/ child = "off" /\ signal_flag_ = CLEANUP_STATE

Visits ==
    /\ queue \in Seq(allPools)
    /\ child = "launching" => up \cup Range(queue) = allPools
    /\ child = "serving" => up = allPools
    /\ child = "stopping" => up \subseteq Range(queue)
    /\ child \in {"waiting", "restoring", "cleaning", "off", "dead"} => up = {}
    /\ child = "cleaning" => folder \subseteq Range(queue)
    /\ child = "off" /\ launches # 0 => folder = {}

(* The child must be able to wait for the number: one that the flag turns   *)
(* into CLEANUP_STATE would let shutdown() return at once.                  *)
NumsAreNotCleanup == \A num \in Nums : ToInt(num) # CLEANUP_STATE

(* The files are where they were made, in every phase. *)
FolderOK == folder \subseteq FilePools

HandshakeInv == Phases /\ Visits /\ FolderOK

LEMMA OrdersAreSequences ==
  /\ fileOrder \in Seq(allPools) /\ regularOrder \in Seq(allPools)
  /\ fileOrder \o regularOrder \in Seq(allPools)
  /\ Range(fileOrder) = FilePools
  /\ Range(fileOrder \o regularOrder) = allPools
  <1>1. Range(fileOrder) = FilePools /\ FilePools \subseteq allPools
    BY ServerAssumption DEF allPools
  <1>2. fileOrder \in Seq(allPools)
    BY <1>1, ServerAssumption
  <1>3. Range(regularOrder) \subseteq allPools
    BY DEF allPools
  <1>4. regularOrder \in Seq(allPools)
    BY <1>3, ServerAssumption
  <1>5. Range(fileOrder \o regularOrder) = Range(fileOrder) \cup Range(regularOrder)
    BY <1>2, <1>4, RangeOfConcat
  <1>6. QED
    BY <1>1, <1>2, <1>4, <1>5 DEF allPools

LEMMA QueueShrinks ==
  ASSUME queue \in Seq(allPools), queue # <<>>
  PROVE  /\ Head(queue) \in allPools
         /\ Tail(queue) \in Seq(allPools)
         /\ Range(queue) = {Head(queue)} \cup Range(Tail(queue))
  BY RangeOfTail

LEMMA HandshakeInit == Init => HandshakeInv
  BY DEF Init, FileInit, HandshakeInv, Phases, Visits, FolderOK

LEMMA HandshakeStep ==
  ASSUME NumsAreNotCleanup
  PROVE  HandshakeInv /\ [Next]_vars => HandshakeInv'
  <1> SUFFICES ASSUME HandshakeInv, [Next]_vars
               PROVE  HandshakeInv'
    OBVIOUS
  <1> USE DEF HandshakeInv, Phases, Visits, FolderOK, fileVars, serverVars,
              ChildGoesOn, EMPTY, REQUEST_SHUTDOWN, ACTIVATED_STATE,
              SHUTDOWN_STATE, CLEANUP_STATE
  <1>1. CASE Launch
    BY <1>1, OrdersAreSequences DEF Launch, ForkMemory
  <1>2. CASE Launched
    BY <1>2 DEF Launched
  <1>3. CASE RequestShutdown
    BY <1>3 DEF RequestShutdown
  <1>4. ASSUME NEW num \in Nums, RequestRestore(num)
        PROVE  HandshakeInv'
    BY <1>4 DEF RequestRestore, NumsAreNotCleanup
  <1>5. CASE ShutDown
    BY <1>5 DEF ShutDown
  <1>6. CASE LaunchPool
    BY <1>6, QueueShrinks DEF LaunchPool
  <1>7. CASE Activate
    <2>1. Phases'
      BY <1>7 DEF Activate
    <2>2. Visits' /\ FolderOK'
      BY <1>7, RangeOfEmpty DEF Activate
    <2> QED
      BY <2>1, <2>2
  <1>8. CASE SeeRequest
    BY <1>8, OrdersAreSequences DEF SeeRequest
  <1>9. CASE StopPool
    BY <1>9, QueueShrinks DEF StopPool
  <1>10. CASE TellShutdown
    BY <1>10, RangeOfEmpty DEF TellShutdown
  <1>11. CASE SeeNumber
    BY <1>11, OrdersAreSequences DEF SeeNumber, isSignal
  <1>12. CASE RestorePool
    BY <1>12 DEF RestorePool, MakeFolder, RestoreOne
  <1>13. CASE PoolRestored
    BY <1>13, QueueShrinks DEF PoolRestored
  <1>14. CASE AllRestored
    BY <1>14, OrdersAreSequences DEF AllRestored
  <1>15. CASE CleanPool
    BY <1>15, QueueShrinks DEF CleanPool, CleanUp
  <1>16. CASE ChildExit
    BY <1>16, RangeOfEmpty DEF ChildExit
  <1>17. CASE StoreDies
    BY <1>17 DEF StoreDies, StoreThrows, Dies
  <1>18. CASE RestoreDies
    BY <1>18 DEF RestoreDies, Dies
  <1>19. CASE PoolStep
    BY <1>19 DEF PoolStep, UpdateStored, StoreFile
  <1>20. CASE ClockStep
    BY <1>20 DEF ClockStep, Tick
  <1>21. CASE UNCHANGED vars
    BY <1>21 DEF vars
  <1>22. CASE PoolDies
    BY <1>22 DEF PoolDies, Dies
  <1>23. CASE PickStep
    BY <1>23 DEF PickStep, PickFromEmpty
  <1>24. QED
    BY <1>1, <1>2, <1>3, <1>4, <1>5, <1>6, <1>7, <1>8, <1>9, <1>10, <1>11,
       <1>12, <1>13, <1>14, <1>15, <1>16, <1>17, <1>18, <1>19, <1>20, <1>21,
       <1>22, <1>23
    DEF Next, ParentStep, ChildStep

LEMMA HandshakeInvImplies == HandshakeInv => HandshakeHonest
  BY DEF HandshakeInv, Phases, Visits, HandshakeHonest

\* launch() and shutdown() tell the truth about the child, however many pools
\* it has and however often they are called, provided that no argument of
\* shutdown() looks like CLEANUP_STATE once it is an int.
THEOREM HandshakeIsHonest ==
  ASSUME NumsAreNotCleanup
  PROVE  Spec => []HandshakeHonest
  BY HandshakeInit, HandshakeStep, HandshakeInvImplies, PTL DEF Spec

-----------------------------------------------------------------------------
(* Types *)

\* The number of shutdown() always becomes an int.
LEMMA ToIntIsInt == \A num \in Nums : ToInt(num) \in Ints
  <1> SUFFICES ASSUME NEW num \in Nums
               PROVE  ToInt(num) \in Ints
    OBVIOUS
  <1>1. num \in Nat /\ IntHalf \in Nat /\ IntHalf > 0
    BY ServerAssumption
  <1>2. (num + IntHalf) % (2 * IntHalf) \in 0 .. 2 * IntHalf - 1
    BY <1>1
  <1>3. QED
    BY <1>1, <1>2 DEF ToInt, Ints

LEMMA TypesInit == Init => TypeOK
  <1> SUFFICES ASSUME Init
               PROVE  TypeOK
    OBVIOUS
  <1> USE FilePoolAssumption, ServerAssumption DEF Init, FileInit, FreshMemory
  <1>1. ClockTypeOK
    BY DEF ClockTypeOK, Stamps
  <1>2. PoolTypeOK
    BY DEF PoolTypeOK, Seeds
  <1>3. FileTypeOK
    BY DEF FileTypeOK
  <1>4. ServerTypeOK
    BY DEF ServerTypeOK, Flags, Ints
  <1>5. QED
    BY <1>1, <1>2, <1>3, <1>4 DEF TypeOK

LEMMA TypesStep == TypeOK /\ [Next]_vars => TypeOK'
  <1> SUFFICES ASSUME TypeOK, [Next]_vars
               PROVE  TypeOK'
    OBVIOUS
  <1> USE FilePoolAssumption, ServerAssumption
      DEF TypeOK, serverVars, fileVars, ChildGoesOn
  <1>1. CASE Launch
    <2>1. ClockTypeOK'
      BY <1>1, OrdersAreSequences DEF Launch, ForkMemory, FreshMemory, ClockTypeOK
    <2>2. PoolTypeOK'
      BY <1>1, OrdersAreSequences DEF Launch, ForkMemory, FreshMemory, PoolTypeOK, Seeds
    <2>3. FileTypeOK'
      BY <1>1, OrdersAreSequences DEF Launch, ForkMemory, FreshMemory, FileTypeOK
    <2>4. ServerTypeOK'
      BY <1>1, OrdersAreSequences DEF Launch, ForkMemory, FreshMemory, ServerTypeOK,
             Flags, Ints
    <2>5. QED
      BY <2>1, <2>2, <2>3, <2>4
  <1>2. CASE Launched
    <2>1. ClockTypeOK'
      BY <1>2 DEF Launched, ClockTypeOK
    <2>2. PoolTypeOK'
      BY <1>2 DEF Launched, PoolTypeOK
    <2>3. FileTypeOK'
      BY <1>2 DEF Launched, FileTypeOK
    <2>4. ServerTypeOK'
      BY <1>2 DEF Launched, ServerTypeOK
    <2>5. QED
      BY <2>1, <2>2, <2>3, <2>4
  <1>3. CASE RequestShutdown
    <2>1. ClockTypeOK'
      BY <1>3 DEF RequestShutdown, ClockTypeOK
    <2>2. PoolTypeOK'
      BY <1>3 DEF RequestShutdown, PoolTypeOK
    <2>3. FileTypeOK'
      BY <1>3 DEF RequestShutdown, FileTypeOK
    <2>4. ServerTypeOK'
      BY <1>3 DEF RequestShutdown, ServerTypeOK, Flags
    <2>5. QED
      BY <2>1, <2>2, <2>3, <2>4
  <1>4. ASSUME NEW num \in Nums, RequestRestore(num)
        PROVE  TypeOK'
    <2>1. ClockTypeOK'
      BY <1>4, ToIntIsInt DEF RequestRestore, ClockTypeOK
    <2>2. PoolTypeOK'
      BY <1>4, ToIntIsInt DEF RequestRestore, PoolTypeOK
    <2>3. FileTypeOK'
      BY <1>4, ToIntIsInt DEF RequestRestore, FileTypeOK
    <2>4. ServerTypeOK'
      BY <1>4, ToIntIsInt DEF RequestRestore, ServerTypeOK, Flags
    <2>5. QED
      BY <2>1, <2>2, <2>3, <2>4
  <1>5. CASE ShutDown
    <2>1. ClockTypeOK'
      BY <1>5 DEF ShutDown, ClockTypeOK
    <2>2. PoolTypeOK'
      BY <1>5 DEF ShutDown, PoolTypeOK
    <2>3. FileTypeOK'
      BY <1>5 DEF ShutDown, FileTypeOK
    <2>4. ServerTypeOK'
      BY <1>5 DEF ShutDown, ServerTypeOK
    <2>5. QED
      BY <2>1, <2>2, <2>3, <2>4
  <1>6. CASE LaunchPool
    <2>1. ClockTypeOK'
      BY <1>6, QueueShrinks DEF LaunchPool, ClockTypeOK
    <2>2. PoolTypeOK'
      BY <1>6, QueueShrinks DEF LaunchPool, PoolTypeOK, ServerTypeOK
    <2>3. FileTypeOK'
      BY <1>6, QueueShrinks DEF LaunchPool, FileTypeOK
    <2>4. ServerTypeOK'
      BY <1>6, QueueShrinks DEF LaunchPool, ServerTypeOK
    <2>5. QED
      BY <2>1, <2>2, <2>3, <2>4
  <1>7. CASE Activate
    <2>1. ClockTypeOK'
      BY <1>7 DEF Activate, ClockTypeOK
    <2>2. PoolTypeOK'
      BY <1>7 DEF Activate, PoolTypeOK
    <2>3. FileTypeOK'
      BY <1>7 DEF Activate, FileTypeOK
    <2>4. ServerTypeOK'
      BY <1>7 DEF Activate, ServerTypeOK, Flags
    <2>5. QED
      BY <2>1, <2>2, <2>3, <2>4
  <1>8. CASE SeeRequest
    <2>1. ClockTypeOK'
      BY <1>8, OrdersAreSequences DEF SeeRequest, ClockTypeOK
    <2>2. PoolTypeOK'
      BY <1>8, OrdersAreSequences DEF SeeRequest, PoolTypeOK
    <2>3. FileTypeOK'
      BY <1>8, OrdersAreSequences DEF SeeRequest, FileTypeOK
    <2>4. ServerTypeOK'
      BY <1>8, OrdersAreSequences DEF SeeRequest, ServerTypeOK
    <2>5. QED
      BY <2>1, <2>2, <2>3, <2>4
  <1>9. CASE StopPool
    <2>1. ClockTypeOK'
      BY <1>9, QueueShrinks DEF StopPool, ClockTypeOK
    <2>2. PoolTypeOK'
      BY <1>9, QueueShrinks DEF StopPool, PoolTypeOK
    <2>3. FileTypeOK'
      BY <1>9, QueueShrinks DEF StopPool, FileTypeOK
    <2>4. ServerTypeOK'
      BY <1>9, QueueShrinks DEF StopPool, ServerTypeOK
    <2>5. QED
      BY <2>1, <2>2, <2>3, <2>4
  <1>10. CASE TellShutdown
    <2>1. ClockTypeOK'
      BY <1>10 DEF TellShutdown, ClockTypeOK
    <2>2. PoolTypeOK'
      BY <1>10 DEF TellShutdown, PoolTypeOK
    <2>3. FileTypeOK'
      BY <1>10 DEF TellShutdown, FileTypeOK
    <2>4. ServerTypeOK'
      BY <1>10 DEF TellShutdown, ServerTypeOK, Flags
    <2>5. QED
      BY <2>1, <2>2, <2>3, <2>4
  <1>11. CASE SeeNumber
    <2>1. ClockTypeOK'
      BY <1>11, OrdersAreSequences DEF SeeNumber, isSignal, ClockTypeOK
    <2>2. PoolTypeOK'
      BY <1>11, OrdersAreSequences DEF SeeNumber, isSignal, PoolTypeOK
    <2>3. FileTypeOK'
      BY <1>11, OrdersAreSequences DEF SeeNumber, isSignal, FileTypeOK
    <2>4. ServerTypeOK'
      BY <1>11, OrdersAreSequences DEF SeeNumber, isSignal, ServerTypeOK,
             Flags, EMPTY, REQUEST_SHUTDOWN,
             ACTIVATED_STATE, SHUTDOWN_STATE, CLEANUP_STATE
    <2>5. QED
      BY <2>1, <2>2, <2>3, <2>4
  <1>12. CASE RestorePool
    <2>1. ClockTypeOK'
      BY <1>12 DEF RestorePool, MakeFolder, RestoreOne, Copy, IsNext, MostValuable, Content, ClockTypeOK
    <2>2. PoolTypeOK'
      <3>1. ASSUME NEW p, MakeFolder(p, count)
            PROVE  PoolTypeOK'
        BY <3>1 DEF MakeFolder, PoolTypeOK
      <3>2. ASSUME NEW p, NEW s \in mirror[p], RestoreOne(p, count, s)
            PROVE  PoolTypeOK'
        <4>1. DOMAIN done' = FilePools
          BY <3>2 DEF RestoreOne, PoolTypeOK
        <4>2. ASSUME NEW q \in FilePools
              PROVE  done'[q] \subseteq mirror[q]
          BY <3>2 DEF RestoreOne, PoolTypeOK
        <4>3. QED
          BY <3>2, <4>1, <4>2 DEF RestoreOne, PoolTypeOK
      <3>3. QED
        BY <1>12, <3>1, <3>2 DEF RestorePool
    <2>3. FileTypeOK'
      <3>1. now \in Nat /\ now \in 0..now
        BY DEF ClockTypeOK, Stamps
      <3>2. ASSUME NEW p, MakeFolder(p, count)
            PROVE  FileTypeOK'
        <4>1. dir' \in [FilePools -> {NoFolder} \cup 0..now]
          BY <3>1, <3>2 DEF MakeFolder, FileTypeOK
        <4>2. QED
          BY <3>2, <4>1 DEF MakeFolder, FileTypeOK
      <3>3. ASSUME NEW p, NEW s \in mirror[p], RestoreOne(p, count, s)
            PROVE  FileTypeOK'
        <4>1. DOMAIN restored' = FilePools
          BY <3>3 DEF RestoreOne, FileTypeOK
        <4>2. ASSUME p \in FilePools
              PROVE  Copy(p, s).dir \in 0..now /\ Copy(p, s).stamp = now
          BY <3>3, <4>2 DEF RestoreOne, IsNext, Copy, FileTypeOK
        <4>3. ASSUME NEW q \in FilePools, NEW c \in restored'[q]
              PROVE  c.dir \in 0..c.stamp /\ c.stamp \in 0..now
          <5>1. c \in restored[q] \/ (q = p /\ c = Copy(p, s))
            <6>1. restored'[q] =
                    IF q = p THEN restored[q] \cup {Copy(p, s)} ELSE restored[q]
              BY <3>3 DEF RestoreOne, FileTypeOK
            <6>2. QED
              BY <4>3, <6>1
          <5>2. QED
            BY <3>1, <4>2, <5>1 DEF FileTypeOK
        <4>4. QED
          BY <3>3, <4>1, <4>3 DEF RestoreOne, FileTypeOK
      <3>4. QED
        BY <1>12, <3>2, <3>3 DEF RestorePool
    <2>4. ServerTypeOK'
      BY <1>12 DEF RestorePool, MakeFolder, RestoreOne, Copy, IsNext, MostValuable, Content, ServerTypeOK
    <2>5. QED
      BY <2>1, <2>2, <2>3, <2>4
  <1>13. CASE PoolRestored
    <2>1. ClockTypeOK'
      BY <1>13, QueueShrinks DEF PoolRestored, ClockTypeOK
    <2>2. PoolTypeOK'
      BY <1>13, QueueShrinks DEF PoolRestored, PoolTypeOK
    <2>3. FileTypeOK'
      BY <1>13, QueueShrinks DEF PoolRestored, FileTypeOK
    <2>4. ServerTypeOK'
      BY <1>13, QueueShrinks DEF PoolRestored, ServerTypeOK
    <2>5. QED
      BY <2>1, <2>2, <2>3, <2>4
  <1>14. CASE AllRestored
    <2>1. ClockTypeOK'
      BY <1>14, OrdersAreSequences DEF AllRestored, ClockTypeOK
    <2>2. PoolTypeOK'
      BY <1>14, OrdersAreSequences DEF AllRestored, PoolTypeOK
    <2>3. FileTypeOK'
      BY <1>14, OrdersAreSequences DEF AllRestored, FileTypeOK
    <2>4. ServerTypeOK'
      BY <1>14, OrdersAreSequences DEF AllRestored, ServerTypeOK
    <2>5. QED
      BY <2>1, <2>2, <2>3, <2>4
  <1>15. CASE CleanPool
    <2>1. ClockTypeOK'
      BY <1>15, QueueShrinks DEF CleanPool, CleanUp, ClockTypeOK
    <2>2. PoolTypeOK'
      BY <1>15, QueueShrinks DEF CleanPool, CleanUp, PoolTypeOK
    <2>3. FileTypeOK'
      BY <1>15, QueueShrinks DEF CleanPool, CleanUp, FileTypeOK
    <2>4. ServerTypeOK'
      BY <1>15, QueueShrinks DEF CleanPool, CleanUp, ServerTypeOK
    <2>5. QED
      BY <2>1, <2>2, <2>3, <2>4
  <1>16. CASE ChildExit
    <2>1. ClockTypeOK'
      BY <1>16 DEF ChildExit, ClockTypeOK
    <2>2. PoolTypeOK'
      BY <1>16 DEF ChildExit, PoolTypeOK
    <2>3. FileTypeOK'
      BY <1>16 DEF ChildExit, FileTypeOK
    <2>4. ServerTypeOK'
      BY <1>16 DEF ChildExit, ServerTypeOK, Flags
    <2>5. QED
      BY <2>1, <2>2, <2>3, <2>4
  <1>17. CASE StoreDies
    <2>1. ClockTypeOK'
      BY <1>17 DEF StoreDies, Dies, ClockTypeOK
    <2>2. PoolTypeOK'
      BY <1>17 DEF StoreDies, Dies, PoolTypeOK
    <2>3. FileTypeOK'
      BY <1>17 DEF StoreDies, Dies, FileTypeOK
    <2>4. ServerTypeOK'
      BY <1>17 DEF StoreDies, Dies, ServerTypeOK
    <2>5. QED
      BY <2>1, <2>2, <2>3, <2>4
  <1>18. CASE RestoreDies
    <2>1. ClockTypeOK'
      BY <1>18 DEF RestoreDies, Dies, ClockTypeOK
    <2>2. PoolTypeOK'
      BY <1>18 DEF RestoreDies, Dies, PoolTypeOK
    <2>3. FileTypeOK'
      BY <1>18 DEF RestoreDies, Dies, FileTypeOK
    <2>4. ServerTypeOK'
      BY <1>18 DEF RestoreDies, Dies, ServerTypeOK
    <2>5. QED
      BY <2>1, <2>2, <2>3, <2>4
  <1>19. CASE PoolStep
    <2>1. ClockTypeOK'
      BY <1>19 DEF PoolStep, UpdateStored, UpdateGoesOn, StoreFile, ClockTypeOK
    <2>2. PoolTypeOK'
      <3>1. ASSUME NEW p \in FilePools, UpdateStored(p)
            PROVE  PoolTypeOK'
        <4>1. /\ unstored[p] \in Seq(StoredSeeds) /\ unstored[p] # <<>>
              /\ mirror[p] \subseteq Seeds(p)
          BY <3>1 DEF UpdateStored, PoolTypeOK
        <4>2. /\ Head(unstored[p]) \in StoredSeeds
              /\ Tail(unstored[p]) \in Seq(StoredSeeds)
          BY <4>1
        <4>3. mirror[p] \cup {Head(unstored[p])} \subseteq Seeds(p)
          BY <4>1, <4>2 DEF Seeds
        <4>4. unstored' \in [FilePools -> Seq(StoredSeeds)]
          BY <3>1, <4>2 DEF UpdateStored, PoolTypeOK
        <4>5. QED
          BY <3>1, <4>3, <4>4 DEF UpdateStored, UpdateGoesOn, PoolTypeOK, allPools
      <3>2. ASSUME NEW p \in FilePools, NEW value \in Values,
                   StoreFile(p, value)
            PROVE  PoolTypeOK'
        <4>1. Seed(stores', now, value) \in StoredSeeds
          BY <3>2 DEF StoreFile, Seed, StoredSeeds, ClockTypeOK
        <4>2. unstored' \in [FilePools -> Seq(StoredSeeds)]
          BY <3>2, <4>1 DEF StoreFile, PoolTypeOK
        <4>3. QED
          BY <3>2, <4>2 DEF StoreFile, PoolTypeOK
      <3>3. QED
        BY <1>19, <3>1, <3>2 DEF PoolStep
    <2>3. FileTypeOK'
      <3>1. ASSUME NEW p \in FilePools, NEW value \in Values,
                   StoreFile(p, value)
            PROVE  FileTypeOK'
        <4>1. now \in 0..now
          BY DEF ClockTypeOK, Stamps
        <4>2. DOMAIN tmp'[p] = DOMAIN tmp[p] \cup {now}
          BY <3>1 DEF StoreFile, FileTypeOK
        <4>3. DOMAIN tmp' = FilePools
          BY <3>1 DEF StoreFile, FileTypeOK
        <4>4. \A q \in FilePools : DOMAIN tmp'[q] \subseteq 0..now
          BY <3>1, <4>1, <4>2 DEF StoreFile, FileTypeOK
        <4>5. QED
          BY <3>1, <4>3, <4>4 DEF StoreFile, FileTypeOK
      <3>2. QED
        BY <1>19, <3>1 DEF PoolStep, UpdateStored, FileTypeOK
    <2>4. ServerTypeOK'
      BY <1>19 DEF PoolStep, UpdateStored, StoreFile, ServerTypeOK
    <2>5. QED
      BY <2>1, <2>2, <2>3, <2>4
  <1>20. CASE ClockStep
    <2>1. ClockTypeOK'
      BY <1>20 DEF ClockStep, Tick, ClockTypeOK, Stamps
    <2>2. PoolTypeOK'
      BY <1>20 DEF ClockStep, Tick, PoolTypeOK
    <2>3. FileTypeOK'
      <3>1. 0..now \subseteq 0..now'
        BY <1>20 DEF ClockStep, Tick, ClockTypeOK, Stamps
      <3>2. QED
        BY <1>20, <3>1 DEF ClockStep, Tick, FileTypeOK
    <2>4. ServerTypeOK'
      BY <1>20 DEF ClockStep, Tick, ServerTypeOK
    <2>5. QED
      BY <2>1, <2>2, <2>3, <2>4
  <1>21. CASE UNCHANGED vars
    BY <1>21 DEF vars, ClockTypeOK, PoolTypeOK, FileTypeOK, ServerTypeOK
  <1>22. CASE PoolDies
    BY <1>22
    DEF PoolDies, Dies, ClockTypeOK, PoolTypeOK, FileTypeOK, ServerTypeOK
  <1>23. CASE PickStep
    BY <1>23
    DEF PickStep, PickFromEmpty, ClockTypeOK, PoolTypeOK, FileTypeOK, ServerTypeOK
  <1>24. QED
    BY <1>1, <1>2, <1>3, <1>4, <1>5, <1>6, <1>7, <1>8, <1>9, <1>10, <1>11,
       <1>12, <1>13, <1>14, <1>15, <1>16, <1>17, <1>18, <1>19, <1>20,
       <1>21, <1>22, <1>23
    DEF Next, ParentStep, ChildStep

\* Every variable keeps its type, with any pools, numbers and bounds.
THEOREM TypeCorrect == Spec => []TypeOK
  BY TypesInit, TypesStep, PTL DEF Spec

\* No step at all changes or removes a file that was restored.
THEOREM RestoredFilesStay == Spec => CopiesStay
  <1>1. ASSUME TypeOK, [Next]_vars
        PROVE  \A p \in FilePools : restored[p] \subseteq restored'[p]
    <2>1. CASE UNCHANGED restored
      BY <2>1
    <2>2. CASE RestorePool
      BY <2>2, <1>1 DEF RestorePool, MakeFolder, RestoreOne, TypeOK, FileTypeOK
    <2>3. QED
      BY <1>1, <2>1, <2>2
      DEF Next, vars, fileVars, Launch, Launched, RequestShutdown, ParentStep,
          RequestRestore, ShutDown, ChildStep, LaunchPool, Activate,
          SeeRequest, StopPool, TellShutdown, SeeNumber, PoolRestored,
          AllRestored, RestoreDies, Dies, CleanPool, ChildExit, StoreDies,
          PoolDies, PoolStep, PickStep, PickFromEmpty, ClockStep, ForkMemory,
          CleanUp, UpdateStored, StoreFile, Tick
  <1>2. QED
    BY <1>1, TypesInit, TypesStep, PTL DEF Spec, CopiesStay
=============================================================================
