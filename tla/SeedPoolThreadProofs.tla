------------------------ MODULE SeedPoolThreadProofs ------------------------
(***************************************************************************)
(* Theorems about SeedPoolThread, for every set of seeds and every bound.  *)
(***************************************************************************)
EXTENDS SeedPoolThread, SequenceRanges, TLAPS

(* TypeOK is not inductive by itself: what a request, a queue or a         *)
(* descriptor holds at some points of the threads has to go with it.       *)
Held ==
    /\ callback = "push" => message \in StoredSeeds
    /\ update = "popUnstored" => unstored_seed_ # <<>>
    /\ proc = "running" /\ main \notin {"delete", "off"} =>
          /\ fd_PoolToWork => open_PoolToWork > 0
          /\ fd_WorkToPool => open_WorkToPool > 0

TypeInv == TypeOK /\ Held

LEMMA TypeInvInit == Init => TypeInv
  <1> SUFFICES ASSUME Init
               PROVE  TypeInv
    OBVIOUS
  <1> USE SeedsAssumption, BoundsAssumption
      DEF Init, StoredSeeds, Requests, Replies
  <1>1. PoolTypeOK
    BY DEF PoolTypeOK
  <1>2. ThreadTypeOK
    BY DEF ThreadTypeOK
  <1>3. FifoTypeOK
    BY DEF FifoTypeOK
  <1>4. UserTypeOK
    BY DEF UserTypeOK
  <1>5. FlagTypeOK
    BY DEF FlagTypeOK
  <1>6. Held
    BY DEF Held
  <1>7. QED
    BY <1>1, <1>2, <1>3, <1>4, <1>5, <1>6 DEF TypeInv, TypeOK

LEMMA TypeInvStep == TypeInv /\ [Next]_vars => TypeInv'
  <1> SUFFICES ASSUME TypeInv, [Next]_vars
               PROVE  TypeInv'
    OBVIOUS
  <1> USE SeedsAssumption, BoundsAssumption
      DEF TypeInv, TypeOK, PoolTypeOK, ThreadTypeOK, FlagTypeOK, FifoTypeOK,
          UserTypeOK, Held, StoredSeeds, Requests, Replies, poolVars,
          callbackVars, updateVars, fifoVars, fdVars, userVars, CallbackStep,
          UpdateStep
  <1>1. CASE Launch
    BY <1>1 DEF Launch
  <1>2. CASE RequestExit
    BY <1>2 DEF RequestExit
  <1>3. CASE JoinCallback
    BY <1>3 DEF JoinCallback
  <1>4. CASE JoinUpdate
    BY <1>4 DEF JoinUpdate
  <1>5. CASE ClosePipes
    BY <1>5 DEF ClosePipes
  <1>6. CASE DelPipes
    <2>1. PoolTypeOK'
      BY <1>6 DEF DelPipes
    <2>2. ThreadTypeOK'
      BY <1>6 DEF DelPipes
    <2>3. FlagTypeOK'
      BY <1>6 DEF DelPipes
    <2>4. FifoTypeOK'
      BY <1>6 DEF DelPipes
    <2>5. UserTypeOK'
      BY <1>6 DEF DelPipes
    <2>6. Held'
      BY <1>6 DEF DelPipes
    <2>7. QED
      BY <2>1, <2>2, <2>3, <2>4, <2>5, <2>6
  <1>7. CASE ProcessExit
    BY <1>7 DEF ProcessExit, Die
  <1>8. CASE CallbackLoop
    BY <1>8 DEF CallbackLoop
  <1>9. CASE OpenPoolToWork
    BY <1>9 DEF OpenPoolToWork, ReaderPresent, DescriptorFree
  <1>10. CASE OpenWorkToPool
    BY <1>10 DEF OpenWorkToPool, DescriptorFree
  <1>11. CASE ReadNothing
    BY <1>11 DEF ReadNothing
  <1>12. CASE ReadRequest
    BY <1>12 DEF ReadRequest, RequestText
  <1>13. CASE ReadOverflow
    BY <1>13 DEF ReadOverflow, Die
  <1>14. CASE TryPick
    BY <1>14 DEF TryPick
  <1>15. CASE LockForPop
    BY <1>15 DEF LockForPop
  <1>16. CASE PopNothing
    BY <1>16 DEF PopNothing
  <1>17. CASE PopPrepared
    BY <1>17 DEF PopPrepared
  <1>18. CASE SendSeed
    <2>1. PoolTypeOK'
      BY <1>18 DEF SendSeed, Send, Die, ReaderPresent
    <2>2. ThreadTypeOK'
      BY <1>18 DEF SendSeed, Send, Die, ReaderPresent
    <2>3. FlagTypeOK'
      BY <1>18 DEF SendSeed, Send, Die, ReaderPresent
    <2>4. FifoTypeOK'
      <3>1. PoolToWork' \in {PoolToWork, Append(PoolToWork, picked_seed)}
        BY <1>18 DEF SendSeed, Send
      <3>2. Append(PoolToWork, picked_seed) \in Seq(Replies)
        OBVIOUS
      <3>3. PoolToWork \in Seq(Replies)
        OBVIOUS
      <3>4. PoolToWork' \in Seq(Replies)
        BY <3>1, <3>2, <3>3, Zenon
      <3>5. WorkToPool' = WorkToPool
        BY <1>18 DEF SendSeed, Send
      <3>6. open_PoolToWork' \in Nat /\ open_WorkToPool' \in Nat
        BY <1>18 DEF SendSeed, Send, Die
      <3>7. QED
        BY <3>4, <3>5, <3>6
    <2>5. UserTypeOK'
      BY <1>18 DEF SendSeed, Send, Die, ReaderPresent
    <2>6. Held'
      BY <1>18 DEF SendSeed, Send, Die, ReaderPresent
    <2>7. QED
      BY <2>1, <2>2, <2>3, <2>4, <2>5, <2>6
  <1>19. CASE PushUnstored
    <2>1. PoolTypeOK'
      <3>1. unstored_seed_' \in {unstored_seed_, Append(unstored_seed_, message)}
        BY <1>19 DEF PushUnstored
      <3>2. Append(unstored_seed_, message) \in Seq(StoredSeeds)
        BY <1>19 DEF PushUnstored
      <3>3. UNCHANGED <<seed_pool_, prepared_seeds_, queue_lock_>>
        BY <1>19 DEF PushUnstored
      <3>4. QED
        BY <3>1, <3>2, <3>3
    <2>2. ThreadTypeOK'
      BY <1>19 DEF PushUnstored, Die, UpdateInUnstored
    <2>3. FlagTypeOK'
      BY <1>19 DEF PushUnstored, Die, UpdateInUnstored
    <2>4. FifoTypeOK'
      BY <1>19 DEF PushUnstored, Die, UpdateInUnstored
    <2>5. UserTypeOK'
      BY <1>19 DEF PushUnstored, Die, UpdateInUnstored
    <2>6. Held'
      BY <1>19 DEF PushUnstored, Die, UpdateInUnstored
    <2>7. QED
      BY <2>1, <2>2, <2>3, <2>4, <2>5, <2>6
  <1>20. CASE SendAck
    <2>1. PoolTypeOK'
      BY <1>20 DEF SendAck, Send, Die, ReaderPresent
    <2>2. ThreadTypeOK'
      BY <1>20 DEF SendAck, Send, Die, ReaderPresent
    <2>3. FlagTypeOK'
      BY <1>20 DEF SendAck, Send, Die, ReaderPresent
    <2>4. FifoTypeOK'
      <3>1. PoolToWork' \in {PoolToWork, Append(PoolToWork, I_M_HERE)}
        BY <1>20 DEF SendAck, Send
      <3>2. Append(PoolToWork, I_M_HERE) \in Seq(Replies)
        OBVIOUS
      <3>3. PoolToWork \in Seq(Replies)
        OBVIOUS
      <3>4. PoolToWork' \in Seq(Replies)
        BY <3>1, <3>2, <3>3, Zenon
      <3>5. WorkToPool' = WorkToPool
        BY <1>20 DEF SendAck, Send
      <3>6. open_PoolToWork' \in Nat /\ open_WorkToPool' \in Nat
        BY <1>20 DEF SendAck, Send, Die
      <3>7. QED
        BY <3>4, <3>5, <3>6
    <2>5. UserTypeOK'
      BY <1>20 DEF SendAck, Send, Die, ReaderPresent
    <2>6. Held'
      BY <1>20 DEF SendAck, Send, Die, ReaderPresent
    <2>7. QED
      BY <2>1, <2>2, <2>3, <2>4, <2>5, <2>6
  <1>21. CASE UpdateLoop
    BY <1>21 DEF UpdateLoop
  <1>22. CASE StoreFront
    BY <1>22 DEF StoreFront
  <1>23. CASE PopUnstored
    BY <1>23 DEF PopUnstored
  <1>24. CASE EnoughPrepared
    BY <1>24 DEF EnoughPrepared, SeemsFull
  <1>25. CASE PickForPrepared
    BY <1>25 DEF PickForPrepared, SeemsToHaveRoom
  <1>26. CASE LockForPush
    BY <1>26 DEF LockForPush
  <1>27. CASE PushPrepared
    BY <1>27 DEF PushPrepared
  <1>28. ASSUME NEW r \in Workload, Ask(r)
        PROVE  TypeInv'
    BY <1>28 DEF Ask, poolSide
  <1>29. CASE UserOpenPoolToWork
    BY <1>29 DEF UserOpenPoolToWork, poolSide
  <1>30. CASE UserOpenWorkToPool
    BY <1>30 DEF UserOpenWorkToPool, poolSide
  <1>31. CASE UserOpenFails
    BY <1>31 DEF UserOpenFails, Exit, poolSide
  <1>32. CASE UserWrite
    <2>1. PoolTypeOK'
      BY <1>32 DEF UserWrite, Exit, poolSide
    <2>2. ThreadTypeOK'
      BY <1>32 DEF UserWrite, Exit, poolSide
    <2>3. FlagTypeOK'
      BY <1>32 DEF UserWrite, Exit, poolSide
    <2>4. FifoTypeOK'
      <3>1. WorkToPool' \in {WorkToPool, Append(WorkToPool, request)}
        BY <1>32 DEF UserWrite
      <3>2. Append(WorkToPool, request) \in Seq(Requests)
        OBVIOUS
      <3>3. UNCHANGED <<PoolToWork, open_PoolToWork, open_WorkToPool>>
        BY <1>32 DEF UserWrite, poolSide
      <3>4. QED
        BY <3>1, <3>2, <3>3
    <2>5. UserTypeOK'
      BY <1>32 DEF UserWrite, Exit, poolSide
    <2>6. Held'
      BY <1>32 DEF UserWrite, Exit, poolSide
    <2>7. QED
      BY <2>1, <2>2, <2>3, <2>4, <2>5, <2>6
  <1>33. CASE UserRead
    BY <1>33 DEF UserRead, Exit, ReplyText, poolSide
  <1>34. CASE UserReturn
    BY <1>34 DEF UserReturn, poolSide
  <1>35. CASE UserNotAcked
    BY <1>35 DEF UserNotAcked, Exit, poolSide
  <1>36. CASE UserCrash
    BY <1>36 DEF UserCrash, poolSide
  <1>37. CASE UNCHANGED vars
    BY <1>37 DEF vars, poolSide
  <1>38. QED
    BY <1>1, <1>2, <1>3, <1>4, <1>5, <1>6, <1>7, <1>8, <1>9, <1>10, <1>11,
       <1>12, <1>13, <1>14, <1>15, <1>16, <1>17, <1>18, <1>19, <1>20,
       <1>21, <1>22, <1>23, <1>24, <1>25, <1>26, <1>27, <1>28, <1>29,
       <1>30, <1>31, <1>32, <1>33, <1>34, <1>35, <1>36, <1>37
    DEF Next, FinishShutdown, Callback, Update, User

\* The values of the variables are what TypeOK says, in every reachable state.
THEOREM TypeCorrect == Spec => []TypeOK
  <1>1. TypeInv => TypeOK
    BY DEF TypeInv
  <1>2. QED
    BY <1>1, TypeInvInit, TypeInvStep, PTL DEF Spec

-----------------------------------------------------------------------------
(* The prepared seeds.  The size test is outside the mutex, so the bound needs *)
(* what happens between the test and the push: only the callback thread can    *)
(* make the test see room that is not there, while it pops, and the mutex      *)
(* makes the push wait for the end of that pop.                                *)

PreparedInv ==
    /\ callback = "pop" => queue_lock_ = "callback"
    /\ update = "push" => queue_lock_ = "update"
    /\ update = "push" => Len(prepared_seeds_) < PreparedMax
    /\ update = "lock" => callback = "pop" \/ Len(prepared_seeds_) < PreparedMax
    /\ Len(prepared_seeds_) <= PreparedMax

LEMMA PreparedInvStep ==
  TypeInv /\ PreparedInv /\ [Next]_vars => PreparedInv'
  <1> SUFFICES ASSUME TypeInv, PreparedInv, [Next]_vars
               PROVE  PreparedInv'
    OBVIOUS
  <1>0. prepared_seeds_ \in Seq(StoredSeeds) /\ PreparedMax \in Nat \ {0}
    BY BoundsAssumption DEF TypeInv, TypeOK, PoolTypeOK
  <1> USE <1>0 DEF PreparedInv, poolVars, callbackVars, updateVars, CallbackStep,
                   UpdateStep
  <1>1. CASE Launch
    BY <1>1 DEF Launch
  <1>2. CASE RequestExit
    BY <1>2 DEF RequestExit
  <1>3. CASE JoinCallback
    BY <1>3 DEF JoinCallback
  <1>4. CASE JoinUpdate
    BY <1>4 DEF JoinUpdate
  <1>5. CASE ClosePipes
    BY <1>5 DEF ClosePipes
  <1>6. CASE DelPipes
    BY <1>6 DEF DelPipes
  <1>7. CASE ProcessExit
    BY <1>7 DEF ProcessExit, Die
  <1>8. CASE CallbackLoop
    BY <1>8 DEF CallbackLoop
  <1>9. CASE OpenPoolToWork
    BY <1>9 DEF OpenPoolToWork, ReaderPresent, DescriptorFree
  <1>10. CASE OpenWorkToPool
    BY <1>10 DEF OpenWorkToPool, DescriptorFree
  <1>11. CASE ReadNothing
    BY <1>11 DEF ReadNothing
  <1>12. CASE ReadRequest
    BY <1>12 DEF ReadRequest, RequestText
  <1>13. CASE ReadOverflow
    BY <1>13 DEF ReadOverflow, Die
  <1>14. CASE TryPick
    BY <1>14 DEF TryPick
  <1>15. CASE LockForPop
    BY <1>15 DEF LockForPop
  <1>16. CASE PopNothing
    BY <1>16 DEF PopNothing
  <1>17. CASE PopPrepared
    BY <1>17 DEF PopPrepared
  <1>18. CASE SendSeed
    BY <1>18 DEF SendSeed, Send, Die, ReaderPresent
  <1>19. CASE PushUnstored
    BY <1>19 DEF PushUnstored, Die, UpdateInUnstored
  <1>20. CASE SendAck
    BY <1>20 DEF SendAck, Send, Die, ReaderPresent
  <1>21. CASE UpdateLoop
    BY <1>21 DEF UpdateLoop
  <1>22. CASE StoreFront
    BY <1>22 DEF StoreFront
  <1>23. CASE PopUnstored
    BY <1>23 DEF PopUnstored
  <1>24. CASE EnoughPrepared
    BY <1>24 DEF EnoughPrepared, SeemsFull
  <1>25. CASE PickForPrepared
    BY <1>25 DEF PickForPrepared, SeemsToHaveRoom
  <1>26. CASE LockForPush
    BY <1>26 DEF LockForPush
  <1>27. CASE PushPrepared
    BY <1>27 DEF PushPrepared
  <1>28. ASSUME NEW r \in Workload, Ask(r)
        PROVE  PreparedInv'
    BY <1>28 DEF Ask, poolSide
  <1>29. CASE UserOpenPoolToWork
    BY <1>29 DEF UserOpenPoolToWork, poolSide
  <1>30. CASE UserOpenWorkToPool
    BY <1>30 DEF UserOpenWorkToPool, poolSide
  <1>31. CASE UserOpenFails
    BY <1>31 DEF UserOpenFails, Exit, poolSide
  <1>32. CASE UserWrite
    BY <1>32 DEF UserWrite, Exit, poolSide
  <1>33. CASE UserRead
    BY <1>33 DEF UserRead, Exit, ReplyText, poolSide
  <1>34. CASE UserReturn
    BY <1>34 DEF UserReturn, poolSide
  <1>35. CASE UserNotAcked
    BY <1>35 DEF UserNotAcked, Exit, poolSide
  <1>36. CASE UserCrash
    BY <1>36 DEF UserCrash, poolSide
  <1>37. CASE UNCHANGED vars
    BY <1>37 DEF vars, poolSide
  <1>38. QED
    BY <1>1, <1>2, <1>3, <1>4, <1>5, <1>6, <1>7, <1>8, <1>9, <1>10, <1>11,
       <1>12, <1>13, <1>14, <1>15, <1>16, <1>17, <1>18, <1>19, <1>20,
       <1>21, <1>22, <1>23, <1>24, <1>25, <1>26, <1>27, <1>28, <1>29,
       <1>30, <1>31, <1>32, <1>33, <1>34, <1>35, <1>36, <1>37
    DEF Next, FinishShutdown, Callback, Update, User

\* There are never more than PreparedMax prepared seeds.
THEOREM PreparedBounded == Spec => []PreparedBound
  <1>1. Init => PreparedInv
    BY BoundsAssumption DEF Init, PreparedInv
  <1>2. PreparedInv => PreparedBound
    BY DEF PreparedInv, PreparedBound
  <1>3. QED
    BY <1>1, <1>2, TypeInvInit, TypeInvStep, PreparedInvStep, PTL DEF Spec
-----------------------------------------------------------------------------
(* Requests and replies alternate.  From this it follows that a reader is present *)
(* whenever the pool writes, unless a user process was killed.                 *)

FlowInv == MessagesInFlight /\ BrokenPipeNeedsCrash

LEMMA FlowInvStep == TypeInv /\ FlowInv /\ [Next]_vars => FlowInv'
  <1> SUFFICES ASSUME TypeInv, FlowInv, [Next]_vars
               PROVE  FlowInv'
    OBVIOUS
  <1>0. /\ WorkToPool \in Seq(Requests)
        /\ PoolToWork \in Seq(Replies)
        /\ crashes \in Nat
        /\ message \in StoredSeeds \cup {PICK_SEED_REQUEST}
    BY BoundsAssumption
    DEF TypeInv, TypeOK, FifoTypeOK, UserTypeOK, ThreadTypeOK
  <1> USE <1>0 DEF FlowInv, MessagesInFlight, BrokenPipeNeedsCrash, Handling, One,
                   poolVars, callbackVars, updateVars, fifoVars, fdVars,
                   userVars, CallbackStep, UpdateStep
  <1>1. CASE Launch
    BY <1>1 DEF Launch
  <1>2. CASE RequestExit
    BY <1>2 DEF RequestExit
  <1>3. CASE JoinCallback
    BY <1>3 DEF JoinCallback
  <1>4. CASE JoinUpdate
    BY <1>4 DEF JoinUpdate
  <1>5. CASE ClosePipes
    BY <1>5 DEF ClosePipes
  <1>6. CASE DelPipes
    BY <1>6 DEF DelPipes
  <1>7. CASE ProcessExit
    BY <1>7 DEF ProcessExit, Die
  <1>8. CASE CallbackLoop
    BY <1>8 DEF CallbackLoop
  <1>9. CASE OpenPoolToWork
    BY <1>9 DEF OpenPoolToWork, ReaderPresent, DescriptorFree
  <1>10. CASE OpenWorkToPool
    BY <1>10 DEF OpenWorkToPool, DescriptorFree
  <1>11. CASE ReadNothing
    BY <1>11 DEF ReadNothing
  <1>12. CASE ReadRequest
    BY <1>12 DEF ReadRequest, RequestText
  <1>13. CASE ReadOverflow
    BY <1>13 DEF ReadOverflow, Die
  <1>14. CASE TryPick
    BY <1>14 DEF TryPick
  <1>15. CASE LockForPop
    BY <1>15 DEF LockForPop
  <1>16. CASE PopNothing
    BY <1>16 DEF PopNothing
  <1>17. CASE PopPrepared
    BY <1>17 DEF PopPrepared
  <1>18. CASE SendSeed
    BY <1>18 DEF SendSeed, Send, Die, ReaderPresent
  <1>19. CASE PushUnstored
    BY <1>19 DEF PushUnstored, Die, UpdateInUnstored
  <1>20. CASE SendAck
    BY <1>20 DEF SendAck, Send, Die, ReaderPresent
  <1>21. CASE UpdateLoop
    BY <1>21 DEF UpdateLoop
  <1>22. CASE StoreFront
    BY <1>22 DEF StoreFront
  <1>23. CASE PopUnstored
    BY <1>23 DEF PopUnstored
  <1>24. CASE EnoughPrepared
    BY <1>24 DEF EnoughPrepared, SeemsFull
  <1>25. CASE PickForPrepared
    BY <1>25 DEF PickForPrepared, SeemsToHaveRoom
  <1>26. CASE LockForPush
    BY <1>26 DEF LockForPush
  <1>27. CASE PushPrepared
    BY <1>27 DEF PushPrepared
  <1>28. ASSUME NEW r \in Workload, Ask(r)
        PROVE  FlowInv'
    BY <1>28 DEF Ask, poolSide
  <1>29. CASE UserOpenPoolToWork
    BY <1>29 DEF UserOpenPoolToWork, poolSide
  <1>30. CASE UserOpenWorkToPool
    BY <1>30 DEF UserOpenWorkToPool, poolSide
  <1>31. CASE UserOpenFails
    BY <1>31 DEF UserOpenFails, Exit, poolSide
  <1>32. CASE UserWrite
    BY <1>32 DEF UserWrite, Exit, poolSide
  <1>33. CASE UserRead
    BY <1>33 DEF UserRead, Exit, ReplyText, poolSide
  <1>34. CASE UserReturn
    BY <1>34 DEF UserReturn, poolSide
  <1>35. CASE UserNotAcked
    BY <1>35 DEF UserNotAcked, Exit, poolSide
  <1>36. CASE UserCrash
    BY <1>36 DEF UserCrash, poolSide
  <1>37. CASE UNCHANGED vars
    BY <1>37 DEF vars, poolSide
  <1>38. QED
    BY <1>1, <1>2, <1>3, <1>4, <1>5, <1>6, <1>7, <1>8, <1>9, <1>10, <1>11,
       <1>12, <1>13, <1>14, <1>15, <1>16, <1>17, <1>18, <1>19, <1>20,
       <1>21, <1>22, <1>23, <1>24, <1>25, <1>26, <1>27, <1>28, <1>29,
       <1>30, <1>31, <1>32, <1>33, <1>34, <1>35, <1>36, <1>37
    DEF Next, FinishShutdown, Callback, Update, User

LEMMA FlowInvInit == Init => FlowInv
  BY DEF Init, FlowInv, MessagesInFlight, BrokenPipeNeedsCrash, Handling, One

\* What is written, worked on or waiting to be read is at most one message per
\* waiting user and one per killed user process.
THEOREM MessagesAlternate == Spec => []MessagesInFlight
  <1>1. FlowInv => MessagesInFlight
    BY DEF FlowInv
  <1>2. QED
    BY <1>1, FlowInvInit, TypeInvInit, TypeInvStep, FlowInvStep, PTL DEF Spec

\* Only the death of a user process can end the pool's process by SIGPIPE.
THEOREM NoBrokenPipe == Spec => []BrokenPipeNeedsCrash
  <1>1. FlowInv => BrokenPipeNeedsCrash
    BY DEF FlowInv
  <1>2. QED
    BY <1>1, FlowInvInit, TypeInvInit, TypeInvStep, FlowInvStep, PTL DEF Spec
-----------------------------------------------------------------------------
(* What the answers carry *)

\* x answers the open request.
Answers(x) ==
    \/ request \in Seeds /\ x = I_M_HERE /\ request \in Stored
    \/ request = PICK_SEED_REQUEST /\ x \in seed_pool_

\* The seed of a store request that is being served.
OpenStore == IF user \in {"read", "check"} THEN {request} \cap Seeds ELSE {}

\* Where requests and replies are and what they hold.
Protocol ==
    /\ WorkToPool # <<>> => WorkToPool = <<request>>
    /\ callback \in {"tryPick", "lock", "pop", "sendSeed"} =>
          request = PICK_SEED_REQUEST
    /\ callback \in {"push", "sendAck"} => request \in Seeds /\ message = request
    /\ callback = "sendAck" => Answers(I_M_HERE)
    /\ callback = "sendSeed" => picked_seed \in seed_pool_
    /\ PoolToWork # <<>> => \E x : PoolToWork = <<x>> /\ Answers(x)
    /\ user = "check" => Answers(reply)

\* Where seeds come from.
Provenance ==
    /\ acked \subseteq Stored
    /\ Stored \subseteq InitialSeeds \cup acked \cup OpenStore
    /\ Range(prepared_seeds_) \subseteq seed_pool_ \cup {NoSeed}
    /\ update \in {"lock", "push"} => seed_data \in seed_pool_ \cup {NoSeed}
    /\ update = "popUnstored" => Head(unstored_seed_) \in seed_pool_

AnswerInv == crashes = 0 => Protocol /\ Provenance

LEMMA CrashesGrow == TypeInv /\ [Next]_vars => crashes' >= crashes
  <1> SUFFICES ASSUME TypeInv, [Next]_vars
               PROVE  crashes' >= crashes
    OBVIOUS
  <1>0. crashes \in Nat
    BY BoundsAssumption DEF TypeInv, TypeOK, UserTypeOK
  <1> USE <1>0 DEF userVars
  <1>1. CASE Launch
    BY <1>1 DEF Launch
  <1>2. CASE RequestExit
    BY <1>2 DEF RequestExit
  <1>3. CASE JoinCallback
    BY <1>3 DEF JoinCallback
  <1>4. CASE JoinUpdate
    BY <1>4 DEF JoinUpdate
  <1>5. CASE ClosePipes
    BY <1>5 DEF ClosePipes
  <1>6. CASE DelPipes
    BY <1>6 DEF DelPipes
  <1>7. CASE ProcessExit
    BY <1>7 DEF ProcessExit, Die
  <1>8. CASE CallbackLoop
    BY <1>8 DEF CallbackLoop
  <1>9. CASE OpenPoolToWork
    BY <1>9 DEF OpenPoolToWork, ReaderPresent, DescriptorFree
  <1>10. CASE OpenWorkToPool
    BY <1>10 DEF OpenWorkToPool, DescriptorFree
  <1>11. CASE ReadNothing
    BY <1>11 DEF ReadNothing
  <1>12. CASE ReadRequest
    BY <1>12 DEF ReadRequest, RequestText
  <1>13. CASE ReadOverflow
    BY <1>13 DEF ReadOverflow, Die
  <1>14. CASE TryPick
    BY <1>14 DEF TryPick
  <1>15. CASE LockForPop
    BY <1>15 DEF LockForPop
  <1>16. CASE PopNothing
    BY <1>16 DEF PopNothing
  <1>17. CASE PopPrepared
    BY <1>17 DEF PopPrepared
  <1>18. CASE SendSeed
    BY <1>18 DEF SendSeed, Send, Die, ReaderPresent
  <1>19. CASE PushUnstored
    BY <1>19 DEF PushUnstored, Die, UpdateInUnstored
  <1>20. CASE SendAck
    BY <1>20 DEF SendAck, Send, Die, ReaderPresent
  <1>21. CASE UpdateLoop
    BY <1>21 DEF UpdateLoop
  <1>22. CASE StoreFront
    BY <1>22 DEF StoreFront
  <1>23. CASE PopUnstored
    BY <1>23 DEF PopUnstored
  <1>24. CASE EnoughPrepared
    BY <1>24 DEF EnoughPrepared, SeemsFull
  <1>25. CASE PickForPrepared
    BY <1>25 DEF PickForPrepared, SeemsToHaveRoom
  <1>26. CASE LockForPush
    BY <1>26 DEF LockForPush
  <1>27. CASE PushPrepared
    BY <1>27 DEF PushPrepared
  <1>28. ASSUME NEW r \in Workload, Ask(r)
        PROVE  crashes' >= crashes
    BY <1>28 DEF Ask, poolSide
  <1>29. CASE UserOpenPoolToWork
    BY <1>29 DEF UserOpenPoolToWork, poolSide
  <1>30. CASE UserOpenWorkToPool
    BY <1>30 DEF UserOpenWorkToPool, poolSide
  <1>31. CASE UserOpenFails
    BY <1>31 DEF UserOpenFails, Exit, poolSide
  <1>32. CASE UserWrite
    BY <1>32 DEF UserWrite, Exit, poolSide
  <1>33. CASE UserRead
    BY <1>33 DEF UserRead, Exit, ReplyText, poolSide
  <1>34. CASE UserReturn
    BY <1>34 DEF UserReturn, poolSide
  <1>35. CASE UserNotAcked
    BY <1>35 DEF UserNotAcked, Exit, poolSide
  <1>36. CASE UserCrash
    BY <1>36 DEF UserCrash, poolSide
  <1>37. CASE UNCHANGED vars
    BY <1>37 DEF vars, poolSide
  <1>38. QED
    BY <1>1, <1>2, <1>3, <1>4, <1>5, <1>6, <1>7, <1>8, <1>9, <1>10, <1>11,
       <1>12, <1>13, <1>14, <1>15, <1>16, <1>17, <1>18, <1>19, <1>20,
       <1>21, <1>22, <1>23, <1>24, <1>25, <1>26, <1>27, <1>28, <1>29,
       <1>30, <1>31, <1>32, <1>33, <1>34, <1>35, <1>36, <1>37
    DEF Next, FinishShutdown, Callback, Update, User

LEMMA AnswerInvStep ==
  TypeInv /\ FlowInv /\ AnswerInv /\ [Next]_vars => AnswerInv'
  <1>a. TypeInv /\ [Next]_vars /\ crashes' = 0 => crashes = 0
    BY CrashesGrow, BoundsAssumption DEF TypeInv, TypeOK, UserTypeOK
  <1> SUFFICES ASSUME TypeInv, FlowInv, Protocol, Provenance, [Next]_vars,
                      crashes = 0, crashes' = 0
               PROVE  Protocol' /\ Provenance'
    BY <1>a DEF AnswerInv
  <1>b. /\ unstored_seed_ \in Seq(StoredSeeds)
        /\ prepared_seeds_ \in Seq(StoredSeeds)
        /\ WorkToPool \in Seq(Requests)
        /\ PoolToWork \in Seq(Replies)
        /\ update = "popUnstored" => unstored_seed_ # <<>>
        /\ request \in Requests
        /\ reply \in Replies
    BY DEF TypeInv, TypeOK, PoolTypeOK, FifoTypeOK, UserTypeOK, Held
  <1>c. /\ user # "read" => WorkToPool = <<>> /\ PoolToWork = <<>> /\ ~Handling
        /\ Handling => WorkToPool = <<>> /\ PoolToWork = <<>>
        /\ WorkToPool # <<>> => PoolToWork = <<>>
    BY <1>b DEF FlowInv, MessagesInFlight, One
  <1> USE <1>b, <1>c, SeedsAssumption
      DEF Protocol, Provenance, Answers, OpenStore, Stored, Handling, Requests,
          StoredSeeds, poolVars, callbackVars, updateVars, fifoVars, fdVars,
          userVars, CallbackStep, UpdateStep
  <1>1. CASE Launch
    <2>1. Protocol'
      BY <1>1 DEF Launch
    <2>2. Provenance'
      BY <1>1 DEF Launch
    <2>3. QED
      BY <2>1, <2>2
  <1>2. CASE RequestExit
    <2>1. Protocol'
      BY <1>2 DEF RequestExit
    <2>2. Provenance'
      BY <1>2 DEF RequestExit
    <2>3. QED
      BY <2>1, <2>2
  <1>3. CASE JoinCallback
    <2>1. Protocol'
      BY <1>3 DEF JoinCallback
    <2>2. Provenance'
      BY <1>3 DEF JoinCallback
    <2>3. QED
      BY <2>1, <2>2
  <1>4. CASE JoinUpdate
    <2>1. Protocol'
      BY <1>4 DEF JoinUpdate
    <2>2. Provenance'
      BY <1>4 DEF JoinUpdate
    <2>3. QED
      BY <2>1, <2>2
  <1>5. CASE ClosePipes
    <2>1. Protocol'
      BY <1>5 DEF ClosePipes
    <2>2. Provenance'
      BY <1>5 DEF ClosePipes
    <2>3. QED
      BY <2>1, <2>2
  <1>6. CASE DelPipes
    <2>1. Protocol'
      BY <1>6 DEF DelPipes
    <2>2. Provenance'
      BY <1>6 DEF DelPipes
    <2>3. QED
      BY <2>1, <2>2
  <1>7. CASE ProcessExit
    <2>1. Protocol'
      BY <1>7 DEF ProcessExit, Die
    <2>2. Provenance'
      BY <1>7 DEF ProcessExit, Die
    <2>3. QED
      BY <2>1, <2>2
  <1>8. CASE CallbackLoop
    <2>1. Protocol'
      BY <1>8 DEF CallbackLoop
    <2>2. Provenance'
      BY <1>8 DEF CallbackLoop
    <2>3. QED
      BY <2>1, <2>2
  <1>9. CASE OpenPoolToWork
    <2>1. Protocol'
      BY <1>9 DEF OpenPoolToWork, ReaderPresent, DescriptorFree
    <2>2. Provenance'
      BY <1>9 DEF OpenPoolToWork, ReaderPresent, DescriptorFree
    <2>3. QED
      BY <2>1, <2>2
  <1>10. CASE OpenWorkToPool
    <2>1. Protocol'
      BY <1>10 DEF OpenWorkToPool, DescriptorFree
    <2>2. Provenance'
      BY <1>10 DEF OpenWorkToPool, DescriptorFree
    <2>3. QED
      BY <2>1, <2>2
  <1>11. CASE ReadNothing
    <2>1. Protocol'
      BY <1>11 DEF ReadNothing
    <2>2. Provenance'
      BY <1>11 DEF ReadNothing
    <2>3. QED
      BY <2>1, <2>2
  <1>12. CASE ReadRequest
    <2>1. Protocol'
      BY <1>12 DEF ReadRequest, RequestText
    <2>2. Provenance'
      BY <1>12 DEF ReadRequest, RequestText
    <2>3. QED
      BY <2>1, <2>2
  <1>13. CASE ReadOverflow
    <2>1. Protocol'
      BY <1>13 DEF ReadOverflow, Die
    <2>2. Provenance'
      BY <1>13 DEF ReadOverflow, Die
    <2>3. QED
      BY <2>1, <2>2
  <1>14. CASE TryPick
    <2>1. Protocol'
      BY <1>14 DEF TryPick
    <2>2. Provenance'
      BY <1>14 DEF TryPick
    <2>3. QED
      BY <2>1, <2>2
  <1>15. CASE LockForPop
    <2>1. Protocol'
      BY <1>15 DEF LockForPop
    <2>2. Provenance'
      BY <1>15 DEF LockForPop
    <2>3. QED
      BY <2>1, <2>2
  <1>16. CASE PopNothing
    <2>1. Protocol'
      BY <1>16 DEF PopNothing
    <2>2. Provenance'
      BY <1>16 DEF PopNothing
    <2>3. QED
      BY <2>1, <2>2
  <1>17. CASE PopPrepared
    <2>1. Range(prepared_seeds_) = {Head(prepared_seeds_)} \cup Range(prepared_seeds_')
      BY <1>17, RangeOfTail DEF PopPrepared
    <2>2. Protocol'
      BY <1>17, <2>1 DEF PopPrepared
    <2>3. Provenance'
      BY <1>17, <2>1 DEF PopPrepared
    <2>4. QED
      BY <2>2, <2>3
  <1>18. CASE SendSeed
    <2>1. Protocol'
      BY <1>18 DEF SendSeed, Send, Die, ReaderPresent
    <2>2. Provenance'
      BY <1>18 DEF SendSeed, Send, Die, ReaderPresent
    <2>3. QED
      BY <2>1, <2>2
  <1>19. CASE PushUnstored
    <2>1. Range(Append(unstored_seed_, message)) = Range(unstored_seed_) \cup {message}
      BY RangeOfAppend
    <2>2. Stored' \in {Stored, Stored \cup {request}} /\ (callback' = "sendAck" => request \in Stored')
      BY <1>19, <2>1 DEF PushUnstored
    <2>3. Protocol'
      BY <1>19, <2>2 DEF PushUnstored
    <2>4. Provenance'
      BY <1>19, <2>2 DEF PushUnstored
    <2>5. QED
      BY <2>3, <2>4
  <1>20. CASE SendAck
    <2>1. Protocol'
      BY <1>20 DEF SendAck, Send, Die, ReaderPresent
    <2>2. Provenance'
      BY <1>20 DEF SendAck, Send, Die, ReaderPresent
    <2>3. QED
      BY <2>1, <2>2
  <1>21. CASE UpdateLoop
    <2>1. Protocol'
      BY <1>21 DEF UpdateLoop
    <2>2. Provenance'
      BY <1>21 DEF UpdateLoop
    <2>3. QED
      BY <2>1, <2>2
  <1>22. CASE StoreFront
    <2>1. unstored_seed_ # <<>> => Head(unstored_seed_) \in Range(unstored_seed_)
      BY RangeOfTail
    <2>2. Stored' = Stored /\ seed_pool_ \subseteq seed_pool_'
      BY <1>22, <2>1 DEF StoreFront
    <2>3. Protocol'
      BY <1>22, <2>2 DEF StoreFront
    <2>4. Provenance'
      BY <1>22, <2>2 DEF StoreFront
    <2>5. QED
      BY <2>3, <2>4
  <1>23. CASE PopUnstored
    <2>1. Range(unstored_seed_) = {Head(unstored_seed_)} \cup Range(unstored_seed_')
      BY <1>23, RangeOfTail DEF PopUnstored
    <2>2. Stored' = Stored
      BY <1>23, <2>1 DEF PopUnstored
    <2>3. Protocol'
      BY <1>23, <2>2 DEF PopUnstored
    <2>4. Provenance'
      BY <1>23, <2>2 DEF PopUnstored
    <2>5. QED
      BY <2>3, <2>4
  <1>24. CASE EnoughPrepared
    <2>1. Protocol'
      BY <1>24 DEF EnoughPrepared, SeemsFull
    <2>2. Provenance'
      BY <1>24 DEF EnoughPrepared, SeemsFull
    <2>3. QED
      BY <2>1, <2>2
  <1>25. CASE PickForPrepared
    <2>1. Protocol'
      BY <1>25 DEF PickForPrepared, SeemsToHaveRoom
    <2>2. Provenance'
      BY <1>25 DEF PickForPrepared, SeemsToHaveRoom
    <2>3. QED
      BY <2>1, <2>2
  <1>26. CASE LockForPush
    <2>1. Protocol'
      BY <1>26 DEF LockForPush
    <2>2. Provenance'
      BY <1>26 DEF LockForPush
    <2>3. QED
      BY <2>1, <2>2
  <1>27. CASE PushPrepared
    <2>1. Range(prepared_seeds_') = Range(prepared_seeds_) \cup {seed_data}
      BY <1>27, RangeOfAppend DEF PushPrepared
    <2>2. Protocol'
      BY <1>27 DEF PushPrepared
    <2>3. Provenance'
      BY <1>27, <2>1 DEF PushPrepared
    <2>4. QED
      BY <2>2, <2>3
  <1>28. ASSUME NEW r \in Workload, Ask(r)
        PROVE  Protocol' /\ Provenance'
    <2>1. Protocol'
      BY <1>28 DEF Ask, poolSide
    <2>2. Provenance'
      BY <1>28 DEF Ask, poolSide
    <2>3. QED
      BY <2>1, <2>2
  <1>29. CASE UserOpenPoolToWork
    <2>1. Protocol'
      BY <1>29 DEF UserOpenPoolToWork, poolSide
    <2>2. Provenance'
      BY <1>29 DEF UserOpenPoolToWork, poolSide
    <2>3. QED
      BY <2>1, <2>2
  <1>30. CASE UserOpenWorkToPool
    <2>1. Protocol'
      BY <1>30 DEF UserOpenWorkToPool, poolSide
    <2>2. Provenance'
      BY <1>30 DEF UserOpenWorkToPool, poolSide
    <2>3. QED
      BY <2>1, <2>2
  <1>31. CASE UserOpenFails
    <2>1. Protocol'
      BY <1>31 DEF UserOpenFails, Exit, poolSide
    <2>2. Provenance'
      BY <1>31 DEF UserOpenFails, Exit, poolSide
    <2>3. QED
      BY <2>1, <2>2
  <1>32. CASE UserWrite
    <2>1. Protocol'
      BY <1>32 DEF UserWrite, Exit, poolSide
    <2>2. Provenance'
      BY <1>32 DEF UserWrite, Exit, poolSide
    <2>3. QED
      BY <2>1, <2>2
  <1>33. CASE UserRead
    <2>1. PICK x : PoolToWork = <<x>> /\ Answers(x)
      BY <1>33 DEF UserRead
    <2>2. Range(PoolToWork) = {x} /\ ReplyText(PoolToWork) = x
      BY <2>1 DEF Range, ReplyText
    <2>3. Protocol'
      BY <1>33, <2>1, <2>2 DEF UserRead, Exit, poolSide
    <2>4. Provenance'
      BY <1>33, <2>1, <2>2 DEF UserRead, Exit, poolSide
    <2>5. QED
      BY <2>3, <2>4
  <1>34. CASE UserReturn
    <2>1. Protocol'
      BY <1>34 DEF UserReturn, poolSide
    <2>2. Provenance'
      BY <1>34 DEF UserReturn, poolSide
    <2>3. QED
      BY <2>1, <2>2
  <1>35. CASE UserNotAcked
    <2>1. Protocol'
      BY <1>35 DEF UserNotAcked, Exit, poolSide
    <2>2. Provenance'
      BY <1>35 DEF UserNotAcked, Exit, poolSide
    <2>3. QED
      BY <2>1, <2>2
  <1>36. CASE UserCrash
    <2>1. Protocol'
      BY <1>36 DEF UserCrash, poolSide
    <2>2. Provenance'
      BY <1>36 DEF UserCrash, poolSide
    <2>3. QED
      BY <2>1, <2>2
  <1>37. CASE UNCHANGED vars
    <2>1. Protocol'
      BY <1>37 DEF vars, poolSide
    <2>2. Provenance'
      BY <1>37 DEF vars, poolSide
    <2>3. QED
      BY <2>1, <2>2
  <1>38. QED
    BY <1>1, <1>2, <1>3, <1>4, <1>5, <1>6, <1>7, <1>8, <1>9, <1>10, <1>11,
       <1>12, <1>13, <1>14, <1>15, <1>16, <1>17, <1>18, <1>19, <1>20,
       <1>21, <1>22, <1>23, <1>24, <1>25, <1>26, <1>27, <1>28, <1>29,
       <1>30, <1>31, <1>32, <1>33, <1>34, <1>35, <1>36, <1>37
    DEF Next, FinishShutdown, Callback, Update, User

LEMMA AnswerInvInit == Init => AnswerInv
  <1> SUFFICES ASSUME Init
               PROVE  Protocol /\ Provenance
    BY DEF AnswerInv
  <1>1. Range(unstored_seed_) = {} /\ Range(prepared_seeds_) = {}
    BY DEF Init, Range
  <1>2. QED
    BY <1>1 DEF Init, Protocol, Provenance, Stored, OpenStore

\* Types, flow and answers together are inductive.
LEMMA AnswersInvariant == Spec => [](TypeInv /\ FlowInv /\ AnswerInv)
  <1>1. Init => TypeInv /\ FlowInv /\ AnswerInv
    BY TypeInvInit, FlowInvInit, AnswerInvInit
  <1>2. TypeInv /\ FlowInv /\ AnswerInv /\ [Next]_vars
            => (TypeInv /\ FlowInv /\ AnswerInv)'
    BY TypeInvStep, FlowInvStep, AnswerInvStep
  <1>3. QED
    BY <1>1, <1>2, PTL DEF Spec

\* While no user process is killed, an acknowledged seed is in the pool or
\* queued for it.
THEOREM AckedSeedsKept == Spec => []AckedNotLost
  <1>1. AnswerInv => AckedNotLost
    BY DEF AnswerInv, Provenance, AckedNotLost
  <1>2. QED
    BY <1>1, AnswersInvariant, PTL

\* While no user process is killed, every user gets the reply to its own
\* request: an acknowledgement for a store, a seed for a pick.
THEOREM RepliesMatch == Spec => []ReplyMatchesRequest
  <1>1. TypeInv /\ AnswerInv => ReplyMatchesRequest
    <2> SUFFICES ASSUME TypeInv, AnswerInv, crashes = 0, user = "check"
                 PROVE  IF request \in Seeds THEN reply = I_M_HERE
                                             ELSE reply \in Seeds
      BY DEF ReplyMatchesRequest
    <2>1. Answers(reply) /\ Stored \subseteq InitialSeeds \cup acked \cup OpenStore
      BY DEF AnswerInv, Protocol, Provenance
    <2>2. acked \subseteq Seeds /\ OpenStore \subseteq Seeds
      BY DEF TypeInv, TypeOK, UserTypeOK, OpenStore
    <2>3. seed_pool_ \subseteq Seeds
      BY <2>1, <2>2, SeedsAssumption DEF Stored
    <2>4. QED
      BY <2>1, <2>3, SeedsAssumption DEF Answers, StoredSeeds
  <1>2. QED
    BY <1>1, AnswersInvariant, PTL

\* While no user process is killed, a pick returns a seed the pool was launched
\* with or one whose store was acknowledged before.
THEOREM PicksAreAcked == Spec => []PickReturnsAcked
  <1>1. TypeInv /\ AnswerInv => PickReturnsAcked
    BY SeedsAssumption
    DEF AnswerInv, Protocol, Provenance, Answers, OpenStore, Stored, StoredSeeds,
        PickReturnsAcked
  <1>2. QED
    BY <1>1, AnswersInvariant, PTL

-----------------------------------------------------------------------------
(* After shutdown() has joined its threads. *)

JoinInv ==
    /\ main \in {"joinUpdate", "close", "delete", "off"} => callback = "done"
    /\ main \in {"close", "delete", "off"} => update = "done"

LEMMA JoinInvStep == JoinInv /\ [Next]_vars => JoinInv'
  <1> SUFFICES ASSUME JoinInv, [Next]_vars
               PROVE  JoinInv'
    OBVIOUS
  <1> USE DEF JoinInv, callbackVars, updateVars, CallbackStep, UpdateStep
  <1>1. CASE Launch
    BY <1>1 DEF Launch
  <1>2. CASE RequestExit
    BY <1>2 DEF RequestExit
  <1>3. CASE JoinCallback
    BY <1>3 DEF JoinCallback
  <1>4. CASE JoinUpdate
    BY <1>4 DEF JoinUpdate
  <1>5. CASE ClosePipes
    BY <1>5 DEF ClosePipes
  <1>6. CASE DelPipes
    BY <1>6 DEF DelPipes
  <1>7. CASE ProcessExit
    BY <1>7 DEF ProcessExit, Die
  <1>8. CASE CallbackLoop
    BY <1>8 DEF CallbackLoop
  <1>9. CASE OpenPoolToWork
    BY <1>9 DEF OpenPoolToWork, ReaderPresent, DescriptorFree
  <1>10. CASE OpenWorkToPool
    BY <1>10 DEF OpenWorkToPool, DescriptorFree
  <1>11. CASE ReadNothing
    BY <1>11 DEF ReadNothing
  <1>12. CASE ReadRequest
    BY <1>12 DEF ReadRequest, RequestText
  <1>13. CASE ReadOverflow
    BY <1>13 DEF ReadOverflow, Die
  <1>14. CASE TryPick
    BY <1>14 DEF TryPick
  <1>15. CASE LockForPop
    BY <1>15 DEF LockForPop
  <1>16. CASE PopNothing
    BY <1>16 DEF PopNothing
  <1>17. CASE PopPrepared
    BY <1>17 DEF PopPrepared
  <1>18. CASE SendSeed
    BY <1>18 DEF SendSeed, Send, Die, ReaderPresent
  <1>19. CASE PushUnstored
    BY <1>19 DEF PushUnstored, Die, UpdateInUnstored
  <1>20. CASE SendAck
    BY <1>20 DEF SendAck, Send, Die, ReaderPresent
  <1>21. CASE UpdateLoop
    BY <1>21 DEF UpdateLoop
  <1>22. CASE StoreFront
    BY <1>22 DEF StoreFront
  <1>23. CASE PopUnstored
    BY <1>23 DEF PopUnstored
  <1>24. CASE EnoughPrepared
    BY <1>24 DEF EnoughPrepared, SeemsFull
  <1>25. CASE PickForPrepared
    BY <1>25 DEF PickForPrepared, SeemsToHaveRoom
  <1>26. CASE LockForPush
    BY <1>26 DEF LockForPush
  <1>27. CASE PushPrepared
    BY <1>27 DEF PushPrepared
  <1>28. ASSUME NEW r \in Workload, Ask(r)
        PROVE  JoinInv'
    BY <1>28 DEF Ask, poolSide
  <1>29. CASE UserOpenPoolToWork
    BY <1>29 DEF UserOpenPoolToWork, poolSide
  <1>30. CASE UserOpenWorkToPool
    BY <1>30 DEF UserOpenWorkToPool, poolSide
  <1>31. CASE UserOpenFails
    BY <1>31 DEF UserOpenFails, Exit, poolSide
  <1>32. CASE UserWrite
    BY <1>32 DEF UserWrite, Exit, poolSide
  <1>33. CASE UserRead
    BY <1>33 DEF UserRead, Exit, ReplyText, poolSide
  <1>34. CASE UserReturn
    BY <1>34 DEF UserReturn, poolSide
  <1>35. CASE UserNotAcked
    BY <1>35 DEF UserNotAcked, Exit, poolSide
  <1>36. CASE UserCrash
    BY <1>36 DEF UserCrash, poolSide
  <1>37. CASE UNCHANGED vars
    BY <1>37 DEF vars, poolSide
  <1>38. QED
    BY <1>1, <1>2, <1>3, <1>4, <1>5, <1>6, <1>7, <1>8, <1>9, <1>10, <1>11,
       <1>12, <1>13, <1>14, <1>15, <1>16, <1>17, <1>18, <1>19, <1>20,
       <1>21, <1>22, <1>23, <1>24, <1>25, <1>26, <1>27, <1>28, <1>29,
       <1>30, <1>31, <1>32, <1>33, <1>34, <1>35, <1>36, <1>37
    DEF Next, FinishShutdown, Callback, Update, User

\* Nothing touches the pool once both threads are joined.
THEOREM QuietAfterJoin == Spec => QuiescentAfterJoin
  <1>1. Init => JoinInv
    BY DEF Init, JoinInv
  <1>2. JoinInv /\ [Next]_vars
            => [(main \in {"close", "delete", "off"}) => UNCHANGED poolVars]_vars
    <2> SUFFICES ASSUME JoinInv, [Next]_vars, main \in {"close", "delete", "off"}
                 PROVE  UNCHANGED poolVars
      BY DEF vars
    <2> USE DEF JoinInv, CallbackStep, UpdateStep, poolVars
    <2>1. CASE Launch
      BY <2>1 DEF Launch
    <2>2. CASE RequestExit
      BY <2>2 DEF RequestExit
    <2>3. CASE JoinCallback
      BY <2>3 DEF JoinCallback
    <2>4. CASE JoinUpdate
      BY <2>4 DEF JoinUpdate
    <2>5. CASE ClosePipes
      BY <2>5 DEF ClosePipes
    <2>6. CASE DelPipes
      BY <2>6 DEF DelPipes
    <2>7. CASE ProcessExit
      BY <2>7 DEF ProcessExit, Die
    <2>8. CASE CallbackLoop
      BY <2>8 DEF CallbackLoop
    <2>9. CASE OpenPoolToWork
      BY <2>9 DEF OpenPoolToWork, ReaderPresent, DescriptorFree
    <2>10. CASE OpenWorkToPool
      BY <2>10 DEF OpenWorkToPool, DescriptorFree
    <2>11. CASE ReadNothing
      BY <2>11 DEF ReadNothing
    <2>12. CASE ReadRequest
      BY <2>12 DEF ReadRequest, RequestText
    <2>13. CASE ReadOverflow
      BY <2>13 DEF ReadOverflow, Die
    <2>14. CASE TryPick
      BY <2>14 DEF TryPick
    <2>15. CASE LockForPop
      BY <2>15 DEF LockForPop
    <2>16. CASE PopNothing
      BY <2>16 DEF PopNothing
    <2>17. CASE PopPrepared
      BY <2>17 DEF PopPrepared
    <2>18. CASE SendSeed
      BY <2>18 DEF SendSeed, Send, Die, ReaderPresent
    <2>19. CASE PushUnstored
      BY <2>19 DEF PushUnstored, Die, UpdateInUnstored
    <2>20. CASE SendAck
      BY <2>20 DEF SendAck, Send, Die, ReaderPresent
    <2>21. CASE UpdateLoop
      BY <2>21 DEF UpdateLoop
    <2>22. CASE StoreFront
      BY <2>22 DEF StoreFront
    <2>23. CASE PopUnstored
      BY <2>23 DEF PopUnstored
    <2>24. CASE EnoughPrepared
      BY <2>24 DEF EnoughPrepared, SeemsFull
    <2>25. CASE PickForPrepared
      BY <2>25 DEF PickForPrepared, SeemsToHaveRoom
    <2>26. CASE LockForPush
      BY <2>26 DEF LockForPush
    <2>27. CASE PushPrepared
      BY <2>27 DEF PushPrepared
    <2>28. ASSUME NEW r \in Workload, Ask(r)
          PROVE  UNCHANGED poolVars
      BY <2>28 DEF Ask, poolSide
    <2>29. CASE UserOpenPoolToWork
      BY <2>29 DEF UserOpenPoolToWork, poolSide
    <2>30. CASE UserOpenWorkToPool
      BY <2>30 DEF UserOpenWorkToPool, poolSide
    <2>31. CASE UserOpenFails
      BY <2>31 DEF UserOpenFails, Exit, poolSide
    <2>32. CASE UserWrite
      BY <2>32 DEF UserWrite, Exit, poolSide
    <2>33. CASE UserRead
      BY <2>33 DEF UserRead, Exit, ReplyText, poolSide
    <2>34. CASE UserReturn
      BY <2>34 DEF UserReturn, poolSide
    <2>35. CASE UserNotAcked
      BY <2>35 DEF UserNotAcked, Exit, poolSide
    <2>36. CASE UserCrash
      BY <2>36 DEF UserCrash, poolSide
    <2>37. CASE UNCHANGED vars
      BY <2>37 DEF vars, poolSide
    <2>38. QED
      BY <2>1, <2>2, <2>3, <2>4, <2>5, <2>6, <2>7, <2>8, <2>9, <2>10,
         <2>11, <2>12, <2>13, <2>14, <2>15, <2>16, <2>17, <2>18, <2>19,
         <2>20, <2>21, <2>22, <2>23, <2>24, <2>25, <2>26, <2>27, <2>28,
         <2>29, <2>30, <2>31, <2>32, <2>33, <2>34, <2>35, <2>36, <2>37
      DEF Next, FinishShutdown, Callback, Update, User
  <1>3. QED
    BY <1>1, <1>2, JoinInvStep, PTL DEF Spec, QuiescentAfterJoin

-----------------------------------------------------------------------------
(* The pool implements SeedStore. *)

LEMMA StoreStep ==
  ASSUME MaxCrashes = 0, TypeInv, FlowInv, AnswerInv, [Next]_vars
  PROVE  Store!Next \/ UNCHANGED Store!vars
  <1>a. crashes = 0
    BY DEF TypeInv, TypeOK, UserTypeOK
  <1>b. /\ unstored_seed_ \in Seq(StoredSeeds)
        /\ update = "popUnstored" => unstored_seed_ # <<>>
        /\ Handling => user = "read"
        /\ Protocol
        /\ Provenance
    BY <1>a
    DEF TypeInv, TypeOK, PoolTypeOK, FifoTypeOK, Held, FlowInv, AnswerInv,
        MessagesInFlight, One
  <1> USE DEF poolVars, callbackVars, updateVars, fifoVars, fdVars, userVars,
              poolSide, CallbackStep, UpdateStep
  <1>1. CASE Launch
    BY <1>1 DEF Launch, Store!vars, Stored,
       StoreClient
  <1>2. CASE RequestExit
    BY <1>2 DEF RequestExit, Store!vars, Stored,
       StoreClient
  <1>3. CASE JoinCallback
    BY <1>3 DEF JoinCallback, Store!vars, Stored,
       StoreClient
  <1>4. CASE JoinUpdate
    BY <1>4 DEF JoinUpdate, Store!vars, Stored,
       StoreClient
  <1>5. CASE ClosePipes
    BY <1>5 DEF ClosePipes, Store!vars, Stored,
       StoreClient
  <1>6. CASE DelPipes
    BY <1>6 DEF DelPipes, Store!vars, Stored,
       StoreClient
  <1>7. CASE ProcessExit
    BY <1>7 DEF ProcessExit, Die, Store!vars, Stored,
       StoreClient
  <1>8. CASE CallbackLoop
    BY <1>8 DEF CallbackLoop, Store!vars, Stored,
       StoreClient
  <1>9. CASE OpenPoolToWork
    BY <1>9 DEF OpenPoolToWork, ReaderPresent, DescriptorFree, Store!vars, Stored,
       StoreClient
  <1>10. CASE OpenWorkToPool
    BY <1>10 DEF OpenWorkToPool, DescriptorFree, Store!vars, Stored,
       StoreClient
  <1>11. CASE ReadNothing
    BY <1>11 DEF ReadNothing, Store!vars, Stored,
       StoreClient
  <1>12. CASE ReadRequest
    BY <1>12 DEF ReadRequest, RequestText, Store!vars, Stored,
       StoreClient
  <1>13. CASE ReadOverflow
    BY <1>13 DEF ReadOverflow, Die, Store!vars, Stored,
       StoreClient
  <1>14. CASE TryPick
    BY <1>14 DEF TryPick, Store!vars, Stored,
       StoreClient
  <1>15. CASE LockForPop
    BY <1>15 DEF LockForPop, Store!vars, Stored,
       StoreClient
  <1>16. CASE PopNothing
    BY <1>16 DEF PopNothing, Store!vars, Stored,
       StoreClient
  <1>17. CASE PopPrepared
    BY <1>17 DEF PopPrepared, Store!vars, Stored,
       StoreClient
  <1>18. CASE SendSeed
    BY <1>18 DEF SendSeed, Send, Die, ReaderPresent, Store!vars, Stored,
       StoreClient
  <1>19. CASE PushUnstored
    <2>1. request \in Seeds /\ message = request /\ user = "read"
      BY <1>19, <1>b DEF PushUnstored, Protocol, Handling
    <2>2. Range(Append(unstored_seed_, message)) = Range(unstored_seed_) \cup {message}
      BY <1>b, RangeOfAppend
    <2>3. Stored' = Stored \/ Stored' = Stored \cup {request}
      BY <1>19, <2>1, <2>2 DEF PushUnstored, Stored
    <2>4. UNCHANGED <<user, request, reply>>
      BY <1>19 DEF PushUnstored, Store!vars, Stored,
       StoreClient
    <2>5. QED
      BY <2>1, <2>3, <2>4 DEF Store!Next, Store!Accept, Store!vars, StoreClient
  <1>20. CASE SendAck
    BY <1>20 DEF SendAck, Send, Die, ReaderPresent, Store!vars, Stored,
       StoreClient
  <1>21. CASE UpdateLoop
    BY <1>21 DEF UpdateLoop, Store!vars, Stored,
       StoreClient
  <1>22. CASE StoreFront
    <2>1. unstored_seed_ # <<>> => Head(unstored_seed_) \in Range(unstored_seed_)
      BY <1>b, RangeOfTail
    <2>2. Stored' = Stored
      BY <1>22, <2>1 DEF StoreFront, Stored
    <2>3. QED
      BY <1>22, <2>2 DEF StoreFront, Store!vars, StoreClient
  <1>23. CASE PopUnstored
    <2>1. Range(unstored_seed_) = {Head(unstored_seed_)} \cup Range(unstored_seed_')
      BY <1>23, <1>b, RangeOfTail DEF PopUnstored
    <2>2. Stored' = Stored
      BY <1>23, <2>1, <1>b DEF PopUnstored, Stored, Provenance
    <2>3. QED
      BY <1>23, <2>2 DEF PopUnstored, Store!vars, StoreClient
  <1>24. CASE EnoughPrepared
    BY <1>24 DEF EnoughPrepared, SeemsFull, Store!vars, Stored,
       StoreClient
  <1>25. CASE PickForPrepared
    BY <1>25 DEF PickForPrepared, SeemsToHaveRoom, Store!vars, Stored,
       StoreClient
  <1>26. CASE LockForPush
    BY <1>26 DEF LockForPush, Store!vars, Stored,
       StoreClient
  <1>27. CASE PushPrepared
    BY <1>27 DEF PushPrepared, Store!vars, Stored,
       StoreClient
  <1>28. ASSUME NEW r \in Workload, Ask(r)
        PROVE  Store!Next \/ UNCHANGED Store!vars
    BY <1>28, SeedsAssumption DEF Ask, poolSide, Store!vars, Stored,
       StoreClient, Store!Next, Store!Ask, Store!Requests, Requests
  <1>29. CASE UserOpenPoolToWork
    BY <1>29 DEF UserOpenPoolToWork, poolSide, Store!vars, Stored,
       StoreClient
  <1>30. CASE UserOpenWorkToPool
    BY <1>30 DEF UserOpenWorkToPool, poolSide, Store!vars, Stored,
       StoreClient
  <1>31. CASE UserOpenFails
    BY <1>31 DEF UserOpenFails, Exit, poolSide, Store!vars, Stored,
       StoreClient, Store!Next, Store!Leave
  <1>32. CASE UserWrite
    BY <1>32 DEF UserWrite, Exit, poolSide, Store!vars, Stored,
       StoreClient, Store!Next, Store!Leave
  <1>33. CASE UserRead
    <2>1. PICK x : PoolToWork = <<x>> /\ Answers(x)
      BY <1>33, <1>b DEF UserRead, Protocol
    <2>2. ReplyText(PoolToWork) = x
      BY <2>1 DEF ReplyText
    <2>3. UNCHANGED <<Stored, request>> /\ StoreClient = "asking"
      BY <1>33 DEF UserRead, poolSide, Stored, StoreClient, Store!vars, Stored,
       StoreClient
    <2>4. CASE user' = "gone" /\ UNCHANGED reply
      BY <2>3, <2>4 DEF Store!Next, Store!Leave, StoreClient
    <2>5. CASE user' = "check" /\ reply' = x
      <3>1. StoreClient' = "answered"
        BY <2>5 DEF StoreClient
      <3>2. Store!AnswerStore \/ Store!AnswerPick
        BY <3>1, <2>1, <2>3, <2>5
        DEF Answers, Stored, Store!AnswerStore, Store!AnswerPick
      <3>3. QED
        BY <3>2 DEF Store!Next
    <2>6. QED
      BY <1>33, <2>2, <2>4, <2>5 DEF UserRead, Exit
  <1>34. CASE UserReturn
    BY <1>34 DEF UserReturn, poolSide, Store!vars, Stored,
       StoreClient, Store!Next, Store!Return
  <1>35. CASE UserNotAcked
    <2>1. QED
      BY <1>35, <1>b, SeedsAssumption DEF UserNotAcked, Protocol, Answers, StoredSeeds
  <1>36. CASE UserCrash
    <2>1. QED
      BY <1>36, <1>a, <1>b DEF UserCrash, TypeInv, TypeOK, UserTypeOK
  <1>37. CASE UNCHANGED vars
    BY <1>37 DEF vars, poolSide, Store!vars, Stored,
       StoreClient
  <1>38. QED
    BY <1>1, <1>2, <1>3, <1>4, <1>5, <1>6, <1>7, <1>8, <1>9, <1>10, <1>11,
       <1>12, <1>13, <1>14, <1>15, <1>16, <1>17, <1>18, <1>19, <1>20,
       <1>21, <1>22, <1>23, <1>24, <1>25, <1>26, <1>27, <1>28, <1>29,
       <1>30, <1>31, <1>32, <1>33, <1>34, <1>35, <1>36, <1>37
    DEF Next, FinishShutdown, Callback, Update, User

\* If no user process is ever killed, the pool implements SeedStore: every step
\* of its threads and of its user is one step of the store or none.
THEOREM ImplementsStore ==
  ASSUME MaxCrashes = 0
  PROVE  Spec => ImplementsSeedStore
  <1>1. Init => Store!Init
    BY DEF Init, Store!Init, Store!Requests, Stored, StoreClient, Range
  <1>2. TypeInv /\ FlowInv /\ AnswerInv /\ [Next]_vars => [Store!Next]_(Store!vars)
    BY StoreStep
  <1>3. QED
    BY <1>1, <1>2, AnswersInvariant, PTL DEF Spec, ImplementsSeedStore, Store!Spec
=============================================================================
