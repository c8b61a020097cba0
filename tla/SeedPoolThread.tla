--------------------------- MODULE SeedPoolThread ---------------------------
(***************************************************************************)
(* One seed pool (seed_pool_thread.cpp) and the process that uses it       *)
(* (seed_pool_user.cpp).                                                   *)
(*                                                                         *)
(* The pool has a callback thread, which opens the two FIFOs, reads a      *)
(* request and answers it, and an update thread, which moves stored seeds  *)
(* into the pool and keeps some seeds prepared for the next picks.  The    *)
(* thread that called launch() later calls shutdown().  Each thread has a  *)
(* program counter named after it; `user' is the one of the user process.  *)
(*                                                                         *)
(* A seed stands for its text.  The text that two requests or two replies  *)
(* give when one read() returns both is Garbled, or NoSeed (the empty      *)
(* seed) when Seed::parseFromString finds no weight at its start.  The     *)
(* sleeps of the loops and the flag state_, which nothing reads, are left  *)
(* out.                                                                    *)
(***************************************************************************)
EXTENDS Naturals, Sequences, Functions

CONSTANTS
    Seeds,              \* the seeds that can be stored
    InitialSeeds,       \* those init_seeds() may find and put in the pool
                        \* before launch(): all, some or none of them
    WideSeeds,          \* those that fill the 1024 bytes a picking user reads
    HugeSeeds,          \* those whose request fills the pool's 2048 bytes
    NoSeed,             \* Seed{0, ""}
    Garbled,            \* the text of two messages read as one
    PICK_SEED_REQUEST,
    I_M_HERE,
    Workload,           \* the requests the user makes
    MaxRequests,        \* bound: how many requests the user makes
    MaxCrashes,         \* bound: how often a user process is killed
    PreparedMax,        \* the 5 of update_prepared_seeds()
    FdLimit,            \* descriptors the pool's process may hold open
    RaceCrashes         \* whether an unlocked deque access may end the process

Requests == Seeds \cup {PICK_SEED_REQUEST}
StoredSeeds == Seeds \cup {NoSeed, Garbled}
Replies == StoredSeeds \cup {I_M_HERE}

ASSUME SeedsAssumption ==
    /\ InitialSeeds \subseteq Seeds
    /\ WideSeeds \subseteq Seeds
    /\ HugeSeeds \subseteq Seeds
    /\ Workload \subseteq Requests
    /\ NoSeed \notin Seeds
    /\ Garbled \notin Seeds
    /\ PICK_SEED_REQUEST \notin StoredSeeds
    /\ I_M_HERE \notin StoredSeeds

ASSUME BoundsAssumption ==
    /\ MaxRequests \in Nat
    /\ MaxCrashes \in Nat
    /\ PreparedMax \in Nat \ {0}
    /\ FdLimit \in Nat
    /\ RaceCrashes \in BOOLEAN

VARIABLES
    (* the pool object *)
    seed_pool_,       \* the contents of the priority queue and its mirror
    unstored_seed_,   \* queue of acknowledged seeds; no lock protects it
    prepared_seeds_,  \* queue of seeds ready for the next picks
    queue_lock_,      \* "free", or the thread that holds the mutex
    exit_flag_,
    (* the threads of the pool's process *)
    main,             \* the thread that calls launch() and shutdown()
    callback, message, picked_seed,
    update, seed_data,
    proc,             \* "running", or how the process ended
    (* the FIFOs *)
    fifos,            \* whether their names exist
    PoolToWork,       \* bytes in flight, one entry per write()
    WorkToPool,
    fd_PoolToWork,    \* whether pipe_fd_PoolToWork_ # -1
    fd_WorkToPool,
    open_PoolToWork,  \* descriptors the pool's process has open on each FIFO,
    open_WorkToPool,  \*   the ones no variable names any more included
    (* the user process *)
    user, request, reply,
    failure,          \* why a user process exited
    requests,         \* how many requests were made
    crashes,          \* how many user processes were killed
    acked             \* history: the seeds whose store was acknowledged

poolVars == <<seed_pool_, unstored_seed_, prepared_seeds_, queue_lock_>>
callbackVars == <<callback, message, picked_seed>>
updateVars == <<update, seed_data>>
fifoVars == <<PoolToWork, WorkToPool>>
fdVars == <<fd_PoolToWork, fd_WorkToPool, open_PoolToWork, open_WorkToPool>>
userVars == <<user, request, reply, failure, requests, crashes, acked>>

vars == <<poolVars, exit_flag_, main, callbackVars, updateVars, proc, fifos,
          fifoVars, fdVars, userVars>>

Init ==
    /\ seed_pool_ \in SUBSET InitialSeeds
    /\ unstored_seed_ = <<>>
    /\ prepared_seeds_ = <<>>
    /\ queue_lock_ = "free"
    /\ exit_flag_ = FALSE
    /\ main = "created"
    /\ callback = "off"
    /\ message = NoSeed
    /\ picked_seed = NoSeed
    /\ update = "off"
    /\ seed_data = NoSeed
    /\ proc = "running"
    /\ fifos = FALSE
    /\ PoolToWork = <<>>
    /\ WorkToPool = <<>>
    /\ fd_PoolToWork = FALSE
    /\ fd_WorkToPool = FALSE
    /\ open_PoolToWork = 0
    /\ open_WorkToPool = 0
    /\ user = "idle"
    /\ request = PICK_SEED_REQUEST
    /\ reply = NoSeed
    /\ failure = "none"
    /\ requests = 0
    /\ crashes = 0
    /\ acked = {}

-----------------------------------------------------------------------------
(* What both sides rest on *)

\* A user holds, or waits to get, the reading end of PoolToWork.
ReaderPresent ==
    user \in {"waitWriter", "openW", "waitReader", "write", "read", "check"}

DescriptorFree == open_PoolToWork + open_WorkToPool < FdLimit

\* The pool's process ends: the kernel closes its descriptors.
Die(cause) ==
    /\ proc' = cause
    /\ open_PoolToWork' = 0
    /\ open_WorkToPool' = 0
    /\ UNCHANGED <<fd_PoolToWork, fd_WorkToPool>>

\* The text one ReadPipeFd() of the pool gets out of the requests in the FIFO.
RequestText(msgs) ==
    IF Len(msgs) = 1 THEN Head(msgs)
    ELSE IF Head(msgs) = PICK_SEED_REQUEST THEN NoSeed ELSE Garbled

ReplyText(msgs) == IF Len(msgs) = 1 THEN Head(msgs) ELSE Garbled

-----------------------------------------------------------------------------
(* launch() and shutdown() *)

Launch ==
    /\ main = "created"
    /\ fifos' = TRUE
    /\ main' = "launched"
    /\ callback' = "loop"
    /\ update' = "loop"
    /\ UNCHANGED <<poolVars, exit_flag_, message, picked_seed, seed_data, proc,
                   fifoVars, fdVars, userVars>>

RequestExit ==
    /\ proc = "running"
    /\ main = "launched"
    /\ exit_flag_' = TRUE
    /\ main' = "joinCallback"
    /\ UNCHANGED <<poolVars, callbackVars, updateVars, proc, fifos, fifoVars,
                   fdVars, userVars>>

JoinCallback ==
    /\ proc = "running"
    /\ main = "joinCallback"
    /\ callback = "done"
    /\ main' = "joinUpdate"
    /\ UNCHANGED <<poolVars, exit_flag_, callbackVars, updateVars, proc, fifos,
                   fifoVars, fdVars, userVars>>

\* Fault: the update thread is detached, not joined.
UpdateDetached ==
    /\ proc = "running"
    /\ main = "joinUpdate"
    /\ main' = "close"
    /\ UNCHANGED <<poolVars, exit_flag_, callbackVars, updateVars, proc, fifos,
                   fifoVars, fdVars, userVars>>

JoinUpdate ==
    /\ proc = "running"
    /\ main = "joinUpdate"
    /\ update = "done"
    /\ main' = "close"
    /\ UNCHANGED <<poolVars, exit_flag_, callbackVars, updateVars, proc, fifos,
                   fifoVars, fdVars, userVars>>

\* Closes the two descriptors the members name and leaves the members alone.
ClosePipes ==
    /\ proc = "running"
    /\ main = "close"
    /\ main' = "delete"
    /\ open_PoolToWork' = open_PoolToWork - (IF fd_PoolToWork THEN 1 ELSE 0)
    /\ open_WorkToPool' = open_WorkToPool - (IF fd_WorkToPool THEN 1 ELSE 0)
    /\ UNCHANGED <<poolVars, exit_flag_, callbackVars, updateVars, proc, fifos,
                   fifoVars, fd_PoolToWork, fd_WorkToPool, userVars>>

DelPipes ==
    /\ proc = "running"
    /\ main = "delete"
    /\ main' = "off"
    /\ fifos' = FALSE
    /\ UNCHANGED <<poolVars, exit_flag_, callbackVars, updateVars, proc,
                   fifoVars, fdVars, userVars>>

\* The process the pool lives in calls exit(0) once its pools are shut down.
ProcessExit ==
    /\ proc = "running"
    /\ main = "off"
    /\ Die("exited")
    /\ UNCHANGED <<poolVars, exit_flag_, main, callbackVars, updateVars, fifos,
                   fifoVars, userVars>>

-----------------------------------------------------------------------------
(* The callback thread *)

CallbackStep(from) == proc = "running" /\ callback = from

\* while (!exit_flag_), then the test at the start of openPipes()
CallbackLoop ==
    /\ CallbackStep("loop")
    /\ callback' = IF exit_flag_ THEN "done"
                   ELSE IF fd_PoolToWork /\ fd_WorkToPool THEN "readPipe"
                   ELSE "openPoolToWork"
    /\ UNCHANGED <<poolVars, exit_flag_, main, message, picked_seed, updateVars,
                   proc, fifos, fifoVars, fdVars, userVars>>

\* A non-blocking open for writing fails unless somebody reads; when it does
\* not fail, it lets the user's open for reading return.
OpenPoolToWork ==
    /\ CallbackStep("openPoolToWork")
    /\ callback' = "openWorkToPool"
    /\ fd_PoolToWork' = (ReaderPresent /\ DescriptorFree)
    /\ open_PoolToWork' = open_PoolToWork + (IF fd_PoolToWork' THEN 1 ELSE 0)
    /\ user' = IF fd_PoolToWork' /\ user = "waitWriter" THEN "openW" ELSE user
    /\ UNCHANGED <<poolVars, exit_flag_, main, message, picked_seed, updateVars,
                   proc, fifos, fifoVars, fd_WorkToPool, open_WorkToPool,
                   request, reply, failure, requests, crashes, acked>>

\* A non-blocking open for reading succeeds with or without a writer.
OpenWorkToPool ==
    /\ CallbackStep("openWorkToPool")
    /\ fd_WorkToPool' = DescriptorFree
    /\ open_WorkToPool' = open_WorkToPool + (IF fd_WorkToPool' THEN 1 ELSE 0)
    /\ user' = IF fd_WorkToPool' /\ user = "waitReader" THEN "write" ELSE user
    /\ callback' = IF fd_PoolToWork /\ fd_WorkToPool' THEN "readPipe" ELSE "loop"
    /\ UNCHANGED <<poolVars, exit_flag_, main, message, picked_seed, updateVars,
                   proc, fifos, fifoVars, fd_PoolToWork, open_PoolToWork,
                   request, reply, failure, requests, crashes, acked>>

\* ReadPipeFd() finds nothing, or does not look because of exit_flag_.
ReadNothing ==
    /\ CallbackStep("readPipe")
    /\ exit_flag_ \/ WorkToPool = <<>>
    /\ callback' = "loop"
    /\ UNCHANGED <<poolVars, exit_flag_, main, message, picked_seed, updateVars,
                   proc, fifos, fifoVars, fdVars, userVars>>

\* Fault: the request stays in the FIFO and is read again.
ReadRequestAgain ==
    /\ CallbackStep("readPipe")
    /\ ~exit_flag_
    /\ WorkToPool # <<>>
    /\ Range(WorkToPool) \cap HugeSeeds = {}
    /\ message' = RequestText(WorkToPool)
    /\ callback' = IF message' = PICK_SEED_REQUEST THEN "tryPick" ELSE "push"
    /\ UNCHANGED <<poolVars, exit_flag_, main, picked_seed, updateVars, proc,
                   fifos, fifoVars, fdVars, userVars>>

\* ReadPipeFd() drains the FIFO; the request decides which callback runs.
ReadRequest ==
    /\ CallbackStep("readPipe")
    /\ ~exit_flag_
    /\ WorkToPool # <<>>
    /\ Range(WorkToPool) \cap HugeSeeds = {}
    /\ WorkToPool' = <<>>
    /\ message' = RequestText(WorkToPool)
    /\ callback' = IF message' = PICK_SEED_REQUEST THEN "tryPick" ELSE "push"
    /\ UNCHANGED <<poolVars, exit_flag_, main, picked_seed, updateVars, proc,
                   fifos, PoolToWork, fdVars, userVars>>

\* The request fills the buffer: exit(EXIT_FAILURE).
ReadOverflow ==
    /\ CallbackStep("readPipe")
    /\ ~exit_flag_
    /\ Range(WorkToPool) \cap HugeSeeds # {}
    /\ WorkToPool' = <<>>
    /\ Die("overflow")
    /\ UNCHANGED <<poolVars, exit_flag_, main, callbackVars, updateVars, fifos,
                   PoolToWork, userVars>>

\* while(!success && !exit_flag_)
TryPick ==
    /\ CallbackStep("tryPick")
    /\ callback' = IF exit_flag_ THEN "loop" ELSE "lock"
    /\ UNCHANGED <<poolVars, exit_flag_, main, message, picked_seed, updateVars,
                   proc, fifos, fifoVars, fdVars, userVars>>

\* pop_prepared_seed(): the mutex is not recursive, so its holder waits as well.
LockForPop ==
    /\ CallbackStep("lock")
    /\ queue_lock_ = "free"
    /\ queue_lock_' = "callback"
    /\ callback' = "pop"
    /\ UNCHANGED <<seed_pool_, unstored_seed_, prepared_seeds_, exit_flag_, main,
                   message, picked_seed, updateVars, proc, fifos, fifoVars,
                   fdVars, userVars>>

\* The early return keeps the mutex locked.
PopNothing ==
    /\ CallbackStep("pop")
    /\ prepared_seeds_ = <<>>
    /\ callback' = "tryPick"
    /\ UNCHANGED <<poolVars, exit_flag_, main, message, picked_seed, updateVars,
                   proc, fifos, fifoVars, fdVars, userVars>>

\* An empty seed prepared while the pool was empty is dropped: try again.
PopPrepared ==
    /\ CallbackStep("pop")
    /\ prepared_seeds_ # <<>>
    /\ prepared_seeds_' = Tail(prepared_seeds_)
    /\ queue_lock_' = "free"
    /\ picked_seed' = Head(prepared_seeds_)
    /\ callback' = IF picked_seed' = NoSeed THEN "tryPick" ELSE "sendSeed"
    /\ UNCHANGED <<seed_pool_, unstored_seed_, exit_flag_, main, message,
                   updateVars, proc, fifos, fifoVars, fdVars, userVars>>

\* write() on PoolToWork; without a reader SIGPIPE ends the process.
Send(reply_text, from) ==
    /\ CallbackStep(from)
    /\ \/ /\ ReaderPresent
          /\ PoolToWork' = Append(PoolToWork, reply_text)
          /\ callback' = "loop"
          /\ UNCHANGED <<proc, fdVars>>
       \/ /\ ~ReaderPresent
          /\ Die("sigpipe")
          /\ UNCHANGED <<PoolToWork, callback>>
    /\ UNCHANGED <<poolVars, exit_flag_, main, message, picked_seed, updateVars,
                   fifos, WorkToPool, userVars>>

SendSeed == Send(picked_seed, "sendSeed")

\* The update thread is inside empty(), front() or pop() of unstored_seed_.
UpdateInUnstored == update \in {"store", "popUnstored"}

\* Fault: the seed is queued and not acknowledged.
PushUnstoredSilently ==
    /\ CallbackStep("push")
    /\ unstored_seed_' = Append(unstored_seed_, message)
    /\ callback' = "loop"
    /\ UNCHANGED <<seed_pool_, prepared_seeds_, queue_lock_, exit_flag_, main,
                   message, picked_seed, updateVars, proc, fifos, fifoVars,
                   fdVars, userVars>>

\* unstored_seed_.push() without a lock.
PushUnstored ==
    /\ CallbackStep("push")
    /\ \/ /\ unstored_seed_' = Append(unstored_seed_, message)
          /\ callback' = "sendAck"
          /\ UNCHANGED <<proc, fdVars>>
       \/ /\ RaceCrashes
          /\ UpdateInUnstored
          /\ Die("race")
          /\ UNCHANGED <<unstored_seed_, callback>>
    /\ UNCHANGED <<seed_pool_, prepared_seeds_, queue_lock_, exit_flag_, main,
                   message, picked_seed, updateVars, fifos, fifoVars, userVars>>

SendAck == Send(I_M_HERE, "sendAck")

Callback ==
    \/ CallbackLoop
    \/ OpenPoolToWork
    \/ OpenWorkToPool
    \/ ReadNothing
    \/ ReadRequest
    \/ ReadOverflow
    \/ TryPick
    \/ LockForPop
    \/ PopNothing
    \/ PopPrepared
    \/ SendSeed
    \/ PushUnstored
    \/ SendAck

-----------------------------------------------------------------------------
(* The update thread *)

UpdateStep(from) == proc = "running" /\ update = from

\* Fault: while (true)
UpdateLoopForever ==
    /\ UpdateStep("loop")
    /\ update' = "store"
    /\ UNCHANGED <<poolVars, exit_flag_, main, callbackVars, seed_data, proc,
                   fifos, fifoVars, fdVars, userVars>>

UpdateLoop ==
    /\ UpdateStep("loop")
    /\ update' = IF exit_flag_ THEN "done" ELSE "store"
    /\ UNCHANGED <<poolVars, exit_flag_, main, callbackVars, seed_data, proc,
                   fifos, fifoVars, fdVars, userVars>>

\* update_stored_seeds() up to addDataInSeedPool(unstored_seed_.front())
StoreFront ==
    /\ UpdateStep("store")
    /\ IF unstored_seed_ = <<>>
       THEN /\ update' = "prepare"
            /\ UNCHANGED seed_pool_
       ELSE /\ update' = "popUnstored"
            /\ seed_pool_' = seed_pool_ \cup {Head(unstored_seed_)}
    /\ UNCHANGED <<unstored_seed_, prepared_seeds_, queue_lock_, exit_flag_,
                   main, callbackVars, seed_data, proc, fifos, fifoVars, fdVars,
                   userVars>>

\* Fault: the queue is emptied after its front has been stored.
PopUnstoredAll ==
    /\ UpdateStep("popUnstored")
    /\ unstored_seed_' = <<>>
    /\ update' = "prepare"
    /\ UNCHANGED <<seed_pool_, prepared_seeds_, queue_lock_, exit_flag_, main,
                   callbackVars, seed_data, proc, fifos, fifoVars, fdVars,
                   userVars>>

\* unstored_seed_.pop()
PopUnstored ==
    /\ UpdateStep("popUnstored")
    /\ unstored_seed_' = Tail(unstored_seed_)
    /\ update' = "prepare"
    /\ UNCHANGED <<seed_pool_, prepared_seeds_, queue_lock_, exit_flag_, main,
                   callbackVars, seed_data, proc, fifos, fifoVars, fdVars,
                   userVars>>

\* prepared_seeds_.size() is read without the mutex: while the callback thread
\* pops, the value it returns may be any.
SeemsFull == Len(prepared_seeds_) >= PreparedMax \/ callback = "pop"

\* Fault: one too many.
SeemsToHaveRoomForOneMore == Len(prepared_seeds_) <= PreparedMax \/ callback = "pop"
SeemsToHaveRoom == Len(prepared_seeds_) < PreparedMax \/ callback = "pop"

\* Fault: with enough seeds prepared, the update thread waits for a pick.
WaitWhileEnough ==
    /\ UpdateStep("prepare")
    /\ SeemsFull
    /\ UNCHANGED vars

EnoughPrepared ==
    /\ UpdateStep("prepare")
    /\ SeemsFull
    /\ update' = "loop"
    /\ UNCHANGED <<poolVars, exit_flag_, main, callbackVars, seed_data, proc,
                   fifos, fifoVars, fdVars, userVars>>

\* pickSeed(): a seed of the pool, or the empty seed of an empty pool
PickForPrepared ==
    /\ UpdateStep("prepare")
    /\ SeemsToHaveRoom
    /\ seed_data' \in IF seed_pool_ = {} THEN {NoSeed} ELSE seed_pool_
    /\ update' = "lock"
    /\ UNCHANGED <<poolVars, exit_flag_, main, callbackVars, proc, fifos,
                   fifoVars, fdVars, userVars>>

LockForPush ==
    /\ UpdateStep("lock")
    /\ queue_lock_ = "free"
    /\ queue_lock_' = "update"
    /\ update' = "push"
    /\ UNCHANGED <<seed_pool_, unstored_seed_, prepared_seeds_, exit_flag_, main,
                   callbackVars, seed_data, proc, fifos, fifoVars, fdVars,
                   userVars>>

PushPrepared ==
    /\ UpdateStep("push")
    /\ prepared_seeds_' = Append(prepared_seeds_, seed_data)
    /\ queue_lock_' = "free"
    /\ update' = "loop"
    /\ UNCHANGED <<seed_pool_, unstored_seed_, exit_flag_, main, callbackVars,
                   seed_data, proc, fifos, fifoVars, fdVars, userVars>>

Update ==
    \/ UpdateLoop
    \/ StoreFront
    \/ PopUnstored
    \/ EnoughPrepared
    \/ PickForPrepared
    \/ LockForPush
    \/ PushPrepared

-----------------------------------------------------------------------------
(* The user process *)

poolSide == <<poolVars, exit_flag_, main, callbackVars, updateVars, proc, fifos,
              fdVars>>

\* addSeed() or pickSeed() is called
Ask(r) ==
    /\ user = "idle"
    /\ requests < MaxRequests
    /\ requests' = requests + 1
    /\ user' = "openR"
    /\ request' = r
    /\ UNCHANGED <<poolSide, fifoVars, reply, failure, crashes, acked>>

\* A blocking open for reading waits for a writer.
UserOpenPoolToWork ==
    /\ user = "openR"
    /\ fifos
    /\ user' = IF open_PoolToWork > 0 THEN "openW" ELSE "waitWriter"
    /\ UNCHANGED <<poolSide, fifoVars, request, reply, failure, requests,
                   crashes, acked>>

\* A blocking open for writing waits for a reader.
UserOpenWorkToPool ==
    /\ user = "openW"
    /\ fifos
    /\ user' = IF open_WorkToPool > 0 THEN "write" ELSE "waitReader"
    /\ UNCHANGED <<poolSide, fifoVars, request, reply, failure, requests,
                   crashes, acked>>

Exit(cause) ==
    /\ user' = "gone"
    /\ failure' = cause

\* No FIFO has that name: "please create SeedPool firstly"
UserOpenFails ==
    /\ user \in {"openR", "openW"}
    /\ ~fifos
    /\ Exit("open")
    /\ UNCHANGED <<poolSide, fifoVars, request, reply, requests, crashes, acked>>

\* The request is written; without a reader SIGPIPE ends the user process.
UserWrite ==
    /\ user = "write"
    /\ \/ /\ open_WorkToPool > 0
          /\ WorkToPool' = Append(WorkToPool, request)
          /\ user' = "read"
          /\ UNCHANGED failure
       \/ /\ open_WorkToPool = 0
          /\ Exit("sigpipe")
          /\ UNCHANGED WorkToPool
    /\ UNCHANGED <<poolSide, PoolToWork, request, reply, requests, crashes, acked>>

\* One read() gets every reply in the FIFO; a reply that fills the buffer
\* ends the user process.  An empty FIFO keeps the user in its loop, for ever
\* once nobody has the writing end open.
UserRead ==
    /\ user = "read"
    /\ PoolToWork # <<>>
    /\ PoolToWork' = <<>>
    /\ \/ /\ Range(PoolToWork) \cap WideSeeds # {}
          /\ Exit("overflow")
          /\ UNCHANGED reply
       \/ /\ Range(PoolToWork) \cap WideSeeds = {}
          /\ user' = "check"
          /\ reply' = ReplyText(PoolToWork)
          /\ UNCHANGED failure
    /\ UNCHANGED <<poolSide, WorkToPool, request, requests, crashes, acked>>

\* The reply to a store must be I_M_HERE; a pick returns whatever was read.
\* Both descriptors are closed.
UserReturn ==
    /\ user = "check"
    /\ request = PICK_SEED_REQUEST \/ reply = I_M_HERE
    /\ user' = "idle"
    /\ acked' = acked \cup ({request} \cap Seeds)
    /\ UNCHANGED <<poolSide, fifoVars, request, reply, failure, requests, crashes>>

UserNotAcked ==
    /\ user = "check"
    /\ request \in Seeds
    /\ reply # I_M_HERE
    /\ Exit("ack")
    /\ UNCHANGED <<poolSide, fifoVars, request, reply, requests, crashes, acked>>

User ==
    \/ UserOpenPoolToWork
    \/ UserOpenWorkToPool
    \/ UserOpenFails
    \/ UserWrite
    \/ UserRead
    \/ UserReturn
    \/ UserNotAcked

\* The user process is killed and another one takes its place.
UserCrash ==
    /\ user \notin {"idle", "gone"}
    /\ crashes < MaxCrashes
    /\ crashes' = crashes + 1
    /\ user' = "idle"
    /\ UNCHANGED <<poolSide, fifoVars, request, reply, failure, requests, acked>>

-----------------------------------------------------------------------------
FinishShutdown == JoinCallback \/ JoinUpdate \/ ClosePipes \/ DelPipes

Next ==
    \/ Launch
    \/ RequestExit
    \/ FinishShutdown
    \/ ProcessExit
    \/ Callback
    \/ Update
    \/ \E r \in Workload : Ask(r)
    \/ User
    \/ UserCrash

Spec == Init /\ [][Next]_vars

\* The threads and the user process run whenever they can; nobody has to call
\* launch() or shutdown(), or to make a request.
Fairness ==
    /\ WF_vars(FinishShutdown)
    /\ WF_vars(Callback)
    /\ WF_vars(Update)
    /\ WF_vars(User)

FairSpec == Spec /\ Fairness

-----------------------------------------------------------------------------
(* Invariants *)

\* The values of the variables.
PoolTypeOK ==
    /\ seed_pool_ \subseteq StoredSeeds
    /\ unstored_seed_ \in Seq(StoredSeeds)
    /\ prepared_seeds_ \in Seq(StoredSeeds)
    /\ queue_lock_ \in {"free", "callback", "update"}

ThreadTypeOK ==
    /\ main \in {"created", "launched", "joinCallback", "joinUpdate", "close",
                 "delete", "off"}
    /\ callback \in {"off", "loop", "openPoolToWork", "openWorkToPool",
                     "readPipe", "tryPick", "lock", "pop", "sendSeed", "push",
                     "sendAck", "done"}
    /\ message \in StoredSeeds \cup {PICK_SEED_REQUEST}
    /\ picked_seed \in StoredSeeds
    /\ update \in {"off", "loop", "store", "popUnstored", "prepare", "lock",
                   "push", "done"}
    /\ seed_data \in StoredSeeds
    /\ proc \in {"running", "exited", "overflow", "sigpipe", "race"}

FlagTypeOK ==
    /\ exit_flag_ \in BOOLEAN
    /\ fifos \in BOOLEAN
    /\ fd_PoolToWork \in BOOLEAN
    /\ fd_WorkToPool \in BOOLEAN

FifoTypeOK ==
    /\ PoolToWork \in Seq(Replies)
    /\ WorkToPool \in Seq(Requests)
    /\ open_PoolToWork \in Nat
    /\ open_WorkToPool \in Nat

UserTypeOK ==
    /\ user \in {"idle", "openR", "waitWriter", "openW", "waitReader", "write",
                 "read", "check", "gone"}
    /\ request \in Requests
    /\ reply \in Replies
    /\ failure \in {"none", "open", "overflow", "sigpipe", "ack"}
    /\ requests \in 0..MaxRequests
    /\ crashes \in 0..MaxCrashes
    /\ acked \subseteq Seeds

TypeOK == PoolTypeOK /\ ThreadTypeOK /\ FlagTypeOK /\ FifoTypeOK /\ UserTypeOK

\* The pool is working on a request it has read.
Handling ==
    callback \in {"tryPick", "lock", "pop", "sendSeed", "push", "sendAck"}

One(b) == IF b THEN 1 ELSE 0

\* The seeds in the pool and those queued for it.
Stored == seed_pool_ \cup Range(unstored_seed_)

\* Requests and replies alternate: what is written, being worked on or waiting
\* to be read is at most the one request a user waits on and one message left
\* behind by each killed user.
MessagesInFlight ==
    Len(WorkToPool) + Len(PoolToWork) + One(Handling)
        <= One(user = "read") + crashes

\* Unless a user process was killed, a user that was let through the protocol
\* gets an acknowledgement for a store and a seed, never an acknowledgement or
\* an empty text, for a pick.
ReplyMatchesRequest ==
    crashes = 0 /\ user = "check" =>
        IF request \in Seeds THEN reply = I_M_HERE ELSE reply \in Seeds

\* Unless a user process was killed, an acknowledged seed is in the pool or
\* queued for it, in every interleaving of the unlocked push and pop of
\* unstored_seed_, shutdown included.
AckedNotLost ==
    crashes = 0 => acked \subseteq Stored

\* Unless a user process was killed, the user of a pick gets a seed the pool
\* started with or one whose store was acknowledged before.
PickReturnsAcked ==
    crashes = 0 /\ user = "check" /\ request = PICK_SEED_REQUEST
        => reply \in InitialSeeds \cup acked

\* The size test of update_prepared_seeds() is outside the mutex and yet there
\* are never more than PreparedMax prepared seeds.
PreparedBound == Len(prepared_seeds_) <= PreparedMax

\* The pool's process is ended by SIGPIPE only if a user process was killed.
BrokenPipeNeedsCrash == proc = "sigpipe" => crashes > 0

-----------------------------------------------------------------------------
(* Properties of steps and of behaviours *)

\* Once shutdown() has joined both threads, nothing touches the pool any more:
\* the caller may read it, as restoreForFuture() does.
QuiescentAfterJoin ==
    [][(main \in {"close", "delete", "off"}) => UNCHANGED poolVars]_vars

StoreClient ==
    IF user \in {"idle", "gone"} THEN user
    ELSE IF user = "check" THEN "answered" ELSE "asking"

Store == INSTANCE SeedStore WITH
    accepted <- Stored, client <- StoreClient, answer <- reply

\* While no user process is killed, the pool keeps the promises of a SeedStore.
ImplementsSeedStore == Store!Spec

\* Both descriptors are valid and openPipes() is not about to replace one.
Connected == fd_PoolToWork /\ fd_WorkToPool /\ callback # "openWorkToPool"

\* pop_prepared_seed() has returned without unlocking.
LockLeaked == queue_lock_ = "callback" /\ callback # "pop"

\* A store request that a connected pool is to read is acknowledged: only
\* shutdown() can come first, or the end of the process in the race of push()
\* with the update thread (seed_pool_thread.cpp:144, 171).  A mutex the other
\* calls leak does not hold a store up.
StoreAnswered ==
    (user = "read" /\ request \in Seeds \ HugeSeeds /\ Connected)
        ~> (user # "read" \/ exit_flag_ \/ proc # "running")

\* An acknowledged seed gets into the pool: only shutdown(), the end of the
\* process (a request too long for the pool, a race) or a leaked mutex can come
\* first.
AckedGetsStored ==
    \A s \in Seeds :
        s \in acked ~> (s \in seed_pool_ \/ exit_flag_ \/ proc # "running"
                         \/ LockLeaked)

\* shutdown() returns, in spite of users blocked in open() or waiting for an
\* answer: only the end of the process (a request too long for the pool, a
\* race) or a leaked mutex prevents it.
ShutdownReturns ==
    exit_flag_ ~> (main = "off" \/ proc # "running" \/ LockLeaked)

\* A pick from a connected pool with seeds is answered, unless shutdown() comes
\* first: at worst the pool is "waiting for prepared seeds...."
\* (seed_pool_thread.cpp:74).
PickAnswered ==
    (user = "read" /\ request = PICK_SEED_REQUEST /\ Connected /\ seed_pool_ # {})
        ~> (user # "read" \/ exit_flag_)

\* "We block here, to make sure that the connection to the thread gets
\* established" (seed_pool_user.cpp:132), unless shutdown() comes first.
UserConnects ==
    (user = "waitWriter" /\ main = "launched")
        ~> (user \in {"write", "read"} \/ main # "launched")
=============================================================================
