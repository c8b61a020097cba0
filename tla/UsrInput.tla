------------------------------ MODULE UsrInput ------------------------------
(***************************************************************************)
(* queue_usr_input with usr_input below it: launch() starts a thread that  *)
(* turns the entries of a queue into ROS 2 commands and runs them one      *)
(* after the other, each a command_process; the fuzzer's thread waits for  *)
(* it, or interrupts it by shutdown() or update() at any point.            *)
(*                                                                         *)
(* "main" is the fuzzer's thread and "worker" the one that runs do_queue() *)
(* and getCommandBack().  A step ends where the other thread can tell the  *)
(* difference.  An exception that leaves do_queue(), or a call through the *)
(* null sub_proc_, ends the process, and the read of an output that fills  *)
(* the shared memory to its end may; the commands go on.                   *)
(*                                                                         *)
(* The caller is taken to launch only what it has joined or updated, and   *)
(* to destroy only what it has shut down, as the test does.                *)
(***************************************************************************)
EXTENDS CommandProcess

CONSTANTS
    Queues,         \* the YAML nodes launch() may get: sequences of kinds ...
    NotASequence,   \* ... and one that is not a sequence and not empty
    max_command,    \* how many entries of a queue are done
    MaxLaunches     \* bound: how often launch() is called

\* The values of ["type"]["A-S-T"]; every other one is "unknown".
Kinds == {"topic", "action", "service", "parameter", "lifecycle", "unknown"}

ASSUME UsrInputAssumption ==
    /\ Queues \subseteq Seq(Kinds)
    /\ NotASequence \notin Queues
    /\ max_command \in Nat
    /\ MaxLaunches \in Nat
    /\ {"topic_pub", "action_send_goal", "service_call", "param_set"}
         \subseteq Commands

VARIABLES
    command_queue_, index, finished_,           \* queue_usr_input
    usr_input_exit_flag_, command_exit_flag_,   \* usr_input
    sub_proc_,          \* the number of its command_process, 0 for nullptr
    shutdown_lock_,     \* the thread that has it, or "free"
    pc,                 \* the place of each thread
    updating,           \* whether shutdown() was called by update()
    result,             \* what the last getCommandBack() returned
    crashed,            \* why the process ended, or "no"
    launches            \* how often launch() started a thread

queueVars == <<command_queue_, index, finished_, launches>>
flagVars == <<usr_input_exit_flag_, command_exit_flag_>>
vars == <<procs, queueVars, flagVars, sub_proc_, shutdown_lock_, pc, updating,
          result, crashed>>

\* What a command has written, and which one it was.
Output(command, text) == [command |-> command, text |-> text]

NoResult == Output("none", "")

\* do_queue(): what a kind calls.  A lifecycle is handled as a parameter.
PubFunction(kind) ==
    CASE kind = "topic" -> "publishToROS2Topic"
      [] kind = "action" -> "publishROS2Action"
      [] kind = "service" -> "publishROS2Service"
      [] kind \in {"parameter", "lifecycle"} -> "setROS2DynamicParam"

\* The command that such a function puts together.
CommandLine ==
    [publishToROS2Topic  |-> "topic_pub",
     publishROS2Action   |-> "action_send_goal",
     publishROS2Service  |-> "service_call",
     setROS2DynamicParam |-> "param_set"]

CommandOf(kind) == CommandLine[PubFunction(kind)]

Init ==
    /\ procs = <<>>
    /\ command_queue_ = <<>> /\ index = 1 /\ finished_ = TRUE /\ launches = 0
    /\ usr_input_exit_flag_ = FALSE /\ command_exit_flag_ = FALSE
    /\ sub_proc_ = 0
    /\ shutdown_lock_ = "free"
    /\ pc = [main |-> "idle", worker |-> "off"]
    /\ updating = FALSE
    /\ result = NoResult
    /\ crashed = "no"

At(t, place) == crashed = "no" /\ pc[t] = place
Go(t, place) == pc' = [pc EXCEPT ![t] = place]

Crash(why) ==
    /\ crashed' = why
    /\ UNCHANGED <<procs, queueVars, flagVars, sub_proc_, shutdown_lock_, pc,
                   updating, result>>

-----------------------------------------------------------------------------
(* shutdown_command_(), which both threads call.                           *)

Lock(t) ==
    /\ At(t, "lock")
    /\ shutdown_lock_ = "free"
    /\ shutdown_lock_' = t
    /\ command_exit_flag_' = TRUE
    /\ Go(t, IF sub_proc_ = 0 THEN "unlock" ELSE "signal")
    /\ UNCHANGED <<procs, queueVars, usr_input_exit_flag_, sub_proc_, updating,
                   result, crashed>>

\* sub_proc_->shutdown()
Signal(t) ==
    /\ At(t, "signal")
    /\ Shutdown(sub_proc_)
    /\ Go(t, IF Alive(sub_proc_) THEN "signal" ELSE "reset")
    /\ UNCHANGED <<queueVars, flagVars, sub_proc_, shutdown_lock_, updating,
                   result, crashed>>

\* Fault: the pointer to the command that has ended is kept.
ResetNot(t) ==
    /\ At(t, "reset")
    /\ ~Alive(sub_proc_)
    /\ procs' = Waited(sub_proc_)
    /\ Go(t, "unlock")
    /\ UNCHANGED <<queueVars, flagVars, sub_proc_, shutdown_lock_, updating,
                   result, crashed>>

\* sub_proc_->join(), which waits for the child, and sub_proc_.reset(), with
\* which the object is gone.
Reset(t) ==
    /\ At(t, "reset")
    /\ ~Alive(sub_proc_)
    /\ procs' = Released(sub_proc_)
    /\ sub_proc_' = 0
    /\ Go(t, "unlock")
    /\ UNCHANGED <<queueVars, flagVars, shutdown_lock_, updating, result,
                   crashed>>

Unlock(t) ==
    /\ At(t, "unlock")
    /\ shutdown_lock_' = "free"
    /\ Go(t, IF t = "main" THEN "join" ELSE "check")
    /\ UNCHANGED <<procs, queueVars, flagVars, sub_proc_, updating, result,
                   crashed>>

ShutdownCommand(t) == Lock(t) \/ Signal(t) \/ Reset(t) \/ Unlock(t)

-----------------------------------------------------------------------------
(* The fuzzer's thread.                                                    *)

\* An empty queue is finished at once; another is worked off by a thread.
Launch ==
    /\ At("main", "idle")
    /\ pc["worker"] = "off"
    /\ launches < MaxLaunches
    /\ launches' = launches + 1
    /\ \E queue \in Queues \cup {NotASequence} :
         IF queue = <<>>
         THEN /\ finished_' = TRUE
              /\ UNCHANGED <<command_queue_, index, pc>>
         ELSE /\ command_queue_' = queue
              /\ index' = 1
              /\ finished_' = FALSE
              /\ Go("worker", "start")
    /\ UNCHANGED <<procs, flagVars, sub_proc_, shutdown_lock_, updating, result,
                   crashed>>

\* queue_usr_input::join()
Join ==
    /\ At("main", "idle")
    /\ pc["worker"] = "ended"
    /\ Go("worker", "off")
    /\ UNCHANGED <<procs, queueVars, flagVars, sub_proc_, shutdown_lock_,
                   updating, result, crashed>>

\* shutdown(), or update(), which begins with it
RequestExit ==
    /\ At("main", "idle")
    /\ usr_input_exit_flag_' = TRUE
    /\ updating' \in BOOLEAN
    /\ Go("main", "lock")
    /\ UNCHANGED <<procs, queueVars, command_exit_flag_, sub_proc_,
                   shutdown_lock_, result, crashed>>

\* Fault: shutdown() does not join the thread.
LeaveThread ==
    /\ At("main", "join")
    /\ Go("main", "idle")
    /\ usr_input_exit_flag_' = ~updating
    /\ finished_' = (finished_ \/ updating)
    /\ UNCHANGED <<procs, command_queue_, index, launches, command_exit_flag_,
                   sub_proc_, shutdown_lock_, updating, result, crashed>>

\* The end of shutdown(), and the rest of update().
JoinThread ==
    /\ At("main", "join")
    /\ pc["worker"] \in {"off", "ended"}
    /\ pc' = [main |-> "idle", worker |-> "off"]
    /\ usr_input_exit_flag_' = ~updating
    /\ finished_' = (finished_ \/ updating)
    /\ UNCHANGED <<procs, command_queue_, index, launches, command_exit_flag_,
                   sub_proc_, shutdown_lock_, updating, result, crashed>>

\* The object goes out of scope, and sub_proc_ with it.
Destroy ==
    /\ At("main", "idle")
    /\ pc["worker"] = "off"
    /\ usr_input_exit_flag_
    /\ Go("main", "destructor")
    /\ UNCHANGED <<procs, queueVars, flagVars, sub_proc_, shutdown_lock_,
                   updating, result, crashed>>

\* ~command_process() calls shutdown() and join().
DestroyCommand ==
    /\ At("main", "destructor")
    /\ IF sub_proc_ = 0
       THEN Go("main", "gone") /\ UNCHANGED <<procs, sub_proc_>>
       ELSE /\ \/ Alive(sub_proc_) /\ Shutdown(sub_proc_) /\ UNCHANGED sub_proc_
               \/ /\ ~Alive(sub_proc_)
                  /\ procs' = Released(sub_proc_)
                  /\ sub_proc_' = 0
            /\ UNCHANGED pc
    /\ UNCHANGED <<queueVars, flagVars, shutdown_lock_, updating, result,
                   crashed>>

-----------------------------------------------------------------------------
(* The thread of do_queue() and getCommandBack().                          *)

\* What is not a sequence is refused, and finished_ stays as it is.
DoQueue ==
    /\ At("worker", "start")
    /\ Go("worker", IF command_queue_ = NotASequence THEN "ended" ELSE "loop")
    /\ UNCHANGED <<procs, queueVars, flagVars, sub_proc_, shutdown_lock_,
                   updating, result, crashed>>

EntriesLeft == index <= Len(command_queue_) /\ index <= max_command

NextEntry ==
    /\ At("worker", "loop")
    /\ EntriesLeft
    /\ ~usr_input_exit_flag_
    /\ command_queue_[index] # "unknown"
    /\ Go("worker", "lock")
    /\ UNCHANGED <<procs, queueVars, flagVars, sub_proc_, shutdown_lock_,
                   updating, result, crashed>>

\* The message for an unknown type reads the map ["type"] as a string, which
\* throws in a thread where nobody catches it.
UnknownType ==
    /\ At("worker", "loop")
    /\ EntriesLeft
    /\ ~usr_input_exit_flag_
    /\ command_queue_[index] = "unknown"
    /\ Crash("exception")

\* Fault: a request to exit leaves the loop and the thread at once.
EndByRequest ==
    /\ At("worker", "loop")
    /\ ~EntriesLeft \/ usr_input_exit_flag_
    /\ finished_' = (finished_ \/ ~EntriesLeft)
    /\ Go("worker", "ended")
    /\ UNCHANGED <<procs, command_queue_, index, launches, flagVars, sub_proc_,
                   shutdown_lock_, updating, result, crashed>>

EndOfQueue ==
    /\ At("worker", "loop")
    /\ ~EntriesLeft \/ usr_input_exit_flag_
    /\ finished_' = TRUE
    /\ Go("worker", "ended")
    /\ UNCHANGED <<procs, command_queue_, index, launches, flagVars, sub_proc_,
                   shutdown_lock_, updating, result, crashed>>

\* getCommandBack() returns, the result is logged, and the loop goes on.
Return(output) ==
    /\ result' = output
    /\ index' = index + 1
    /\ Go("worker", "loop")
    /\ UNCHANGED <<command_queue_, finished_, launches, flagVars, sub_proc_,
                   shutdown_lock_, updating, crashed>>

CheckExit ==
    /\ At("worker", "check")
    /\ usr_input_exit_flag_
    /\ Return(NoResult)
    /\ UNCHANGED procs

Popen ==
    /\ At("worker", "check")
    /\ ~usr_input_exit_flag_
    /\ NewPopen(CommandOf(command_queue_[index]))
    /\ Go("worker", "popen")
    /\ UNCHANGED <<queueVars, flagVars, sub_proc_, shutdown_lock_, updating,
                   result, crashed>>

\* new_popen() returns once it knows the child's id.
Started ==
    /\ At("worker", "popen")
    /\ procs[Len(procs)].child # "forked"
    /\ sub_proc_' = Len(procs)
    /\ Go("worker", "started")
    /\ UNCHANGED <<procs, queueVars, flagVars, shutdown_lock_, updating, result,
                   crashed>>

\* Fault: the request that shutdown_command_() left from line 152 is kept.
KeepFlag ==
    /\ At("worker", "started")
    /\ Go("worker", "poll")
    /\ UNCHANGED <<procs, queueVars, flagVars, sub_proc_, shutdown_lock_,
                   updating, result, crashed>>

ClearFlag ==
    /\ At("worker", "started")
    /\ command_exit_flag_' = FALSE
    /\ Go("worker", "poll")
    /\ UNCHANGED <<procs, queueVars, usr_input_exit_flag_, sub_proc_,
                   shutdown_lock_, updating, result, crashed>>

\* The worker uses sub_proc_ without the lock: it may find it reset, or the
\* object behind it gone.
UseNull ==
    /\ crashed = "no"
    /\ pc["worker"] \in {"poll", "recheck", "output"}
    /\ sub_proc_ = 0
    /\ Crash("nullptr")

\* Fault: the loop looks at one of the two flags only.
PollOneFlag ==
    /\ At("worker", "poll")
    /\ sub_proc_ # 0
    /\ procs' = Waited(sub_proc_)
    /\ Alive(sub_proc_) => command_exit_flag_
    /\ Go("worker", "recheck")
    /\ UNCHANGED <<queueVars, flagVars, sub_proc_, shutdown_lock_, updating,
                   result, crashed>>

\* The test of the loop; if_finished() waits for the child if it has ended.
Poll ==
    /\ At("worker", "poll")
    /\ sub_proc_ # 0
    /\ procs' = Waited(sub_proc_)
    /\ Alive(sub_proc_) => command_exit_flag_ \/ usr_input_exit_flag_
    /\ Go("worker", "recheck")
    /\ UNCHANGED <<queueVars, flagVars, sub_proc_, shutdown_lock_, updating,
                   result, crashed>>

\* The second if_finished() decides whether there is an output.
Finished ==
    /\ At("worker", "recheck")
    /\ sub_proc_ # 0
    /\ ~Alive(sub_proc_)
    /\ procs' = Waited(sub_proc_)
    /\ Go("worker", "output")
    /\ UNCHANGED <<queueVars, flagVars, sub_proc_, shutdown_lock_, updating,
                   result, crashed>>

Interrupted ==
    /\ At("worker", "recheck")
    /\ sub_proc_ # 0
    /\ Alive(sub_proc_)
    /\ Return(Output("none", "interrupted"))
    /\ UNCHANGED procs

\* get_output() finds no end of the text in the shared memory.
ReadOver ==
    /\ At("worker", "output")
    /\ sub_proc_ # 0
    /\ procs[sub_proc_].result_ = "full"
    /\ Crash("overread")

GetOutput ==
    /\ At("worker", "output")
    /\ sub_proc_ # 0
    /\ Return(Output(procs[sub_proc_].command, procs[sub_proc_].result_))
    /\ UNCHANGED procs

-----------------------------------------------------------------------------

MainReturns == ShutdownCommand("main") \/ JoinThread \/ DestroyCommand

MainCalls == Launch \/ Join \/ RequestExit \/ Destroy

WorkerStep ==
    \/ ShutdownCommand("worker")
    \/ DoQueue \/ NextEntry \/ UnknownType \/ EndOfQueue
    \/ CheckExit \/ Popen \/ Started \/ ClearFlag
    \/ UseNull \/ Poll \/ Finished \/ Interrupted \/ ReadOver \/ GetOutput

others == <<queueVars, flagVars, sub_proc_, shutdown_lock_, pc, updating,
            result, crashed>>

\* The processes of the commands go on whatever happens to the program.
ChildrenStep == \E c \in 1..Len(procs) : ChildStep(c) /\ UNCHANGED others

BashStep == \E c \in 1..Len(procs) : BashEnds(c) /\ UNCHANGED others

Next == MainCalls \/ MainReturns \/ WorkerStep \/ ChildrenStep \/ BashStep

\* Threads and children are scheduled; a command need not end.
Fairness ==
    /\ WF_vars(MainReturns)
    /\ WF_vars(WorkerStep)
    /\ WF_vars(ChildrenStep)

Spec == Init /\ [][Next]_vars /\ Fairness

-----------------------------------------------------------------------------

Places == {"idle", "lock", "signal", "reset", "unlock", "join", "destructor",
           "gone", "off", "start", "loop", "check", "popen", "started", "poll",
           "recheck", "output", "ended"}

\* Every variable has a value of its kind.
TypeOK ==
    /\ procs \in Seq(Process)
    /\ command_queue_ \in Queues \cup {<<>>, NotASequence}
    /\ index \in Nat \ {0}
    /\ finished_ \in BOOLEAN /\ launches \in Nat
    /\ usr_input_exit_flag_ \in BOOLEAN /\ command_exit_flag_ \in BOOLEAN
    /\ sub_proc_ \in 0..Len(procs)
    /\ shutdown_lock_ \in {"free", "main", "worker"}
    /\ pc \in [{"main", "worker"} -> Places]
    /\ updating \in BOOLEAN
    /\ result.text \in Texts \cup {"interrupted"}
    /\ crashed \in {"no", "exception", "nullptr", "overread"}

\* At most one command is under way: every child but that of sub_proc_, or
\* the one that is just being started, has ended and been waited for.  No
\* command is forgotten, none becomes a zombie, and none runs beside the next
\* (usr_input.cpp:152, shutdown_command_() at the start of getCommandBack()),
\* unless its output has run over child_pid_ (new_popen.cpp:163): such a child
\* can neither be waited for nor signalled any more.
OnlyHeldCommandRuns ==
    \A c \in 1..Len(procs) :
      \/ Reaped(c) \/ procs[c].pidLost
      \/ c = sub_proc_
      \/ c = Len(procs) /\ pc["worker"] = "popen"

\* A command that is still running when shutdown() has returned was started
\* behind its back: shutdown_command_() found no sub_proc_, and the request
\* it left in command_exit_flag_ was cleared by line 160.
SurvivorStartedLate ==
    (/\ pc["main"] = "idle"
     /\ usr_input_exit_flag_
     /\ sub_proc_ # 0) => ~command_exit_flag_

\* The process ends through a null sub_proc_ only while shutdown() of the
\* other thread waits for the worker: never in a queue that is left alone.
NullNeedsShutdown ==
    crashed = "nullptr" => usr_input_exit_flag_ /\ pc["main"] \in {"unlock", "join"}

\* finished() can be relied on: when it says so, the thread has left the queue;
\* and when the thread has left, it says so, unless the queue was refused for
\* not being a sequence (queue_usr_input.cpp:34, 47-53).
FinishedIsHonest ==
    /\ finished_ => pc["worker"] \in {"off", "ended"}
    /\ pc["worker"] \in {"off", "ended"} /\ ~finished_ =>
         command_queue_ = NotASequence

\* When nobody has asked for the exit, what getCommandBack() returns is the
\* output of the very command of this entry, never that of an earlier one, and
\* its copy has come to an end: it is never empty or a part because the program
\* came too early or ended the command itself (usr_input.cpp:161-167).  It is
\* the whole output unless that holds a NUL, where strcpy() stops, or is longer
\* than the shared memory (new_popen.cpp:163, new_popen.hpp:47).
OutputIsWhole ==
    [][ index' > index /\ ~usr_input_exit_flag_ =>
          /\ result'.text \in Copies
          /\ result'.command = CommandOf(command_queue_[index]) ]_vars

\* shutdown() and update() return, whatever the worker and the command are
\* doing, unless the process ends under them.
ShutdownReturns ==
    pc["main"] = "lock" ~> pc["main"] = "idle" \/ crashed # "no"

=============================================================================
