---------------------------- MODULE SocketServer ----------------------------
(***************************************************************************)
(* SocketServer (socket_server.cpp) collects the call stacks of the        *)
(* program under test.  An executor thread accepts connections and starts  *)
(* a handler thread for each; a handler reads records and appends them to  *)
(* info_queue_.  The fuzzer's thread, `main', drives it round by round as  *)
(* HookCommunicator and fuzzer_simulation.cpp do: clear() and update(),    *)
(* one run of the target, analysis(); and shutdown() after some rounds.    *)
(*                                                                         *)
(* What is done under queue_mutex_ is one step.  info_queue_, the vector   *)
(* of threads and the two flags are also used without it: where two such   *)
(* uses overlap the process may crash (RaceCrashes).  A vector that        *)
(* destroys a thread nobody joined ends the process by std::terminate().   *)
(* Sockets are abstracted to connections, which carry whole records.       *)
(***************************************************************************)
EXTENDS Naturals, Sequences, Functions

CONSTANTS
    MaxConns,       \* bound: how many connections the targets open
    MaxRecords,     \* bound: how many records go over one of them
    MaxRounds,      \* bound: how many rounds the fuzzer runs
    RaceCrashes     \* whether an unlocked access to a vector may end the process

ASSUME SocketAssumption ==
    /\ MaxConns \in Nat
    /\ MaxRecords \in Nat
    /\ MaxRounds \in Nat
    /\ RaceCrashes \in BOOLEAN

SelfConn == 0       \* the connection shutdown_server() makes to its own server
TargetConns == 1..MaxConns
Conns == {SelfConn} \cup TargetConns

VARIABLES
    (* the server object *)
    info_queue_,        \* records, each of a connection and its number there
    server_exit_flag_,
    client_exit_flag_,
    client_threads_,    \* the connections whose handlers the vector holds
    (* threads *)
    main,               \* program counter of the fuzzer's thread
    executor,           \* program counter of start_server()
    handler,            \* handler[c]: program counter of handle_client()
    visit,              \* the threads shutdown_client() has still to join
    accepted,           \* the connection that accept() returned
    (* the network and the targets *)
    listening,          \* whether the server's socket accepts connections
    backlog,            \* connections that wait for accept()
    opened,             \* connections some client has made
    open,               \* those whose client end is still open
    sent,               \* sent[c]: records written to c
    taken,              \* taken[c]: records read from c
    (* the rounds *)
    round,
    func_schedule_,     \* what analysis() got
    openedIn,           \* openedIn[c]: the round whose target made c
    leftover,           \* connections not registered when the round began
    late                \* whether a handler began in clear(), update() or shutdown()

objectVars == <<info_queue_, server_exit_flag_, client_exit_flag_, client_threads_>>
networkVars == <<listening, backlog, opened, open, sent>>
roundVars == <<round, func_schedule_>>
historyVars == <<openedIn, leftover, late>>
vars == <<objectVars, main, executor, handler, visit, accepted, networkVars,
          taken, roundVars, historyVars>>

Init ==
    /\ info_queue_ = <<>>
    /\ server_exit_flag_ = FALSE
    /\ client_exit_flag_ = FALSE
    /\ client_threads_ = <<>>
    /\ main = "launch"
    /\ executor = "off"
    /\ handler = [c \in Conns |-> "none"]
    /\ visit = <<>>
    /\ accepted = SelfConn
    /\ listening = FALSE
    /\ backlog = <<>>
    /\ opened = {}
    /\ open = {}
    /\ sent = [c \in Conns |-> 0]
    /\ taken = [c \in Conns |-> 0]
    /\ round = 0
    /\ func_schedule_ = <<>>
    /\ openedIn = [c \in Conns |-> 0]
    /\ leftover = {}
    /\ late = FALSE

\* The destructor of a vector, or its clear(), meets a thread to be joined.
HoldsJoinable(threads) == \E c \in Range(threads) : handler[c] # "joined"

Over == main \in {"terminated", "crashed", "destroyed"}

-----------------------------------------------------------------------------
(* The thread of the fuzzer *)

Launch ==
    /\ main = "launch"
    /\ executor' = "listen"
    /\ main' = "between"
    /\ UNCHANGED <<objectVars, handler, visit, accepted, networkVars, taken,
                   roundVars, historyVars>>

\* shutdown_client(), called by clear() or by shutdown(), up to its loop.
BeginJoin(pc) ==
    /\ main = "between"
    /\ client_exit_flag_' = TRUE
    /\ visit' = client_threads_
    /\ main' = pc
    /\ UNCHANGED <<info_queue_, server_exit_flag_, client_threads_, executor,
                   handler, accepted, networkVars, taken, roundVars,
                   historyVars>>

Clear == round < MaxRounds /\ BeginJoin("clear")
Shutdown == round > 0 /\ BeginJoin("shutdown")

Joining == main \in {"clear", "shutdown"}

\* Fault: the loop does not wait for the handlers.
SkipClient ==
    /\ Joining
    /\ visit # <<>>
    /\ visit' = Tail(visit)
    /\ UNCHANGED <<objectVars, main, executor, handler, accepted, networkVars,
                   taken, roundVars, historyVars>>

JoinClient ==
    /\ Joining
    /\ visit # <<>>
    /\ handler[Head(visit)] = "done"
    /\ handler' = [handler EXCEPT ![Head(visit)] = "joined"]
    /\ visit' = Tail(visit)
    /\ UNCHANGED <<objectVars, main, executor, accepted, networkVars, taken,
                   roundVars, historyVars>>

\* The end of shutdown_client(): both vectors are cleared, with no lock.
ForgetClients ==
    /\ Joining
    /\ visit = <<>>
    /\ main' = IF HoldsJoinable(client_threads_) THEN "terminated"
               ELSE IF main = "clear" THEN "reset" ELSE "stop"
    /\ client_threads_' = <<>>
    /\ UNCHANGED <<info_queue_, server_exit_flag_, client_exit_flag_, executor,
                   handler, visit, accepted, networkVars, taken, roundVars,
                   historyVars>>

\* update() before its lock
ResetFlags ==
    /\ main = "reset"
    /\ server_exit_flag_' = FALSE
    /\ client_exit_flag_' = FALSE
    /\ main' = "empty"
    /\ UNCHANGED <<info_queue_, client_threads_, executor, handler, visit,
                   accepted, networkVars, taken, roundVars, historyVars>>

\* The connections that wait to be accepted, and the one accept() has returned.
Unregistered ==
    Range(backlog) \cup (IF executor = "register" THEN {accepted} ELSE {})

\* Fault: update() keeps the records of the last round.
KeepInfo ==
    /\ main = "empty"
    /\ main' = IF HoldsJoinable(client_threads_) THEN "terminated" ELSE "target"
    /\ client_threads_' = <<>>
    /\ round' = round + 1
    /\ leftover' = Unregistered
    /\ UNCHANGED <<info_queue_, server_exit_flag_, client_exit_flag_, executor,
                   handler, visit, accepted, networkVars, taken,
                   func_schedule_, openedIn, late>>

\* update() under its lock; then the fuzzer starts the target.
EmptyInfo ==
    /\ main = "empty"
    /\ info_queue_' = <<>>
    /\ main' = IF HoldsJoinable(client_threads_) THEN "terminated" ELSE "target"
    /\ client_threads_' = <<>>
    /\ round' = round + 1
    /\ leftover' = Unregistered
    /\ UNCHANGED <<server_exit_flag_, client_exit_flag_, executor, handler,
                   visit, accepted, networkVars, taken, func_schedule_,
                   openedIn, late>>

\* analysis() copies info_queue_ with no lock.
Analysis ==
    /\ main = "analysis"
    /\ func_schedule_' = info_queue_
    /\ \/ main' = "between"
       \/ /\ RaceCrashes
          /\ \E c \in Conns : handler[c] = "push"
          /\ main' = "crashed"
    /\ UNCHANGED <<objectVars, executor, handler, visit, accepted, networkVars,
                   taken, round, historyVars>>

\* Fault: nobody wakes the executor up.
StopQuietly ==
    /\ main = "stop"
    /\ server_exit_flag_' = TRUE
    /\ main' = "joinExecutor"
    /\ UNCHANGED <<info_queue_, client_exit_flag_, client_threads_, executor,
                   handler, visit, accepted, networkVars, taken, roundVars,
                   historyVars>>

\* shutdown_server() sets the flag and then calls initialize_client().
StopServer ==
    /\ main = "stop"
    /\ server_exit_flag_' = TRUE
    /\ main' = "wake"
    /\ UNCHANGED <<info_queue_, client_exit_flag_, client_threads_, executor,
                   handler, visit, accepted, networkVars, taken, roundVars,
                   historyVars>>

WakeExecutor ==
    /\ main = "wake"
    /\ main' = "joinExecutor"
    /\ IF listening
       THEN /\ backlog' = Append(backlog, SelfConn)
            /\ opened' = opened \cup {SelfConn}
            /\ open' = open \cup {SelfConn}
       ELSE UNCHANGED <<backlog, opened, open>>
    /\ UNCHANGED <<objectVars, executor, handler, visit, accepted, listening,
                   sent, taken, roundVars, historyVars>>

JoinExecutor ==
    /\ main = "joinExecutor"
    /\ executor = "done"
    /\ main' = "stopped"
    /\ UNCHANGED <<objectVars, executor, handler, visit, accepted, networkVars,
                   taken, roundVars, historyVars>>

\* ~SocketServer(): server_fd is -1 now, so the members are just destroyed.
Destroy ==
    /\ main = "stopped"
    /\ main' = IF HoldsJoinable(client_threads_) THEN "terminated" ELSE "destroyed"
    /\ UNCHANGED <<objectVars, executor, handler, visit, accepted, networkVars,
                   taken, roundVars, historyVars>>

-----------------------------------------------------------------------------
(* start_server() *)

Listen ==
    /\ executor = "listen"
    /\ listening' = TRUE
    /\ executor' = "loop"
    /\ UNCHANGED <<objectVars, main, handler, visit, accepted, backlog, opened,
                   open, sent, taken, roundVars, historyVars>>

\* while (!server_exit_flag_), and close(server_fd) after it
TestServerExit ==
    /\ executor = "loop"
    /\ executor' = IF server_exit_flag_ THEN "done" ELSE "accept"
    /\ listening' = ~server_exit_flag_
    /\ UNCHANGED <<objectVars, main, handler, visit, accepted, backlog, opened,
                   open, sent, taken, roundVars, historyVars>>

Accept ==
    /\ executor = "accept"
    /\ backlog # <<>>
    /\ accepted' = Head(backlog)
    /\ backlog' = Tail(backlog)
    /\ executor' = "register"
    /\ UNCHANGED <<objectVars, main, handler, visit, listening, opened, open,
                   sent, taken, roundVars, historyVars>>

\* A thread for the connection, under the lock.
Register ==
    /\ executor = "register"
    /\ client_threads_' = Append(client_threads_, accepted)
    /\ handler' = [handler EXCEPT ![accepted] = "test"]
    /\ late' = (late \/ main \notin {"between", "target", "analysis"})
    /\ executor' = "loop"
    /\ \/ UNCHANGED main
       \/ RaceCrashes /\ Joining /\ main' = "crashed"
    /\ UNCHANGED <<info_queue_, server_exit_flag_, client_exit_flag_, visit,
                   accepted, networkVars, taken, roundVars, openedIn, leftover>>

-----------------------------------------------------------------------------
(* handle_client() *)

HandlerGoesOn(c, from, to) ==
    /\ handler[c] = from
    /\ handler' = [handler EXCEPT ![c] = to]
    /\ UNCHANGED <<server_exit_flag_, client_exit_flag_, client_threads_, main,
                   executor, visit, accepted, networkVars, roundVars,
                   historyVars>>

TestClientExit(c) ==
    /\ HandlerGoesOn(c, "test", IF client_exit_flag_ THEN "close" ELSE "read")
    /\ UNCHANGED <<info_queue_, taken>>

ReadRecord(c) ==
    /\ taken[c] < sent[c]
    /\ HandlerGoesOn(c, "read", "push")
    /\ taken' = [taken EXCEPT ![c] = @ + 1]
    /\ UNCHANGED info_queue_

\* read() blocks while the client end is open, and returns 0 after that.
AtEnd(c) == taken[c] = sent[c] /\ c \notin open

\* Fault: 0 bytes are taken for a record, the one still in the buffer.
ReadEndAsRecord(c) ==
    /\ AtEnd(c)
    /\ HandlerGoesOn(c, "read", IF taken[c] > 0 THEN "push" ELSE "close")
    /\ UNCHANGED <<info_queue_, taken>>

\* Fault: the handler reads on when there is nothing left.
ReadOn(c) ==
    /\ AtEnd(c)
    /\ HandlerGoesOn(c, "read", "read")
    /\ UNCHANGED <<info_queue_, taken>>

ReadEnd(c) ==
    /\ AtEnd(c)
    /\ HandlerGoesOn(c, "read", "close")
    /\ UNCHANGED <<info_queue_, taken>>

PushInfo(c) ==
    /\ HandlerGoesOn(c, "push", "test")
    /\ info_queue_' = Append(info_queue_, [conn |-> c, number |-> taken[c]])
    /\ UNCHANGED taken

CloseClient(c) ==
    /\ HandlerGoesOn(c, "close", "done")
    /\ UNCHANGED <<info_queue_, taken>>

-----------------------------------------------------------------------------
(* The target: a process per round, its connections one after the other *)

TargetConnects(c) ==
    /\ main = "target"
    /\ listening
    /\ c \notin opened
    /\ \A d \in TargetConns : d < c => d \in opened
    /\ backlog' = Append(backlog, c)
    /\ opened' = opened \cup {c}
    /\ open' = open \cup {c}
    /\ openedIn' = [openedIn EXCEPT ![c] = round]
    /\ UNCHANGED <<objectVars, main, executor, handler, visit, accepted,
                   listening, sent, taken, roundVars, leftover, late>>

TargetSends(c) ==
    /\ c \in open
    /\ sent[c] < MaxRecords
    /\ sent' = [sent EXCEPT ![c] = @ + 1]
    /\ UNCHANGED <<objectVars, main, executor, handler, visit, accepted,
                   listening, backlog, opened, open, taken, roundVars,
                   historyVars>>

\* The target exits or is killed, and waitpid() returns.
TargetExits ==
    /\ main = "target"
    /\ open' = {}
    /\ main' = "analysis"
    /\ UNCHANGED <<objectVars, executor, handler, visit, accepted, listening,
                   backlog, opened, sent, taken, roundVars, historyVars>>

-----------------------------------------------------------------------------
MainStep ==
    \/ Launch \/ JoinClient \/ ForgetClients \/ ResetFlags \/ EmptyInfo
    \/ Analysis \/ StopServer \/ WakeExecutor \/ JoinExecutor \/ Destroy
    \/ TargetExits

ExecutorStep == Listen \/ TestServerExit \/ Accept \/ Register

HandlerStep(c) ==
    \/ TestClientExit(c) \/ ReadRecord(c) \/ ReadEnd(c)
    \/ PushInfo(c) \/ CloseClient(c)

Next ==
    /\ ~Over
    /\ \/ MainStep
       \/ Clear
       \/ Shutdown
       \/ ExecutorStep
       \/ \E c \in Conns : HandlerStep(c)
       \/ \E c \in TargetConns : TargetConnects(c) \/ TargetSends(c)

Spec == Init /\ [][Next]_vars

\* The threads run, and every target ends.
FairSpec ==
    /\ Spec
    /\ WF_vars(~Over /\ MainStep)
    /\ WF_vars(~Over /\ ExecutorStep)
    /\ \A c \in Conns : WF_vars(~Over /\ HandlerStep(c))

-----------------------------------------------------------------------------
(* Properties *)

InfoTypeOK ==
    /\ info_queue_ \in Seq([conn : Conns, number : 1..MaxRecords])
    /\ func_schedule_ \in Seq([conn : Conns, number : 1..MaxRecords])

FlagTypeOK ==
    /\ server_exit_flag_ \in BOOLEAN
    /\ client_exit_flag_ \in BOOLEAN
    /\ listening \in BOOLEAN
    /\ late \in BOOLEAN

ThreadTypeOK ==
    /\ main \in {"launch", "between", "clear", "shutdown", "reset", "empty",
                 "target", "analysis", "stop", "wake", "joinExecutor",
                 "stopped", "destroyed", "terminated", "crashed"}
    /\ executor \in {"off", "listen", "loop", "accept", "register", "done"}
    /\ handler \in [Conns -> {"none", "test", "read", "push", "close", "done",
                              "joined"}]
    /\ client_threads_ \in Seq(Conns)
    /\ visit \in Seq(Conns)
    /\ accepted \in Conns

NetworkTypeOK ==
    /\ backlog \in Seq(Conns)
    /\ opened \subseteq Conns
    /\ open \subseteq opened
    /\ sent \in [Conns -> 0..MaxRecords]
    /\ taken \in [Conns -> 0..MaxRecords]
    /\ \A c \in Conns : taken[c] <= sent[c]
    /\ round \in 0..MaxRounds
    /\ openedIn \in [Conns -> 0..MaxRounds]
    /\ leftover \subseteq Conns

\* Every variable has its type, and nobody reads more than was sent.
TypeOK == InfoTypeOK /\ FlagTypeOK /\ ThreadTypeOK /\ NetworkTypeOK

\* The records of a connection stand in info_queue_ in the order in which they
\* were sent and none stands there twice (socket_server.cpp:83-92), although
\* each goes through a handler that tests a flag between two of them.
RecordsOnceInOrder ==
    \A i, j \in DOMAIN info_queue_ :
        i < j /\ info_queue_[i].conn = info_queue_[j].conn =>
            info_queue_[i].number < info_queue_[j].number

OfThisRound(c) == openedIn[c] = round \/ c \in leftover

\* While a target runs and when analysis() reads, every record in info_queue_
\* came over a connection that the target of this very round made, or over one
\* that clear() and update() could not know: it was not registered when the
\* round began.  clear() joins every handler in the vector
\* (socket_server.cpp:18-22) and update() empties the queue after that
\* (socket_server.hpp:35), but neither looks at the backlog: what an earlier
\* target wrote to a connection left there is read into a later round.  By no
\* other way do old call stacks get into the coverage of a new round, and no
\* handler of another connection lives on to bring them.
FreshRecords ==
    main \in {"target", "analysis"} =>
        /\ \A r \in Range(info_queue_) : OfThisRound(r.conn)
        /\ \A c \in Conns :
             handler[c] \in {"test", "read", "push"} => OfThisRound(c)

\* std::terminate() needs a connection that is accepted when main is in clear(),
\* update() or shutdown(): one that a target left in the backlog, or the one
\* shutdown_server() makes (socket_server.cpp:6, 71-73).
TerminateNeedsLateAccept == main = "terminated" => late

\* clear() returns (socket_server.cpp:18-27): the client ends are closed when
\* the target has gone, so that no handler can block in read() for ever.
ClearReturns == main = "clear" ~> (main = "target" \/ Over)

\* shutdown() does not wait for ever (socket_server.cpp:3-13): the connection it
\* makes gets the executor out of accept().  It comes to an end, which is not to
\* say a good one: Over includes a process ended by std::terminate() or a crash.
ShutdownReturns == main = "shutdown" ~> Over

\* The fuzzer ends with its `return 0' (fuzzer_simulation.cpp:98).  It does
\* not: the handler of the connection shutdown_server() makes is never joined.
NeverTerminated == main # "terminated"
=============================================================================
