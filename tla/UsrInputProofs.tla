--------------------------- MODULE UsrInputProofs ---------------------------
(***************************************************************************)
(* Theorems about UsrInput: the type of its variables, that no command is  *)
(* forgotten, and where shutdown() of one thread can hurt the other.  All  *)
(* of them follow from one invariant about the places of the two threads;  *)
(* that the outputs are whole needs a second one, about their results.     *)
(***************************************************************************)
EXTENDS UsrInput, TLAPS

-----------------------------------------------------------------------------
(* The invariant                                                           *)

MainPlaces == {"idle", "lock", "signal", "reset", "unlock", "join",
               "destructor", "gone"}

\* Where the worker has an entry of the queue in its hands.
EntryPlaces == {"lock", "signal", "reset", "unlock", "check", "popen",
                "started", "poll", "recheck", "output"}

WorkerPlaces == EntryPlaces \cup {"off", "start", "loop", "ended"}

\* Each thread is somewhere in its own code.
PlacesInv == pc["main"] \in MainPlaces /\ pc["worker"] \in WorkerPlaces

\* Who has shutdown_lock_ is where it is needed, and nobody else is.
LockInv == \A t \in {"main", "worker"} :
    shutdown_lock_ = t <=> pc[t] \in {"signal", "reset", "unlock"}

\* The child was waited for, or cannot be.
Done(p) == p.child = "reaped" \/ p.pidLost

\* What is signalled, and then waited for, is a command.
SignalInv == \A t \in {"main", "worker"} :
    /\ pc[t] \in {"signal", "reset"} => sub_proc_ # 0
    /\ pc[t] = "reset" => Done(procs[sub_proc_])

\* Between its own shutdown_command_() and the next command the worker has
\* no command.
NoCommandInv ==
    /\ pc["worker"] \in {"unlock", "check", "popen"} => sub_proc_ = 0
    /\ pc["worker"] = "popen" => Len(procs) > 0

\* The entry in hand is one of the queue, and of a known kind.
EntryInv ==
    /\ pc["worker"] = "start" => command_queue_ \in Queues \cup {NotASequence}
    /\ pc["worker"] \in EntryPlaces \cup {"loop"} => command_queue_ \in Queues
    /\ pc["worker"] \in EntryPlaces =>
         index <= Len(command_queue_) /\ command_queue_[index] # "unknown"

\* What a request to exit has to do with the places of both.
ExitInv ==
    /\ pc["main"] \in {"lock", "signal", "reset", "unlock", "join"} =>
         usr_input_exit_flag_
    /\ pc["main"] = "idle" /\ usr_input_exit_flag_ =>
         pc["worker"] \in {"off", "start", "loop", "ended"}
    /\ pc["main"] \in {"destructor", "gone"} => pc["worker"] = "off"

\* The worker loses the command it polls only to a shutdown() that has
\* finished with it.
LostInv ==
    pc["worker"] \in {"started", "poll", "recheck", "output"} /\ sub_proc_ = 0
      => pc["main"] \in {"unlock", "join"}

\* A command that shutdown_command_() of shutdown() has not seen: the request
\* in command_exit_flag_ is going to be cleared, or is cleared.
LateInv ==
    pc["main"] \in {"unlock", "join"} /\ sub_proc_ # 0 =>
      ~command_exit_flag_ \/ pc["worker"] \in {"started", "signal", "reset"}

IInv ==
    /\ TypeOK /\ PlacesInv /\ LockInv /\ SignalInv /\ NoCommandInv
    /\ EntryInv /\ ExitInv /\ LostInv /\ LateInv
    /\ OnlyHeldCommandRuns /\ SurvivorStartedLate /\ NullNeedsShutdown

-----------------------------------------------------------------------------
(* The processes of the commands                                           *)

\* Whatever happens to the processes but a new one: none is lost, and what
\* was waited for stays waited for.
Steady ==
    /\ procs' \in Seq(Process)
    /\ Len(procs') = Len(procs)
    /\ \A c \in 1..Len(procs) : Done(procs[c]) => Done(procs'[c])

\* One record of a process is replaced by another.
LEMMA OneChanged ==
    ASSUME procs \in Seq(Process), NEW c \in 1..Len(procs),
           NEW q \in Process, procs' = [procs EXCEPT ![c] = q],
           Done(procs[c]) => Done(q)
    PROVE  Steady /\ procs'[c] = q
<1>1. procs' \in Seq(Process) /\ Len(procs') = Len(procs) /\ procs'[c] = q
  OBVIOUS
<1>2. ASSUME NEW d \in 1..Len(procs), Done(procs[d])
      PROVE  Done(procs'[d])
  <2>1. procs'[d] = IF d = c THEN q ELSE procs[d]
    OBVIOUS
  <2> QED
    BY <1>2, <2>1 DEF Done, Reaped
<1> QED
  BY <1>1, <1>2 DEF Steady

\* The child and its bash go on.
LEMMA ChildSteady ==
    ASSUME procs \in Seq(Process), NEW c \in 1..Len(procs),
           ChildStep(c) \/ BashEnds(c)
    PROVE  Steady
<1> DEFINE p == procs[c]
<1>1. p \in Process
  OBVIOUS
<1>2. ASSUME NEW from \in Children \ {"reaped"}, NEW to \in Children,
             ChildMoves(c, from, to)
      PROVE  Steady
  <2> DEFINE q == [p EXCEPT !.child = to]
  <2>1. q \in Process /\ procs' = [procs EXCEPT ![c] = q] /\ q.pidLost = p.pidLost
    BY <1>1, <1>2 DEF ChildMoves, Process
  <2>2. Done(procs[c]) => q.pidLost
    BY <1>2, <2>1 DEF ChildMoves, Done
  <2> HIDE DEF q
  <2> QED
    BY <2>1, <2>2, OneChanged DEF Done
<1>3. CASE ForkBash(c)
  <2> DEFINE q == [p EXCEPT !.child = "reading", !.bash = "running"]
  <2>1. q \in Process /\ procs' = [procs EXCEPT ![c] = q] /\ q.pidLost = p.pidLost
    BY <1>1, <1>3 DEF ForkBash, Process, Children
  <2>2. Done(procs[c]) => q.pidLost
    BY <1>3, <2>1 DEF ForkBash, Done
  <2> HIDE DEF q
  <2> QED
    BY <2>1, <2>2, OneChanged DEF Done
<1>4. CASE BashEnds(c)
  <2> DEFINE q == [p EXCEPT !.bash = "ended"]
  <2>1. /\ q \in Process /\ procs' = [procs EXCEPT ![c] = q]
        /\ q.child = p.child /\ q.pidLost = p.pidLost
    BY <1>1, <1>4 DEF BashEnds, Process
  <2> HIDE DEF q
  <2> QED
    BY <2>1, OneChanged DEF Done
<1>5. CASE BeginCopy(c)
  <2> DEFINE q == [p EXCEPT !.child = "copying", !.result_ = "part"]
  <2>1. q \in Process /\ procs' = [procs EXCEPT ![c] = q] /\ q.pidLost = p.pidLost
    BY <1>1, <1>5 DEF BeginCopy, Process, Children, Texts
  <2>2. Done(procs[c]) => q.pidLost
    BY <1>5, <2>1 DEF BeginCopy, Done
  <2> HIDE DEF q
  <2> QED
    BY <2>1, <2>2, OneChanged DEF Done
<1>6. CASE EndCopy(c)
  <2>1. PICK text \in {"whole", "cut"} :
          /\ p.child = "copying"
          /\ procs' = [procs EXCEPT ![c].child = "copied", ![c].result_ = text]
    BY <1>6 DEF EndCopy
  <2> DEFINE q == [p EXCEPT !.child = "copied", !.result_ = text]
  <2>2. q \in Process /\ procs' = [procs EXCEPT ![c] = q] /\ q.pidLost = p.pidLost
    BY <1>1, <2>1 DEF Process, Children, Texts, Copies
  <2>3. Done(procs[c]) => q.pidLost
    BY <2>1, <2>2 DEF Done
  <2> HIDE DEF q
  <2> QED
    BY <2>2, <2>3, OneChanged DEF Done
<1>7. CASE Overrun(c)
  <2>1. PICK child \in {"copied", "zombie"}, lost \in {p.pidLost, TRUE} :
          /\ p.child = "copying"
          /\ procs' = [procs EXCEPT ![c].child = child, ![c].result_ = "full",
                                    ![c].pidLost = lost]
    BY <1>7 DEF Overrun
  <2> DEFINE q == [p EXCEPT !.child = child, !.result_ = "full",
                            !.pidLost = lost]
  <2>2. lost \in BOOLEAN
    BY <1>1, <2>1 DEF Process
  <2>3. q \in Process /\ procs' = [procs EXCEPT ![c] = q] /\ q.pidLost = lost
    BY <1>1, <2>1, <2>2 DEF Process, Children, Texts, Copies
  <2>4. Done(procs[c]) => q.pidLost
    BY <2>1, <2>3 DEF Done
  <2> HIDE DEF q
  <2> QED
    BY <2>3, <2>4, OneChanged DEF Done
<1>8. CASE TellPid(c) \/ ChildExits(c)
  BY <1>2, <1>8 DEF TellPid, ChildExits, Children
<1> QED
  BY <1>3, <1>4, <1>5, <1>6, <1>7, <1>8 DEF ChildStep

\* waitpid(): a child that has ended is gone for good, if its id is known.
LEMMA WaitedSteady ==
    ASSUME procs \in Seq(Process), NEW c \in 1..Len(procs), procs' = Waited(c)
    PROVE  Steady /\ (~Alive(c) => Done(procs'[c]))
<1> DEFINE p == procs[c]
           q == [p EXCEPT !.child = IF @ = "zombie" /\ ~p.pidLost
                                    THEN "reaped" ELSE @]
<1>1. p \in Process
  OBVIOUS
<1>2. q \in Process /\ procs' = [procs EXCEPT ![c] = q]
  BY <1>1 DEF Waited, Process, Children
<1>3. /\ q.child = IF p.child = "zombie" /\ ~p.pidLost THEN "reaped" ELSE p.child
      /\ q.pidLost = p.pidLost
  BY <1>1 DEF Process
<1> HIDE DEF q
<1>4. Steady /\ procs'[c] = q
  BY <1>2, <1>3, OneChanged DEF Done
<1> QED
  BY <1>1, <1>3, <1>4 DEF Alive, Done, Process, Children

\* ... and when the object is gone, so is its memory.
LEMMA ReleasedSteady ==
    ASSUME procs \in Seq(Process), NEW c \in 1..Len(procs), procs' = Released(c)
    PROVE  Steady /\ (~Alive(c) => Done(procs'[c]))
<1> DEFINE p == procs[c]
           q == [p EXCEPT !.child = IF @ = "zombie" /\ ~p.pidLost
                                    THEN "reaped" ELSE @,
                          !.result_ = ""]
<1>1. p \in Process
  OBVIOUS
<1>2. q \in Process /\ procs' = [procs EXCEPT ![c] = q]
  <2>1. q \in Process
    BY <1>1 DEF Process, Children, Texts
  <2>2. procs' = [procs EXCEPT ![c] = q]
    BY <1>1 DEF Released, Waited, Process
  <2> QED
    BY <2>1, <2>2
<1>3. /\ q.child = IF p.child = "zombie" /\ ~p.pidLost THEN "reaped" ELSE p.child
      /\ q.pidLost = p.pidLost
  BY <1>1 DEF Process
<1> HIDE DEF q
<1>4. Steady /\ procs'[c] = q
  BY <1>2, <1>3, OneChanged DEF Done
<1> QED
  BY <1>1, <1>3, <1>4 DEF Alive, Done, Process, Children

\* Signals, or the wait that ends them.
LEMMA ShutdownSteady ==
    ASSUME procs \in Seq(Process), NEW c \in 1..Len(procs), Shutdown(c)
    PROVE  Steady /\ (~Alive(c) => Done(procs'[c]))
<1>1. CASE Alive(c)
  <2>1. PICK survives \in BOOLEAN : procs' = Signalled(c, survives)
    BY <1>1 DEF Shutdown
  <2> DEFINE p == procs[c]
             q == [p EXCEPT !.child = "zombie",
                            !.bash = IF @ = "running" /\ ~survives
                                     THEN "ended" ELSE @]
  <2>2. p \in Process
    OBVIOUS
  <2>3. q \in Process /\ procs' = [procs EXCEPT ![c] = q]
    BY <2>1, <2>2 DEF Signalled, Process, Children
  <2>4. ~Done(procs[c])
    BY <1>1 DEF Alive, Done
  <2> HIDE DEF q
  <2> QED
    BY <1>1, <2>3, <2>4, OneChanged
<1>2. CASE ~Alive(c)
  BY <1>2, WaitedSteady DEF Shutdown
<1> QED
  BY <1>1, <1>2

\* A new child stands behind the others.
LEMMA NewProcess ==
    ASSUME procs \in Seq(Process), NEW command \in Commands, NewPopen(command)
    PROVE  /\ procs' \in Seq(Process)
           /\ Len(procs') = Len(procs) + 1
           /\ \A c \in 1..Len(procs) : Done(procs[c]) => Done(procs'[c])
<1> DEFINE q == [command |-> command, child |-> "forked", bash |-> "none",
                 result_ |-> "", pidLost |-> FALSE]
<1>1. q \in Process
  BY DEF Process, Children, Texts
<1>2. procs' = Append(procs, q)
  BY DEF NewPopen
<1> HIDE DEF q
<1>3. procs' \in Seq(Process) /\ Len(procs') = Len(procs) + 1
  BY <1>1, <1>2
<1>4. \A c \in 1..Len(procs) : procs'[c] = procs[c]
  BY <1>2
<1> QED
  BY <1>3, <1>4 DEF Done, Reaped

-----------------------------------------------------------------------------
(* The steps of the fuzzer's thread                                        *)

\* A thread goes to another place, and the other stays where it is.
LEMMA Goes ==
    ASSUME pc \in [{"main", "worker"} -> Places], NEW place \in Places,
           NEW t \in {"main", "worker"}, Go(t, place)
    PROVE  /\ pc' \in [{"main", "worker"} -> Places]
           /\ t = "main" => pc'["main"] = place /\ pc'["worker"] = pc["worker"]
           /\ t = "worker" => pc'["worker"] = place /\ pc'["main"] = pc["main"]
BY DEF Go

\* Nothing happens to the processes.
LEMMA NothingSteady ==
    ASSUME procs \in Seq(Process), UNCHANGED procs
    PROVE  Steady
BY DEF Steady, Done, Reaped

\* What the fuzzer's thread does but for the part it has in common.
LEMMA MainInv ==
    ASSUME IInv, MainCalls \/ JoinThread \/ DestroyCommand
    PROVE  IInv'
<1> USE DEF IInv, At, queueVars, flagVars
<1>0. /\ pc \in [{"main", "worker"} -> Places] /\ procs \in Seq(Process)
      /\ sub_proc_ \in 0..Len(procs)
      /\ {"idle", "lock", "join", "destructor", "gone", "start", "off"}
           \subseteq Places
  BY DEF TypeOK, Places
<1>1. CASE Launch
  <2>1. pc["main"] = "idle" /\ pc["worker"] = "off" /\ launches' = launches + 1
        /\ UNCHANGED <<procs, flagVars, sub_proc_, shutdown_lock_, updating,
                       result, crashed>>
    BY <1>1 DEF Launch
  <2>2. \/ UNCHANGED <<command_queue_, index, pc>>
        \/ /\ command_queue_' \in Queues \cup {NotASequence}
           /\ index' = 1
           /\ pc' \in [{"main", "worker"} -> Places]
           /\ pc'["main"] = "idle" /\ pc'["worker"] = "start"
    BY <1>0, <1>1, <2>1, Goes DEF Launch
  <2>3. TypeOK'
    <3>1. launches' \in Nat
      BY <2>1 DEF TypeOK
    <3>2. command_queue_' \in Queues \cup {<<>>, NotASequence}
      BY <2>2 DEF TypeOK
    <3>3. index' \in Nat \ {0}
      BY <2>2 DEF TypeOK
    <3>4. pc' \in [{"main", "worker"} -> Places]
      BY <1>0, <2>2
    <3>5. finished_' \in BOOLEAN
      BY <1>1 DEF Launch
    <3> QED
      BY <2>1, <3>1, <3>2, <3>3, <3>4, <3>5 DEF TypeOK
  <2> QED
    BY <2>1, <2>2, <2>3
    DEF PlacesInv, MainPlaces, WorkerPlaces, EntryPlaces, LockInv, SignalInv,
        NoCommandInv, EntryInv, ExitInv, LostInv, LateInv, OnlyHeldCommandRuns,
        SurvivorStartedLate, NullNeedsShutdown, Done, Reaped
<1>2. CASE Join
  <2>1. /\ pc["main"] = "idle" /\ pc["worker"] = "ended"
        /\ pc' \in [{"main", "worker"} -> Places]
        /\ pc'["main"] = "idle" /\ pc'["worker"] = "off"
        /\ UNCHANGED <<procs, queueVars, flagVars, sub_proc_, shutdown_lock_,
                       updating, result, crashed>>
    BY <1>0, <1>2, Goes DEF Join
  <2>2. TypeOK'
    BY <2>1 DEF TypeOK
  <2> QED
    BY <2>1, <2>2
    DEF PlacesInv, MainPlaces, WorkerPlaces, EntryPlaces, LockInv, SignalInv,
        NoCommandInv, EntryInv, ExitInv, LostInv, LateInv, OnlyHeldCommandRuns,
        SurvivorStartedLate, NullNeedsShutdown, Done, Reaped
<1>3. CASE RequestExit
  <2>1. /\ pc["main"] = "idle" /\ usr_input_exit_flag_' = TRUE
        /\ updating' \in BOOLEAN
        /\ pc' \in [{"main", "worker"} -> Places]
        /\ pc'["main"] = "lock" /\ pc'["worker"] = pc["worker"]
        /\ UNCHANGED <<procs, queueVars, command_exit_flag_, sub_proc_,
                       shutdown_lock_, result, crashed>>
    BY <1>0, <1>3, Goes DEF RequestExit
  <2>2. TypeOK'
    BY <2>1 DEF TypeOK
  <2> QED
    BY <2>1, <2>2
    DEF PlacesInv, MainPlaces, WorkerPlaces, EntryPlaces, LockInv, SignalInv,
        NoCommandInv, EntryInv, ExitInv, LostInv, LateInv, OnlyHeldCommandRuns,
        SurvivorStartedLate, NullNeedsShutdown, Done, Reaped
<1>4. CASE Destroy
  <2>1. /\ pc["main"] = "idle" /\ pc["worker"] = "off"
        /\ pc' \in [{"main", "worker"} -> Places]
        /\ pc'["main"] = "destructor" /\ pc'["worker"] = "off"
        /\ UNCHANGED <<procs, queueVars, flagVars, sub_proc_, shutdown_lock_,
                       updating, result, crashed>>
    BY <1>0, <1>4, Goes DEF Destroy
  <2>2. TypeOK'
    BY <2>1 DEF TypeOK
  <2> QED
    BY <2>1, <2>2
    DEF PlacesInv, MainPlaces, WorkerPlaces, EntryPlaces, LockInv, SignalInv,
        NoCommandInv, EntryInv, ExitInv, LostInv, LateInv, OnlyHeldCommandRuns,
        SurvivorStartedLate, NullNeedsShutdown, Done, Reaped
<1>5. CASE JoinThread
  <2>1. /\ crashed = "no" /\ pc["main"] = "join"
        /\ pc["worker"] \in {"off", "ended"}
        /\ pc' \in [{"main", "worker"} -> Places]
        /\ pc'["main"] = "idle" /\ pc'["worker"] = "off"
        /\ usr_input_exit_flag_' \in BOOLEAN /\ finished_' \in BOOLEAN
        /\ UNCHANGED <<procs, command_queue_, index, launches,
                       command_exit_flag_, sub_proc_, shutdown_lock_, updating,
                       result, crashed>>
    BY <1>0, <1>5 DEF JoinThread, TypeOK
  <2>2. TypeOK'
    BY <2>1 DEF TypeOK
  <2>3. SurvivorStartedLate'
    BY <2>1 DEF SurvivorStartedLate, LateInv
  <2> QED
    BY <2>1, <2>2, <2>3
    DEF PlacesInv, MainPlaces, WorkerPlaces, EntryPlaces, LockInv, SignalInv,
        NoCommandInv, EntryInv, ExitInv, LostInv, LateInv, OnlyHeldCommandRuns,
        NullNeedsShutdown, Done, Reaped
<1>6. CASE DestroyCommand
  <2>1. /\ pc["main"] = "destructor" /\ pc["worker"] = "off"
        /\ UNCHANGED <<queueVars, flagVars, shutdown_lock_, updating, result,
                       crashed>>
    BY <1>6 DEF DestroyCommand, ExitInv
  <2>2. CASE sub_proc_ = 0
    <3>1. /\ pc' \in [{"main", "worker"} -> Places]
          /\ pc'["main"] = "gone" /\ pc'["worker"] = "off"
          /\ UNCHANGED <<procs, sub_proc_>>
      BY <1>0, <1>6, <2>1, <2>2, Goes DEF DestroyCommand
    <3>2. TypeOK'
      BY <2>1, <3>1 DEF TypeOK
    <3> QED
      BY <2>1, <3>1, <3>2
      DEF PlacesInv, MainPlaces, WorkerPlaces, EntryPlaces, LockInv, SignalInv,
          NoCommandInv, EntryInv, ExitInv, LostInv, LateInv,
          OnlyHeldCommandRuns, SurvivorStartedLate, NullNeedsShutdown, Done,
          Reaped
  <2>3. CASE sub_proc_ # 0
    <3>1. /\ UNCHANGED pc
          /\ sub_proc_' = IF Alive(sub_proc_) THEN sub_proc_ ELSE 0
          /\ Shutdown(sub_proc_) \/ procs' = Released(sub_proc_)
      BY <1>6, <2>3 DEF DestroyCommand
    <3>2. Steady /\ (~Alive(sub_proc_) => Done(procs'[sub_proc_]))
      BY <1>0, <2>3, <3>1, ShutdownSteady, ReleasedSteady
    <3>3. TypeOK'
      BY <2>1, <2>3, <3>1, <3>2 DEF TypeOK, Steady
    <3>4. OnlyHeldCommandRuns'
      BY <2>1, <2>3, <3>1, <3>2 DEF OnlyHeldCommandRuns, Done, Reaped, Steady
    <3> QED
      BY <2>1, <3>1, <3>3, <3>4
      DEF PlacesInv, MainPlaces, WorkerPlaces, EntryPlaces, LockInv, SignalInv,
          NoCommandInv, EntryInv, ExitInv, LostInv, LateInv,
          SurvivorStartedLate, NullNeedsShutdown
  <2> QED
    BY <2>2, <2>3
<1> QED
  BY <1>1, <1>2, <1>3, <1>4, <1>5, <1>6 DEF MainCalls

-----------------------------------------------------------------------------
(* shutdown_command_(), which both threads call                            *)

\* Whoever calls it: the lock keeps the other one out, the place of the other
\* one is as it was.
LEMMA ShutdownCommandInv ==
    ASSUME IInv, NEW t \in {"main", "worker"}, ShutdownCommand(t)
    PROVE  IInv'
<1> USE DEF IInv, At, queueVars, flagVars
<1>0. /\ pc \in [{"main", "worker"} -> Places] /\ procs \in Seq(Process)
      /\ sub_proc_ \in 0..Len(procs)
      /\ {"signal", "reset", "unlock", "join", "check"} \subseteq Places
  BY DEF TypeOK, Places
<1>1. CASE Lock(t)
  <2> DEFINE place == IF sub_proc_ = 0 THEN "unlock" ELSE "signal"
  <2>1. /\ pc[t] = "lock" /\ shutdown_lock_ = "free" /\ shutdown_lock_' = t
        /\ command_exit_flag_' = TRUE
        /\ UNCHANGED <<procs, queueVars, usr_input_exit_flag_, sub_proc_,
                       updating, result, crashed>>
    BY <1>1 DEF Lock
  <2>2. /\ pc' \in [{"main", "worker"} -> Places]
        /\ t = "main" => pc'["main"] = place /\ pc'["worker"] = pc["worker"]
        /\ t = "worker" => pc'["worker"] = place /\ pc'["main"] = pc["main"]
    BY <1>0, <1>1, Goes DEF Lock
  <2>3. TypeOK'
    BY <2>1, <2>2 DEF TypeOK
  <2>4. CASE t = "main"
    BY <2>1, <2>2, <2>3, <2>4
    DEF PlacesInv, MainPlaces, WorkerPlaces, EntryPlaces, LockInv, SignalInv,
        NoCommandInv, EntryInv, ExitInv, LostInv, LateInv, OnlyHeldCommandRuns,
        SurvivorStartedLate, NullNeedsShutdown, Done, Reaped
  <2>5. CASE t = "worker"
    BY <2>1, <2>2, <2>3, <2>5
    DEF PlacesInv, MainPlaces, WorkerPlaces, EntryPlaces, LockInv, SignalInv,
        NoCommandInv, EntryInv, ExitInv, LostInv, LateInv, OnlyHeldCommandRuns,
        SurvivorStartedLate, NullNeedsShutdown, Done, Reaped
  <2> QED
    BY <2>4, <2>5
<1>2. CASE Signal(t)
  <2> DEFINE place == IF Alive(sub_proc_) THEN "signal" ELSE "reset"
  <2>1. /\ pc[t] = "signal" /\ Shutdown(sub_proc_) /\ sub_proc_ # 0
        /\ UNCHANGED <<queueVars, flagVars, sub_proc_, shutdown_lock_, updating,
                       result, crashed>>
    BY <1>2 DEF Signal, SignalInv
  <2>2. /\ pc' \in [{"main", "worker"} -> Places]
        /\ t = "main" => pc'["main"] = place /\ pc'["worker"] = pc["worker"]
        /\ t = "worker" => pc'["worker"] = place /\ pc'["main"] = pc["main"]
    BY <1>0, <1>2, Goes DEF Signal
  <2>3. Steady /\ (~Alive(sub_proc_) => Done(procs'[sub_proc_]))
    BY <1>0, <2>1, ShutdownSteady
  <2> HIDE DEF place
  <2>4. TypeOK'
    BY <2>1, <2>2, <2>3 DEF TypeOK, Steady
  <2>5. OnlyHeldCommandRuns'
    BY <2>1, <2>2, <2>3 DEF OnlyHeldCommandRuns, Done, Reaped, Steady, place,
    NoCommandInv
  <2>6. SignalInv'
    BY <1>0, <2>1, <2>2, <2>3 DEF SignalInv, Done, Reaped, Steady, place, LockInv
  <2>7. NoCommandInv'
    BY <2>1, <2>2, <2>3 DEF NoCommandInv, Steady, place
  <2>8. CASE t = "main"
    BY <2>1, <2>2, <2>4, <2>5, <2>6, <2>7, <2>8
    DEF place, PlacesInv, MainPlaces, WorkerPlaces, EntryPlaces, LockInv,
        EntryInv, ExitInv, LostInv, LateInv, SurvivorStartedLate,
        NullNeedsShutdown
  <2>9. CASE t = "worker"
    BY <2>1, <2>2, <2>4, <2>5, <2>6, <2>7, <2>9
    DEF place, PlacesInv, MainPlaces, WorkerPlaces, EntryPlaces, LockInv,
        EntryInv, ExitInv, LostInv, LateInv, SurvivorStartedLate,
        NullNeedsShutdown
  <2> QED
    BY <2>8, <2>9
<1>3. CASE Reset(t)
  <2>1. /\ pc[t] = "reset" /\ procs' = Released(sub_proc_) /\ sub_proc_' = 0
        /\ ~Alive(sub_proc_) /\ sub_proc_ # 0
        /\ UNCHANGED <<queueVars, flagVars, shutdown_lock_, updating, result,
                       crashed>>
    BY <1>3 DEF Reset, SignalInv
  <2>2. /\ pc' \in [{"main", "worker"} -> Places]
        /\ t = "main" => pc'["main"] = "unlock" /\ pc'["worker"] = pc["worker"]
        /\ t = "worker" => pc'["worker"] = "unlock" /\ pc'["main"] = pc["main"]
    BY <1>0, <1>3, Goes DEF Reset
  <2>3. Steady /\ Done(procs'[sub_proc_])
    BY <1>0, <2>1, ReleasedSteady
  <2>4. TypeOK'
    BY <2>1, <2>2, <2>3 DEF TypeOK, Steady
  <2>5. OnlyHeldCommandRuns'
    BY <2>1, <2>2, <2>3 DEF OnlyHeldCommandRuns, Done, Reaped, Steady, NoCommandInv
  <2>6. SignalInv'
    BY <2>1, <2>2, <2>3 DEF SignalInv, LockInv
  <2>7. NoCommandInv'
    BY <2>1, <2>2, <2>3 DEF NoCommandInv, Steady
  <2>8. CASE t = "main"
    BY <2>1, <2>2, <2>4, <2>5, <2>6, <2>7, <2>8
    DEF PlacesInv, MainPlaces, WorkerPlaces, EntryPlaces, LockInv, EntryInv,
        ExitInv, LostInv, LateInv, SurvivorStartedLate, NullNeedsShutdown
  <2>9. CASE t = "worker"
    BY <2>1, <2>2, <2>4, <2>5, <2>6, <2>7, <2>9
    DEF PlacesInv, MainPlaces, WorkerPlaces, EntryPlaces, LockInv, EntryInv,
        ExitInv, LostInv, LateInv, SurvivorStartedLate, NullNeedsShutdown
  <2> QED
    BY <2>8, <2>9
<1>4. CASE Unlock(t)
  <2> DEFINE place == IF t = "main" THEN "join" ELSE "check"
  <2>1. /\ pc[t] = "unlock" /\ shutdown_lock_' = "free"
        /\ UNCHANGED <<procs, queueVars, flagVars, sub_proc_, updating, result,
                       crashed>>
    BY <1>4 DEF Unlock
  <2>2. /\ pc' \in [{"main", "worker"} -> Places]
        /\ t = "main" => pc'["main"] = "join" /\ pc'["worker"] = pc["worker"]
        /\ t = "worker" => pc'["worker"] = "check" /\ pc'["main"] = pc["main"]
    BY <1>0, <1>4, Goes DEF Unlock
  <2>3. TypeOK'
    BY <2>1, <2>2 DEF TypeOK
  <2>4. CASE t = "main"
    BY <2>1, <2>2, <2>3, <2>4
    DEF PlacesInv, MainPlaces, WorkerPlaces, EntryPlaces, LockInv, SignalInv,
        NoCommandInv, EntryInv, ExitInv, LostInv, LateInv, OnlyHeldCommandRuns,
        SurvivorStartedLate, NullNeedsShutdown, Done, Reaped
  <2>5. CASE t = "worker"
    BY <2>1, <2>2, <2>3, <2>5
    DEF PlacesInv, MainPlaces, WorkerPlaces, EntryPlaces, LockInv, SignalInv,
        NoCommandInv, EntryInv, ExitInv, LostInv, LateInv, OnlyHeldCommandRuns,
        SurvivorStartedLate, NullNeedsShutdown, Done, Reaped
  <2> QED
    BY <2>4, <2>5
<1> QED
  BY <1>1, <1>2, <1>3, <1>4 DEF ShutdownCommand

-----------------------------------------------------------------------------
(* The thread of the queue                                                 *)

\* Every known kind has its command.
LEMMA CommandOfKind ==
    ASSUME NEW kind \in Kinds, kind # "unknown"
    PROVE  CommandOf(kind) \in Commands
<1>1. PubFunction(kind) \in {"publishToROS2Topic", "publishROS2Action",
                             "publishROS2Service", "setROS2DynamicParam"}
  BY DEF PubFunction, Kinds
<1>2. \A f \in {"publishToROS2Topic", "publishROS2Action",
                "publishROS2Service", "setROS2DynamicParam"} :
        CommandLine[f] \in {"topic_pub", "action_send_goal", "service_call",
                            "param_set"}
  BY DEF CommandLine
<1> QED
  BY <1>1, <1>2, UsrInputAssumption DEF CommandOf

\* getCommandBack() returns, and the entry is done.
LEMMA ReturnInv ==
    ASSUME IInv, NEW output, output.text \in Texts \cup {"interrupted"},
           Return(output), UNCHANGED procs, crashed = "no",
           pc["worker"] \in {"check", "recheck", "output"}
    PROVE  IInv'
<1> USE DEF IInv, queueVars, flagVars
<1>1. /\ pc \in [{"main", "worker"} -> Places] /\ "loop" \in Places
      /\ index \in Nat \ {0}
  BY DEF TypeOK, Places
<1>2. /\ index' = index + 1 /\ result' = output
      /\ UNCHANGED <<command_queue_, finished_, launches, flagVars, sub_proc_,
                     shutdown_lock_, updating, crashed>>
      /\ pc' \in [{"main", "worker"} -> Places]
      /\ pc'["worker"] = "loop" /\ pc'["main"] = pc["main"]
  BY <1>1, Goes DEF Return
<1>3. TypeOK'
  BY <1>1, <1>2 DEF TypeOK
<1> QED
  BY <1>2, <1>3
  DEF PlacesInv, MainPlaces, WorkerPlaces, EntryPlaces, LockInv, SignalInv,
        NoCommandInv, EntryInv, ExitInv, LostInv, LateInv, OnlyHeldCommandRuns,
        SurvivorStartedLate, NullNeedsShutdown, Done, Reaped

\* What the thread does, the part it has in common included.
LEMMA WorkerInv ==
    ASSUME IInv, WorkerStep
    PROVE  IInv'
<1> USE DEF IInv, At, queueVars, flagVars
<1>0. /\ pc \in [{"main", "worker"} -> Places] /\ procs \in Seq(Process)
      /\ sub_proc_ \in 0..Len(procs)
      /\ {"loop", "ended", "lock", "popen", "started", "poll", "recheck",
          "output"} \subseteq Places
  BY DEF TypeOK, Places
<1>1. CASE DoQueue
  <2> DEFINE place == IF command_queue_ = NotASequence THEN "ended" ELSE "loop"
  <2>1. /\ pc["worker"] = "start"
        /\ UNCHANGED <<procs, queueVars, flagVars, sub_proc_, shutdown_lock_,
                       updating, result, crashed>>
        /\ pc' \in [{"main", "worker"} -> Places]
        /\ pc'["worker"] = place /\ pc'["main"] = pc["main"]
    BY <1>0, <1>1, Goes DEF DoQueue
  <2>2. TypeOK'
    BY <2>1 DEF TypeOK
  <2>3. EntryInv'
    BY <2>1 DEF EntryInv, EntryPlaces, TypeOK
  <2> QED
    BY <2>1, <2>2, <2>3
    DEF PlacesInv, MainPlaces, WorkerPlaces, LockInv, SignalInv, NoCommandInv,
        ExitInv, LostInv, LateInv, OnlyHeldCommandRuns, SurvivorStartedLate,
        NullNeedsShutdown, Done, Reaped
<1>2. CASE NextEntry
  <2>1. /\ pc["worker"] = "loop" /\ ~usr_input_exit_flag_
        /\ index <= Len(command_queue_) /\ command_queue_[index] # "unknown"
        /\ UNCHANGED <<procs, queueVars, flagVars, sub_proc_, shutdown_lock_,
                       updating, result, crashed>>
        /\ pc' \in [{"main", "worker"} -> Places]
        /\ pc'["worker"] = "lock" /\ pc'["main"] = pc["main"]
    BY <1>0, <1>2, Goes DEF NextEntry, EntriesLeft
  <2>2. TypeOK'
    BY <2>1 DEF TypeOK
  <2> QED
    BY <2>1, <2>2
    DEF PlacesInv, MainPlaces, WorkerPlaces, EntryPlaces, LockInv, SignalInv,
        NoCommandInv, EntryInv, ExitInv, LostInv, LateInv, OnlyHeldCommandRuns,
        SurvivorStartedLate, NullNeedsShutdown, Done, Reaped
<1>3. CASE UnknownType
  <2>1. /\ crashed = "no" /\ crashed' = "exception"
        /\ UNCHANGED <<procs, queueVars, flagVars, sub_proc_, shutdown_lock_, pc,
                       updating, result>>
    BY <1>3 DEF UnknownType, Crash
  <2>2. TypeOK'
    BY <2>1 DEF TypeOK
  <2> QED
    BY <2>1, <2>2
    DEF PlacesInv, MainPlaces, WorkerPlaces, EntryPlaces, LockInv, SignalInv,
        NoCommandInv, EntryInv, ExitInv, LostInv, LateInv, OnlyHeldCommandRuns,
        SurvivorStartedLate, NullNeedsShutdown, Done, Reaped
<1>4. CASE EndOfQueue
  <2>1. /\ pc["worker"] = "loop" /\ finished_' = TRUE
        /\ UNCHANGED <<procs, command_queue_, index, launches, flagVars,
                       sub_proc_, shutdown_lock_, updating, result, crashed>>
        /\ pc' \in [{"main", "worker"} -> Places]
        /\ pc'["worker"] = "ended" /\ pc'["main"] = pc["main"]
    BY <1>0, <1>4, Goes DEF EndOfQueue
  <2>2. TypeOK'
    BY <2>1 DEF TypeOK
  <2> QED
    BY <2>1, <2>2
    DEF PlacesInv, MainPlaces, WorkerPlaces, EntryPlaces, LockInv, SignalInv,
        NoCommandInv, EntryInv, ExitInv, LostInv, LateInv, OnlyHeldCommandRuns,
        SurvivorStartedLate, NullNeedsShutdown, Done, Reaped
<1>5. CASE CheckExit
  BY <1>5, ReturnInv DEF CheckExit, NoResult, Output, Texts
<1>6. CASE Popen
  <2>1. /\ pc["worker"] = "check" /\ ~usr_input_exit_flag_
        /\ NewPopen(CommandOf(command_queue_[index]))
        /\ UNCHANGED <<queueVars, flagVars, sub_proc_, shutdown_lock_, updating,
                       result, crashed>>
        /\ pc' \in [{"main", "worker"} -> Places]
        /\ pc'["worker"] = "popen" /\ pc'["main"] = pc["main"]
    BY <1>0, <1>6, Goes DEF Popen
  <2>2. CommandOf(command_queue_[index]) \in Commands
    <3>1. /\ command_queue_ \in Seq(Kinds) /\ index \in 1..Len(command_queue_)
          /\ command_queue_[index] # "unknown"
      BY <2>1, UsrInputAssumption DEF EntryInv, EntryPlaces, TypeOK
    <3> QED
      BY <3>1, CommandOfKind
  <2>3. /\ procs' \in Seq(Process) /\ Len(procs') = Len(procs) + 1
        /\ \A c \in 1..Len(procs) : Done(procs[c]) => Done(procs'[c])
    BY <1>0, <2>1, <2>2, NewProcess
  <2>4. sub_proc_ = 0 /\ sub_proc_' = 0
    BY <2>1 DEF NoCommandInv
  <2>5. TypeOK'
    BY <1>0, <2>1, <2>3 DEF TypeOK
  <2>6. OnlyHeldCommandRuns'
    BY <1>0, <2>1, <2>3, <2>4 DEF OnlyHeldCommandRuns, Done, Reaped
  <2>7. SignalInv'
    BY <2>1, <2>4 DEF SignalInv
  <2>8. NoCommandInv'
    BY <1>0, <2>1, <2>3, <2>4 DEF NoCommandInv
  <2> QED
    BY <2>1, <2>4, <2>5, <2>6, <2>7, <2>8
    DEF PlacesInv, MainPlaces, WorkerPlaces, EntryPlaces, LockInv, EntryInv,
        ExitInv, LostInv, LateInv, SurvivorStartedLate, NullNeedsShutdown
<1>7. CASE Started
  <2>1. /\ pc["worker"] = "popen" /\ sub_proc_' = Len(procs)
        /\ UNCHANGED <<procs, queueVars, flagVars, shutdown_lock_, updating,
                       result, crashed>>
        /\ pc' \in [{"main", "worker"} -> Places]
        /\ pc'["worker"] = "started" /\ pc'["main"] = pc["main"]
    BY <1>0, <1>7, Goes DEF Started
  <2>2. sub_proc_ = 0 /\ sub_proc_' # 0
    BY <2>1 DEF NoCommandInv
  <2>3. TypeOK'
    BY <1>0, <2>1 DEF TypeOK
  <2>4. OnlyHeldCommandRuns'
    BY <2>1, <2>2 DEF OnlyHeldCommandRuns, Done, Reaped
  <2>5. SignalInv'
    BY <2>1, <2>2 DEF SignalInv
  <2> QED
    BY <2>1, <2>2, <2>3, <2>4, <2>5
    DEF NoCommandInv, PlacesInv, MainPlaces, WorkerPlaces, EntryPlaces, LockInv,
        EntryInv, ExitInv, LostInv, LateInv, SurvivorStartedLate,
        NullNeedsShutdown
<1>8. CASE ClearFlag
  <2>1. /\ pc["worker"] = "started" /\ command_exit_flag_' = FALSE
        /\ UNCHANGED <<procs, queueVars, usr_input_exit_flag_, sub_proc_,
                       shutdown_lock_, updating, result, crashed>>
        /\ pc' \in [{"main", "worker"} -> Places]
        /\ pc'["worker"] = "poll" /\ pc'["main"] = pc["main"]
    BY <1>0, <1>8, Goes DEF ClearFlag
  <2>2. TypeOK'
    BY <2>1 DEF TypeOK
  <2> QED
    BY <2>1, <2>2
    DEF PlacesInv, MainPlaces, WorkerPlaces, EntryPlaces, LockInv, SignalInv,
        NoCommandInv, EntryInv, ExitInv, LostInv, LateInv, OnlyHeldCommandRuns,
        SurvivorStartedLate, NullNeedsShutdown, Done, Reaped
<1>9. CASE UseNull
  <2>1. /\ crashed = "no" /\ crashed' = "nullptr" /\ sub_proc_ = 0
        /\ pc["worker"] \in {"poll", "recheck", "output"}
        /\ UNCHANGED <<procs, queueVars, flagVars, sub_proc_, shutdown_lock_, pc,
                       updating, result>>
    BY <1>9 DEF UseNull, Crash
  <2>2. TypeOK'
    BY <2>1 DEF TypeOK
  <2>3. NullNeedsShutdown'
    BY <2>1 DEF NullNeedsShutdown, LostInv, ExitInv
  <2> QED
    BY <2>1, <2>2, <2>3
    DEF PlacesInv, MainPlaces, WorkerPlaces, EntryPlaces, LockInv, SignalInv,
        NoCommandInv, EntryInv, ExitInv, LostInv, LateInv, OnlyHeldCommandRuns,
        SurvivorStartedLate, Done, Reaped
<1>15. CASE ReadOver
  <2>1. /\ crashed = "no" /\ crashed' = "overread"
        /\ UNCHANGED <<procs, queueVars, flagVars, sub_proc_, shutdown_lock_, pc,
                       updating, result>>
    BY <1>15 DEF ReadOver, Crash
  <2>2. TypeOK'
    BY <2>1 DEF TypeOK
  <2> QED
    BY <2>1, <2>2
    DEF PlacesInv, MainPlaces, WorkerPlaces, EntryPlaces, LockInv, SignalInv,
        NoCommandInv, EntryInv, ExitInv, LostInv, LateInv, OnlyHeldCommandRuns,
        SurvivorStartedLate, NullNeedsShutdown, Done, Reaped
<1>10. ASSUME NEW place \in {"recheck", "output"},
              pc["worker"] \in {"poll", "recheck"},
              procs' = Waited(sub_proc_), sub_proc_ # 0, Go("worker", place),
              UNCHANGED <<queueVars, flagVars, sub_proc_, shutdown_lock_,
                          updating, result, crashed>>
       PROVE  IInv'
  <2>1. /\ pc' \in [{"main", "worker"} -> Places]
        /\ pc'["worker"] = place /\ pc'["main"] = pc["main"]
    BY <1>0, <1>10, Goes
  <2>2. Steady
    BY <1>0, <1>10, WaitedSteady
  <2>3. TypeOK'
    BY <1>10, <2>1, <2>2 DEF TypeOK, Steady
  <2>4. OnlyHeldCommandRuns'
    BY <1>10, <2>1, <2>2 DEF OnlyHeldCommandRuns, Steady, Done, Reaped
  <2>5. SignalInv'
    BY <1>0, <1>10, <2>1, <2>2 DEF SignalInv, Steady, Done, Reaped
  <2> QED
    BY <1>10, <2>1, <2>3, <2>4, <2>5
    DEF NoCommandInv, PlacesInv, MainPlaces, WorkerPlaces, EntryPlaces, LockInv,
        EntryInv, ExitInv, LostInv, LateInv, SurvivorStartedLate,
        NullNeedsShutdown
<1>11. CASE Poll
  BY <1>10, <1>11 DEF Poll
<1>12. CASE Finished
  BY <1>10, <1>12 DEF Finished
<1>13. CASE Interrupted
  BY <1>13, ReturnInv DEF Interrupted, Output
<1>14. CASE GetOutput
  <2>1. procs[sub_proc_] \in Process
    BY <1>0, <1>14 DEF GetOutput
  <2>2. procs[sub_proc_].result_ \in Texts
    BY <2>1 DEF Process
  <2> QED
    BY <1>14, <2>2, ReturnInv DEF GetOutput, Output
<1> QED
  BY <1>1, <1>2, <1>3, <1>4, <1>5, <1>6, <1>7, <1>8, <1>9, <1>11, <1>12, <1>13,
     <1>14, <1>15, ShutdownCommandInv DEF WorkerStep

-----------------------------------------------------------------------------
(* The theorems                                                            *)

\* The processes of the commands go on by themselves.
LEMMA ChildrenInv ==
    ASSUME IInv, ChildrenStep \/ BashStep
    PROVE  IInv'
<1> USE DEF IInv
<1>1. PICK c \in 1..Len(procs) : ChildStep(c) \/ BashEnds(c)
  BY DEF ChildrenStep, BashStep
<1>2. UNCHANGED others
  BY DEF ChildrenStep, BashStep
<1>3. procs \in Seq(Process) /\ sub_proc_ \in 0..Len(procs)
  BY DEF TypeOK
<1>4. Steady
  BY <1>1, <1>3, ChildSteady
<1> USE DEF others, queueVars, flagVars
<1>5. TypeOK'
  BY <1>2, <1>4 DEF TypeOK, Steady
<1>6. OnlyHeldCommandRuns'
  BY <1>2, <1>4 DEF OnlyHeldCommandRuns, Steady, Done, Reaped
<1>7. SignalInv'
  BY <1>2, <1>3, <1>4 DEF SignalInv, Steady, Done, Reaped
<1>8. NoCommandInv'
  BY <1>2, <1>4 DEF NoCommandInv, Steady
<1> QED
  BY <1>2, <1>5, <1>6, <1>7, <1>8
  DEF PlacesInv, MainPlaces, WorkerPlaces, EntryPlaces, LockInv, EntryInv,
      ExitInv, LostInv, LateInv, SurvivorStartedLate, NullNeedsShutdown

\* Nothing has been launched.
LEMMA InitInv == Init => IInv
<1> SUFFICES ASSUME Init
             PROVE  IInv
  OBVIOUS
<1>1. TypeOK
  <2>1. pc \in [{"main", "worker"} -> Places]
    BY DEF Init, Places
  <2>2. procs \in Seq(Process) /\ sub_proc_ \in 0..Len(procs)
    BY DEF Init
  <2>3. result.text \in Texts
    BY DEF Init, NoResult, Output, Texts
  <2>4. /\ finished_ \in BOOLEAN /\ updating \in BOOLEAN
        /\ usr_input_exit_flag_ \in BOOLEAN /\ command_exit_flag_ \in BOOLEAN
    BY DEF Init
  <2>5. /\ command_queue_ \in Queues \cup {<<>>, NotASequence}
        /\ index \in Nat \ {0} /\ launches \in Nat
        /\ shutdown_lock_ = "free" /\ crashed = "no"
    BY DEF Init
  <2> QED
    BY <2>1, <2>2, <2>3, <2>4, <2>5 DEF TypeOK
<1>2. OnlyHeldCommandRuns
  BY DEF Init, OnlyHeldCommandRuns
<1> QED
  BY <1>1, <1>2
  DEF Init, IInv, PlacesInv, MainPlaces, WorkerPlaces, EntryPlaces, LockInv,
      SignalInv, NoCommandInv, EntryInv, ExitInv, LostInv, LateInv,
      SurvivorStartedLate, NullNeedsShutdown

\* Every step keeps the invariant.
LEMMA NextInv == IInv /\ [Next]_vars => IInv'
<1> SUFFICES ASSUME IInv, [Next]_vars
             PROVE  IInv'
  OBVIOUS
<1>1. CASE MainCalls \/ JoinThread \/ DestroyCommand
  BY <1>1, MainInv
<1>2. CASE ShutdownCommand("main")
  BY <1>2, ShutdownCommandInv
<1>3. CASE WorkerStep
  BY <1>3, WorkerInv
<1>4. CASE ChildrenStep \/ BashStep
  BY <1>4, ChildrenInv
<1>5. CASE UNCHANGED vars
  BY <1>5
  DEF vars, queueVars, flagVars, IInv, TypeOK, PlacesInv, LockInv, SignalInv,
      NoCommandInv, EntryInv, ExitInv, LostInv, LateInv, OnlyHeldCommandRuns,
      SurvivorStartedLate, NullNeedsShutdown, Done, Reaped
<1> QED
  BY <1>1, <1>2, <1>3, <1>4, <1>5 DEF Next, MainReturns

\* The invariant of queue_usr_input and its two threads.
THEOREM Invariant == Spec => []IInv
BY InitInv, NextInv, PTL DEF Spec

\* Every variable keeps a value of its kind: sub_proc_ is always one of the
\* commands that were started, or none.
THEOREM TypeCorrect == Spec => []TypeOK
<1>1. IInv => TypeOK
  BY DEF IInv
<1> QED
  BY Invariant, <1>1, PTL

\* However the two threads and the commands interleave, and for queues of any
\* length, no command is forgotten and none runs beside another
\* (usr_input.cpp:152).
THEOREM NoneForgotten == Spec => []OnlyHeldCommandRuns
<1>1. IInv => OnlyHeldCommandRuns
  BY DEF IInv
<1> QED
  BY Invariant, <1>1, PTL

\* What still runs after shutdown() was started behind its back
\* (usr_input.cpp:158-160).
THEOREM SurvivorsStartLate == Spec => []SurvivorStartedLate
<1>1. IInv => SurvivorStartedLate
  BY DEF IInv
<1> QED
  BY Invariant, <1>1, PTL

\* Only a shutdown() that waits for the thread makes it use a null sub_proc_
\* (usr_input.cpp:161-167, 203-216).
THEOREM NullOnlyInShutdown == Spec => []NullNeedsShutdown
<1>1. IInv => NullNeedsShutdown
  BY DEF IInv
<1> QED
  BY Invariant, <1>1, PTL

-----------------------------------------------------------------------------
(* finished()                                                              *)

\* Every step keeps it: only the two ends of the thread, an empty queue and
\* update() have to do with it.
LEMMA FinishedStep ==
    ASSUME IInv, FinishedIsHonest, [Next]_vars
    PROVE  FinishedIsHonest'
<1> USE DEF At, Go
<1>1. CASE Launch
  BY <1>1 DEF Launch, FinishedIsHonest, IInv, PlacesInv, TypeOK
<1>2. CASE JoinThread
  BY <1>2 DEF JoinThread, FinishedIsHonest, IInv, PlacesInv
<1>3. CASE EndOfQueue
  BY <1>3 DEF EndOfQueue, FinishedIsHonest, IInv, TypeOK
<1>4. CASE DoQueue
  BY <1>4 DEF DoQueue, queueVars, FinishedIsHonest, IInv, TypeOK
<1>5. ASSUME UNCHANGED <<finished_, command_queue_>>,
             pc'["worker"] \in {"off", "ended"} <=>
               pc["worker"] \in {"off", "ended"}
      PROVE  FinishedIsHonest'
  BY <1>5 DEF FinishedIsHonest
<1>6. CASE Join \/ RequestExit \/ Destroy \/ DestroyCommand
  <2>1. UNCHANGED <<finished_, command_queue_>>
    BY <1>6 DEF Join, RequestExit, Destroy, DestroyCommand, queueVars
  <2>2. pc'["worker"] \in {"off", "ended"} <=> pc["worker"] \in {"off", "ended"}
    BY <1>6 DEF Join, RequestExit, Destroy, DestroyCommand, IInv, TypeOK
  <2> QED
    BY <1>5, <2>1, <2>2
<1>7. ASSUME NEW t \in {"main", "worker"}, ShutdownCommand(t)
      PROVE  FinishedIsHonest'
  <2>1. UNCHANGED <<finished_, command_queue_>>
    BY <1>7 DEF ShutdownCommand, Lock, Signal, Reset, Unlock, queueVars
  <2>2. pc'["worker"] \in {"off", "ended"} <=> pc["worker"] \in {"off", "ended"}
    BY <1>7 DEF ShutdownCommand, Lock, Signal, Reset, Unlock, IInv, TypeOK
  <2> QED
    BY <1>5, <2>1, <2>2
<1>8. CASE WorkerStep /\ ~ShutdownCommand("worker") /\ ~EndOfQueue /\ ~DoQueue
  <2>1. UNCHANGED <<finished_, command_queue_>>
    BY <1>8
    DEF WorkerStep, NextEntry, UnknownType, Crash, CheckExit, Popen, Started,
        ClearFlag, UseNull, Poll, Finished, Interrupted, ReadOver, GetOutput, Return,
        queueVars
  <2>2. pc'["worker"] \in {"off", "ended"} <=> pc["worker"] \in {"off", "ended"}
    BY <1>8
    DEF WorkerStep, NextEntry, UnknownType, Crash, CheckExit, Popen, Started,
        ClearFlag, UseNull, Poll, Finished, Interrupted, ReadOver, GetOutput, Return,
        IInv, TypeOK
  <2> QED
    BY <1>5, <2>1, <2>2
<1>9. CASE ChildrenStep \/ BashStep \/ UNCHANGED vars
  BY <1>5, <1>9 DEF ChildrenStep, BashStep, others, vars, queueVars
<1> QED
  BY <1>1, <1>2, <1>3, <1>4, <1>6, <1>7, <1>8, <1>9
  DEF Next, MainCalls, MainReturns, WorkerStep

\* finished() says so when the thread has left the queue, and only then, unless
\* the queue is not a sequence: for any queues and interleavings.
THEOREM FinishedMeansEnded == Spec => []FinishedIsHonest
<1>1. Init => FinishedIsHonest
  BY DEF Init, FinishedIsHonest
<1> QED
  BY <1>1, InitInv, NextInv, FinishedStep, PTL DEF Spec

-----------------------------------------------------------------------------
(* The output of a command                                                 *)

\* A child that has come to its end by itself has come to the end of its copy,
\* and only then can child_pid_ be lost.
Unharmed(p) ==
    /\ p.child \in {"copied", "zombie", "reaped"} => p.result_ \in Copies
    /\ p.pidLost => p.child \in {"copied", "zombie", "reaped"}

\* The command that is the last one started is the one of this entry.
StartedInv ==
    pc["worker"] = "popen" =>
      /\ procs[Len(procs)].command = CommandOf(command_queue_[index])
      /\ Unharmed(procs[Len(procs)])

\* While nobody asks for the exit, the command in hand is that of this entry,
\* and no signal has been sent to it.
InHandInv ==
    ~usr_input_exit_flag_
      /\ pc["worker"] \in {"started", "poll", "recheck", "output"} =>
      /\ procs[sub_proc_].command = CommandOf(command_queue_[index])
      /\ Unharmed(procs[sub_proc_])

\* Nor is there a request to end it once line 160 has cleared it, so that the
\* loop ends with the command and not before.
PollInv ==
    ~usr_input_exit_flag_ =>
      /\ pc["worker"] \in {"poll", "recheck", "output"} => ~command_exit_flag_
      /\ pc["worker"] \in {"recheck", "output"} => ~Alive(sub_proc_)

OutputInv == StartedInv /\ InHandInv /\ PollInv

\* What the children and waitpid() leave as it is in the record of a command.
Kept(d) ==
    /\ procs'[d].command = procs[d].command
    /\ Unharmed(procs[d]) => Unharmed(procs'[d])
    /\ ~Alive(d) => ~Alive(d)'

\* Every step of a child but the last copy is on the way to it.
LEMMA ChildKeeps ==
    ASSUME procs \in Seq(Process), NEW c \in 1..Len(procs),
           ChildStep(c) \/ BashEnds(c), NEW d \in 1..Len(procs)
    PROVE  Kept(d)
<1>1. procs[d] \in Process /\ procs[c] \in Process
  OBVIOUS
<1>2. CASE d # c
  <2>1. procs'[d] = procs[d]
    BY <1>1, <1>2
    DEF ChildStep, TellPid, ForkBash, BeginCopy, EndCopy, Overrun, ChildExits,
        ChildMoves, BashEnds
  <2> QED
    BY <2>1 DEF Kept, Alive
<1>3. CASE d = c
  <2> DEFINE p == procs[c]
  <2>2. CASE TellPid(c)
    <3>1. p.child = "forked" /\ procs'[c] = [p EXCEPT !.child = "told"]
      BY <2>2 DEF TellPid, ChildMoves
    <3> QED
      BY <1>1, <1>3, <3>1 DEF Kept, Alive, Unharmed, Process
  <2>3. CASE ForkBash(c)
    <3> DEFINE q == [p EXCEPT !.child = "reading", !.bash = "running"]
    <3>1. p.child = "told" /\ procs' = [procs EXCEPT ![c] = q]
      BY <1>1, <2>3 DEF ForkBash, Process
    <3> HIDE DEF q
    <3>2. procs'[c] = q
      BY <3>1
    <3> QED
      BY <1>1, <1>3, <3>1, <3>2 DEF q, Kept, Alive, Unharmed, Process
  <2>4. CASE BashEnds(c)
    <3>1. procs'[c] = [p EXCEPT !.bash = "ended"]
      BY <2>4 DEF BashEnds
    <3> QED
      BY <1>1, <1>3, <3>1 DEF Kept, Alive, Unharmed, Process
  <2>5. CASE BeginCopy(c)
    <3> DEFINE q == [p EXCEPT !.child = "copying", !.result_ = "part"]
    <3>1. p.child = "reading" /\ procs' = [procs EXCEPT ![c] = q]
      BY <1>1, <2>5 DEF BeginCopy, Process
    <3> HIDE DEF q
    <3>2. procs'[c] = q
      BY <3>1
    <3> QED
      BY <1>1, <1>3, <3>1, <3>2 DEF q, Kept, Alive, Unharmed, Process
  <2>6. CASE EndCopy(c)
    <3>1. PICK text \in {"whole", "cut"} :
            /\ p.child = "copying"
            /\ procs' = [procs EXCEPT ![c].child = "copied", ![c].result_ = text]
      BY <2>6 DEF EndCopy
    <3> DEFINE q == [p EXCEPT !.child = "copied", !.result_ = text]
    <3>2. procs' = [procs EXCEPT ![c] = q]
      BY <1>1, <3>1 DEF Process
    <3> HIDE DEF q
    <3>3. procs'[c] = q
      BY <3>2
    <3> QED
      BY <1>1, <1>3, <3>1, <3>3 DEF q, Kept, Alive, Unharmed, Process, Copies
  <2>8. CASE Overrun(c)
    <3>1. PICK child \in {"copied", "zombie"}, lost \in {p.pidLost, TRUE} :
            /\ p.child = "copying"
            /\ procs' = [procs EXCEPT ![c].child = child, ![c].result_ = "full",
                                      ![c].pidLost = lost]
      BY <2>8 DEF Overrun
    <3> DEFINE q == [p EXCEPT !.child = child, !.result_ = "full",
                              !.pidLost = lost]
    <3>2. procs' = [procs EXCEPT ![c] = q]
      BY <1>1, <3>1 DEF Process
    <3>3. /\ q.command = p.command /\ q.result_ = "full"
          /\ q.child = child /\ q.pidLost = lost
      BY <1>1 DEF Process
    <3> HIDE DEF q
    <3>4. procs'[c] = q
      BY <3>2
    <3> QED
      BY <1>1, <1>3, <3>1, <3>3, <3>4 DEF Kept, Alive, Unharmed, Process, Copies
  <2>7. CASE ChildExits(c)
    <3>1. p.child = "copied" /\ procs'[c] = [p EXCEPT !.child = "zombie"]
      BY <2>7 DEF ChildExits, ChildMoves
    <3> QED
      BY <1>1, <1>3, <3>1 DEF Kept, Alive, Unharmed, Process
  <2> QED
    BY <2>2, <2>3, <2>4, <2>5, <2>6, <2>7, <2>8 DEF ChildStep
<1> QED
  BY <1>2, <1>3

\* waitpid() takes nothing but the status.
LEMMA WaitedKeeps ==
    ASSUME procs \in Seq(Process), NEW c \in 1..Len(procs), procs' = Waited(c),
           NEW d \in 1..Len(procs)
    PROVE  Kept(d)
<1>1. procs[d] \in Process
  OBVIOUS
<1>2. procs'[d] = IF d = c
                  THEN [procs[d] EXCEPT
                          !.child = IF @ = "zombie" /\ ~procs[d].pidLost
                                    THEN "reaped" ELSE @]
                  ELSE procs[d]
  BY DEF Waited
<1>3. /\ procs'[d].command = procs[d].command
      /\ procs'[d].result_ = procs[d].result_
      /\ procs'[d].pidLost = procs[d].pidLost
      /\ \/ procs'[d].child = procs[d].child
         \/ procs[d].child = "zombie" /\ procs'[d].child = "reaped"
  BY <1>1, <1>2 DEF Process
<1> QED
  BY <1>3 DEF Kept, Alive, Unharmed

\* The invariant has to do with the worker's place, its entry, the requests
\* and the records of the commands.
LEMMA OutputKept ==
    ASSUME IInv, OutputInv, procs' \in Seq(Process), Len(procs') = Len(procs),
           UNCHANGED <<queueVars, flagVars, sub_proc_>>,
           pc'["worker"] = pc["worker"],
           \A d \in 1..Len(procs) : Kept(d)
    PROVE  OutputInv'
<1>1. pc["worker"] = "popen" => Len(procs) \in 1..Len(procs)
  BY DEF IInv, NoCommandInv, TypeOK
<1>2. ~usr_input_exit_flag_
        /\ pc["worker"] \in {"started", "poll", "recheck", "output"}
        => sub_proc_ \in 1..Len(procs)
  BY DEF IInv, LostInv, ExitInv, TypeOK
<1>3. StartedInv'
  BY <1>1 DEF OutputInv, StartedInv, Kept, queueVars, flagVars
<1>4. InHandInv'
  BY <1>2 DEF OutputInv, InHandInv, Kept, queueVars, flagVars
<1>5. PollInv'
  BY <1>2 DEF OutputInv, PollInv, Kept, queueVars, flagVars
<1> QED
  BY <1>3, <1>4, <1>5 DEF OutputInv

\* Where the worker has no command, or the exit is requested, there is little
\* to keep.
LEMMA OutputVoid ==
    ASSUME pc'["worker"] # "popen",
           \/ usr_input_exit_flag_'
           \/ pc'["worker"] \notin {"started", "poll", "recheck", "output"}
    PROVE  OutputInv'
BY DEF OutputInv, StartedInv, InHandInv, PollInv

\* The fuzzer's thread.
LEMMA MainOutput ==
    ASSUME IInv, OutputInv, MainCalls \/ MainReturns
    PROVE  OutputInv'
<1> USE DEF At, Go, queueVars, flagVars
<1>0. /\ pc \in [{"main", "worker"} -> Places] /\ procs \in Seq(Process)
      /\ sub_proc_ \in 0..Len(procs)
  BY DEF IInv, TypeOK
<1>1. \A d \in 1..Len(procs) : procs' = procs => Kept(d)
  BY DEF Kept, Alive
<1>2. CASE Launch \/ Join \/ Destroy \/ JoinThread \/ DestroyCommand
  <2>1. pc'["worker"] \in {"off", "start", "ended"}
    BY <1>0, <1>2 DEF Launch, Join, Destroy, JoinThread, DestroyCommand, IInv, ExitInv
  <2> QED
    BY <2>1, OutputVoid
<1>3. CASE RequestExit \/ Lock("main")
  <2>1. /\ usr_input_exit_flag_' /\ pc'["worker"] = pc["worker"]
        /\ UNCHANGED <<procs, command_queue_, index>>
    BY <1>0, <1>3 DEF RequestExit, Lock, IInv, ExitInv
  <2>2. StartedInv'
    BY <2>1 DEF OutputInv, StartedInv
  <2> QED
    BY <2>1, <2>2 DEF OutputInv, InHandInv, PollInv
<1>4. CASE Signal("main") \/ Reset("main")
  <2>1. usr_input_exit_flag_' /\ pc'["worker"] # "popen"
    BY <1>0, <1>4 DEF Signal, Reset, IInv, ExitInv, SignalInv, NoCommandInv
  <2> QED
    BY <2>1, OutputVoid
<1>5. CASE Unlock("main")
  <2>1. /\ UNCHANGED <<procs, queueVars, flagVars, sub_proc_>>
        /\ pc'["worker"] = pc["worker"]
    BY <1>0, <1>5 DEF Unlock
  <2> QED
    BY <1>0, <1>1, <2>1, OutputKept
<1> QED
  BY <1>2, <1>3, <1>4, <1>5 DEF MainCalls, MainReturns, ShutdownCommand

\* The worker: what it starts is the command of its entry, and it leaves the
\* loop only when that has ended, or when it is told to.
LEMMA WorkerOutput ==
    ASSUME IInv, OutputInv, WorkerStep
    PROVE  OutputInv'
<1> USE DEF At, Go, queueVars, flagVars
<1>0. /\ pc \in [{"main", "worker"} -> Places] /\ procs \in Seq(Process)
      /\ sub_proc_ \in 0..Len(procs)
  BY DEF IInv, TypeOK
<1>1. CASE ShutdownCommand("worker") \/ DoQueue \/ NextEntry \/ EndOfQueue
  <2>1. pc'["worker"] \in {"lock", "signal", "reset", "unlock", "check", "loop",
                           "ended"}
    BY <1>0, <1>1
    DEF ShutdownCommand, Lock, Signal, Reset, Unlock, DoQueue, NextEntry,
        EndOfQueue
  <2> QED
    BY <2>1, OutputVoid
<1>2. CASE CheckExit \/ Interrupted \/ GetOutput
  <2>1. pc'["worker"] = "loop"
    BY <1>0, <1>2 DEF CheckExit, Interrupted, GetOutput, Return
  <2> QED
    BY <2>1, OutputVoid
<1>3. CASE UnknownType \/ UseNull \/ ReadOver
  <2>1. /\ UNCHANGED <<procs, queueVars, flagVars, sub_proc_>>
        /\ pc'["worker"] = pc["worker"]
    BY <1>3 DEF UnknownType, UseNull, ReadOver, Crash
  <2>2. \A d \in 1..Len(procs) : Kept(d)
    BY <2>1 DEF Kept, Alive
  <2> QED
    BY <1>0, <2>1, <2>2, OutputKept
<1>4. CASE Popen
  <2> DEFINE q == [command |-> CommandOf(command_queue_[index]),
                   child |-> "forked", bash |-> "none", result_ |-> "",
                   pidLost |-> FALSE]
  <2>1. /\ pc'["worker"] = "popen" /\ UNCHANGED <<queueVars, sub_proc_>>
        /\ procs' = Append(procs, q)
    BY <1>0, <1>4 DEF Popen, NewPopen
  <2>2. /\ q.command = CommandOf(command_queue_[index])
        /\ q.child = "forked" /\ ~q.pidLost
    OBVIOUS
  <2> HIDE DEF q
  <2>3. procs'[Len(procs')] = q
    <3>1. Len(procs') = Len(procs) + 1
      BY <1>0, <2>1
    <3> QED
      BY <1>0, <2>1, <3>1
  <2>4. StartedInv'
    BY <2>1, <2>2, <2>3 DEF StartedInv, Unharmed
  <2> QED
    BY <2>1, <2>4 DEF OutputInv, InHandInv, PollInv
<1>5. CASE Started
  <2>1. /\ pc["worker"] = "popen" /\ pc'["worker"] = "started"
        /\ sub_proc_' = Len(procs) /\ UNCHANGED <<procs, queueVars, flagVars>>
    BY <1>0, <1>5 DEF Started
  <2> QED
    BY <2>1 DEF OutputInv, StartedInv, InHandInv, PollInv
<1>6. CASE ClearFlag
  <2>1. /\ pc["worker"] = "started" /\ pc'["worker"] = "poll"
        /\ command_exit_flag_' = FALSE
        /\ UNCHANGED <<procs, queueVars, usr_input_exit_flag_, sub_proc_>>
    BY <1>0, <1>6 DEF ClearFlag
  <2> QED
    BY <2>1 DEF OutputInv, StartedInv, InHandInv, PollInv
<1>7. CASE Poll \/ Finished
  <2>1. /\ pc["worker"] \in {"poll", "recheck"}
        /\ pc'["worker"] \in {"recheck", "output"}
        /\ sub_proc_ # 0 /\ procs' = Waited(sub_proc_)
        /\ UNCHANGED <<queueVars, flagVars, sub_proc_>>
        /\ Alive(sub_proc_) => command_exit_flag_ \/ usr_input_exit_flag_
    BY <1>0, <1>7 DEF Poll, Finished
  <2>2. Kept(sub_proc_)
    BY <1>0, <2>1, WaitedKeeps
  <2>3. InHandInv'
    BY <2>1, <2>2 DEF OutputInv, InHandInv, Kept
  <2>4. PollInv'
    BY <2>1, <2>2 DEF OutputInv, PollInv, Kept
  <2> QED
    BY <2>1, <2>3, <2>4 DEF OutputInv, StartedInv
<1> QED
  BY <1>1, <1>2, <1>3, <1>4, <1>5, <1>6, <1>7 DEF WorkerStep

\* Every step keeps it.
LEMMA OutputStep ==
    ASSUME IInv, OutputInv, [Next]_vars
    PROVE  OutputInv'
<1>1. CASE MainCalls \/ MainReturns
  BY <1>1, MainOutput
<1>2. CASE WorkerStep
  BY <1>2, WorkerOutput
<1>3. CASE ChildrenStep \/ BashStep
  <2>1. PICK c \in 1..Len(procs) : ChildStep(c) \/ BashEnds(c)
    BY <1>3 DEF ChildrenStep, BashStep
  <2>2. UNCHANGED others
    BY <1>3 DEF ChildrenStep, BashStep
  <2>3. procs \in Seq(Process)
    BY DEF IInv, TypeOK
  <2>4. Steady /\ \A d \in 1..Len(procs) : Kept(d)
    BY <2>1, <2>3, ChildSteady, ChildKeeps
  <2> QED
    BY <2>2, <2>4, OutputKept DEF Steady, others
<1>4. CASE UNCHANGED vars
  BY <1>4
  DEF vars, queueVars, flagVars, OutputInv, StartedInv, InHandInv, PollInv,
      Alive
<1> QED
  BY <1>1, <1>2, <1>3, <1>4 DEF Next

\* What leaves the hands of the worker while nobody asks for the exit.
LEMMA WholeStep ==
    ASSUME IInv, OutputInv, [Next]_vars, index' > index, ~usr_input_exit_flag_
    PROVE  /\ result'.text \in Copies
           /\ result'.command = CommandOf(command_queue_[index])
<1> USE DEF At, Go, queueVars, flagVars
<1>1. index \in Nat \ {0} /\ index' # index
  BY DEF IInv, TypeOK
<1>2. ~Launch /\ ~ShutdownCommand("main") /\ ~ShutdownCommand("worker")
  BY <1>1 DEF Launch, ShutdownCommand, Lock, Signal, Reset, Unlock
<1>3. CheckExit \/ Interrupted \/ GetOutput
  BY <1>1, <1>2
  DEF Next, MainCalls, MainReturns, WorkerStep, Join, RequestExit, Destroy,
      JoinThread, DestroyCommand, DoQueue, NextEntry, UnknownType, EndOfQueue,
      Crash, Popen, Started, ClearFlag, UseNull, Poll, Finished, ReadOver,
      ChildrenStep, BashStep, others, vars
<1>4. GetOutput
  BY <1>3 DEF CheckExit, Interrupted, OutputInv, PollInv
<1>5. /\ result'.text = procs[sub_proc_].result_
      /\ result'.command = procs[sub_proc_].command
      /\ pc["worker"] = "output" /\ sub_proc_ # 0
  BY <1>4 DEF GetOutput, Return, Output
<1>6. /\ procs[sub_proc_].child \in {"zombie", "reaped"}
           \/ procs[sub_proc_].pidLost
      /\ Unharmed(procs[sub_proc_])
      /\ procs[sub_proc_].command = CommandOf(command_queue_[index])
  BY <1>5 DEF OutputInv, InHandInv, PollInv, Alive
<1> QED
  BY <1>5, <1>6 DEF Unharmed

\* For queues of any length and any interleaving with shutdown() and update():
\* what an entry of the queue gives back, while nobody asks for the exit, was
\* written by its own command, and its copy has come to an end: the whole, what
\* stands before a NUL, or what the shared memory could not hold
\* (usr_input.cpp:152-169, new_popen.cpp:163).
THEOREM OutputsAreWhole == Spec => OutputIsWhole
<1>1. Init => OutputInv
  BY DEF Init, OutputInv, StartedInv, InHandInv, PollInv
<1>2. IInv /\ OutputInv /\ [Next]_vars => OutputInv'
  BY OutputStep
<1>3. IInv /\ OutputInv /\ [Next]_vars =>
        [ index' > index /\ ~usr_input_exit_flag_ =>
            /\ result'.text \in Copies
            /\ result'.command = CommandOf(command_queue_[index]) ]_vars
  BY WholeStep
<1> QED
  BY <1>1, <1>2, <1>3, InitInv, NextInv, PTL DEF Spec, OutputIsWhole
=============================================================================
