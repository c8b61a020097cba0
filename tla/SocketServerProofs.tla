------------------------- MODULE SocketServerProofs -------------------------
(***************************************************************************)
(* Theorems about SocketServer, for any number of connections, records and *)
(* rounds: the type of its variables, the order and the age of the records *)
(* and what std::terminate() needs.                                        *)
(***************************************************************************)
EXTENDS SocketServer, SequenceRanges, TLAPS

-----------------------------------------------------------------------------
(* The invariant                                                           *)

\* What the bounds of the model need: a round is begun only if there is one
\* left, and a handler that has a record has read one.
BoundInv ==
    /\ main \in {"clear", "reset", "empty"} => round < MaxRounds
    /\ \A c \in Conns : handler[c] = "push" => taken[c] > 0

\* No record is newer than what its handler has read, and the one the handler
\* has in hand is not in the queue.
NumbersInv ==
    \A i \in DOMAIN info_queue_ : LET c == info_queue_[i].conn
                                  IN  /\ info_queue_[i].number <= taken[c]
                                      /\ handler[c] = "push" =>
                                           info_queue_[i].number < taken[c]

\* A thread that was started and not joined is in the vector.
KnownInv ==
    ~Over => \A c \in Conns : handler[c] \notin {"none", "joined"} =>
                 c \in Range(client_threads_)

\* Unless a connection comes late, shutdown_client() joins all the vector
\* holds, and nothing is in the vector after that.
JoinedInv ==
    ~late =>
      /\ Joining => \A c \in Range(client_threads_) :
                       handler[c] = "joined" \/ c \in Range(visit)
      /\ main \in {"reset", "empty", "stop", "wake", "joinExecutor", "stopped"}
           => client_threads_ = <<>>

\* While a target runs, what is not registered yet is of its own making or was
\* left over.
PendingInv ==
    main \in {"target", "analysis"} => \A c \in Unregistered : OfThisRound(c)

IInv ==
    /\ TypeOK /\ BoundInv /\ NumbersInv /\ KnownInv /\ JoinedInv /\ PendingInv
    /\ RecordsOnceInOrder /\ FreshRecords /\ TerminateNeedsLateAccept

-----------------------------------------------------------------------------
(* Types                                                                   *)

\* What a record holds.
LEMMA RecordTypes ==
    ASSUME IInv, NEW i \in DOMAIN info_queue_
    PROVE  info_queue_[i].conn \in Conns /\ info_queue_[i].number \in Nat
<1> DEFINE Records == [conn : Conns, number : 1..MaxRecords]
<1>1. info_queue_ \in Seq(Records)
  BY DEF IInv, TypeOK, InfoTypeOK
<1> HIDE DEF Records
<1>2. info_queue_[i] \in Records
  BY <1>1
<1>3. info_queue_[i].conn \in Conns /\ info_queue_[i].number \in 1..MaxRecords
  BY <1>2 DEF Records
<1> QED
  BY <1>3, SocketAssumption

\* What waits to be registered is a connection.
LEMMA UnregisteredConns ==
    ASSUME IInv
    PROVE  Unregistered \subseteq Conns
<1>1. backlog \in Seq(Conns) /\ accepted \in Conns
  BY DEF IInv, TypeOK, ThreadTypeOK, NetworkTypeOK
<1>2. Range(backlog) \subseteq Conns
  BY <1>1 DEF Range
<1> QED
  BY <1>1, <1>2 DEF Unregistered

\* Every step keeps the type of every variable.
LEMMA TypeStep ==
    ASSUME IInv, Next
    PROVE  TypeOK'
<1> USE DEF objectVars, networkVars, roundVars, historyVars
<1>0. /\ InfoTypeOK /\ FlagTypeOK /\ ThreadTypeOK /\ NetworkTypeOK /\ BoundInv
      /\ SelfConn \in Conns /\ TargetConns \subseteq Conns
      /\ MaxRecords \in Nat /\ MaxRounds \in Nat
  BY SocketAssumption DEF IInv, TypeOK, Conns
<1>1. CASE Launch
  BY <1>0, <1>1 DEF Launch, TypeOK,
     InfoTypeOK, FlagTypeOK, ThreadTypeOK, NetworkTypeOK
<1>2. CASE JoinClient
  <2>1. InfoTypeOK' /\ FlagTypeOK' /\ NetworkTypeOK'
    BY <1>0, <1>2 DEF JoinClient, InfoTypeOK, FlagTypeOK, NetworkTypeOK
  <2>2. ThreadTypeOK'
    BY <1>0, <1>2 DEF JoinClient, ThreadTypeOK
  <2> QED
    BY <2>1, <2>2 DEF TypeOK
<1>3. CASE ForgetClients
  BY <1>0, <1>3 DEF ForgetClients, TypeOK,
     InfoTypeOK, FlagTypeOK, ThreadTypeOK, NetworkTypeOK
<1>4. CASE ResetFlags
  BY <1>0, <1>4 DEF ResetFlags, TypeOK,
     InfoTypeOK, FlagTypeOK, ThreadTypeOK, NetworkTypeOK
<1>5. CASE EmptyInfo
  <2>1. InfoTypeOK' /\ FlagTypeOK' /\ ThreadTypeOK'
    BY <1>0, <1>5 DEF EmptyInfo, BoundInv, InfoTypeOK, FlagTypeOK, ThreadTypeOK
  <2>2. Unregistered \subseteq Conns
    BY UnregisteredConns
  <2>3. NetworkTypeOK'
    BY <1>0, <1>5, <2>2 DEF EmptyInfo, BoundInv, NetworkTypeOK
  <2> QED
    BY <2>1, <2>3 DEF TypeOK
<1>6. CASE Analysis
  BY <1>0, <1>6 DEF Analysis, TypeOK,
     InfoTypeOK, FlagTypeOK, ThreadTypeOK, NetworkTypeOK
<1>7. CASE StopServer
  BY <1>0, <1>7 DEF StopServer, TypeOK,
     InfoTypeOK, FlagTypeOK, ThreadTypeOK, NetworkTypeOK
<1>8. CASE WakeExecutor
  <2>1. InfoTypeOK' /\ FlagTypeOK' /\ ThreadTypeOK'
    BY <1>0, <1>8 DEF WakeExecutor, InfoTypeOK, FlagTypeOK, ThreadTypeOK
  <2>2. NetworkTypeOK'
    <3>1. UNCHANGED <<sent, taken, round, openedIn, leftover>>
      BY <1>8 DEF WakeExecutor
    <3>2. backlog' \in Seq(Conns) /\ opened' \subseteq Conns
      <4>1. backlog' = Append(backlog, SelfConn) \/ UNCHANGED backlog
        BY <1>8 DEF WakeExecutor
      <4>2. opened' = opened \cup {SelfConn} \/ UNCHANGED opened
        BY <1>8 DEF WakeExecutor
      <4>3. backlog \in Seq(Conns) /\ Append(backlog, SelfConn) \in Seq(Conns)
        BY <1>0 DEF NetworkTypeOK
      <4> QED
        BY <1>0, <4>1, <4>2, <4>3 DEF NetworkTypeOK
    <3>3. open' \subseteq opened'
      BY <1>0, <1>8 DEF WakeExecutor, NetworkTypeOK
    <3> QED
      BY <1>0, <3>1, <3>2, <3>3 DEF NetworkTypeOK
  <2> QED
    BY <2>1, <2>2 DEF TypeOK
<1>9. CASE JoinExecutor
  BY <1>0, <1>9 DEF JoinExecutor, TypeOK,
     InfoTypeOK, FlagTypeOK, ThreadTypeOK, NetworkTypeOK
<1>10. CASE Destroy
  BY <1>0, <1>10 DEF Destroy, TypeOK,
     InfoTypeOK, FlagTypeOK, ThreadTypeOK, NetworkTypeOK
<1>11. CASE TargetExits
  BY <1>0, <1>11 DEF TargetExits, TypeOK,
     InfoTypeOK, FlagTypeOK, ThreadTypeOK, NetworkTypeOK
<1>12. CASE Clear
  BY <1>0, <1>12 DEF Clear, BeginJoin, TypeOK,
     InfoTypeOK, FlagTypeOK, ThreadTypeOK, NetworkTypeOK
<1>13. CASE Shutdown
  BY <1>0, <1>13 DEF Shutdown, BeginJoin, TypeOK,
     InfoTypeOK, FlagTypeOK, ThreadTypeOK, NetworkTypeOK
<1>14. CASE Listen
  BY <1>0, <1>14 DEF Listen, TypeOK,
     InfoTypeOK, FlagTypeOK, ThreadTypeOK, NetworkTypeOK
<1>15. CASE TestServerExit
  BY <1>0, <1>15 DEF TestServerExit, TypeOK,
     InfoTypeOK, FlagTypeOK, ThreadTypeOK, NetworkTypeOK
<1>16. CASE Accept
  <2>1. InfoTypeOK' /\ FlagTypeOK'
    BY <1>0, <1>16 DEF Accept, InfoTypeOK, FlagTypeOK
  <2>2. Head(backlog) \in Conns /\ Tail(backlog) \in Seq(Conns)
    BY <1>0, <1>16 DEF Accept, NetworkTypeOK
  <2>3. ThreadTypeOK'
    <3>1. accepted' \in Conns /\ executor' = "register"
      BY <1>16, <2>2 DEF Accept
    <3>2. UNCHANGED <<main, handler, client_threads_, visit>>
      BY <1>16 DEF Accept
    <3> QED
      BY <1>0, <3>1, <3>2 DEF ThreadTypeOK
  <2>4. NetworkTypeOK'
    <3>1. backlog' \in Seq(Conns)
      BY <1>16, <2>2 DEF Accept
    <3>2. UNCHANGED <<opened, open, sent, taken, round, openedIn, leftover>>
      BY <1>16 DEF Accept
    <3> QED
      BY <1>0, <3>1, <3>2 DEF NetworkTypeOK
  <2> QED
    BY <2>1, <2>3, <2>4 DEF TypeOK
<1>17. CASE Register
  <2>1. InfoTypeOK' /\ FlagTypeOK'
    BY <1>0, <1>17 DEF Register, Joining, InfoTypeOK, FlagTypeOK
  <2>2. ThreadTypeOK'
    BY <1>0, <1>17 DEF Register, Joining, ThreadTypeOK
  <2>3. NetworkTypeOK'
    BY <1>0, <1>17 DEF Register, Joining, NetworkTypeOK
  <2> QED
    BY <2>1, <2>2, <2>3 DEF TypeOK
<1>18. ASSUME NEW c \in Conns, TestClientExit(c)
      PROVE  TypeOK'
  <2>1. InfoTypeOK' /\ FlagTypeOK'
    BY <1>0, <1>18 DEF TestClientExit, HandlerGoesOn, InfoTypeOK, FlagTypeOK
  <2>2. ThreadTypeOK'
    BY <1>0, <1>18 DEF TestClientExit, HandlerGoesOn, ThreadTypeOK
  <2>3. NetworkTypeOK'
    BY <1>0, <1>18 DEF TestClientExit, HandlerGoesOn, NetworkTypeOK
  <2> QED
    BY <2>1, <2>2, <2>3 DEF TypeOK
<1>19. ASSUME NEW c \in Conns, ReadRecord(c)
      PROVE  TypeOK'
  <2>1. InfoTypeOK' /\ FlagTypeOK'
    BY <1>0, <1>19 DEF ReadRecord, HandlerGoesOn, AtEnd, InfoTypeOK, FlagTypeOK
  <2>2. ThreadTypeOK'
    BY <1>0, <1>19 DEF ReadRecord, HandlerGoesOn, AtEnd, ThreadTypeOK
  <2>3. NetworkTypeOK'
    BY <1>0, <1>19 DEF ReadRecord, HandlerGoesOn, AtEnd, NetworkTypeOK
  <2> QED
    BY <2>1, <2>2, <2>3 DEF TypeOK
<1>20. ASSUME NEW c \in Conns, ReadEnd(c)
      PROVE  TypeOK'
  <2>1. InfoTypeOK' /\ FlagTypeOK'
    BY <1>0, <1>20 DEF ReadEnd, HandlerGoesOn, InfoTypeOK, FlagTypeOK
  <2>2. ThreadTypeOK'
    BY <1>0, <1>20 DEF ReadEnd, HandlerGoesOn, ThreadTypeOK
  <2>3. NetworkTypeOK'
    BY <1>0, <1>20 DEF ReadEnd, HandlerGoesOn, NetworkTypeOK
  <2> QED
    BY <2>1, <2>2, <2>3 DEF TypeOK
<1>21. ASSUME NEW c \in Conns, PushInfo(c)
      PROVE  TypeOK'
  <2>1. FlagTypeOK' /\ NetworkTypeOK'
    BY <1>0, <1>21
    DEF PushInfo, HandlerGoesOn, AtEnd, BoundInv, FlagTypeOK, NetworkTypeOK
  <2>2. InfoTypeOK'
    <3> DEFINE r == [conn |-> c, number |-> taken[c]]
    <3>1. r \in [conn : Conns, number : 1..MaxRecords]
      BY <1>0, <1>21 DEF PushInfo, HandlerGoesOn, BoundInv, NetworkTypeOK
    <3>2. info_queue_' = Append(info_queue_, r) /\ UNCHANGED func_schedule_
      BY <1>21 DEF PushInfo, HandlerGoesOn
    <3> HIDE DEF r
    <3> QED
      BY <1>0, <3>1, <3>2 DEF InfoTypeOK
  <2>3. ThreadTypeOK'
    BY <1>0, <1>21 DEF PushInfo, HandlerGoesOn, AtEnd, BoundInv, ThreadTypeOK
  <2> QED
    BY <2>1, <2>2, <2>3 DEF TypeOK
<1>22. ASSUME NEW c \in Conns, CloseClient(c)
      PROVE  TypeOK'
  <2>1. InfoTypeOK' /\ FlagTypeOK'
    BY <1>0, <1>22 DEF CloseClient, HandlerGoesOn, InfoTypeOK, FlagTypeOK
  <2>2. ThreadTypeOK'
    BY <1>0, <1>22 DEF CloseClient, HandlerGoesOn, ThreadTypeOK
  <2>3. NetworkTypeOK'
    BY <1>0, <1>22 DEF CloseClient, HandlerGoesOn, NetworkTypeOK
  <2> QED
    BY <2>1, <2>2, <2>3 DEF TypeOK
<1>23. ASSUME NEW c \in TargetConns, TargetConnects(c)
      PROVE  TypeOK'
  <2>1. InfoTypeOK' /\ FlagTypeOK' /\ ThreadTypeOK'
    BY <1>0, <1>23 DEF TargetConnects, InfoTypeOK, FlagTypeOK, ThreadTypeOK
  <2>2. NetworkTypeOK'
    BY <1>0, <1>23 DEF TargetConnects, NetworkTypeOK
  <2> QED
    BY <2>1, <2>2 DEF TypeOK
<1>24. ASSUME NEW c \in TargetConns, TargetSends(c)
      PROVE  TypeOK'
  <2>1. InfoTypeOK' /\ FlagTypeOK' /\ ThreadTypeOK'
    BY <1>0, <1>24 DEF TargetSends, InfoTypeOK, FlagTypeOK, ThreadTypeOK
  <2>2. NetworkTypeOK'
    BY <1>0, <1>24 DEF TargetSends, NetworkTypeOK
  <2> QED
    BY <2>1, <2>2 DEF TypeOK
<1> QED
  BY <1>1, <1>2, <1>3, <1>4, <1>5, <1>6, <1>7, <1>8, <1>9, <1>10, <1>11,
     <1>12, <1>13, <1>14, <1>15, <1>16, <1>17, <1>18, <1>19, <1>20, <1>21,
     <1>22, <1>23, <1>24
  DEF Next, MainStep, ExecutorStep, HandlerStep

-----------------------------------------------------------------------------
(* The records and the threads                                             *)

\* What the theorems say beside the types.
RestInv ==
    /\ BoundInv /\ NumbersInv /\ KnownInv /\ JoinedInv /\ PendingInv
    /\ RecordsOnceInOrder /\ FreshRecords /\ TerminateNeedsLateAccept

\* Connections are made, accepted and counted as the round's.
LEMMA PendingStep ==
    ASSUME IInv,
           \/ Launch \/ ResetFlags \/ Analysis \/ StopServer \/ WakeExecutor
           \/ JoinExecutor \/ TargetExits \/ Listen \/ TestServerExit \/ Accept
           \/ \E c \in TargetConns : TargetConnects(c) \/ TargetSends(c)
    PROVE  FreshRecords' /\ PendingInv'
<1> USE DEF objectVars, networkVars, roundVars, historyVars
<1>1. UNCHANGED <<info_queue_, handler, round, leftover>>
  BY DEF Launch, ResetFlags, Analysis, StopServer, WakeExecutor, JoinExecutor,
         TargetExits, Listen, TestServerExit, Accept, TargetConnects, TargetSends
<1>2. main' \in {"target", "analysis"} => main \in {"target", "analysis"}
  BY DEF Launch, ResetFlags, Analysis, StopServer, WakeExecutor, JoinExecutor,
         TargetExits, Listen, TestServerExit, Accept, TargetConnects, TargetSends
<1>3. /\ backlog \in Seq(Conns) /\ openedIn \in [Conns -> 0..MaxRounds]
      /\ TargetConns \subseteq Conns
  BY DEF IInv, TypeOK, NetworkTypeOK, Conns
<1>4. \A d \in Conns : OfThisRound(d) => OfThisRound(d)'
  <2>1. UNCHANGED openedIn
        \/ \E c \in TargetConns : openedIn' = [openedIn EXCEPT ![c] = round]
    BY DEF Launch, ResetFlags, Analysis, StopServer, WakeExecutor, JoinExecutor,
           TargetExits, Listen, TestServerExit, Accept, TargetConnects,
           TargetSends
  <2> QED
    BY <1>1, <1>3, <2>1 DEF OfThisRound
<1>5. main' \in {"target", "analysis"} =>
        \A d \in Unregistered' : d \in Unregistered \/ OfThisRound(d)'
  <2>1. CASE UNCHANGED <<backlog, accepted, executor>>
    BY <2>1 DEF Unregistered
  <2>2. CASE Listen \/ TestServerExit
    BY <2>2 DEF Listen, TestServerExit, Unregistered
  <2>3. CASE Accept
    <3>1. /\ backlog # <<>> /\ accepted' = Head(backlog)
          /\ backlog' = Tail(backlog)
      BY <2>3 DEF Accept
    <3>2. Range(backlog) = {Head(backlog)} \cup Range(Tail(backlog))
      BY <1>3, <3>1, RangeOfTail
    <3> QED
      BY <3>1, <3>2 DEF Unregistered
  <2>4. CASE WakeExecutor
    BY <2>4 DEF WakeExecutor
  <2>5. ASSUME NEW c \in TargetConns, TargetConnects(c)
        PROVE  \A d \in Unregistered' : d \in Unregistered \/ OfThisRound(d)'
    <3>1. /\ backlog' = Append(backlog, c)
          /\ openedIn' = [openedIn EXCEPT ![c] = round]
          /\ UNCHANGED <<accepted, executor, round>>
      BY <2>5 DEF TargetConnects
    <3>2. Range(backlog') = Range(backlog) \cup {c}
      BY <1>3, <3>1, RangeOfAppend
    <3>3. OfThisRound(c)'
      BY <1>3, <3>1 DEF OfThisRound
    <3> QED
      BY <3>1, <3>2, <3>3 DEF Unregistered
  <2> QED
    BY <2>1, <2>2, <2>3, <2>4, <2>5
    DEF Launch, ResetFlags, Analysis, StopServer, JoinExecutor, TargetExits,
        TargetSends
<1>6. PendingInv'
  <2>1. Unregistered \subseteq Conns
    BY UnregisteredConns
  <2> QED
    BY <1>2, <1>4, <1>5, <2>1 DEF IInv, PendingInv
<1>7. FreshRecords'
  <2>1. \A rec \in Range(info_queue_) : rec.conn \in Conns
    BY RecordTypes DEF Range
  <2> QED
    BY <1>1, <1>2, <1>4, <2>1 DEF IInv, FreshRecords
<1> QED
  BY <1>6, <1>7

\* The steps that have nothing to do with records and threads.
LEMMA QuietStep ==
    ASSUME IInv, ~Over,
           \/ Launch \/ ResetFlags \/ Analysis \/ StopServer \/ WakeExecutor
           \/ JoinExecutor \/ TargetExits \/ Listen \/ TestServerExit \/ Accept
           \/ \E c \in TargetConns : TargetConnects(c) \/ TargetSends(c)
    PROVE  RestInv'
<1> USE DEF objectVars, networkVars, roundVars, historyVars
<1>1. UNCHANGED <<info_queue_, client_threads_, handler, visit, taken, round,
                  leftover, late>>
  BY DEF Launch, ResetFlags, Analysis, StopServer, WakeExecutor, JoinExecutor,
         TargetExits, Listen, TestServerExit, Accept, TargetConnects, TargetSends
<1>2. \/ UNCHANGED main
      \/ main = "launch" /\ main' = "between"
      \/ main = "reset" /\ main' = "empty"
      \/ main = "analysis" /\ main' \in {"between", "crashed"}
      \/ main = "stop" /\ main' = "wake"
      \/ main = "wake" /\ main' = "joinExecutor"
      \/ main = "joinExecutor" /\ main' = "stopped"
      \/ main = "target" /\ main' = "analysis"
  BY DEF Launch, ResetFlags, Analysis, StopServer, WakeExecutor, JoinExecutor,
         TargetExits, Listen, TestServerExit, Accept, TargetConnects, TargetSends
<1>3. BoundInv' /\ NumbersInv' /\ RecordsOnceInOrder'
  BY <1>1, <1>2 DEF IInv, BoundInv, NumbersInv, RecordsOnceInOrder
<1>4. KnownInv' /\ JoinedInv' /\ TerminateNeedsLateAccept'
  BY <1>1, <1>2
  DEF IInv, KnownInv, JoinedInv, TerminateNeedsLateAccept, Over, Joining
<1>5. FreshRecords' /\ PendingInv'
  BY <1>1, <1>2, PendingStep
<1> QED
  BY <1>3, <1>4, <1>5 DEF RestInv

\* shutdown_client() meets every thread of the vector.
LEMMA ShutdownClientStep ==
    ASSUME IInv, ~Over, Clear \/ Shutdown \/ JoinClient
    PROVE  RestInv'
<1> USE DEF objectVars, networkVars, roundVars, historyVars
<1>0. ThreadTypeOK
  BY DEF IInv, TypeOK
<1>1. CASE Clear \/ Shutdown
  <2>1. /\ main = "between" /\ visit' = client_threads_
        /\ \/ main' = "clear" /\ round < MaxRounds
           \/ main' = "shutdown"
        /\ UNCHANGED <<info_queue_, client_threads_, handler, taken, round, late>>
    BY <1>1 DEF Clear, Shutdown, BeginJoin
  <2> QED
    BY <2>1
    DEF IInv, RestInv, BoundInv, NumbersInv, RecordsOnceInOrder, KnownInv,
        JoinedInv, PendingInv, FreshRecords, TerminateNeedsLateAccept, Over, Joining
<1>2. CASE JoinClient
  <2> DEFINE h == Head(visit)
  <2>1. /\ main \in {"clear", "shutdown"} /\ visit # <<>>
        /\ handler[h] = "done" /\ handler' = [handler EXCEPT ![h] = "joined"]
        /\ visit' = Tail(visit)
        /\ UNCHANGED <<info_queue_, client_threads_, main, taken, round, late>>
    BY <1>2 DEF JoinClient, Joining
  <2>2. h \in Conns /\ Range(visit) = {h} \cup Range(Tail(visit))
    BY <1>0, <2>1, RangeOfTail DEF ThreadTypeOK
  <2> HIDE DEF h
  <2>3. \A c \in Conns : handler'[c] = IF c = h THEN "joined" ELSE handler[c]
    BY <1>0, <2>1 DEF ThreadTypeOK
  <2>4. info_queue_ \in Seq([conn : Conns, number : 1..MaxRecords])
    BY DEF IInv, TypeOK, InfoTypeOK
  <2>5. BoundInv' /\ RecordsOnceInOrder' /\ PendingInv' /\ FreshRecords'
         /\ TerminateNeedsLateAccept'
    BY <2>1, <2>3
    DEF IInv, BoundInv, RecordsOnceInOrder, PendingInv, FreshRecords,
        TerminateNeedsLateAccept
  <2>6. NumbersInv'
    BY <2>1, <2>3, <2>4 DEF IInv, NumbersInv
  <2>7. KnownInv'
    BY <2>1, <2>3 DEF IInv, KnownInv, Over
  <2>8. JoinedInv'
    <3>1. client_threads_ \in Seq(Conns)
      BY <1>0 DEF ThreadTypeOK
    <3>2. Range(client_threads_) \subseteq Conns
      BY <3>1 DEF Range
    <3> QED
      BY <2>1, <2>2, <2>3, <3>2 DEF IInv, JoinedInv, Joining
  <2> QED
    BY <2>5, <2>6, <2>7, <2>8 DEF RestInv
<1> QED
  BY <1>1, <1>2

\* The vector is destroyed: if nothing in it can be joined any more, no thread
\* is left.
LEMMA NoThreadLeft ==
    ASSUME IInv, ~Over, ~HoldsJoinable(client_threads_), NEW c \in Conns
    PROVE  handler[c] \in {"none", "joined"}
BY DEF IInv, KnownInv, HoldsJoinable

\* ... and if something can, a connection came late.
LEMMA HoldsLate ==
    ASSUME IInv, HoldsJoinable(client_threads_),
           \/ Joining /\ visit = <<>>
           \/ main \in {"empty", "stopped"}
    PROVE  late
<1>1. CASE Joining /\ visit = <<>>
  BY <1>1, RangeOfEmpty DEF IInv, JoinedInv, HoldsJoinable
<1>2. CASE main \in {"empty", "stopped"}
  BY <1>2, RangeOfEmpty DEF IInv, JoinedInv, HoldsJoinable
<1> QED
  BY <1>1, <1>2

\* The vectors are cleared, emptied with the records, or destroyed.
LEMMA ForgetStep ==
    ASSUME IInv, ~Over, ForgetClients \/ EmptyInfo \/ Destroy
    PROVE  RestInv'
<1> USE DEF objectVars, networkVars, roundVars, historyVars
<1>0. UNCHANGED <<handler, taken, late>>
  BY DEF ForgetClients, EmptyInfo, Destroy
<1>1. CASE ForgetClients
  <2>1. /\ main' = IF HoldsJoinable(client_threads_) THEN "terminated"
                   ELSE IF main = "clear" THEN "reset" ELSE "stop"
        /\ Joining /\ visit = <<>> /\ client_threads_' = <<>>
        /\ UNCHANGED <<info_queue_, round>>
    BY <1>1 DEF ForgetClients
  <2>2. BoundInv' /\ NumbersInv' /\ RecordsOnceInOrder'
    BY <1>0, <2>1 DEF IInv, BoundInv, NumbersInv, RecordsOnceInOrder
  <2>3. KnownInv'
    BY <1>0, <2>1, NoThreadLeft DEF KnownInv, Over
  <2>4. TerminateNeedsLateAccept'
    BY <1>0, <2>1, HoldsLate DEF TerminateNeedsLateAccept
  <2>5. JoinedInv' /\ FreshRecords' /\ PendingInv'
    BY <2>1 DEF JoinedInv, FreshRecords, PendingInv, Joining
  <2> QED
    BY <2>2, <2>3, <2>4, <2>5 DEF RestInv
<1>2. CASE EmptyInfo
  <2>1. /\ main = "empty" /\ info_queue_' = <<>> /\ client_threads_' = <<>>
        /\ main' = IF HoldsJoinable(client_threads_) THEN "terminated"
                   ELSE "target"
        /\ leftover' = Unregistered
        /\ UNCHANGED <<backlog, accepted, executor>>
    BY <1>2 DEF EmptyInfo
  <2>2. BoundInv' /\ NumbersInv' /\ RecordsOnceInOrder'
    BY <1>0, <2>1 DEF IInv, BoundInv, NumbersInv, RecordsOnceInOrder
  <2>3. KnownInv'
    BY <1>0, <2>1, NoThreadLeft DEF KnownInv, Over
  <2>4. TerminateNeedsLateAccept'
    BY <1>0, <2>1, HoldsLate DEF TerminateNeedsLateAccept
  <2>5. FreshRecords'
    BY <1>0, <2>1, NoThreadLeft, RangeOfEmpty DEF FreshRecords
  <2>6. JoinedInv' /\ PendingInv'
    BY <2>1 DEF JoinedInv, Joining, PendingInv, Unregistered, OfThisRound
  <2> QED
    BY <2>2, <2>3, <2>4, <2>5, <2>6 DEF RestInv
<1>3. CASE Destroy
  <2>1. /\ main = "stopped"
        /\ main' = IF HoldsJoinable(client_threads_) THEN "terminated"
                   ELSE "destroyed"
        /\ UNCHANGED <<info_queue_, client_threads_, round, visit>>
    BY <1>3 DEF Destroy
  <2>2. TerminateNeedsLateAccept'
    BY <1>0, <2>1, HoldsLate DEF TerminateNeedsLateAccept
  <2> QED
    BY <1>0, <2>1, <2>2
    DEF IInv, RestInv, BoundInv, NumbersInv, RecordsOnceInOrder, KnownInv,
        JoinedInv, PendingInv, FreshRecords, Over, Joining
<1> QED
  BY <1>1, <1>2, <1>3

-----------------------------------------------------------------------------
(* The handlers                                                            *)

\* A thread for a connection: it is known, and no older than the round unless it
\* was left over.
LEMMA RegisterStep ==
    ASSUME IInv, ~Over, Register
    PROVE  RestInv'
<1> USE DEF objectVars, networkVars, roundVars, historyVars
<1>1. /\ client_threads_' = Append(client_threads_, accepted)
      /\ handler' = [handler EXCEPT ![accepted] = "test"]
      /\ executor = "register" /\ executor' = "loop"
      /\ late' = (late \/ main \notin {"between", "target", "analysis"})
      /\ UNCHANGED main \/ main' = "crashed"
      /\ UNCHANGED <<info_queue_, taken, visit, round, backlog, openedIn,
                     leftover>>
  BY DEF Register
<1>2. /\ accepted \in Conns /\ client_threads_ \in Seq(Conns)
      /\ handler \in [Conns -> {"none", "test", "read", "push", "close", "done",
                                "joined"}]
      /\ info_queue_ \in Seq([conn : Conns, number : 1..MaxRecords])
  BY DEF IInv, TypeOK, InfoTypeOK, ThreadTypeOK, NetworkTypeOK
<1>3. \A c \in Conns :
        handler'[c] = IF c = accepted THEN "test" ELSE handler[c]
  BY <1>1, <1>2
<1>4. Range(client_threads_') = Range(client_threads_) \cup {accepted}
  BY <1>1, <1>2, RangeOfAppend
<1>5. \A i \in DOMAIN info_queue_ : info_queue_[i].conn \in Conns
  BY RecordTypes
<1>6. BoundInv' /\ RecordsOnceInOrder'
  BY <1>1, <1>3 DEF IInv, BoundInv, RecordsOnceInOrder
<1>7. NumbersInv'
  BY <1>1, <1>3, <1>5 DEF IInv, NumbersInv
<1>8. KnownInv'
  BY <1>1, <1>3, <1>4 DEF IInv, KnownInv, Over
<1>9. JoinedInv' /\ TerminateNeedsLateAccept'
  BY <1>1 DEF IInv, JoinedInv, TerminateNeedsLateAccept, Joining
<1>10. FreshRecords' /\ PendingInv'
  <2>1. main' \in {"target", "analysis"} => main \in {"target", "analysis"}
    BY <1>1
  <2>2. \A c \in Conns : OfThisRound(c)' <=> OfThisRound(c)
    BY <1>1 DEF OfThisRound
  <2>3. Unregistered = Range(backlog) \cup {accepted}
        /\ Unregistered' = Range(backlog)
    BY <1>1 DEF Unregistered
  <2>4. Unregistered \subseteq Conns
    BY UnregisteredConns
  <2>5. PendingInv'
    BY <2>1, <2>2, <2>3, <2>4 DEF IInv, PendingInv
  <2>6. \A rec \in Range(info_queue_) : rec.conn \in Conns
    BY <1>5 DEF Range
  <2>7. main \in {"target", "analysis"} => OfThisRound(accepted)
    BY <2>3 DEF IInv, PendingInv
  <2>8. FreshRecords'
    BY <1>1, <1>2, <1>3, <2>1, <2>2, <2>6, <2>7 DEF IInv, FreshRecords
  <2> QED
    BY <2>5, <2>8
<1> QED
  BY <1>6, <1>7, <1>8, <1>9, <1>10 DEF RestInv

\* A handler goes on: the record it pushes is newer than all it pushed before.
LEMMA HandlerInv ==
    ASSUME IInv, ~Over, NEW c \in Conns, HandlerStep(c)
    PROVE  RestInv'
<1>1. PICK from, to :
        /\ from \in {"test", "read", "push", "close"}
        /\ to \in {"test", "read", "push", "close", "done"}
        /\ from = "close" => to = "done"
        /\ to = "push" => from = "read" /\ taken' = [taken EXCEPT ![c] = @ + 1]
                                        /\ UNCHANGED info_queue_
        /\ from # "push" /\ to # "push" => UNCHANGED <<info_queue_, taken>>
        /\ from = "push" =>
             /\ to = "test" /\ UNCHANGED taken
             /\ info_queue_' =
                  Append(info_queue_, [conn |-> c, number |-> taken[c]])
        /\ HandlerGoesOn(c, from, to)
  <2>1. CASE TestClientExit(c)
    BY <2>1 DEF TestClientExit
  <2>2. CASE ReadRecord(c)
    BY <2>2 DEF ReadRecord
  <2>3. CASE ReadEnd(c)
    BY <2>3 DEF ReadEnd
  <2>4. CASE PushInfo(c)
    BY <2>4 DEF PushInfo
  <2>5. CASE CloseClient(c)
    BY <2>5 DEF CloseClient
  <2> QED
    BY <2>1, <2>2, <2>3, <2>4, <2>5 DEF HandlerStep
<1>2. /\ handler[c] = from /\ handler' = [handler EXCEPT ![c] = to]
      /\ UNCHANGED <<client_threads_, main, visit, round, openedIn, leftover,
                     late, executor, accepted, backlog>>
  BY <1>1 DEF HandlerGoesOn, roundVars, networkVars, historyVars
<1>3. /\ client_threads_ \in Seq(Conns)
      /\ handler \in [Conns -> {"none", "test", "read", "push", "close", "done",
                                "joined"}]
      /\ taken \in [Conns -> 0..MaxRecords]
      /\ info_queue_ \in Seq([conn : Conns, number : 1..MaxRecords])
      /\ MaxRecords \in Nat
  BY SocketAssumption DEF IInv, TypeOK, InfoTypeOK, ThreadTypeOK, NetworkTypeOK
<1>4. \A d \in Conns : handler'[d] = IF d = c THEN to ELSE handler[d]
  BY <1>2, <1>3
<1>5. /\ \A i \in DOMAIN info_queue_ : info_queue_[i].conn \in Conns
      /\ \A i \in DOMAIN info_queue_ : info_queue_[i].number \in Nat
      /\ \A d \in Conns : taken[d] \in Nat
  BY <1>3, RecordTypes
<1>6. KnownInv'
  BY <1>1, <1>2, <1>4 DEF IInv, KnownInv, Over
<1>7. JoinedInv' /\ TerminateNeedsLateAccept'
  <2>1. Range(client_threads_) \subseteq Conns
    BY <1>3 DEF Range
  <2> QED
    BY <1>1, <1>2, <1>4, <2>1
    DEF IInv, JoinedInv, TerminateNeedsLateAccept, Joining
<1>11. PendingInv' /\ \A d : OfThisRound(d)' <=> OfThisRound(d)
  BY <1>2 DEF IInv, PendingInv, Unregistered, OfThisRound
<1>8. CASE to = "push"
  <2>1. /\ from = "read" /\ UNCHANGED info_queue_
        /\ \A d \in Conns : taken'[d] = IF d = c THEN taken[c] + 1 ELSE taken[d]
    BY <1>1, <1>3, <1>8
  <2>2. BoundInv'
    BY <1>2, <1>4, <1>5, <2>1 DEF IInv, BoundInv
  <2>3. NumbersInv'
    BY <1>2, <1>4, <1>5, <2>1 DEF IInv, NumbersInv
  <2>4. RecordsOnceInOrder' /\ FreshRecords'
    BY <1>2, <1>4, <1>11, <2>1 DEF IInv, RecordsOnceInOrder, FreshRecords
  <2> QED
    BY <1>6, <1>7, <1>11, <2>2, <2>3, <2>4 DEF RestInv
<1>9. CASE from # "push" /\ to # "push"
  <2>1. UNCHANGED <<info_queue_, taken>>
    BY <1>1, <1>9
  <2>2. BoundInv' /\ NumbersInv'
    BY <1>2, <1>4, <1>5, <1>9, <2>1 DEF IInv, BoundInv, NumbersInv
  <2>3. RecordsOnceInOrder' /\ FreshRecords'
    BY <1>1, <1>2, <1>4, <1>9, <1>11, <2>1
    DEF IInv, RecordsOnceInOrder, FreshRecords
  <2> QED
    BY <1>6, <1>7, <1>11, <2>2, <2>3 DEF RestInv
<1>10. CASE from = "push"
  <2> DEFINE r == [conn |-> c, number |-> taken[c]]
             n == Len(info_queue_)
  <2>1. to = "test" /\ UNCHANGED taken /\ info_queue_' = Append(info_queue_, r)
    BY <1>1, <1>10
  <2>2. r \in [conn : Conns, number : 1..MaxRecords]
        /\ r.conn = c /\ r.number = taken[c]
    BY <1>2, <1>3, <1>10 DEF IInv, BoundInv
  <2> HIDE DEF r
  <2>3. /\ n \in Nat /\ DOMAIN info_queue_ = 1..n
        /\ DOMAIN info_queue_' = 1..(n + 1)
        /\ \A i \in 1..n : info_queue_'[i] = info_queue_[i]
        /\ info_queue_'[n + 1] = r
    BY <1>3, <2>1, <2>2
  <2>4. Range(info_queue_') = Range(info_queue_) \cup {r}
    BY <1>3, <2>1, RangeOfAppend
  <2> HIDE DEF n
  <2>5. \A i \in 1..n : info_queue_[i].conn = c =>
                          info_queue_[i].number < taken[c]
    BY <1>2, <1>10, <2>3 DEF IInv, NumbersInv
  <2>6. BoundInv'
    BY <1>2, <1>4, <2>1 DEF IInv, BoundInv
  <2>7. NumbersInv'
    <3> SUFFICES ASSUME NEW i \in 1..(n + 1)
                 PROVE  /\ info_queue_'[i].number
                             <= taken[info_queue_'[i].conn]
                        /\ handler'[info_queue_'[i].conn] = "push" =>
                             info_queue_'[i].number
                               < taken[info_queue_'[i].conn]
      BY <2>1, <2>3 DEF NumbersInv
    <3>1. CASE i = n + 1
      BY <1>4, <1>5, <2>1, <2>2, <2>3, <3>1
    <3>2. CASE i # n + 1
      <4>1. i \in 1..n
        BY <2>3, <3>2
      <4> QED
        BY <1>4, <1>5, <2>1, <2>3, <4>1 DEF IInv, NumbersInv
    <3> QED
      BY <3>1, <3>2
  <2>8. RecordsOnceInOrder'
    <3> SUFFICES ASSUME NEW i \in 1..(n + 1), NEW j \in 1..(n + 1), i < j,
                        info_queue_'[i].conn = info_queue_'[j].conn
                 PROVE  info_queue_'[i].number < info_queue_'[j].number
      BY <2>3 DEF RecordsOnceInOrder
    <3>1. i \in 1..n
      BY <2>3
    <3>2. CASE j = n + 1
      BY <2>2, <2>3, <2>5, <3>1, <3>2
    <3>3. CASE j # n + 1
      <4>1. j \in 1..n
        BY <2>3, <3>3
      <4> QED
        BY <2>3, <3>1, <4>1 DEF IInv, RecordsOnceInOrder
    <3> QED
      BY <3>2, <3>3
  <2>9. FreshRecords'
    BY <1>2, <1>4, <1>10, <1>11, <2>1, <2>2, <2>4 DEF IInv, FreshRecords
  <2> QED
    BY <1>6, <1>7, <1>11, <2>6, <2>7, <2>8, <2>9 DEF RestInv
<1> QED
  BY <1>8, <1>9, <1>10

-----------------------------------------------------------------------------
(* The theorems                                                            *)

\* Nothing has been launched.
LEMMA InitInv == Init => IInv
<1> SUFFICES ASSUME Init
             PROVE  IInv
  OBVIOUS
<1>1. TypeOK
  <2>1. SelfConn \in Conns /\ MaxRecords \in Nat /\ MaxRounds \in Nat
    BY SocketAssumption DEF Conns
  <2>2. InfoTypeOK
    BY DEF Init, InfoTypeOK
  <2>3. FlagTypeOK
    BY DEF Init, FlagTypeOK
  <2>4. ThreadTypeOK
    BY <2>1 DEF Init, ThreadTypeOK
  <2>5. NetworkTypeOK
    BY <2>1 DEF Init, NetworkTypeOK
  <2> QED
    BY <2>2, <2>3, <2>4, <2>5 DEF TypeOK
<1> QED
  BY <1>1
  DEF Init, IInv, BoundInv, NumbersInv, KnownInv, JoinedInv, PendingInv,
      Joining, RecordsOnceInOrder, FreshRecords, TerminateNeedsLateAccept

\* Every step keeps the invariant.
LEMMA NextInv == IInv /\ [Next]_vars => IInv'
<1> SUFFICES ASSUME IInv, [Next]_vars
             PROVE  IInv'
  OBVIOUS
<1>1. CASE Next
  <2>1. TypeOK'
    BY <1>1, TypeStep
  <2>2. ~Over
    BY <1>1 DEF Next
  <2>3. RestInv'
    BY <1>1, <2>2, QuietStep, ShutdownClientStep, ForgetStep, RegisterStep,
       HandlerInv
    DEF Next, MainStep, ExecutorStep
  <2> QED
    BY <2>1, <2>3 DEF RestInv, IInv
<1>2. CASE UNCHANGED vars
  <2> USE <1>2 DEF vars, objectVars, networkVars, roundVars, historyVars, IInv
  <2>1. TypeOK'
    BY DEF TypeOK, InfoTypeOK, FlagTypeOK, ThreadTypeOK, NetworkTypeOK
  <2>2. BoundInv' /\ NumbersInv' /\ KnownInv' /\ JoinedInv'
    BY DEF BoundInv, NumbersInv, KnownInv, JoinedInv, Over, Joining
  <2>3. RecordsOnceInOrder' /\ TerminateNeedsLateAccept'
    BY DEF RecordsOnceInOrder, TerminateNeedsLateAccept
  <2>4. PendingInv' /\ FreshRecords'
    BY DEF PendingInv, Unregistered, FreshRecords, OfThisRound
  <2> QED
    BY <2>1, <2>2, <2>3, <2>4
<1> QED
  BY <1>1, <1>2

\* The invariant of the server and its threads.
THEOREM Invariant == Spec => []IInv
BY InitInv, NextInv, PTL DEF Spec

\* Every variable keeps its type, and no handler reads more than was sent.
THEOREM TypeCorrect == Spec => []TypeOK
<1>1. IInv => TypeOK
  BY DEF IInv
<1> QED
  BY Invariant, <1>1, PTL

\* For any number of handlers, the records of a connection are collected once
\* and in the order in which they were sent (socket_server.cpp:83-92).
THEOREM RecordsInOrder == Spec => []RecordsOnceInOrder
<1>1. IInv => RecordsOnceInOrder
  BY DEF IInv
<1> QED
  BY Invariant, <1>1, PTL

\* What analysis() reads came over connections that the target of this round
\* made, or over those that were not yet registered when the round began and so
\* escaped clear() and update() (socket_server.cpp:18-22, socket_server.hpp:35).
THEOREM RecordsAreFresh == Spec => []FreshRecords
<1>1. IInv => FreshRecords
  BY DEF IInv
<1> QED
  BY Invariant, <1>1, PTL

\* A fuzzer whose connections all come while it waits for a target is not ended
\* by std::terminate() (socket_server.cpp:6, 71-73).
THEOREM TerminateNeedsLate == Spec => []TerminateNeedsLateAccept
<1>1. IInv => TerminateNeedsLateAccept
  BY DEF IInv
<1> QED
  BY Invariant, <1>1, PTL

=============================================================================
