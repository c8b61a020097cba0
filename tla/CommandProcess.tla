--------------------------- MODULE CommandProcess ---------------------------
(***************************************************************************)
(* A command that runs in processes of its own (new_popen.cpp).            *)
(* new_popen() forks a child, which becomes the leader of a new process    *)
(* group and tells its id through shared memory; the child forks a bash,   *)
(* reads what the command writes until the end, copies it into shared      *)
(* memory and exits.  The program learns of the end by waitpid() and ends  *)
(* a command by signals to the group.                                      *)
(*                                                                         *)
(* Of the text a command writes, the shared memory holds nothing, a part   *)
(* while it is copied, or in the end: the whole; what stands before a NUL  *)
(* in it, where strcpy() stops; or more than the 10^7 bytes that there is  *)
(* room for.  What such a text runs over is left open: the child may be    *)
(* killed, and child_pid_, mapped just before, may be overwritten.         *)
(* bash and what it runs are one process here: it may go on for ever, and  *)
(* may survive SIGINT and SIGTERM, as programs that handle them do.        *)
(***************************************************************************)
EXTENDS Naturals, Sequences

CONSTANT Commands       \* what a command may be

VARIABLE procs          \* the command_process objects, in order of creation

\* The places of the child, in the order it passes them.
Children == {"forked", "told", "reading", "copying", "copied", "zombie", "reaped"}

\* What the copy may leave when it comes to its end.
Copies == {"whole", "cut", "full"}

Texts == {"", "part"} \cup Copies

Process == [command : Commands, child : Children,
            bash : {"none", "running", "ended"}, result_ : Texts,
            pidLost : BOOLEAN]      \* whether child_pid_ was overwritten

\* is_child_alive(): waitpid() fails for a group that does not exist.
Alive(c) == procs[c].child \notin {"zombie", "reaped"} /\ ~procs[c].pidLost

\* The child is gone and the program has waited for it.
Reaped(c) == procs[c].child = "reaped"

\* The first fork.
NewPopen(command) ==
    procs' = Append(procs, [command |-> command, child |-> "forked",
                            bash |-> "none", result_ |-> "",
                            pidLost |-> FALSE])

\* The child moves from one place to the next.
ChildMoves(c, from, to) ==
    /\ procs[c].child = from
    /\ procs' = [procs EXCEPT ![c].child = to]

\* setsid(), and *child_pid_ = getpid(): only now can it be signalled.
TellPid(c) == ChildMoves(c, "forked", "told")

\* The second fork.
ForkBash(c) ==
    /\ procs[c].child = "told"
    /\ procs' = [procs EXCEPT ![c].child = "reading", ![c].bash = "running"]

\* The command ends by itself.
BashEnds(c) ==
    /\ procs[c].bash = "running"
    /\ procs' = [procs EXCEPT ![c].bash = "ended"]

\* The pipe is at its end and bash was waited for; strcpy() begins.
BeginCopy(c) ==
    /\ procs[c].child = "reading"
    /\ procs[c].bash = "ended"
    /\ procs' = [procs EXCEPT ![c].child = "copying", ![c].result_ = "part"]

\* strcpy() has found the end of the text, or a NUL before it.
EndCopy(c) ==
    /\ procs[c].child = "copying"
    /\ \E text \in {"whole", "cut"} :
         procs' = [procs EXCEPT ![c].child = "copied", ![c].result_ = text]

\* strcpy() runs on behind the shared memory: into nothing, which kills the
\* child, or into what is mapped there.
Overrun(c) ==
    /\ procs[c].child = "copying"
    /\ \E child \in {"copied", "zombie"}, lost \in {procs[c].pidLost, TRUE} :
         procs' = [procs EXCEPT ![c].child = child, ![c].result_ = "full",
                                ![c].pidLost = lost]

\* execlp("/bin/true"), which exits.
ChildExits(c) == ChildMoves(c, "copied", "zombie")

ChildStep(c) ==
    \/ TellPid(c) \/ ForkBash(c) \/ BeginCopy(c) \/ EndCopy(c) \/ Overrun(c)
    \/ ChildExits(c)

\* kill() of the whole group: nothing in the child handles the signals.
Signalled(c, survives) ==
    [procs EXCEPT ![c].child = "zombie",
                  ![c].bash = IF @ = "running" /\ ~survives THEN "ended" ELSE @]

\* Fault: it is seen that the child has ended, but nobody waits for it.
NotWaited(c) == procs

\* waitpid() takes the status of a child that has ended, if its id is known.
Waited(c) ==
    [procs EXCEPT ![c].child = IF @ = "zombie" /\ ~procs[c].pidLost
                               THEN "reaped" ELSE @]

\* join(), and the destructor gives the shared memory back.
Released(c) == [Waited(c) EXCEPT ![c].result_ = ""]

\* shutdown(): signals until waitpid() says that the child is gone.  The
\* child is the only member of the group that is waited for.
Shutdown(c) ==
    \/ /\ Alive(c)
       /\ \E survives \in BOOLEAN : procs' = Signalled(c, survives)
    \/ /\ ~Alive(c)
       /\ procs' = Waited(c)

=============================================================================
