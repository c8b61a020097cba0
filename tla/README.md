# ROCF in TLA+

ROCF is a coverage-guided fuzzer for ROS 2 programs.  Its source consists of
plugins, most of them concurrent: seed pools that live in a process of their own
and talk to the fuzzer through FIFOs, a socket server that collects call stacks
from the program under test, an analysis that turns them into coverage, and
helpers that run commands, mutate data and write logs.  This directory holds
TLA+ models of these plugins, configurations that check them with TLC, and
theorems proved with TLAPS.

To run everything: `tlc -config X.cfg M` for each run of `PROJECT.json`, and
`tlapm M.tla` for each `*Proofs.tla` and for `SequenceRanges.tla`.

## 1. The system

Paths are relative to `src/code/`.

| component | state | operations | what is hard |
|---|---|---|---|
| `SeedPoolThread` (`seed_pool/src/seed_pool_thread.cpp`) | the pool, a queue of acknowledged seeds, a queue of prepared seeds, a mutex, an exit flag, two descriptors | `launch`, `shutdown`, a callback thread, an update thread | one queue is unlocked, one is locked in part; non-blocking opens; shutdown at any point |
| `SeedPoolUser` (`seed_pool_user.cpp`) | two descriptors | `addSeed`, `pickSeed` | blocking opens, polling reads, being killed |
| `SeedPool`, `Seed` (`seed_pool.cpp`) | priority queue and mirror | add, pick, read files, parse | sums of weights |
| `FileSeedPoolThread` (`file_seed_pool_thread.cpp`) | folder of temporary files | store a file, restore the best, clean up | names made of seconds, exceptions |
| `FileSeedPoolProc`, `SeedPoolProc` | lists of pools | create, launch all, shut all down | names |
| `SeedPoolServer` (`seed_pool_server.cpp`) | an int shared by two processes | `launch`, `shutdown(num)` | a handshake by polling; the int is both a signal and a number |
| `SocketServer` (`hook/src/socket_server.cpp`) | records, threads, sockets, two flags | `launch`, `clear`, `update`, `result`, `shutdown`, destructor, a thread per connection | threads that must be joined, accesses outside the lock, late connections |
| `HookCommunicator` (`hook/src/hook_communicator.cpp`) | covered sequences, two counts | `launch`, `update`, `analysis`, `shutdown` | nested loops that rebuild queues and erase while they iterate |
| `SharedMemProvider` | table of delays | `open`, `update`, `close` | empty sequence of delays |
| `queue_usr_input`, `usr_input` (`usr_input/src/`) | a queue of commands, the command at hand, a lock, three flags | `launch`, `join`, `update`, `shutdown`, destructor; a thread that runs the queue | a pointer and flags used by two threads outside the lock; a request that is cleared by the next command |
| `CommandProcess` (`header/src/new_popen.cpp`) | two process ids and a result in shared memory | `new_popen`, `if_finished`, `get_outputs`, `shutdown`, `join` | a child and a grandchild, signals some programs ignore, zombies |
| `Mutator`, `Knobs` (`mutator/`) | bytes, two limits, an alignment, a dictionary | seven random mutations, chosen by weights | sizes and offsets |
| `YamlMutator` (`mutator/include/yaml_mutator_base.hpp`) | a YAML node | mutate one part of it, again and again | text that is read as another kind |
| `DataProviderThread` | a pool whose seeds are mutated when they are prepared | as `FileSeedPoolThread` | does not compile |
| `Configer`, `Logger`, `yaml_helper` | settings, files | read, write | input and output |

How they interact.  A fuzzer process owns a `SeedPoolServer`, which forks the
process of the pools: the *server handshake* goes through shared memory.  Any
process may be a `SeedPoolUser`: *requests and replies* go through two FIFOs per
pool.  Inside a pool the two threads *share the two queues*.  The fuzzer's
thread, the executor and the handlers of a `SocketServer` *share its vectors and
flags*; targets connect through *sockets*.  `HookCommunicator` calls the socket
server round by round and analyses what it collected.  While the target runs, the
fuzzer's thread hands a queue of commands to a `queue_usr_input`, whose thread runs
them as processes and *shares flags and a pointer* with it.  A seed is a YAML node;
a `YamlMutator` gives the bytes of its scalars, one at a time, to a `Mutator`, and both choose what
to do by the *weights* of `Knobs`.

What makes each correct:

* pool: no acknowledged seed is lost; a reply answers the request it was sent
  for; a pick yields a seed of the pool; requests are answered; `shutdown()`
  returns and leaves the pool alone;
* server: when `launch()` or `shutdown()` returns, what it promises of the other
  process is true; the most valuable seeds are kept; restored files stay;
* socket server: a record is collected once and in order; no record of an earlier round
  comes into a later one, other than through the backlog of the socket; `clear()` and
  `shutdown()` come to an end, and the process survives them;
* analysis: the sequences are the groups the paper's steps describe; coverage
  never loses a behaviour, and the gain tells whether a run brought a new one;
* commands: one at a time; each one that was started ends and is waited for; what
  is returned is the output of the command that was asked for, as far as there is room
  for it; `shutdown()` returns and leaves none running;
* mutations: a mutant is within the limit, aligned, not empty and inside its
  buffer, as far as the code sees to it (the runs and section 3 say where it does not);
  a node keeps its keys and the types of its values; each alternative has the chance of
  its weight.

`PROJECT.json` lists the hazards of the code line by line, with the properties
that watch each of them.

## 2. The modules

| module | models | shape |
|---|---|---|
| `SeedStore` | what a pool promises | abstract specification |
| `SeedPoolThread` | one pool and its user process | one program counter per thread; a step is what runs between two points at which other threads matter |
| `FileSeedPool` | what pools of files add: stores, restoring, cleaning | actions for `SeedPoolServer`, which extends it |
| `SeedPoolServer` | both processes of the server and all its pools | composes the handshake with `FileSeedPool` |
| `SocketServer` | the socket server and the rounds of the fuzzer | as `SeedPoolThread` |
| `HookAnalysis` | `analysis()` | its loops as folds over sequences; one action |
| `CommandProcess` | a shell command in a child and a grandchild | actions and helpers for `UsrInput`, which extends it |
| `UsrInput` | the queue of commands and the two threads of its object | as `SeedPoolThread`; composes with `CommandProcess` |
| `Mutator` | the sizes of data, settings and dictionary | one action per call |
| `YamlMutator` | the mutations of a YAML node | an operator per kind of node and functions over the levels of nodes; gives the sizes of scalars to `Mutator`, which it extends |
| `WeightedChoice` | the two choices by weights | operators with a reference definition each |
| `MC*` | constants for TLC | |
| `SequenceRanges` | lemmas on the range of a sequence, induction over numbers, folds and recursive functions | proofs |
| `SeedPoolThreadProofs`, `SeedPoolServerProofs`, `FileSeedPoolProofs`, `SocketServerProofs`, `UsrInputProofs`, `HookAnalysisProofs`, `MutatorProofs` | theorems | proofs |

Definitions keep the names of the source; the comment before an action says
which code it is.  A definition whose comment starts with `Fault:` is not part of
any specification: it is the mutated form of the one that follows it, with
which `PROJECT.json` shows that a property notices such a bug.

### SeedPoolThread

Program counters: `main` is the thread that calls `launch()` and `shutdown()`,
`callback` and `update` are the pool's threads, `user` is a process that calls
`addSeed()` or `pickSeed()`.  Variables ending in `_` are the members of the
class.  The steps of the callback thread follow `startCallbackThread()`: the loop
test, one step per `open()`, reading, then either the pick (`TryPick`,
`LockForPop`, `PopNothing` or `PopPrepared`, `SendSeed`) or the store
(`PushUnstored`, `SendAck`).  The update thread alternates `StoreFront` and
`PopUnstored`, which the code does not protect, with the preparation of a seed.

* FIFOs are sequences of whole messages: they are shorter than `PIPE_BUF`, and
  one `read()` returns all there is.  Two messages read at once are one text,
  `Garbled` (or `NoSeed` if no number stands first).
* `open_PoolToWork` and `open_WorkToPool` count the open descriptors, those that
  no member names any more included, because `openPipes()` forgets some.
* A FIFO is taken to keep its content while some process has it open; a user
  that is killed and the next one share it.  This is the worst case for stale
  replies and the reason why most properties speak of `crashes = 0`.
* `write()` to a FIFO without a reader ends the process by SIGPIPE; nobody
  handles it.
* Data races.  `unstored_seed_` is pushed and popped without a lock.  A `deque`
  keeps its two ends apart, so that the outcomes of a build are the sequential
  one and, where `push()` reallocates the map under a running `front()` or
  `pop()`, a crash: `RaceCrashes` lets `PushUnstored` end the process whenever
  the update thread is inside.  `prepared_seeds_.size()` is computed from four
  pointers; while `pop()` runs it may be any number, and so both branches of
  `update_prepared_seeds()` are possible (`SeemsFull`, `SeemsToHaveRoom`).  The
  flags are plain `bool`s read in loops that call `sleep_for()` or `read()`; the
  compiler must read them anew, so that they are modelled as atomic.

### FileSeedPool and SeedPoolServer

`parent` and `child` are the two processes.  A seed is a content, a name and a
weight; the name of a stored file is the second of its store, as in `stamp()`.
Pools are launched and shut down one by one (`LaunchPool`, `StopPool`); a copy of
`restore_for_future()` is one step, so that the clock may tick between two.  `up`
holds the pools whose threads run; their stores go on until the join.  `waiting` holds
the threads that wait for a mutex nobody will unlock: a pick that finds nothing prepared
(`PickFromEmpty`) leaves it locked, the update thread follows when it prepares its next
seed (`UpdateGoesOn`), and the join of such a pool blocks (`JoinBlocked`, the guard of
`StopPool`), so that neither `shutdown()` nor the child gets any further.  An
exception nobody catches (`StoreDies`, `RestoreDies`), and a pool that ends its process as
`SeedPoolThread` shows (`PoolDies`), ends the child; the parent
then polls for ever, which the liveness properties name.  `ToInt` is the
conversion of the `uint64_t` argument; `IntHalf` scales the int down for TLC.

### SocketServer

`main` does what `fuzzer_simulation.cpp` does with a `HookCommunicator`: a round
is `clear()`, `update()`, a target, `analysis()`.  Joins are steps; the vector of
threads is a sequence of connections, and clearing it while one of them is not
joined is `std::terminate()`.  Sockets are connections that carry numbered
records.  A target may leave connections in the backlog when it exits: they are accepted
later, maybe in a later round, and read there with what was written to them.  `openedIn`
says which round's target made a connection, and `leftover` holds those which were not
registered when `update()` emptied the queue (`Unregistered`).  With
`RaceCrashes`, an append that overlaps the loop of `shutdown_client()` and a copy
of `info_queue_` that overlaps a push may end the process.

### HookAnalysis

A call stack is a record as in `hook_def.hpp`.  `Pairs`, `Combine` and `Merge` are
steps 2, 3 and 4 of `analysis()`, written as folds in the order of the loops,
because the order decides which sequence comes first and what is erased.
Covered sequences are kept as keys, the functions of their pairs: nothing else of
them is compared.  `FuncHashes` and `Threads` are what call stacks name; `Schedules`
are the sequences of call stacks that a run of the target may report, of which
nothing is assumed, for the program that reports them is not among the sources: two
calls may bear the same times, and a call may end before it starts.

### CommandProcess and UsrInput

`main` is the fuzzer's thread, `worker` the one that runs `do_queue()` and
`getCommandBack()`; both call `shutdown_command_()`, whose four steps are written
once.  A step ends where the other thread can tell the difference, so that the use
of `sub_proc_` and of the flags outside `shutdown_lock_` is interleaved as in the
code.

* `procs` holds every command ever started: whether its child is `forked` (its id
  not yet in shared memory), running, ended or waited for, whether bash and what
  it runs still live, and how much of the output is in the shared result.
* What the shared memory holds of a text is nothing, a part while `strcpy()` runs, or one
  of `Copies`: the whole; what stands before a NUL in it; or as much as the 10^7 bytes
  hold.  A text that is longer (`Overrun`) runs over what is mapped behind them: this may
  kill the child in the middle of the copy, or overwrite its id (`pidLost`), so that
  nobody can signal it or wait for it any more.  The reader of a memory that is full to
  its end may end the process (`ReadOver`).
* What bash runs may ignore the signal, so that it may survive, be cut or end by itself.
* `UseNull` is a call through `sub_proc_` after the other thread reset it.  The
  same action stands for an object that goes while a method of it runs: both are
  undefined, and the model takes the end of the process as their outcome.
* An exception that leaves the thread (`UnknownType`) ends the process; the
  commands go on as orphans.
* The caller launches only what it joined or updated, and destroys only what it
  shut down, as the test does: anything else is `std::terminate()` by the language.
* `usr_input_exit_flag_` stays set after `shutdown()`: a queue launched again is
  finished at once.  `update()` resets it.

### Mutator, YamlMutator, WeightedChoice

`Mutator` keeps only sizes, for every test of the code is about them.  A random
number is any number of its range, so that its generator needs no state; sizes are
`size_t` and wrap at `SizeMax + 1`.  The assumption `SizesFit` says that data are
far from that limit.  An alignment of zero is accepted by `set_size_alignment()` while there
is no limit; what divides by it later ends the program (`fault` is "divided", the trap of
an x86 processor), as an insertion behind its buffer makes `fault` "overrun".  The size of
an entry of the dictionary is kept in one byte; entries of
256 bytes and more, whose size the code truncates, are left out.
`Mutate(data)` takes the size of the array it is given, so that the caller of a plain
`Mutator` and the scalars of a `YamlMutator` use the same definition.

`YamlMutator` distinguishes scalars by how they are read: `ValueType` tries the types
in the order of `getValueType()`, and a scalar becomes any text that its mutation may
write.  A double which became a whole number is written with decimals (`DoubleText`), or
it would be an integer when it is read again.  A node is a scalar, a list of nodes or a
map from `Keys` to nodes, with `Absent` where it has no such key; `Nodes[n]` are those
of at most n levels.  The operators that follow the code speak of one level: they take
what the mutations make of the parts of a node as an argument, and `Mutants` ties the
levels together.  `Broken` is what an empty map leads to, whose keys `mutate_yaml()`
draws from without a test.  A behaviour is either one of a plain `Mutator`, with a caller
that may use every setter, or one of `API_mutate()`, which sets the weights and mutates a
node `MaxDepth` times.  There `mutate_once` gives the bytes of a scalar of the node, four,
eight or one, to `Mutate`; `ByteSizes` says which sizes a node has.  Which scalar it was
is not recorded: any bytes may come of any bytes, so that what is read from them does not
depend on it.

`WeightedChoice` writes the loop of `Knobs::Choose()` and that of
`SeedPool::pickSeed()` as they stand, and beside each what it should do: among all
random numbers, each alternative is chosen as often as its weight says.

## 3. The runs

| run | shows | bounds |
|---|---|---|
| `pool_safety` | messages alternate, replies match, no acknowledged seed is lost, at most `PreparedMax` are prepared, SIGPIPE needs a killed user, nothing moves after the join | a normal, a wide and a huge seed, one initial seed, a killed user, 2 for the 5 prepared seeds, 3 descriptors, races that crash |
| `pool_liveness` | the pool implements `SeedStore`; stores are answered and stored; `shutdown()` returns; each unless the process ended (and, where a thread has to take the mutex, unless it was left locked) | the same seeds and bounds, races that crash, an empty pool to start with, so that an empty seed is prepared, and no killed user |
| `server` | the handshake is honest; the most valuable seeds are restored; of stores in one second the last is kept; what `shutdown()` leaves behind are the latest seeds; `launch()` returns unless the child died, `shutdown()` unless the child died, a mutex was left locked or the number became a signal | 2 file pools, 1 regular, 2 launches, 3 stores, 2 seconds, an int of 4 bits |
| `socket_rounds` | records come once and in order; they are of the round, or came over a connection left in the backlog before it; `std::terminate()` needs a late connection; `clear()` returns and `shutdown()` does not wait for ever | 2 connections of 2 records, 2 rounds, races that crash |
| `analysis` | step 3 yields the groups; step 4 adds exactly what the run showed; the gain is positive exactly when coverage grew; covered sequences are prefixes of one another only if one run showed them as such | every schedule of at most 3 of 7 call stacks, of 4 of 4, and some that repeat one, two in a row |
| `commands` | one command at a time, none forgotten but one whose output ran over its id; a survivor of `shutdown()` was started behind its back; a null pointer needs a `shutdown()`; outputs are those of their command and were copied to their end; `finished()` tells the truth; `shutdown()` returns | 2 launches, queues of at most 2 entries with an unknown kind, an empty one and one that is no sequence |
| `mutation` | inserted bytes stay in the buffer for alignments up to its size (larger ones run over it), and always in a `YamlMutator`; mutants are within the limit and not empty, and what was erased or inserted is aligned, but for entries of the dictionary and a limit of zero; nodes keep their keys and the types of their values; choices follow the weights | sizes and limits up to 14 on both sides of every test, 6 alignments with 0 among them, a buffer of 4, entries of 3; 3 nodes of at most 3 levels with 5 keys, 2 mutations; all sequences of at most 4 weights up to 3 |

Why the bounds are enough: two messages suffice for a stale or a double reply,
and a second request to meet them; two prepared seeds distinguish "full", "one
left" and "empty"; three descriptors allow a leak and a connection after it.  Two
launches show what the first leaves behind, two seconds give equal and different
names, and an int of 4 bits has numbers that fit, wrap to positive and wrap to
negative.  Two connections make one handler late for another, two rounds make
one late for a round.  Three calls give sequences of two pairs for one thread,
and pairs of several threads; two analyses compare new sequences with old ones.
Two commands make one late for the other, two launches show what a `shutdown()` or
an `update()` leaves.  The alignments divide the limits and the buffer, or do not,
or exceed them, or are zero; that is all the arithmetic of `Mutator` can tell.  Nodes hold every
kind of scalar, nested and empty maps and lists.

`SeedPoolThread`, `SeedPoolServer`, `SocketServer`, `UsrInput` and `Mutator` have a
type invariant each.  These are not among the properties of the runs, because they
are proved for all constants.

Five runs end in a counterexample; each is a disagreement of the code with what
its comments or its tests say (`findings` in `PROJECT.json` quotes them):

* `pool_pick_blocks`: `pop_prepared_seed()` returns with the mutex locked when
  nothing is prepared.  The retry deadlocks with itself, then with the update
  thread, and `shutdown()` cannot join.
* `pool_descriptors`: each `openPipes()` that gets only one descriptor loses it.
* `server_restore`: files of one name restored in one second make `copy()` throw
  in the child.
* `socket_exit`: the connection that wakes the executor up gets a handler that
  nobody joins, and the destructor of the vector terminates the process.
* `mutation_sizes`: an entry of the dictionary makes data longer than `max_len_`,
  which is documented as the "max length of a generated mutant".  Such an insertion is
  not aligned either, and a limit of zero lets `EraseBytes()` empty the data.

A further disagreement is stated by a property that holds: `hook_communicator.hpp:45`
promises to remove duplicates, but the new sequences of one run are compared with the old
ones only, so that equal sequences and prefixes among themselves stay and are counted.
`PrefixesAreOwn` says that no others do.

In the liveness runs these are the exceptions the properties name: `LockLeaked` in a pool
and `JoinBlocked` in its server; a process that has ended (by a race, a request that fills
the buffer, or an exception); a number taken for a signal.  `crashed` is that
of `UsrInput`: with a null pointer, an exception or a read behind the shared memory the
process is over.

**Deadlock** is not checked (`CHECK_DEADLOCK FALSE`): every system here may stop,
when the process has exited, when the bounds are used up, or when a user waits
for a pool that has gone.

**Fairness.**  Weak fairness of each thread or process that runs: `Callback`,
`Update`, `User`, the end of `shutdown()`; `ParentStep` and `ChildStep`;
`MainStep`, `ExecutorStep` and each handler; `MainReturns`, `WorkerStep` and
`ChildrenStep`.  The loops of the code sleep or block
in system calls and are scheduled by the operating system; a thread waiting for
a mutex, for a join or in `read()` is not enabled, so that no fairness is
assumed of what cannot run.  Nothing is fair about calls the environment may
not make: no request, no `launch()` or `shutdown()`, no store, no tick of the
clock, no connection, no record, no queue and no `join()` or `update()`; and a command
need not end (`BashStep` is not fair): what `shutdown()` waits for is the child, which
its signals end.  A target always ends (`TargetExits` belongs
to `MainStep`): the fuzzer waits for it with `waitpid()` and the simulated one
ends by itself.

## 4. The proofs

All theorems hold for every value of the constants that satisfies the named
assumptions; TLC evaluates these on its instances.

`SeedPoolThreadProofs`:

* `TypeCorrect`.  `TypeOK` is strengthened by `Held`: a valid descriptor of a
  running pool is among the open ones (else `closePipes()` would make a count
  negative), and `pop()` meets a non-empty queue, for between `front()` and
  `pop()` only the other thread moves, and it only pushes.
* `PreparedBounded`.  The size test is outside the mutex; the bound holds because
  only the update thread pushes, so that what it has seen can only shrink before
  it pushes.  A test that overlaps a `pop()` may be wrong, but then the queue has
  just been or is about to be shortened: `PreparedInv` says for each place of the
  update thread how many entries there may be.
* `MessagesAlternate`, `NoBrokenPipe`.  `FlowInv`: the messages in both FIFOs plus
  the one in work are at most the waiting user plus the killed ones.  Hence a
  reply without a reader needs a kill.
* `RepliesMatch`, `AckedSeedsKept`, `PicksAreAcked`.  Without kills `Protocol` fixes
  what each FIFO holds at each place of callback and user, and `Provenance` says
  that every seed stored, queued, prepared or in a reply is an initial one, an
  acknowledged one or that of the open request.
* `QuietAfterJoin`.  `JoinInv`: after the joins both threads are done or never ran.
* `ImplementsStore`.  Under `MaxCrashes = 0` every step of the pool is a step of
  `SeedStore` or a stutter; the seed is accepted by `PushUnstored`, the answer
  appears with `UserRead`.

`SeedPoolServerProofs`:

* `HandshakeIsHonest`.  `Phases` lists for each place of the parent where the child
  can be and what the flag holds; `Visits` says which pools the child's loop has
  still to visit.  It assumes that no argument of `shutdown()` becomes the code
  of `CLEANUP_STATE` as an int: with such a number `shutdown()` does return at
  once.
* `TypeCorrect`, `RestoredFilesStay`: restored files are never changed or removed, which
  no run checks.

`FileSeedPoolProofs`:

* `StoresKeepTheLast`.  `LastStoreKept` is inductive once no seed has a number still
  to be given (`NumbersInv`): what is stored next is newer than all that is there.
* `LatestAreLeft`.  `QueueInv` orders what waits; `EmptyInv` says that no files are
  left outside of a folder or without a child, so that a new child finds none.
* `CopiesAreMostValuable`.  `FreshInv`: nothing is copied before the number has come,
  so that seeds that still arrive cannot disturb the order (`OrderInv`); `CountInv`
  and `PassedInv` say how far the loop over the pools has come.  The last two
  theorems rest on the handshake, and on its assumption about the numbers.

`SocketServerProofs`:

* `TypeCorrect`, `RecordsInOrder`, `RecordsAreFresh`, `TerminateNeedsLate`, for any
  number of connections, records and rounds.  `RecordsAreFresh` does not say that all
  records are of the round: those of a connection left in the backlog need not be.
  The conjuncts of the invariant:
  `BoundInv` (a handler that holds a record has read one), `NumbersInv` (no collected
  record is newer than what its handler has read, and the one it holds is not in the
  queue), `KnownInv` (a thread that was started and not joined is in the vector),
  `PendingInv` (while a target runs, what is still to be registered is of this round or
  left over) and
  `JoinedInv` (unless a connection came late, what the loop of `shutdown_client()`
  has passed is joined, and the vector is empty after it).  The order in
  `info_queue_` alone is not inductive, for it does not say which record a handler
  holds.

`UsrInputProofs`:

* `TypeCorrect`, `NoneForgotten`, `SurvivorsStartLate`, `NullOnlyInShutdown`,
  `FinishedMeansEnded`, `OutputsAreWhole`, for any queues and number of launches. `LockInv` gives the
  lock to the thread that is where it is needed, `PlacesInv` and `SignalInv` say
  what `sub_proc_` and its child are at each place, `NoCommandInv` that the worker
  finds none when it starts the next, `EntryInv` that it has an entry then,
  `ExitInv` which flags hold while `shutdown()` is under way, `LostInv` and
  `LateInv` what is true of a pointer that is null, or not yet, when the other
  thread looks. `OnlyHeldCommandRuns` says nothing of the lock, so that it cannot
  be inductive: a second holder would drop a running command.

* `OutputsAreWhole` adds `OutputInv`, on what holds while nobody has asked for the exit.
  The command started last, then the one in hand, is that of the entry, and if its child
  has ended, its copy has come to an end, for no signal was sent to it (`StartedInv`,
  `InHandInv`).  That the copy holds the whole text is not stated: `strcpy()` may have met
  a NUL or the end of the shared memory.  Once line 160 has cleared the request to end
  it, there is none, so that the loop ends only when the child has (`PollInv`).

`HookAnalysisProofs`:

* `CombinedCorrect`, `CoverageCorrect`, `GainCorrect`, for schedules of any length over
  any functions and threads.  `AnalysisInv` says that the sequences of the last run are
  the groups of its pairs (`Grouping`), each pair once if each call stack came once, and
  that what is covered is a vector of keys.  An analysis establishes it whatever was
  before, so that all the work is in what one analysis computes.
* Each loop is unfolded into its rounds (`KeepLoop`, `PairsLoop`, `CombineLoop`,
  `MergeLoop`), and each has an invariant of its rounds.  `PairsAre`: the pairs found so
  far are those of the call stacks visited.  `CombineGroups`: the sequences are the
  groups of the pairs seen; two pairs are of one group exactly when they are in one
  sequence, which is why the first sequence that fits is the only one
  (`InsertPairGroups`), and `InsertInOrderInserts` keeps each in order.  `MergeCovers`:
  what both vectors cover together is what was covered before and what the sequences
  visited show; no sequence is new yet exactly when that is still what was covered
  before.  That what `EraseLoop` removes is covered by the sequence that removed it, or
  by the one that covers it in turn, is `EraseLoopErases`.
* `OnlyOwnPrefixes`: an analysis leaves no covered sequence that is a prefix of another
  if there was none and no sequence of the run itself is a prefix of another.  So a
  comparison of the new sequences with each other would keep the promise of the comment.
  `MergeSeparates` carries it: whatever the run shows, no covered sequence that step 4 leaves is comparable with a new one.

`MutatorProofs`:

* `TypeCorrect`, `BytesAlwaysFit`, `SizesOfMutants`, for all limits, alignments and
  sizes that fit, of a plain `Mutator` and of the one inside a `YamlMutator`.  Lemmas on
  remainders (what is left of a number after its remainder
  is a multiple, and not more) carry the arithmetic.  `MutatorInv` is the type,
  `LimitIsAligned` and `InsertFits`: the setters refuse a limit that is not a multiple
  of the alignment, so that `Mutate()` never rounds below or beyond it.  `OwnMutator` is what
  holds of the `Mutator` of a `YamlMutator`: no limit, an alignment of one, and so no
  fault.  `SizesOfMutants` has the exceptions that `MutantSizeIsRight` names: an entry of
  the dictionary is inserted past the limit and unaligned, and a limit of zero empties data.
* `MutantsKeepTypes`, for nodes of any number of levels over any keys, mutated as often
  as one likes.  `ShapeInv` adds to `ShapeKept` that the node is still one of `Nodes`.
  `MutantsKeepShape` says that one mutation keeps the shape or breaks at an empty map,
  `AlikeTransitive` that shapes kept twice are kept, and `EmptyMapsStay` that no mutation
  makes an empty map, so that the one which breaks the program was in the node that was
  given.  Each is proved for one level from what holds of the parts, and for all of them
  by `SetInduction` over the levels.
* `KnobsAreFair`, `SeedPicksAreFair`, about `WeightedChoice`, for all weights; the run
  `mutation` evaluates both for short sequences.  `SumsAre` gives the sums of the first
  n weights as a function, which does not shrink without negative weights (`SumsGrow`).
  `WalkEnds` says where the walk along the weights ends, also with negative ones, and
  `WalkIsFair` that the numbers which end it at a place are an interval as long as the
  weight.  Sums are integers: that those of the code fit their type is not stated.

`SequenceRanges` holds what these proofs need about the range of `Append`, `Tail` and
`\o`, and an induction.  The library's induction theorems take a predicate, which the
provers cannot instantiate; `SetInduction` takes a set of numbers instead, and follows
from the well-foundedness of `<` (`WFMin`).  With it `FoldExists` shows that the
function which a fold of `SequencesExt` chooses does exist, and so satisfies its
equations; `RecursionExists` does so for the functions over the levels of nodes.

Only model-checked: the liveness properties (`StoreAnswered`, `AckedGetsStored`,
`ShutdownReturns`, `LaunchReturns`, `ClearReturns`), which are outside of the prover's
reach, as is `ENABLED`.  Every invariant and every action property of the runs that pass
is stated by a theorem.

## 5. Not modelled

* `restore_for_future_all()`: -1 is `REQUEST_SHUTDOWN` when it reaches the flag, so
  that the server never calls it; `HandshakeHonest` and `ShutdownReturns` show what
  such a number does instead.
* Several users at once: the comment of `openPipes()` excludes them.
* A pool launched again on the same object: every caller forks a fresh copy.
* Partial reads of records and failing system calls other than those named.
* The second `close()` of descriptors their handlers have closed (`socket_server.cpp:23`):
  it would matter to a connection that was accepted in between, under the same number, and
  not yet registered.
* What an output of more than 10^7 bytes runs over: any outcome is possible; a `child_pid_`
  that was overwritten is a `waitpid()` which fails, and signals to the group of such a
  number are left out.
* Which of equal sequences and prefixes of one run step 4 of `analysis()` keeps is modelled,
  but no property calls it an error.
* A request that fills the buffer is an action, but what becomes of the seeds of the
  other pools of its process is not a property: no comment promises it.
* Names: `createSeedPool()` checks them within each of the two servers only.
* Reading the files of seeds (`SeedPool`): loops over a folder, without a protocol.
* `SharedMemProvider`: one loop fills a table, with a division by the length of a
  queue that may be empty; the segment is opened and removed by system calls.
* `Configer`, `yaml_helper`: they read and write one setting or file per call.
* `Logger`: each call appends a line; its `error()` logs its own failure to open the
  file, without an end if that fails again.
* Bytes, positions and the text of mutants: no test of `Mutator` depends on them.
* `pubROS2Lifecyle()`, `Choose2()`, `TossUp()`: nothing calls them.
* `DataProviderThread` (does not compile as it stands), the prebuilt fuzzer and
  hook library under `src/bin`, the scripts there, and `src/CVE-IDs`, which is data.

## 6. Plan

What is left, in the order of what it would show:

1. Several pools of a server with their names and users, composed from
   `SeedPoolThread` and `SeedPoolServer`: what two pools of one name do.
2. `yaml_helper` with `DataProviderThread`, once the latter compiles: whether what
   is prepared is what was mutated.
