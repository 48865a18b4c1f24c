# A TLA+ model of the CS 241 machine problems

The repository holds the solutions to eight machine problems (`mp1` ... `mp8`)
of a systems programming course, with exercises for its discussion sections
(`ds*`) and one homework. Each machine problem is a program, or a library with
test programs, of its own; what they have in common is that they schedule,
synchronise and wait. The modules here model the ones in which that is hard.

## 1. What the repository consists of

| Part | State | Operations | Interacts with | What is hard | What makes it correct |
|---|---|---|---|---|---|
| `mp6/libwfg.c` wait-for graph | queue of wait and hold edges | add wait edge, add hold edge, remove edge, get cycle | called by libdrm under `mutex_wfg` | first-match removals, the walk over a changing graph | edges are those of an abstract graph; a cycle is returned iff there is one |
| `mp6/libdrm.c` deadlock resilient mutexes | a graph or, with prevention, owner records; a pthread mutex per `drm_t` | `drm_init`, `drm_destroy`, `drm_lock`, `drm_unlock`, detector thread, `drm_cleanup` | client threads, main, libwfg, `SIGUSR1` | edge, check and blocking are separate sections; records and the queue of mutexes are read without a lock; signals | no deadlock (avoidance, prevention), a deadlock is broken unless the detector's walk is lost (detection), locks are exclusive, no error exit, calls return |
| `mp6/example-DD.c` | two mutexes | two threads, a `SIGUSR1` handler | libdrm | the handler runs anywhere in libdrm | a victim leaves nothing behind |
| `mp5/parser.c` | rules read from a makefile | parse, filter on targets, three callbacks | parmake | repeated passes over the rules | the rules the targets need, and no others |
| `mp5/parmake.c` | `new_rules`, `ready_rules`, two mutexes, a condition variable | worker threads | parser, commands | a broadcast under the wrong mutex, scans that race with `ready_rules` | dependencies first (of names with one rule), each rule once, no rule forgotten, ends |
| `mp7/libmapreduce.c` | processes, pipes, buffers, dictionary | map all, reduce all, get value, worker thread | forked processes, select, libdictionary | select timeouts, full pipes, reads that end in a line, values replaced in two steps | no line reduced twice or out of order; `get_value` gives what is reduced so far; `reduce_all` returns after all of it |
| `mp4/libscheduler`, `mp4/libpriqueue` | jobs on cores, jobs in a priority queue, statistics | new job, job finished, quantum expired | called by the simulator | preemption in the unit a job was scheduled in, ties, lazily updated times | right job on right core in every unit, stable order, exact statistics |
| `mp4/simulator.c` | the same jobs again, clocks of the cores | one loop over time units | libscheduler | two records of the same thing | never disagrees with the library |
| `mp8/server.c` web server | a thread per connection with two buffers, a queue of threads, `kill_signal` | accept, request loop, SIGINT handler | clients over sockets, files | keep-alive, requests in parts, a handler that takes a mutex | answers in order, no whole head answered twice; after SIGINT everything is joined and the program ends |
| `mp2/alloc.c` allocator | memory with headers in it, lists of free blocks of each size, the next size to ask `sbrk` for | malloc, calloc, realloc, free | the program, `sbrk` | splitting and joining halves, lists that get full, areas that lie side by side, a function that returns nothing on one path | memory in use has one holder and keeps its content; free memory is joined; nothing is lost but to a full list |
| `mp3` shell and log | list of commands | push, search, run | fork, wait | little: it waits for every command | not modelled |
| `mp1`, `ds1`-`ds7`, `hw1` | | | | sequential exercises and skeletons | not modelled |
| JavaScript under `mp4/doc`, `mp5/doc`, `mp6/doc` | | | | written by Doxygen, not by the authors | not modelled (section 6) |

## 2. The modules

| Module | Models | State and actions |
|---|---|---|
| `Queue` | `queue.c` of mp6 | finding and removing an item; `q_edge` and `q_mutex` are such queues. |
| `LibWfg` | `libwfg.c` | Each function as an operator from the queue of edges it finds to the one it leaves and its return value. `walk_from`, `walk_step`: the walk of `wfg_get_cycle`, one turn of its inner loop. |
| `WaitForGraph` | abstract graph | sets of wait and hold edges; what `wfg_get_cycle` may return. |
| `WfgCalls` | any sequence of calls of libwfg | composes `LibWfg`; implements `WaitForGraph` (`GraphSpec`). Its names differ from those of the `Drm` modules (`wfg` is the queue there called `q_edge`), so that one proof module can extend both. |
| `DrmAvoidance` | `drm_lock`/`drm_unlock` with `DEADLOCK_AVOIDANCE` | one action for each section under `mutex_wfg`, each pthread call and each call and return; `q_edge`, the owner `mu` of every pthread mutex, where each thread is. |
| `DrmPrevention` | the same with `DEADLOCK_PREVENTION` and `NO_DEADLOCK_CHECK` | one action for each write of `t_id` and `lockflag` and for each turn of the loop over `q_mutex`, which have no lock; `DrmInit` and `DrmDestroy` are calls of main meanwhile. `astray`: whose walk `drm_destroy` has run into. |
| `DrmDetection` | the same with `DEADLOCK_DETECTION`, the detector thread, `example-DD.c` | sections are two steps, since a signal may fall into one; `Interrupt` is the signal handler's start. |
| `LockTable` | what all modes promise | who has been granted which lock (`Exclusive` in two modules). |
| `MakeParser` | `parser.c` and the callbacks of `parmake.c` | pure operators; `Needed` is the reference they are compared with. |
| `Parmake` | `rule_server` and what it calls | one action for taking `mutex1`, for each rule looked at, for waiting, for each command, for finishing. |
| `MakeRun` | `main` of parmake | composes `MakeParser` and `Parmake`: the parser's result is the workers' initial state. |
| `MapReduce` | `libmapreduce.c` with the calls of `libdictionary.c` it makes | main, the worker and the processes; a line is two pieces, so that reads end in the middle of lines. |
| `MapResult` | what libmapreduce promises | lines reduced one at a time, none twice (`ResultSpec`). |
| `LibScheduler` | `libscheduler.c`, `libpriqueue.c` | each function as an operator from state to state. |
| `Simulator` | `simulator.c` | the simulation loop, which composes `LibScheduler`; implements `Schedule` (`FollowsSchedule`). |
| `Schedule` | what the six schemes promise | which jobs may run in a unit of time, from the jobs alone: no queue, no cores, no calls. |
| `WebServer` | `server.c` | main and a thread for each connection; one action for taking `mutex_signal`, for what follows from its value, for each outcome of `select` and `recv_head`, for an answer, an accept, a join. What a client sends is a row of pieces, four to a request, and buffers are intervals of it. `Interrupt` and `SetKill` are the handler's start and end. |
| `Allocator` | `alloc.c` | one action for each of malloc, calloc, realloc and free; the memory is cells that hold headers or data, so a header that is written over is read as what is there. |
| `Heap` | what an allocator promises | who holds which memory with what in it (`HeapSpec`). |
| `LibWfgProofs`, `DrmAvoidanceProofs`, `DrmPreventionProofs`, `DrmDetectionProofs`, `ParmakeAllocatorProofs`, `MapReduceProofs`, `SimulatorProofs`, `WebServerProofs` | | the theorems of section 4. |
| `MC*` | | constants for TLC. |

Definitions keep the names of the source. A definition whose comment begins
with "Slip:" is not part of a specification: it is the definition after it, with
a mistake one could make in that code. `PROJECT.json` pairs each property with a
slip that violates it, and maps every other definition to its source lines.

What is abstracted: names, threads, rules, keys are model values; of a makefile
only the rule lines matter, of a command whether it fails, of a value what it
was reduced from, of a block of memory how much of it the program asked for.
Outside `Allocator`, freeing is modelled only where it races with a use
(`MapReduce.GetRead`, the walk after `wfg_destroy` in `DrmDetection`, the walk over
`q_mutex` in `DrmPrevention`). System
calls do not fail, with the exception of `pthread_mutex_lock` in libdrm, whose
failure the code handles.

Undefined behaviour is a choice: what a freed entry reads as (`Garbage`), whether
a walk over a destroyed graph or a removed node crashes, that unlocking another
thread's default mutex sets it free (glibc), and what a function without a
`return` gives (`Missing`, one value for each build: see `allocator`).

## 3. The runs

Sizes are the smallest at which every action fires, every slip is caught and
the cases named in the table occur. Passing runs take between a few seconds and
a little over three minutes with two workers.

| Run | Instance | Question and answer |
|---|---|---|
| `wfg` | 3 threads, 2 resources, any calls | The queue implements the abstract graph, and `wfg_get_cycle` returns when the graph has no cycle. Three threads allow a cycle of two with a third waiting for it. |
| `wfg_get_cycle_returns` | same | **Violated**: a walk that begins at a thread that waits for a cycle it is not in never ends (`libwfg.c:205-216`). |
| `drm_avoidance` | 3 threads, 3 mutexes, fair: two threads that close a cycle of two and try twice (`WantsMC`, `CallsMC`), a third that waits for it, is granted a mutex beside it, or whose `pthread_mutex_lock` fails (`FailsMC`) | No deadlock, exclusive locks, the second look for a cycle is never needed for its own lock, the inductive invariant of the proof; every call returns, except behind a lost walk of `wfg_get_cycle` (the run above). |
| `drm_prevention` | 2 threads, 3 mutexes that main makes and destroys meanwhile, both modes without a graph, threads may lock a mutex twice | Deadlock only by a thread that waits for itself, or by one whose walk over `q_mutex` `drm_destroy` ran into; exclusive; calls return otherwise. |
| `drm_detection` | 2 threads that lock 2 mutexes and try twice, a third that locks one of them (`WantsMC`, `CallsMC`), detector, handler, main | A deadlock is broken, unless the detector's walk has begun at a thread that waits for the cycle and is not in it: that walk does not end, and the deadlock lasts (it does in the run). The first victim is in a cycle, a thread that has ended has no edges; the inductive invariant of the proof. |
| `parmake` | 3 workers, 5 runs of makefiles: a diamond, files newer and older, a line with two targets, a missing file, two rules for one target; one spurious wake-up | While a rule runs, nothing is left or running of the names it depends on, if these have one rule each; each rule once, exactly what the targets need, and parmake ends. |
| `mapreduce` | 2 processes with 3 and 1 lines, pipes and buffers of one and a half lines | No line twice or out of order; `get_value` returns what is reduced so far, and NULL for a key that exists, or freed memory, only as described in section 5; the worker never blocks in `read`; `reduce_all` returns with everything reduced, if no process is silent for two seconds. |
| `mapreduce_silent` | same | **Violated**: after a timeout of `select` the worker watches no pipe any more, so `reduce_all` returns without the rest. |
| `webserver` | 2 connections, one that keeps its connection for a second request and sends its requests in any parts, or both at once, one that only connects; a buffer of 5 pieces, one SIGINT | Answers come, and in order; a request is answered again only if its head came without its last line; main joins every thread; after SIGINT the program ends, unless the handler waits for its own thread's mutex. |
| `scheduler` | 4 jobs, 1 to 3 cores, 6 schemes, 4,374 inputs | Library and simulator agree on every job and its time; in every unit the jobs run that the scheme says (`Schedule`); round robin keeps its order; the statistics are exact. |
| `allocator` | requests of 0, 1, 3 and 5 units in areas of 4 and 8, lists of two blocks, a heap of 12 units; the missing `return` gives NULL | The abstract heap is implemented, headers, lists and what the program holds agree, free memory is joined, and a block is lost only to a full list. |
| `allocator_missing_return` | the same, the missing `return` gives what the build gives | **Violated**: `free` joins a block with an occupied buddy, and memory in use is given out again (`alloc.c:424-435`). |

Bounds, by name: `Calls` (calls of `drm_lock` for each thread), `Wants` and
`Fails` (in `DrmAvoidance`, the first in `DrmDetection` too: which mutexes a
thread asks for, and for which threads `pthread_mutex_lock` may fail; for the
proofs any sets), `N` (mutexes
main makes), `Spurious` (wake-ups of `pthread_cond_wait` nobody asked for),
`Capacity` and `Buffer` (of a pipe, of `BUFFER_SIZE`; of the web server's
`MAXBUF`), `Inputs` (makefiles, job files), `Signals` (how often SIGINT comes),
`Requests` (in `WebServer`: which requests of each client ask to keep the
connection), `Requests` and `MaxHeap` (in `Allocator`: sizes asked for, what
`sbrk` gives in all; `MinSbrk`, `MaxSbrk`, `MaxOrder` and `MaxArrayLength` are
the code's constants, smaller). Nothing else is bounded.

Two threads are enough for `drm_prevention` to get into each of its deadlocks;
that there are no others with more threads is a theorem. `drm_detection` needs
three: a cycle of two, and one that waits for it, from which the detector's walk
may begin. In `webserver` the buffer holds one request and a piece of the next, so
that two requests that are sent together are cut in two. In `allocator` the
sizes make every kind of step happen: blocks are split, and joined over two
sizes, a list is full, a block at the end of an area is not joined with the next
area's, realloc grows, shrinks and stays.

**Fairness.** Threads and processes that can take a step do (weak fairness of
the whole of a thread's steps), which is what the kernel's scheduler gives;
blocked steps are not enabled and so need nothing. Clients of libdrm unlock
what they locked: without that, no lock call need return. In `DrmDetection`
the detector's `pthread_mutex_lock(&mutex_wfg)` is strongly fair: threads leave
that mutex again and again, and the detector, which sleeps a second between
attempts, is not kept out for ever. In `WebServer` each thread is strongly fair,
for the same reason: the sections of `mutex_signal` are one assignment long, and
threads pass most of their time in `select`. Commands and `map()` end. Neither a failing
command, a spurious wake-up, a timeout, nor a client's calls are assumed to
happen.

**Deadlock** is checked in every run. Where a system can stop for good
(finished, or exited) the specification has an explicit stuttering step, or the
configuration says why not.

## 4. What is proved

All with TLAPS, for every value of the constants under the assumptions in the
modules.

* `DrmAvoidanceProofs`. `Invariance`: `IInv` is inductive; then `NoErrorExit`,
  `DeadlockFree`, `RecheckIsForOthers`, `Implements` (a table of exclusive
  locks). The argument: `KnotSeen` says every *knot*, a set of threads
  each of which waits for one of the set, has a member that has yet to look for
  a cycle, or has found it and is about to take its edge back. It is needed
  because adding the edge and looking are different sections: between them there
  are cycles nobody has seen. A thread that goes on to `pthread_mutex_lock`
  has walked the graph; a walk that ends at a thread that waits for nobody
  proves there is no knot among what it has seen (`WalkSound`), but it starts
  where it starts: hence the invariant speaks of each knot's last member.
  Assumption: clients do not lock a mutex twice (`~ Relock`).
* `DrmPreventionProofs`. `Invariance`, `Implements` (a table of exclusive
  locks here too, while main makes and destroys mutexes), and
  `DeadlockOnlyByRelock`: in a
  deadlocked set take the thread that asks for the greatest mutex; the owner of
  that one is in the set and asks for one at least as great (`InOrder`), so
  for the same, which it has, unless its walk was disturbed. `RecordAgrees` is what
  the unlocked reads of the records need, `ScanAgrees` the unlocked walk: what a
  thread has beyond the mutex it asks for is among the entries it has yet to
  look at, unless `drm_destroy` has removed an entry the walk had come to.
* `LibWfgProofs`. What removing an item does to a queue, what the functions on
  the queue do to the sets of edges, `WalkStepFacts`, the soundness of the walk,
  `PathStepFacts`, what it has gone through, and from both `TurnDecides`: a turn
  that ends the walk returns threads if and only if there is a knot, and they are one
  cycle. That the walk ends is not said: it need not. For every sequence of calls
  (`WfgCalls`): `WfgInvariance` and `ImplementsGraph`. The abstract graph is a
  function of the edges (`WaitOf`, `HolderOf`) only because of `UniqueEdges`;
  a failed call changes nothing, another changes one wait and one hold at
  most (`MapFacts`). That what `wfg_get_cycle` returns is one cycle needs
  both parts of a walk's invariant: `WalkSound` (no knot lies wholly before
  where the walk started) for the answer "none", `WalkPath` (each thread
  gone through waits for one of them, and a knot that contains the first contains all)
  for the answer "these": when the walk is back at its start its threads are
  a knot, and no part of them is.
* `DrmDetectionProofs`. `Invariance`, `VictimsLeaveNothing` (`EndedHasNoEdges`),
  `FirstVictim` (`FirstVictimInCycle`). A thread is in one of two regimes. Until
  a signal hits it, its edges are those of the calls it has made
  (`ClientAgrees`). From then on that is lost, since the handler cuts a call
  off anywhere and takes a wait edge for a hold edge; what is left is that every
  mutex it has an edge of is still ahead of its handler, and that it has at most one
  edge of each (`HandlerAgrees`): so `remove_edge` removes the only one, and
  when the handler is done there is none. `UntilSignal` is for the first
  signal: as long as nobody has been sent one, a thread of a cycle cannot leave it
  (`CycleWaits`: it waits for a mutex that another has), so the cycle found still
  stands when the signal is sent; after that nothing of the kind holds, and
  `add_hold_edge` and `remove_edge` may fail and end the process, which is why
  most of `IInv` is under `~ exited`. `JoinedAll`, `EndedHasNoEdges` and
  `SectionsAgree` together say that the detector is in no walk when
  `drm_cleanup` destroys the graph under it (`NoWalkWhenJoined`): a walk in
  progress is at a wait edge, and nobody has one. Assumption: the handler
  unlocks every mutex of the program, as that of `example-DD.c` does
  (`ReleaseAssumption`).
* `ParmakeAllocatorProofs`, on parmake. `Invariance`, `NoForgottenRule`, and for a whole
  run `RunInvariance`, `RulesMadeOnce` (`EachRuleOnce`) and `DepsFirst`
  (`RunsAfterDeps`: of names with one rule; it follows from `DepsReady` of the
  invariant and from `EachRuleOnce`, since the one rule of a name that is ready is
  in `ready_rules` and so neither left nor in hand). The invariant
  that makes the lost broadcast harmless is `ReadyIsSeen`: while a rule can run
  some worker is busy, or about to scan, or has not come to that rule yet. A
  finishing worker starts over itself, whoever it woke, and sees what it made
  ready. `RulesMadeOnce` counts, for each name, the rules left, in hand and done:
  a scan that takes a rule removes the very entry it looked at, because it has kept
  `mutex1` since. `NeededMade` (`MadeNeeded`) is about the parser and the workers
  together: what a run has made when it returns is what the targets need.
  `Needed` is a least closed set, and the parser makes passes. A pass is a fold
  of the community modules, that is a function chosen by `CHOOSE`; `FoldExists` and
  `ChainExists` show that there is one, `ChainOfFold` that it goes through the
  states of a loop. Of these: no rule is lost, a rule is taken only for a
  target or for a dependency of one taken before, and either a pass takes a rule or
  none of those left is needed (`Searched`, `Passed`). So after as many passes
  as rules those left are not needed (`FilterFacts`), and the targets
  with the dependencies of what was taken are a closed set (`TakenFacts`). The
  callbacks keep every rule's target (`CallbacksFacts`). Assumptions:
  `-j` gives a finite number of workers, at least one, and a makefile is a
  sequence of lines with at least one target each (`InputsAssumption`;
  the parser takes a line for a rule only if it begins with a name).
* `ParmakeAllocatorProofs`, on the allocator. `AllocatorInvariant` (`AllocInv`),
  `AllocatorLosesWhenFull` (`LostWhenFull`), `AllocatorIsHeap` (`HeapSpec`) and
  `AllocatorCalls`: each call is the abstract call of its own name, so what
  `calloc` gives is zero, or leaves the content as it is. All four are for every
  size of areas, lists, requests and heap, and for both values of `Missing`, what
  `buddy_exist_not_occupied` gives on the path where it returns nothing. `heap.stray`
  says that a `free` has gone on to join with a block for which the function
  returned nothing; the theorems say what holds until then (`heap.stray \/ ...`), that
  it takes the value which the Makefile's build gives, and that with `"NULL"` they
  hold for ever. After such a join they are false (`allocator_missing_return`). The
  code goes by headers in the memory, and nothing in the memory says which cells
  are headers. The inductive invariant `Good` is that there are such: a function
  `hd` from some addresses to headers (`Shows`: they are what is in those cells)
  whose blocks fill the memory side by side, each at a multiple of its size from
  the head of an area (`Grid`); the lists have free blocks of `hd` (`ListsOf`), no
  free block meets a free buddy of its size (`CoalescedOf`), and the program holds
  the blocks in use (`HeldBy`). The lemmas then speak of `hd`, in which a split
  puts in an address and a join takes one out. That a buddy of the same size is a
  block and not the inside of one comes from the powers of two: the lesser of two
  divides the half of the greater, so blocks at multiples of their sizes nest or
  are apart (`BuddyBlock`). The loops of `split_block` and `free` are functions of
  the number of turns; between two turns of the second only the block it has come
  to may meet its buddy (`CoalescedBut`), and the sizes go up, so `MaxOrder` turns
  are enough. `BlocksAre` shows that the walk by which `Blocks` is defined comes
  to exactly the blocks of `hd`. `CountUp`, which serves the parser as well, is
  induction on a number by a least counterexample. Parmake and the allocator share
  one module since both count through loops.
* `SimulatorProofs`. `Invariance`, `Agreement` (the simulator and the library
  never disagree on which job a core has), `RoundRobinOrder`,
  `ImplementsSchedule`: in every unit of time the jobs that run are jobs that
  `Schedule` allows, and `ExactStatistics`: whatever the file and the scheme, the
  averages printed at the end are those of all jobs. The parts of `IInv`: every job the library knows is on one
  core or once in the queue, and nobody waits while a core is idle (`InOnePlace`);
  the library's lazily updated times are what is left of the job plus the time since
  the last update (`Records`); the queue is in the order of `Schedule`, and no job that
  should run first waits behind one on a core (`InOrder`, `Leads`: with
  preemption the order decides, without it a job that has run keeps its core);
  both records name the same core for each job, and a job with nothing left is on
  one until the unit ends (`JobsAgree`); a quantum never runs past 0
  (`ClocksAgree`). For the statistics, `FirstTimes`: the library learns that a job
  has run only in the next call, and until then keeps the unit in which it first
  did (`Unseen`); and `Sums`: what has been added up and what is yet to be added,
  the time that known jobs have waited so far, is the time jobs have spent on no
  core. The lemmas about `SumFunctionOnSet` (one element more, one value changed,
  all values one higher) go by a least set for which they fail, since the
  library's induction rules cannot be used. The code's totals are `float`, exact
  below 2^24, and integers in the model. Assumptions: the jobs of a file have positive run times,
  different numbers and, as `scheduler_new_job` assumes, different
  arrival times, and RR has a quantum (`InputsAssumption`).
* `MapReduceProofs`. `Invariance`, then `NeverBlocks`, `WorkerEndsLast`,
  `NothingIsLeft`, `CurrentValues` (`GotIsCurrent`), and `ImplementsMapResult`: every
  step of the library is a step of `MapResult` or none. This is safety: it says that
  no line is reduced twice or out of order; that none is left out when `reduce_all`
  returns is `NothingIsLeft`, under its condition. The parts of the invariant: that
  each value, with the one being replaced, is made of the lines reduced to its key
  (`ValuesAgree`), that what main has found is a beginning of it (`FoundIsPast`),
  what the count of processes means (`MainAgrees`), that whole lines are in no
  buffer but the current one (`PipesAgree`, which also shows that a read always
  has room), that the pipes still to be read have data and that an entry being
  replaced is away (`WorkerAgrees`), and that without slow processes `select`
  is silent only at the end (`SilenceIsEnd`). Assumption: a line fits the
  buffer (`BufferAssumption`).
* `WebServerProofs`. `Invariance`, `OrderedAnswers`, `Closes`. `BuffersAgree`:
  the buffer always begins where a request begins. `AnswersAgree`: a head that is
  to be answered follows the last answer (`Follows`), and what the buffer holds tells
  which of the two cases it is (`Holds`: a whole head is out of it, another is still
  there), unless the signal has come between reading and answering, and then nothing
  is answered any more. `KeepAgrees`: after an answer only a kept connection is
  read again, so that a part is answered again only if it had the header
  `Connection`. `ListAgrees` for the joins. Clients send what they like, in any parts.

Every invariant, every action property without fairness and every refinement
that a passing run checks is stated by a theorem. Model-checked only: all
liveness (`CallsReturn`, `ReturnsWithoutCycle`, `DeadlockBroken`, `Finishes`,
`ReduceAllReturns`, `Answered`, `Ends`), since the prover does not do fairness.
The violated properties are false, and have no theorem.

## 5. What the models say about the code

Besides the three violated runs: `CallsReturn` of avoidance has an exception for
a walk that does not end, and with it libdrm stops altogether since the thread
keeps `mutex_wfg`; with prevention a thread that locks a mutex twice waits for
itself, for the comparison at `libdrm.c:230` is `>`; `drm_destroy` of a mutex
that nobody uses takes it out of `q_mutex` while other threads walk that queue by
index, so that a walk passes over the entry that moves up, and two threads that
lock each mutex once may deadlock with prevention (`libdrm.c:348-353`, the
exception `astray` of `NoDeadlock`); the handler of
`example-DD.c` unlocks, for one of its two mutexes, a pthread mutex that the
other thread has, because `drm_unlock` (`libdrm.c:328`) takes the wait edge of
the victim for an edge that it holds; `drm_cleanup` destroys the graph before
it cancels the detector, and it is only because every thread has taken its edges out
by then that no walk is cut off (`NoWalkWhenJoined`).

A worker of parmake that finishes a rule broadcasts with `mutex2` while others
wait with `mutex1` (`parmake.c:288`, `320`): one that has scanned and not yet
begun to wait sleeps on though a rule is ready, and `parmake.html:151` says none
should; `ReadyIsSeen` and `Finishes` show that nothing worse comes of it.
Of two rules for one target, `new_dependency` and `new_command` give everything to
the first (`parmake.c:71-98`). The second is empty, so it is run at once, and the
name is in `ready_rules` while the commands of the first have yet to run: a rule
that depends on the name may run too early, though `parmake.html:93` says that a
dependency is met only when all its commands are done. `RunsAfterDeps` is about
names with one rule; the run's makefile `Twice` has a name with two.

The detector of `DEADLOCK_DETECTION` calls `wfg_get_cycle`, whose walk begins at the
first wait edge of the queue. If that is of a thread that waits for a cycle it is
not in, the walk goes round the cycle for ever (`libwfg.c:205-216`): nobody is
signalled, `mutex_wfg` is not given back, and the deadlock lasts (`WalkLost`, the
exception of `DeadlockBroken`).
A third thread is enough for that.
The handler of `example-DD.c` blocks for ever on `mutex_wfg` if the signal hits its
thread inside a section of libdrm. That thread is then not in
`pthread_mutex_lock` on one of its mutexes, so `DeadlockBroken` takes the deadlock
for broken: no property covers this wait.

`process_key_value` replaces a value by a removal and an addition
(`libmapreduce.c:111-115`). Between them `mapreduce_get_value` returns NULL for a key
that exists, though `mapreduce.html:389` says that it gives the current value, and
NULL only for a key that does not. `dictionary_get` reads `entry->value` after it has
given its mutex back (`libdictionary.c:177`), so that it may also return freed memory
(`Garbage` in `MapReduce`). `GotIsCurrent` says when each of the two can happen, and
that what is returned otherwise is all that was reduced so far.

The handler of the web server locks `mutex_signal`. If SIGINT hits a thread
inside `get_kill` the handler waits for its own thread (`Stuck`), and all others
wait for it: `Answered` and `Ends` have that exception. A request is answered
when its first line is there (`server.c:124-129`), and if it had its header
`Connection: Keep-Alive` by then, once more when the rest comes; a client that
sends whole requests can meet this too, since `recv` need not get all of it.
`webserver.html:128-129` says to go on with `recv` until the empty line has come.
`AnswersInOrder` says that the order is kept and that nothing else is answered
twice. A thread whose client has gone, on a kept connection, turns over without
pause until SIGINT: `select` says there is input, and `recv` returns 0.

`buddy_exist_not_occupied` of the allocator has no `return` where the buddy is
occupied or of another size (`alloc.c:424-435`: the `else` belongs to the outer
`if`). With `gcc -O2`, as in the Makefile, the caller finds the buddy's address in
the register, takes it for free, and `free` joins it; without optimisation it
finds something else. The run `allocator_missing_return` has the first of these;
`allocator` has the value that the function was meant to give, and shows that
the rest of the allocator is right. `ParmakeAllocatorProofs` proves this for both
values, of the first until such a join has happened. A list of free blocks has 40 places and drops
what it has no place for; such a block can only come back by the joining of its
buddy (`LostWhenFull`).

`Schedule` says what a scheme without preemption does in the one case that its
description leaves open: a core that gets free in the unit in which a job
arrives goes to a job that has waited, whatever the arriving one's priority or
length, since finished jobs are dealt with before arriving ones
(`simulator.c:253`, `337`).

Two hazards have no property: the pointer that `mapreduce_get_value` returns
points into an entry that the worker may free later, and what the caller does
with it is not the library's; and the handler that waits for its own thread in
the web server, which happens, and is the exception of two properties.

## 6. Not modelled

* `mp3` (a shell that waits for each command, a log that one thread uses), `mp1`,
  `ds*`, `hw1`: sequential exercises, and skeletons whose code is not written.
* The JavaScript, HTML and style sheets in `doc/html` of mp4, mp5 and mp6: three
  copies of what Doxygen puts with the pages it generates (a search box, a tree of
  pages). It is neither these programs nor written by their authors.
* Of modelled parts: command lines, reading and printing, the text of files and
  headers, failing system calls except where the code goes on after one, `drm_init`
  by two threads at once (`getId` has no lock; every program here makes its
  mutexes in main), functions of the queues and dictionaries that no modelled
  program calls, `mapreduce_destroy`.

## 7. Plan

The plan was to model first what the programs promise when threads, processes and
signals interleave (mp6, mp5, mp7, mp8), then the sequential cores (mp4, mp2), and to prove of
each what its runs check. It is carried out; what could be added is

1. a proof of liveness, when the prover takes fairness: `ReadyIsSeen`, `KnotSeen`
   and `WalkPath` are the parts it would rest on;
2. `mapreduce_destroy` and the functions of the dictionaries that no modelled program calls.
