------------------------------ MODULE MapReduce ------------------------------
(***************************************************************************)
(* libmapreduce (mp7): main forks a process for each data set, whose map() *)
(* writes lines "key: value" into a pipe; a worker thread waits with       *)
(* select() for pipes that have data, reads them, and reduces the values   *)
(* in a dictionary; meanwhile main can ask for values, and in the end      *)
(* waits for all of it.                                                    *)
(*                                                                         *)
(* A pipe holds bytes, and a read can end in the middle of a line: a line  *)
(* is two pieces here, of which a pipe holds Capacity and the worker's     *)
(* buffer for a pipe Buffer.  The parent never closes the writing ends, so *)
(* that no pipe is ever at its end.  The value of a key is the sequence of *)
(* the lines reduced to it, <<>> if the key is not in the dictionary.      *)
(***************************************************************************)
EXTENDS Integers, Sequences, FiniteSets

CONSTANTS Keys,
          Output,     \* Output[p]: the keys of the lines that process p writes
          Capacity,   \* of a pipe, in pieces
          Buffer,     \* BUFFER_SIZE, in pieces
          Garbage     \* what a read of freed memory finds

Processes == DOMAIN Output

ASSUME OutputAssumption == Output \in Seq(Seq(Keys))
ASSUME CapacityAssumption == Capacity \in Nat \ {0}
ASSUME BufferAssumption == Buffer \in Nat \ {0, 1}   \* a line fits
ASSUME GarbageAssumption == Garbage \notin Seq(Nat \X Nat)

VARIABLES
  main,      \* where main is
  launched,  \* how many processes it has forked
  waited,    \* how many it has waited for
  remain,    \* n_remain_process
  child,     \* "none", "runs" or "exited", for each process
  written,   \* how many pieces each process has written
  taken,     \* how many of them the worker has read
  done,      \* done[p]: how many lines of p the worker has reduced
  worker,    \* where the worker is
  armed,     \* rfds before select: the pipes to look at
  ready,     \* rfds after select, without those dealt with
  kv,        \* the dictionary
  old,       \* the value that the worker is replacing
  found,     \* main's dictionary_get: the key and value of the entry it found
  got,       \* what its last mapreduce_get_value returned, and for which key
  slow       \* the processes that may write nothing for two seconds

vars == <<main, launched, waited, remain, child, written, taken, done, worker,
          armed, ready, kv, old, found, got, slow>>
calls == <<main, launched, waited>>
pipes == <<written, taken>>
reducing == <<done, kv, old>>
asking == <<found, got>>

Values == Seq(Nat \X Nat)

TypeOK ==
  /\ main \in {"map", "calls", "get", "wait", "returned", "getfinal"}
  /\ launched \in 0 .. Len(Output) /\ waited \in 0 .. Len(Output)
  /\ remain \in 0 .. Len(Output)
  /\ child \in [Processes -> {"none", "runs", "exited"}]
  /\ written \in [Processes -> Nat] /\ taken \in [Processes -> Nat]
  /\ done \in [Processes -> Nat]
  /\ worker \in {"none", "select", "timeout", "read", "process", "add", "ended"}
  /\ armed \in SUBSET Processes /\ ready \in SUBSET Processes
  /\ kv \in [Keys -> Values]
  /\ old \in Values
  /\ found \in Keys \X Values
  /\ got \in Keys \X (Values \cup {Garbage})
  /\ slow \in SUBSET Processes

Init == /\ main = "map" /\ launched = 0 /\ waited = 0 /\ remain = 0
        /\ child = [p \in Processes |-> "none"]
        /\ written = [p \in Processes |-> 0]
        /\ taken = [p \in Processes |-> 0]
        /\ done = [p \in Processes |-> 0]
        /\ worker = "none" /\ armed = {} /\ ready = {}
        /\ kv = [k \in Keys |-> <<>>]
        /\ old = <<>>
        /\ found \in Keys \X {<<>>} /\ got = found
        /\ slow \in SUBSET Processes

-----------------------------------------------------------------------------
(* The processes.                                                          *)

Write(p) == /\ child[p] = "runs"
            /\ written[p] < 2 * Len(Output[p])
            /\ written[p] - taken[p] < Capacity
            /\ written' = [written EXCEPT ![p] = @ + 1]
            /\ UNCHANGED <<calls, remain, child, taken, reducing, worker, armed, ready,
                           asking, slow>>

Exit(p) == /\ child[p] = "runs"
           /\ written[p] = 2 * Len(Output[p])
           /\ child' = [child EXCEPT ![p] = "exited"]
           /\ UNCHANGED <<calls, remain, pipes, reducing, worker, armed, ready, asking, slow>>

-----------------------------------------------------------------------------
(* worker_thread                                                           *)

HasData(p) == written[p] > taken[p]

SelectReady == /\ worker = "select"
               /\ \E p \in armed : HasData(p)
               /\ ready' = {p \in armed : HasData(p)}
               /\ worker' = "read"
               /\ UNCHANGED <<calls, remain, child, pipes, reducing, armed, asking, slow>>

\* Two seconds without data in a pipe of rfds, which then is empty.
Silence == /\ \A p \in armed : ~ HasData(p)
           /\ armed = {} \/ \A p \in Processes : child[p] = "exited" \/ p \in slow

SelectTimeout == /\ worker = "select"
                 /\ Silence
                 /\ armed' = {} /\ ready' = {}
                 /\ worker' = "timeout"
                 /\ UNCHANGED <<calls, remain, child, pipes, reducing, asking, slow>>

GetRemain == /\ worker = "timeout"
             /\ worker' = IF remain = 0 THEN "ended" ELSE "select"
             /\ UNCHANGED <<calls, remain, child, pipes, reducing, armed, ready, asking, slow>>

\* The pipe that is dealt with: the loop goes through them in order.
current == CHOOSE p \in ready : \A q \in ready : p <= q

\* read_from_fd: what is there, as far as it fits behind the rest of the last
\* read.  A read from an empty pipe blocks.
Read == /\ worker = "read"
        /\ HasData(current)
        /\ LET rest  == taken[current] - 2 * done[current]
               there == written[current] - taken[current]
               fits  == Buffer - rest
           IN  taken' = [taken EXCEPT ![current] = @ + IF there < fits THEN there ELSE fits]
        /\ worker' = "process"
        /\ UNCHANGED <<calls, remain, child, written, reducing, armed, ready, asking, slow>>

\* The buffer has a whole line; its key; and what identifies its value.
HasLine == taken[current] >= 2 * (done[current] + 1)
key == Output[current][done[current] + 1]
value == <<current, done[current] + 1>>

\* process_key_value: the first value of a key.  Only the worker changes the
\* dictionary, so that its dictionary_get needs no step of its own.
AddFirst == /\ worker = "process" /\ HasLine
            /\ kv[key] = <<>>
            /\ kv' = [kv EXCEPT ![key] = <<value>>]
            /\ done' = [done EXCEPT ![current] = @ + 1]
            /\ UNCHANGED <<calls, remain, child, pipes, worker, armed, ready, old, asking, slow>>

\* A further value: reduce, then the entry is removed, and a new one added.
RemoveOld == /\ worker = "process" /\ HasLine
             /\ kv[key] # <<>>
             /\ old' = kv[key]
             /\ kv' = [kv EXCEPT ![key] = <<>>]
             /\ worker' = "add"
             /\ UNCHANGED <<calls, remain, child, pipes, done, armed, ready, asking, slow>>

\* Slip: the new value replaces the old one.
AddReduced_forgets == /\ worker = "add"
                      /\ kv' = [kv EXCEPT ![key] = <<value>>]
                      /\ old' = <<>>
                      /\ done' = [done EXCEPT ![current] = @ + 1]
                      /\ worker' = "process"
                      /\ UNCHANGED <<calls, remain, child, pipes, armed, ready, asking, slow>>

AddReduced == /\ worker = "add"
              /\ kv' = [kv EXCEPT ![key] = Append(old, value)]
              /\ old' = <<>>
              /\ done' = [done EXCEPT ![current] = @ + 1]
              /\ worker' = "process"
              /\ UNCHANGED <<calls, remain, child, pipes, armed, ready, asking, slow>>

\* Slip: rfds is not filled again; select has left in it what had data.
NextPipe_no_reset == /\ worker = "process" /\ ~ HasLine
                     /\ ready' = ready \ {current}
                     /\ IF ready' = {}
                          THEN worker' = "select" /\ armed' = {p \in armed : HasData(p)}
                          ELSE worker' = "read" /\ UNCHANGED armed
                     /\ UNCHANGED <<calls, remain, child, pipes, reducing, asking, slow>>

\* The lines in the buffer are done: the next pipe, or all of them again.
NextPipe == /\ worker = "process" /\ ~ HasLine
            /\ ready' = ready \ {current}
            /\ IF ready' = {} THEN worker' = "select" /\ armed' = Processes
                              ELSE worker' = "read" /\ UNCHANGED armed
            /\ UNCHANGED <<calls, remain, child, pipes, reducing, asking, slow>>

-----------------------------------------------------------------------------
(* main: mapreduce_map_all, mapreduce_get_value, mapreduce_reduce_all.      *)

Fork == /\ main = "map"
        /\ launched < Len(Output)
        /\ launched' = launched + 1
        /\ child' = [child EXCEPT ![launched'] = "runs"]
        /\ UNCHANGED <<main, waited, remain, pipes, reducing, worker, armed, ready, asking, slow>>

\* Slip: set_remain is forgotten.
StartWorker_no_remain == /\ main = "map"
                         /\ launched = Len(Output)
                         /\ worker' = IF Output = <<>> THEN "ended" ELSE "select"
                         /\ armed' = Processes
                         /\ main' = "calls"
                         /\ UNCHANGED <<launched, waited, remain, child, pipes, reducing, ready,
                                        asking, slow>>

StartWorker == /\ main = "map"
               /\ launched = Len(Output)
               /\ remain' = Len(Output)
               /\ worker' = IF Output = <<>> THEN "ended" ELSE "select"
               /\ armed' = Processes
               /\ main' = "calls"
               /\ UNCHANGED <<launched, waited, child, pipes, reducing, ready, asking, slow>>

\* dictionary_get finds the entry with the dictionary's mutex ...
GetFind(k) == /\ main \in {"calls", "returned"}
              /\ IF kv[k] = <<>>
                   THEN got' = <<k, <<>>>> /\ UNCHANGED <<main, found>>
                   ELSE /\ found' = <<k, kv[k]>>
                        /\ main' = IF main = "calls" THEN "get" ELSE "getfinal"
                        /\ UNCHANGED got
              /\ UNCHANGED <<launched, waited, remain, child, pipes, reducing, worker, armed,
                             ready, slow>>

\* ... and reads its value without: the entry may be gone.
GetRead == /\ main \in {"get", "getfinal"}
           /\ got' = IF kv[found[1]] = found[2] THEN found ELSE <<found[1], Garbage>>
           /\ main' = IF main = "get" THEN "calls" ELSE "returned"
           /\ UNCHANGED <<launched, waited, remain, child, pipes, reducing, worker, armed, ready,
                          found, slow>>

ReduceAll == /\ main = "calls"
             /\ main' = "wait"
             /\ UNCHANGED <<launched, waited, remain, child, pipes, reducing, worker, armed, ready,
                            asking, slow>>

\* waitpid, then decrease_remain.
Wait == /\ main = "wait"
        /\ waited < Len(Output)
        /\ child[waited + 1] = "exited"
        /\ waited' = waited + 1
        /\ remain' = remain - 1
        /\ UNCHANGED <<main, launched, child, pipes, reducing, worker, armed, ready, asking, slow>>

Join == /\ main = "wait"
        /\ waited = Len(Output)
        /\ worker = "ended"
        /\ main' = "returned"
        /\ UNCHANGED <<launched, waited, remain, child, pipes, reducing, worker, armed, ready,
                       asking, slow>>

-----------------------------------------------------------------------------
Worker == \/ SelectReady \/ SelectTimeout \/ GetRemain
          \/ Read \/ AddFirst \/ RemoveOld \/ AddReduced \/ NextPipe

Main == \/ Fork \/ StartWorker \/ Wait \/ Join
        \/ ReduceAll \/ GetRead \/ \E k \in Keys : GetFind(k)

Next == Worker \/ Main \/ \E p \in Processes : Write(p) \/ Exit(p)

\* The threads and processes are scheduled, map() writes all its lines, and
\* main does not stop inside a call.
Fairness == /\ WF_vars(Worker)
            /\ WF_vars(Wait \/ Join)
            /\ \A p \in Processes : WF_vars(Write(p) \/ Exit(p))

Spec == Init /\ [][Next]_vars

FairSpec == Spec /\ Fairness

-----------------------------------------------------------------------------
(* What holds.                                                             *)

\* Between removing an entry and adding the new one the value of the key is
\* still the old one.
values == IF worker = "add" THEN [kv EXCEPT ![key] = old] ELSE kv

\* The dictionary is what reducing lines makes of it, each at most once and those
\* of a process in order (libmapreduce.c:92-121, 156-202): however the reads cut
\* up the lines, and although an entry is replaced in two steps.
Result == INSTANCE MapResult WITH result <- values
ResultSpec == Result!Spec

\* The worker only reads pipes that have data: a read from another would block
\* it for ever, since no pipe is ever at its end (libmapreduce.c:258-271).
ReadDoesNotBlock == worker = "read" => \A p \in ready : HasData(p)

\* Nothing is left in a pipe or a buffer.
AllDone == \A p \in Processes : done[p] = Len(Output[p])

\* mapreduce_reduce_all returns when all lines are reduced, if no process is
\* ever silent for two seconds (libmapreduce.c:282, 336-347).
AllReduced == main \in {"returned", "getfinal"} /\ slow = {} => AllDone

\* The worker only ends when every process has exited and main has noticed
\* (libmapreduce.c:282).
EndsLast == worker = "ended" => waited = Len(Output) /\ \A p \in Processes : child[p] = "exited"

\* The lines of a value, and the lines with the key k that have been reduced.
Lines(v) == {v[i] : i \in DOMAIN v}
Reduced(k) == UNION {{<<p, i>> : i \in {j \in 1 .. done[p] : Output[p][j] = k}} : p \in Processes}

\* The worker has removed the entry of k, and not added the new one.
Replacing(k) == worker = "add" /\ key = k

\* mapreduce_get_value returns the current value: all lines reduced so far
\* (libmapreduce.c:355-359); NULL if none is, and freed memory if another line was
\* reduced after it looked.  While the worker replaces the entry it can return
\* both (libmapreduce.c:111-115, libdictionary.c:177).
GotIsCurrent ==
  [][GetRead \/ got' # got =>
       LET k == got'[1]
           v == got'[2]
       IN  \/ v \notin {<<>>, Garbage} /\ Lines(v) = Reduced(k)
           \/ v = <<>> /\ (Reduced(k) = {} \/ Replacing(k))
           \/ v = Garbage /\ (Len(found[2]) < Len(values[k]) \/ Replacing(k))]_vars

-----------------------------------------------------------------------------
(* The inductive invariant: what the worker and main know of each other.   *)

\* n_remain_process counts the processes not waited for, once the worker runs;
\* a process that was waited for has exited, and has then written everything.
MainAgrees ==
  /\ main = "map" <=> worker = "none"
  /\ IF main = "map" THEN waited = 0 /\ remain = 0 ELSE remain = Len(Output) - waited
  /\ main \in {"returned", "getfinal"} => worker = "ended"
  /\ \A p \in Processes : p <= waited => child[p] = "exited"
  /\ \A p \in Processes : child[p] = "exited" => written[p] = 2 * Len(Output[p])

\* A line is written, read and reduced, in this order; and whole lines are in
\* no buffer but the one the worker deals with.
PipesAgree ==
  \A p \in Processes :
    /\ 2 * done[p] <= taken[p] /\ taken[p] <= written[p] /\ written[p] <= 2 * Len(Output[p])
    /\ taken[p] >= 2 * (done[p] + 1) => worker \in {"process", "add"} /\ p = current

\* The pipes that are still to be read have data, and the entry the worker
\* replaces is not there.
WorkerAgrees ==
  /\ worker \in {"read", "process", "add"} => ready # {}
  /\ worker \in {"process", "add"} => \A p \in ready \ {current} : HasData(p)
  /\ worker = "add" => HasLine /\ kv[key] = <<>>

\* When select has found nothing for two seconds, it looks at no pipe any more;
\* without slow processes that is only so when everything is over.
SilenceIsEnd ==
  /\ armed \in {{}, Processes}
  /\ worker \in {"timeout", "ended"} => armed = {}
  /\ worker \in {"select", "timeout", "ended"} /\ armed # Processes /\ slow = {} =>
       \A p \in Processes : child[p] = "exited" /\ taken[p] = written[p]

\* How the positions of main, of the worker and in the pipes fit together.
Positions == /\ TypeOK /\ MainAgrees /\ PipesAgree /\ WorkerAgrees /\ SilenceIsEnd
             /\ ReadDoesNotBlock /\ EndsLast

\* The value of a key is made of the lines reduced to it.
ValuesAgree == \A k \in Keys : Lines(values[k]) = Reduced(k)

\* A value that the key had, or has: later values only append to it.
IsPast(entry) == /\ Len(entry[2]) <= Len(values[entry[1]])
                 /\ entry[2] = SubSeq(values[entry[1]], 1, Len(entry[2]))

FoundIsPast == IsPast(found)

\* The types, the positions (libmapreduce.c:220-347), the values, and what main
\* has found in the dictionary: what the theorems need.
IInv == Positions /\ ValuesAgree /\ FoundIsPast

-----------------------------------------------------------------------------
(* What is promised in the end, and what the code does not keep.           *)

\* mapreduce_reduce_all returns, if no process is ever silent for two seconds
\* (libmapreduce.c:336-347): pipes that are full are emptied, and the worker
\* notices that all processes are gone.
ReduceAllReturns == [](main = "wait" /\ slow = {} => <>(main = "returned"))

\* mapreduce_reduce_all "should block until all map()'ing and reduce()'ing has
\* completed" (doc/mapreduce.html).
BlocksUntilReduced == main = "returned" => AllDone
=============================================================================
