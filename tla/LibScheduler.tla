---------------------------- MODULE LibScheduler ----------------------------
(***************************************************************************)
(* libscheduler and libpriqueue (mp4): which job runs on which core.       *)
(*                                                                         *)
(* The state of the library is a record s:                                 *)
(*   schema        the scheduling scheme                                   *)
(*   core          the job number on each core, or -1 for NULL             *)
(*   queue         the job numbers in the priority queue                   *)
(*   job           what is known of the jobs on the cores and in the queue *)
(*   wait, turnaround, response                                            *)
(*                 sums of times, with how many have been added            *)
(*   failed        has a check of the library failed                       *)
(* Each function takes the state it finds to the one it leaves.            *)
(***************************************************************************)
EXTENDS Integers, SequencesExt, Functions

Schemes == {"FCFS", "SJF", "PSJF", "PRI", "PPRI", "RR"}

NoSum == [total |-> 0, num |-> 0]

add(sum, time) == [total |-> sum.total + time, num |-> sum.num + 1]

\* Each of a function's times.
adds(sum, times) ==
  [total |-> sum.total + SumFunction(times), num |-> sum.num + Cardinality(DOMAIN times)]

scheduler_start_up(cores, schema) ==
  [schema |-> schema, core |-> [c \in 0 .. cores - 1 |-> -1], queue |-> <<>>,
   job |-> <<>>, wait |-> NoSum, turnaround |-> NoSum, response |-> NoSum,
   failed |-> FALSE]

-----------------------------------------------------------------------------
(* The order of jobs, and the queue.                                       *)

\* Negative if job x goes before job y.
comparer(s, x, y) ==
  LET j == s.job[x]
      k == s.job[y]
      or_time(result) == IF result = 0 THEN j.arrival_time - k.arrival_time ELSE result
  IN  CASE s.schema = "FCFS"           -> or_time(0)
        [] s.schema = "SJF"            -> or_time(j.running_time - k.running_time)
        [] s.schema = "PSJF"           -> or_time(j.remaining_time - k.remaining_time)
        [] s.schema \in {"PRI","PPRI"} -> or_time(j.priority - k.priority)
        [] s.schema = "RR"             -> 0

\* Slip: before the jobs it is equal to.
priqueue_offer_before_equals(s, x) ==
  LET behind == {i \in DOMAIN s.queue : comparer(s, x, s.queue[i]) <= 0}
      place  == IF behind = {} THEN Len(s.queue) + 1
                ELSE CHOOSE i \in behind : \A j \in behind : i <= j
  IN  [s EXCEPT !.queue = InsertAt(@, place, x)]

\* Before the first job that x goes before, or at the end.
priqueue_offer(s, x) ==
  LET behind == {i \in DOMAIN s.queue : comparer(s, x, s.queue[i]) < 0}
      place  == IF behind = {} THEN Len(s.queue) + 1
                ELSE CHOOSE i \in behind : \A j \in behind : i <= j
  IN  [s EXCEPT !.queue = InsertAt(@, place, x)]

\* Every x goes, and the others close up.
priqueue_remove(s, x) ==
  LET keep == {i \in DOMAIN s.queue : s.queue[i] # x}
      from(n) == CHOOSE i \in keep : Cardinality({j \in keep : j <= i}) = n
  IN  [s EXCEPT !.queue = [n \in 1 .. Cardinality(keep) |-> s.queue[from(n)]]]

-----------------------------------------------------------------------------
(* Cores.                                                                  *)

Cores(s) == DOMAIN s.core

on_core(s) == {s.core[c] : c \in Cores(s)} \ {-1}

\* Slip: a job counts as responded when it is given a core.
update_time_responds_at_once(s, now) ==
  LET responded    == {x \in on_core(s) : s.job[x].first_time_on_core = -1}
      response(x)  == s.job[x].last_update_time_on_core - s.job[x].arrival_time
      updated(x)   ==
        [s.job[x] EXCEPT
           !.first_time_on_core = IF x \in responded THEN s.job[x].last_update_time_on_core ELSE @,
           !.remaining_time = @ - (now - s.job[x].last_update_time_on_core),
           !.last_update_time_on_core = now]
  IN  [s EXCEPT
         !.job = [x \in DOMAIN s.job |-> IF x \in on_core(s) THEN updated(x) ELSE s.job[x]],
         !.response = adds(@, [x \in responded |-> response(x)])]

\* The time that has passed is taken from the jobs on the cores.  A job's first
\* time on a core counts from when it has run there.
update_time(s, now) ==
  LET ran(x)       == s.job[x].last_update_time_on_core # now
      responded    == {x \in on_core(s) : s.job[x].first_time_on_core = -1 /\ ran(x)}
      response(x)  == s.job[x].last_update_time_on_core - s.job[x].arrival_time
      updated(x)   ==
        [s.job[x] EXCEPT
           !.first_time_on_core = IF x \in responded THEN s.job[x].last_update_time_on_core ELSE @,
           !.remaining_time = @ - (now - s.job[x].last_update_time_on_core),
           !.last_update_time_on_core = now]
  IN  [s EXCEPT
         !.job = [x \in DOMAIN s.job |-> IF x \in on_core(s) THEN updated(x) ELSE s.job[x]],
         !.response = adds(@, [x \in responded |-> response(x)])]

\* Slip: the job is not put back into the queue.
core_job_remove_on_id_lost(s, c) ==
  LET x == s.core[c]
  IN  [s EXCEPT !.core[c] = -1, !.job[x].last_update_time_on_core = -1]

core_job_remove_on_id(s, c) ==
  LET x == s.core[c]
  IN  priqueue_offer([s EXCEPT !.core[c] = -1, !.job[x].last_update_time_on_core = -1], x)

Available(s) == {c \in Cores(s) : s.core[c] = -1}

\* The idle core with the lowest id.
core_available(s) ==
  IF Available(s) = {} THEN -1 ELSE CHOOSE c \in Available(s) : \A d \in Available(s) : c <= d

core_assign_on_id(s, c, x, now) ==
  IF s.core[c] # -1 THEN [s EXCEPT !.failed = TRUE]
  ELSE [s EXCEPT !.core[c] = x, !.job[x].last_update_time_on_core = now]

\* Slip: the first core whose job x goes before.
core_to_preempt_first(s, x) ==
  LET beaten == {c \in Cores(s) : comparer(s, x, s.core[c]) < 0}
  IN  IF beaten = {} THEN -1 ELSE CHOOSE c \in beaten : \A d \in beaten : c <= d

\* The core whose job x goes before by most; of several the one whose job
\* arrived last.
core_to_preempt(s, x) ==
  LET beats(c)  == comparer(s, x, s.core[c])
      beaten    == {c \in Cores(s) : beats(c) < 0}
      rather(c, d) ==
        \/ beats(c) < beats(d)
        \/ /\ beats(c) = beats(d)
           /\ s.job[s.core[c]].arrival_time >= s.job[s.core[d]].arrival_time
  IN  IF beaten = {} THEN -1
      ELSE CHOOSE c \in beaten : \A d \in beaten : rather(c, d)

\* The queue's first job, if there is one, gets the core.
next_on_core(s, c, now) ==
  IF s.queue = <<>> THEN [s |-> s, result |-> -1]
  ELSE [s |-> core_assign_on_id([s EXCEPT !.queue = Tail(@)], c, Head(s.queue), now),
        result |-> Head(s.queue)]

-----------------------------------------------------------------------------
(* The calls of the simulator: the state they leave, and what they return.  *)

NewJob(time, running_time, priority) ==
  [arrival_time |-> time, running_time |-> running_time, remaining_time |-> running_time,
   priority |-> priority, first_time_on_core |-> -1, last_update_time_on_core |-> -1]

scheduler_new_job(s, x, time, running_time, priority) ==
  LET u     == update_time(s, time)
      v     == [u EXCEPT !.job = [y \in DOMAIN @ \cup {x} |->
                                    IF y = x THEN NewJob(time, running_time, priority) ELSE @[y]]]
      free  == core_available(v)
      index == IF v.schema \in {"PSJF", "PPRI"} THEN core_to_preempt(v, x) ELSE -1
  IN  CASE free # -1 -> [s |-> core_assign_on_id(v, free, x, time), result |-> free]
        [] free = -1 /\ index # -1 ->
             [s |-> core_assign_on_id(core_job_remove_on_id(v, index), index, x, time),
              result |-> index]
        [] OTHER -> [s |-> priqueue_offer(v, x), result |-> -1]

\* A job that has finished goes through the queue, and is forgotten.
scheduler_job_finished(s, c, x, time) ==
  LET u    == update_time(s, time)
      v    == priqueue_remove(core_job_remove_on_id(u, c), x)
      took == time - u.job[x].arrival_time
      w    == [v EXCEPT !.wait = add(@, took - u.job[x].running_time),
                        !.turnaround = add(@, took),
                        !.job = Restrict(@, DOMAIN @ \ {x})]
  IN  IF c \notin Cores(s) \/ u.core[c] # x
        THEN [s |-> [s EXCEPT !.failed = TRUE], result |-> -1]
        ELSE next_on_core(w, c, time)

scheduler_quantum_expired(s, c, time) ==
  next_on_core(core_job_remove_on_id(update_time(s, time), c), c, time)
=============================================================================
