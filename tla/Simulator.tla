------------------------------ MODULE Simulator ------------------------------
(***************************************************************************)
(* The simulator of mp4 (simulator.c) with the scheduler library it calls. *)
(* Time goes in units: at the start of each the jobs that have finished    *)
(* are reported, then the quanta that have expired, then the jobs that     *)
(* arrive; then every core runs its job for one unit.                      *)
(*                                                                         *)
(* A run begins with the jobs of a file, in its order: [job_id,            *)
(* arrival_time, run_time, priority] with positive run times and, as       *)
(* scheduler_new_job assumes, different arrival times.                     *)
(***************************************************************************)
EXTENDS LibScheduler, FiniteSetsExt

CONSTANTS Inputs   \* [scheme, cores, quantum, file] records

Input == [scheme : Schemes, cores : Nat \ {0}, quantum : Nat,
          file : Seq([job_id : Nat, arrival_time : Nat, run_time : Nat \ {0}, priority : Int])]

\* RR has a quantum, and no two jobs have the same number or arrival time.
Valid(in) ==
  /\ in \in Input
  /\ in.scheme = "RR" => in.quantum > 0
  /\ \A i, j \in DOMAIN in.file :
       \/ in.file[i].job_id = in.file[j].job_id
       \/ in.file[i].arrival_time = in.file[j].arrival_time
       => i = j

ASSUME InputsAssumption == \A in \in Inputs : Valid(in)

VARIABLES input,
          time,
          phase,          \* where main is in a time unit
          jobs,           \* the jobs that have not finished
          quantum_clock,  \* of each core
          sched,          \* the state of the library
          started,        \* the unit in which each job first ran, for the jobs that have
          idled           \* units that jobs which had arrived spent on no core

vars == <<input, time, phase, jobs, quantum_clock, sched, started, idled>>

CoreIds == 0 .. input.cores - 1

Init == /\ input \in Inputs
        /\ time = 0
        /\ phase = "finished"
        /\ jobs = [i \in DOMAIN input.file |->
                     [job_id       |-> input.file[i].job_id,
                      arrival_time |-> input.file[i].arrival_time,
                      run_time     |-> input.file[i].run_time,
                      priority     |-> input.file[i].priority,
                      core_id      |-> -1,
                      arrived      |-> FALSE]]
        /\ quantum_clock = [c \in CoreIds |-> -1]
        /\ sched = scheduler_start_up(input.cores, input.scheme)
        /\ started = <<>>
        /\ idled = 0

-----------------------------------------------------------------------------
\* The loops go through the array in order: the first job that has finished.
Finished == {i \in DOMAIN jobs : jobs[i].run_time = 0}

\* A job of the array gets the core, if one has the number.
CanSet(array, id) == \E i \in DOMAIN array : array[i].job_id = id /\ array[i].arrived

set_active_job(array, id, c) ==
  [i \in DOMAIN array |-> IF array[i].job_id = id THEN [array[i] EXCEPT !.core_id = c] ELSE array[i]]

\* After a call that was to name a job for core c: go on, or return 3.
Named(call, c, array) ==
  IF call.result = -1 \/ CanSet(array, call.result)
    THEN jobs' = set_active_job(array, call.result, c) /\ UNCHANGED phase
    ELSE jobs' = array /\ phase' = "error"

\* The last job of the array takes the place of the one that has finished.
JobFinished ==
  LET i    == Min(Finished)
      c    == jobs[i].core_id
      call == scheduler_job_finished(sched, c, jobs[i].job_id, time)
      left == SubSeq([jobs EXCEPT ![i] = jobs[Len(jobs)]], 1, Len(jobs) - 1)
  IN  /\ phase = "finished"
      /\ Finished # {}
      /\ sched' = call.s
      /\ quantum_clock' = IF input.scheme = "RR" THEN [quantum_clock EXCEPT ![c] = input.quantum]
                                                 ELSE quantum_clock
      /\ Named(call, c, left)
      /\ UNCHANGED <<input, time, started, idled>>

NoMoreFinished == /\ phase = "finished"
                  /\ Finished = {}
                  /\ phase' = IF jobs = <<>> THEN "end" ELSE "expired"
                  /\ UNCHANGED <<input, time, jobs, quantum_clock, sched, started, idled>>

\* The cores whose quantum has expired on a job.
Expired == IF input.scheme # "RR" THEN {}
           ELSE {c \in CoreIds : quantum_clock[c] = 0 /\ \E i \in DOMAIN jobs : jobs[i].core_id = c}

QuantumExpired ==
  \E c \in Expired :
    LET i    == Min({k \in DOMAIN jobs : jobs[k].core_id = c})
        call == scheduler_quantum_expired(sched, c, time)
    IN  /\ phase = "expired"
        /\ \A d \in Expired : c <= d
        /\ sched' = call.s
        /\ quantum_clock' = [quantum_clock EXCEPT ![c] = input.quantum]
        /\ Named(call, c, [jobs EXCEPT ![i].core_id = -1])
        /\ UNCHANGED <<input, time, started, idled>>

NoMoreExpired == /\ phase = "expired"
                 /\ Expired = {}
                 /\ phase' = "arrive"
                 /\ UNCHANGED <<input, time, jobs, quantum_clock, sched, started, idled>>

Arriving == {i \in DOMAIN jobs : jobs[i].arrival_time = time /\ ~ jobs[i].arrived}

\* Slip: a core that was idle starts with the clock it had.
Arrive_old_clock ==
  LET i    == Min(Arriving)
      call == scheduler_new_job(sched, jobs[i].job_id, time, jobs[i].run_time, jobs[i].priority)
      c    == call.result
  IN  /\ phase = "arrive"
      /\ Arriving # {}
      /\ sched' = call.s
      /\ jobs' = [k \in DOMAIN jobs |->
                    CASE k = i -> [jobs[k] EXCEPT !.arrived = TRUE, !.core_id = c]
                      [] k # i /\ c # -1 /\ jobs[k].core_id = c -> [jobs[k] EXCEPT !.core_id = -1]
                      [] OTHER -> jobs[k]]
      /\ UNCHANGED <<input, time, phase, quantum_clock, started, idled>>

\* Whoever was on the core of the new job is off it.
Arrive ==
  LET i    == Min(Arriving)
      call == scheduler_new_job(sched, jobs[i].job_id, time, jobs[i].run_time, jobs[i].priority)
      c    == call.result
  IN  /\ phase = "arrive"
      /\ Arriving # {}
      /\ sched' = call.s
      /\ jobs' = [k \in DOMAIN jobs |->
                    CASE k = i -> [jobs[k] EXCEPT !.arrived = TRUE, !.core_id = c]
                      [] k # i /\ c # -1 /\ jobs[k].core_id = c -> [jobs[k] EXCEPT !.core_id = -1]
                      [] OTHER -> jobs[k]]
      /\ quantum_clock' = IF input.scheme = "RR" /\ c # -1
                            THEN [quantum_clock EXCEPT ![c] = input.quantum] ELSE quantum_clock
      /\ UNCHANGED <<input, time, phase, started, idled>>

\* One unit of time.  It is an error if no core has a job and some job waits.
RunUnit ==
  LET running == {i \in DOMAIN jobs : jobs[i].core_id # -1}
      alive   == {i \in DOMAIN jobs : jobs[i].arrived}
      fresh   == {jobs[i].job_id : i \in running} \ DOMAIN started
  IN  /\ phase = "arrive"
      /\ Arriving = {}
      /\ jobs' = [i \in DOMAIN jobs |-> IF i \in running THEN [jobs[i] EXCEPT !.run_time = @ - 1]
                                                         ELSE jobs[i]]
      /\ quantum_clock' = [c \in CoreIds |->
           quantum_clock[c] - Cardinality({i \in running : jobs[i].core_id = c})]
      /\ started' = [x \in DOMAIN started \cup fresh |-> IF x \in fresh THEN time ELSE started[x]]
      /\ idled' = idled + Cardinality(alive \ running)
      /\ time' = time + 1
      /\ phase' = IF running = {} /\ alive # {} THEN "error" ELSE "finished"
      /\ UNCHANGED <<input, sched>>

Next == \/ JobFinished \/ NoMoreFinished \/ QuantumExpired \/ NoMoreExpired \/ Arrive \/ RunUnit
        \/ phase \in {"end", "error"} /\ UNCHANGED vars

Spec == Init /\ [][Next]_vars

-----------------------------------------------------------------------------
(* What holds.                                                             *)

arrived == {jobs[i].job_id : i \in {k \in DOMAIN jobs : jobs[k].arrived}}

\* How long each job of the file has still to run.
LeftOf(in, array) ==
  [x \in {in.file[i].job_id : i \in DOMAIN in.file} |->
     LET there == {i \in DOMAIN array : array[i].job_id = x}
     IN  IF there = {} THEN 0 ELSE array[CHOOSE i \in there : TRUE].run_time]

Left == LeftOf(input, jobs)

S == INSTANCE Schedule WITH left <- Left

SimJob == [job_id : Nat, arrival_time : Nat, run_time : Nat, priority : Int,
           core_id : Int, arrived : BOOLEAN]

JobRecord == [arrival_time : Nat, running_time : Nat, remaining_time : Nat, priority : Int,
              first_time_on_core : Nat \cup {-1}, last_update_time_on_core : Nat \cup {-1}]

TypeOK == /\ Valid(input)
          /\ time \in Nat
          /\ phase \in {"finished", "expired", "arrive", "end", "error"}
          /\ jobs \in Seq(SimJob)
          /\ quantum_clock \in [CoreIds -> Int]

\* The library and the simulator agree which job is on which core, every other
\* job that has arrived and not finished is in the queue, once, and they agree
\* how long each job has still to run (libscheduler.c:65-86, 118-192,
\* simulator.c:230-374).
Agree ==
  /\ \A c \in CoreIds, i \in DOMAIN jobs :
       sched.core[c] = jobs[i].job_id <=> jobs[i].core_id = c
  /\ ToSet(sched.queue) = arrived \ on_core(sched)
  /\ Len(sched.queue) = Cardinality(ToSet(sched.queue))
  /\ \A i \in {k \in DOMAIN jobs : jobs[k].arrived} :
       LET j == sched.job[jobs[i].job_id]
       IN  jobs[i].run_time =
             IF jobs[i].core_id = -1 THEN j.remaining_time
             ELSE j.remaining_time - (time - j.last_update_time_on_core)

\* No check of either side fails (simulator.c:253, 297, 352, 434; libscheduler.c
\* 121-128, 154, 168).
NoError == phase # "error" /\ ~ sched.failed

\* In every unit the cores run the jobs that the scheme says, whatever has been
\* preempted, put into the queue or taken out of it before: no core is idle
\* while a job waits, a started job goes on unless the scheme is preemptive, and
\* of the others the ones that go first by the scheme run (libpriqueue.c:71-105,
\* libscheduler.c:65-343, doc/scheduler.html).
FollowsSchedule == S!Spec

\* In RR jobs leave the queue at its front, for a core, and nobody is put in
\* front of a job that waits: each runs before the ones that came later run
\* again (libpriqueue.c:71-105, doc/scheduler.html).
RoundRobin ==
  [][input.scheme = "RR" =>
       \/ IsPrefix(sched.queue, sched'.queue)
       \/ /\ sched.queue # <<>> /\ IsPrefix(Tail(sched.queue), sched'.queue)
          /\ Head(sched.queue) \in on_core(sched')]_vars

-----------------------------------------------------------------------------
(* The inductive invariant.  in is the input, s the state of the library,  *)
(* l how long each job has still to run, now the time.                     *)

\* The types of the library's state.
LibraryTypes(in, s) ==
  /\ DOMAIN s = {"schema", "core", "queue", "job", "wait", "turnaround", "response", "failed"}
  /\ s.schema = in.scheme
  /\ s.core \in [0 .. in.cores - 1 -> S!Jobs(in) \cup {-1}]
  /\ s.queue \in Seq(S!Jobs(in))
  /\ DOMAIN s.job \subseteq S!Jobs(in)
  /\ s.job \in [DOMAIN s.job -> JobRecord]
  /\ ~ s.failed

\* Every job the library knows is in one place, and no core is idle while a job
\* waits.
InOnePlace(s) ==
  /\ \A c, d \in Cores(s) : s.core[c] = s.core[d] /\ s.core[c] # -1 => c = d
  /\ \A i, j \in DOMAIN s.queue : s.queue[i] = s.queue[j] => i = j
  /\ ToSet(s.queue) \cap on_core(s) = {}
  /\ ToSet(s.queue) \cup on_core(s) = DOMAIN s.job
  /\ s.queue # <<>> => Available(s) = {}

\* The records of the library say what the file says, and how much is left.
Records(in, s, l, now) ==
  \A x \in DOMAIN s.job :
    LET j == s.job[x]
        updated == j.last_update_time_on_core
    IN  /\ j.arrival_time = S!Of(in, x).arrival_time
        /\ j.running_time = S!Of(in, x).run_time
        /\ j.priority = S!Of(in, x).priority
        /\ x \in on_core(s) => updated \in 0 .. now /\ l[x] = j.remaining_time - (now - updated)
        /\ x \notin on_core(s) => updated = -1 /\ l[x] = j.remaining_time

\* May x be on a core while y is in the queue: the one that goes first is, where
\* a scheme is preemptive, and where it is not only y has surely not begun.
Leads(in, l, now, x, y) ==
  IF in.scheme \in {"PSJF", "PPRI"} THEN S!Before(in, l, x, y)
  ELSE /\ l[y] = S!Of(in, y).run_time
       /\ l[x] = S!Of(in, x).run_time =>
            /\ S!Of(in, x).arrival_time < now
            /\ S!Of(in, y).arrival_time = now \/ S!Before(in, l, x, y)

\* Who goes first: in the queue, and on the cores before those in the queue.
InOrder(in, s, l, now) ==
  in.scheme # "RR" =>
    /\ \A i, j \in DOMAIN s.queue : i < j => S!Before(in, l, s.queue[i], s.queue[j])
    /\ \A x \in on_core(s), y \in ToSet(s.queue) : Leads(in, l, now, x, y)

Library(in, s, l, now) == /\ LibraryTypes(in, s) /\ InOnePlace(s)
                          /\ Records(in, s, l, now) /\ InOrder(in, s, l, now)

\* The simulator has each job once, with what the file says of it; it arrives at
\* its time, and a job with nothing left to run is on a core until the unit ends.
JobsAgree ==
  /\ \A i, j \in DOMAIN jobs : jobs[i].job_id = jobs[j].job_id => i = j
  /\ \A i \in DOMAIN jobs :
       LET j == jobs[i]
           f == S!Of(input, j.job_id)
       IN  /\ j.job_id \in S!Jobs(input)
           /\ j.arrival_time = f.arrival_time /\ j.priority = f.priority
           /\ j.run_time <= f.run_time
           /\ j.arrived => j.arrival_time < time \/ (j.arrival_time = time /\ phase = "arrive")
           /\ ~ j.arrived => j.arrival_time >= time /\ j.run_time = f.run_time
           /\ j.run_time = 0 => phase = "finished" /\ j.core_id # -1
           /\ j.core_id \in CoreIds \cup {-1}
           /\ \A c \in CoreIds : sched.core[c] = j.job_id <=> j.core_id = c
  /\ DOMAIN sched.job = arrived

\* In RR a job on a core has a part of its quantum left when the cores run: it
\* expires when the clock is 0, and would never if the clock went below
\* (simulator.c:262, 296-314, 361).
ClocksAgree ==
  input.scheme = "RR" =>
    \A c \in CoreIds : sched.core[c] # -1 =>
      /\ quantum_clock[c] \in 0 .. input.quantum
      /\ phase = "arrive" => quantum_clock[c] # 0

\* The sums of the statistics are about the jobs that have left, and those whose
\* first time on a core has been seen.
Ended(in, s, l) == {x \in S!Jobs(in) : l[x] = 0} \ DOMAIN s.job

Unseen(s) == {x \in DOMAIN s.job : s.job[x].first_time_on_core = -1}

Waited(in, l, now) ==
  [x \in S!Jobs(in) |-> now - S!Of(in, x).arrival_time - (S!Of(in, x).run_time - l[x])]

Runs(in) == [x \in S!Jobs(in) |-> S!Of(in, x).run_time]

Responses(in, st) == [x \in DOMAIN st |-> st[x] - S!Of(in, x).arrival_time]

\* A job's first time on a core is seen in the first call after it has run, and
\* until then the library has the unit in which it first ran (libscheduler.c:76-82).
FirstTimes(in, s, l, now, st) ==
  /\ DOMAIN st = {x \in S!Jobs(in) : l[x] < S!Of(in, x).run_time}
  /\ \A x \in DOMAIN st : st[x] \in Nat
  /\ \A x \in DOMAIN s.job :
       LET j == s.job[x]
       IN  IF x \in Unseen(s)
             THEN /\ j.remaining_time = j.running_time
                  /\ x \in on_core(s) /\ j.last_update_time_on_core # now
                       => st[x] = j.last_update_time_on_core
             ELSE j.remaining_time < j.running_time

SumTypes(s) ==
  \A sum \in {s.wait, s.turnaround, s.response} :
    sum = [total |-> sum.total, num |-> sum.num] /\ sum.total \in Int /\ sum.num \in Nat

\* What has been added up, and what is yet to be added.
Sums(in, s, l, now, st, idle) ==
  /\ s.wait.total + SumFunctionOnSet(Waited(in, l, now), DOMAIN s.job) = idle
  /\ s.turnaround.total = s.wait.total + SumFunctionOnSet(Runs(in), Ended(in, s, l))
  /\ s.response.total = SumFunctionOnSet(Responses(in, st), DOMAIN st \ Unseen(s))
  /\ s.wait.num = Cardinality(Ended(in, s, l))
  /\ s.turnaround.num = Cardinality(Ended(in, s, l))
  /\ s.response.num = Cardinality(DOMAIN st \ Unseen(s))

Times(in, s, l, now, st, idle) ==
  FirstTimes(in, s, l, now, st) /\ SumTypes(s) /\ Sums(in, s, l, now, st, idle)

\* What both records may be, no error, and how far each side is (libscheduler.c
\* 65-343, simulator.c:246-374).
Inv == /\ TypeOK /\ NoError /\ JobsAgree /\ ClocksAgree
       /\ Library(input, sched, Left, time)

\* The same with the statistics, which are complete when no job is left
\* (libscheduler.c:35-57, 65-86).
IInv == /\ Inv
        /\ Times(input, sched, Left, time, started, idled)
        /\ phase = "end" => jobs = <<>>

\* At the end the three averages are over all jobs: waiting times add up to
\* the time jobs have spent on no core, turnaround times to that and the
\* running times, and response times to the time before each job first ran,
\* which is not before the unit in which it did (libscheduler.c:35-57, 65-86).
Statistics ==
  phase = "end" =>
    LET n == Len(input.file)
        before(x) == started[x] - S!Of(input, x).arrival_time
    IN  /\ sched.wait = [total |-> idled, num |-> n]
        /\ sched.turnaround = [total |-> idled + SumFunction(Runs(input)), num |-> n]
        /\ sched.response = [total |-> SumFunction([x \in S!Jobs(input) |-> before(x)]), num |-> n]
=============================================================================
