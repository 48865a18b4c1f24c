------------------------------ MODULE Schedule ------------------------------
(***************************************************************************)
(* What the six schemes of mp4 promise (doc/scheduler.html): which jobs    *)
(* run in each unit of time, as a function of the jobs alone, without      *)
(* queues, a record of the cores or the calls of a scheduler.              *)
(***************************************************************************)
EXTENDS Integers, FiniteSets

VARIABLES input,   \* a [scheme, cores, quantum, file] record, which does not change
          time,
          left     \* how long each job has still to run

vars == <<input, time, left>>

\* The jobs of an input, and a job of it.
Jobs(in) == {in.file[i].job_id : i \in DOMAIN in.file}

Of(in, x) == in.file[CHOOSE i \in DOMAIN in.file : in.file[i].job_id = x]

\* Of two jobs the one with the lesser key goes first, and if they are equal the
\* one that came first.  l is what is left of the jobs.
Key(in, l, x) == CASE in.scheme = "FCFS"            -> 0
                   [] in.scheme = "SJF"             -> Of(in, x).run_time
                   [] in.scheme = "PSJF"            -> l[x]
                   [] in.scheme \in {"PRI", "PPRI"} -> Of(in, x).priority

Before(in, l, x, y) ==
  \/ Key(in, l, x) < Key(in, l, y)
  \/ /\ Key(in, l, x) = Key(in, l, y)
     /\ Of(in, x).arrival_time < Of(in, y).arrival_time

\* Without preemption a core is given away as soon as it is free: to a job that
\* has waited, and to the one that comes in this unit if there is none.
Rank(l, x) == IF l[x] < Of(input, x).run_time THEN 0
              ELSE IF Of(input, x).arrival_time < time THEN 1 ELSE 2

\* May x run while y, which is ready too, does not.
Goes(l, x, y) ==
  CASE input.scheme = "RR"               -> TRUE
    [] input.scheme \in {"PSJF", "PPRI"} -> Before(input, l, x, y)
    [] OTHER -> \/ Rank(l, x) < Rank(l, y)
                \/ Rank(l, x) = Rank(l, y) /\ Rank(l, y) # 0 /\ Before(input, l, x, y)

\* No core is idle while a job waits.
Chosen(l, running) ==
  LET ready   == {x \in Jobs(input) : Of(input, x).arrival_time <= time /\ l[x] > 0}
      waiting == ready \ running
  IN  /\ running \subseteq ready
      /\ Cardinality(running) <= input.cores
      /\ waiting # {} => Cardinality(running) = input.cores
      /\ \A x \in running, y \in waiting : Goes(l, x, y)

Init == /\ time = 0
        /\ left = [x \in Jobs(input) |-> Of(input, x).run_time]

Unit == \E running \in SUBSET Jobs(input) :
          LET l == left
          IN  /\ left' = [x \in Jobs(input) |-> IF x \in running THEN l[x] - 1 ELSE l[x]]
              /\ time' = time + 1
              /\ Chosen(l, running)
              /\ UNCHANGED input

Spec == Init /\ [][Unit]_vars
=============================================================================
