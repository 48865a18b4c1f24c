---------------------------- MODULE MCSimulator ----------------------------
(* Four jobs on one to three cores: while some run, one can preempt and     *)
(* another wait.                                                           *)
EXTENDS Simulator

\* The files: in the order of arrival, and in another with a unit in which no
\* job arrives.
Files(runs, priorities) ==
  {[i \in 1 .. 4 |-> [job_id |-> i - 1, arrival_time |-> a[i], run_time |-> r[i], priority |-> p[i]]] :
     a \in {<<0, 1, 2, 3>>, <<2, 0, 4, 1>>}, r \in runs, p \in priorities}

Run(schemes, quanta, files) ==
  {[scheme |-> s, cores |-> c, quantum |-> q, file |-> f] :
     s \in schemes, c \in 1 .. 3, q \in quanta, f \in files}

InputsMC ==
  Run({"FCFS", "SJF", "PSJF"}, {0}, Files([1 .. 4 -> {1, 3, 4}], {<<0, 0, 0, 0>>}))
  \cup Run({"PRI", "PPRI"}, {0}, Files({<<3, 3, 3, 3>>, <<4, 1, 2, 2>>}, [1 .. 4 -> 0 .. 2]))
  \cup Run({"RR"}, {1, 2}, Files([1 .. 4 -> {1, 3, 4}], {<<0, 0, 0, 0>>}))
=============================================================================
