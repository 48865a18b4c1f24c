--------------------------- MODULE MCDrmDetection ---------------------------
(* An instance of DrmDetection for TLC: what each thread locks, how often.  *)
EXTENDS DrmDetection

CONSTANTS t1, t2, t3, m1, m2

ThreeThreads == {t1, t2, t3}

Mutexes == {m1, m2}

ReleaseMC == <<m1, m2>>

\* t1 and t2 close a cycle; t3 waits for a mutex of it.
WantsMC == [t \in Threads |-> IF t = t3 THEN {m1} ELSE {m1, m2}]

CallsMC == [t \in Threads |-> IF t = t3 THEN 1 ELSE 2]
=============================================================================
