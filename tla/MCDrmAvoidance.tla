--------------------------- MODULE MCDrmAvoidance ---------------------------
(* An instance of DrmAvoidance for TLC: what each thread locks, how often.  *)
EXTENDS DrmAvoidance

CONSTANTS t1, t2, t3, r1, r2, r3

ThreeThreads == {t1, t2, t3}

\* t1 locks once, the others twice.
CallsMC == [t \in Threads |-> IF t = t1 THEN 1 ELSE 2]

ThreeMutexes == {r1, r2, r3}

\* t2 and t3 close a cycle; t1 waits for one of them, or has a mutex beside it.
WantsMC == [t \in Threads |-> IF t = t1 THEN {r1, r3} ELSE {r1, r2}]

FailsMC == {t1}
=============================================================================
