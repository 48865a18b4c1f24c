--------------------------- MODULE MCDrmPrevention ---------------------------
(* Instances of DrmPrevention for TLC: how often each thread locks.        *)
EXTENDS DrmPrevention

CONSTANTS t1, t2

TwoThreads == {t1, t2}
CallsMC == [t \in Threads |-> IF t = t1 THEN 3 ELSE 2]
=============================================================================
