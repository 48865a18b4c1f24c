------------------------------ MODULE LockTable ------------------------------
(***************************************************************************)
(* What every mode of a deadlock resilient mutex promises its clients, seen *)
(* from the calls that return: held[t] are the mutexes whose drm_lock       *)
(* returned 0 to thread t and that t has not asked to unlock since.  A lock *)
(* may fail, but it is never granted while another thread has it.           *)
(***************************************************************************)
CONSTANTS Threads, Resources

VARIABLE held

Init == held = [t \in Threads |-> {}]

Grant(t, r) == /\ \A u \in Threads : r \notin held[u]
               /\ held' = [held EXCEPT ![t] = @ \cup {r}]

Release(t, r) == /\ r \in held[t]
                 /\ held' = [held EXCEPT ![t] = @ \ {r}]

Next == \E t \in Threads, r \in Resources : Grant(t, r) \/ Release(t, r)

Spec == Init /\ [][Next]_held
=============================================================================
