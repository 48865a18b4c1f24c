----------------------------- MODULE WaitForGraph ----------------------------
(***************************************************************************)
(* What libwfg promises its caller, read off the comments of libwfg.c and  *)
(* the return codes of its functions, with no queue and no walk: a thread  *)
(* waits for at most one resource, a resource is held by at most one       *)
(* thread, and wfg_get_cycle names the threads of some cycle when there is *)
(* one and nobody when there is none.                                      *)
(***************************************************************************)
CONSTANTS Threads, Resources, None

VARIABLES wait,    \* wait[t]: the resource t waits for, or None
          hold,    \* hold[r]: the thread that holds r, or None
          failed,  \* did the last call fail to change the graph
          cycle    \* the threads it returned, if it was wfg_get_cycle

vars == <<wait, hold, failed, cycle>>

\* Every thread of S waits for a resource that a thread of S holds.
Knot(S) == \A t \in S : \E r \in Resources : wait[t] = r /\ hold[r] \in S

IsCycle(S) == S # {} /\ Knot(S) /\ \A P \in (SUBSET S) \ {{}, S} : ~ Knot(P)

Init == /\ wait = [t \in Threads |-> None]
        /\ hold = [r \in Resources |-> None]
        /\ failed = FALSE
        /\ cycle = {}

AddWaitEdge(t, r) ==
  /\ failed' = (wait[t] # None)
  /\ wait' = [wait EXCEPT ![t] = IF failed' THEN @ ELSE r]
  /\ cycle' = {}
  /\ UNCHANGED hold

AddHoldEdge(t, r) ==
  /\ failed' = ~ (wait[t] = r /\ hold[r] = None)
  /\ wait' = [wait EXCEPT ![t] = IF failed' THEN @ ELSE None]
  /\ hold' = [hold EXCEPT ![r] = IF failed' THEN @ ELSE t]
  /\ cycle' = {}

\* A thread may both hold a resource and wait for it: one edge goes.
RemoveEdge(t, r) ==
  /\ \/ wait[t] = r /\ wait' = [wait EXCEPT ![t] = None] /\ UNCHANGED hold
     \/ hold[r] = t /\ hold' = [hold EXCEPT ![r] = None] /\ UNCHANGED wait
     \/ wait[t] # r /\ hold[r] # t /\ UNCHANGED <<wait, hold>>
  /\ failed' = (wait[t] # r /\ hold[r] # t)
  /\ cycle' = {}

GetCycle ==
  /\ \/ IsCycle(cycle')
     \/ cycle' = {} /\ \A S \in (SUBSET Threads) \ {{}} : ~ Knot(S)
  /\ failed' = FALSE
  /\ UNCHANGED <<wait, hold>>

Next == \/ \E t \in Threads, r \in Resources :
             AddWaitEdge(t, r) \/ AddHoldEdge(t, r) \/ RemoveEdge(t, r)
        \/ GetCycle

Spec == Init /\ [][Next]_vars
=============================================================================
