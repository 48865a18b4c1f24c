------------------------------ MODULE WfgCalls ------------------------------
(***************************************************************************)
(* libwfg.c under every sequence of calls, one caller at a time (libdrm    *)
(* calls it under mutex_wfg; ds6 and wfgtest.c from one thread).  The      *)
(* functions that change the graph are one step each; wfg_get_cycle is one *)
(* step per turn of its loops.                                             *)
(***************************************************************************)
EXTENDS LibWfg

CONSTANT Nobody   \* "no thread" and "no resource" of the abstract graph

ASSUME NobodyAssumption == Nobody \notin Threads \cup Resources

VARIABLES wfg,     \* the graph: its q_edge
          locals,  \* the local variables of the wfg_get_cycle in progress
          ret,     \* what the last call returned, if it changes the graph
          array    \* the threads in the array the last call returned, if it
                   \* was wfg_get_cycle (whose return value is their number)

wfg_vars == <<wfg, locals, ret, array>>

WfgTypeOK == /\ wfg \in Seq(Edge)
             /\ locals \in Walk
             /\ ret \in 0 .. 3
             /\ array \in SUBSET Threads

wfg_init == /\ wfg = <<>>
            /\ locals = NoWalk
            /\ ret = 0
            /\ array = {}

InGetCycle == locals.start # NULL

\* A call that changes the graph: outcome is what the function computes.
Change(outcome) == /\ ~ InGetCycle
                   /\ wfg' = outcome.q
                   /\ ret' = outcome.ret
                   /\ array' = {}
                   /\ UNCHANGED locals

AddWaitEdge(t, r) == Change(wfg_add_wait_edge(wfg, t, r))
AddHoldEdge(t, r) == Change(wfg_add_hold_edge(wfg, t, r))
RemoveEdge(t, r)  == Change(wfg_remove_edge(wfg, t, r))

\* The walk has come to w: the call goes on, or returns the cycle of w.
Continue(w) == /\ locals' = IF w.start = NULL THEN NoWalk ELSE w
               /\ array' = IF w.start = NULL THEN w.seen ELSE array
               /\ ret' = IF w.start = NULL THEN 0 ELSE ret
               /\ UNCHANGED wfg

GetCycle == ~ InGetCycle /\ Continue(walk_from(wfg, 1))

GetCycleStep == InGetCycle /\ Continue(walk_step(wfg, locals))

WfgNext == \/ \E t \in Threads, r \in Resources :
                AddWaitEdge(t, r) \/ AddHoldEdge(t, r) \/ RemoveEdge(t, r)
           \/ GetCycle
           \/ GetCycleStep

\* A function that has been called goes on running.
WfgSpec == wfg_init /\ [][WfgNext]_wfg_vars /\ WF_wfg_vars(GetCycleStep)

-----------------------------------------------------------------------------
\* A thread has at most one wait edge and a resource at most one hold edge,
\* whatever the order of the calls: the fetch functions that stop at the
\* first match rely on it.
UniqueEdges == Unique(wfg)

\* The inductive invariant: of the queue, and of a walk of wfg_get_cycle, which
\* has gone through threads that wait for each other (libwfg.c:56-219).
WfgInv == /\ WfgTypeOK /\ UniqueEdges
          /\ InGetCycle => WalkSound(wfg, locals) /\ WalkPath(wfg, locals)

\* The abstract graph: who waits for what, who holds what.
WaitOf(q, t) == IF \E r \in Resources : Waits(q, t, r)
                  THEN CHOOSE r \in Resources : Waits(q, t, r) ELSE Nobody
HolderOf(q, r) == IF \E t \in Threads : Holds(q, t, r)
                    THEN CHOOSE t \in Threads : Holds(q, t, r) ELSE Nobody

Graph == INSTANCE WaitForGraph
           WITH wait <- [t \in Threads |-> WaitOf(wfg, t)],
                hold <- [r \in Resources |-> HolderOf(wfg, r)],
                failed <- (ret # 0), cycle <- array, None <- Nobody

\* libwfg.c implements the abstract graph: each function does to the edges
\* what its comment says, fails when it says so, and wfg_get_cycle, when it
\* returns, has found a cycle if and only if there is one (libwfg.c:56-232).
GraphSpec == Graph!Spec

\* wfg_get_cycle returns as long as nobody is in a cycle: every walk then runs
\* into a resource nobody holds or a thread that waits for nothing
\* (libwfg.c:206-209).
ReturnsWithoutCycle ==
  (InGetCycle /\ \A S \in (SUBSET Threads) \ {{}} : ~ Knot(wfg, S)) ~> ~ InGetCycle

\* wfg_get_cycle returns.  This is what its comment says (libwfg.c:156-160):
\* if the graph contains a cycle the function "returns the length of the
\* array".
GetCycleReturns == InGetCycle ~> ~ InGetCycle
=============================================================================
