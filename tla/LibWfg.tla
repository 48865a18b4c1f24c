------------------------------- MODULE LibWfg -------------------------------
(***************************************************************************)
(* The wait-for graph library of mp6 (libwfg.c) as operators on its only   *)
(* state, the queue q_edge of edges.  An edge is one thread, one resource  *)
(* and a flag: "Wait" (thread -> resource) or "Hold" (resource -> thread). *)
(* The order of the queue is kept: the fetch functions return the first    *)
(* edge that matches, and wfg_get_cycle starts its walks in queue order.   *)
(*                                                                         *)
(* The pointers of the C code are positions of the queue, 0 is its NULL.   *)
(* The operators that change the graph return both the new queue and the   *)
(* function's return value.                                                *)
(***************************************************************************)
EXTENDS Queue

CONSTANTS Threads,    \* the pthread_t of every thread that calls the library
          Resources   \* the r_id of every resource

Edge == [t_id : Threads, r_id : Resources, flag : {"Wait", "Hold"}]

fetch_thread_wait(q, t) ==
  FirstOf({i \in DOMAIN q : q[i].t_id = t /\ q[i].flag = "Wait"})

\* Slip: the flag of the edge is not looked at.
fetch_resource_hold_any_flag(q, r) == FirstOf({i \in DOMAIN q : q[i].r_id = r})

fetch_resource_hold(q, r) ==
  FirstOf({i \in DOMAIN q : q[i].r_id = r /\ q[i].flag = "Hold"})

-----------------------------------------------------------------------------
(* The functions that change the graph.                                    *)

wfg_add_wait_edge(q, t, r) ==
  IF fetch_thread_wait(q, t) # NULL
    THEN [q |-> q, ret |-> 1]
    ELSE [q |-> Append(q, [t_id |-> t, r_id |-> r, flag |-> "Wait"]), ret |-> 0]

\* Slips: nobody looks whether the resource is held; the hold edge is put in
\* beside the wait edge and not in its place.
wfg_add_hold_edge_unchecked(q, t, r) ==
  LET item == fetch_thread_wait(q, t)
  IN  IF item = NULL           THEN [q |-> q, ret |-> 1]
      ELSE IF q[item].r_id # r THEN [q |-> q, ret |-> 2]
      ELSE [q |-> [q EXCEPT ![item].flag = "Hold"], ret |-> 0]
wfg_add_hold_edge_beside(q, t, r) ==
  IF fetch_resource_hold(q, r) # NULL
    THEN [q |-> q, ret |-> 3]
    ELSE [q |-> Append(q, [t_id |-> t, r_id |-> r, flag |-> "Hold"]), ret |-> 0]

wfg_add_hold_edge(q, t, r) ==
  LET item == fetch_thread_wait(q, t)
  IN  IF item = NULL                           THEN [q |-> q, ret |-> 1]
      ELSE IF q[item].r_id # r                 THEN [q |-> q, ret |-> 2]
      ELSE IF fetch_resource_hold(q, r) # NULL THEN [q |-> q, ret |-> 3]
      ELSE [q |-> [q EXCEPT ![item].flag = "Hold"], ret |-> 0]

wfg_remove_edge(q, t, r) ==
  LET item == FirstOf({i \in DOMAIN q : q[i].t_id = t /\ q[i].r_id = r})
  IN  IF item = NULL THEN [q |-> q, ret |-> 1]
                     ELSE [q |-> queue_remove_at(q, item), ret |-> 0]

-----------------------------------------------------------------------------
(* wfg_get_cycle, one iteration of its loops at a time, so that a walk     *)
(* that never ends is a behaviour of the model too.  The local variables:  *)
(* start is the edge the current walk began from (the head of q_thread),   *)
(* begin the edge it has reached, seen the threads of q_thread.  When the  *)
(* loops are over, start is NULL and seen is the cycle that was found, {}  *)
(* if there is none (the return value is then 0).                          *)

Walk == [start : Nat, begin : Nat, seen : SUBSET Threads]

NoWalk == [start |-> NULL, begin |-> NULL, seen |-> {}]

Found(cycle) == [start |-> NULL, begin |-> NULL, seen |-> cycle]

\* The outer loop goes on to the first wait edge from position i on.
walk_from(q, i) ==
  LET first == FirstOf({j \in DOMAIN q : j >= i /\ q[j].flag = "Wait"})
  IN  IF first = NULL
        THEN NoWalk
        ELSE [start |-> first, begin |-> first, seen |-> {q[first].t_id}]

\* The wait edge of the thread that holds what the edge at position e waits
\* for; NULL when nobody holds it, or its holder waits for nothing.
next_wait(q, e) ==
  LET next_hold == fetch_resource_hold(q, q[e].r_id)
  IN  IF next_hold = NULL THEN NULL
                          ELSE fetch_thread_wait(q, q[next_hold].t_id)

\* Slips: a walk that has come to any thread twice is reported as a cycle; the
\* outer loop does not go on to the next edge.
walk_step_any_thread(q, w) ==
  LET next == next_wait(q, w.begin)
  IN  IF next = NULL                  THEN walk_from(q, w.start + 1)
      ELSE IF q[next].t_id \in w.seen THEN Found(w.seen)
      ELSE [start |-> w.start, begin |-> next, seen |-> w.seen \cup {q[next].t_id}]
walk_step_same_start(q, w) ==
  LET next == next_wait(q, w.begin)
  IN  IF next = NULL         THEN walk_from(q, w.start)
      ELSE IF next = w.start THEN Found(w.seen)
      ELSE [start |-> w.start, begin |-> next, seen |-> w.seen \cup {q[next].t_id}]

\* One turn of the inner loop.
walk_step(q, w) ==
  LET next == next_wait(q, w.begin)
  IN  IF next = NULL         THEN walk_from(q, w.start + 1)
      ELSE IF next = w.start THEN Found(w.seen)
      ELSE [start |-> w.start, begin |-> next, seen |-> w.seen \cup {q[next].t_id}]

-----------------------------------------------------------------------------
(* What the graph says, without its representation.                        *)

Waits(q, t, r) ==
  \E i \in DOMAIN q : q[i].t_id = t /\ q[i].r_id = r /\ q[i].flag = "Wait"
Holds(q, t, r) ==
  \E i \in DOMAIN q : q[i].t_id = t /\ q[i].r_id = r /\ q[i].flag = "Hold"

\* A thread has at most one wait edge, a resource at most one hold edge.
Unique(q) ==
  \A i, j \in DOMAIN q :
    /\ q[i].flag = q[j].flag
    /\ \/ q[i].flag = "Wait" /\ q[i].t_id = q[j].t_id
       \/ q[i].flag = "Hold" /\ q[i].r_id = q[j].r_id
    => i = j

\* t waits for a resource that u holds.
WaitsFor(q, t, u) == \E r \in Resources : Waits(q, t, r) /\ Holds(q, u, r)

\* Every thread of S waits for a thread of S: S contains a cycle, and no
\* thread of S can go on before another one does.
Knot(q, S) == \A t \in S : \E u \in S : WaitsFor(q, t, u)

\* What a walk in progress has established: no knot contains a thread whose
\* wait edge is before start, and a knot that contains the thread the walk
\* began from contains the thread it has come to.
WalkSound(q, w) ==
  /\ {w.start, w.begin} \subseteq {i \in DOMAIN q : q[i].flag = "Wait"}
  /\ q[w.start].t_id \in w.seen
  /\ \A S \in SUBSET Threads : Knot(q, S) =>
       /\ \A i \in DOMAIN q : q[i].flag = "Wait" /\ i < w.start => q[i].t_id \notin S
       /\ q[w.start].t_id \in S => q[w.begin].t_id \in S

\* Its threads: each but the last waits for one of them; a knot that contains
\* one of them contains the last, and one that contains the first all of them.
WalkPath(q, w) ==
  LET last == q[w.begin].t_id
  IN  /\ last \in w.seen
      /\ \A t \in w.seen \ {last} : \E u \in w.seen : WaitsFor(q, t, u)
      /\ \A S \in SUBSET Threads : Knot(q, S) =>
           /\ S \cap w.seen # {} => last \in S
           /\ q[w.start].t_id \in S => w.seen \subseteq S

NoKnot(q) == \A S \in SUBSET Threads : Knot(q, S) => S = {}

\* S is one cycle: a knot none of whose parts is a knot.
IsCycle(q, S) == /\ S # {}
                 /\ Knot(q, S)
                 /\ \A P \in (SUBSET S) \ {{}, S} : ~ Knot(q, P)
=============================================================================
