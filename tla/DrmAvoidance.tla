---------------------------- MODULE DrmAvoidance ----------------------------
(***************************************************************************)
(* Deadlock resilient mutexes in the mode DEADLOCK_AVOIDANCE (libdrm.c):   *)
(* threads that call drm_lock and drm_unlock, the wait-for graph they      *)
(* share under mutex_wfg, and one pthread mutex per drm_t.                 *)
(*                                                                         *)
(* Each call of libdrm takes mutex_wfg for one call of libwfg and gives it *)
(* back: between add_wait_edge, exist_cycle, pthread_mutex_lock,           *)
(* add_hold_edge and remove_edge other threads run.  A section that        *)
(* changes the graph is straight code and one step; the walk of            *)
(* wfg_get_cycle is one step per turn, made while mutex_wfg is held.       *)
(*                                                                         *)
(* A client may ask for its mutexes in any order, keep the ones it has     *)
(* when a lock fails, and unlocks only what it has locked.                 *)
(***************************************************************************)
EXTENDS LibWfg

CONSTANTS None,    \* no thread
          Relock,  \* may a client lock a mutex it already has
          Wants,   \* the mutexes each client locks, in any order
          Fails,   \* the threads whose pthread_mutex_lock may fail
          Calls    \* bound: how often each thread calls drm_lock

ASSUME RelockAssumption == Relock \in BOOLEAN
ASSUME ResourcesAssumption == Resources # {}
ASSUME WantsAssumption == Wants \in [Threads -> SUBSET Resources]
ASSUME FailsAssumption == Fails \subseteq Threads
ASSUME CallsAssumption == Calls \in [Threads -> Nat]
ASSUME NoneAssumption == None \notin Threads

VARIABLES q_edge,     \* wfg_o.q_edge
          mutex_wfg,  \* the thread in a walk of wfg_get_cycle, or None
          walk,       \* that walk
          mu,         \* mu[r]: the owner of the drm_t's pthread mutex, or None
          pc,         \* where each thread is in drm_lock or drm_unlock
          req,        \* the argument of that call
          held,       \* what each client has locked
          calls,      \* how often each client has called drm_lock
          exited      \* has EXITERROR ended the process

vars == <<q_edge, mutex_wfg, walk, mu, pc, req, held, calls, exited>>
graph == <<mutex_wfg, walk>>
client == <<held, calls>>

\* Before the call; in drm_lock; in the part drm_lock shares with drm_unlock.
PC == {"client"}
      \cup {"add_wait", "check", "walk", "give_up", "mutex", "add_hold",
            "recheck", "rewalk"}
      \cup {"drop", "release"}

TypeOK == /\ q_edge \in Seq(Edge)
          /\ mutex_wfg \in Threads \cup {None}
          /\ walk \in Walk
          /\ mu \in [Resources -> Threads \cup {None}]
          /\ pc \in [Threads -> PC]
          /\ req \in [Threads -> Resources]
          /\ held \in [Threads -> SUBSET Resources]
          /\ calls \in [Threads -> Nat]
          /\ exited \in BOOLEAN

\* drm_setmode and one drm_init per mutex, before the threads start.
Init == /\ q_edge = <<>>
        /\ mutex_wfg = None
        /\ walk = NoWalk
        /\ mu = [r \in Resources |-> None]
        /\ pc = [t \in Threads |-> "client"]
        /\ req = [t \in Threads |-> CHOOSE r \in Resources : TRUE]  \* not read
        /\ held = [t \in Threads |-> {}]
        /\ calls = [t \in Threads |-> 0]
        /\ exited = FALSE

Goto(t, l) == pc' = [pc EXCEPT ![t] = l]

\* One section under mutex_wfg around a libwfg function that changes the
\* graph; EXITERROR unless it returns 0.
Section(t, outcome, l) ==
  /\ mutex_wfg = None
  /\ q_edge' = outcome.q
  /\ exited' = (outcome.ret # 0)
  /\ IF exited' THEN UNCHANGED pc ELSE Goto(t, l)
  /\ UNCHANGED <<graph, mu, req, client>>

-----------------------------------------------------------------------------
(* drm_lock                                                                *)

CallLock(t, r) == /\ pc[t] = "client"
                  /\ calls[t] < Calls[t]
                  /\ r \in Wants[t]
                  /\ r \in held[t] => Relock
                  /\ calls' = [calls EXCEPT ![t] = @ + 1]
                  /\ req' = [req EXCEPT ![t] = r]
                  /\ Goto(t, "add_wait")
                  /\ UNCHANGED <<q_edge, graph, mu, held, exited>>

AddWait(t) == /\ pc[t] = "add_wait"
              /\ Section(t, wfg_add_wait_edge(q_edge, t, req[t]), "check")

\* exist_cycle, from the call to the return of wfg_get_cycle.  It is called
\* at label from; it has found no cycle: go on at label none; it has found
\* one: at label some.
StartWalk(t, from, during, none) ==
  /\ pc[t] = from
  /\ mutex_wfg = None
  /\ LET w == walk_from(q_edge, 1)
     IN  IF w.start = NULL
           THEN Goto(t, none) /\ UNCHANGED graph
           ELSE Goto(t, during) /\ mutex_wfg' = t /\ walk' = w
  /\ UNCHANGED <<q_edge, mu, req, calls, exited>>

WalkOn(t, during, none, some) ==
  /\ pc[t] = during
  /\ LET w == walk_step(q_edge, walk)
     IN  IF w.start # NULL
           THEN walk' = w /\ UNCHANGED <<pc, mutex_wfg>>
           ELSE /\ walk' = NoWalk
                /\ mutex_wfg' = None
                /\ Goto(t, IF w.seen = {} THEN none ELSE some)
  /\ UNCHANGED <<q_edge, mu, req, calls, exited>>

\* Slip: the answer of exist_cycle is not used.
CheckStep_ignored(t) == WalkOn(t, "walk", "mutex", "mutex") /\ UNCHANGED held

Check(t)     == StartWalk(t, "check", "walk", "mutex") /\ UNCHANGED held
CheckStep(t) == WalkOn(t, "walk", "mutex", "give_up") /\ UNCHANGED held

\* Slips: the edge of the failed call stays; drm_lock returns ret and not 1.
GiveUp_edge_left(t) == pc[t] = "give_up" /\ Section(t, [q |-> q_edge, ret |-> 0], "client")
GiveUp_returns_0(t) == /\ pc[t] = "give_up"
                       /\ mutex_wfg = None
                       /\ q_edge' = wfg_remove_edge(q_edge, t, req[t]).q
                       /\ held' = [held EXCEPT ![t] = @ \cup {req[t]}]
                       /\ Goto(t, "client")
                       /\ UNCHANGED <<graph, mu, req, calls, exited>>

GiveUp(t) == /\ pc[t] = "give_up"
             /\ Section(t, wfg_remove_edge(q_edge, t, req[t]), "client")

\* pthread_mutex_lock blocks while the mutex has an owner, the caller
\* included; when it fails, the wait edge is removed.
MutexLock(t) == /\ pc[t] = "mutex"
                /\ mu[req[t]] = None
                /\ mu' = [mu EXCEPT ![req[t]] = t]
                /\ Goto(t, "add_hold")
                /\ UNCHANGED <<q_edge, graph, req, client, exited>>

MutexLockFails(t) == /\ t \in Fails
                     /\ pc[t] = "mutex"
                     /\ Goto(t, "give_up")
                     /\ UNCHANGED <<q_edge, graph, mu, req, client, exited>>

AddHold(t) == /\ pc[t] = "add_hold"
              /\ Section(t, wfg_add_hold_edge(q_edge, t, req[t]), "recheck")

\* drm_lock returns 0 to the client when the second exist_cycle finds none.
Granted(t) ==
  held' = IF pc'[t] = "client" THEN [held EXCEPT ![t] = @ \cup {req[t]}] ELSE held

Recheck(t)     == StartWalk(t, "recheck", "rewalk", "client") /\ Granted(t)
RecheckStep(t) == WalkOn(t, "rewalk", "client", "drop") /\ Granted(t)

-----------------------------------------------------------------------------
(* drm_unlock; a failed second check of drm_lock ends in the same steps.   *)

CallUnlock(t, r) == /\ pc[t] = "client"
                    /\ r \in held[t]
                    /\ held' = [held EXCEPT ![t] = @ \ {r}]
                    /\ req' = [req EXCEPT ![t] = r]
                    /\ Goto(t, "drop")
                    /\ UNCHANGED <<q_edge, graph, mu, calls, exited>>

\* Slip: the mutex is not unlocked.
Drop_no_unlock(t) == /\ pc[t] = "drop"
                     /\ Section(t, wfg_remove_edge(q_edge, t, req[t]), "client")

Drop(t) == /\ pc[t] = "drop"
           /\ Section(t, wfg_remove_edge(q_edge, t, req[t]), "release")

MutexUnlock(t) == /\ pc[t] = "release"
                  /\ mu' = [mu EXCEPT ![req[t]] = None]
                  /\ Goto(t, "client")
                  /\ UNCHANGED <<q_edge, graph, req, client, exited>>

-----------------------------------------------------------------------------
Step(t) == \/ AddWait(t) \/ Check(t) \/ CheckStep(t) \/ GiveUp(t)
           \/ MutexLock(t) \/ AddHold(t) \/ Recheck(t) \/ RecheckStep(t)
           \/ Drop(t) \/ MutexUnlock(t)

\* Every client has made its calls and unlocked what it locked, or the
\* process has exited.
Done == exited \/ \A t \in Threads : pc[t] = "client" /\ calls[t] = Calls[t] /\ held[t] = {}

Next == \/ /\ ~ exited
           /\ \E t \in Threads :
                \/ \E r \in Resources : CallLock(t, r) \/ CallUnlock(t, r)
                \/ Step(t)
                \/ MutexLockFails(t)
        \/ Done /\ UNCHANGED vars

\* A thread that can run does, and a client does not keep a mutex for ever.
Fairness ==
  \A t \in Threads : /\ WF_vars(~ exited /\ Step(t))
                     /\ WF_vars(~ exited /\ \E r \in Resources : CallUnlock(t, r))

Spec == Init /\ [][Next]_vars
FairSpec == Spec /\ Fairness

-----------------------------------------------------------------------------
(* What holds.                                                             *)

\* The pthread mutex of r is t's, by what t's client and t's call know.
Owns(t, r) ==
  \/ r \in held[t]
  \/ req[t] = r /\ pc[t] \in {"add_hold", "recheck", "rewalk", "drop", "release"}

\* The graph says exactly who waits for and who has each mutex, but for the
\* two places where the hold edge is not there: not yet put in after
\* pthread_mutex_lock, already taken out before pthread_mutex_unlock
\* (libdrm.c:264-266, 328-329).
GraphAgrees ==
  \A t \in Threads, r \in Resources :
    /\ mu[r] = t <=> Owns(t, r)
    /\ Waits(q_edge, t, r) <=>
         req[t] = r /\ pc[t] \in {"check", "walk", "give_up", "mutex", "add_hold"}
    /\ Holds(q_edge, t, r) <=>
         mu[r] = t /\ ~ (req[t] = r /\ pc[t] \in {"add_hold", "release"})

\* No call of a client that unlocks what it locked, once, ends the process:
\* EXITERROR is not reached (libdrm.c:244, 246, 266-269, 271, 277, 328).
NoExit == ~ exited

\* Every thread of S sits in pthread_mutex_lock on a mutex that a thread of
\* S has.
Deadlocked(S) == /\ S # {}
                 /\ \A t \in S : pc[t] = "mutex" /\ mu[req[t]] \in S

\* No set of threads deadlocks in pthread_mutex_lock, although each thread
\* adds its edge and looks for cycles in separate sections (libdrm.c:244-264):
\* of the threads of a would-be cycle, the one that added its edge last sees
\* the others'.
NoDeadlock == \A S \in SUBSET Threads : ~ Deadlocked(S)

\* The second exist_cycle (libdrm.c:270) never finds a cycle through the lock
\* it was made for: it only ever takes a lock back because of a cycle that
\* other threads are about to undo.
GrantClosesNoCycle ==
  \A t \in Threads : pc[t] \in {"recheck", "rewalk"} =>
    \A S \in SUBSET Threads : t \in S => ~ IsCycle(q_edge, S)

\* What the induction needs besides: a call is never about a mutex its client
\* already has; mutex_wfg is held exactly during a walk, and the walk is sound.
ReqNotHeld == \A t \in Threads : pc[t] # "client" => req[t] \notin held[t]

WalkHeld ==
  /\ \A t \in Threads : mutex_wfg = t <=> pc[t] \in {"walk", "rewalk"}
  /\ mutex_wfg # None => walk.start # NULL /\ WalkSound(q_edge, walk)

\* Every knot of the graph contains a thread that has yet to look for it, or
\* has found it and takes its edge back.
KnotSeen ==
  \A S \in SUBSET Threads : S # {} /\ Knot(q_edge, S) =>
    \E t \in S : pc[t] \in {"check", "walk", "give_up"}

\* The inductive invariant, for clients that do not lock a mutex twice.
IInv == /\ TypeOK /\ NoExit /\ Unique(q_edge)
        /\ GraphAgrees /\ ReqNotHeld /\ WalkHeld /\ KnotSeen

\* A lock is never granted to two clients (libdrm.c:218-334).
Locks == INSTANCE LockTable
Exclusive == Locks!Spec

\* A walk of wfg_get_cycle has come to a cycle that does not contain the edge it
\* began from: it goes round for ever, and keeps mutex_wfg.
WalkLost == \E S \in SUBSET Threads :
  /\ mutex_wfg # None
  /\ IsCycle(q_edge, S)
  /\ q_edge[walk.begin].t_id \in S /\ q_edge[walk.start].t_id \notin S

\* The one thing that keeps drm_lock and drm_unlock from returning is a lost
\* walk: no thread starves at a mutex, and no other walk is endless.  A thread
\* makes Calls[t] calls of drm_lock at most, so that if each call returns, there
\* comes a time when no thread is in one (libdrm.c:244-281, libwfg.c:205-216).
CallsReturn == <>(exited \/ WalkLost \/ [](\A t \in Threads : pc[t] = "client"))

=============================================================================
