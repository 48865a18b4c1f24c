---------------------------- MODULE DrmDetection ----------------------------
(***************************************************************************)
(* Deadlock resilient mutexes in the mode DEADLOCK_DETECTION (libdrm.c),   *)
(* with a program around them as example-DD.c is: threads that lock and    *)
(* unlock, the thread of libdrm that looks for cycles and signals one      *)
(* thread of the cycle it finds, the SIGUSR1 handler that gives up the     *)
(* mutexes and ends its thread, and main, which joins the threads and      *)
(* calls drm_cleanup.                                                      *)
(*                                                                         *)
(* A signal can hit its thread anywhere, also between taking mutex_wfg and *)
(* giving it back: a section is two steps here.  The mutexes are default   *)
(* pthread mutexes, as drm_init makes them: locking one cannot fail, and   *)
(* pthread_mutex_unlock by a thread that does not own it, which POSIX      *)
(* leaves undefined, sets it free (glibc does not look at the owner).      *)
(***************************************************************************)
EXTENDS LibWfg

CONSTANTS None,       \* no thread
          Detector,   \* o_thread
          Release,    \* the mutexes in the order the handler unlocks them
          Wants,      \* the mutexes that each thread locks
          Calls       \* bound: how often each thread calls drm_lock

ASSUME CallsAssumption == Calls \in [Threads -> Nat]
ASSUME WantsAssumption == Wants \in [Threads -> SUBSET Resources]
ASSUME NoneAssumption == None \notin Threads /\ Detector \notin Threads /\ None # Detector
ASSUME ReleaseAssumption == /\ Release \in Seq(Resources)
                            /\ \A r \in Resources : \E i \in DOMAIN Release : Release[i] = r

VARIABLES q_edge,     \* wfg_o.q_edge
          mutex_wfg,  \* who is in a section of libdrm, or None
          walk,       \* the detector's walk of wfg_get_cycle
          mu,         \* mu[r]: the owner of the drm_t's pthread mutex, or None
          pc,         \* where each thread is
          req,        \* the argument of its call of drm_lock or drm_unlock
          todo,       \* what the handler of a thread has yet to unlock
          held,       \* what each client has locked
          calls,      \* how often each client has called drm_lock
          dpc,        \* where the detector is
          cycle,      \* the threads it was told
          pending,    \* the threads with a SIGUSR1 on its way
          signalled,  \* the threads that were ever sent one
          mpc,        \* where main is
          exited      \* has EXITERROR, or a crash, ended the process

sync == <<mutex_wfg, walk>>
client == <<held, calls>>
detector == <<dpc, cycle, pending, signalled>>
vars == <<q_edge, sync, mu, pc, req, todo, client, detector, mpc, exited>>

\* In the client, in drm_lock, in drm_unlock, in the handler, ended.
PC == {"client", "add_wait", "in_add_wait", "mutex", "add_hold", "in_add_hold",
       "drop", "in_drop", "release", "handler", "ended"}

TypeOK == /\ q_edge \in Seq(Edge)
          /\ mutex_wfg \in Threads \cup {None, Detector}
          /\ walk \in Walk
          /\ mu \in [Resources -> Threads \cup {None}]
          /\ pc \in [Threads -> PC]
          /\ req \in [Threads -> Resources]
          /\ todo \in [Threads -> Seq(Resources)]
          /\ held \in [Threads -> SUBSET Resources]
          /\ calls \in [Threads -> Nat]
          /\ dpc \in {"print", "in_print", "get", "in_get", "kill", "sleep", "ended"}
          /\ {cycle, pending, signalled} \subseteq SUBSET Threads
          /\ mpc \in {"join", "destroy", "cancel", "done"}
          /\ exited \in BOOLEAN

Init == /\ q_edge = <<>>
        /\ mutex_wfg = None
        /\ walk = NoWalk
        /\ mu = [r \in Resources |-> None]
        /\ pc = [t \in Threads |-> "client"]
        /\ req \in {[t \in Threads |-> r] : r \in Resources}
        /\ todo = [t \in Threads |-> <<>>]
        /\ held = [t \in Threads |-> {}]
        /\ calls = [t \in Threads |-> 0]
        /\ dpc = "print"
        /\ cycle = {}
        /\ pending = {}
        /\ signalled = {}
        /\ mpc = "join"
        /\ exited = FALSE

Goto(t, l) == pc' = [pc EXCEPT ![t] = l]
InHandler(t) == todo[t] # <<>>

\* pthread_mutex_lock(&mutex_wfg) in a thread.
Enter(t, from, in) == /\ pc[t] = from
                      /\ mutex_wfg = None
                      /\ mutex_wfg' = t
                      /\ Goto(t, in)
                      /\ UNCHANGED <<q_edge, walk, mu, req, todo, client, detector, mpc, exited>>

\* The call of libwfg and pthread_mutex_unlock(&mutex_wfg); EXITERROR unless
\* the call returns 0.
Leave(t, in, outcome, l) ==
  /\ pc[t] = in
  /\ mutex_wfg' = None
  /\ q_edge' = outcome.q
  /\ exited' = (outcome.ret # 0)
  /\ Goto(t, l)
  /\ UNCHANGED <<walk, mu, req, todo, client, detector, mpc>>

-----------------------------------------------------------------------------
(* drm_lock                                                                *)

CallLock(t, r) == /\ pc[t] = "client"
                  /\ calls[t] < Calls[t]
                  /\ r \in Wants[t] \ held[t]
                  /\ calls' = [calls EXCEPT ![t] = @ + 1]
                  /\ req' = [req EXCEPT ![t] = r]
                  /\ Goto(t, "add_wait")
                  /\ UNCHANGED <<q_edge, sync, mu, todo, held, detector, mpc, exited>>

AddWait(t) ==
  \/ Enter(t, "add_wait", "in_add_wait")
  \/ Leave(t, "in_add_wait", wfg_add_wait_edge(q_edge, t, req[t]), "mutex")

MutexLock(t) == /\ pc[t] = "mutex"
                /\ mu[req[t]] = None
                /\ mu' = [mu EXCEPT ![req[t]] = t]
                /\ Goto(t, "add_hold")
                /\ UNCHANGED <<q_edge, sync, req, todo, client, detector, mpc, exited>>

EnterAddHold(t) == Enter(t, "add_hold", "in_add_hold")

\* The lock is granted when drm_lock returns.
AddHold(t) == /\ pc[t] = "in_add_hold"
              /\ LET outcome == wfg_add_hold_edge(q_edge, t, req[t])
                 IN  q_edge' = outcome.q /\ exited' = (outcome.ret # 0)
              /\ mutex_wfg' = None
              /\ held' = [held EXCEPT ![t] = @ \cup {req[t]}]
              /\ Goto(t, "client")
              /\ UNCHANGED <<walk, mu, req, todo, calls, detector, mpc>>

-----------------------------------------------------------------------------
(* drm_unlock, called by the client or by the handler.                     *)

CallUnlock(t, r) == /\ pc[t] = "client"
                    /\ r \in held[t]
                    /\ held' = [held EXCEPT ![t] = @ \ {r}]
                    /\ req' = [req EXCEPT ![t] = r]
                    /\ Goto(t, "drop")
                    /\ UNCHANGED <<q_edge, sync, mu, todo, calls, detector, mpc, exited>>

Drop(t) ==
  \/ Enter(t, "drop", "in_drop")
  \/ Leave(t, "in_drop", wfg_remove_edge(q_edge, t, req[t]), "release")

\* Slip: the handler ends its thread after the first mutex.
MutexUnlock_first_only(t) ==
  /\ pc[t] = "release"
  /\ mu' = [mu EXCEPT ![req[t]] = None]
  /\ todo' = [todo EXCEPT ![t] = <<>>]
  /\ Goto(t, IF InHandler(t) THEN "ended" ELSE "client")
  /\ UNCHANGED <<q_edge, sync, req, client, detector, mpc, exited>>

MutexUnlock(t) ==
  /\ pc[t] = "release"
  /\ mu' = [mu EXCEPT ![req[t]] = None]
  /\ todo' = [todo EXCEPT ![t] = IF InHandler(t) THEN Tail(@) ELSE @]
  /\ Goto(t, IF ~ InHandler(t)        THEN "client"
             ELSE IF todo'[t] = <<>> THEN "ended"
             ELSE "handler")
  /\ UNCHANGED <<q_edge, sync, req, client, detector, mpc, exited>>

-----------------------------------------------------------------------------
(* SIGUSR1.                                                                *)

\* The signal arrives, wherever its thread is: the handler starts, and the
\* thread never comes back to what it was doing.  SIGUSR1 is blocked while its
\* handler runs.
Interrupt(t) == /\ t \in pending
                /\ ~ InHandler(t)
                /\ pc[t] # "ended"
                /\ pending' = pending \ {t}
                /\ todo' = [todo EXCEPT ![t] = Release]
                /\ Goto(t, IF Release = <<>> THEN "ended" ELSE "handler")
                /\ UNCHANGED <<q_edge, sync, mu, req, client, dpc, cycle, signalled,
                               mpc, exited>>

\* The handler calls drm_unlock for the next mutex of the program.
HandlerUnlock(t) == /\ pc[t] = "handler"
                    /\ req' = [req EXCEPT ![t] = Head(todo[t])]
                    /\ held' = [held EXCEPT ![t] = @ \ {Head(todo[t])}]
                    /\ Goto(t, "drop")
                    /\ UNCHANGED <<q_edge, sync, mu, todo, calls, detector, mpc, exited>>

\* A thread that has made its calls and keeps no mutex returns.
End(t) == /\ pc[t] = "client" /\ calls[t] = Calls[t] /\ held[t] = {}
          /\ Goto(t, "ended")
          /\ UNCHANGED <<q_edge, sync, mu, req, todo, client, detector, mpc, exited>>

-----------------------------------------------------------------------------
(* cycle_detect_thread                                                     *)

\* After wfg_destroy the queue is gone: a walk over it reads freed memory.
GraphGone == mpc \in {"cancel", "done"}

\* The walk is over: in print_graph the graph is printed, in get_cycle the
\* cycle is handed to the caller.
WalkEnds(found) ==
  /\ walk' = NoWalk
  /\ mutex_wfg' = None
  /\ cycle' = IF dpc \in {"get", "in_get"} THEN found ELSE cycle
  /\ dpc' = IF dpc \in {"print", "in_print"} THEN "get"
            ELSE IF found = {} THEN "sleep" ELSE "kill"

StartWalk == /\ dpc \in {"print", "get"}
             /\ mutex_wfg = None
             /\ LET w == walk_from(q_edge, 1)
                IN  IF w.start = NULL
                      THEN WalkEnds({})
                      ELSE /\ walk' = w /\ mutex_wfg' = Detector
                           /\ dpc' = IF dpc = "print" THEN "in_print" ELSE "in_get"
                           /\ UNCHANGED cycle
             /\ UNCHANGED <<q_edge, mu, pc, req, todo, client, pending, signalled,
                            mpc, exited>>

WalkOn == /\ dpc \in {"in_print", "in_get"}
          /\ IF GraphGone
               THEN WalkEnds({}) /\ exited' \in BOOLEAN
               ELSE /\ LET w == walk_step(q_edge, walk)
                       IN  IF w.start = NULL
                             THEN WalkEnds(w.seen)
                             ELSE walk' = w /\ UNCHANGED <<mutex_wfg, dpc, cycle>>
                    /\ UNCHANGED exited
          /\ UNCHANGED <<q_edge, mu, pc, req, todo, client, pending, signalled, mpc>>

\* Slip: the signal is sent to nobody.
Kill_nobody(t) == /\ dpc = "kill"
                  /\ t \in cycle
                  /\ cycle' = {}
                  /\ dpc' = "sleep"
                  /\ UNCHANGED <<q_edge, sync, mu, pc, req, todo, client, pending, signalled,
                                 mpc, exited>>

\* One thread of the cycle, at random, without mutex_wfg.  The signal to a
\* thread that has ended is lost.
Kill(t) == /\ dpc = "kill"
           /\ t \in cycle
           /\ pending' = IF pc[t] = "ended" THEN pending ELSE pending \cup {t}
           /\ signalled' = signalled \cup {t}
           /\ cycle' = {}
           /\ dpc' = "sleep"
           /\ UNCHANGED <<q_edge, sync, mu, pc, req, todo, client, mpc, exited>>

\* sleep(1) is where pthread_cancel takes effect.
Wake == /\ dpc = "sleep"
        /\ dpc' = IF mpc = "done" THEN "ended" ELSE "print"
        /\ UNCHANGED <<q_edge, sync, mu, pc, req, todo, client, cycle, pending,
                       signalled, mpc, exited>>

-----------------------------------------------------------------------------
(* main: the joins; then drm_cleanup destroys the graph, and after that    *)
(* cancels the detector.                                                   *)

Join == /\ mpc = "join"
        /\ \A t \in Threads : pc[t] = "ended"
        /\ mpc' = "destroy"
        /\ UNCHANGED <<q_edge, sync, mu, pc, req, todo, client, detector, exited>>

WfgDestroy == /\ mpc = "destroy"
              /\ mpc' = "cancel"
              /\ q_edge' = <<>>
              /\ UNCHANGED <<sync, mu, pc, req, todo, client, detector, exited>>

Cancel == /\ mpc = "cancel"
          /\ mpc' = "done"
          /\ UNCHANGED <<q_edge, sync, mu, pc, req, todo, client, detector, exited>>

-----------------------------------------------------------------------------
Step(t) == \/ AddWait(t) \/ MutexLock(t) \/ EnterAddHold(t) \/ AddHold(t)
           \/ Drop(t) \/ MutexUnlock(t) \/ HandlerUnlock(t) \/ End(t)

Detect == StartWalk \/ WalkOn \/ (\E t \in Threads : Kill(t)) \/ Wake

Main == Join \/ WfgDestroy \/ Cancel

Next == /\ ~ exited
        /\ \/ \E t \in Threads :
                \/ \E r \in Resources : CallLock(t, r) \/ CallUnlock(t, r)
                \/ Step(t)
                \/ Interrupt(t)
           \/ Detect
           \/ Main

\* A thread that can run does, a signal arrives, the detector wakes up, and a
\* client does not keep a mutex for ever.
Fairness ==
  /\ \A t \in Threads : /\ WF_vars(~ exited /\ Step(t))
                        /\ WF_vars(~ exited /\ Interrupt(t))
                        /\ WF_vars(~ exited /\ \E r \in Resources : CallUnlock(t, r))
  /\ SF_vars(~ exited /\ StartWalk)
  /\ WF_vars(~ exited /\ Detect)

Spec == Init /\ [][Next]_vars
FairSpec == Spec /\ Fairness

-----------------------------------------------------------------------------
(* What holds, and what does not.                                          *)

\* Until the first signal the graph says exactly who waits for and who has
\* each mutex, except inside drm_lock and drm_unlock around the pthread call
\* (libdrm.c:286-289, 328-329), and nothing ends the process.
AgreesUntilSignal ==
  signalled = {} =>
    /\ ~ exited
    /\ \A t \in Threads, r \in Resources :
         /\ Waits(q_edge, t, r) <=>
              req[t] = r /\ pc[t] \in {"mutex", "add_hold", "in_add_hold"}
         /\ Holds(q_edge, t, r) <=>
              mu[r] = t /\ ~ (req[t] = r /\ pc[t] \in {"add_hold", "in_add_hold", "release"})

\* A victim leaves nothing in the graph: once its handler has ended it, no
\* edge of it is left for later walks to follow (example-DD.c:10-16).
EndedHasNoEdges ==
  \A t \in Threads : pc[t] = "ended" =>
    \A r \in Resources : ~ Waits(q_edge, t, r) /\ ~ Holds(q_edge, t, r)

\* A thread that no signal has hit has the edges that its calls say, and asks
\* for no mutex it has.
ClientAgrees ==
  \A t \in Threads : ~ InHandler(t) /\ pc[t] # "ended" =>
    /\ pc[t] # "handler"
    /\ pc[t] # "client" => req[t] \notin held[t]
    /\ \A r \in Resources :
         /\ Waits(q_edge, t, r) <=>
              req[t] = r /\ pc[t] \in {"mutex", "add_hold", "in_add_hold"}
         /\ Holds(q_edge, t, r) <=>
              r \in held[t] \/ (req[t] = r /\ pc[t] \in {"drop", "in_drop"})

\* A handler has yet to unlock every mutex its thread has an edge of, and no
\* mutex is in two of them.
HandlerAgrees ==
  \A t \in Threads : InHandler(t) =>
    /\ pc[t] \in {"handler", "drop", "in_drop", "release"}
    /\ pc[t] # "handler" => req[t] = Head(todo[t])
    /\ \A r \in Resources :
         /\ ~ (Waits(q_edge, t, r) /\ Holds(q_edge, t, r))
         /\ Waits(q_edge, t, r) \/ Holds(q_edge, t, r) =>
              \E i \in DOMAIN todo[t] : todo[t][i] = r /\ (pc[t] = "release" => i > 1)

\* Who is in a section has mutex_wfg; the detector's walk is over the graph as
\* it is, and it keeps a cycle only until it has sent the signal.
SectionsAgree ==
  /\ \A t \in Threads :
       pc[t] \in {"in_add_wait", "in_add_hold", "in_drop"} => mutex_wfg = t
  /\ IF dpc \in {"in_print", "in_get"}
       THEN /\ mutex_wfg = Detector /\ walk.start # NULL
            /\ WalkSound(q_edge, walk) /\ WalkPath(q_edge, walk)
       ELSE walk = NoWalk
  /\ dpc # "kill" => cycle = {}

\* main is past the joins only when every thread has ended; with EndedHasNoEdges
\* and SectionsAgree the detector is in no walk when the graph is destroyed
\* (libdrm.c:172).
JoinedAll == mpc # "join" => \A t \in Threads : pc[t] = "ended"

\* Until the first signal a thread has what it has locked, or is about to, and
\* the cycle the detector has found stands.
UntilSignal ==
  signalled = {} =>
    /\ pending = {}
    /\ \A t \in Threads : ~ InHandler(t) /\ (pc[t] = "ended" => held[t] = {})
    /\ \A t \in Threads, r \in Resources :
         mu[r] = t <=> \/ r \in held[t]
                       \/ /\ req[t] = r
                          /\ pc[t] \in {"add_hold", "in_add_hold", "drop", "in_drop", "release"}
    /\ cycle # {} => IsCycle(q_edge, cycle)

\* The inductive invariant.  What it says of threads in drm_lock and drm_unlock
\* is void once the process has ended.
IInv == /\ TypeOK /\ Unique(q_edge) /\ EndedHasNoEdges /\ AgreesUntilSignal
        /\ ~ exited => /\ ClientAgrees /\ HandlerAgrees /\ SectionsAgree
                       /\ JoinedAll /\ UntilSignal

\* The cycle is read under mutex_wfg and the signal sent after it was given
\* back (libdrm.c:120-125): the first victim is nevertheless still in a cycle,
\* because nothing but a signal takes a thread out of one.
FirstVictimInCycle ==
  [][\A t \in Threads : Kill(t) /\ signalled = {} =>
       \E S \in SUBSET Threads : t \in S /\ IsCycle(q_edge, S)]_vars

\* Every thread of S sits in pthread_mutex_lock on a mutex that a thread of
\* S has.
Deadlocked(S) == /\ S # {}
                 /\ \A t \in S : pc[t] = "mutex" /\ mu[req[t]] \in S

InDeadlock == \E S \in SUBSET Threads : Deadlocked(S)

\* The detector's walk has come to a cycle that does not contain the edge it began
\* from: it goes round for ever and keeps mutex_wfg, and nobody is signalled.
WalkLost == /\ dpc \in {"in_print", "in_get"} /\ ~ GraphGone
            /\ \E S \in SUBSET Threads :
                 /\ IsCycle(q_edge, S)
                 /\ q_edge[walk.begin].t_id \in S /\ q_edge[walk.start].t_id \notin S

\* A deadlock lasts only if the detector's own walk is lost in it; otherwise the
\* detector finds it and a victim gives up what it has (libdrm.c:113-131,
\* libwfg.c:205-216).
DeadlockBroken == InDeadlock ~> (~ InDeadlock \/ WalkLost \/ exited)
=============================================================================
