------------------------- MODULE DrmDetectionProofs -------------------------
(***************************************************************************)
(* Proofs about DrmDetection, for any number of threads, mutexes and       *)
(* calls, when the handler unlocks every mutex of the program.             *)
(***************************************************************************)
EXTENDS DrmDetection, LibWfgProofs

\* A cycle is in a graph as long as the edges of its threads are.
LEMMA CycleKept ==
  ASSUME NEW q, NEW p, NEW S \in SUBSET Threads, IsCycle(q, S),
         \A u \in S, s \in Resources : /\ Waits(p, u, s) <=> Waits(q, u, s)
                                       /\ Holds(p, u, s) <=> Holds(q, u, s)
  PROVE  IsCycle(p, S)
<1>1. \A t, u \in S : WaitsFor(p, t, u) <=> WaitsFor(q, t, u)
  BY DEF WaitsFor
<1>2. \A P \in SUBSET S : Knot(p, P) <=> Knot(q, P)
  BY <1>1 DEF Knot
<1>3. QED BY <1>2 DEF IsCycle

\* Each of its threads waits for what another has.
LEMMA CycleWaits ==
  ASSUME NEW q, NEW S \in SUBSET Threads, IsCycle(q, S), NEW t \in S
  PROVE  \E u \in S, r \in Resources : Waits(q, t, r) /\ Holds(q, u, r)
BY DEF IsCycle, Knot, WaitsFor

\* What the invariant says while the process runs.
Running == ClientAgrees /\ HandlerAgrees /\ SectionsAgree /\ JoinedAll /\ UntilSignal

\* Until the first signal the graph and the mutexes agree because both agree
\* with what each thread has locked.
LEMMA AgreesFacts ==
  ASSUME TypeOK, EndedHasNoEdges, ~ exited, Running PROVE AgreesUntilSignal
<1> SUFFICES ASSUME signalled = {}, NEW t \in Threads, NEW r \in Resources
             PROVE  /\ Waits(q_edge, t, r) <=>
                         req[t] = r /\ pc[t] \in {"mutex", "add_hold", "in_add_hold"}
                    /\ Holds(q_edge, t, r) <=>
                         /\ mu[r] = t
                         /\ ~ (req[t] = r /\ pc[t] \in {"add_hold", "in_add_hold", "release"})
  BY DEF AgreesUntilSignal
<1>1. /\ ~ InHandler(t) /\ (pc[t] = "ended" => held[t] = {})
      /\ mu[r] = t <=> \/ r \in held[t]
                       \/ /\ req[t] = r
                          /\ pc[t] \in {"add_hold", "in_add_hold", "drop", "in_drop", "release"}
  BY DEF Running, UntilSignal
<1>2. CASE pc[t] = "ended"
  BY <1>1, <1>2 DEF EndedHasNoEdges
<1>3. CASE pc[t] # "ended"
  <2>1. /\ pc[t] # "client" => req[t] \notin held[t]
        /\ Waits(q_edge, t, r) <=> req[t] = r /\ pc[t] \in {"mutex", "add_hold", "in_add_hold"}
        /\ Holds(q_edge, t, r) <=> r \in held[t] \/ (req[t] = r /\ pc[t] \in {"drop", "in_drop"})
    BY <1>1, <1>3 DEF Running, ClientAgrees
  <2>2. QED BY <1>1, <2>1
<1>4. QED BY <1>2, <1>3

\* What has to be shown of a step after which the process still runs.
Kept == TypeOK /\ Unique(q_edge) /\ EndedHasNoEdges /\ ~ exited /\ Running

LEMMA KeptFacts == Kept => IInv
BY AgreesFacts DEF Kept, IInv, Running

\* When every thread has ended the graph is empty, and no walk is in progress.
LEMMA NoWalkWhenJoined ==
  ASSUME IInv, ~ exited, mpc # "join"
  PROVE  /\ \A t \in Threads, r \in Resources : ~ Waits(q_edge, t, r) /\ ~ Holds(q_edge, t, r)
         /\ dpc \notin {"in_print", "in_get"}
<1>1. \A t \in Threads, r \in Resources : ~ Waits(q_edge, t, r) /\ ~ Holds(q_edge, t, r)
  BY DEF IInv, JoinedAll, EndedHasNoEdges
<1>2. ASSUME dpc \in {"in_print", "in_get"} PROVE FALSE
  <2>1. walk.start \in DOMAIN q_edge /\ q_edge[walk.start].flag = "Wait"
    BY <1>2 DEF IInv, SectionsAgree, WalkSound
  <2>2. q_edge[walk.start] \in Edge
    BY <2>1 DEF IInv, TypeOK
  <2>3. QED BY <1>1, <2>1, <2>2 DEF Waits, Edge
<1>3. QED BY <1>1, <1>2

LEMMA InitIInv == Init => IInv
<1> SUFFICES ASSUME Init PROVE IInv
  OBVIOUS
<1>1. TypeOK
  <2>1. req \in [Threads -> Resources]
    BY DEF Init
  <2>2. walk \in Walk
    BY DEF Init, NoWalk, Walk, NULL
  <2>3. q_edge \in Seq(Edge) /\ todo \in [Threads -> Seq(Resources)]
    BY DEF Init
  <2>4. /\ mutex_wfg \in Threads \cup {None, Detector} /\ mu \in [Resources -> Threads \cup {None}]
        /\ pc \in [Threads -> PC] /\ held \in [Threads -> SUBSET Resources]
        /\ calls \in [Threads -> Nat]
    BY DEF Init, PC
  <2>5. QED BY <2>1, <2>2, <2>3, <2>4 DEF Init, TypeOK
<1>2. Unique(q_edge) /\ EndedHasNoEdges
  BY DEF Init, Unique, EndedHasNoEdges
<1>3. \A t \in Threads, r \in Resources : ~ Waits(q_edge, t, r) /\ ~ Holds(q_edge, t, r)
  BY DEF Init, Waits, Holds
<1>4. ClientAgrees /\ HandlerAgrees
  BY <1>3 DEF Init, ClientAgrees, HandlerAgrees, InHandler
<1>5. SectionsAgree /\ JoinedAll
  BY DEF Init, SectionsAgree, JoinedAll
<1>6. UntilSignal
  BY NoneAssumption DEF Init, UntilSignal, InHandler
<1>7. QED BY <1>1, <1>2, <1>4, <1>5, <1>6, KeptFacts DEF Kept, Running, Init

-----------------------------------------------------------------------------
(* drm_lock and drm_unlock.                                                *)

\* Taking mutex_wfg (libdrm.c:40, 49, 58).
LEMMA EnterStep ==
  ASSUME IInv, ~ exited, NEW t \in Threads, NEW from, NEW in,
         <<from, in>> \in {<<"add_wait", "in_add_wait">>, <<"add_hold", "in_add_hold">>,
                           <<"drop", "in_drop">>},
         Enter(t, from, in)
  PROVE  IInv'
<1>1. /\ pc[t] = from /\ mutex_wfg = None /\ mutex_wfg' = t /\ pc' = [pc EXCEPT ![t] = in]
      /\ UNCHANGED <<q_edge, walk, mu, req, todo, held, calls, dpc, cycle, pending, signalled,
                     mpc, exited>>
  BY DEF Enter, Goto, client, detector
<1>2. TypeOK /\ Running
  BY DEF IInv, Running
<1>3. TypeOK'
  BY <1>1, <1>2 DEF TypeOK, PC
<1>4. Unique(q_edge)' /\ EndedHasNoEdges'
  BY <1>1, <1>2 DEF IInv, EndedHasNoEdges, TypeOK
<1>5. ClientAgrees'
  BY <1>1, <1>2 DEF Running, ClientAgrees, InHandler, TypeOK
<1>6. HandlerAgrees'
  BY <1>1, <1>2 DEF Running, HandlerAgrees, InHandler, TypeOK
<1>7. SectionsAgree'
  BY <1>1, <1>2, NoneAssumption DEF Running, SectionsAgree, TypeOK
<1>8. JoinedAll'
  BY <1>1, <1>2 DEF Running, JoinedAll, TypeOK
<1>9. UntilSignal'
  BY <1>1, <1>2 DEF Running, UntilSignal, InHandler, TypeOK
<1>10. Kept'
  BY <1>1, <1>3, <1>4, <1>5, <1>6, <1>7, <1>8, <1>9 DEF Kept, Running
<1>11. QED BY <1>10, KeptFacts, PTL

\* A call of drm_lock, and one of drm_unlock (libdrm.c:216, 314).
LEMMA CallLockStep ==
  ASSUME IInv, ~ exited, NEW t \in Threads, NEW r \in Resources, CallLock(t, r)
  PROVE  IInv'
<1>1. /\ pc[t] = "client" /\ r \notin held[t] /\ calls' = [calls EXCEPT ![t] = @ + 1]
      /\ req' = [req EXCEPT ![t] = r] /\ pc' = [pc EXCEPT ![t] = "add_wait"]
      /\ UNCHANGED <<q_edge, mutex_wfg, walk, mu, todo, held, dpc, cycle, pending, signalled,
                     mpc, exited>>
  BY DEF CallLock, Goto, sync, detector
<1>2. TypeOK /\ Running
  BY DEF IInv, Running
<1>3. TypeOK'
  BY <1>1, <1>2 DEF TypeOK, PC
<1>4. Unique(q_edge)' /\ EndedHasNoEdges'
  BY <1>1, <1>2 DEF IInv, EndedHasNoEdges, TypeOK
<1>5. ClientAgrees'
  BY <1>1, <1>2, ZenonT(60) DEF Running, ClientAgrees, InHandler, TypeOK
<1>6. HandlerAgrees'
  BY <1>1, <1>2 DEF Running, HandlerAgrees, InHandler, TypeOK
<1>7. SectionsAgree' /\ JoinedAll'
  BY <1>1, <1>2 DEF Running, SectionsAgree, JoinedAll, TypeOK
<1>8. UntilSignal'
  BY <1>1, <1>2 DEF Running, UntilSignal, InHandler, TypeOK
<1>9. Kept'
  BY <1>1, <1>3, <1>4, <1>5, <1>6, <1>7, <1>8 DEF Kept, Running
<1>10. QED BY <1>9, KeptFacts, PTL

LEMMA CallUnlockStep ==
  ASSUME IInv, ~ exited, NEW t \in Threads, NEW r \in Resources, CallUnlock(t, r)
  PROVE  IInv'
<1>1. /\ pc[t] = "client" /\ r \in held[t] /\ held' = [held EXCEPT ![t] = @ \ {r}]
      /\ req' = [req EXCEPT ![t] = r] /\ pc' = [pc EXCEPT ![t] = "drop"]
      /\ UNCHANGED <<q_edge, mutex_wfg, walk, mu, todo, calls, dpc, cycle, pending, signalled,
                     mpc, exited>>
  BY DEF CallUnlock, Goto, sync, detector
<1>2. TypeOK /\ Running
  BY DEF IInv, Running
<1>3. TypeOK'
  BY <1>1, <1>2 DEF TypeOK, PC
<1>4. Unique(q_edge)' /\ EndedHasNoEdges'
  BY <1>1, <1>2 DEF IInv, EndedHasNoEdges, TypeOK
<1>5. ClientAgrees'
  BY <1>1, <1>2 DEF Running, ClientAgrees, InHandler, TypeOK
<1>6. HandlerAgrees'
  BY <1>1, <1>2 DEF Running, HandlerAgrees, InHandler, TypeOK
<1>7. SectionsAgree' /\ JoinedAll'
  BY <1>1, <1>2 DEF Running, SectionsAgree, JoinedAll, TypeOK
<1>8. UntilSignal'
  BY <1>1, <1>2 DEF Running, UntilSignal, InHandler, TypeOK
<1>9. Kept'
  BY <1>1, <1>3, <1>4, <1>5, <1>6, <1>7, <1>8 DEF Kept, Running
<1>10. QED BY <1>9, KeptFacts, PTL

\* pthread_mutex_lock returns (libdrm.c:288).
LEMMA MutexLockStep ==
  ASSUME IInv, ~ exited, NEW t \in Threads, MutexLock(t)
  PROVE  IInv'
<1>1. /\ pc[t] = "mutex" /\ mu[req[t]] = None /\ mu' = [mu EXCEPT ![req[t]] = t]
      /\ pc' = [pc EXCEPT ![t] = "add_hold"]
      /\ UNCHANGED <<q_edge, mutex_wfg, walk, req, todo, held, calls, dpc, cycle, pending,
                     signalled, mpc, exited>>
  BY DEF MutexLock, Goto, sync, client, detector
<1>2. TypeOK /\ Running
  BY DEF IInv, Running
<1>3. TypeOK'
  BY <1>1, <1>2 DEF TypeOK, PC
<1>4. Unique(q_edge)' /\ EndedHasNoEdges'
  BY <1>1, <1>2 DEF IInv, EndedHasNoEdges, TypeOK
<1>5. ClientAgrees'
  BY <1>1, <1>2 DEF Running, ClientAgrees, InHandler, TypeOK
<1>6. HandlerAgrees'
  BY <1>1, <1>2 DEF Running, HandlerAgrees, InHandler, TypeOK
<1>7. SectionsAgree' /\ JoinedAll'
  BY <1>1, <1>2 DEF Running, SectionsAgree, JoinedAll, TypeOK
<1>8. UntilSignal'
  BY <1>1, <1>2, NoneAssumption DEF Running, UntilSignal, InHandler, TypeOK
<1>9. Kept'
  BY <1>1, <1>3, <1>4, <1>5, <1>6, <1>7, <1>8 DEF Kept, Running
<1>10. QED BY <1>9, KeptFacts, PTL

\* pthread_mutex_unlock: back to the client, to the next mutex of the handler,
\* or the end of the thread (libdrm.c:329, example-DD.c:13-15).
LEMMA MutexUnlockStep ==
  ASSUME IInv, ~ exited, NEW t \in Threads, MutexUnlock(t)
  PROVE  IInv'
<1>1. /\ pc[t] = "release" /\ mu' = [mu EXCEPT ![req[t]] = None]
      /\ todo' = [todo EXCEPT ![t] = IF InHandler(t) THEN Tail(@) ELSE @]
      /\ pc' = [pc EXCEPT ![t] = IF ~ InHandler(t)       THEN "client"
                                 ELSE IF todo'[t] = <<>> THEN "ended"
                                 ELSE "handler"]
      /\ UNCHANGED <<q_edge, mutex_wfg, walk, req, held, calls, dpc, cycle, pending, signalled,
                     mpc, exited>>
  BY DEF MutexUnlock, Goto, sync, client, detector
<1>2. TypeOK /\ Running
  BY DEF IInv, Running
<1>3. todo[t] \in Seq(Resources)
  BY <1>2 DEF TypeOK
<1>4. InHandler(t) =>
        /\ todo'[t] = Tail(todo[t]) /\ todo'[t] \in Seq(Resources)
        /\ Len(todo'[t]) = Len(todo[t]) - 1
        /\ \A i \in DOMAIN todo[t] : i > 1 =>
             i - 1 \in DOMAIN todo'[t] /\ todo'[t][i - 1] = todo[t][i]
  BY <1>1, <1>2, <1>3 DEF InHandler, TypeOK
<1>5. \A u \in Threads \ {t} : todo'[u] = todo[u] /\ pc'[u] = pc[u]
  BY <1>1, <1>2 DEF TypeOK
<1>6. TypeOK'
  <2>1. todo' \in [Threads -> Seq(Resources)]
    BY <1>1, <1>2, <1>4 DEF TypeOK
  <2>2. QED BY <1>1, <1>2, <2>1 DEF TypeOK, PC
<1>7. InHandler(t) =>
        \A r \in Resources :
          /\ ~ (Waits(q_edge, t, r) /\ Holds(q_edge, t, r))
          /\ Waits(q_edge, t, r) \/ Holds(q_edge, t, r) =>
               \E i \in DOMAIN todo'[t] : todo'[t][i] = r
  BY <1>1, <1>2, <1>4 DEF Running, HandlerAgrees
<1>8. Unique(q_edge)' /\ EndedHasNoEdges'
  <2>1. pc'[t] = "ended" => InHandler(t) /\ DOMAIN todo'[t] = {}
    BY <1>1, <1>2 DEF TypeOK
  <2>2. QED BY <1>1, <1>2, <1>5, <1>7, <2>1 DEF IInv, EndedHasNoEdges
<1>9. ClientAgrees'
  BY <1>1, <1>2, <1>5 DEF Running, ClientAgrees, InHandler, TypeOK
<1>10. HandlerAgrees'
  BY <1>1, <1>2, <1>5, <1>7 DEF Running, HandlerAgrees, InHandler, TypeOK
<1>11. SectionsAgree' /\ JoinedAll'
  BY <1>1, <1>2, <1>5 DEF Running, SectionsAgree, JoinedAll, TypeOK
<1>12. UntilSignal'
  <2>1. CASE signalled # {}
    BY <1>1, <2>1 DEF UntilSignal
  <2>2. CASE signalled = {}
    <3>1. /\ pending = {} /\ \A u \in Threads : ~ InHandler(u) /\ (pc[u] = "ended" => held[u] = {})
          /\ cycle # {} => IsCycle(q_edge, cycle)
      BY <1>2, <2>2 DEF Running, UntilSignal
    <3>2. \A u \in Threads, r \in Resources :
            mu[r] = u <=> \/ r \in held[u]
                          \/ /\ req[u] = r
                             /\ pc[u] \in {"add_hold", "in_add_hold", "drop", "in_drop", "release"}
      BY <1>2, <2>2 DEF Running, UntilSignal
    <3>3. todo' = todo /\ pc'[t] = "client"
      BY <1>1, <1>2, <3>1 DEF TypeOK
    <3>4. mu[req[t]] = t /\ req[t] \in Resources
      BY <1>1, <1>2, <3>2 DEF TypeOK
    <3>5. req[t] \notin held[t]
      BY <1>1, <1>2, <3>1 DEF Running, ClientAgrees
    <3>6. \A r \in Resources : mu'[r] = IF r = req[t] THEN None ELSE mu[r]
      BY <1>1, <1>2 DEF TypeOK
    <3>7. ASSUME NEW u \in Threads, NEW r \in Resources
          PROVE  mu'[r] = u <=>
                   \/ r \in held[u]
                   \/ /\ req[u] = r
                      /\ pc'[u] \in {"add_hold", "in_add_hold", "drop", "in_drop", "release"}
      <4>1. CASE r = req[t]
        BY <1>5, <3>2, <3>3, <3>4, <3>5, <3>6, <4>1, NoneAssumption
      <4>2. CASE r # req[t]
        BY <1>1, <1>5, <3>2, <3>3, <3>6, <4>2
      <4>3. QED BY <4>1, <4>2
    <3>8. \A u \in Threads : ~ InHandler(u)' /\ (pc'[u] = "ended" => held[u] = {})
      BY <1>5, <3>1, <3>3 DEF InHandler
    <3>9. QED BY <1>1, <3>1, <3>7, <3>8 DEF UntilSignal
  <2>3. QED BY <2>1, <2>2
<1>13. Kept'
  BY <1>1, <1>6, <1>8, <1>9, <1>10, <1>11, <1>12 DEF Kept, Running
<1>14. QED BY <1>13, KeptFacts, PTL

-----------------------------------------------------------------------------
(* The handler, and the end of a thread.                                   *)

\* SIGUSR1 arrives: a thread that no signal has hit has its edges from its
\* calls, and the handler is about to unlock every mutex (example-DD.c:10-16).
LEMMA InterruptStep ==
  ASSUME IInv, ~ exited, NEW t \in Threads, Interrupt(t)
  PROVE  IInv'
<1>1. /\ t \in pending /\ ~ InHandler(t) /\ pc[t] # "ended" /\ pending' = pending \ {t}
      /\ todo' = [todo EXCEPT ![t] = Release]
      /\ pc' = [pc EXCEPT ![t] = IF Release = <<>> THEN "ended" ELSE "handler"]
      /\ UNCHANGED <<q_edge, mutex_wfg, walk, mu, req, held, calls, dpc, cycle, signalled,
                     mpc, exited>>
  BY DEF Interrupt, Goto, sync, client
<1>2. TypeOK /\ Running
  BY DEF IInv, Running
<1>3. signalled # {}
  BY <1>1, <1>2 DEF Running, UntilSignal
<1>4. TypeOK'
  BY <1>1, <1>2, ReleaseAssumption DEF TypeOK, PC
<1>5. \A u \in Threads \ {t} : todo'[u] = todo[u] /\ pc'[u] = pc[u]
  BY <1>1, <1>2 DEF TypeOK
<1>6. todo'[t] = Release /\ pc'[t] = IF Release = <<>> THEN "ended" ELSE "handler"
  BY <1>1, <1>2 DEF TypeOK
<1>7. Release = <<>> => Resources = {}
  BY ReleaseAssumption
<1>8. Unique(q_edge)' /\ EndedHasNoEdges'
  BY <1>1, <1>5, <1>7 DEF IInv, EndedHasNoEdges
<1>9. ClientAgrees'
  BY <1>1, <1>2, <1>5, <1>6 DEF Running, ClientAgrees, InHandler
<1>10. HandlerAgrees'
  <2>1. \A r \in Resources : ~ (Waits(q_edge, t, r) /\ Holds(q_edge, t, r))
    BY <1>1, <1>2 DEF Running, ClientAgrees
  <2>2. QED BY <1>1, <1>2, <1>5, <1>6, <2>1, ReleaseAssumption
        DEF Running, HandlerAgrees, InHandler
<1>11. SectionsAgree' /\ JoinedAll'
  BY <1>1, <1>2, <1>5, <1>6 DEF Running, SectionsAgree, JoinedAll
<1>12. UntilSignal'
  BY <1>1, <1>3 DEF UntilSignal
<1>13. Kept'
  BY <1>1, <1>4, <1>8, <1>9, <1>10, <1>11, <1>12 DEF Kept, Running
<1>14. QED BY <1>13, KeptFacts, PTL

LEMMA HandlerUnlockStep ==
  ASSUME IInv, ~ exited, NEW t \in Threads, HandlerUnlock(t)
  PROVE  IInv'
<1>1. /\ pc[t] = "handler" /\ req' = [req EXCEPT ![t] = Head(todo[t])]
      /\ held' = [held EXCEPT ![t] = @ \ {Head(todo[t])}] /\ pc' = [pc EXCEPT ![t] = "drop"]
      /\ UNCHANGED <<q_edge, mutex_wfg, walk, mu, todo, calls, dpc, cycle, pending, signalled,
                     mpc, exited>>
  BY DEF HandlerUnlock, Goto, sync, detector
<1>2. TypeOK /\ Running
  BY DEF IInv, Running
<1>3. InHandler(t)
  BY <1>1, <1>2 DEF Running, ClientAgrees
<1>4. Head(todo[t]) \in Resources
  BY <1>2, <1>3 DEF TypeOK, InHandler
<1>5. signalled # {}
  BY <1>2, <1>3 DEF Running, UntilSignal
<1>6. TypeOK'
  BY <1>1, <1>2, <1>4 DEF TypeOK, PC
<1>7. Unique(q_edge)' /\ EndedHasNoEdges'
  BY <1>1, <1>2 DEF IInv, EndedHasNoEdges, TypeOK
<1>8. ClientAgrees'
  BY <1>1, <1>2, <1>3 DEF Running, ClientAgrees, InHandler, TypeOK
<1>9. HandlerAgrees'
  BY <1>1, <1>2 DEF Running, HandlerAgrees, InHandler, TypeOK
<1>10. SectionsAgree' /\ JoinedAll'
  BY <1>1, <1>2 DEF Running, SectionsAgree, JoinedAll, TypeOK
<1>11. UntilSignal'
  BY <1>1, <1>5 DEF UntilSignal
<1>12. Kept'
  BY <1>1, <1>6, <1>7, <1>8, <1>9, <1>10, <1>11 DEF Kept, Running
<1>13. QED BY <1>12, KeptFacts, PTL

LEMMA EndStep ==
  ASSUME IInv, ~ exited, NEW t \in Threads, End(t)
  PROVE  IInv'
<1>1. /\ pc[t] = "client" /\ held[t] = {} /\ pc' = [pc EXCEPT ![t] = "ended"]
      /\ UNCHANGED <<q_edge, mutex_wfg, walk, mu, req, todo, held, calls, dpc, cycle, pending,
                     signalled, mpc, exited>>
  BY DEF End, Goto, sync, client, detector
<1>2. TypeOK /\ Running
  BY DEF IInv, Running
<1>3. ~ InHandler(t)
  BY <1>1, <1>2 DEF Running, HandlerAgrees
<1>4. \A r \in Resources : ~ Waits(q_edge, t, r) /\ ~ Holds(q_edge, t, r)
  BY <1>1, <1>2, <1>3 DEF Running, ClientAgrees
<1>5. TypeOK'
  BY <1>1, <1>2 DEF TypeOK, PC
<1>6. Unique(q_edge)' /\ EndedHasNoEdges'
  BY <1>1, <1>2, <1>4 DEF IInv, EndedHasNoEdges, TypeOK
<1>7. ClientAgrees'
  BY <1>1, <1>2 DEF Running, ClientAgrees, InHandler, TypeOK
<1>8. HandlerAgrees'
  BY <1>1, <1>2, <1>3 DEF Running, HandlerAgrees, InHandler, TypeOK
<1>9. SectionsAgree' /\ JoinedAll'
  BY <1>1, <1>2 DEF Running, SectionsAgree, JoinedAll, TypeOK
<1>10. UntilSignal'
  BY <1>1, <1>2 DEF Running, UntilSignal, InHandler, TypeOK
<1>11. Kept'
  BY <1>1, <1>5, <1>6, <1>7, <1>8, <1>9, <1>10 DEF Kept, Running
<1>12. QED BY <1>11, KeptFacts, PTL

-----------------------------------------------------------------------------
(* The calls of libwfg.                                                    *)

\* Who is in a section is alone there: the detector is in no walk.
LEMMA AloneInSection ==
  ASSUME SectionsAgree, NEW t \in Threads, pc[t] \in {"in_add_wait", "in_add_hold", "in_drop"}
  PROVE  /\ dpc \notin {"in_print", "in_get"} /\ walk = NoWalk
         /\ \A u \in Threads \ {t} : pc[u] \notin {"in_add_wait", "in_add_hold", "in_drop"}
BY NoneAssumption DEF SectionsAgree

\* A call that changes the edges of one thread leaves a cycle alone which that
\* thread is not in.
LEMMA OthersCycleKept ==
  ASSUME NEW q, NEW p, NEW S \in SUBSET Threads, NEW t \in Threads, IsCycle(q, S), t \notin S,
         \A u \in Threads \ {t}, s \in Resources :
           /\ Waits(p, u, s) <=> Waits(q, u, s)
           /\ Holds(p, u, s) <=> Holds(q, u, s)
  PROVE  IsCycle(p, S)
BY CycleKept

\* add_wait_edge (libdrm.c:49-53).
LEMMA LeaveAddWaitStep ==
  ASSUME IInv, ~ exited, NEW t \in Threads,
         Leave(t, "in_add_wait", wfg_add_wait_edge(q_edge, t, req[t]), "mutex")
  PROVE  IInv'
<1> DEFINE out == wfg_add_wait_edge(q_edge, t, req[t])
<1>1. /\ pc[t] = "in_add_wait" /\ mutex_wfg' = None /\ q_edge' = out.q
      /\ exited' = (out.ret # 0) /\ pc' = [pc EXCEPT ![t] = "mutex"]
      /\ UNCHANGED <<walk, mu, req, todo, held, calls, dpc, cycle, pending, signalled, mpc>>
  BY DEF Leave, Goto, client, detector
<1>2. TypeOK /\ Running
  BY DEF IInv, Running
<1>3. ~ InHandler(t)
  BY <1>1, <1>2 DEF Running, HandlerAgrees
<1>4. /\ q_edge \in Seq(Edge) /\ Unique(q_edge) /\ req[t] \in Resources
      /\ \A s \in Resources : ~ Waits(q_edge, t, s)
  BY <1>1, <1>2, <1>3 DEF IInv, Running, ClientAgrees, TypeOK
<1>5. /\ out.q \in Seq(Edge) /\ Unique(out.q) /\ out.ret = 0
      /\ \A u \in Threads, s \in Resources :
           /\ Waits(out.q, u, s) <=> Waits(q_edge, u, s) \/ (u = t /\ s = req[t])
           /\ Holds(out.q, u, s) <=> Holds(q_edge, u, s)
  BY <1>4, AddWaitFacts
<1> HIDE DEF out
<1>6. ~ exited'
  BY <1>1, <1>5
<1>7. dpc \notin {"in_print", "in_get"} /\ walk = NoWalk
      /\ \A u \in Threads \ {t} : pc[u] \notin {"in_add_wait", "in_add_hold", "in_drop"}
  BY <1>1, <1>2, AloneInSection DEF Running
<1>8. TypeOK'
  BY <1>1, <1>2, <1>5 DEF TypeOK, PC
<1>9. \A u \in Threads : pc'[u] = IF u = t THEN "mutex" ELSE pc[u]
  BY <1>1, <1>2 DEF TypeOK
<1>10. Unique(q_edge)' /\ EndedHasNoEdges'
  BY <1>1, <1>5, <1>9 DEF IInv, EndedHasNoEdges
<1>11. ClientAgrees'
  BY <1>1, <1>2, <1>5, <1>9 DEF Running, ClientAgrees, InHandler
<1>12. HandlerAgrees'
  BY <1>1, <1>2, <1>3, <1>5, <1>9 DEF Running, HandlerAgrees, InHandler
<1>13. SectionsAgree' /\ JoinedAll'
  BY <1>1, <1>2, <1>7, <1>9 DEF Running, SectionsAgree, JoinedAll
<1>14. UntilSignal'
  <2>1. ASSUME signalled = {}, cycle # {} PROVE IsCycle(q_edge', cycle)
    <3>1. IsCycle(q_edge, cycle) /\ cycle \in SUBSET Threads
      BY <1>2, <2>1 DEF Running, UntilSignal, TypeOK
    <3>2. t \notin cycle
      BY <1>4, <3>1, CycleWaits
    <3>3. QED BY <1>1, <1>5, <3>1, <3>2, OthersCycleKept
  <2>2. QED BY <1>1, <1>2, <1>9, <2>1 DEF Running, UntilSignal, InHandler
<1>15. Kept'
  BY <1>1, <1>6, <1>8, <1>10, <1>11, <1>12, <1>13, <1>14 DEF Kept, Running
<1>16. QED BY <1>15, KeptFacts, PTL

\* add_hold_edge: it can only fail after a signal, when somebody else's
\* handler has set the mutex free (libdrm.c:40-45, 289).
LEMMA AddHoldStep ==
  ASSUME IInv, ~ exited, NEW t \in Threads, AddHold(t)
  PROVE  IInv'
<1> DEFINE out == wfg_add_hold_edge(q_edge, t, req[t])
<1>1. /\ pc[t] = "in_add_hold" /\ mutex_wfg' = None /\ q_edge' = out.q
      /\ exited' = (out.ret # 0) /\ pc' = [pc EXCEPT ![t] = "client"]
      /\ held' = [held EXCEPT ![t] = @ \cup {req[t]}]
      /\ UNCHANGED <<walk, mu, req, todo, calls, dpc, cycle, pending, signalled, mpc>>
  BY DEF AddHold, Goto, detector
<1>2. TypeOK /\ Running
  BY DEF IInv, Running
<1>3. ~ InHandler(t)
  BY <1>1, <1>2 DEF Running, HandlerAgrees
<1>4. /\ q_edge \in Seq(Edge) /\ Unique(q_edge) /\ req[t] \in Resources
      /\ \A s \in Resources : Waits(q_edge, t, s) <=> s = req[t]
  BY <1>1, <1>2, <1>3 DEF IInv, Running, ClientAgrees, TypeOK
<1>5. /\ out.q \in Seq(Edge) /\ Unique(out.q)
      /\ out.ret = 0 <=> \A u \in Threads : ~ Holds(q_edge, u, req[t])
      /\ out.ret = 0 =>
           \A u \in Threads, s \in Resources :
             /\ Waits(out.q, u, s) <=> Waits(q_edge, u, s) /\ ~ (u = t /\ s = req[t])
             /\ Holds(out.q, u, s) <=> Holds(q_edge, u, s) \/ (u = t /\ s = req[t])
      /\ out.ret # 0 => out.q = q_edge
  BY <1>4, AddHoldFacts
<1> HIDE DEF out
<1>6. TypeOK'
  BY <1>1, <1>2, <1>5 DEF TypeOK, PC
<1>7. \A u \in Threads :
        /\ pc'[u] = IF u = t THEN "client" ELSE pc[u]
        /\ held'[u] = IF u = t THEN held[t] \cup {req[t]} ELSE held[u]
  BY <1>1, <1>2 DEF TypeOK
<1>8. Unique(q_edge)' /\ EndedHasNoEdges'
  BY <1>1, <1>5, <1>7 DEF IInv, EndedHasNoEdges
<1>9. CASE out.ret # 0
  <2>1. signalled # {}
    <3>1. PICK u \in Threads : Holds(q_edge, u, req[t])
      BY <1>5, <1>9
    <3>2. ASSUME signalled = {} PROVE FALSE
      <4>1. mu[req[t]] = u
        BY <1>4, <3>1, <3>2 DEF IInv, AgreesUntilSignal
      <4>2. mu[req[t]] = t
        BY <1>1, <1>2, <1>4, <3>2 DEF Running, UntilSignal
      <4>3. QED BY <1>1, <1>4, <3>1, <3>2, <4>1, <4>2 DEF IInv, AgreesUntilSignal
    <3>3. QED BY <3>2
  <2>2. AgreesUntilSignal'
    BY <1>1, <2>1 DEF AgreesUntilSignal
  <2>3. exited'
    BY <1>1, <1>9
  <2>4. QED BY <1>6, <1>8, <2>2, <2>3 DEF IInv
<1>10. CASE out.ret = 0
  <2>1. ~ exited'
    BY <1>1, <1>10
  <2>2. dpc \notin {"in_print", "in_get"} /\ walk = NoWalk
        /\ \A u \in Threads \ {t} : pc[u] \notin {"in_add_wait", "in_add_hold", "in_drop"}
    BY <1>1, <1>2, AloneInSection DEF Running
  <2>3. ClientAgrees'
    BY <1>1, <1>2, <1>5, <1>7, <1>10 DEF Running, ClientAgrees, InHandler
  <2>4. HandlerAgrees'
    BY <1>1, <1>2, <1>3, <1>5, <1>7, <1>10 DEF Running, HandlerAgrees, InHandler
  <2>5. SectionsAgree' /\ JoinedAll'
    BY <1>1, <1>2, <1>7, <2>2 DEF Running, SectionsAgree, JoinedAll
  <2>6. UntilSignal'
    <3>1. ASSUME signalled = {}, cycle # {} PROVE IsCycle(q_edge', cycle)
      <4>1. IsCycle(q_edge, cycle) /\ cycle \in SUBSET Threads
        BY <1>2, <3>1 DEF Running, UntilSignal, TypeOK
      <4>2. t \notin cycle
        BY <1>4, <1>5, <1>10, <4>1, CycleWaits
      <4>3. QED BY <1>1, <1>5, <1>10, <4>1, <4>2, OthersCycleKept
    <3>2. QED BY <1>1, <1>2, <1>7, <3>1 DEF Running, UntilSignal, InHandler
  <2>7. Kept'
    BY <1>1, <1>6, <1>8, <2>1, <2>3, <2>4, <2>5, <2>6 DEF Kept, Running
  <2>8. QED BY <2>7, KeptFacts, PTL
<1>11. QED BY <1>9, <1>10

\* remove_edge: in the handler it fails when the thread has no edge of the
\* mutex, and that ends the process (libdrm.c:58-62, 328).
LEMMA LeaveDropStep ==
  ASSUME IInv, ~ exited, NEW t \in Threads,
         Leave(t, "in_drop", wfg_remove_edge(q_edge, t, req[t]), "release")
  PROVE  IInv'
<1> DEFINE out == wfg_remove_edge(q_edge, t, req[t])
<1>1. /\ pc[t] = "in_drop" /\ mutex_wfg' = None /\ q_edge' = out.q
      /\ exited' = (out.ret # 0) /\ pc' = [pc EXCEPT ![t] = "release"]
      /\ UNCHANGED <<walk, mu, req, todo, held, calls, dpc, cycle, pending, signalled, mpc>>
  BY DEF Leave, Goto, client, detector
<1>2. TypeOK /\ Running
  BY DEF IInv, Running
<1>3. q_edge \in Seq(Edge) /\ Unique(q_edge) /\ req[t] \in Resources
  BY <1>2 DEF IInv, TypeOK
<1>4. ~ InHandler(t) => /\ Holds(q_edge, t, req[t]) /\ req[t] \notin held[t]
                        /\ \A s \in Resources : ~ Waits(q_edge, t, s)
  BY <1>1, <1>2, <1>3 DEF Running, ClientAgrees
<1>5. ~ (Waits(q_edge, t, req[t]) /\ Holds(q_edge, t, req[t]))
  BY <1>2, <1>3, <1>4 DEF Running, HandlerAgrees
<1>6. /\ out.q \in Seq(Edge) /\ Unique(out.q)
      /\ out.ret = 0 <=> Waits(q_edge, t, req[t]) \/ Holds(q_edge, t, req[t])
      /\ out.ret = 0 =>
           \A u \in Threads, s \in Resources :
             /\ Waits(out.q, u, s) <=> Waits(q_edge, u, s) /\ ~ (u = t /\ s = req[t])
             /\ Holds(out.q, u, s) <=> Holds(q_edge, u, s) /\ ~ (u = t /\ s = req[t])
      /\ out.ret # 0 => out.q = q_edge
  BY <1>3, <1>5, RemoveFacts
<1> HIDE DEF out
<1>7. TypeOK'
  BY <1>1, <1>2, <1>6 DEF TypeOK, PC
<1>8. \A u \in Threads : pc'[u] = IF u = t THEN "release" ELSE pc[u]
  BY <1>1, <1>2 DEF TypeOK
<1>9. Unique(q_edge)' /\ EndedHasNoEdges'
  BY <1>1, <1>6, <1>8 DEF IInv, EndedHasNoEdges
<1>10. CASE out.ret # 0
  <2>1. InHandler(t)
    BY <1>4, <1>6, <1>10
  <2>2. signalled # {}
    BY <1>2, <2>1 DEF Running, UntilSignal
  <2>3. AgreesUntilSignal' /\ exited'
    BY <1>1, <1>10, <2>2 DEF AgreesUntilSignal
  <2>4. QED BY <1>7, <1>9, <2>3 DEF IInv
<1>11. CASE out.ret = 0
  <2>1. ~ exited'
    BY <1>1, <1>11
  <2>2. dpc \notin {"in_print", "in_get"} /\ walk = NoWalk
        /\ \A u \in Threads \ {t} : pc[u] \notin {"in_add_wait", "in_add_hold", "in_drop"}
    BY <1>1, <1>2, AloneInSection DEF Running
  <2>3. ClientAgrees'
    BY <1>1, <1>2, <1>4, <1>6, <1>8, <1>11 DEF Running, ClientAgrees, InHandler
  <2>4. HandlerAgrees'
    <3>1. InHandler(t) => req[t] = Head(todo[t]) /\ Head(todo[t]) = todo[t][1]
      BY <1>1, <1>2 DEF Running, HandlerAgrees, InHandler, TypeOK
    <3>2. \A i \in DOMAIN todo[t] : i # 1 => i > 1
      BY <1>2 DEF TypeOK
    <3>3. ASSUME InHandler(t), NEW r \in Resources, Waits(q_edge', t, r) \/ Holds(q_edge', t, r)
          PROVE  \E i \in DOMAIN todo[t] : todo[t][i] = r /\ i > 1
      <4>1. r # req[t] /\ (Waits(q_edge, t, r) \/ Holds(q_edge, t, r))
        BY <1>1, <1>6, <1>11, <3>3
      <4>2. PICK i \in DOMAIN todo[t] : todo[t][i] = r
        BY <1>2, <3>3, <4>1 DEF Running, HandlerAgrees
      <4>3. QED BY <3>1, <3>2, <3>3, <4>1, <4>2
    <3>4. QED BY <1>1, <1>2, <1>6, <1>8, <1>11, <3>3 DEF Running, HandlerAgrees, InHandler
  <2>5. SectionsAgree' /\ JoinedAll'
    BY <1>1, <1>2, <1>8, <2>2 DEF Running, SectionsAgree, JoinedAll
  <2>6. UntilSignal'
    <3>1. ASSUME signalled = {}, cycle # {} PROVE IsCycle(q_edge', cycle)
      <4>1. IsCycle(q_edge, cycle) /\ cycle \in SUBSET Threads /\ ~ InHandler(t)
        BY <1>2, <3>1 DEF Running, UntilSignal, TypeOK
      <4>2. t \notin cycle
        BY <1>4, <4>1, CycleWaits
      <4>3. QED BY <1>1, <1>6, <1>11, <4>1, <4>2, OthersCycleKept
    <3>2. QED BY <1>1, <1>2, <1>8, <3>1 DEF Running, UntilSignal, InHandler
  <2>7. Kept'
    BY <1>1, <1>7, <1>9, <2>1, <2>3, <2>4, <2>5, <2>6 DEF Kept, Running
  <2>8. QED BY <2>7, KeptFacts, PTL
<1>12. QED BY <1>10, <1>11

-----------------------------------------------------------------------------
(* The detector.                                                           *)

\* A walk begins, and with an empty graph it is over at once (libdrm.c:113-123).
LEMMA StartWalkStep ==
  ASSUME IInv, ~ exited, StartWalk
  PROVE  IInv'
<1> DEFINE w == walk_from(q_edge, 1)
<1>1. /\ dpc \in {"print", "get"} /\ mutex_wfg = None
      /\ \/ w.start = NULL /\ WalkEnds({})
         \/ /\ w.start # NULL /\ walk' = w /\ mutex_wfg' = Detector /\ cycle' = cycle
            /\ dpc' \in {"in_print", "in_get"}
      /\ UNCHANGED <<q_edge, mu, pc, req, todo, held, calls, pending, signalled, mpc, exited>>
  BY DEF StartWalk, client
<1>2. TypeOK /\ Running
  BY DEF IInv, Running
<1>3. cycle = {}
  BY <1>1, <1>2 DEF Running, SectionsAgree
<1>4. /\ w \in Walk
      /\ w.start # NULL => WalkSound(q_edge, w) /\ WalkPath(q_edge, w)
  <2>1. q_edge \in Seq(Edge)
    BY <1>2 DEF TypeOK
  <2>2. \A j \in DOMAIN q_edge : ~ (j < 1)
    BY <2>1
  <2>3. QED BY <2>1, <2>2, WalkFromFacts, PathFromFacts
<1> HIDE DEF w
<1>5. \/ /\ w.start = NULL /\ walk' = NoWalk /\ mutex_wfg' = None /\ cycle' = {}
         /\ dpc' \in {"get", "sleep"}
      \/ /\ w.start # NULL /\ walk' = w /\ mutex_wfg' = Detector /\ cycle' = {}
         /\ dpc' \in {"in_print", "in_get"}
  BY <1>1, <1>3 DEF WalkEnds
<1>6. TypeOK'
  <2>1. NoWalk \in Walk
    BY DEF NoWalk, Walk, NULL
  <2>2. QED BY <1>1, <1>2, <1>4, <1>5, <2>1 DEF TypeOK
<1>7. Unique(q_edge)' /\ EndedHasNoEdges'
  BY <1>1 DEF IInv, EndedHasNoEdges
<1>8. ClientAgrees' /\ HandlerAgrees' /\ JoinedAll'
  BY <1>1, <1>2 DEF Running, ClientAgrees, HandlerAgrees, JoinedAll, InHandler
<1>9. SectionsAgree'
  <2>1. \A u \in Threads : pc[u] \notin {"in_add_wait", "in_add_hold", "in_drop"}
    BY <1>1, <1>2, NoneAssumption DEF Running, SectionsAgree
  <2>2. QED BY <1>1, <1>4, <1>5, <2>1 DEF SectionsAgree
<1>10. UntilSignal'
  BY <1>1, <1>2, <1>5 DEF Running, UntilSignal, InHandler
<1>11. Kept'
  BY <1>1, <1>6, <1>7, <1>8, <1>9, <1>10 DEF Kept, Running
<1>12. QED BY <1>11, KeptFacts, PTL

\* A turn of the walk.  When it ends with a cycle, that is one in the graph;
\* the graph is not gone (libdrm.c:113-125, 172).
LEMMA WalkOnStep ==
  ASSUME IInv, ~ exited, WalkOn
  PROVE  IInv'
<1> DEFINE w == walk_step(q_edge, walk)
<1>1. /\ dpc \in {"in_print", "in_get"}
      /\ ~ GraphGone =>
           /\ \/ w.start = NULL /\ WalkEnds(w.seen)
              \/ w.start # NULL /\ walk' = w /\ UNCHANGED <<mutex_wfg, dpc, cycle>>
           /\ UNCHANGED exited
      /\ UNCHANGED <<q_edge, mu, pc, req, todo, held, calls, pending, signalled, mpc>>
  BY DEF WalkOn, client
<1>2. TypeOK /\ Running
  BY DEF IInv, Running
<1>3. ~ GraphGone
  BY <1>1, NoWalkWhenJoined DEF GraphGone
<1>4. /\ mutex_wfg = Detector /\ walk.start # NULL /\ cycle = {}
      /\ WalkSound(q_edge, walk) /\ WalkPath(q_edge, walk)
  BY <1>1, <1>2 DEF Running, SectionsAgree
<1>5. /\ w \in Walk
      /\ w.start # NULL => WalkSound(q_edge, w) /\ WalkPath(q_edge, w)
      /\ w.start = NULL => w.seen = {} \/ IsCycle(q_edge, w.seen)
  <2>1. q_edge \in Seq(Edge) /\ Unique(q_edge) /\ walk \in Walk
    BY <1>2 DEF IInv, TypeOK
  <2>2. QED BY <1>4, <2>1, WalkStepFacts, PathStepFacts
<1> HIDE DEF w
<1>6. \/ /\ w.start = NULL /\ walk' = NoWalk /\ mutex_wfg' = None
         /\ \/ dpc' \in {"get", "sleep"} /\ cycle' = {}
            \/ dpc' = "kill" /\ cycle' = w.seen
      \/ /\ w.start # NULL /\ walk' = w /\ mutex_wfg' = mutex_wfg /\ cycle' = {}
         /\ dpc' \in {"in_print", "in_get"}
  BY <1>1, <1>3, <1>4 DEF WalkEnds
<1>7. ~ exited'
  BY <1>1, <1>3
<1>8. TypeOK'
  <2>1. NoWalk \in Walk /\ w.seen \in SUBSET Threads
    BY <1>5 DEF NoWalk, Walk, NULL
  <2>2. QED BY <1>1, <1>2, <1>3, <1>5, <1>6, <2>1 DEF TypeOK
<1>9. Unique(q_edge)' /\ EndedHasNoEdges'
  BY <1>1 DEF IInv, EndedHasNoEdges
<1>10. ClientAgrees' /\ HandlerAgrees' /\ JoinedAll'
  BY <1>1, <1>2 DEF Running, ClientAgrees, HandlerAgrees, JoinedAll, InHandler
<1>11. SectionsAgree'
  <2>1. \A u \in Threads : pc[u] \notin {"in_add_wait", "in_add_hold", "in_drop"}
    BY <1>2, <1>4, NoneAssumption DEF Running, SectionsAgree
  <2>2. QED BY <1>1, <1>4, <1>5, <1>6, <2>1 DEF SectionsAgree
<1>12. UntilSignal'
  <2>1. cycle' # {} => IsCycle(q_edge', cycle')
    BY <1>1, <1>5, <1>6
  <2>2. QED BY <1>1, <1>2, <2>1 DEF Running, UntilSignal, InHandler
<1>13. Kept'
  BY <1>1, <1>7, <1>8, <1>9, <1>10, <1>11, <1>12 DEF Kept, Running
<1>14. QED BY <1>13, KeptFacts, PTL

\* The signal is sent, and the detector sleeps (libdrm.c:124-131).
LEMMA KillStep ==
  ASSUME IInv, ~ exited, NEW t \in Threads, Kill(t)
  PROVE  IInv'
<1>1. /\ dpc = "kill" /\ pending' \in {pending, pending \cup {t}}
      /\ signalled' = signalled \cup {t} /\ cycle' = {} /\ dpc' = "sleep"
      /\ UNCHANGED <<q_edge, mutex_wfg, walk, mu, pc, req, todo, held, calls, mpc, exited>>
  BY DEF Kill, sync, client
<1>2. TypeOK /\ Running
  BY DEF IInv, Running
<1>3. TypeOK'
  BY <1>1, <1>2 DEF TypeOK
<1>4. Unique(q_edge)' /\ EndedHasNoEdges'
  BY <1>1 DEF IInv, EndedHasNoEdges
<1>5. ClientAgrees' /\ HandlerAgrees' /\ JoinedAll'
  BY <1>1, <1>2 DEF Running, ClientAgrees, HandlerAgrees, JoinedAll, InHandler
<1>6. SectionsAgree'
  BY <1>1, <1>2 DEF Running, SectionsAgree
<1>7. UntilSignal'
  BY <1>1 DEF UntilSignal
<1>8. Kept'
  BY <1>1, <1>3, <1>4, <1>5, <1>6, <1>7 DEF Kept, Running
<1>9. QED BY <1>8, KeptFacts, PTL

LEMMA WakeStep ==
  ASSUME IInv, ~ exited, Wake
  PROVE  IInv'
<1>1. /\ dpc = "sleep" /\ dpc' \in {"ended", "print"}
      /\ UNCHANGED <<q_edge, mutex_wfg, walk, mu, pc, req, todo, held, calls, cycle, pending,
                     signalled, mpc, exited>>
  BY DEF Wake, sync, client
<1>2. TypeOK /\ Running
  BY DEF IInv, Running
<1>3. TypeOK'
  BY <1>1, <1>2 DEF TypeOK
<1>4. Unique(q_edge)' /\ EndedHasNoEdges'
  BY <1>1 DEF IInv, EndedHasNoEdges
<1>5. ClientAgrees' /\ HandlerAgrees' /\ JoinedAll'
  BY <1>1, <1>2 DEF Running, ClientAgrees, HandlerAgrees, JoinedAll, InHandler
<1>6. SectionsAgree' /\ UntilSignal'
  BY <1>1, <1>2 DEF Running, SectionsAgree, UntilSignal, InHandler
<1>7. Kept'
  BY <1>1, <1>3, <1>4, <1>5, <1>6 DEF Kept, Running
<1>8. QED BY <1>7, KeptFacts, PTL

-----------------------------------------------------------------------------
(* main.                                                                   *)

\* The joins; pthread_cancel (example-DD.c:51-54, libdrm.c:173).
LEMMA JoinCancelStep ==
  ASSUME IInv, ~ exited, Join \/ Cancel
  PROVE  IInv'
<1>1. /\ mpc' \in {"destroy", "done"} /\ (mpc = "join" => \A t \in Threads : pc[t] = "ended")
      /\ UNCHANGED <<q_edge, mutex_wfg, walk, mu, pc, req, todo, held, calls, dpc, cycle, pending,
                     signalled, exited>>
  BY DEF Join, Cancel, sync, client, detector
<1>2. TypeOK /\ Running
  BY DEF IInv, Running
<1>3. TypeOK'
  BY <1>1, <1>2 DEF TypeOK
<1>4. Unique(q_edge)' /\ EndedHasNoEdges'
  BY <1>1 DEF IInv, EndedHasNoEdges
<1>5. ClientAgrees' /\ HandlerAgrees' /\ JoinedAll'
  BY <1>1, <1>2 DEF Running, ClientAgrees, HandlerAgrees, JoinedAll, InHandler
<1>6. SectionsAgree' /\ UntilSignal'
  BY <1>1, <1>2 DEF Running, SectionsAgree, UntilSignal, InHandler
<1>7. Kept'
  BY <1>1, <1>3, <1>4, <1>5, <1>6 DEF Kept, Running
<1>8. QED BY <1>7, KeptFacts, PTL

\* wfg_destroy: nobody has an edge, and the detector is in no walk
\* (libdrm.c:172).
LEMMA WfgDestroyStep ==
  ASSUME IInv, ~ exited, WfgDestroy
  PROVE  IInv'
<1>1. /\ mpc = "destroy" /\ mpc' = "cancel" /\ q_edge' = <<>>
      /\ UNCHANGED <<mutex_wfg, walk, mu, pc, req, todo, held, calls, dpc, cycle, pending,
                     signalled, exited>>
  BY DEF WfgDestroy, sync, client, detector
<1>2. TypeOK /\ Running
  BY DEF IInv, Running
<1>3. /\ \A t \in Threads, r \in Resources : ~ Waits(q_edge, t, r) /\ ~ Holds(q_edge, t, r)
      /\ dpc \notin {"in_print", "in_get"}
  BY <1>1, NoWalkWhenJoined
<1>4. \A t \in Threads, r \in Resources : ~ Waits(q_edge', t, r) /\ ~ Holds(q_edge', t, r)
  BY <1>1 DEF Waits, Holds
<1>5. TypeOK'
  BY <1>1, <1>2 DEF TypeOK
<1>6. Unique(q_edge)' /\ EndedHasNoEdges'
  BY <1>1, <1>4 DEF Unique, EndedHasNoEdges
<1>7. ClientAgrees' /\ HandlerAgrees' /\ JoinedAll'
  BY <1>1, <1>2, <1>3, <1>4 DEF Running, ClientAgrees, HandlerAgrees, JoinedAll, InHandler
<1>8. SectionsAgree'
  BY <1>1, <1>2, <1>3 DEF Running, SectionsAgree
<1>9. UntilSignal'
  <2>1. ASSUME signalled = {} PROVE cycle = {}
    <3>1. cycle # {} => IsCycle(q_edge, cycle) /\ cycle \in SUBSET Threads
      BY <1>2, <2>1 DEF Running, UntilSignal, TypeOK
    <3>2. QED BY <1>3, <3>1, CycleWaits
  <2>2. QED BY <1>1, <1>2, <2>1 DEF Running, UntilSignal, InHandler
<1>10. Kept'
  BY <1>1, <1>5, <1>6, <1>7, <1>8, <1>9 DEF Kept, Running
<1>11. QED BY <1>10, KeptFacts, PTL

-----------------------------------------------------------------------------
(* The theorems.                                                           *)

\* Every step keeps the inductive invariant.
LEMMA StepIInv == IInv /\ [Next]_vars => IInv'
<1> SUFFICES ASSUME IInv, [Next]_vars PROVE IInv'
  OBVIOUS
<1>1. CASE UNCHANGED vars
  BY <1>1 DEF vars, sync, client, detector, IInv, TypeOK, EndedHasNoEdges, AgreesUntilSignal,
              ClientAgrees, HandlerAgrees, SectionsAgree, JoinedAll, UntilSignal, InHandler
<1>2. CASE Next
  <2>1. ~ exited
    BY <1>2 DEF Next
  <2>2. ASSUME NEW t \in Threads, NEW r \in Resources, CallLock(t, r) \/ CallUnlock(t, r)
        PROVE  IInv'
    BY <2>1, <2>2, CallLockStep, CallUnlockStep
  <2>3. ASSUME NEW t \in Threads, Step(t) PROVE IInv'
    <3>1. CASE AddWait(t)
      BY <2>1, <3>1, EnterStep, LeaveAddWaitStep DEF AddWait
    <3>2. CASE EnterAddHold(t)
      BY <2>1, <3>2, EnterStep DEF EnterAddHold
    <3>3. CASE Drop(t)
      BY <2>1, <3>3, EnterStep, LeaveDropStep DEF Drop
    <3>4. CASE MutexLock(t) \/ AddHold(t) \/ MutexUnlock(t)
      BY <2>1, <3>4, MutexLockStep, AddHoldStep, MutexUnlockStep
    <3>5. CASE HandlerUnlock(t) \/ End(t)
      BY <2>1, <3>5, HandlerUnlockStep, EndStep
    <3>6. QED BY <2>3, <3>1, <3>2, <3>3, <3>4, <3>5 DEF Step
  <2>4. ASSUME NEW t \in Threads, Interrupt(t) PROVE IInv'
    BY <2>1, <2>4, InterruptStep
  <2>5. CASE Detect
    BY <2>1, <2>5, StartWalkStep, WalkOnStep, KillStep, WakeStep DEF Detect
  <2>6. CASE Main
    BY <2>1, <2>6, JoinCancelStep, WfgDestroyStep DEF Main
  <2>7. QED BY <1>2, <2>2, <2>3, <2>4, <2>5, <2>6 DEF Next
<1>3. QED BY <1>1, <1>2

\* In every behaviour, whatever the interleaving of the threads, the signals
\* and the detector: until the first signal the graph is true and nothing ends
\* the process; afterwards a thread in its handler still has every mutex it has
\* an edge of ahead of it.
THEOREM Invariance == Spec => []IInv
<1>1. Init => IInv
  BY InitIInv
<1>2. QED BY <1>1, StepIInv, PTL DEF Spec

\* A victim leaves nothing in the graph (example-DD.c:10-16).
THEOREM VictimsLeaveNothing == Spec => []EndedHasNoEdges
<1>1. IInv => EndedHasNoEdges
  BY DEF IInv
<1>2. QED BY <1>1, Invariance, PTL

\* The first victim is still in a cycle when the signal is sent, although the
\* detector has long given mutex_wfg back (libdrm.c:120-125).
THEOREM FirstVictim == Spec => FirstVictimInCycle
<1>1. IInv /\ [Next]_vars =>
        [\A t \in Threads : Kill(t) /\ signalled = {} =>
           \E S \in SUBSET Threads : t \in S /\ IsCycle(q_edge, S)]_vars
  <2> SUFFICES ASSUME IInv, NEW t \in Threads, Kill(t), signalled = {}
               PROVE  \E S \in SUBSET Threads : t \in S /\ IsCycle(q_edge, S)
    OBVIOUS
  <2>1. t \in cycle
    BY DEF Kill
  <2>2. IsCycle(q_edge, cycle) /\ cycle \in SUBSET Threads
    BY <2>1 DEF IInv, AgreesUntilSignal, UntilSignal, TypeOK
  <2>3. QED BY <2>1, <2>2
<1>2. QED BY <1>1, Invariance, PTL DEF Spec, FirstVictimInCycle
=============================================================================
