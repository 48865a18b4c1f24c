------------------------- MODULE DrmAvoidanceProofs -------------------------
(***************************************************************************)
(* Proofs about DrmAvoidance, for any number of threads, mutexes and       *)
(* calls, when no client locks a mutex it already has.                     *)
(***************************************************************************)
EXTENDS DrmAvoidance, LibWfgProofs

\* Fewer edges make no new knots.
LEMMA KnotMonotone ==
  ASSUME NEW p, NEW q, NEW S \in SUBSET Threads, Knot(p, S),
         \A t \in S, r \in Resources : /\ Waits(p, t, r) => Waits(q, t, r)
                                       /\ Holds(p, t, r) => Holds(q, t, r)
  PROVE  Knot(q, S)
BY DEF Knot, WaitsFor

LEMMA InitIInv == Init => IInv
<1> SUFFICES ASSUME Init PROVE IInv
  OBVIOUS
<1>1. TypeOK
  <2>1. <<>> \in Seq(Edge)
    OBVIOUS
  <2>2. NoWalk \in Walk
    BY DEF NoWalk, Walk, NULL
  <2>3. req \in [Threads -> Resources]
    BY ResourcesAssumption DEF Init
  <2>4. QED BY <2>1, <2>2, <2>3 DEF Init, TypeOK, PC
<1>2. NoExit /\ Unique(q_edge) /\ ReqNotHeld
  BY DEF Init, NoExit, Unique, ReqNotHeld
<1>3. \A t \in Threads, r \in Resources : ~ Waits(q_edge, t, r) /\ ~ Holds(q_edge, t, r)
  BY DEF Init, Waits, Holds
<1>4. GraphAgrees
  BY <1>3, NoneAssumption DEF Init, GraphAgrees, Owns
<1>5. WalkHeld
  BY NoneAssumption DEF Init, WalkHeld
<1>6. KnotSeen
  BY <1>3 DEF KnotSeen, Knot, WaitsFor
<1>7. QED BY <1>1, <1>2, <1>4, <1>5, <1>6 DEF IInv

-----------------------------------------------------------------------------
(* The steps that leave the graph and the pthread mutexes alone.           *)

LEMMA CallLockStep ==
  ASSUME IInv, ~ Relock, ~ exited,
         NEW t \in Threads, NEW r \in Resources, CallLock(t, r)
  PROVE  IInv'
<1> USE DEF IInv
<1>1. r \notin held[t]
  BY DEF CallLock
<1>2. /\ q_edge' = q_edge /\ mu' = mu /\ held' = held /\ walk' = walk
      /\ mutex_wfg' = mutex_wfg /\ exited' = exited
      /\ pc[t] = "client" /\ pc' = [pc EXCEPT ![t] = "add_wait"]
      /\ req' = [req EXCEPT ![t] = r]
      /\ calls' = [calls EXCEPT ![t] = @ + 1]
  BY DEF CallLock, graph, Goto
<1>3. TypeOK'
  BY <1>2 DEF TypeOK, PC
<1>4. NoExit' /\ Unique(q_edge)' /\ ReqNotHeld'
  BY <1>1, <1>2 DEF TypeOK, NoExit, ReqNotHeld
<1>5. GraphAgrees'
  BY <1>2 DEF TypeOK, GraphAgrees, Owns
<1>6. WalkHeld'
  BY <1>2 DEF TypeOK, WalkHeld
<1>7. KnotSeen'
  BY <1>2 DEF TypeOK, KnotSeen
<1>8. QED BY <1>3, <1>4, <1>5, <1>6, <1>7

LEMMA CallUnlockStep ==
  ASSUME IInv, ~ exited,
         NEW t \in Threads, NEW r \in Resources, CallUnlock(t, r)
  PROVE  IInv'
<1> USE DEF IInv
<1>1. /\ q_edge' = q_edge /\ mu' = mu /\ walk' = walk /\ calls' = calls
      /\ mutex_wfg' = mutex_wfg /\ exited' = exited
      /\ pc[t] = "client" /\ pc' = [pc EXCEPT ![t] = "drop"]
      /\ req' = [req EXCEPT ![t] = r]
      /\ r \in held[t] /\ held' = [held EXCEPT ![t] = @ \ {r}]
  BY DEF CallUnlock, graph, Goto
<1>2. TypeOK'
  BY <1>1 DEF TypeOK, PC
<1>3. NoExit' /\ Unique(q_edge)' /\ ReqNotHeld'
  BY <1>1 DEF TypeOK, NoExit, ReqNotHeld
<1>4. GraphAgrees'
  <2>1. \A u \in Threads, s \in Resources : Owns(u, s)' <=> Owns(u, s)
    BY <1>1 DEF TypeOK, Owns
  <2>2. QED BY <1>1, <2>1 DEF TypeOK, GraphAgrees
<1>5. WalkHeld'
  BY <1>1 DEF TypeOK, WalkHeld
<1>6. KnotSeen'
  BY <1>1 DEF TypeOK, KnotSeen
<1>7. QED BY <1>2, <1>3, <1>4, <1>5, <1>6

\* pthread_mutex_lock takes a free mutex, or fails.
LEMMA MutexLockStep ==
  ASSUME IInv, ~ exited, NEW t \in Threads, MutexLock(t) \/ MutexLockFails(t)
  PROVE  IInv'
<1> USE DEF IInv
<1>1. CASE MutexLock(t)
  <2>1. /\ q_edge' = q_edge /\ held' = held /\ walk' = walk /\ calls' = calls
        /\ mutex_wfg' = mutex_wfg /\ exited' = exited /\ req' = req
        /\ pc[t] = "mutex" /\ pc' = [pc EXCEPT ![t] = "add_hold"]
        /\ mu[req[t]] = None /\ mu' = [mu EXCEPT ![req[t]] = t]
    BY <1>1 DEF MutexLock, graph, client, Goto
  <2>2. TypeOK'
    BY <2>1 DEF TypeOK, PC
  <2>3. NoExit' /\ Unique(q_edge)' /\ ReqNotHeld'
    BY <2>1 DEF TypeOK, NoExit, ReqNotHeld
  <2>4. GraphAgrees'
    <3>1. \A u \in Threads : ~ Owns(u, req[t]) /\ ~ Holds(q_edge, u, req[t])
      BY <2>1, NoneAssumption DEF TypeOK, GraphAgrees
    <3>2. \A u \in Threads, s \in Resources :
            Owns(u, s)' <=> Owns(u, s) \/ (u = t /\ s = req[t])
      BY <2>1 DEF TypeOK, Owns
    <3>3. QED BY <2>1, <3>1, <3>2, NoneAssumption DEF TypeOK, GraphAgrees
  <2>5. WalkHeld'
    BY <2>1 DEF TypeOK, WalkHeld
  <2>6. KnotSeen'
    BY <2>1 DEF TypeOK, KnotSeen
  <2>7. QED BY <2>2, <2>3, <2>4, <2>5, <2>6
<1>2. CASE MutexLockFails(t)
  <2>1. /\ q_edge' = q_edge /\ held' = held /\ walk' = walk /\ calls' = calls
        /\ mutex_wfg' = mutex_wfg /\ exited' = exited /\ req' = req /\ mu' = mu
        /\ pc[t] = "mutex" /\ pc' = [pc EXCEPT ![t] = "give_up"]
    BY <1>2 DEF MutexLockFails, graph, client, Goto
  <2>2. TypeOK'
    BY <2>1 DEF TypeOK, PC
  <2>3. NoExit' /\ Unique(q_edge)' /\ ReqNotHeld'
    BY <2>1 DEF TypeOK, NoExit, ReqNotHeld
  <2>4. GraphAgrees'
    BY <2>1 DEF TypeOK, GraphAgrees, Owns
  <2>5. WalkHeld'
    BY <2>1 DEF TypeOK, WalkHeld
  <2>6. KnotSeen'
    BY <2>1 DEF TypeOK, KnotSeen
  <2>7. QED BY <2>2, <2>3, <2>4, <2>5, <2>6
<1>3. QED BY <1>1, <1>2

\* pthread_mutex_unlock comes after the hold edge is gone.
LEMMA MutexUnlockStep ==
  ASSUME IInv, ~ exited, NEW t \in Threads, MutexUnlock(t)
  PROVE  IInv'
<1> USE DEF IInv
<1>1. /\ q_edge' = q_edge /\ held' = held /\ walk' = walk /\ calls' = calls
      /\ mutex_wfg' = mutex_wfg /\ exited' = exited /\ req' = req
      /\ pc[t] = "release" /\ pc' = [pc EXCEPT ![t] = "client"]
      /\ mu' = [mu EXCEPT ![req[t]] = None]
  BY DEF MutexUnlock, graph, client, Goto
<1>2. TypeOK'
  BY <1>1 DEF TypeOK, PC
<1>3. NoExit' /\ Unique(q_edge)' /\ ReqNotHeld'
  BY <1>1 DEF TypeOK, NoExit, ReqNotHeld
<1>4. GraphAgrees'
  <2>1. mu[req[t]] = t
    BY <1>1 DEF TypeOK, GraphAgrees, Owns
  <2>2. \A u \in Threads : u # t => ~ Owns(u, req[t])
    BY <2>1 DEF TypeOK, GraphAgrees
  <2>3. \A u \in Threads, s \in Resources :
          Owns(u, s)' <=> Owns(u, s) /\ s # req[t]
    BY <1>1, <2>2 DEF TypeOK, Owns, ReqNotHeld
  <2>4. QED BY <1>1, <2>1, <2>2, <2>3, NoneAssumption DEF TypeOK, GraphAgrees
<1>5. WalkHeld'
  BY <1>1 DEF TypeOK, WalkHeld
<1>6. KnotSeen'
  BY <1>1 DEF TypeOK, KnotSeen
<1>7. QED BY <1>2, <1>3, <1>4, <1>5, <1>6

-----------------------------------------------------------------------------
(* The sections that change the graph.                                     *)

\* The new wait edge may close a knot, but its thread is about to look.
LEMMA AddWaitStep ==
  ASSUME IInv, ~ exited, NEW t \in Threads, AddWait(t)
  PROVE  IInv'
<1> USE DEF IInv
<1> DEFINE out == wfg_add_wait_edge(q_edge, t, req[t])
<1>1. req[t] \in Resources /\ q_edge \in Seq(Edge)
  BY DEF TypeOK
<1>2. /\ pc[t] = "add_wait" /\ mutex_wfg = None
      /\ q_edge' = out.q /\ exited' = (out.ret # 0)
      /\ mu' = mu /\ held' = held /\ walk' = walk /\ calls' = calls
      /\ mutex_wfg' = mutex_wfg /\ req' = req
      /\ ~ exited' => pc' = [pc EXCEPT ![t] = "check"]
  BY DEF AddWait, Section, graph, client, Goto
<1>3. \A s \in Resources : ~ Waits(q_edge, t, s)
  BY <1>2 DEF GraphAgrees
<1>4. /\ q_edge' \in Seq(Edge) /\ Unique(q_edge)' /\ ~ exited' /\ exited' \in BOOLEAN
      /\ \A u \in Threads, s \in Resources :
           /\ Waits(q_edge, u, s)' <=> Waits(q_edge, u, s) \/ (u = t /\ s = req[t])
           /\ Holds(q_edge, u, s)' <=> Holds(q_edge, u, s)
  <2> HIDE DEF out
  <2>1. /\ out.q \in Seq(Edge) /\ Unique(out.q)
        /\ out.ret = 0
        /\ \A u \in Threads, s \in Resources :
             /\ Waits(out.q, u, s) <=> Waits(q_edge, u, s) \/ (u = t /\ s = req[t])
             /\ Holds(out.q, u, s) <=> Holds(q_edge, u, s)
    BY <1>1, <1>3, AddWaitFacts DEF out
  <2>2. QED BY <1>2, <2>1
<1>5. TypeOK'
  BY <1>2, <1>4 DEF TypeOK, PC
<1>6. NoExit' /\ ReqNotHeld'
  BY <1>2, <1>4 DEF TypeOK, NoExit, ReqNotHeld
<1>7. GraphAgrees'
  <2>1. \A u \in Threads, s \in Resources : Owns(u, s)' <=> Owns(u, s)
    BY <1>2, <1>4 DEF TypeOK, Owns
  <2>2. QED BY <1>2, <1>4, <2>1 DEF TypeOK, GraphAgrees
<1>8. WalkHeld'
  BY <1>2, <1>4 DEF TypeOK, WalkHeld
<1>9. KnotSeen'
  <2>1. ASSUME NEW S \in SUBSET Threads, S # {}, Knot(q_edge', S), t \notin S
        PROVE  \E u \in S : pc'[u] \in {"check", "walk", "give_up"}
    <3>1. Knot(q_edge, S)
      BY <1>4, <2>1, KnotMonotone
    <3>2. QED BY <1>2, <1>4, <2>1, <3>1 DEF TypeOK, KnotSeen
  <2>2. pc'[t] = "check"
    BY <1>2, <1>4 DEF TypeOK
  <2>3. QED BY <2>1, <2>2 DEF KnotSeen
<1>10. QED BY <1>4, <1>5, <1>6, <1>7, <1>8, <1>9

\* A wait edge that becomes a hold edge closes no knot: its thread then waits
\* for nothing.
LEMMA AddHoldStep ==
  ASSUME IInv, ~ exited, NEW t \in Threads, AddHold(t)
  PROVE  IInv'
<1> USE DEF IInv
<1> DEFINE out == wfg_add_hold_edge(q_edge, t, req[t])
<1>1. req[t] \in Resources /\ q_edge \in Seq(Edge)
  BY DEF TypeOK
<1>2. /\ pc[t] = "add_hold" /\ mutex_wfg = None
      /\ q_edge' = out.q /\ exited' = (out.ret # 0)
      /\ mu' = mu /\ held' = held /\ walk' = walk /\ calls' = calls
      /\ mutex_wfg' = mutex_wfg /\ req' = req
      /\ ~ exited' => pc' = [pc EXCEPT ![t] = "recheck"]
  BY DEF AddHold, Section, graph, client, Goto
<1>3. mu[req[t]] = t
  BY <1>1, <1>2 DEF GraphAgrees, Owns
<1>4. Waits(q_edge, t, req[t]) /\ \A u \in Threads : ~ Holds(q_edge, u, req[t])
  <2>1. \A u \in Threads : mu[req[t]] = u => u = t
    BY <1>3
  <2>2. QED BY <1>1, <1>2, <2>1 DEF GraphAgrees
<1>5. /\ q_edge' \in Seq(Edge) /\ Unique(q_edge)' /\ ~ exited' /\ exited' \in BOOLEAN
      /\ \A u \in Threads, s \in Resources :
           /\ Waits(q_edge, u, s)' <=> Waits(q_edge, u, s) /\ ~ (u = t /\ s = req[t])
           /\ Holds(q_edge, u, s)' <=> Holds(q_edge, u, s) \/ (u = t /\ s = req[t])
  <2> HIDE DEF out
  <2>1. /\ out.q \in Seq(Edge) /\ Unique(out.q)
        /\ out.ret = 0
        /\ \A u \in Threads, s \in Resources :
             /\ Waits(out.q, u, s) <=> Waits(q_edge, u, s) /\ ~ (u = t /\ s = req[t])
             /\ Holds(out.q, u, s) <=> Holds(q_edge, u, s) \/ (u = t /\ s = req[t])
    BY <1>1, <1>4, AddHoldFacts DEF out
  <2>2. QED BY <1>2, <2>1
<1>6. TypeOK'
  BY <1>2, <1>5 DEF TypeOK, PC
<1>7. NoExit' /\ ReqNotHeld'
  BY <1>2, <1>5 DEF TypeOK, NoExit, ReqNotHeld
<1>8. GraphAgrees'
  <2>1. \A u \in Threads, s \in Resources : Owns(u, s)' <=> Owns(u, s)
    BY <1>2, <1>5 DEF TypeOK, Owns
  <2>2. QED BY <1>2, <1>3, <1>5, <2>1 DEF TypeOK, GraphAgrees
<1>9. WalkHeld'
  BY <1>2, <1>5 DEF TypeOK, WalkHeld
<1>10. KnotSeen'
  <2>1. \A s \in Resources : ~ Waits(q_edge, t, s)'
    BY <1>2, <1>5 DEF GraphAgrees
  <2>2. ASSUME NEW S \in SUBSET Threads, S # {}, Knot(q_edge', S)
        PROVE  \E u \in S : pc'[u] \in {"check", "walk", "give_up"}
    <3>1. t \notin S
      BY <2>1, <2>2 DEF Knot, WaitsFor
    <3>2. Knot(q_edge, S)
      BY <1>5, <2>2, <3>1, KnotMonotone
    <3>3. QED BY <1>2, <1>5, <2>2, <3>1, <3>2 DEF TypeOK, KnotSeen
  <2>3. QED BY <2>2 DEF KnotSeen
<1>11. QED BY <1>5, <1>6, <1>7, <1>8, <1>9, <1>10

\* Taking an edge away: after a cycle was found, or before an unlock.
LEMMA RemoveStep ==
  ASSUME IInv, ~ exited, NEW t \in Threads, GiveUp(t) \/ Drop(t)
  PROVE  IInv'
<1> USE DEF IInv
<1> DEFINE out == wfg_remove_edge(q_edge, t, req[t])
           next == IF pc[t] = "give_up" THEN "client" ELSE "release"
<1>1. req[t] \in Resources /\ q_edge \in Seq(Edge)
  BY DEF TypeOK
<1>2. /\ pc[t] \in {"give_up", "drop"} /\ mutex_wfg = None
      /\ q_edge' = out.q /\ exited' = (out.ret # 0)
      /\ mu' = mu /\ held' = held /\ walk' = walk /\ calls' = calls
      /\ mutex_wfg' = mutex_wfg /\ req' = req
      /\ ~ exited' => pc' = [pc EXCEPT ![t] = next]
  BY DEF GiveUp, Drop, Section, graph, client, Goto
<1>3. /\ pc[t] = "give_up" => Waits(q_edge, t, req[t]) /\ ~ Holds(q_edge, t, req[t])
      /\ pc[t] = "drop" => Holds(q_edge, t, req[t]) /\ ~ Waits(q_edge, t, req[t])
  <2>1. pc[t] = "give_up" => ~ Owns(t, req[t])
    BY DEF Owns, ReqNotHeld
  <2>2. pc[t] = "drop" => Owns(t, req[t])
    BY DEF Owns
  <2>3. QED BY <1>1, <2>1, <2>2 DEF GraphAgrees
<1>4. /\ q_edge' \in Seq(Edge) /\ Unique(q_edge)' /\ ~ exited' /\ exited' \in BOOLEAN
      /\ \A u \in Threads, s \in Resources :
           /\ Waits(q_edge, u, s)' <=> Waits(q_edge, u, s) /\ ~ (u = t /\ s = req[t])
           /\ Holds(q_edge, u, s)' <=> Holds(q_edge, u, s) /\ ~ (u = t /\ s = req[t])
  <2> HIDE DEF out
  <2>1. /\ out.q \in Seq(Edge) /\ Unique(out.q)
        /\ out.ret = 0
        /\ \A u \in Threads, s \in Resources :
             /\ Waits(out.q, u, s) <=> Waits(q_edge, u, s) /\ ~ (u = t /\ s = req[t])
             /\ Holds(out.q, u, s) <=> Holds(q_edge, u, s) /\ ~ (u = t /\ s = req[t])
    BY <1>1, <1>2, <1>3, RemoveFacts DEF out
  <2>2. QED BY <1>2, <2>1
<1>5. TypeOK'
  BY <1>2, <1>4 DEF TypeOK, PC
<1>6. NoExit' /\ ReqNotHeld'
  BY <1>2, <1>4 DEF TypeOK, NoExit, ReqNotHeld
<1>7. GraphAgrees'
  <2>1. \A u \in Threads, s \in Resources : Owns(u, s)' <=> Owns(u, s)
    BY <1>2, <1>4 DEF TypeOK, Owns
  <2>2. QED BY <1>2, <1>3, <1>4, <2>1 DEF TypeOK, GraphAgrees
<1>8. WalkHeld'
  BY <1>2, <1>4 DEF TypeOK, WalkHeld
<1>9. KnotSeen'
  <2>1. ASSUME NEW S \in SUBSET Threads, S # {}, Knot(q_edge', S)
        PROVE  \E u \in S : pc'[u] \in {"check", "walk", "give_up"}
    <3>1. Knot(q_edge, S)
      BY <1>4, <2>1, KnotMonotone
    <3>2. PICK u \in S : pc[u] \in {"check", "walk", "give_up"}
      BY <2>1, <3>1 DEF KnotSeen
    <3>3. CASE u # t
      BY <1>2, <1>4, <3>2, <3>3 DEF TypeOK
    <3>4. CASE u = t
      <4>1. \A s \in Resources : ~ Waits(q_edge', t, s)
        BY <1>2, <1>4, <3>2, <3>4 DEF GraphAgrees
      <4>2. QED BY <2>1, <3>4, <4>1 DEF Knot, WaitsFor
    <3>5. QED BY <3>3, <3>4
  <2>2. QED BY <2>1 DEF KnotSeen
<1>10. QED BY <1>4, <1>5, <1>6, <1>7, <1>8, <1>9

-----------------------------------------------------------------------------
(* The walks.                                                              *)

\* exist_cycle begins: the first walk of wfg_get_cycle is sound.
LEMMA StartWalkStep ==
  ASSUME IInv, ~ exited, NEW t \in Threads, Check(t) \/ Recheck(t)
  PROVE  IInv'
<1> USE DEF IInv
<1> DEFINE w == walk_from(q_edge, 1)
           during == IF pc[t] = "check" THEN "walk" ELSE "rewalk"
           none == IF pc[t] = "check" THEN "mutex" ELSE "client"
<1>1. /\ pc[t] \in {"check", "recheck"} /\ mutex_wfg = None
      /\ q_edge' = q_edge /\ mu' = mu /\ req' = req /\ calls' = calls /\ exited' = exited
      /\ IF w.start = NULL
           THEN pc' = [pc EXCEPT ![t] = none] /\ mutex_wfg' = mutex_wfg /\ walk' = walk
           ELSE pc' = [pc EXCEPT ![t] = during] /\ mutex_wfg' = t /\ walk' = w
      /\ held' = IF pc[t] = "recheck" /\ pc'[t] = "client"
                   THEN [held EXCEPT ![t] = @ \cup {req[t]}] ELSE held
  BY DEF Check, Recheck, StartWalk, Granted, graph, Goto
<1>2. /\ w \in Walk
      /\ w.start # NULL => WalkSound(q_edge, w)
      /\ w.start = NULL => NoKnot(q_edge)
  <2>1. q_edge \in Seq(Edge)
    BY DEF TypeOK
  <2>2. ASSUME NEW j \in DOMAIN q_edge, j < 1 PROVE FALSE
    BY <2>1, <2>2
  <2>3. QED BY <2>1, <2>2, WalkFromFacts
<1> HIDE DEF w
<1>3. TypeOK'
  BY <1>1, <1>2, ZenonT(60) DEF TypeOK, PC
<1>4. NoExit' /\ Unique(q_edge)' /\ ReqNotHeld'
  BY <1>1 DEF TypeOK, NoExit, ReqNotHeld
<1>5. GraphAgrees'
  <2>1. \A u \in Threads, s \in Resources : Owns(u, s)' <=> Owns(u, s)
    BY <1>1 DEF TypeOK, Owns
  <2>2. \A u \in Threads :
          pc'[u] \in {"check", "walk", "give_up", "mutex", "add_hold"}
            <=> pc[u] \in {"check", "walk", "give_up", "mutex", "add_hold"}
    BY <1>1 DEF TypeOK
  <2>3. \A u \in Threads :
          pc'[u] \in {"add_hold", "release"} <=> pc[u] \in {"add_hold", "release"}
    BY <1>1 DEF TypeOK
  <2>4. QED BY <1>1, <2>1, <2>2, <2>3 DEF GraphAgrees
<1>6. WalkHeld'
  <2>1. \A u \in Threads : pc[u] \notin {"walk", "rewalk"}
    BY <1>1, NoneAssumption DEF WalkHeld
  <2>2. QED BY <1>1, <1>2, <2>1, NoneAssumption DEF TypeOK, WalkHeld
<1>7. KnotSeen'
  BY <1>1, <1>2 DEF TypeOK, KnotSeen, NoKnot
<1>8. QED BY <1>3, <1>4, <1>5, <1>6, <1>7

\* A turn of the walk; when it ends without a cycle there is no knot.
LEMMA WalkOnStep ==
  ASSUME IInv, ~ exited, NEW t \in Threads, CheckStep(t) \/ RecheckStep(t)
  PROVE  IInv'
<1> USE DEF IInv
<1> DEFINE w == walk_step(q_edge, walk)
           none == IF pc[t] = "walk" THEN "mutex" ELSE "client"
           some == IF pc[t] = "walk" THEN "give_up" ELSE "drop"
<1>1. /\ pc[t] \in {"walk", "rewalk"}
      /\ q_edge' = q_edge /\ mu' = mu /\ req' = req /\ calls' = calls /\ exited' = exited
      /\ IF w.start # NULL
           THEN pc' = pc /\ mutex_wfg' = mutex_wfg /\ walk' = w
           ELSE /\ pc' = [pc EXCEPT ![t] = IF w.seen = {} THEN none ELSE some]
                /\ mutex_wfg' = None /\ walk' = NoWalk
      /\ held' = IF pc[t] = "rewalk" /\ pc'[t] = "client"
                   THEN [held EXCEPT ![t] = @ \cup {req[t]}] ELSE held
  BY DEF CheckStep, RecheckStep, WalkOn, Granted, Goto
<1>2. mutex_wfg = t /\ mutex_wfg # None
  BY <1>1, NoneAssumption DEF WalkHeld
<1>3. /\ w \in Walk
      /\ w.start # NULL => WalkSound(q_edge, w)
      /\ w.start = NULL /\ w.seen = {} => NoKnot(q_edge)
  <2>1. q_edge \in Seq(Edge) /\ walk \in Walk
    BY DEF TypeOK
  <2>2. walk.start # NULL /\ WalkSound(q_edge, walk)
    BY <1>2 DEF WalkHeld
  <2>3. QED BY <2>1, <2>2, WalkStepFacts
<1> HIDE DEF w
<1>4. TypeOK'
  <2>1. NoWalk \in Walk
    BY DEF NoWalk, Walk, NULL
  <2>2. QED BY <1>1, <1>3, <2>1, ZenonT(60) DEF TypeOK, PC
<1>5. NoExit' /\ Unique(q_edge)' /\ ReqNotHeld'
  BY <1>1 DEF TypeOK, NoExit, ReqNotHeld
<1>6. GraphAgrees'
  <2>1. \A u \in Threads, s \in Resources : Owns(u, s)' <=> Owns(u, s)
    BY <1>1 DEF TypeOK, Owns
  <2>2. \A u \in Threads :
          pc'[u] \in {"check", "walk", "give_up", "mutex", "add_hold"}
            <=> pc[u] \in {"check", "walk", "give_up", "mutex", "add_hold"}
    BY <1>1 DEF TypeOK
  <2>3. \A u \in Threads :
          pc'[u] \in {"add_hold", "release"} <=> pc[u] \in {"add_hold", "release"}
    BY <1>1 DEF TypeOK
  <2>4. QED BY <1>1, <2>1, <2>2, <2>3 DEF GraphAgrees
<1>7. WalkHeld'
  BY <1>1, <1>2, <1>3, NoneAssumption DEF TypeOK, WalkHeld
<1>8. KnotSeen'
  BY <1>1, <1>3 DEF TypeOK, KnotSeen, NoKnot
<1>9. QED BY <1>4, <1>5, <1>6, <1>7, <1>8

-----------------------------------------------------------------------------
(* The theorems.                                                           *)

\* Every step keeps the inductive invariant.
LEMMA StepIInv == ~ Relock /\ IInv /\ [Next]_vars => IInv'
<1> SUFFICES ASSUME ~ Relock, IInv, [Next]_vars PROVE IInv'
  OBVIOUS
<1>1. CASE UNCHANGED vars
  BY <1>1, SMTT(30) DEF vars, IInv, TypeOK, NoExit, GraphAgrees, Owns, ReqNotHeld,
              WalkHeld, KnotSeen
<1>2. ASSUME ~ exited, NEW t \in Threads, NEW r \in Resources,
             CallLock(t, r) \/ CallUnlock(t, r)
      PROVE  IInv'
  BY <1>2, CallLockStep, CallUnlockStep
<1>3. ASSUME ~ exited, NEW t \in Threads, Step(t) \/ MutexLockFails(t)
      PROVE  IInv'
  BY <1>3, AddWaitStep, StartWalkStep, WalkOnStep, RemoveStep, MutexLockStep,
     AddHoldStep, MutexUnlockStep DEF Step
<1>4. QED BY <1>1, <1>2, <1>3 DEF Next

\* The variables keep their types, EXITERROR is never reached, and the graph
\* says who waits for and who has each mutex (libdrm.c:241-282, 326-330).
THEOREM Invariance == ASSUME ~ Relock PROVE Spec => []IInv
<1>1. IInv /\ [Next]_vars => IInv'
  BY StepIInv
<1>2. QED BY <1>1, InitIInv, PTL DEF Spec

\* Every variable keeps its type.
THEOREM Typing == ASSUME ~ Relock PROVE Spec => []TypeOK
BY Invariance, PTL DEF IInv

\* Clients that lock and unlock in pairs never make libdrm end the process
\* (libdrm.c:244, 246, 266-269, 271, 277, 328).
THEOREM NoErrorExit == ASSUME ~ Relock PROVE Spec => []NoExit
BY Invariance, PTL DEF IInv

\* Deadlock avoidance works: the threads that sit in pthread_mutex_lock never
\* wait for each other in a circle (libdrm.c:244-264).
THEOREM DeadlockFree == ASSUME ~ Relock PROVE Spec => []NoDeadlock
<1>1. IInv => NoDeadlock
  <2> SUFFICES ASSUME IInv, NEW S \in SUBSET Threads, Deadlocked(S) PROVE FALSE
    BY DEF NoDeadlock
  <2>1. ASSUME NEW t \in S PROVE \E u \in S : WaitsFor(q_edge, t, u)
    <3>1. pc[t] = "mutex" /\ mu[req[t]] \in S /\ req[t] \in Resources
      BY DEF Deadlocked, IInv, TypeOK
    <3>2. Waits(q_edge, t, req[t])
      BY <3>1 DEF IInv, GraphAgrees
    <3>3. Holds(q_edge, mu[req[t]], req[t])
      <4>1. pc[mu[req[t]]] = "mutex"
        BY <3>1 DEF Deadlocked
      <4>2. QED BY <3>1, <4>1 DEF IInv, GraphAgrees
    <3>4. QED BY <3>1, <3>2, <3>3 DEF WaitsFor
  <2>2. Knot(q_edge, S) /\ S # {}
    BY <2>1 DEF Knot, Deadlocked
  <2>3. QED BY <2>2 DEF IInv, KnotSeen, Deadlocked
<1>2. QED BY <1>1, Invariance, PTL

\* The second exist_cycle never finds a cycle of the thread that calls it
\* (libdrm.c:270): what it finds is another thread's, which backs out itself.
THEOREM RecheckIsForOthers == ASSUME ~ Relock PROVE Spec => []GrantClosesNoCycle
<1>1. IInv => GrantClosesNoCycle
  <2> SUFFICES ASSUME IInv, NEW t \in Threads, pc[t] \in {"recheck", "rewalk"},
                      NEW S \in SUBSET Threads, t \in S, IsCycle(q_edge, S)
               PROVE  FALSE
    BY DEF GrantClosesNoCycle
  <2>1. \A r \in Resources : ~ Waits(q_edge, t, r)
    BY DEF IInv, GraphAgrees
  <2>2. QED BY <2>1 DEF IsCycle, Knot, WaitsFor
<1>2. QED BY <1>1, Invariance, PTL

\* drm_lock and drm_unlock implement a table of exclusive locks: a step of the
\* code grants one lock that nobody has, gives one back, or changes nothing
\* that a client sees (libdrm.c:218-334).
THEOREM Implements == ASSUME ~ Relock PROVE Spec => Exclusive
<1>1. Init => Locks!Init
  BY DEF Init, Locks!Init
<1>2. IInv /\ [Next]_vars => [Locks!Next]_held
  <2> SUFFICES ASSUME IInv, [Next]_vars, held' # held PROVE Locks!Next
    OBVIOUS
  <2>1. PICK t \in Threads :
          \/ \E r \in Resources : CallUnlock(t, r)
          \/ Recheck(t) \/ RecheckStep(t)
    BY DEF Next, vars, client, Step, CallLock, AddWait, Check, CheckStep, GiveUp,
           MutexLock, MutexLockFails, AddHold, Drop, MutexUnlock, Section
  <2>2. CASE \E r \in Resources : CallUnlock(t, r)
    BY <2>2 DEF CallUnlock, Locks!Next, Locks!Release
  <2>3. CASE Recheck(t) \/ RecheckStep(t)
    <3>1. /\ pc[t] \in {"recheck", "rewalk"}
          /\ held' = [held EXCEPT ![t] = @ \cup {req[t]}]
          /\ req[t] \in Resources
      BY <2>3 DEF Recheck, RecheckStep, StartWalk, WalkOn, Granted, IInv, TypeOK
    <3>2. \A u \in Threads : req[t] \notin held[u]
      <4>1. mu[req[t]] = t
        BY <3>1 DEF IInv, GraphAgrees, Owns
      <4>2. \A u \in Threads : req[t] \in held[u] => u = t
        BY <3>1, <4>1 DEF IInv, GraphAgrees, Owns
      <4>3. QED BY <3>1, <4>2 DEF IInv, ReqNotHeld
    <3>3. QED BY <3>1, <3>2 DEF Locks!Next, Locks!Grant
  <2>4. QED BY <2>1, <2>2, <2>3
<1>3. QED BY <1>1, <1>2, Invariance, PTL DEF Spec, Exclusive, Locks!Spec
=============================================================================
