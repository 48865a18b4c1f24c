------------------------- MODULE DrmPreventionProofs -------------------------
(***************************************************************************)
(* Proofs about DrmPrevention, for any number of threads and mutexes, for  *)
(* clients that may also lock a mutex they already have, and for a main    *)
(* that makes and destroys mutexes at any time.                            *)
(***************************************************************************)
EXTENDS DrmPrevention, WellFoundedInduction, TLAPS

LEMMA LeastFacts ==
  ASSUME NEW I \in SUBSET Nat, I # {}
  PROVE  \E i \in I : \A j \in I : i <= j
<1>1. PICK i \in I : \A j \in I : ~ (<<j, i>> \in OpToRel(<, Nat))
  BY NatLessThanWellFounded, WFMin
<1>2. ASSUME NEW j \in I, j < i PROVE FALSE
  <2>1. <<j, i>> \in {ss \in Nat \X Nat : ss[1] < ss[2]}
    BY <1>2
  <2>2. QED BY <1>1, <2>1 DEF OpToRel
<1>3. \A j \in I : ~ (j < i) => i <= j
  OBVIOUS
<1>4. QED BY <1>2, <1>3

LEMMA InitIInv == Init => IInv
<1> SUFFICES ASSUME Init PROVE IInv
  OBVIOUS
<1>1. TypeOK
  <2>1. 1 \in Resources
    BY NAssumption DEF Resources
  <2>2. (CHOOSE r \in Resources : TRUE) \in Resources
    BY <2>1
  <2>3. req \in [Threads -> Resources]
    BY <2>2 DEF Init
  <2>4. ID \in 0 .. N /\ q_mutex \in Seq(Resources)
    BY NAssumption DEF Init
  <2>5. QED BY <2>3, <2>4 DEF Init, TypeOK, PC
<1>2. NoExit /\ InOrder /\ ScanAgrees /\ ReqNotHeld /\ ModeAgrees
  BY DEF Init, NoExit, InOrder, ScanAgrees, ReqNotHeld, ModeAgrees
<1>3. RecordAgrees
  BY NoneAssumption DEF Init, RecordAgrees, Owns
<1>4. QED BY <1>1, <1>2, <1>3 DEF IInv

\* drm_init: a new mutex at the end of the queue (libdrm.c:189-196).
LEMMA DrmInitIInv == ASSUME IInv, DrmInit PROVE IInv'
<1> USE DEF IInv, TypeOK, DrmInit, record, client, scan
<1>1. q_mutex \in Seq(Resources) /\ ID + 1 \in Resources
  BY NAssumption DEF Resources
<1>2. /\ q_mutex' \in Seq(Resources)
      /\ Len(q_mutex') = Len(q_mutex) + 1
      /\ \A i \in 1 .. Len(q_mutex) : q_mutex'[i] = q_mutex[i]
  BY <1>1
<1>3. TypeOK' /\ NoExit'
  BY <1>2, NAssumption DEF NoExit
<1>4. \A r \in Live : r \in Live'
  <2>1. ASSUME NEW r \in Live PROVE r \in Live'
    <3>1. PICK i \in DOMAIN q_mutex : q_mutex[i] = r
      BY DEF Live
    <3>2. i \in 1 .. Len(q_mutex) /\ Len(q_mutex) \in Nat
      BY <1>1, <3>1
    <3>3. i \in 1 .. Len(q_mutex') /\ q_mutex'[i] = r
      BY <1>2, <3>1, <3>2
    <3>4. i \in DOMAIN q_mutex'
      BY <1>2, <3>3
    <3>5. QED BY <3>3, <3>4 DEF Live
  <2>2. QED BY <2>1
<1>5. ScanAgrees'
  <2>1. \A t \in Threads : /\ \A r \in held[t] : r \in Live'
                           /\ pc[t] # "client" => req[t] \in Live'
    BY <1>4 DEF ScanAgrees
  <2>2. ASSUME NEW t \in Threads, pc[t] = "scan", t \notin astray,
               NEW r \in held[t], r > req[t]
        PROVE  \E i \in at[t] + 1 .. Len(q_mutex') : q_mutex'[i] = r
    <3>1. PICK i \in at[t] + 1 .. Len(q_mutex) : q_mutex[i] = r
      BY <2>2 DEF ScanAgrees
    <3>2. at[t] \in Nat /\ Len(q_mutex) \in Nat
      BY <1>1
    <3>3. i \in at[t] + 1 .. Len(q_mutex') /\ q_mutex'[i] = r
      BY <1>2, <3>1, <3>2
    <3>4. QED BY <3>3
  <2>3. QED BY <2>1, <2>2 DEF ScanAgrees
<1>6. RecordAgrees' /\ InOrder' /\ ReqNotHeld' /\ ModeAgrees'
  BY DEF RecordAgrees, Owns, InOrder, ReqNotHeld, ModeAgrees, Preventing
<1>7. QED BY <1>3, <1>5, <1>6

\* drm_destroy: every other mutex stays in the queue, and of a scan that has not
\* come to the one removed, the mutexes it has yet to look at stay ahead
\* (libdrm.c:345-360).
LEMMA DrmDestroyIInv ==
  ASSUME IInv, NEW r \in Resources, DrmDestroy(r) PROVE IInv'
<1> USE NoneAssumption DEF IInv, TypeOK, client
<1> DEFINE I == {i \in DOMAIN q_mutex : q_mutex[i] = r}
           pos == FirstOf(I)
<1>1. q_mutex \in Seq(Resources) /\ Len(q_mutex) \in Nat /\ DOMAIN q_mutex = 1 .. Len(q_mutex)
  OBVIOUS
<1>2. pos \in DOMAIN q_mutex /\ q_mutex[pos] = r
  <2>1. I \subseteq 1 .. Len(q_mutex) /\ I # {}
    BY <1>1 DEF DrmDestroy, Live
  <2>2. \E i \in I : \A j \in I : i <= j
    <3>1. I \subseteq Nat
      BY <1>1, <2>1
    <3>2. QED BY <2>1, <3>1, LeastFacts
  <2>3. pos \in I
    BY <2>1, <2>2 DEF FirstOf
  <2>4. QED BY <2>3
<1>3. /\ q_mutex' = queue_remove_at(q_mutex, pos)
      /\ astray' = astray \cup {t \in Threads : pc[t] = "scan" /\ pos <= at[t] + 1}
  BY DEF DrmDestroy
<1> HIDE DEF pos
<1> DEFINE n == Len(q_mutex)
<1>4. /\ q_mutex' \in Seq(Resources) /\ Len(q_mutex') = n - 1
      /\ DOMAIN q_mutex' = 1 .. n - 1
      /\ \A i \in DOMAIN q_mutex' :
           q_mutex'[i] = IF i < pos THEN q_mutex[i] ELSE q_mutex[i + 1]
  <2>1. n - 1 \in Nat /\ pos \in 1 .. n
    BY <1>1, <1>2
  <2>2. q_mutex' = [i \in 1 .. n - 1 |-> IF i < pos THEN q_mutex[i] ELSE q_mutex[i + 1]]
    BY <1>3 DEF queue_remove_at
  <2>3. \A i \in 1 .. n - 1 : (IF i < pos THEN q_mutex[i] ELSE q_mutex[i + 1]) \in Resources
    BY <1>1
  <2> HIDE DEF n, IInv, TypeOK
  <2>4. q_mutex' \in [1 .. n - 1 -> Resources]
    BY <2>2, <2>3
  <2>5. QED BY <2>1, <2>2, <2>4
<1>5. Len(q_mutex') = Len(q_mutex) - 1
  BY <1>4
<1>6. ASSUME NEW i \in 1 .. Len(q_mutex), q_mutex[i] # r
      PROVE  LET j == IF i < pos THEN i ELSE i - 1
             IN  j \in DOMAIN q_mutex' /\ q_mutex'[j] = q_mutex[i]
  <2>1. i \in Nat /\ pos \in 1 .. Len(q_mutex) /\ i # pos
    BY <1>1, <1>2, <1>6
  <2> HIDE DEF IInv, TypeOK
  <2>2. CASE i < pos
    <3>1. i \in DOMAIN q_mutex'
      BY <1>1, <1>4, <2>1, <2>2
    <3>2. q_mutex'[i] = q_mutex[i]
      BY <1>4, <2>2, <3>1
    <3>3. QED BY <2>2, <3>1, <3>2
  <2>3. CASE pos < i
    <3>1. i - 1 \in DOMAIN q_mutex' /\ ~ (i - 1 < pos) /\ ~ (i < pos) /\ (i - 1) + 1 = i
      BY <1>1, <1>4, <2>1, <2>3
    <3>2. q_mutex'[i - 1] = q_mutex[i]
      BY <1>4, <3>1
    <3>3. QED BY <3>1, <3>2
  <2>4. QED BY <2>1, <2>2, <2>3
<1>7. /\ UNCHANGED <<runmode, ID, mu, pc, req, at, held, calls, exited>>
      /\ t_id' = [t_id EXCEPT ![r] = None]
      /\ lockflag' = [lockflag EXCEPT ![r] = "Unlock"]
      /\ \A t \in Threads : r \notin held[t] /\ (pc[t] # "client" => req[t] # r)
  BY DEF DrmDestroy, InUse
<1>8. TypeOK' /\ NoExit'
  BY <1>3, <1>4, <1>7 DEF NoExit
<1>9. \A s \in Live : s # r => s \in Live'
  <2>1. ASSUME NEW s \in Live, s # r PROVE s \in Live'
    <3>1. PICK i \in 1 .. Len(q_mutex) : q_mutex[i] = s
      BY <1>1 DEF Live
    <3>2. \E j \in DOMAIN q_mutex' : q_mutex'[j] = s
      BY <1>6, <2>1, <3>1
    <3>3. QED BY <3>2 DEF Live
  <2>2. QED BY <2>1
<1>10. ScanAgrees'
  <2>1. \A t \in Threads : /\ \A s \in held[t] : s \in Live'
                           /\ pc[t] # "client" => req[t] \in Live'
    BY <1>7, <1>9 DEF ScanAgrees
  <2>2. ASSUME NEW t \in Threads, pc[t] = "scan", t \notin astray',
               NEW s \in held[t], s > req[t]
        PROVE  \E i \in at[t] + 1 .. Len(q_mutex') : q_mutex'[i] = s
    <3>1. t \notin astray /\ ~ (pos <= at[t] + 1)
      BY <1>3, <2>2
    <3>2. PICK i \in at[t] + 1 .. Len(q_mutex) : q_mutex[i] = s
      BY <2>2, <3>1 DEF ScanAgrees
    <3>3. s # r
      BY <1>7
    <3>4. at[t] \in Nat /\ pos \in Nat
      BY <1>1, <1>2
    <3>5. i \in 1 .. Len(q_mutex)
      BY <1>1, <3>4
    <3> DEFINE j == IF i < pos THEN i ELSE i - 1
    <3>6. j \in DOMAIN q_mutex' /\ q_mutex'[j] = s
      BY <1>6, <3>2, <3>3, <3>5
    <3>7. j \in at[t] + 1 .. Len(q_mutex')
      BY <1>1, <1>4, <1>5, <3>1, <3>2, <3>4, <3>5, <3>6
    <3>8. QED BY <3>6, <3>7
  <2>3. QED BY <1>7, <2>1, <2>2 DEF ScanAgrees
<1>11. RecordAgrees'
  <2>1. \A t \in Threads, s \in Resources : Owns(t, s)' <=> Owns(t, s)
    BY <1>7 DEF Owns
  <2>2. QED BY <1>7, <2>1 DEF RecordAgrees, Preventing
<1>12. InOrder' /\ ReqNotHeld' /\ ModeAgrees'
  BY <1>3, <1>7 DEF InOrder, ReqNotHeld, ModeAgrees, Preventing
<1>13. QED BY <1>8, <1>10, <1>11, <1>12

\* A step of a thread that leaves the queue and the scans alone: the thread has
\* or asks for what it had or asked for.
LEMMA ScanKept ==
  ASSUME ScanAgrees, UNCHANGED <<q_mutex, at, astray>>,
         \A t \in Threads :
           /\ \A r \in held'[t] : r \in held[t] \/ (pc[t] # "client" /\ r = req[t])
           /\ pc'[t] # "client" => \/ pc[t] # "client" /\ req'[t] = req[t]
                                  \/ req'[t] \in held[t]
           /\ pc'[t] = "scan" => UNCHANGED <<pc[t], req[t], held[t]>>
  PROVE  ScanAgrees'
BY DEF ScanAgrees, Live

\* Every step keeps the inductive invariant.
LEMMA StepIInv == IInv /\ [Next]_vars => IInv'
<1> SUFFICES ASSUME IInv, [Next]_vars PROVE IInv'
  OBVIOUS
<1> USE NoneAssumption DEF IInv, TypeOK, NoExit
<1>1. CASE UNCHANGED vars
  BY <1>1 DEF vars, RecordAgrees, Owns, InOrder, ScanAgrees, Live, ReqNotHeld,
                  ModeAgrees, Preventing
<1>2. ASSUME NEW t \in Threads, NEW r \in Resources, Running, CallLock(t, r)
      PROVE  IInv'
  <2> USE <1>2 DEF CallLock, Goto, mutexes, record, client
  <2>1. TypeOK' /\ NoExit'
    BY DEF PC, Preventing
  <2>2. RecordAgrees'
    BY DEF RecordAgrees, Owns, Preventing
  <2>3. InOrder'
    BY DEF InOrder, Preventing, RecordAgrees, Resources
  <2>4. ReqNotHeld' /\ ModeAgrees'
    BY DEF ReqNotHeld, ModeAgrees, Preventing
  <2>5. ScanAgrees'
    <3>1. pc'[t] = "scan" => \A s \in held[t] : \E i \in at'[t] + 1 .. Len(q_mutex) : q_mutex[i] = s
      BY DEF ScanAgrees, Live
    <3>2. QED BY <3>1, SMTT(30) DEF ScanAgrees, Live
  <2>6. QED BY <2>1, <2>2, <2>3, <2>4, <2>5
<1>3. ASSUME NEW t \in Threads, NEW r \in Resources, Running, CallUnlock(t, r)
      PROVE  IInv'
  <2> USE <1>3 DEF CallUnlock, Goto, mutexes, scan, record, client
  <2>1. TypeOK' /\ NoExit'
    BY DEF PC, Preventing, RecordAgrees
  <2>2. RecordAgrees'
    BY DEF RecordAgrees, Owns, Preventing
  <2>3. InOrder'
    BY DEF InOrder, Preventing
  <2>4. ReqNotHeld' /\ ModeAgrees'
    BY DEF ReqNotHeld, ModeAgrees, Preventing
  <2>5. ScanAgrees'
    BY ScanKept
  <2>6. QED BY <2>1, <2>2, <2>3, <2>4, <2>5
<1>4. ASSUME NEW t \in Threads, Running, Scan(t) PROVE IInv'
  <2> USE <1>4 DEF Scan, Goto, mutexes, scan, record, client
  <2>1. TypeOK' /\ NoExit'
    <3>1. pc' \in [Threads -> PC]
      BY DEF PC
    <3>2. at' \in [Threads -> Nat]
      OBVIOUS
    <3>3. QED BY <3>1, <3>2
  <2>2. RecordAgrees'
    BY DEF RecordAgrees, Owns, Preventing
  <2>3. InOrder'
    <3>1. ASSUME pc'[t] = "mutex", t \notin astray, NEW r \in held[t] PROVE r <= req[t]
      <4>1. ~ at[t] < Len(q_mutex) /\ pc[t] = "scan"
        BY <3>1
      <4>2. ~ r > req[t]
        BY <3>1, <4>1 DEF ScanAgrees
      <4>3. QED BY <4>2 DEF Resources
    <3>2. QED BY <3>1 DEF InOrder, Preventing
  <2>4. ReqNotHeld' /\ ModeAgrees'
    BY DEF ReqNotHeld, ModeAgrees, Preventing
  <2>5. ScanAgrees'
    <3>1. CASE at' = [at EXCEPT ![t] = @ + 1] /\ UNCHANGED pc /\ at[t] < Len(q_mutex)
               /\ ~ Greater(t, q_mutex[at[t] + 1])
      <4>1. ASSUME t \notin astray, NEW r \in held[t], r > req[t]
            PROVE  \E i \in at'[t] + 1 .. Len(q_mutex) : q_mutex[i] = r
        <5>1. PICK i \in at[t] + 1 .. Len(q_mutex) : q_mutex[i] = r
          BY <4>1 DEF ScanAgrees
        <5>2. lockflag[r] = "Lock" /\ t_id[r] = t
          BY DEF RecordAgrees, ModeAgrees
        <5>3. i # at[t] + 1
          BY <3>1, <4>1, <5>1, <5>2 DEF Greater
        <5>4. i \in at'[t] + 1 .. Len(q_mutex)
          BY <3>1, <5>1, <5>3
        <5>5. QED BY <5>1, <5>4
      <4>2. \A u \in Threads \ {t} : at'[u] = at[u]
        BY <3>1
      <4>3. q_mutex' = q_mutex /\ held' = held /\ req' = req /\ astray' = astray /\ pc' = pc
        BY <3>1
      <4>4. ASSUME NEW u \in Threads
            PROVE  /\ \A r \in held'[u] : r \in Live'
                   /\ pc'[u] # "client" => req'[u] \in Live'
        BY <4>3 DEF ScanAgrees, Live
      <4>5. ASSUME NEW u \in Threads, pc'[u] = "scan", u \notin astray',
                   NEW r \in held'[u], r > req'[u]
            PROVE  \E i \in at'[u] + 1 .. Len(q_mutex') : q_mutex'[i] = r
        <5>1. CASE u = t
          BY <4>1, <4>3, <4>5, <5>1
        <5>2. CASE u # t
          BY <4>2, <4>3, <4>5, <5>2 DEF ScanAgrees
        <5>3. QED BY <5>1, <5>2
      <4>6. QED BY <4>4, <4>5 DEF ScanAgrees
    <3>2. CASE UNCHANGED at /\ pc'[t] # "scan" /\ \A u \in Threads : u # t => pc'[u] = pc[u]
      BY <3>2, ScanKept
    <3>3. QED BY <3>1, <3>2
  <2>6. QED BY <2>1, <2>2, <2>3, <2>4, <2>5
<1>5. ASSUME NEW t \in Threads, Running, MutexLock(t) PROVE IInv'
  <2> USE <1>5 DEF MutexLock, Granted, Goto, mutexes, scan, record, client
  <2>1. TypeOK' /\ NoExit'
    <3>1. pc' \in [Threads -> PC]
      BY DEF PC
    <3>2. held' \in [Threads -> SUBSET Resources]
      <4>1. CASE UNCHANGED held
        BY <4>1
      <4>2. CASE held' = [held EXCEPT ![t] = @ \cup {req[t]}]
        BY <4>2
      <4>3. QED BY <4>1, <4>2
    <3>3. mu' \in [Resources -> Threads \cup {None}]
      OBVIOUS
    <3>4. QED BY <3>1, <3>2, <3>3
  <2>2. \A u \in Threads : ~ Owns(u, req[t])
    BY DEF RecordAgrees
  <2>3. RecordAgrees'
    <3>1. \A u \in Threads, s \in Resources :
            Owns(u, s)' <=> Owns(u, s) \/ (u = t /\ s = req[t])
      BY DEF Owns
    <3>2. \A u \in Threads, s \in Resources :
            mu'[s] = u <=> mu[s] = u \/ (u = t /\ s = req[t])
      OBVIOUS
    <3>3. CASE Preventing
      BY <3>1, <3>2, <3>3 DEF RecordAgrees, Preventing
    <3>4. CASE ~ Preventing
      BY <3>1, <3>2, <3>4 DEF RecordAgrees, Preventing
    <3>5. QED BY <3>3, <3>4
  <2>4. InOrder' /\ ModeAgrees'
    BY DEF InOrder, Preventing, ModeAgrees
  <2>5. ReqNotHeld'
    BY <2>2 DEF ReqNotHeld, Owns
  <2>6. ScanAgrees'
    BY ScanKept
  <2>7. QED BY <2>1, <2>3, <2>4, <2>5, <2>6
<1>6. ASSUME NEW t \in Threads, Running, MutexLockFails(t) PROVE IInv'
  <2> USE <1>6 DEF MutexLockFails, Goto, mutexes, scan, record, client
  <2>1. TypeOK' /\ NoExit'
    BY DEF PC
  <2>2. RecordAgrees' /\ InOrder' /\ ReqNotHeld' /\ ModeAgrees'
    BY DEF RecordAgrees, Owns, InOrder, ReqNotHeld, ModeAgrees, Preventing
  <2>3. ScanAgrees'
    BY ScanKept
  <2>4. QED BY <2>1, <2>2, <2>3
<1>7. ASSUME NEW t \in Threads, Running, SetFlag(t) \/ SetId(t) PROVE IInv'
  <2> USE <1>7 DEF SetFlag, SetId, Granted, Goto, mutexes, scan, record, client
  <2>1. TypeOK' /\ NoExit'
    <3>1. pc' \in [Threads -> PC]
      BY DEF PC
    <3>2. CASE SetFlag(t)
      BY <3>1, <3>2
    <3>3. CASE SetId(t)
      <4>1. held' \in [Threads -> SUBSET Resources] /\ t_id' \in [Resources -> Threads \cup {None}]
        BY <3>3
      <4>2. QED BY <3>1, <3>3, <4>1
    <3>4. QED BY <3>2, <3>3
  <2>2. mu[req[t]] = t /\ Preventing
    BY DEF RecordAgrees, Owns, ModeAgrees
  <2>3. RecordAgrees'
    <3>1. \A u \in Threads, s \in Resources : Owns(u, s)' <=> Owns(u, s)
      <4>1. CASE SetFlag(t)
        BY <4>1 DEF Owns
      <4>2. CASE SetId(t)
        BY <4>2 DEF Owns
      <4>3. QED BY <4>1, <4>2
    <3>2. \A u \in Threads : Owns(u, req[t]) => u = t
      BY <2>2 DEF RecordAgrees
    <3>3. CASE SetFlag(t)
      BY <2>2, <3>1, <3>3 DEF RecordAgrees, Preventing
    <3>4. CASE SetId(t)
      BY <2>2, <3>1, <3>2, <3>4 DEF RecordAgrees, Preventing
    <3>5. QED BY <3>3, <3>4
  <2>4. InOrder' /\ ReqNotHeld' /\ ModeAgrees'
    BY DEF InOrder, ReqNotHeld, ModeAgrees, Preventing
  <2>5. ScanAgrees'
    BY ScanKept
  <2>6. QED BY <2>1, <2>3, <2>4, <2>5
<1>8. ASSUME NEW t \in Threads, Running, ClearFlag(t) \/ ClearId(t) PROVE IInv'
  <2> USE <1>8 DEF ClearFlag, ClearId, Goto, mutexes, scan, record, client
  <2>1. TypeOK' /\ NoExit'
    <3>1. pc' \in [Threads -> PC]
      BY DEF PC
    <3>2. CASE ClearFlag(t)
      BY <3>1, <3>2
    <3>3. CASE ClearId(t)
      BY <3>1, <3>3
    <3>4. QED BY <3>2, <3>3
  <2>2. \A u \in Threads : req[t] \notin held[u]
    <3>1. req[t] \in Resources /\ mu[req[t]] = t
      BY DEF RecordAgrees, Owns
    <3>2. req[t] \notin held[t]
      BY DEF ReqNotHeld
    <3>3. QED BY <3>1, <3>2 DEF RecordAgrees, Owns
  <2>3. RecordAgrees'
    <3>1. \A u \in Threads, s \in Resources : Owns(u, s)' <=> Owns(u, s)
      BY DEF Owns
    <3>2. \A u \in Threads : pc[u] = "set_id" => req[u] # req[t]
      BY DEF RecordAgrees, Owns
    <3>3. QED BY <2>2, <3>1, <3>2 DEF RecordAgrees, Preventing
  <2>4. InOrder' /\ ReqNotHeld' /\ ModeAgrees'
    BY DEF InOrder, ReqNotHeld, ModeAgrees, Preventing
  <2>5. ScanAgrees'
    BY ScanKept
  <2>6. QED BY <2>1, <2>3, <2>4, <2>5
<1>9. ASSUME NEW t \in Threads, Running, MutexUnlock(t) PROVE IInv'
  <2> USE <1>9 DEF MutexUnlock, Goto, mutexes, scan, record, client
  <2>1. TypeOK' /\ NoExit'
    BY DEF PC
  <2>2. mu[req[t]] = t /\ req[t] \notin held[t]
    <3>1. mu[req[t]] = t
      BY DEF RecordAgrees, Owns
    <3>2. QED BY <3>1 DEF ReqNotHeld
  <2>3. \A u \in Threads : u # t => ~ Owns(u, req[t]) /\ t_id[req[t]] # u
    BY <2>2 DEF RecordAgrees
  <2>4. t_id[req[t]] # t
    BY DEF RecordAgrees
  <2>5. RecordAgrees'
    <3>1. \A u \in Threads, s \in Resources :
            Owns(u, s)' <=> Owns(u, s) /\ s # req[t]
      BY <2>2, <2>3 DEF Owns
    <3>2. \A u \in Threads, s \in Resources :
            mu'[s] = u <=> mu[s] = u /\ s # req[t]
      OBVIOUS
    <3>3. QED BY <2>2, <2>3, <2>4, <3>1, <3>2 DEF RecordAgrees, Preventing, Owns
  <2>6. InOrder' /\ ReqNotHeld' /\ ModeAgrees'
    BY DEF InOrder, ReqNotHeld, ModeAgrees, Preventing
  <2>7. ScanAgrees'
    BY ScanKept
  <2>8. QED BY <2>1, <2>5, <2>6, <2>7
<1>10. ASSUME NEW t \in Threads, Running, Crash(t) PROVE IInv'
  <2> USE <1>10 DEF Crash, Goto, mutexes, scan, record, client
  <2>1. TypeOK' /\ NoExit'
    BY DEF PC
  <2>2. RecordAgrees' /\ InOrder' /\ ReqNotHeld' /\ ModeAgrees'
    BY DEF RecordAgrees, Owns, InOrder, ReqNotHeld, ModeAgrees, Preventing
  <2>3. ScanAgrees'
    BY ScanKept
  <2>4. QED BY <2>1, <2>2, <2>3
<1>11. QED
  BY <1>1, <1>2, <1>3, <1>4, <1>5, <1>6, <1>7, <1>8, <1>9, <1>10, DrmInitIInv,
     DrmDestroyIInv DEF Next, Step

-----------------------------------------------------------------------------
(* The theorems.                                                           *)

\* The variables keep their types, a mutex's record never names a thread that
\* does not own it, EXITERROR is not reached and the lock order is kept
\* (libdrm.c:226-240, 319-325).
THEOREM Invariance == Spec => []IInv
BY InitIInv, StepIInv, PTL DEF Spec

\* Of a set of threads, one asks for the greatest r_id.
LEMMA GreatestRequest ==
  ASSUME req \in [Threads -> Resources], NEW S \in SUBSET Threads, S # {}
  PROVE  \E t \in S : \A u \in S : req[u] <= req[t]
<1> DEFINE T == {N - req[t] : t \in S}
<1>1. \A t \in S : req[t] \in 1 .. N /\ N - req[t] \in Nat
  BY NAssumption DEF Resources
<1>2. T \subseteq Nat /\ T # {}
  BY <1>1
<1>3. PICK x \in T : \A y \in T : x <= y
  BY <1>2, LeastFacts
<1>4. PICK t \in S : x = N - req[t]
  BY <1>3
<1>5. ASSUME NEW u \in S PROVE req[u] <= req[t]
  <2>1. N - req[t] <= N - req[u]
    BY <1>3, <1>4
  <2>2. req[u] \in Nat /\ req[t] \in Nat
    BY <1>1
  <2>3. QED BY <2>1, <2>2, NAssumption
<1>6. QED BY <1>5

\* Deadlock prevention works: threads that sit in pthread_mutex_lock wait for
\* each other in a circle only if one of them waits for itself, or had its scan
\* disturbed by drm_destroy (libdrm.c:228-235, 348-353).
THEOREM DeadlockOnlyByRelock == Spec => []NoDeadlock
<1>1. IInv => NoDeadlock
  <2> SUFFICES ASSUME IInv, NEW S \in SUBSET Threads, Preventing, Deadlocked(S)
               PROVE  \E t \in S : mu[req[t]] = t \/ t \in astray
    BY DEF NoDeadlock
  <2>1. PICK t \in S : \A u \in S : req[u] <= req[t]
    BY GreatestRequest DEF IInv, TypeOK, Deadlocked
  <2> DEFINE u == mu[req[t]]
  <2>2. u \in S /\ pc[u] = "mutex" /\ req[u] \in Resources /\ req[t] \in Resources
    BY DEF Deadlocked, IInv, TypeOK
  <2>3. req[t] \in held[u]
    BY <2>2 DEF IInv, RecordAgrees, Owns
  <2>4. CASE u \notin astray
    <3>1. req[t] <= req[u]
      BY <2>2, <2>3, <2>4 DEF IInv, InOrder
    <3>2. req[u] = req[t]
      BY <2>1, <2>2, <3>1 DEF Resources
    <3>3. QED BY <2>2, <3>2
  <2>5. QED BY <2>2, <2>4
<1>2. QED BY <1>1, Invariance, PTL

\* With prevention and without it, drm_lock and drm_unlock implement a table of
\* exclusive locks, whatever becomes of the mutexes nobody uses meanwhile: the
\* lock is granted after pthread_mutex_lock, and with prevention after the two
\* writes of the record (libdrm.c:218-334).
THEOREM Implements == Spec => Exclusive
<1>1. Init => Locks!Init
  BY DEF Init, Locks!Init
<1>2. IInv /\ [Next]_vars => [Locks!Next]_held
  <2> SUFFICES ASSUME IInv, [Next]_vars, held' # held PROVE Locks!Next
    OBVIOUS
  <2>1. PICK t \in Threads :
          \/ \E r \in Resources : CallUnlock(t, r)
          \/ MutexLock(t) /\ Granted(t)
          \/ SetId(t)
    BY DEF Next, vars, client, Step, DrmInit, DrmDestroy, CallLock, Scan, MutexLock, SetFlag,
           ClearFlag, ClearId, MutexUnlock, MutexLockFails, Crash
  <2>2. CASE \E r \in Resources : CallUnlock(t, r)
    BY <2>2 DEF CallUnlock, Locks!Next, Locks!Release
  <2>3. CASE (MutexLock(t) /\ Granted(t)) \/ SetId(t)
    <3>1. /\ held' = [held EXCEPT ![t] = @ \cup {req[t]}]
          /\ req[t] \in Resources
          /\ \/ pc[t] = "mutex" /\ mu[req[t]] = None
             \/ pc[t] = "set_id"
      BY <2>3 DEF MutexLock, SetId, Granted, IInv, TypeOK
    <3>2. ASSUME NEW u \in Threads, req[t] \in held[u] PROVE FALSE
      <4>1. mu[req[t]] = u
        BY <3>1, <3>2 DEF IInv, RecordAgrees, Owns
      <4>2. pc[t] = "set_id" /\ mu[req[t]] = t
        BY <3>1, <4>1, NoneAssumption DEF IInv, RecordAgrees, Owns
      <4>3. QED BY <3>1, <3>2, <4>1, <4>2 DEF IInv, ReqNotHeld
    <3>3. QED BY <3>1, <3>2 DEF Locks!Next, Locks!Grant
  <2>4. QED BY <2>1, <2>2, <2>3
<1>3. QED BY <1>1, <1>2, Invariance, PTL DEF Spec, Exclusive, Locks!Spec
=============================================================================
