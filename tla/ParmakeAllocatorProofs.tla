------------------------ MODULE ParmakeAllocatorProofs ------------------------
(***************************************************************************)
(* Theorems of two components whose code counts through loops.             *)
(*                                                                         *)
(* mp5's parmake: the inductive invariant of its workers, for every number *)
(* of workers and every sequence of rules; that the parser takes the rules *)
(* that the targets need; and that a run of parmake makes those, each one  *)
(* once.                                                                   *)
(*                                                                         *)
(* mp2's allocator: the inductive invariant of its blocks and lists, for   *)
(* all sizes, that blocks are lost only where a list is full, and that its *)
(* calls are those of Heap.tla.                                            *)
(***************************************************************************)
EXTENDS MakeRun, Allocator, FiniteSetTheorems, SequenceTheorems, WellFoundedInduction, TLAPS

\* The queue without the rule at one of its positions (queue_remove_at).
LEMMA RemovedFacts ==
  ASSUME NEW q \in Seq(Rule), NEW p \in 1 .. Len(q)
  PROVE  [i \in 1 .. Len(q) - 1 |-> q[IF i < p THEN i ELSE i + 1]] \in Seq(Rule)
<1> DEFINE w == [i \in 1 .. Len(q) - 1 |-> q[IF i < p THEN i ELSE i + 1]]
<1>1. \A i \in 1 .. Len(q) - 1 : q[IF i < p THEN i ELSE i + 1] \in Rule
  OBVIOUS
<1>2. w \in [1 .. Len(q) - 1 -> Rule] /\ Len(q) - 1 \in Nat
  BY <1>1
<1>3. QED BY <1>2

\* What is in a queue, and in the queue with one more rule at its end.
LEMMA InFacts ==
  ASSUME NEW q \in Seq(Rule), NEW r \in Rule
  PROVE  In(q) \subseteq Rule /\ In(q) \subseteq In(Append(q, r))
<1>1. ASSUME NEW x \in In(q) PROVE x \in Rule /\ x \in In(Append(q, r))
  <2>1. PICK i \in DOMAIN q : x = q[i]
    BY DEF In
  <2>2. i \in DOMAIN Append(q, r) /\ Append(q, r)[i] = q[i] /\ q[i] \in Rule
    OBVIOUS
  <2>3. QED BY <2>1, <2>2 DEF In
<1>2. QED BY <1>1

\* The invariant holds when the workers start.
LEMMA InitIInv == Init => IInv
<1> SUFFICES ASSUME NEW parsed \in Seq(Rule), InitWith(parsed) PROVE IInv
  BY DEF Init
<1>1. all_targets \in SUBSET Names
  <2>1. ASSUME NEW r \in In(parsed) PROVE r.target \in Names
    <3>1. PICK i \in DOMAIN parsed : r = parsed[i]
      BY DEF In
    <3>2. parsed[i] \in Rule
      OBVIOUS
    <3>3. QED BY <3>1, <3>2 DEF Rule
  <2>2. QED BY <2>1 DEF InitWith
<1>2. TypeOK
  <2>1. new_rules \in Seq(Rule) /\ ready_rules \in Seq(Rule)
    BY DEF InitWith
  <2>2. spurious \in 0 .. Spurious /\ pos \in [Workers -> Nat \ {0}]
    BY SpuriousAssumption DEF InitWith
  <2>3. QED BY <1>1, <2>1, <2>2 DEF InitWith, TypeOK, PC
<1>3. ScanLocked /\ HandAgrees
  BY NoneAssumption DEF InitWith, ScanLocked, HandAgrees, Busy
<1>4. DepsReady /\ CommandsRun /\ SleeperIsWoken
  BY DEF InitWith, DepsReady, CommandsRun, SleeperIsWoken, InHand, Busy
<1>5. ReadyIsSeen
  BY WorkersAssumption DEF InitWith, ReadyIsSeen
<1>6. QED BY <1>2, <1>3, <1>4, <1>5 DEF IInv

\* Every step of a worker keeps the invariant: one step of the proof for each
\* action (parmake.c:276-328).
LEMMA StepIInv == IInv /\ [Next]_vars => IInv'
<1> SUFFICES ASSUME IInv, [Next]_vars PROVE IInv'
  OBVIOUS
<1>a. /\ TypeOK /\ ScanLocked /\ HandAgrees /\ DepsReady /\ CommandsRun
      /\ ReadyIsSeen /\ SleeperIsWoken
  BY DEF IInv
<1> USE DEF Goto, PC
<1>1. ASSUME NEW t \in Workers, Lock(t) PROVE IInv'
  <2>1. /\ pc' = [pc EXCEPT ![t] = "scan"] /\ pos' = [pos EXCEPT ![t] = 1] /\ mutex1' = t
        /\ pc[t] = "lock" /\ mutex1 = None
        /\ UNCHANGED <<new_rules, all_targets, ready_rules, rule_ptr, cmd, spurious, exited>>
    BY <1>1 DEF Lock, rules, work
  <2>2. TypeOK'
    BY <1>a, <2>1 DEF TypeOK
  <2>3. ScanLocked'
    BY <1>a, <2>1, NoneAssumption DEF TypeOK, ScanLocked
  <2>4. HandAgrees'
    BY <1>a, <2>1 DEF TypeOK, HandAgrees, Busy
  <2>5. DepsReady'
    BY <1>a, <2>1 DEF TypeOK, DepsReady, InHand, Busy, is_rule, rule_is_ready
  <2>6. ReadyIsSeen'
    BY <1>a, <2>1 DEF TypeOK, ReadyIsSeen, Runnable, deps_are_ready, Busy, is_rule, rule_is_ready
  <2>7. SleeperIsWoken'
    BY <1>a, <2>1 DEF TypeOK, SleeperIsWoken, InHand, Busy
  <2>8. CommandsRun'
    BY <1>a, <2>1 DEF TypeOK, CommandsRun, UpToDate, all_deps_are_files, is_rule
  <2>9. QED BY <2>2, <2>3, <2>4, <2>5, <2>6, <2>7, <2>8 DEF IInv
<1>2. ASSUME NEW t \in Workers, Fetch(t) PROVE IInv'
  <2>1. PICK rule \in In(new_rules) :
          /\ At(t, rule) /\ deps_are_ready(rule.deps)
          /\ new_rules' = [i \in 1 .. Len(new_rules) - 1 |->
                             new_rules[IF i < pos[t] THEN i ELSE i + 1]]
          /\ mutex1' = None
          /\ rule_ptr' = [rule_ptr EXCEPT ![t] = rule]
          /\ cmd' = [cmd EXCEPT ![t] = 0]
          /\ pc' = [pc EXCEPT ![t] = IF UpToDate(rule) THEN "finish" ELSE "run"]
          /\ UNCHANGED <<all_targets, ready_rules, pos, spurious, exited>>
    BY <1>2 DEF Fetch
  <2>2. rule \in Rule /\ pc[t] = "scan" /\ pos[t] \in 1 .. Len(new_rules) /\ mutex1 = t
    BY <1>a, <2>1 DEF TypeOK, In, At, ScanLocked
  <2>3. pc'[t] \in Busy /\ \A u \in Workers \ {t} : pc'[u] = pc[u]
    BY <1>a, <2>1 DEF TypeOK, Busy
  <2>4. new_rules' \in Seq(Rule)
    BY <1>a, <2>1, <2>2, RemovedFacts DEF TypeOK
  <2>5. TypeOK'
    BY <1>a, <2>1, <2>2, <2>4 DEF TypeOK
  <2>6. ScanLocked'
    BY <1>a, <2>1, <2>2, <2>3, NoneAssumption DEF TypeOK, ScanLocked, Busy
  <2>7. HandAgrees'
    <3>1. \A u \in Workers : pc'[u] \in Busy <=> rule_ptr'[u] # None
      BY <1>a, <2>1, <2>2, <2>3, NoneAssumption DEF TypeOK, HandAgrees
    <3>2. \A u \in Workers : pc'[u] # "ended"
      <4>1. new_rules # <<>>
        BY <2>2
      <4>2. QED BY <1>a, <2>3, <4>1 DEF HandAgrees, Busy
    <3>3. QED BY <3>1, <3>2 DEF HandAgrees
  <2>8. DepsReady'
    BY <1>a, <2>1, <2>2, <2>3 DEF TypeOK, DepsReady, InHand, deps_are_ready, is_rule, rule_is_ready
  <2>9. ReadyIsSeen' /\ SleeperIsWoken'
    BY <2>3 DEF ReadyIsSeen, SleeperIsWoken, InHand
  <2>10. CommandsRun'
    BY <1>a, <2>1, <2>2, <2>3
       DEF TypeOK, CommandsRun, UpToDate, all_deps_are_files, is_rule
  <2>11. QED BY <2>5, <2>6, <2>7, <2>8, <2>9, <2>10 DEF IInv
<1>3. ASSUME NEW t \in Workers, Pass(t) PROVE IInv'
  <2>1. PICK rule \in In(new_rules) :
          /\ At(t, rule) /\ ~ deps_are_ready(rule.deps)
          /\ pos' = [pos EXCEPT ![t] = @ + 1]
          /\ UNCHANGED <<new_rules, all_targets, ready_rules, mutex1, pc, rule_ptr, cmd,
                         spurious, exited>>
    BY <1>3 DEF Pass, rules, work
  <2>2. pos[t] \in DOMAIN new_rules /\ ~ Runnable(pos[t]) /\ pc[t] = "scan"
    BY <2>1 DEF At, Runnable
  <2>3. TypeOK'
    BY <1>a, <2>1 DEF TypeOK
  <2>4. ScanLocked' /\ HandAgrees'
    BY <1>a, <2>1 DEF ScanLocked, HandAgrees
  <2>5. DepsReady' /\ SleeperIsWoken'
    BY <1>a, <2>1 DEF DepsReady, SleeperIsWoken, InHand, is_rule, rule_is_ready
  <2>6. ReadyIsSeen'
    <3> SUFFICES ASSUME NEW i \in DOMAIN new_rules, Runnable(i)
                 PROVE  \E u \in Workers : \/ pc[u] \in Busy \cup {"lock"}
                                           \/ pc[u] = "scan" /\ pos'[u] <= i
      BY <2>1 DEF ReadyIsSeen, Runnable, deps_are_ready, is_rule, rule_is_ready
    <3>1. PICK u \in Workers : \/ pc[u] \in Busy \cup {"lock"}
                               \/ pc[u] = "scan" /\ pos[u] <= i
      BY <1>a DEF ReadyIsSeen
    <3>2. i \in Nat /\ pos[t] \in Nat /\ i # pos[t]
      BY <1>a, <2>2 DEF TypeOK
    <3>3. QED BY <1>a, <2>1, <3>1, <3>2 DEF TypeOK
  <2>7. CommandsRun'
    BY <1>a, <2>1 DEF CommandsRun, UpToDate, all_deps_are_files, is_rule
  <2>8. QED BY <2>3, <2>4, <2>5, <2>6, <2>7 DEF IInv
<1>4. ASSUME NEW t \in Workers, Nothing(t) PROVE IInv'
  <2>1. /\ pc[t] = "scan" /\ pos[t] > Len(new_rules) /\ mutex1' = None
        /\ pc' = [pc EXCEPT ![t] = IF Len(new_rules) > 0 THEN "wait" ELSE "ended"]
        /\ UNCHANGED <<new_rules, all_targets, ready_rules, pos, rule_ptr, cmd, spurious, exited>>
    BY <1>4 DEF Nothing, rules, work
  <2>2. mutex1 = t /\ \A u \in Workers \ {t} : pc'[u] = pc[u]
    BY <1>a, <2>1 DEF TypeOK, ScanLocked
  <2>3. TypeOK'
    BY <1>a, <2>1 DEF TypeOK
  <2>4. ScanLocked'
    BY <1>a, <2>1, <2>2, NoneAssumption DEF TypeOK, ScanLocked
  <2>5. HandAgrees'
    BY <1>a, <2>1 DEF TypeOK, HandAgrees, Busy
  <2>6. DepsReady'
    BY <1>a, <2>1 DEF TypeOK, DepsReady, InHand, Busy, is_rule, rule_is_ready
  <2>7. ReadyIsSeen'
    <3> SUFFICES ASSUME NEW i \in DOMAIN new_rules, Runnable(i)
                 PROVE  \E u \in Workers : \/ pc'[u] \in Busy \cup {"lock"}
                                           \/ pc'[u] = "scan" /\ pos[u] <= i
      BY <2>1 DEF ReadyIsSeen, Runnable, deps_are_ready, is_rule, rule_is_ready
    <3>1. PICK u \in Workers : \/ pc[u] \in Busy \cup {"lock"}
                               \/ pc[u] = "scan" /\ pos[u] <= i
      BY <1>a DEF ReadyIsSeen
    <3>2. u # t
      <4>1. i <= Len(new_rules) /\ i \in Nat /\ pos[t] \in Nat
        BY <1>a DEF TypeOK
      <4>2. QED BY <1>a, <2>1, <3>1, <4>1 DEF Busy, TypeOK
    <3>3. QED BY <2>2, <3>1, <3>2
  <2>8. SleeperIsWoken'
    <3>1. CASE new_rules = <<>>
      <4>1. pc' = [pc EXCEPT ![t] = "ended"]
        BY <2>1, <3>1
      <4>2. QED BY <1>a, <2>1, <3>1, <4>1 DEF TypeOK, SleeperIsWoken, InHand, Busy
    <3>2. CASE new_rules # <<>>
      BY <2>1, <3>2 DEF SleeperIsWoken
    <3>3. QED BY <3>1, <3>2
  <2>9. CommandsRun'
    BY <1>a, <2>1 DEF TypeOK, CommandsRun, UpToDate, all_deps_are_files, is_rule
  <2>10. QED BY <2>3, <2>4, <2>5, <2>6, <2>7, <2>8, <2>9 DEF IInv
<1>5. ASSUME NEW t \in Workers, SpuriousWake(t) PROVE IInv'
  <2>1. /\ pc[t] = "wait" /\ pc' = [pc EXCEPT ![t] = "lock"] /\ spurious' = spurious + 1
        /\ spurious < Spurious
        /\ UNCHANGED <<new_rules, all_targets, ready_rules, mutex1, pos, rule_ptr, cmd, exited>>
    BY <1>5 DEF SpuriousWake, rules, work
  <2>2. TypeOK'
    BY <1>a, <2>1, SpuriousAssumption DEF TypeOK
  <2>3. ScanLocked' /\ HandAgrees'
    BY <1>a, <2>1 DEF TypeOK, ScanLocked, HandAgrees, Busy
  <2>4. DepsReady' /\ SleeperIsWoken'
    BY <1>a, <2>1 DEF TypeOK, DepsReady, SleeperIsWoken, InHand, Busy, is_rule, rule_is_ready
  <2>5. ReadyIsSeen'
    BY <1>a, <2>1 DEF TypeOK, ReadyIsSeen
  <2>6. CommandsRun'
    BY <1>a, <2>1 DEF TypeOK, CommandsRun, UpToDate, all_deps_are_files, is_rule
  <2>7. QED BY <2>2, <2>3, <2>4, <2>5, <2>6 DEF IInv
<1>6. ASSUME NEW t \in Workers, RunCommand(t) \/ CommandFails(t) \/ FileMissing(t) PROVE IInv'
  <2>1. /\ UNCHANGED <<new_rules, all_targets, ready_rules, mutex1, pc, pos, rule_ptr, spurious>>
        /\ cmd' \in [Workers -> Nat] /\ exited' \in BOOLEAN
        /\ \A u \in Workers : pc[u] = "finish" => cmd'[u] = cmd[u]
    <3>1. CASE RunCommand(t)
      BY <1>a, <3>1 DEF TypeOK, RunCommand, rules
    <3>2. CASE CommandFails(t)
      BY <1>a, <3>2 DEF TypeOK, CommandFails, rules, work
    <3>3. CASE FileMissing(t)
      BY <1>a, <3>3 DEF TypeOK, FileMissing, rules, work
    <3>4. QED BY <1>6, <3>1, <3>2, <3>3
  <2>2. TypeOK'
    BY <1>a, <2>1 DEF TypeOK
  <2>3. ScanLocked' /\ HandAgrees' /\ DepsReady' /\ SleeperIsWoken'
    BY <1>a, <2>1 DEF ScanLocked, HandAgrees, DepsReady, SleeperIsWoken, InHand,
                      is_rule, rule_is_ready
  <2>4. ReadyIsSeen'
    BY <1>a, <2>1 DEF ReadyIsSeen, Runnable, deps_are_ready, is_rule, rule_is_ready
  <2>5. CommandsRun'
    BY <1>a, <2>1 DEF CommandsRun, UpToDate, all_deps_are_files, is_rule
  <2>6. QED BY <2>2, <2>3, <2>4, <2>5 DEF IInv
<1>7. ASSUME NEW t \in Workers, CommandsDone(t) PROVE IInv'
  <2>1. /\ pc[t] = "run" /\ pc' = [pc EXCEPT ![t] = "finish"]
        /\ cmd[t] = rule_ptr[t].commands
        /\ UNCHANGED <<new_rules, all_targets, ready_rules, mutex1, pos, rule_ptr, cmd,
                       spurious, exited>>
    BY <1>7 DEF CommandsDone, rules, work
  <2>2. TypeOK'
    BY <1>a, <2>1 DEF TypeOK
  <2>3. ScanLocked' /\ HandAgrees'
    BY <1>a, <2>1 DEF TypeOK, ScanLocked, HandAgrees, Busy
  <2>4. InHand' = InHand
    BY <1>a, <2>1 DEF TypeOK, InHand, Busy
  <2>5. DepsReady'
    BY <1>a, <2>1, <2>4 DEF DepsReady, is_rule, rule_is_ready
  <2>6. ReadyIsSeen' /\ SleeperIsWoken'
    <3>1. t \in Workers /\ pc'[t] \in Busy
      BY <1>a, <2>1 DEF TypeOK, Busy
    <3>2. QED BY <3>1 DEF ReadyIsSeen, SleeperIsWoken, InHand
  <2>7. CommandsRun'
    BY <1>a, <2>1 DEF TypeOK, CommandsRun, UpToDate, all_deps_are_files, is_rule
  <2>8. QED BY <2>2, <2>3, <2>5, <2>6, <2>7 DEF IInv
<1>8. ASSUME NEW t \in Workers, Finish(t) PROVE IInv'
  <2>1. /\ pc[t] = "finish" /\ ready_rules' = Append(ready_rules, rule_ptr[t])
        /\ rule_ptr' = [rule_ptr EXCEPT ![t] = None]
        /\ pc' = [u \in Workers |-> IF u = t \/ pc[u] = "wait" THEN "lock" ELSE pc[u]]
        /\ UNCHANGED <<new_rules, all_targets, mutex1, pos, cmd, spurious, exited>>
    BY <1>8 DEF Finish
  <2>2. rule_ptr[t] \in Rule
    BY <1>a, <2>1 DEF TypeOK, HandAgrees, Busy
  <2>3. TypeOK'
    BY <1>a, <2>1, <2>2 DEF TypeOK
  <2>4. ScanLocked' /\ HandAgrees'
    BY <1>a, <2>1 DEF TypeOK, ScanLocked, HandAgrees, Busy
  <2>5. DepsReady'
    <3>1. \A name : rule_is_ready(name) => rule_is_ready(name)'
      <4>1. In(ready_rules) \subseteq In(ready_rules)'
        <5>1. ready_rules \in Seq(Rule)
          BY <1>a DEF TypeOK
        <5>2. In(ready_rules) \subseteq In(Append(ready_rules, rule_ptr[t]))
          BY <2>2, <5>1, InFacts
        <5>3. QED BY <2>1, <5>2 DEF In
      <4>2. QED BY <4>1 DEF rule_is_ready
    <3>2. \A u \in InHand' : u \in InHand /\ rule_ptr'[u] = rule_ptr[u]
      BY <1>a, <2>1 DEF TypeOK, InHand, Busy
    <3>3. QED BY <1>a, <2>1, <3>1, <3>2 DEF DepsReady, is_rule
  <2>6. ReadyIsSeen' /\ SleeperIsWoken'
    BY <2>1 DEF ReadyIsSeen, SleeperIsWoken
  <2>7. CommandsRun'
    BY <1>a, <2>1 DEF TypeOK, CommandsRun, UpToDate, all_deps_are_files, is_rule
  <2>8. QED BY <2>3, <2>4, <2>5, <2>6, <2>7 DEF IInv
<1>9. ASSUME UNCHANGED vars PROVE IInv'
  <2>1. UNCHANGED <<new_rules, all_targets, ready_rules, mutex1, pc, pos, rule_ptr, cmd,
                    spurious, exited>>
    BY <1>9 DEF vars
  <2>2. TypeOK' /\ ScanLocked' /\ HandAgrees'
    BY <1>a, <2>1 DEF TypeOK, ScanLocked, HandAgrees
  <2>3. DepsReady' /\ SleeperIsWoken'
    BY <1>a, <2>1 DEF DepsReady, SleeperIsWoken, InHand, is_rule, rule_is_ready
  <2>4. ReadyIsSeen'
    BY <1>a, <2>1 DEF ReadyIsSeen, Runnable, deps_are_ready, is_rule, rule_is_ready
  <2>5. CommandsRun'
    BY <1>a, <2>1 DEF CommandsRun, UpToDate, all_deps_are_files, is_rule
  <2>6. QED BY <2>2, <2>3, <2>4, <2>5 DEF IInv
<1>10. QED
  BY <1>1, <1>2, <1>3, <1>4, <1>5, <1>6, <1>7, <1>8, <1>9 DEF Next, Step

\* The types hold, a rule is taken only when each of its dependencies with a rule
\* has one that is done, and is done only when its commands have succeeded; a rule
\* that can run is always seen by a worker that is awake, and no worker sleeps for
\* ever (parmake.c:276-328).
THEOREM Invariance == Spec => []IInv
BY InitIInv, StepIInv, PTL DEF Spec

\* The broadcast that a worker can miss, because it is made without mutex1,
\* never leaves a rule that can run without a worker to run it
\* (parmake.c:285-288, 318-321).
THEOREM NoForgottenRule == Spec => []ReadyIsSeen
BY Invariance, PTL DEF IInv
-----------------------------------------------------------------------------
(* Induction and recursion up to a number.                                 *)

\* What holds of 0 and of each number after one it holds of.
LEMMA CountUp ==
  ASSUME NEW n \in Nat, NEW P, 0 \in P, \A k \in 1 .. n : k - 1 \in P => k \in P
  PROVE  \A k \in 0 .. n : k \in P
<1> DEFINE B == (0 .. n) \ P
<1>1. SUFFICES ASSUME B # {} PROVE FALSE
  OBVIOUS
<1>2. PICK k \in B : \A j \in B : ~ (<<j, k>> \in OpToRel(<, Nat))
  <2>1. B \subseteq Nat
    OBVIOUS
  <2> HIDE DEF B
  <2>2. QED BY <1>1, <2>1, NatLessThanWellFounded, WFMin
<1>3. k \in 1 .. n /\ k - 1 \in 0 .. n
  <2>1. k \in 0 .. n /\ k # 0
    BY <1>2
  <2>2. QED BY <2>1
<1>4. <<k - 1, k>> \in OpToRel(<, Nat)
  <2>1. k - 1 \in Nat /\ k \in Nat /\ k - 1 < k
    BY <1>3
  <2>2. <<k - 1, k>> \in {ss \in Nat \X Nat : ss[1] < ss[2]}
    BY <2>1
  <2>3. QED BY <2>2 DEF OpToRel
<1>5. QED BY <1>2, <1>3, <1>4

\* A greatest element is the one that Max chooses.
LEMMA MaxFacts ==
  ASSUME NEW s, NEW m \in s, m \in Int, \A x \in s : x \in Int /\ x <= m
  PROVE  Max(s) = m
<1>1. \A x \in s : m >= x
  OBVIOUS
<1>2. \A y \in s : (\A x \in s : y >= x) => y = m
  OBVIOUS
<1>3. QED BY <1>1, <1>2 DEF Max

\* A set of positions that is not empty has a greatest.
LEMMA MaxIn ==
  ASSUME NEW n \in Nat, NEW s \in SUBSET (1 .. n), s # {}
  PROVE  Max(s) \in 1 .. n /\ Max(s) \in s
<1> DEFINE P == {k \in 0 .. n : \A t \in SUBSET (1 .. k) : t # {} => \E m \in t : Max(t) = m}
<1>1. 0 \in P
  <2>1. ASSUME NEW t \in SUBSET (1 .. 0), t # {} PROVE \E m \in t : Max(t) = m
    <3>1. t = {}
      OBVIOUS
    <3>2. QED BY <2>1, <3>1
  <2>2. 0 \in 0 .. n
    OBVIOUS
  <2>3. QED BY <2>1, <2>2
<1>2. ASSUME NEW k \in 1 .. n, k - 1 \in P PROVE k \in P
  <2>1. ASSUME NEW t \in SUBSET (1 .. k), t # {} PROVE \E m \in t : Max(t) = m
    <3>1. CASE k \in t
      <4>1. k \in Int /\ \A x \in t : x \in Int /\ x <= k
        OBVIOUS
      <4>2. Max(t) = k
        BY <3>1, <4>1, MaxFacts
      <4>3. QED BY <3>1, <4>2
    <3>2. CASE k \notin t
      <4>1. t \in SUBSET (1 .. k - 1)
        BY <3>2
      <4>2. QED BY <1>2, <2>1, <4>1
    <3>3. QED BY <3>1, <3>2
  <2>2. QED BY <2>1
<1>3. n \in P
  <2> HIDE DEF P
  <2>1. QED BY <1>1, <1>2, CountUp
<1>4. QED BY <1>3

\* It is what a fold from the last item to the first computes of each set of
\* positions, with F for what is done with an item.
IsFold(n, base, F, it) ==
  it = [s \in SUBSET (1 .. n) |-> IF s = {} THEN base ELSE F[<<Max(s), it[s \ {Max(s)}]>>]]

\* There is one.
LEMMA FoldExists ==
  ASSUME NEW n \in Nat, NEW St, NEW base \in St, NEW F \in [(1 .. n) \X St -> St]
  PROVE  \E it \in [SUBSET (1 .. n) -> St] : IsFold(n, base, F, it)
<1> DEFINE P == {k \in 0 .. n : \E it \in [SUBSET (1 .. k) -> St] : IsFold(k, base, F, it)}
<1>1. 0 \in P
  <2> DEFINE it == [s \in SUBSET (1 .. 0) |-> base]
  <2>1. \A s \in SUBSET (1 .. 0) : s = {}
    OBVIOUS
  <2>2. it \in [SUBSET (1 .. 0) -> St]
    OBVIOUS
  <2>3. IsFold(0, base, F, it)
    BY <2>1 DEF IsFold
  <2> HIDE DEF it
  <2>4. \E h \in [SUBSET (1 .. 0) -> St] : IsFold(0, base, F, h)
    BY <2>2, <2>3
  <2>5. 0 \in 0 .. n
    OBVIOUS
  <2>6. QED BY <2>4, <2>5
<1>2. ASSUME NEW k \in 1 .. n, k - 1 \in P PROVE k \in P
  <2> DEFINE R == 1 .. k - 1
             K == 1 .. k
  <2>1. PICK it \in [SUBSET R -> St] : IsFold(k - 1, base, F, it)
    BY <1>2
  <2>2. \A s \in SUBSET R : it[s] = IF s = {} THEN base ELSE F[<<Max(s), it[s \ {Max(s)}]>>]
    BY <2>1 DEF IsFold
  <2> DEFINE new == [s \in SUBSET K |-> IF k \in s THEN F[<<k, it[s \ {k}]>>] ELSE it[s]]
  <2>3. \A s \in SUBSET K : s \ {k} \in SUBSET R /\ (k \notin s => s \in SUBSET R)
    OBVIOUS
  <2>4. new \in [SUBSET K -> St]
    <3>1. ASSUME NEW s \in SUBSET K PROVE new[s] \in St
      <4>1. CASE k \in s
        <5>1. it[s \ {k}] \in St /\ new[s] = F[<<k, it[s \ {k}]>>]
          BY <2>3, <4>1
        <5>2. <<k, it[s \ {k}]>> \in (1 .. n) \X St
          BY <5>1
        <5> HIDE DEF new
        <5>3. QED BY <5>1, <5>2
      <4>2. CASE k \notin s
        BY <2>3, <4>2
      <4>3. QED BY <4>1, <4>2
    <3>2. QED BY <3>1
  <2>5. ASSUME NEW s \in SUBSET K
        PROVE  new[s] = IF s = {} THEN base ELSE F[<<Max(s), new[s \ {Max(s)}]>>]
    <3>1. CASE k \in s
      <4>1. Max(s) = k
        <5>1. k \in Int /\ \A x \in s : x \in Int /\ x <= k
          OBVIOUS
        <5>2. QED BY <3>1, <5>1, MaxFacts
      <4>2. s \ {k} \in SUBSET K /\ k \notin s \ {k}
        OBVIOUS
      <4>3. new[s] = F[<<k, it[s \ {k}]>>] /\ new[s \ {k}] = it[s \ {k}]
        BY <3>1, <4>2
      <4> HIDE DEF new
      <4>4. QED BY <3>1, <4>1, <4>3
    <3>2. CASE s = {}
      BY <2>2, <2>3, <3>2
    <3>3. CASE k \notin s /\ s # {}
      <4> DEFINE m == Max(s)
      <4>1. s \in SUBSET R /\ s \ {m} \in SUBSET R /\ s \ {m} \in SUBSET K /\ k \notin s \ {m}
        BY <2>3, <3>3
      <4>2. it[s] = F[<<m, it[s \ {m}]>>]
        BY <2>2, <3>3, <4>1
      <4>3. new[s] = it[s] /\ new[s \ {m}] = it[s \ {m}]
        BY <3>3, <4>1
      <4> HIDE DEF new
      <4>4. QED BY <3>3, <4>2, <4>3 DEF m
    <3>4. QED BY <3>1, <3>2, <3>3
  <2>6. IsFold(k, base, F, new)
    <3>1. new = [s \in SUBSET K |-> new[s]]
      OBVIOUS
    <3> HIDE DEF new
    <3>2. [s \in SUBSET K |-> new[s]]
            = [s \in SUBSET K |-> IF s = {} THEN base ELSE F[<<Max(s), new[s \ {Max(s)}]>>]]
      BY <2>5
    <3>3. QED BY <3>1, <3>2 DEF IsFold
  <2> HIDE DEF new
  <2>7. QED BY <2>4, <2>6
<1> HIDE DEF P
<1>3. n \in P
  BY <1>1, <1>2, CountUp
<1>4. QED BY <1>3 DEF P

\* The states of a fold over the positions up to k, for each k.
IsChain(n, base, F, g, last) ==
  /\ g[0] = base /\ g[n] = last
  /\ \A k \in 1 .. n : g[k] = F[<<k, g[k - 1]>>]

\* What computes as F does where it is applied to a state has such states.
FoldsLike(n, St, base, F, it) ==
  \A s \in SUBSET (1 .. n) :
    /\ s = {} => it[s] = base
    /\ s # {} /\ it[s \ {Max(s)}] \in St => it[s] = F[<<Max(s), it[s \ {Max(s)}]>>]

\* So the fold of the community modules, which takes the positions from the last
\* to the first, goes through the states of a fold from the first to the last.
LEMMA ChainOfFold ==
  ASSUME NEW n \in Nat, NEW St, NEW base \in St, NEW F \in [(1 .. n) \X St -> St],
         NEW it, FoldsLike(n, St, base, F, it)
  PROVE  \E g \in [0 .. n -> St] : IsChain(n, base, F, g, it[1 .. n])
<1> DEFINE g == [k \in 0 .. n |-> it[1 .. k]]
           P == {k \in 0 .. n : g[k] \in St}
<1>1. g[0] = base
  <2>1. 1 .. 0 = {} /\ {} \in SUBSET (1 .. n)
    OBVIOUS
  <2>2. it[{}] = base
    BY <2>1 DEF FoldsLike
  <2>3. g[0] = it[1 .. 0]
    OBVIOUS
  <2> HIDE DEF g
  <2>4. QED BY <2>1, <2>2, <2>3
<1>2. ASSUME NEW k \in 1 .. n, g[k - 1] \in St PROVE g[k] = F[<<k, g[k - 1]>>]
  <2>1. Max(1 .. k) = k
    <3>1. k \in 1 .. k /\ k \in Int /\ \A x \in 1 .. k : x \in Int /\ x <= k
      OBVIOUS
    <3>2. QED BY <3>1, MaxFacts
  <2>2. 1 .. k \in SUBSET (1 .. n) /\ 1 .. k # {} /\ (1 .. k) \ {k} = 1 .. (k - 1)
    OBVIOUS
  <2>3. g[k] = it[1 .. k] /\ g[k - 1] = it[1 .. (k - 1)]
    OBVIOUS
  <2> HIDE DEF g
  <2>4. it[1 .. k] = F[<<k, it[1 .. (k - 1)]>>]
    <3> DEFINE s == 1 .. k
               m == Max(s)
    <3>1. s \in SUBSET (1 .. n) /\ s # {} /\ it[s \ {m}] \in St
      BY <1>2, <2>1, <2>2, <2>3
    <3>2. it[s] = F[<<m, it[s \ {m}]>>]
      <4> HIDE DEF s
      <4>1. QED BY <3>1 DEF FoldsLike, m
    <3>3. m = k /\ s \ {m} = 1 .. (k - 1)
      BY <2>1, <2>2
    <3> HIDE DEF m
    <3>4. QED BY <3>2, <3>3
  <2>5. QED BY <2>3, <2>4
<1> HIDE DEF g
<1>3. 0 \in P
  BY <1>1
<1>4. ASSUME NEW k \in 1 .. n, k - 1 \in P PROVE k \in P
  <2>1. g[k - 1] \in St
    BY <1>4
  <2>2. <<k, g[k - 1]>> \in (1 .. n) \X St
    BY <2>1
  <2>3. F[<<k, g[k - 1]>>] \in St
    BY <2>2
  <2>4. QED BY <1>2, <2>1, <2>3
<1>5. \A k \in 0 .. n : g[k] \in St
  <2>1. \A k \in 0 .. n : k \in P
    <3> HIDE DEF P
    <3>1. QED BY <1>3, <1>4, CountUp
  <2>2. QED BY <2>1
<1>6. g \in [0 .. n -> St] /\ g[n] = it[1 .. n]
  BY <1>5 DEF g
<1>7. IsChain(n, base, F, g, it[1 .. n])
  <2>1. \A k \in 1 .. n : k - 1 \in 0 .. n
    OBVIOUS
  <2>2. QED BY <1>1, <1>2, <1>5, <1>6, <2>1 DEF IsChain
<1>8. QED BY <1>6, <1>7

\* What is repeated n times has its n states.
LEMMA ChainExists ==
  ASSUME NEW n \in Nat, NEW St, NEW base \in St, NEW F \in [(1 .. n) \X St -> St]
  PROVE  \E g \in [0 .. n -> St] : \E last : IsChain(n, base, F, g, last)
<1>1. PICK it \in [SUBSET (1 .. n) -> St] : IsFold(n, base, F, it)
  BY FoldExists
<1>2. FoldsLike(n, St, base, F, it)
  BY <1>1 DEF IsFold, FoldsLike
<1>3. QED BY <1>2, ChainOfFold

-----------------------------------------------------------------------------
(* What the parser hands over.                                             *)

\* The set of the items of a sequence, and of the sequence with one more.
LEMMA ToSetFacts ==
  ASSUME NEW T, NEW q \in Seq(T), NEW x \in T
  PROVE  /\ ToSet(q) \subseteq T
         /\ ToSet(Append(q, x)) = ToSet(q) \cup {x}
         /\ Len(q) = 0 => ToSet(q) = {}
         /\ Append(q, x) \in Seq(T) /\ Len(Append(q, x)) = Len(q) + 1 /\ Len(q) \in Nat
<1>1. ToSet(q) \subseteq T /\ (Len(q) = 0 => ToSet(q) = {})
  BY DEF ToSet
<1>2. ToSet(Append(q, x)) \subseteq ToSet(q) \cup {x}
  BY DEF ToSet
<1>3. ToSet(q) \cup {x} \subseteq ToSet(Append(q, x))
  <2>1. x \in ToSet(Append(q, x))
    <3>1. Len(q) + 1 \in DOMAIN Append(q, x) /\ Append(q, x)[Len(q) + 1] = x
      OBVIOUS
    <3>2. QED BY <3>1 DEF ToSet
  <2>2. ASSUME NEW i \in DOMAIN q PROVE q[i] \in ToSet(Append(q, x))
    <3>1. i \in DOMAIN Append(q, x) /\ Append(q, x)[i] = q[i]
      OBVIOUS
    <3>2. QED BY <3>1 DEF ToSet
  <2>3. QED BY <2>1, <2>2 DEF ToSet
<1>4. QED BY <1>1, <1>2, <1>3

\* The sequences of a sequence of sequences, one after the other.
Cat(x, y) == x \o y

FlatIter(n, q, it) == it = [i \in 1 .. n |-> IF i = 1 THEN q[i] ELSE Cat(it[i - 1], q[i])]

\* FlattenSeq is the last item of a function defined by recursion.
LEMMA FlattenUnfold ==
  ASSUME NEW q, Len(q) # 0
  PROVE  FlattenSeq(q) = (CHOOSE it : FlatIter(Len(q), q, it))[Len(q)]
BY DEF FlattenSeq, FlatIter, Cat

\* A set that concatenation does not leave has what its members make together:
\* the function that FlattenSeq chooses exists.
LEMMA FlatIterFacts ==
  ASSUME NEW n \in Nat, n # 0, NEW S, NEW e \in S, \A x \in S : Cat(e, x) = x,
         \A x, y \in S : Cat(x, y) \in S, NEW q, \A i \in 1 .. n : q[i] \in S
  PROVE  (CHOOSE it : FlatIter(n, q, it))[n] \in S
<1> DEFINE F == [p \in (1 .. n) \X S |-> Cat(p[2], q[p[1]])]
<1>1. F \in [(1 .. n) \X S -> S]
  <2>1. ASSUME NEW p \in (1 .. n) \X S PROVE Cat(p[2], q[p[1]]) \in S
    <3>1. p[2] \in S /\ q[p[1]] \in S
      OBVIOUS
    <3>2. QED BY <3>1
  <2>2. QED BY <2>1
<1>2. PICK g \in [0 .. n -> S] : \E last : IsChain(n, e, F, g, last)
  <2> HIDE DEF F
  <2>1. QED BY <1>1, ChainExists
<1>3. ASSUME NEW k \in 1 .. n PROVE g[k] = Cat(g[k - 1], q[k])
  <2>1. k - 1 \in 0 .. n
    OBVIOUS
  <2>2. <<k, g[k - 1]>> \in (1 .. n) \X S
    BY <2>1
  <2>3. F[<<k, g[k - 1]>>] = Cat(g[k - 1], q[k])
    BY <2>2
  <2> HIDE DEF F
  <2>4. QED BY <1>2, <2>3 DEF IsChain
<1> HIDE DEF F
<1> DEFINE f == [i \in 1 .. n |-> g[i]]
<1>4. ASSUME NEW i \in 1 .. n PROVE f[i] = IF i = 1 THEN q[i] ELSE Cat(f[i - 1], q[i])
  <2>1. CASE i = 1
    <3>1. g[1] = Cat(g[1 - 1], q[1]) /\ 1 - 1 = 0
      BY <1>3, <2>1
    <3>2. g[1] = q[1]
      BY <1>2, <2>1, <3>1 DEF IsChain
    <3>3. QED BY <2>1, <3>2
  <2>2. CASE i # 1
    <3>1. i - 1 \in 1 .. n
      BY <2>2
    <3>2. QED BY <1>3, <2>2, <3>1
  <2>3. QED BY <2>1, <2>2
<1>5. FlatIter(n, q, f)
  <2>1. f = [i \in 1 .. n |-> f[i]]
    OBVIOUS
  <2> HIDE DEF f
  <2>2. [i \in 1 .. n |-> f[i]] = [i \in 1 .. n |-> IF i = 1 THEN q[i] ELSE Cat(f[i - 1], q[i])]
    BY <1>4
  <2>3. QED BY <2>1, <2>2 DEF FlatIter
<1> HIDE DEF f
<1> DEFINE it == CHOOSE h : FlatIter(n, q, h)
<1>6. FlatIter(n, q, it)
  BY <1>5
<1> HIDE DEF it
<1>7. \A i \in 1 .. n : it[i] = IF i = 1 THEN q[i] ELSE Cat(it[i - 1], q[i])
  BY <1>6 DEF FlatIter
<1> DEFINE P == {k \in 0 .. n : k = 0 \/ it[k] \in S}
<1>8. 0 \in P
  OBVIOUS
<1>9. ASSUME NEW k \in 1 .. n, k - 1 \in P PROVE k \in P
  <2>1. CASE k = 1
    BY <1>7, <2>1
  <2>2. CASE k # 1
    <3>1. it[k - 1] \in S /\ q[k] \in S /\ it[k] = Cat(it[k - 1], q[k])
      BY <1>7, <1>9, <2>2
    <3>2. QED BY <3>1
  <2>3. QED BY <2>1, <2>2
<1>10. n \in P
  <2> HIDE DEF P
  <2>1. QED BY <1>8, <1>9, CountUp
<1>11. QED BY <1>10 DEF it

\* The sequences of a sequence of sequences over T make one over T.
LEMMA FlattenType ==
  ASSUME NEW T, NEW q \in Seq(Seq(T))
  PROVE  FlattenSeq(q) \in Seq(T)
<1>1. Len(q) \in Nat /\ \A i \in 1 .. Len(q) : q[i] \in Seq(T)
  OBVIOUS
<1>2. CASE Len(q) = 0
  <2>1. q = << >> /\ q \in Seq(T)
    BY <1>2
  <2>2. FlattenSeq(q) = q
    BY <1>2 DEF FlattenSeq
  <2>3. QED BY <2>1, <2>2
<1>3. CASE Len(q) # 0
  <2> DEFINE S == Seq(T)
             n == Len(q)
             e == << >>
  <2>1. /\ e \in S /\ \A x \in S : Cat(e, x) = x
        /\ \A x, y \in S : Cat(x, y) \in S
    BY DEF Cat
  <2>2. (CHOOSE it : FlatIter(n, q, it))[n] \in S
    <3>1. n \in Nat /\ n # 0 /\ \A i \in 1 .. n : q[i] \in S
      BY <1>1, <1>3
    <3> HIDE DEF n, S, e
    <3>2. QED BY <2>1, <3>1, FlatIterFacts
  <2>3. QED BY <1>3, <2>2, FlattenUnfold
<1>4. QED BY <1>2, <1>3

-----------------------------------------------------------------------------
(* The rules that the targets need.                                        *)

\* What has been taken and what is left.
Pair == [valid : Seq(Rule), rest : Seq(Rule)]

SearchStep(s, rule) == IF findMatch(rule, s.valid) THEN Take(s, rule) ELSE Leave(s, rule)

SearchIter(D, q, base, it) ==
  it = [s \in SUBSET D |-> IF s = {} THEN base ELSE SearchStep(it[s \ {Max(s)}], q[Max(s)])]

\* A pass is the value, for all positions, of a function defined by recursion.
LEMMA SearchUnfold ==
  ASSUME NEW state
  PROVE  Search(state) = (CHOOSE it : SearchIter(DOMAIN state.rest, state.rest,
                                        [valid |-> state.valid, rest |-> <<>>], it))
                           [DOMAIN state.rest]
BY DEF Search, SearchIter, SearchStep, FoldLeft, MapThenFoldSet

\* A rule that is taken or left stays a rule.
LEMMA TakeLeaveType ==
  ASSUME NEW s \in Pair, NEW rule \in Rule
  PROVE  Take(s, rule) \in Pair /\ Leave(s, rule) \in Pair
BY DEF Take, Leave, Pair

\* The states of a pass: k rules looked at.
LEMMA SearchChain ==
  ASSUME NEW state \in Pair
  PROVE  \E g \in [0 .. Len(state.rest) -> Pair] :
           /\ g[0] = [valid |-> state.valid, rest |-> <<>>]
           /\ \A k \in 1 .. Len(state.rest) : g[k] = SearchStep(g[k - 1], state.rest[k])
           /\ g[Len(state.rest)] = Search(state)
<1> DEFINE q == state.rest
           n == Len(q)
           base == [valid |-> state.valid, rest |-> <<>>]
           F == [p \in (1 .. n) \X Pair |-> SearchStep(p[2], q[p[1]])]
           it == CHOOSE h : SearchIter(DOMAIN q, q, base, h)
<1>1. n \in Nat /\ DOMAIN q = 1 .. n /\ \A k \in 1 .. n : q[k] \in Rule
  BY DEF Pair
<1>2. base \in Pair
  BY DEF Pair
<1>3. \A s \in Pair, rule \in Rule : SearchStep(s, rule) \in Pair
  BY TakeLeaveType DEF SearchStep
<1>4. Search(state) = it[DOMAIN q]
  BY SearchUnfold
<1> HIDE DEF q, n, base, it
<1>5. F \in [(1 .. n) \X Pair -> Pair]
  <2>1. ASSUME NEW p \in (1 .. n) \X Pair PROVE SearchStep(p[2], q[p[1]]) \in Pair
    BY <1>1, <1>3
  <2>2. QED BY <2>1
<1>6. \A k \in 1 .. n, s \in Pair : F[<<k, s>>] = SearchStep(s, q[k])
  OBVIOUS
<1> HIDE DEF F
<1>7. SearchIter(1 .. n, q, base, it)
  <2>1. PICK h \in [SUBSET (1 .. n) -> Pair] : IsFold(n, base, F, h)
    BY <1>1, <1>2, <1>5, FoldExists
  <2>2. SearchIter(1 .. n, q, base, h)
    <3>1. ASSUME NEW s \in SUBSET (1 .. n), s # {}
          PROVE  F[<<Max(s), h[s \ {Max(s)}]>>] = SearchStep(h[s \ {Max(s)}], q[Max(s)])
      <4>1. Max(s) \in 1 .. n /\ s \ {Max(s)} \in SUBSET (1 .. n)
        BY <1>1, <3>1, MaxIn
      <4>2. QED BY <1>6, <4>1
    <3>2. [s \in SUBSET (1 .. n) |-> IF s = {} THEN base ELSE F[<<Max(s), h[s \ {Max(s)}]>>]]
            = [s \in SUBSET (1 .. n) |->
                 IF s = {} THEN base ELSE SearchStep(h[s \ {Max(s)}], q[Max(s)])]
      BY <3>1
    <3>3. QED BY <2>1, <3>2 DEF IsFold, SearchIter
  <2>3. SearchIter(DOMAIN q, q, base, h)
    BY <1>1, <2>2
  <2>4. SearchIter(DOMAIN q, q, base, it)
    BY <2>3 DEF it
  <2>5. QED BY <1>1, <2>4
<1>8. FoldsLike(n, Pair, base, F, it)
  <2>1. ASSUME NEW s \in SUBSET (1 .. n)
        PROVE  /\ s = {} => it[s] = base
               /\ s # {} /\ it[s \ {Max(s)}] \in Pair => it[s] = F[<<Max(s), it[s \ {Max(s)}]>>]
    <3>1. it[s] = IF s = {} THEN base ELSE SearchStep(it[s \ {Max(s)}], q[Max(s)])
      BY <1>7 DEF SearchIter
    <3>2. s # {} => Max(s) \in 1 .. n
      BY <1>1, MaxIn
    <3>3. QED BY <1>6, <3>1, <3>2
  <2>2. QED BY <2>1 DEF FoldsLike
<1>9. PICK g \in [0 .. n -> Pair] : IsChain(n, base, F, g, it[1 .. n])
  BY <1>1, <1>2, <1>5, <1>8, ChainOfFold
<1>10. \A k \in 1 .. n : g[k] = SearchStep(g[k - 1], q[k])
  <2>1. \A k \in 1 .. n : k - 1 \in 0 .. n /\ g[k - 1] \in Pair
    BY <1>1, <1>9
  <2>2. QED BY <1>6, <1>9, <2>1 DEF IsChain
<1>11. g[0] = base /\ g[n] = Search(state)
  BY <1>1, <1>4, <1>9 DEF IsChain
<1>12. QED BY <1>9, <1>10, <1>11 DEF q, n, base

Empty == [valid |-> <<>>, rest |-> <<>>]

TargetStep(names, s, rule) == IF rule.target \in names THEN Take(s, rule) ELSE Leave(s, rule)

TargetIter(names, D, q, base, it) ==
  it = [s \in SUBSET D |-> IF s = {} THEN base ELSE TargetStep(names, it[s \ {Max(s)}], q[Max(s)])]

\* The first pass is such a value too.
LEMMA TargetUnfold ==
  ASSUME NEW q, NEW targets
  PROVE  OfTargets(q, targets)
           = (CHOOSE it : TargetIter(ToSet(targets), DOMAIN q, q, Empty, it))[DOMAIN q]
BY DEF OfTargets, TargetIter, TargetStep, FoldLeft, MapThenFoldSet, Empty

\* The states of the first pass, over the rules q.
LEMMA TargetChain ==
  ASSUME NEW q \in Seq(Rule), NEW targets
  PROVE  \E g \in [0 .. Len(q) -> Pair] :
           /\ g[0] = Empty
           /\ \A k \in 1 .. Len(q) : g[k] = TargetStep(ToSet(targets), g[k - 1], q[k])
           /\ g[Len(q)] = OfTargets(q, targets)
<1> DEFINE names == ToSet(targets)
           n == Len(q)
           base == Empty
           F == [p \in (1 .. n) \X Pair |-> TargetStep(names, p[2], q[p[1]])]
           it == CHOOSE h : TargetIter(names, DOMAIN q, q, base, h)
<1>1. n \in Nat /\ DOMAIN q = 1 .. n /\ \A k \in 1 .. n : q[k] \in Rule
  OBVIOUS
<1>2. base \in Pair
  BY DEF Pair, Empty
<1>3. \A s \in Pair, rule \in Rule : TargetStep(names, s, rule) \in Pair
  BY TakeLeaveType DEF TargetStep
<1>4. OfTargets(q, targets) = it[DOMAIN q]
  BY TargetUnfold
<1> HIDE DEF names, n, base, it
<1>5. F \in [(1 .. n) \X Pair -> Pair]
  <2>1. ASSUME NEW p \in (1 .. n) \X Pair PROVE TargetStep(names, p[2], q[p[1]]) \in Pair
    BY <1>1, <1>3
  <2>2. QED BY <2>1
<1>6. \A k \in 1 .. n, s \in Pair : F[<<k, s>>] = TargetStep(names, s, q[k])
  OBVIOUS
<1> HIDE DEF F
<1>7. TargetIter(names, 1 .. n, q, base, it)
  <2>1. PICK h \in [SUBSET (1 .. n) -> Pair] : IsFold(n, base, F, h)
    BY <1>1, <1>2, <1>5, FoldExists
  <2>2. TargetIter(names, 1 .. n, q, base, h)
    <3>1. ASSUME NEW s \in SUBSET (1 .. n), s # {}
          PROVE  F[<<Max(s), h[s \ {Max(s)}]>>] = TargetStep(names, h[s \ {Max(s)}], q[Max(s)])
      <4>1. Max(s) \in 1 .. n /\ s \ {Max(s)} \in SUBSET (1 .. n)
        BY <1>1, <3>1, MaxIn
      <4>2. QED BY <1>6, <4>1
    <3>2. [s \in SUBSET (1 .. n) |-> IF s = {} THEN base ELSE F[<<Max(s), h[s \ {Max(s)}]>>]]
            = [s \in SUBSET (1 .. n) |->
                 IF s = {} THEN base ELSE TargetStep(names, h[s \ {Max(s)}], q[Max(s)])]
      BY <3>1
    <3>3. QED BY <2>1, <3>2 DEF IsFold, TargetIter
  <2>3. TargetIter(names, DOMAIN q, q, base, h)
    BY <1>1, <2>2
  <2>4. TargetIter(names, DOMAIN q, q, base, it)
    BY <2>3 DEF it
  <2>5. QED BY <1>1, <2>4
<1>8. FoldsLike(n, Pair, base, F, it)
  <2>1. ASSUME NEW s \in SUBSET (1 .. n)
        PROVE  /\ s = {} => it[s] = base
               /\ s # {} /\ it[s \ {Max(s)}] \in Pair => it[s] = F[<<Max(s), it[s \ {Max(s)}]>>]
    <3>1. it[s] = IF s = {} THEN base ELSE TargetStep(names, it[s \ {Max(s)}], q[Max(s)])
      BY <1>7 DEF TargetIter
    <3>2. s # {} => Max(s) \in 1 .. n
      BY <1>1, MaxIn
    <3>3. QED BY <1>6, <3>1, <3>2
  <2>2. QED BY <2>1 DEF FoldsLike
<1>9. PICK g \in [0 .. n -> Pair] : IsChain(n, base, F, g, it[1 .. n])
  BY <1>1, <1>2, <1>5, <1>8, ChainOfFold
<1>10. \A k \in 1 .. n : g[k] = TargetStep(names, g[k - 1], q[k])
  <2>1. \A k \in 1 .. n : k - 1 \in 0 .. n /\ g[k - 1] \in Pair
    BY <1>1, <1>9
  <2>2. QED BY <1>6, <1>9, <2>1 DEF IsChain
<1>11. g[0] = base /\ g[n] = OfTargets(q, targets)
  BY <1>1, <1>4, <1>9 DEF IsChain
<1>12. QED BY <1>9, <1>10, <1>11 DEF names, n, base

AddStep(name, n, rule) == IF rule.target = name THEN n + rule.commands ELSE n

AddIter(name, D, q, base, it) ==
  it = [s \in SUBSET D |-> IF s = {} THEN base ELSE AddStep(name, it[s \ {Max(s)}], q[Max(s)])]

AllCommands(name, q) ==
  LET add(n, rule) == IF rule.target = name THEN n + rule.commands ELSE n
  IN  FoldLeft(add, 0, q)

\* And so is the number of the commands for a name.
LEMMA AddUnfold ==
  ASSUME NEW q, NEW name
  PROVE  AllCommands(name, q) = (CHOOSE it : AddIter(name, DOMAIN q, q, 0, it))[DOMAIN q]
BY DEF AllCommands, AddIter, AddStep, FoldLeft, MapThenFoldSet

\* The commands of all rules with a name are a number.
LEMMA AllCommandsType ==
  ASSUME NEW q \in Seq(Rule), NEW name
  PROVE  AllCommands(name, q) \in Nat
<1> DEFINE n == Len(q)
           base == 0
           F == [p \in (1 .. n) \X Nat |-> AddStep(name, p[2], q[p[1]])]
           it == CHOOSE h : AddIter(name, DOMAIN q, q, base, h)
<1>1. n \in Nat /\ DOMAIN q = 1 .. n /\ \A k \in 1 .. n : q[k] \in Rule
  OBVIOUS
<1>2. base \in Nat
  OBVIOUS
<1>3. \A s \in Nat, rule \in Rule : AddStep(name, s, rule) \in Nat
  BY DEF AddStep, Rule
<1>4. AllCommands(name, q) = it[DOMAIN q]
  BY AddUnfold
<1> HIDE DEF n, base, it
<1>5. F \in [(1 .. n) \X Nat -> Nat]
  <2>1. ASSUME NEW p \in (1 .. n) \X Nat PROVE AddStep(name, p[2], q[p[1]]) \in Nat
    BY <1>1, <1>3
  <2>2. QED BY <2>1
<1>6. \A k \in 1 .. n, s \in Nat : F[<<k, s>>] = AddStep(name, s, q[k])
  OBVIOUS
<1> HIDE DEF F
<1>7. AddIter(name, 1 .. n, q, base, it)
  <2>1. PICK h \in [SUBSET (1 .. n) -> Nat] : IsFold(n, base, F, h)
    BY <1>1, <1>2, <1>5, FoldExists
  <2>2. AddIter(name, 1 .. n, q, base, h)
    <3>1. ASSUME NEW s \in SUBSET (1 .. n), s # {}
          PROVE  F[<<Max(s), h[s \ {Max(s)}]>>] = AddStep(name, h[s \ {Max(s)}], q[Max(s)])
      <4>1. Max(s) \in 1 .. n /\ s \ {Max(s)} \in SUBSET (1 .. n)
        BY <1>1, <3>1, MaxIn
      <4>2. QED BY <1>6, <4>1
    <3>2. [s \in SUBSET (1 .. n) |-> IF s = {} THEN base ELSE F[<<Max(s), h[s \ {Max(s)}]>>]]
            = [s \in SUBSET (1 .. n) |->
                 IF s = {} THEN base ELSE AddStep(name, h[s \ {Max(s)}], q[Max(s)])]
      BY <3>1
    <3>3. QED BY <2>1, <3>2 DEF IsFold, AddIter
  <2>3. AddIter(name, DOMAIN q, q, base, h)
    BY <1>1, <2>2
  <2>4. AddIter(name, DOMAIN q, q, base, it)
    BY <2>3 DEF it
  <2>5. QED BY <1>1, <2>4
<1>8. FoldsLike(n, Nat, base, F, it)
  <2>1. ASSUME NEW s \in SUBSET (1 .. n)
        PROVE  /\ s = {} => it[s] = base
               /\ s # {} /\ it[s \ {Max(s)}] \in Nat => it[s] = F[<<Max(s), it[s \ {Max(s)}]>>]
    <3>1. it[s] = IF s = {} THEN base ELSE AddStep(name, it[s \ {Max(s)}], q[Max(s)])
      BY <1>7 DEF AddIter
    <3>2. s # {} => Max(s) \in 1 .. n
      BY <1>1, MaxIn
    <3>3. QED BY <1>6, <3>1, <3>2
  <2>2. QED BY <2>1 DEF FoldsLike
<1>9. PICK g \in [0 .. n -> Nat] : IsChain(n, base, F, g, it[1 .. n])
  BY <1>1, <1>2, <1>5, <1>8, ChainOfFold
<1>10. QED BY <1>1, <1>4, <1>9

\* Nothing that is left has the name of a dependency of what has been taken.
Stable(s) == \A r \in ToSet(s.rest) : ~ findMatch(r, s.valid)

\* With the target of each of these rules a set of names has its dependencies.
ClosedUnder(names, some) == \A r \in some : r.target \in names => ToSet(r.deps) \subseteq names

Targets(some) == {r.target : r \in some}

\* A rule is needed by the rules taken if it is a dependency of one of them.
LEMMA MatchFacts ==
  ASSUME NEW rule, NEW valid
  PROVE  findMatch(rule, valid) <=> \E v \in ToSet(valid) : rule.target \in ToSet(v.deps)
BY DEF findMatch, ToSet

\* Of a pass that has looked at the first k of the rules that were left: nothing
\* is lost; no rule was taken, or one was that matched from the start; and a
\* closed set that has the targets taken before has those taken since.
Searched(state, k, s) ==
  /\ ToSet(s.valid) \cup ToSet(s.rest) = ToSet(state.valid) \cup {state.rest[i] : i \in 1 .. k}
  /\ ToSet(state.valid) \subseteq ToSet(s.valid)
  /\ Len(s.rest) <= k
  /\ Len(s.rest) = k => /\ s.valid = state.valid
                        /\ \A r \in ToSet(s.rest) : ~ findMatch(r, state.valid)
  /\ Len(s.rest) # k => \E i \in 1 .. k : findMatch(state.rest[i], state.valid)

Within(state, s) ==
  \A names :
    ClosedUnder(names, ToSet(state.valid) \cup ToSet(state.rest))
      /\ Targets(ToSet(state.valid)) \subseteq names
    => Targets(ToSet(s.valid)) \subseteq names

\* The next rule of a pass is taken only for a dependency of a rule taken before
\* (parser.c:118-130), so that its target is in every closed set.
LEMMA WithinStep ==
  ASSUME NEW state \in Pair, NEW k \in 1 .. Len(state.rest), NEW s \in Pair,
         Searched(state, k - 1, s), Within(state, s)
  PROVE  Within(state, SearchStep(s, state.rest[k]))
<1> DEFINE r == state.rest[k]
           new == SearchStep(s, r)
<1>1. r \in Rule /\ s.valid \in Seq(Rule)
  BY DEF Pair
<1>2. {state.rest[i] : i \in 1 .. k - 1} \subseteq ToSet(state.rest)
  <2>1. DOMAIN state.rest = 1 .. Len(state.rest) /\ Len(state.rest) \in Nat
    BY DEF Pair
  <2>2. QED BY <2>1 DEF ToSet
<1>3. ToSet(s.valid) \subseteq ToSet(state.valid) \cup ToSet(state.rest)
  BY <1>2 DEF Searched
<1> HIDE DEF r
<1>4. ASSUME NEW names, ClosedUnder(names, ToSet(state.valid) \cup ToSet(state.rest)),
             Targets(ToSet(state.valid)) \subseteq names, findMatch(r, s.valid)
      PROVE  Targets(ToSet(new.valid)) \subseteq names
  <2>1. Targets(ToSet(s.valid)) \subseteq names
    BY <1>4 DEF Within
  <2>2. PICK v \in ToSet(s.valid) : r.target \in ToSet(v.deps)
    BY <1>4, MatchFacts
  <2>3. r.target \in names
    BY <1>3, <1>4, <2>1, <2>2 DEF ClosedUnder, Targets
  <2>4. new.valid = Append(s.valid, r)
    BY <1>4 DEF SearchStep, Take
  <2>5. ToSet(new.valid) = ToSet(s.valid) \cup {r}
    BY <1>1, <2>4, ToSetFacts
  <2> HIDE DEF new
  <2>6. QED BY <2>1, <2>3, <2>5 DEF Targets
<1>5. ~ findMatch(r, s.valid) => new.valid = s.valid
  BY DEF SearchStep, Leave
<1> HIDE DEF new
<1>6. Within(state, new)
  BY <1>4, <1>5 DEF Within
<1>7. QED BY <1>6 DEF new, r

\* The next rule is taken or left, and the first one that is taken matched the
\* rules taken in earlier passes.
LEMMA SearchedStep ==
  ASSUME NEW state \in Pair, NEW k \in 1 .. Len(state.rest), NEW s \in Pair,
         Searched(state, k - 1, s)
  PROVE  Searched(state, k, SearchStep(s, state.rest[k]))
<1> DEFINE q == state.rest
           r == q[k]
           new == SearchStep(s, r)
<1>1. r \in Rule /\ k \in Nat /\ k - 1 \in Nat /\ s.valid \in Seq(Rule) /\ s.rest \in Seq(Rule)
  BY DEF Pair
<1>2. {q[i] : i \in 1 .. k} = {q[i] : i \in 1 .. k - 1} \cup {r}
  <2>1. 1 .. k = (1 .. k - 1) \cup {k}
    OBVIOUS
  <2>2. QED BY <2>1
<1> HIDE DEF r, q
<1>3. /\ ToSet(s.valid) \cup ToSet(s.rest) = ToSet(state.valid) \cup {q[i] : i \in 1 .. k - 1}
      /\ ToSet(state.valid) \subseteq ToSet(s.valid)
      /\ Len(s.rest) <= k - 1 /\ Len(s.rest) \in Nat
      /\ Len(s.rest) = k - 1 => /\ s.valid = state.valid
                                /\ \A x \in ToSet(s.rest) : ~ findMatch(x, state.valid)
      /\ Len(s.rest) # k - 1 => \E i \in 1 .. k - 1 : findMatch(q[i], state.valid)
  BY <1>1 DEF Searched, q
<1>4. CASE findMatch(r, s.valid)
  <2>1. new.valid = Append(s.valid, r) /\ new.rest = s.rest
    BY <1>4 DEF SearchStep, Take
  <2>2. ToSet(new.valid) = ToSet(s.valid) \cup {r}
    BY <1>1, <2>1, ToSetFacts
  <2> HIDE DEF new
  <2>3. \E i \in 1 .. k : findMatch(q[i], state.valid)
    <3>1. CASE Len(s.rest) = k - 1
      BY <1>3, <1>4, <3>1 DEF r
    <3>2. CASE Len(s.rest) # k - 1
      BY <1>3, <3>2
    <3>3. QED BY <3>1, <3>2
  <2>4. Len(new.rest) <= k /\ Len(new.rest) # k
    BY <1>1, <1>3, <2>1
  <2>5. /\ ToSet(new.valid) \cup ToSet(new.rest) = ToSet(state.valid) \cup {q[i] : i \in 1 .. k}
        /\ ToSet(state.valid) \subseteq ToSet(new.valid)
    BY <1>2, <1>3, <2>1, <2>2
  <2>6. Searched(state, k, new)
    BY <2>3, <2>4, <2>5 DEF Searched, q
  <2>7. QED BY <2>6 DEF new, r, q
<1>5. CASE ~ findMatch(r, s.valid)
  <2>1. new.valid = s.valid /\ new.rest = Append(s.rest, r)
    BY <1>5 DEF SearchStep, Leave
  <2>2. ToSet(new.rest) = ToSet(s.rest) \cup {r} /\ Len(new.rest) = Len(s.rest) + 1
    BY <1>1, <2>1, ToSetFacts
  <2> HIDE DEF new
  <2>3. Len(new.rest) <= k /\ (Len(new.rest) = k <=> Len(s.rest) = k - 1)
    BY <1>1, <1>3, <2>2
  <2>4. Len(new.rest) = k => /\ new.valid = state.valid
                             /\ \A x \in ToSet(new.rest) : ~ findMatch(x, state.valid)
    BY <1>3, <1>5, <2>1, <2>2, <2>3
  <2>5. Len(new.rest) # k => \E i \in 1 .. k : findMatch(q[i], state.valid)
    BY <1>3, <2>3
  <2>6. /\ ToSet(new.valid) \cup ToSet(new.rest) = ToSet(state.valid) \cup {q[i] : i \in 1 .. k}
        /\ ToSet(state.valid) \subseteq ToSet(new.valid)
    BY <1>2, <1>3, <2>1, <2>2
  <2>7. Searched(state, k, new)
    BY <2>3, <2>4, <2>5, <2>6 DEF Searched, q
  <2>8. QED BY <2>7 DEF new, r, q
<1>6. QED BY <1>4, <1>5

\* So for a pass over all the rules that are left.
LEMMA SearchFacts ==
  ASSUME NEW state \in Pair
  PROVE  /\ Search(state) \in Pair
         /\ Searched(state, Len(state.rest), Search(state))
         /\ Within(state, Search(state))
<1> DEFINE n == Len(state.rest)
<1>1. n \in Nat /\ state.valid \in Seq(Rule)
  BY DEF Pair
<1>2. PICK g \in [0 .. n -> Pair] :
        /\ g[0] = [valid |-> state.valid, rest |-> <<>>]
        /\ \A k \in 1 .. n : g[k] = SearchStep(g[k - 1], state.rest[k])
        /\ g[n] = Search(state)
  BY SearchChain
<1> DEFINE P == {k \in 0 .. n : Searched(state, k, g[k]) /\ Within(state, g[k])}
<1>3. 0 \in P
  <2>1. /\ g[0].valid = state.valid /\ g[0].rest = <<>>
        /\ ToSet(g[0].rest) = {} /\ Len(g[0].rest) = 0
    BY <1>2 DEF ToSet
  <2>2. {state.rest[i] : i \in 1 .. 0} = {}
    OBVIOUS
  <2>3. Searched(state, 0, g[0])
    BY <2>1, <2>2 DEF Searched
  <2>4. Within(state, g[0])
    BY <2>1 DEF Within
  <2>5. 0 \in 0 .. n
    BY <1>1
  <2>6. QED BY <2>3, <2>4, <2>5
<1>4. ASSUME NEW k \in 1 .. n, k - 1 \in P PROVE k \in P
  <2>1. g[k - 1] \in Pair /\ Searched(state, k - 1, g[k - 1]) /\ Within(state, g[k - 1])
    BY <1>1, <1>2, <1>4
  <2>2. /\ Searched(state, k, SearchStep(g[k - 1], state.rest[k]))
        /\ Within(state, SearchStep(g[k - 1], state.rest[k]))
    BY <2>1, SearchedStep, WithinStep
  <2>3. Searched(state, k, g[k]) /\ Within(state, g[k])
    BY <1>2, <2>2
  <2>4. QED BY <1>1, <2>3
<1>5. n \in P
  <2>1. n \in Nat
    BY <1>1
  <2> HIDE DEF P, n
  <2>2. \A k \in 1 .. n : k - 1 \in P => k \in P
    BY ONLY <1>4
  <2>3. \A k \in 0 .. n : k \in P
    BY ONLY <2>1, <2>2, <1>3, CountUp
  <2>4. QED BY ONLY <2>1, <2>3
<1>6. QED BY <1>1, <1>2, <1>5

\* Of the first pass, when it has looked at k rules.
Sorted(q, names, k, s) ==
  /\ ToSet(s.valid) \cup ToSet(s.rest) = {q[i] : i \in 1 .. k}
  /\ Targets(ToSet(s.valid)) \subseteq names
  /\ \A i \in 1 .. k : q[i].target \in names => q[i] \in ToSet(s.valid)
  /\ Len(s.rest) <= k

\* The first pass looks at one more rule (parser.c:98-114).
LEMMA SortedStep ==
  ASSUME NEW q, NEW names, NEW k \in Nat, k # 0, q[k] \in Rule, NEW s \in Pair,
         Sorted(q, names, k - 1, s)
  PROVE  Sorted(q, names, k, TargetStep(names, s, q[k]))
<1> DEFINE r == q[k]
           new == TargetStep(names, s, r)
<1>1. r \in Rule /\ s.valid \in Seq(Rule) /\ s.rest \in Seq(Rule) /\ Len(s.rest) \in Nat
  BY DEF Pair
<1>2. 1 .. k = (1 .. k - 1) \cup {k}
  OBVIOUS
<1>3. {q[i] : i \in 1 .. k} = {q[i] : i \in 1 .. k - 1} \cup {r}
  BY <1>2
<1> HIDE DEF r
<1>4. CASE r.target \in names
  <2>1. new.valid = Append(s.valid, r) /\ new.rest = s.rest
    BY <1>4 DEF TargetStep, Take
  <2>2. ToSet(new.valid) = ToSet(s.valid) \cup {r}
    BY <1>1, <2>1, ToSetFacts
  <2> HIDE DEF new
  <2>3. \A i \in 1 .. k : q[i].target \in names => q[i] \in ToSet(new.valid)
    BY <1>2, <2>2 DEF Sorted, r
  <2>4. Targets(ToSet(new.valid)) \subseteq names
    BY <1>4, <2>2 DEF Sorted, Targets
  <2>5. ToSet(new.valid) \cup ToSet(new.rest) = {q[i] : i \in 1 .. k}
    BY <1>3, <2>1, <2>2 DEF Sorted
  <2>6. Len(new.rest) <= k
    BY <1>1, <2>1 DEF Sorted
  <2>7. Sorted(q, names, k, new)
    BY <2>3, <2>4, <2>5, <2>6 DEF Sorted
  <2>8. QED BY <2>7 DEF new, r
<1>5. CASE r.target \notin names
  <2>1. new.valid = s.valid /\ new.rest = Append(s.rest, r)
    BY <1>5 DEF TargetStep, Leave
  <2>2. ToSet(new.rest) = ToSet(s.rest) \cup {r} /\ Len(new.rest) = Len(s.rest) + 1
    BY <1>1, <2>1, ToSetFacts
  <2> HIDE DEF new
  <2>3. \A i \in 1 .. k : q[i].target \in names => q[i] \in ToSet(new.valid)
    BY <1>2, <1>5, <2>1 DEF Sorted, r
  <2>4. Targets(ToSet(new.valid)) \subseteq names
    BY <2>1 DEF Sorted
  <2>5. ToSet(new.valid) \cup ToSet(new.rest) = {q[i] : i \in 1 .. k}
    BY <1>3, <2>1, <2>2 DEF Sorted
  <2>6. Len(new.rest) <= k
    BY <1>1, <2>2 DEF Sorted
  <2>7. Sorted(q, names, k, new)
    BY <2>3, <2>4, <2>5, <2>6 DEF Sorted
  <2>8. QED BY <2>7 DEF new, r
<1>6. QED BY <1>4, <1>5

\* So for the first pass over all rules.
LEMMA OfTargetsFacts ==
  ASSUME NEW q \in Seq(Rule), NEW targets
  PROVE  /\ OfTargets(q, targets) \in Pair
         /\ Sorted(q, ToSet(targets), Len(q), OfTargets(q, targets))
<1> DEFINE n == Len(q)
           names == ToSet(targets)
<1>1. n \in Nat /\ \A k \in 1 .. n : q[k] \in Rule /\ k \in Nat /\ k # 0
  OBVIOUS
<1>2. PICK g \in [0 .. n -> Pair] :
        /\ g[0] = Empty
        /\ \A k \in 1 .. n : g[k] = TargetStep(names, g[k - 1], q[k])
        /\ g[n] = OfTargets(q, targets)
  BY TargetChain
<1> DEFINE P == {k \in 0 .. n : Sorted(q, names, k, g[k])}
<1> HIDE DEF names
<1>3. 0 \in P
  <2>1. /\ ToSet(g[0].valid) = {} /\ ToSet(g[0].rest) = {} /\ Len(g[0].rest) = 0
    BY <1>2 DEF ToSet, Empty
  <2>2. {q[i] : i \in 1 .. 0} = {} /\ 1 .. 0 = {}
    OBVIOUS
  <2>3. Sorted(q, names, 0, g[0])
    BY <2>1, <2>2 DEF Sorted, Targets
  <2>4. 0 \in 0 .. n
    BY <1>1
  <2>5. QED BY <2>3, <2>4
<1>4. ASSUME NEW k \in 1 .. n, k - 1 \in P PROVE k \in P
  <2>1. g[k - 1] \in Pair /\ Sorted(q, names, k - 1, g[k - 1])
    BY <1>1, <1>2, <1>4
  <2>2. Sorted(q, names, k, TargetStep(names, g[k - 1], q[k]))
    BY <1>1, <2>1, SortedStep
  <2>3. Sorted(q, names, k, g[k])
    BY <1>2, <2>2
  <2>4. QED BY <1>1, <2>3
<1>5. n \in P
  <2>1. n \in Nat
    BY <1>1
  <2> HIDE DEF P, n
  <2>2. \A k \in 1 .. n : k - 1 \in P => k \in P
    BY ONLY <1>4
  <2>3. \A k \in 0 .. n : k \in P
    BY ONLY <2>1, <2>2, <1>3, CountUp
  <2>4. QED BY ONLY <2>1, <2>3
<1>6. QED BY <1>1, <1>2, <1>5 DEF names

\* The passes, n of them.
AfterIter(n, start, it) ==
  it = [k \in 0 .. n |-> IF k = 0 THEN start ELSE Search(it[k - 1])]

\* The rules taken are those of the last of the passes.
LEMMA FilterUnfold ==
  ASSUME NEW q, NEW targets
  PROVE  filterOnTargets(q, targets)
           = (CHOOSE it : AfterIter(Len(q), OfTargets(q, targets), it))[Len(q)].valid
BY DEF filterOnTargets, AfterIter

\* The passes chosen are passes.
LEMMA PassesExist ==
  ASSUME NEW n \in Nat, NEW start \in Pair
  PROVE  AfterIter(n, start, CHOOSE it : AfterIter(n, start, it))
<1> DEFINE F == [p \in (1 .. n) \X Pair |-> Search(p[2])]
<1>1. F \in [(1 .. n) \X Pair -> Pair]
  BY SearchFacts
<1>2. \A k \in 1 .. n, s \in Pair : F[<<k, s>>] = Search(s)
  OBVIOUS
<1> HIDE DEF F
<1>3. PICK g \in [0 .. n -> Pair] : \E last : IsChain(n, start, F, g, last)
  BY <1>1, ChainExists
<1>4. ASSUME NEW k \in 0 .. n PROVE g[k] = IF k = 0 THEN start ELSE Search(g[k - 1])
  <2>1. CASE k = 0
    BY <1>3, <2>1 DEF IsChain
  <2>2. CASE k # 0
    <3>1. k \in 1 .. n /\ g[k - 1] \in Pair
      BY <1>3, <2>2
    <3>2. QED BY <1>2, <1>3, <2>2, <3>1 DEF IsChain
  <2>3. QED BY <2>1, <2>2
<1>5. AfterIter(n, start, g)
  <2>1. g = [k \in 0 .. n |-> g[k]]
    BY <1>3
  <2>2. [k \in 0 .. n |-> g[k]] = [k \in 0 .. n |-> IF k = 0 THEN start ELSE Search(g[k - 1])]
    BY <1>4
  <2>3. QED BY <2>1, <2>2 DEF AfterIter
<1>6. QED BY <1>5

\* After k passes over the rules q: nothing is lost, the rules of the names are
\* taken, and of a closed set of names no other targets; and another pass finds
\* nothing, or each has found a rule.
Passed(q, names, k, s) ==
  /\ ToSet(s.valid) \cup ToSet(s.rest) = ToSet(q)
  /\ \A r \in ToSet(q) : r.target \in names => r \in ToSet(s.valid)
  /\ \A closed : ClosedUnder(closed, ToSet(q)) /\ names \subseteq closed
                   => Targets(ToSet(s.valid)) \subseteq closed
  /\ Stable(s) \/ Len(s.rest) + k <= Len(q)

\* One more pass keeps this: when it takes no rule, none of those left matches.
LEMMA PassedStep ==
  ASSUME NEW q \in Seq(Rule), NEW names, NEW k \in Nat, NEW s \in Pair, Passed(q, names, k, s)
  PROVE  Passed(q, names, k + 1, Search(s))
<1> DEFINE new == Search(s)
<1>1. new \in Pair /\ Searched(s, Len(s.rest), new) /\ Within(s, new)
  BY SearchFacts
<1> HIDE DEF new
<1>2. /\ Len(s.rest) \in Nat /\ Len(new.rest) \in Nat /\ Len(q) \in Nat
      /\ {s.rest[i] : i \in 1 .. Len(s.rest)} = ToSet(s.rest)
  <2>1. s.rest \in Seq(Rule) /\ new.rest \in Seq(Rule)
    BY <1>1 DEF Pair
  <2>2. DOMAIN s.rest = 1 .. Len(s.rest)
    BY <2>1
  <2>3. QED BY <2>1, <2>2 DEF ToSet
<1>3. ToSet(new.valid) \cup ToSet(new.rest) = ToSet(q) /\ ToSet(s.valid) \subseteq ToSet(new.valid)
  BY <1>1, <1>2 DEF Searched, Passed
<1>4. \A r \in ToSet(q) : r.target \in names => r \in ToSet(new.valid)
  BY <1>3 DEF Passed
<1>5. ASSUME NEW closed, ClosedUnder(closed, ToSet(q)), names \subseteq closed
      PROVE  Targets(ToSet(new.valid)) \subseteq closed
  <2>1. Targets(ToSet(s.valid)) \subseteq closed /\ ToSet(s.valid) \cup ToSet(s.rest) = ToSet(q)
    BY <1>5 DEF Passed
  <2>2. QED BY <1>1, <1>5, <2>1 DEF Within
<1>6. Stable(new) \/ Len(new.rest) + (k + 1) <= Len(q)
  <2>1. CASE Len(new.rest) = Len(s.rest)
    <3>1. new.valid = s.valid /\ \A r \in ToSet(new.rest) : ~ findMatch(r, s.valid)
      BY <1>1, <2>1 DEF Searched
    <3>2. QED BY <3>1 DEF Stable
  <2>2. CASE Len(new.rest) # Len(s.rest)
    <3>1. PICK i \in 1 .. Len(s.rest) : findMatch(s.rest[i], s.valid)
      BY <1>1, <2>2 DEF Searched
    <3>2. ~ Stable(s)
      BY <1>2, <3>1 DEF Stable
    <3>3. Len(s.rest) + k <= Len(q) /\ Len(new.rest) <= Len(s.rest)
      BY <1>1, <3>2 DEF Passed, Searched
    <3>4. \A a, b, c, d \in Nat : a # b /\ a <= b /\ b + c <= d => a + (c + 1) <= d
      OBVIOUS
    <3>5. Len(new.rest) + (k + 1) <= Len(q)
      BY <1>2, <2>2, <3>3, <3>4
    <3>6. QED BY <3>5
  <2>3. QED BY <2>1, <2>2
<1>7. QED BY <1>3, <1>4, <1>5, <1>6 DEF Passed, new

\* So for as many passes as there are rules.
LEMMA PassedAll ==
  ASSUME NEW q \in Seq(Rule), NEW targets
  PROVE  \E s \in Pair : /\ filterOnTargets(q, targets) = s.valid
                         /\ Passed(q, ToSet(targets), Len(q), s)
<1> DEFINE n == Len(q)
           names == ToSet(targets)
           start == OfTargets(q, targets)
           it == CHOOSE h : AfterIter(n, start, h)
           P == {k \in 0 .. n : it[k] \in Pair /\ Passed(q, names, k, it[k])}
<1>1. n \in Nat /\ {q[i] : i \in 1 .. n} = ToSet(q)
  <2>1. DOMAIN q = 1 .. n
    OBVIOUS
  <2>2. QED BY <2>1 DEF ToSet
<1>2. start \in Pair /\ Sorted(q, names, n, start)
  BY OfTargetsFacts
<1>3. filterOnTargets(q, targets) = it[n].valid
  BY FilterUnfold
<1> HIDE DEF start, names
<1>4. AfterIter(n, start, it)
  BY <1>1, <1>2, PassesExist
<1> HIDE DEF it
<1>5. it[0] = start /\ \A k \in 1 .. n : it[k] = Search(it[k - 1])
  BY <1>1, <1>4 DEF AfterIter
<1>6. 0 \in P
  <2>1. Len(start.rest) <= n /\ Len(start.rest) \in Nat
    BY <1>2 DEF Sorted, Pair
  <2>2. ToSet(start.valid) \cup ToSet(start.rest) = ToSet(q)
    BY <1>1, <1>2 DEF Sorted
  <2>3. \A r \in ToSet(q) : r.target \in names => r \in ToSet(start.valid)
    <3>1. \A i \in 1 .. n : q[i].target \in names => q[i] \in ToSet(start.valid)
      BY <1>2 DEF Sorted
    <3>2. QED BY <1>1, <3>1
  <2>4. Targets(ToSet(start.valid)) \subseteq names
    BY <1>2 DEF Sorted
  <2>5. Passed(q, names, 0, start)
    BY <1>1, <2>1, <2>2, <2>3, <2>4 DEF Passed
  <2>6. 0 \in 0 .. n
    BY <1>1
  <2>7. QED BY <1>2, <1>5, <2>5, <2>6
<1>7. ASSUME NEW k \in 1 .. n, k - 1 \in P PROVE k \in P
  <2> DEFINE j == k - 1
  <2>1. it[j] \in Pair /\ Passed(q, names, j, it[j]) /\ j \in Nat /\ j + 1 = k
    BY <1>1, <1>7
  <2> HIDE DEF j
  <2>2. Passed(q, names, j + 1, Search(it[j]))
    BY <2>1, PassedStep
  <2>3. Search(it[k - 1]) \in Pair /\ Passed(q, names, k, Search(it[k - 1]))
    BY <2>1, <2>2, SearchFacts DEF j
  <2>4. Passed(q, names, k, it[k])
    BY <1>5, <2>3
  <2>5. k \in 0 .. n
    OBVIOUS
  <2>6. QED BY <1>5, <2>3, <2>4, <2>5
<1>8. n \in P
  <2>1. n \in Nat
    BY <1>1
  <2> HIDE DEF P, n
  <2>2. \A k \in 1 .. n : k - 1 \in P => k \in P
    BY ONLY <1>7
  <2>3. \A k \in 0 .. n : k \in P
    BY ONLY <2>1, <2>2, <1>6, CountUp
  <2>4. QED BY ONLY <2>1, <2>3
<1>9. QED BY <1>3, <1>8 DEF names

\* The rules taken are those that the targets need.
LEMMA FilterFacts ==
  ASSUME NEW q \in Seq(Rule), NEW targets
  PROVE  LET taken == ToSet(filterOnTargets(q, targets))
         IN  /\ filterOnTargets(q, targets) \in Seq(Rule) /\ taken \subseteq ToSet(q)
             /\ \A closed : ClosedUnder(closed, ToSet(q)) /\ ToSet(targets) \subseteq closed
                              => Targets(taken) \subseteq closed
             /\ \A r \in ToSet(q) \ taken :
                  /\ r.target \notin ToSet(targets)
                  /\ \A v \in taken : r.target \notin ToSet(v.deps)
<1>1. PICK s \in Pair : /\ filterOnTargets(q, targets) = s.valid
                        /\ Passed(q, ToSet(targets), Len(q), s)
  BY PassedAll
<1>2. s.valid \in Seq(Rule) /\ s.rest \in Seq(Rule) /\ Len(q) \in Nat
  BY DEF Pair
<1>3. Stable(s)
  <2>1. CASE Len(s.rest) + Len(q) <= Len(q)
    <3>1. Len(s.rest) = 0
      BY <1>2, <2>1
    <3>2. ToSet(s.rest) = {}
      BY <1>2, <3>1 DEF ToSet
    <3>3. QED BY <3>2 DEF Stable
  <2>2. QED BY <1>1, <2>1 DEF Passed
<1>4. ASSUME NEW r \in ToSet(q), r \notin ToSet(s.valid)
      PROVE  /\ r.target \notin ToSet(targets)
             /\ \A v \in ToSet(s.valid) : r.target \notin ToSet(v.deps)
  <2>1. r \in ToSet(s.rest)
    BY <1>1, <1>4 DEF Passed
  <2>2. ~ findMatch(r, s.valid)
    BY <1>3, <2>1 DEF Stable
  <2>3. QED BY <1>1, <1>4, <2>2, MatchFacts DEF Passed
<1>5. QED BY <1>1, <1>2, <1>4 DEF Passed

\* What is read from a makefile is rules.
LEMMA ReadRulesType ==
  ASSUME NEW makefile \in Seq(RuleLine)
  PROVE  ReadRules(makefile) \in Seq(Rule)
<1> DEFINE q == [i \in DOMAIN makefile |-> LineRules(makefile[i])]
<1>1. ASSUME NEW i \in DOMAIN makefile PROVE LineRules(makefile[i]) \in Seq(Rule)
  <2>1. makefile[i] \in RuleLine
    OBVIOUS
  <2>2. /\ makefile[i].targets \in Seq(Names) /\ makefile[i].deps \in Seq(Names)
        /\ makefile[i].commands \in Nat
    BY <2>1 DEF RuleLine
  <2> DEFINE m == Len(makefile[i].targets)
             f == [j \in 1 .. m |-> [target   |-> makefile[i].targets[j],
                                     deps     |-> makefile[i].deps,
                                     commands |-> makefile[i].commands]]
  <2>3. m \in Nat /\ DOMAIN makefile[i].targets = 1 .. m
        /\ \A j \in 1 .. m : makefile[i].targets[j] \in Names
    BY <2>2
  <2>4. LineRules(makefile[i]) = f
    BY <2>3 DEF LineRules
  <2>5. f \in [1 .. m -> Rule]
    BY <2>2, <2>3 DEF Rule
  <2> HIDE DEF m, f
  <2>6. QED BY <2>3, <2>4, <2>5, IsASeq
<1>2. q \in Seq(Seq(Rule))
  <2>1. DOMAIN makefile = 1 .. Len(makefile) /\ Len(makefile) \in Nat
    OBVIOUS
  <2>2. \A i \in 1 .. Len(makefile) : LineRules(makefile[i]) \in Seq(Rule)
    BY <1>1, <2>1
  <2> DEFINE f == [i \in 1 .. Len(makefile) |-> LineRules(makefile[i])]
             T == Seq(Rule)
  <2>3. q = f
    BY <2>1
  <2>4. f \in [1 .. Len(makefile) -> T]
    BY <2>2
  <2>5. \A g \in [1 .. Len(makefile) -> T] : g \in Seq(T)
    BY <2>1, IsASeq
  <2>6. QED BY <2>3, <2>4, <2>5
<1> HIDE DEF q
<1>3. QED BY <1>2, FlattenType DEF ReadRules, q

\* The rule that the callbacks make of the one at i.
Made(q, i) ==
  LET name  == q[i].target
      first == \A j \in 1 .. i - 1 : q[j].target # name
      deps  == [j \in DOMAIN q |-> IF q[j].target = name THEN q[j].deps ELSE <<>>]
  IN  [target   |-> name,
       deps     |-> IF first THEN FlattenSeq(deps) ELSE <<>>,
       commands |-> IF first THEN AllCommands(name, q) ELSE 0]

\* It is a rule for the same target.
LEMMA MadeType ==
  ASSUME NEW q \in Seq(Rule), NEW i \in DOMAIN q
  PROVE  Made(q, i) \in Rule /\ Made(q, i).target = q[i].target
<1> DEFINE name == q[i].target
           n == Len(q)
           deps == [j \in DOMAIN q |-> IF q[j].target = name THEN q[j].deps ELSE <<>>]
           f == [j \in 1 .. n |-> IF q[j].target = name THEN q[j].deps ELSE <<>>]
           T == Seq(Names)
<1>1. n \in Nat /\ DOMAIN q = 1 .. n /\ \A j \in 1 .. n : q[j] \in Rule
  OBVIOUS
<1>2. name \in Names /\ \A j \in 1 .. n : q[j].deps \in T
  BY <1>1 DEF Rule
<1>3. <<>> \in T
  OBVIOUS
<1>4. deps = f
  BY <1>1
<1>5. f \in [1 .. n -> T]
  <2> HIDE DEF T, name
  <2>1. QED BY <1>2, <1>3
<1>6. deps \in Seq(T)
  <2> HIDE DEF T, n, f, deps
  <2>1. QED BY <1>1, <1>4, <1>5, IsASeq
<1>7. FlattenSeq(deps) \in T
  <2> HIDE DEF deps
  <2>1. QED BY <1>6, FlattenType
<1>8. AllCommands(name, q) \in Nat
  BY AllCommandsType
<1> DEFINE first == \A j \in 1 .. i - 1 : q[j].target # name
<1>9. Made(q, i) = [target   |-> name,
                    deps     |-> IF first THEN FlattenSeq(deps) ELSE <<>>,
                    commands |-> IF first THEN AllCommands(name, q) ELSE 0]
  BY DEF Made
<1> HIDE DEF T, name, first, deps
<1>10. QED BY <1>2, <1>3, <1>7, <1>8, <1>9 DEF Rule, T, name

\* The callbacks make a rule of each rule, with its target.
LEMMA CallbacksFacts ==
  ASSUME NEW q \in Seq(Rule)
  PROVE  Callbacks(q) \in Seq(Rule) /\ Targets(ToSet(Callbacks(q))) = Targets(ToSet(q))
<1> DEFINE n == Len(q)
           f == [i \in 1 .. n |-> Made(q, i)]
<1>1. n \in Nat /\ DOMAIN q = 1 .. n
  OBVIOUS
<1>2. Callbacks(q) = [i \in DOMAIN q |-> Made(q, i)]
  BY DEF Callbacks, Made, AllCommands
<1>3. Callbacks(q) = f
  BY <1>1, <1>2
<1>4. \A i \in 1 .. n : Made(q, i) \in Rule /\ Made(q, i).target = q[i].target
  BY <1>1, MadeType
<1>5. f \in [1 .. n -> Rule] /\ DOMAIN f = 1 .. n /\ \A i \in 1 .. n : f[i].target = q[i].target
  BY <1>4
<1> HIDE DEF n, f
<1>6. f \in Seq(Rule)
  BY <1>1, <1>5, IsASeq
<1>7. Targets(ToSet(f)) = Targets(ToSet(q))
  BY <1>1, <1>5 DEF Targets, ToSet
<1>8. QED BY <1>3, <1>6, <1>7

\* A set of names that is closed and has the targets.
IsClosed(names, q, targets) == ToSet(targets) \subseteq names /\ ClosedUnder(names, ToSet(q))

\* Needed is the least closed set.
LEMMA NeededUnfold ==
  ASSUME NEW makefile, NEW targets
  PROVE  LET q     == ReadRules(makefile)
             run   == RunTargets(makefile, targets)
             names == ToSet(run) \cup UNION {{r.target} \cup ToSet(r.deps) : r \in ToSet(q)}
         IN  Needed(makefile, targets)
               = {n \in names : \A S \in SUBSET names : IsClosed(S, q, run) => n \in S}
BY DEF Needed, IsClosed, ClosedUnder

\* Of the rules of a makefile the parser takes those that the targets need.
LEMMA TakenFacts ==
  ASSUME NEW makefile \in Seq(RuleLine), NEW targets
  PROVE  LET q == ReadRules(makefile)
         IN  Targets(ToSet(filterOnTargets(q, RunTargets(makefile, targets))))
               = Targets(ToSet(q)) \cap Needed(makefile, targets)
<1> DEFINE q == ReadRules(makefile)
           run == RunTargets(makefile, targets)
           names == ToSet(run) \cup UNION {{r.target} \cup ToSet(r.deps) : r \in ToSet(q)}
           needed == Needed(makefile, targets)
           taken == ToSet(filterOnTargets(q, run))
<1>1. q \in Seq(Rule)
  BY ReadRulesType
<1>2. needed = {n \in names : \A S \in SUBSET names : IsClosed(S, q, run) => n \in S}
  BY NeededUnfold
<1> HIDE DEF q, run, needed
<1>3. /\ taken \subseteq ToSet(q)
      /\ \A closed : ClosedUnder(closed, ToSet(q)) /\ ToSet(run) \subseteq closed
                       => Targets(taken) \subseteq closed
      /\ \A r \in ToSet(q) \ taken : /\ r.target \notin ToSet(run)
                                     /\ \A v \in taken : r.target \notin ToSet(v.deps)
  BY <1>1, FilterFacts
<1> HIDE DEF taken
<1>4. ASSUME NEW r \in taken PROVE r.target \in needed
  <2>1. r \in ToSet(q) /\ r.target \in names
    BY <1>3
  <2>2. ASSUME NEW S \in SUBSET names, IsClosed(S, q, run) PROVE r.target \in S
    BY <1>3, <2>2 DEF IsClosed, Targets
  <2> HIDE DEF names
  <2>3. QED BY <1>2, <2>1, <2>2
<1>5. ASSUME NEW r \in ToSet(q), r.target \in needed PROVE r \in taken
  <2> DEFINE S == ToSet(run) \cup UNION {ToSet(v.deps) : v \in taken}
  <2>1. S \in SUBSET names
    BY <1>3
  <2>2. \A x \in ToSet(q) : x.target \in S => x \in taken
    BY <1>3
  <2>3. \A v \in taken : ToSet(v.deps) \subseteq S
    OBVIOUS
  <2>4. ToSet(run) \subseteq S
    OBVIOUS
  <2> HIDE DEF S, names
  <2>5. IsClosed(S, q, run)
    BY <2>2, <2>3, <2>4 DEF IsClosed, ClosedUnder
  <2>6. r.target \in S
    BY <1>2, <1>5, <2>1, <2>5
  <2>7. QED BY <2>2, <2>6
<1> HIDE DEF names
<1>6. Targets(taken) = Targets(ToSet(q)) \cap needed
  BY <1>3, <1>4, <1>5 DEF Targets
<1>7. QED BY <1>6 DEF q, run, needed, taken

\* What the parser hands over is a sequence of rules, for the targets that are
\* needed.
LEMMA ParsedFacts ==
  ASSUME NEW makefile \in Seq(RuleLine), NEW targets
  PROVE  LET parsed == parser_parse_makefile(makefile, targets)
         IN  /\ parsed \in Seq(Rule)
             /\ Targets(ToSet(parsed))
                  = Targets(ToSet(ReadRules(makefile))) \cap Needed(makefile, targets)
<1> DEFINE taken == filterOnTargets(ReadRules(makefile), RunTargets(makefile, targets))
<1>1. taken \in Seq(Rule)
  BY ReadRulesType, FilterFacts
<1>2. Targets(ToSet(taken)) = Targets(ToSet(ReadRules(makefile))) \cap Needed(makefile, targets)
  BY TakenFacts
<1>3. parser_parse_makefile(makefile, targets) = Callbacks(taken)
  BY DEF parser_parse_makefile
<1> HIDE DEF taken
<1>4. QED BY <1>1, <1>2, <1>3, CallbacksFacts

-----------------------------------------------------------------------------
(* Every rule is in one place.                                             *)

\* The positions of the rules for a name.
Pos(q, name) == {i \in DOMAIN q : q[i].target = name}

\* They are finitely many.
LEMMA PosFinite ==
  ASSUME NEW q \in Seq(Rule), NEW name PROVE IsFiniteSet(Pos(q, name)) /\ CountIn(q, name) \in Nat
<1>1. Pos(q, name) \in SUBSET Nat /\ Len(q) \in Nat /\ \A i \in Pos(q, name) : i <= Len(q)
  BY DEF Pos
<1>2. IsFiniteSet(Pos(q, name))
  BY <1>1, FS_BoundedSetOfNaturals
<1>3. QED BY <1>2, FS_CardinalityType DEF CountIn, Pos

\* A rule that is put at the end of a queue counts once.
LEMMA AppendCount ==
  ASSUME NEW q \in Seq(Rule), NEW r \in Rule, NEW name
  PROVE  CountIn(Append(q, r), name) =
           CountIn(q, name) + IF r.target = name THEN 1 ELSE 0
<1>1. IsFiniteSet(Pos(q, name)) /\ CountIn(q, name) \in Nat
  BY PosFinite
<1>2. /\ Pos(Append(q, r), name) =
           IF r.target = name THEN Pos(q, name) \cup {Len(q) + 1} ELSE Pos(q, name)
      /\ Len(q) + 1 \notin Pos(q, name)
  BY DEF Pos
<1>3. Cardinality(Pos(q, name) \cup {Len(q) + 1}) = Cardinality(Pos(q, name)) + 1
  BY <1>1, <1>2, FS_AddElement
<1>4. Cardinality(Pos(q, name)) \in Nat
  BY <1>1 DEF CountIn, Pos
<1>5. Cardinality(Pos(Append(q, r), name)) =
        Cardinality(Pos(q, name)) + IF r.target = name THEN 1 ELSE 0
  BY <1>2, <1>3, <1>4
<1>6. QED BY <1>5 DEF CountIn, Pos

\* A rule that is taken out of a queue counted once.
LEMMA RemoveCount ==
  ASSUME NEW q \in Seq(Rule), NEW p \in 1 .. Len(q), NEW name
  PROVE  CountIn(q, name) =
           CountIn([i \in 1 .. Len(q) - 1 |-> q[IF i < p THEN i ELSE i + 1]], name)
             + IF q[p].target = name THEN 1 ELSE 0
<1> DEFINE w == [i \in 1 .. Len(q) - 1 |-> q[IF i < p THEN i ELSE i + 1]]
           f == [i \in Pos(w, name) |-> IF i < p THEN i ELSE i + 1]
<1>1. w \in Seq(Rule) /\ DOMAIN w = 1 .. Len(q) - 1 /\ Len(q) \in Nat /\ p \in Nat
  BY RemovedFacts
<1>2. \A i \in 1 .. Len(q) - 1 : w[i] = q[IF i < p THEN i ELSE i + 1]
  OBVIOUS
<1> HIDE DEF w
<1>3. f \in [Pos(w, name) -> Pos(q, name) \ {p}]
  BY <1>1, <1>2 DEF Pos
<1>4. \A i, j \in Pos(w, name) : f[i] = f[j] => i = j
  BY <1>1 DEF Pos
<1>5. ASSUME NEW j \in Pos(q, name) \ {p} PROVE \E i \in Pos(w, name) : f[i] = j
  <2>1. j \in 1 .. Len(q) /\ j # p /\ q[j].target = name
    BY DEF Pos
  <2>2. CASE j < p
    <3>1. j \in Pos(w, name)
      BY <1>1, <1>2, <2>1, <2>2 DEF Pos
    <3>2. QED BY <2>2, <3>1
  <2>3. CASE j > p
    <3>1. j - 1 \in 1 .. Len(q) - 1 /\ ~ (j - 1 < p) /\ j - 1 + 1 = j
      BY <1>1, <2>1, <2>3
    <3>2. j - 1 \in Pos(w, name)
      BY <1>1, <1>2, <2>1, <3>1 DEF Pos
    <3>3. f[j - 1] = j
      BY <3>1, <3>2
    <3>4. QED BY <3>2, <3>3
  <2>4. QED BY <1>1, <2>1, <2>2, <2>3
<1>6. ExistsBijection(Pos(w, name), Pos(q, name) \ {p})
  <2> HIDE DEF f
  <2>1. f \in Bijection(Pos(w, name), Pos(q, name) \ {p})
    BY <1>3, <1>4, <1>5 DEF Bijection, Injection, Surjection, IsInjective
  <2>2. QED BY <2>1 DEF ExistsBijection
<1>7. Cardinality(Pos(q, name) \ {p}) = Cardinality(Pos(w, name))
  BY <1>1, <1>6, PosFinite, FS_Bijection
<1>8. p \in Pos(q, name) <=> q[p].target = name
  BY DEF Pos
<1>9. Cardinality(Pos(q, name) \ {p}) =
        IF p \in Pos(q, name) THEN Cardinality(Pos(q, name)) - 1 ELSE Cardinality(Pos(q, name))
  BY PosFinite, FS_RemoveElement
<1>10. Cardinality(Pos(q, name)) \in Nat /\ Cardinality(Pos(w, name)) \in Nat
  BY <1>1, PosFinite DEF CountIn, Pos
<1>11. Cardinality(Pos(q, name)) =
         Cardinality(Pos(w, name)) + IF q[p].target = name THEN 1 ELSE 0
  BY <1>7, <1>8, <1>9, <1>10
<1>12. QED BY <1>11 DEF CountIn, Pos, w

\* What the workers have in hand is finite.
LEMMA HeldFinite ==
  ASSUME NEW name
  PROVE  /\ IsFiniteSet({t \in InHand : rule_ptr[t].target = name})
         /\ CountHeld(name) \in Nat
<1>1. {t \in InHand : rule_ptr[t].target = name} \in SUBSET Workers
  BY DEF InHand
<1>2. IsFiniteSet({t \in InHand : rule_ptr[t].target = name})
  BY <1>1, WorkersAssumption, FS_Subset
<1>3. QED BY <1>2, FS_CardinalityType DEF CountHeld

\* The count of the rules left, in hand and done, for every name.
Count(name) == CountIn(new_rules, name) + CountIn(ready_rules, name) + CountHeld(name)

\* The workers start with rules.
LEMMA ParsedType == ASSUME input \in Inputs PROVE Parsed \in Seq(Rule)
<1>1. input.makefile \in Seq(RuleLine)
  BY InputsAssumption
<1>2. QED BY <1>1, ParsedFacts DEF Parsed

\* All rules are left when the workers start.
LEMMA InitCount ==
  ASSUME RunInit PROVE Parsed \in Seq(Rule) /\ InitWith(Parsed) /\ EachRuleOnce
<1>1. input \in Inputs /\ InitWith(Parsed)
  BY DEF RunInit
<1>2. Parsed \in Seq(Rule)
  BY <1>1, ParsedType
<1> HIDE DEF Parsed
<1>3. ASSUME NEW name \in Names PROVE CountIn(Parsed, name) = Count(name)
  <2>1. new_rules = Parsed /\ ready_rules = <<>> /\ InHand = {}
    BY <1>1 DEF InitWith, InHand, Busy
  <2>2. CountIn(ready_rules, name) = 0
    <3>1. {i \in DOMAIN ready_rules : ready_rules[i].target = name} = {}
      BY <2>1
    <3>2. QED BY <3>1, FS_EmptySet DEF CountIn
  <2>3. CountHeld(name) = 0
    <3>1. {t \in InHand : rule_ptr[t].target = name} = {}
      BY <2>1
    <3>2. QED BY <3>1, FS_EmptySet DEF CountHeld
  <2>4. CountIn(Parsed, name) \in Nat
    BY <1>2, PosFinite
  <2>5. QED BY <2>1, <2>2, <2>3, <2>4 DEF Count
<1>4. QED BY <1>1, <1>2, <1>3 DEF EachRuleOnce, Count

\* A worker that takes a rule takes it from new_rules (parmake.c:187-213).
LEMMA FetchCount ==
  ASSUME IInv, NEW t \in Workers, Fetch(t), NEW name PROVE Count(name)' = Count(name)
<1>a. TypeOK /\ HandAgrees
  BY DEF IInv
<1>1. PICK rule \in In(new_rules) :
        /\ pc[t] = "scan" /\ pos[t] \in DOMAIN new_rules /\ rule = new_rules[pos[t]]
        /\ new_rules' = [i \in 1 .. Len(new_rules) - 1 |->
                           new_rules[IF i < pos[t] THEN i ELSE i + 1]]
        /\ rule_ptr' = [rule_ptr EXCEPT ![t] = rule]
        /\ pc' = [pc EXCEPT ![t] = IF UpToDate(rule) THEN "finish" ELSE "run"]
        /\ ready_rules' = ready_rules
  BY DEF Fetch, At, Goto
<1>2. new_rules \in Seq(Rule) /\ pos[t] \in 1 .. Len(new_rules)
  BY <1>a, <1>1 DEF TypeOK
<1>3. CountIn(new_rules, name) =
        CountIn(new_rules', name) + IF rule.target = name THEN 1 ELSE 0
  <2>1. CountIn(new_rules, name) =
          CountIn([i \in 1 .. Len(new_rules) - 1 |->
                     new_rules[IF i < pos[t] THEN i ELSE i + 1]], name)
            + IF new_rules[pos[t]].target = name THEN 1 ELSE 0
    BY <1>2, RemoveCount, SMTT(30)
  <2>2. QED BY <1>1, <2>1
<1>4. new_rules' \in Seq(Rule)
  BY <1>1, <1>2, RemovedFacts
<1>5. CountHeld(name)' = CountHeld(name) + IF rule.target = name THEN 1 ELSE 0
  <2> DEFINE Q == {u \in InHand : rule_ptr[u].target = name}
  <2>1. Q' = (IF rule.target = name THEN Q \cup {t} ELSE Q) /\ t \notin Q
    BY <1>a, <1>1 DEF TypeOK, InHand, Busy
  <2>2. IsFiniteSet(Q) /\ Cardinality(Q) \in Nat
    BY HeldFinite DEF CountHeld
  <2>3. CountHeld(name)' = Cardinality(Q') /\ CountHeld(name) = Cardinality(Q)
    BY DEF CountHeld
  <2> HIDE DEF Q
  <2>4. Cardinality(Q \cup {t}) = Cardinality(Q) + 1
    BY <2>1, <2>2, FS_AddElement
  <2>5. QED BY <2>1, <2>2, <2>3, <2>4
<1>6. /\ CountIn(new_rules', name) \in Nat /\ CountIn(ready_rules, name) \in Nat
      /\ CountHeld(name) \in Nat
  BY <1>a, <1>4, PosFinite, HeldFinite DEF TypeOK
<1>7. /\ CountIn(new_rules, name)' = CountIn(new_rules', name)
      /\ CountIn(ready_rules, name)' = CountIn(ready_rules, name)
  BY <1>1 DEF CountIn
<1>8. QED BY <1>3, <1>5, <1>6, <1>7 DEF Count

\* A worker that has finished its rule hands it over (parmake.c:317-321).
LEMMA FinishCount ==
  ASSUME IInv, NEW t \in Workers, Finish(t), NEW name PROVE Count(name)' = Count(name)
<1>a. TypeOK /\ HandAgrees
  BY DEF IInv
<1>1. /\ pc[t] = "finish" /\ ready_rules' = Append(ready_rules, rule_ptr[t])
      /\ rule_ptr' = [rule_ptr EXCEPT ![t] = None]
      /\ pc' = [u \in Workers |-> IF u = t \/ pc[u] = "wait" THEN "lock" ELSE pc[u]]
      /\ new_rules' = new_rules
  BY DEF Finish
<1>2. ready_rules \in Seq(Rule) /\ rule_ptr[t] \in Rule
  BY <1>a, <1>1 DEF TypeOK, HandAgrees, Busy
<1>3. CountIn(ready_rules', name) =
        CountIn(ready_rules, name) + IF rule_ptr[t].target = name THEN 1 ELSE 0
  BY <1>1, <1>2, AppendCount
<1>4. CountHeld(name) = CountHeld(name)' + IF rule_ptr[t].target = name THEN 1 ELSE 0
  <2> DEFINE Q == {u \in InHand : rule_ptr[u].target = name}
  <2>1. Q' = Q \ {t} /\ (t \in Q <=> rule_ptr[t].target = name)
    BY <1>a, <1>1 DEF TypeOK, InHand, Busy
  <2>2. IsFiniteSet(Q) /\ Cardinality(Q) \in Nat
    BY HeldFinite DEF CountHeld
  <2>3. CountHeld(name)' = Cardinality(Q') /\ CountHeld(name) = Cardinality(Q)
    BY DEF CountHeld
  <2> HIDE DEF Q
  <2>4. Cardinality(Q \ {t}) = IF t \in Q THEN Cardinality(Q) - 1 ELSE Cardinality(Q)
    BY <2>2, FS_RemoveElement
  <2>5. QED BY <2>1, <2>2, <2>3, <2>4
<1>5. /\ CountIn(new_rules, name) \in Nat /\ CountIn(ready_rules, name) \in Nat
      /\ CountHeld(name) \in Nat
  BY <1>a, PosFinite, HeldFinite DEF TypeOK
<1>6. CountHeld(name)' \in Nat
  <2>1. {u \in InHand : rule_ptr[u].target = name}' \in SUBSET Workers
    BY DEF InHand
  <2>2. IsFiniteSet({u \in InHand : rule_ptr[u].target = name}')
    BY <2>1, WorkersAssumption, FS_Subset
  <2>3. QED BY <2>2, FS_CardinalityType DEF CountHeld
<1>7. /\ CountIn(new_rules, name)' = CountIn(new_rules, name)
      /\ CountIn(ready_rules, name)' = CountIn(ready_rules', name)
  BY <1>1 DEF CountIn
<1>8. QED BY <1>3, <1>4, <1>5, <1>6, <1>7 DEF Count

\* No other step moves a rule.
LEMMA OtherCount ==
  ASSUME IInv, NEW t \in Workers, NEW name,
         \/ Lock(t) \/ Pass(t) \/ FileMissing(t) \/ Nothing(t) \/ RunCommand(t)
         \/ CommandsDone(t) \/ CommandFails(t) \/ SpuriousWake(t)
  PROVE  Count(name)' = Count(name)
<1>1. TypeOK
  BY DEF IInv
<1>2. /\ new_rules' = new_rules /\ ready_rules' = ready_rules /\ rule_ptr' = rule_ptr
      /\ InHand' = InHand
  <2>1. CASE Lock(t)
    BY <1>1, <2>1 DEF TypeOK, Lock, Goto, rules, work, InHand, Busy
  <2>2. CASE Pass(t)
    BY <2>2 DEF Pass, rules, work, InHand
  <2>3. CASE FileMissing(t)
    BY <2>3 DEF FileMissing, rules, work, InHand
  <2>4. CASE Nothing(t)
    BY <1>1, <2>4 DEF TypeOK, Nothing, Goto, rules, work, InHand, Busy
  <2>5. CASE RunCommand(t)
    BY <2>5 DEF RunCommand, rules, InHand
  <2>6. CASE CommandsDone(t)
    BY <1>1, <2>6 DEF TypeOK, CommandsDone, Goto, rules, work, InHand, Busy
  <2>7. CASE CommandFails(t)
    BY <2>7 DEF CommandFails, rules, work, InHand
  <2>8. CASE SpuriousWake(t)
    BY <1>1, <2>8 DEF TypeOK, SpuriousWake, Goto, rules, work, InHand, Busy
  <2>9. QED BY <2>1, <2>2, <2>3, <2>4, <2>5, <2>6, <2>7, <2>8
<1>3. QED BY <1>2 DEF Count, CountIn, CountHeld

\* So every step keeps the count of every name.
LEMMA StepCount ==
  IInv /\ EachRuleOnce /\ [RunNext]_<<vars, input>> => EachRuleOnce'
<1> SUFFICES ASSUME IInv, EachRuleOnce, [RunNext]_<<vars, input>>, NEW name \in Names
             PROVE  Count(name)' = Count(name) /\ Parsed' = Parsed
  BY DEF EachRuleOnce, Count
<1>1. [Next]_vars /\ input' = input
  BY DEF RunNext
<1>2. Parsed' = Parsed
  BY <1>1 DEF Parsed
<1>3. ASSUME \E t \in Workers : Step(t) \/ CommandFails(t) \/ SpuriousWake(t)
      PROVE  Count(name)' = Count(name)
  BY <1>3, FetchCount, FinishCount, OtherCount DEF Step
<1>4. ASSUME UNCHANGED vars PROVE Count(name)' = Count(name)
  BY <1>4 DEF vars, Count, CountIn, CountHeld, InHand
<1>5. Count(name)' = Count(name)
  BY <1>1, <1>3, <1>4 DEF Next
<1>6. QED BY <1>2, <1>5

\* In a run of parmake the workers start with what the parser has handed over.
THEOREM RunInvariance == RunSpec => []IInv
<1>1. RunInit => Init
  BY InitCount DEF Init
<1>2. [RunNext]_<<vars, input>> => [Next]_vars
  BY DEF RunNext
<1>3. QED BY <1>1, <1>2, Invariance, PTL DEF RunSpec, Spec

\* However many workers there are and whenever they are interrupted, every rule
\* the parser handed over is left, in the hands of one worker, or done, and is
\* that once (parmake.c:187-213, 317-321).
THEOREM RulesMadeOnce == RunSpec => []EachRuleOnce
<1>1. RunInit => EachRuleOnce
  BY InitCount
<1>2. QED BY <1>1, StepCount, RunInvariance, PTL DEF RunSpec

\* all_targets has the names of the rules handed over (parmake.c:58).
LEMMA TargetsStay == RunSpec => [](all_targets = Targets(In(Parsed)))
<1>1. RunInit => all_targets = Targets(In(Parsed))
  BY DEF RunInit, InitWith, Targets
<1>2. all_targets = Targets(In(Parsed)) /\ [RunNext]_<<vars, input>>
        => (all_targets = Targets(In(Parsed)))'
  <2> SUFFICES ASSUME [RunNext]_<<vars, input>> PROVE all_targets' = all_targets /\ Parsed' = Parsed
    BY DEF Targets, In
  <2>1. [Next]_vars /\ input' = input
    BY DEF RunNext
  <2>2. all_targets' = all_targets
    BY <2>1 DEF Next, Step, Lock, Fetch, Pass, FileMissing, Nothing, RunCommand, CommandsDone,
                Finish, CommandFails, SpuriousWake, rules, vars
  <2>3. QED BY <2>1, <2>2 DEF Parsed
<1>3. QED BY <1>1, <1>2, PTL DEF RunSpec

\* A name has a rule in a queue if the queue counts one.
LEMMA CountTargets ==
  ASSUME NEW q \in Seq(Rule), NEW name
  PROVE  name \in Targets(In(q)) <=> CountIn(q, name) # 0
<1>1. name \in Targets(In(q)) <=> Pos(q, name) # {}
  BY DEF Targets, In, Pos
<1>2. Pos(q, name) # {} <=> Cardinality(Pos(q, name)) # 0
  BY PosFinite, FS_EmptySet
<1>3. QED BY <1>1, <1>2 DEF CountIn, Pos

\* A run is of one of the makefiles.
LEMMA InputStays == RunSpec => [](input \in Inputs)
<1>1. RunInit => input \in Inputs
  BY DEF RunInit
<1>2. input \in Inputs /\ [RunNext]_<<vars, input>> => (input \in Inputs)'
  BY DEF RunNext
<1>3. QED BY <1>1, <1>2, PTL DEF RunSpec

\* However many workers there are and whatever the makefile: while a rule is in
\* hand, of a dependency with one rule that rule is done, with all its commands
\* (parmake.c:143-185, 187-213).
THEOREM DepsFirst == RunSpec => []RunsAfterDeps
<1>1. ASSUME IInv, EachRuleOnce, input \in Inputs, all_targets = Targets(In(Parsed))
      PROVE  RunsAfterDeps
  <2>1. SUFFICES ASSUME NEW t \in InHand, NEW i \in DOMAIN rule_ptr[t].deps,
                        CountIn(Parsed, rule_ptr[t].deps[i]) <= 1
                 PROVE  /\ CountIn(new_rules, rule_ptr[t].deps[i]) = 0
                        /\ CountHeld(rule_ptr[t].deps[i]) = 0
    BY DEF RunsAfterDeps
  <2> DEFINE name == rule_ptr[t].deps[i]
  <2>2. new_rules \in Seq(Rule) /\ ready_rules \in Seq(Rule) /\ rule_ptr[t] \in Rule
    BY <1>1, <2>1 DEF IInv, TypeOK, HandAgrees, InHand
  <2>3. name \in Names
    <3>1. rule_ptr[t].deps \in Seq(Names)
      BY <2>2 DEF Rule
    <3>2. QED BY <2>1, <3>1
  <2>4. Parsed \in Seq(Rule)
    BY <1>1, ParsedType
  <2> HIDE DEF Parsed
  <2>5. CountIn(Parsed, name) = CountIn(new_rules, name) + CountIn(ready_rules, name)
                                  + CountHeld(name)
    BY <1>1, <2>3 DEF EachRuleOnce
  <2>6. /\ CountIn(new_rules, name) \in Nat /\ CountIn(ready_rules, name) \in Nat
        /\ CountHeld(name) \in Nat /\ CountIn(Parsed, name) \in Nat
    BY <1>1, <2>2, <2>4, PosFinite, HeldFinite
  <2>7. CASE CountIn(Parsed, name) = 0
    BY <2>5, <2>6, <2>7
  <2>8. CASE CountIn(Parsed, name) = 1
    <3>1. is_rule(name)
      BY <1>1, <2>4, <2>8, CountTargets DEF is_rule
    <3>2. name \in Targets(In(ready_rules))
      BY <1>1, <2>1, <3>1 DEF IInv, DepsReady, rule_is_ready, Targets
    <3>3. CountIn(ready_rules, name) # 0
      BY <2>2, <3>2, CountTargets
    <3>4. QED BY <2>5, <2>6, <2>8, <3>3
  <2>9. QED BY <2>1, <2>6, <2>7, <2>8
<1>2. QED BY <1>1, RunInvariance, RulesMadeOnce, InputStays, TargetsStay, PTL

\* Of a run that has returned, the rules done are those handed over.
LEMMA ReturnedFacts ==
  ASSUME IInv, EachRuleOnce, Returned, Parsed \in Seq(Rule)
  PROVE  Targets(In(ready_rules)) = Targets(In(Parsed))
<1>1. new_rules = <<>> /\ InHand = {} /\ ready_rules \in Seq(Rule)
  BY WorkersAssumption DEF IInv, TypeOK, HandAgrees, Returned, InHand, Busy
<1>2. ASSUME NEW name \in Names
      PROVE  name \in Targets(In(ready_rules)) <=> name \in Targets(In(Parsed))
  <2>1. CountIn(new_rules, name) = 0
    <3>1. {i \in DOMAIN new_rules : new_rules[i].target = name} = {}
      BY <1>1
    <3>2. QED BY <3>1, FS_EmptySet DEF CountIn
  <2>2. CountHeld(name) = 0
    <3>1. {t \in InHand : rule_ptr[t].target = name} = {}
      BY <1>1
    <3>2. QED BY <3>1, FS_EmptySet DEF CountHeld
  <2>3. CountIn(ready_rules, name) \in Nat
    BY <1>1, PosFinite
  <2> HIDE DEF Parsed
  <2>4. CountIn(Parsed, name) = CountIn(ready_rules, name)
    BY <2>1, <2>2, <2>3 DEF EachRuleOnce
  <2>5. QED BY <1>1, <2>4, CountTargets
<1>3. ASSUME NEW q \in Seq(Rule) PROVE Targets(In(q)) \subseteq Names
  <2>1. \A i \in DOMAIN q : q[i] \in Rule
    OBVIOUS
  <2>2. \A r \in Rule : r.target \in Names
    BY DEF Rule
  <2>3. QED BY <2>1, <2>2 DEF Targets, In
<1> HIDE DEF Parsed
<1>4. QED BY <1>1, <1>2, <1>3

\* When parmake returns 0 it has made the rules that the targets of the command
\* line need, by way of any number of dependencies, and no other rule
\* (parser.c:98-139, parmake.c:410-425).
THEOREM NeededMade == RunSpec => []MadeNeeded
<1>1. ASSUME IInv, EachRuleOnce, input \in Inputs PROVE MadeNeeded
  <2>1. SUFFICES ASSUME Returned
                 PROVE  Targets(In(ready_rules))
                          = Targets(In(ReadRules(input.makefile)))
                              \cap Needed(input.makefile, input.targets)
    BY DEF MadeNeeded, Targets
  <2>2. input.makefile \in Seq(RuleLine)
    BY <1>1, InputsAssumption
  <2>3. Targets(ToSet(Parsed)) = Targets(ToSet(ReadRules(input.makefile)))
                                   \cap Needed(input.makefile, input.targets)
    BY <2>2, ParsedFacts DEF Parsed
  <2>4. Targets(In(ready_rules)) = Targets(In(Parsed))
    BY <1>1, <2>1, ParsedType, ReturnedFacts
  <2>5. \A q : In(q) = ToSet(q)
    BY DEF In, ToSet
  <2>6. QED BY <2>3, <2>4, <2>5
<1>2. QED BY <1>1, RunInvariance, RulesMadeOnce, InputStays, PTL

-----------------------------------------------------------------------------
(* The allocator: sizes that are powers of two.                            *)

\* The sizes of the orders up to n.
Doublings(n, f) == f = [k \in 0 .. n |-> IF k = 0 THEN 1 ELSE 2 * f[k - 1]]

\* There is such a function for every n.
LEMMA DoublingsExist == \A n \in Nat : \E f : Doublings(n, f)
<1> SUFFICES ASSUME NEW n \in Nat PROVE \E f : Doublings(n, f)
  OBVIOUS
<1> DEFINE P == {k \in 0 .. n : \E f : Doublings(k, f)}
<1>1. 0 \in P
  <2>1. Doublings(0, [k \in 0 .. 0 |-> 1])
    BY DEF Doublings
  <2>2. QED BY <2>1
<1>2. ASSUME NEW k \in 1 .. n, k - 1 \in P PROVE k \in P
  <2>1. PICK f : Doublings(k - 1, f)
    BY <1>2
  <2> DEFINE g == [j \in 0 .. k |-> IF j < k THEN f[j] ELSE 2 * f[k - 1]]
  <2>2. ASSUME NEW j \in 0 .. k PROVE g[j] = IF j = 0 THEN 1 ELSE 2 * g[j - 1]
    <3>1. CASE j = 0
      BY <2>1, <3>1 DEF Doublings
    <3>2. CASE j # 0 /\ j < k
      <4>1. j \in 0 .. k - 1 /\ j - 1 \in 0 .. k
        BY <3>2
      <4>2. f[j] = 2 * f[j - 1]
        BY <2>1, <3>2, <4>1 DEF Doublings
      <4>3. QED BY <3>2, <4>1, <4>2
    <3>3. CASE j = k
      BY <3>3
    <3>4. QED BY <3>1, <3>2, <3>3
  <2>3. Doublings(k, g)
    BY <2>2 DEF Doublings
  <2>4. QED BY <2>3
<1>3. \A k \in 0 .. n : k \in P
  <2>1. \A k \in 1 .. n : k - 1 \in P => k \in P
    BY <1>2
  <2> HIDE DEF P
  <2>2. QED BY <1>1, <2>1, CountUp
<1>4. n \in P
  <2> HIDE DEF P
  <2>1. QED BY <1>3
<1>5. QED BY <1>4

\* Two of them agree where both are defined.
LEMMA DoublingsAgree ==
  ASSUME NEW n \in Nat, NEW m \in Nat, n <= m, NEW f, NEW g, Doublings(n, f), Doublings(m, g)
  PROVE  \A k \in 0 .. n : f[k] = g[k]
<1> DEFINE P == {k \in 0 .. n : f[k] = g[k]}
<1>1. 0 \in P
  BY DEF Doublings
<1>2. ASSUME NEW k \in 1 .. n, k - 1 \in P PROVE k \in P
  <2>1. k \in 0 .. n /\ k \in 0 .. m /\ k # 0
    OBVIOUS
  <2>2. f[k] = 2 * f[k - 1] /\ g[k] = 2 * g[k - 1]
    BY <2>1 DEF Doublings
  <2>3. QED BY <1>2, <2>1, <2>2
<1>3. \A k \in 0 .. n : k \in P
  <2>1. \A k \in 1 .. n : k - 1 \in P => k \in P
    BY <1>2
  <2> HIDE DEF P
  <2>2. QED BY <1>1, <2>1, CountUp
<1>4. QED BY <1>3

\* What the recursion of order2size defines.
LEMMA OrderStep ==
  \A k \in Nat : order2size[k] = IF k = 0 THEN 1 ELSE 2 * order2size[k - 1]
<1> DEFINE chain(n) == CHOOSE f : Doublings(n, f)
           g == [n \in Nat |-> chain(n)[n]]
<1>1. \A n \in Nat : Doublings(n, chain(n))
  BY DoublingsExist
<1>2. ASSUME NEW n \in Nat PROVE g[n] = IF n = 0 THEN 1 ELSE 2 * g[n - 1]
  <2>1. CASE n = 0
    <3>1. Doublings(0, chain(0)) /\ 0 \in 0 .. 0
      BY <1>1
    <3> HIDE DEF chain
    <3>2. chain(0)[0] = 1
      BY <3>1 DEF Doublings
    <3>3. QED BY <2>1, <3>2
  <2>2. CASE n # 0
    <3>1. n - 1 \in Nat /\ n - 1 <= n /\ n - 1 \in 0 .. n - 1 /\ n \in 0 .. n
      BY <2>2
    <3>2. Doublings(n, chain(n)) /\ Doublings(n - 1, chain(n - 1))
      BY <1>1, <3>1
    <3> HIDE DEF chain
    <3>3. chain(n - 1)[n - 1] = chain(n)[n - 1]
      BY <3>1, <3>2, DoublingsAgree
    <3>4. chain(n)[n] = 2 * chain(n)[n - 1]
      BY <2>2, <3>1, <3>2 DEF Doublings
    <3>5. QED BY <2>2, <3>1, <3>3, <3>4
  <2>3. QED BY <2>1, <2>2
<1> HIDE DEF chain
<1>3. g = [n \in Nat |-> IF n = 0 THEN 1 ELSE 2 * g[n - 1]]
  BY <1>2
<1> HIDE DEF g
<1>4. order2size = CHOOSE f : f = [k \in Nat |-> IF k = 0 THEN 1 ELSE 2 * f[k - 1]]
  BY DEF order2size
<1>5. order2size = [k \in Nat |-> IF k = 0 THEN 1 ELSE 2 * order2size[k - 1]]
  BY <1>3, <1>4
<1>6. QED BY <1>5

\* Each order's size is twice the one before, and is larger than the order.
LEMMA OrderFacts ==
  /\ order2size[0] = 1
  /\ \A k \in Nat : /\ order2size[k] \in Nat /\ order2size[k] > k
                     /\ order2size[k + 1] = 2 * order2size[k]
<1>1. ASSUME NEW n \in Nat PROVE order2size[n] \in Nat /\ order2size[n] > n
  <2> DEFINE P == {k \in 0 .. n : order2size[k] \in Nat /\ order2size[k] > k}
  <2>1. 0 \in P
    BY OrderStep
  <2>2. ASSUME NEW k \in 1 .. n, k - 1 \in P PROVE k \in P
    BY <2>2, OrderStep
  <2>3. \A k \in 0 .. n : k \in P
    <3>1. \A k \in 1 .. n : k - 1 \in P => k \in P
      BY <2>2
    <3> HIDE DEF P
    <3>2. QED BY <2>1, <3>1, CountUp
  <2>4. QED BY <2>3
<1>2. ASSUME NEW k \in Nat PROVE order2size[k + 1] = 2 * order2size[k]
  <2>1. k + 1 \in Nat /\ k + 1 # 0 /\ (k + 1) - 1 = k
    OBVIOUS
  <2>2. QED BY <2>1, OrderStep
<1>3. order2size[0] = 1
  BY OrderStep
<1>4. QED BY <1>1, <1>2, <1>3

\* x is a multiple of s.
Multiple(x, s) == \E q \in Nat : x = q * s

\* A larger order's size is a multiple of twice a smaller one's.
LEMMA OrderMultiple ==
  ASSUME NEW j \in Nat, NEW n \in Nat, j < n
  PROVE  /\ order2size[j] < order2size[n] /\ 2 * order2size[j] <= order2size[n]
         /\ Multiple(order2size[n], 2 * order2size[j])
<1> DEFINE u == 2 * order2size[j]
           P == {i \in 0 .. n - j - 1 : \E q \in Nat : q >= 1 /\ order2size[j + 1 + i] = q * u}
<1>1. u \in Nat /\ u = order2size[j + 1] /\ u > order2size[j] /\ u >= 1 /\ order2size[j] \in Nat
  BY OrderFacts
<1>2. 0 \in P
  <2>1. order2size[j + 1 + 0] = 1 * u
    BY <1>1
  <2>2. 0 \in 0 .. n - j - 1
    OBVIOUS
  <2> HIDE DEF u
  <2>3. QED BY <2>1, <2>2
<1>3. ASSUME NEW i \in 1 .. n - j - 1, i - 1 \in P PROVE i \in P
  <2> HIDE DEF u
  <2>1. PICK q \in Nat : q >= 1 /\ order2size[j + 1 + (i - 1)] = q * u
    BY <1>3
  <2>2. order2size[j + 1 + i] = 2 * order2size[j + 1 + (i - 1)]
    <3>1. j + 1 + (i - 1) \in Nat /\ (j + 1 + (i - 1)) + 1 = j + 1 + i
      OBVIOUS
    <3>2. QED BY <3>1, OrderFacts
  <2>3. 2 * (q * u) = (2 * q) * u
    BY <1>1
  <2>4. order2size[j + 1 + i] = (2 * q) * u /\ 2 * q \in Nat /\ 2 * q >= 1 /\ i \in 0 .. n - j - 1
    BY <2>1, <2>2, <2>3
  <2>5. QED BY <2>4
<1>4. \A i \in 0 .. n - j - 1 : i \in P
  <2>1. \A i \in 1 .. n - j - 1 : i - 1 \in P => i \in P
    BY <1>3
  <2>2. n - j - 1 \in Nat
    OBVIOUS
  <2> HIDE DEF P
  <2>3. QED BY <1>2, <2>1, <2>2, CountUp
<1>5. PICK q \in Nat : q >= 1 /\ order2size[n] = q * u
  <2>1. n - j - 1 \in 0 .. n - j - 1 /\ j + 1 + (n - j - 1) = n
    OBVIOUS
  <2>2. n - j - 1 \in P
    <3> HIDE DEF P
    <3>1. QED BY <1>4, <2>1
  <2> HIDE DEF u
  <2>3. PICK q \in Nat : q >= 1 /\ order2size[j + 1 + (n - j - 1)] = q * u
    BY <2>2
  <2>4. QED BY <2>1, <2>3
<1>6. Multiple(order2size[n], u)
  <2> HIDE DEF u
  <2>1. QED BY <1>5 DEF Multiple
<1>7. q * u >= u
  <2> HIDE DEF u
  <2>1. q = 1 + (q - 1) /\ (q - 1) * u >= 0 /\ q * u = u + (q - 1) * u
    BY <1>1, <1>5
  <2>2. QED BY <1>1, <2>1
<1>8. QED BY <1>1, <1>5, <1>6, <1>7

\* Sums, differences and multiples of multiples.
LEMMA MultipleSum ==
  ASSUME NEW s \in Nat, NEW x \in Nat, NEW y \in Nat, Multiple(x, s), Multiple(y, s)
  PROVE  Multiple(x + y, s) /\ (y <= x => Multiple(x - y, s))
<1>1. PICK q \in Nat, r \in Nat : x = q * s /\ y = r * s
  BY DEF Multiple
<1>2. x + y = (q + r) * s /\ x - y = (q - r) * s
  BY <1>1
<1>3. Multiple(x + y, s)
  <2>1. q + r \in Nat
    OBVIOUS
  <2>2. QED BY <1>2, <2>1 DEF Multiple
<1>4. ASSUME y <= x PROVE Multiple(x - y, s)
  <2>1. CASE r <= q
    <3>1. q - r \in Nat
      BY <2>1
    <3>2. QED BY <1>2, <3>1 DEF Multiple
  <2>2. CASE r > q
    <3>1. (r - q) * s >= 0 /\ (q - r) * s = 0 - (r - q) * s
      BY <2>2
    <3>2. x - y = 0 /\ 0 = 0 * s
      BY <1>2, <1>4, <3>1
    <3>3. QED BY <3>2 DEF Multiple
  <2>3. QED BY <2>1, <2>2
<1>5. QED BY <1>3, <1>4

\* A multiple of a multiple is one.
LEMMA MultipleTrans ==
  ASSUME NEW s \in Nat, NEW r \in Nat, NEW x \in Nat, Multiple(x, s), Multiple(s, r)
  PROVE  Multiple(x, r)
<1>1. PICK q \in Nat, p \in Nat : x = q * s /\ s = p * r
  BY DEF Multiple
<1>2. x = (q * p) * r /\ q * p \in Nat
  BY <1>1
<1>3. QED BY <1>2 DEF Multiple

\* A multiple that is not zero is no less than what it is a multiple of.
LEMMA MultipleLeast ==
  ASSUME NEW s \in Nat, NEW x \in Nat, Multiple(x, s), x < s
  PROVE  x = 0
<1>1. PICK q \in Nat : x = q * s
  BY DEF Multiple
<1>2. CASE q >= 1
  <2>1. (q - 1) * s >= 0 /\ q * s = s + (q - 1) * s
    BY <1>2
  <2>2. QED BY <1>1, <2>1
<1>3. CASE q = 0
  BY <1>1, <1>3
<1>4. QED BY <1>2, <1>3

\* The multiples are what leaves no remainder.
LEMMA MultipleMod ==
  ASSUME NEW s \in Nat \ {0}, NEW x \in Nat
  PROVE  (x % s = 0) <=> Multiple(x, s)
<1>1. ASSUME x % s = 0 PROVE Multiple(x, s)
  <2>1. x = s * (x \div s) /\ x \div s \in Nat
    BY <1>1
  <2>2. s * (x \div s) = (x \div s) * s
    BY <2>1
  <2>3. QED BY <2>1, <2>2 DEF Multiple
<1>2. ASSUME Multiple(x, s) PROVE x % s = 0
  <2>1. PICK q \in Nat : x = q * s
    BY <1>2 DEF Multiple
  <2>2. (q * s) % s = 0
    OBVIOUS
  <2>3. QED BY <2>1, <2>2
<1>3. QED BY <1>1, <1>2

\* The parity of a multiple tells which half of a pair lies there.
LEMMA MultipleParity ==
  ASSUME NEW s \in Nat \ {0}, NEW x \in Nat, Multiple(x, s)
  PROVE  /\ (x \div s) % 2 = 1 \/ Multiple(x, 2 * s)
         /\ (x \div s) % 2 = 1 => x >= s /\ Multiple(x - s, 2 * s)
         /\ Multiple(x, 2 * s) => (x \div s) % 2 # 1
         /\ x >= s /\ Multiple(x - s, 2 * s) => (x \div s) % 2 = 1
<1>1. PICK q \in Nat : x = q * s
  BY DEF Multiple
<1>2. x \div s = q
  <2>1. (q * s) \div s = q
    OBVIOUS
  <2>2. QED BY <1>1, <2>1
<1>3. ASSUME q % 2 # 1 PROVE Multiple(x, 2 * s)
  <2>1. PICK r \in Nat : q = 2 * r
    <3>1. q = 2 * (q \div 2) /\ q \div 2 \in Nat
      BY <1>3
    <3>2. QED BY <3>1
  <2>2. (2 * r) * s = r * (2 * s)
    OBVIOUS
  <2>3. QED BY <1>1, <2>1, <2>2 DEF Multiple
<1>4. ASSUME q % 2 = 1 PROVE x >= s /\ Multiple(x - s, 2 * s)
  <2>1. PICK r \in Nat : q = 2 * r + 1
    <3>1. q = 2 * (q \div 2) + 1 /\ q \div 2 \in Nat
      BY <1>4
    <3>2. QED BY <3>1
  <2>2. (2 * r + 1) * s = r * (2 * s) + s /\ r * (2 * s) >= 0 /\ r * (2 * s) \in Nat
    OBVIOUS
  <2>3. x - s = r * (2 * s) /\ x >= s
    BY <1>1, <2>1, <2>2
  <2>4. QED BY <2>3 DEF Multiple
<1>5. ASSUME Multiple(x, 2 * s) PROVE q % 2 # 1
  <2>1. PICK r \in Nat : x = r * (2 * s)
    BY <1>5 DEF Multiple
  <2>2. (r * (2 * s)) \div s = 2 * r
    <3>1. r * (2 * s) = (2 * r) * s /\ ((2 * r) * s) \div s = 2 * r
      OBVIOUS
    <3>2. QED BY <3>1
  <2>3. QED BY <1>2, <2>1, <2>2
<1>6. ASSUME x >= s, Multiple(x - s, 2 * s) PROVE q % 2 = 1
  <2>1. PICK r \in Nat : x - s = r * (2 * s)
    BY <1>6 DEF Multiple
  <2>2. x = (2 * r + 1) * s
    <3>1. r * (2 * s) + s = (2 * r + 1) * s
      OBVIOUS
    <3>2. QED BY <2>1, <3>1
  <2>3. ((2 * r + 1) * s) \div s = 2 * r + 1
    OBVIOUS
  <2>4. QED BY <1>2, <2>2, <2>3
<1>7. QED BY <1>2, <1>3, <1>4, <1>5, <1>6

\* The sizes that have a list.
LEMMA SizeFacts ==
  ASSUME NEW s \in BlockSizes
  PROVE  /\ s \in Nat /\ s >= 1 /\ IsPowerOfTwo(s)
         /\ \E k \in 0 .. MaxOrder : s = order2size[k]
         /\ \A t \in BlockSizes : s < t => 2 * s \in BlockSizes /\ 2 * s <= t /\ Multiple(t, 2 * s)
         /\ \A t \in BlockSizes : s <= t => Multiple(t, s)
<1>1. PICK k \in 0 .. MaxOrder : s = order2size[k]
  BY DEF BlockSizes
<1>2. k \in Nat /\ MaxOrder \in Nat
  BY OrderAssumption
<1>3. s \in Nat /\ s > k
  BY <1>1, <1>2, OrderFacts
<1>4. IsPowerOfTwo(s)
  <2>1. k \in 0 .. s
    BY <1>2, <1>3
  <2>2. QED BY <1>1, <2>1 DEF IsPowerOfTwo
<1>5. ASSUME NEW t \in BlockSizes, s < t
      PROVE  2 * s \in BlockSizes /\ 2 * s <= t /\ Multiple(t, 2 * s)
  <2>1. PICK n \in 0 .. MaxOrder : t = order2size[n]
    BY DEF BlockSizes
  <2>2. n \in Nat
    BY <1>2
  <2>3. k < n
    <3>1. CASE n < k
      <4>1. order2size[n] < order2size[k]
        BY <1>2, <2>2, <3>1, OrderMultiple
      <4>2. t \in Nat
        BY <2>1, <2>2, OrderFacts
      <4>3. QED BY <1>1, <1>3, <1>5, <2>1, <4>1, <4>2
    <3>2. CASE n = k
      BY <1>1, <1>3, <1>5, <2>1, <3>2
    <3>3. QED BY <1>2, <2>2, <3>1, <3>2
  <2>4. k + 1 \in 0 .. MaxOrder /\ order2size[k + 1] = 2 * s
    BY <1>1, <1>2, <2>2, <2>3, OrderFacts
  <2>5. 2 * s \in BlockSizes
    BY <2>4 DEF BlockSizes
  <2>6. QED BY <1>1, <1>2, <2>1, <2>2, <2>3, <2>5, OrderMultiple
<1>6. ASSUME NEW t \in BlockSizes, s <= t PROVE Multiple(t, s)
  <2>1. t \in Nat
    <3>1. PICK n \in 0 .. MaxOrder : t = order2size[n]
      BY DEF BlockSizes
    <3>2. n \in Nat
      BY <1>2
    <3>3. QED BY <3>1, <3>2, OrderFacts
  <2>2. CASE s = t
    <3>1. s = 1 * s
      BY <1>3
    <3>2. QED BY <2>2, <3>1 DEF Multiple
  <2>3. CASE s < t
    <3>1. Multiple(t, 2 * s) /\ Multiple(2 * s, s)
      BY <1>5, <2>3 DEF Multiple
    <3>2. 2 * s \in Nat
      BY <1>3
    <3>3. QED BY <1>3, <2>1, <3>1, <3>2, MultipleTrans
  <2>4. QED BY <1>3, <1>6, <2>1, <2>2, <2>3
<1>7. QED BY <1>1, <1>2, <1>3, <1>4, <1>5, <1>6

\* Of an order that is not the lowest, the size's half is that of the order before.
LEMMA HalfSize ==
  ASSUME NEW k \in 0 .. MaxOrder, NEW s, s = order2size[k], s # 1
  PROVE  /\ k >= 1 /\ s \div 2 = order2size[k - 1] /\ s \div 2 \in BlockSizes
         /\ s = 2 * (s \div 2) /\ s \in BlockSizes
<1>1. k \in Nat /\ MaxOrder \in Nat
  BY OrderAssumption
<1>2. k # 0
  BY OrderFacts
<1>3. k - 1 \in Nat /\ (k - 1) + 1 = k /\ k - 1 \in 0 .. MaxOrder
  BY <1>1, <1>2
<1>4. order2size[k] = 2 * order2size[k - 1] /\ order2size[k - 1] \in Nat
  BY <1>3, OrderFacts
<1>5. s \div 2 = order2size[k - 1]
  BY <1>4
<1>6. QED BY <1>1, <1>2, <1>3, <1>4, <1>5 DEF BlockSizes

\* A size that is twice that of an order is that of the next one.
LEMMA TwiceSize ==
  ASSUME NEW k \in 0 .. MaxOrder, NEW s, s = order2size[k], 2 * s \in BlockSizes
  PROVE  k + 1 \in 0 .. MaxOrder /\ 2 * s = order2size[k + 1]
<1>1. k \in Nat /\ MaxOrder \in Nat
  BY OrderAssumption
<1>2. order2size[k + 1] = 2 * s /\ s \in Nat
  BY <1>1, OrderFacts
<1>3. PICK n \in 0 .. MaxOrder : 2 * s = order2size[n]
  BY DEF BlockSizes
<1>4. CASE n < k + 1
  <2>1. order2size[n] < order2size[k + 1] /\ order2size[n] \in Nat /\ order2size[k + 1] \in Nat
    BY <1>1, <1>4, OrderMultiple, OrderFacts
  <2>2. QED BY <1>2, <1>3, <2>1
<1>5. QED BY <1>1, <1>2, <1>3, <1>4

-----------------------------------------------------------------------------
(* The headers of the blocks of a heap of t units, by address.             *)

\* An area begins with a block, and all its blocks say that they are in it.
AreaOf(hd, b, t) ==
  LET head == hd[b].area_head
      end  == hd[b].area_end
  IN  /\ end - head \in BlockSizes
      /\ head \in DOMAIN hd /\ head <= b /\ b + hd[b].size <= end /\ end <= t
      /\ Multiple(b - head, hd[b].size)
      /\ \A c \in DOMAIN hd :
           head <= c /\ c < end => hd[c].area_head = head /\ hd[c].area_end = end

\* g is a function.
IsFunction(g) == g = [b \in DOMAIN g |-> g[b]]

\* Headers in a memory of t cells, each with a size that has a list.
GridType(hd, t) ==
  /\ t \in Nat /\ DOMAIN hd \subseteq 0 .. t - 1 /\ hd \in [DOMAIN hd -> HeaderRecord]
  /\ \A b \in DOMAIN hd : hd[b].size \in BlockSizes /\ b + hd[b].size <= t

\* Blocks side by side, from one end of the heap to the other.
Side(hd, t) ==
  /\ \A x \in 0 .. t - 1 : \E b \in DOMAIN hd : b <= x /\ x < b + hd[b].size
  /\ \A b, c \in DOMAIN hd : b < c => b + hd[b].size <= c

\* The headers are those of blocks that fill the memory, in areas.
Grid(hd, t) == GridType(hd, t) /\ Side(hd, t) /\ \A b \in DOMAIN hd : AreaOf(hd, b, t)

\* buddy_address, by the headers.
BuddyOf(hd, b) ==
  LET head  == hd[b].area_head
      size  == hd[b].size
      buddy == IF ((b - head) \div size) % 2 = 1 THEN b - size ELSE b + size
  IN  IF buddy < head \/ buddy >= hd[b].area_end THEN NoBlock ELSE buddy

\* The numbers in a header.
LEMMA GridNumbers ==
  ASSUME NEW t, NEW hd, GridType(hd, t), NEW b \in DOMAIN hd
  PROVE  /\ t \in Nat /\ b \in Nat /\ b < t
         /\ hd[b] \in HeaderRecord /\ hd[b].occupy \in BOOLEAN
         /\ hd[b].size \in BlockSizes /\ hd[b].size \in Nat /\ hd[b].size >= 1
         /\ b + hd[b].size <= t
         /\ hd[b].area_head \in Nat /\ hd[b].area_end \in Nat
<1>1. hd[b] \in HeaderRecord /\ hd[b].size \in BlockSizes /\ b + hd[b].size <= t
  BY DEF GridType
<1>2. b \in 0 .. t - 1 /\ t \in Nat
  BY DEF GridType
<1>3. hd[b].size \in Nat /\ hd[b].size >= 1
  BY <1>1, SizeFacts
<1>4. QED BY <1>1, <1>2, <1>3 DEF HeaderRecord

\* Where the buddy of a block lies: the two are the halves of a block that would
\* lie in the area, at a multiple of its size.
PairAt(hd, b, y, z) ==
  LET s    == hd[b].size
      head == hd[b].area_head
  IN  /\ 2 * s \in BlockSizes /\ z \in Nat /\ y \in Nat
      /\ (b = z /\ y = z + s) \/ (y = z /\ b = z + s)
      /\ head <= z /\ z + 2 * s <= hd[b].area_end
      /\ Multiple(z - head, 2 * s)

\* A block and its buddy are the halves of a block of the area, of twice the
\* size.
LEMMA BuddyPair ==
  ASSUME NEW t, NEW hd, Grid(hd, t), NEW b \in DOMAIN hd, BuddyOf(hd, b) # NoBlock
  PROVE  \E z : PairAt(hd, b, BuddyOf(hd, b), z) /\ z = Smaller(BuddyOf(hd, b), b)
<1> DEFINE s == hd[b].size
           head == hd[b].area_head
           end == hd[b].area_end
           y == BuddyOf(hd, b)
           parity == ((b - head) \div s) % 2
<1>1. /\ b \in Nat /\ s \in BlockSizes /\ s \in Nat \ {0} /\ head \in Nat /\ end \in Nat
      /\ head <= b /\ b + s <= end /\ Multiple(b - head, s) /\ end - head \in BlockSizes
  BY GridNumbers DEF Grid, AreaOf
<1>2. y = (IF parity = 1 THEN b - s ELSE b + s) /\ ~ (y < head \/ y >= end)
  BY DEF BuddyOf
<1>3. /\ parity = 1 \/ Multiple(b - head, 2 * s)
      /\ parity = 1 => b - head >= s /\ Multiple((b - head) - s, 2 * s)
  <2>1. b - head \in Nat
    BY <1>1
  <2> HIDE DEF s, head
  <2>2. QED BY <1>1, <2>1, MultipleParity
<1> HIDE DEF s, head, end, y, parity
<1>4. s < end - head
  BY <1>1, <1>2, <1>3
<1>5. 2 * s \in BlockSizes /\ Multiple(end - head, 2 * s)
  BY <1>1, <1>4, SizeFacts
<1>6. CASE parity = 1
  <2>1. y = b - s /\ head <= y /\ (b - head) - s = y - head /\ b = y + s
    BY <1>1, <1>2, <1>3, <1>6
  <2>2. Multiple(y - head, 2 * s) /\ y + 2 * s <= end /\ y \in Nat
    BY <1>1, <1>3, <1>6, <2>1
  <2>3. Smaller(y, b) = y
    BY <1>1, <2>1 DEF Smaller
  <2>4. QED BY <1>5, <2>1, <2>2, <2>3 DEF PairAt, s, head, end, y
<1>7. CASE parity # 1
  <2>1. y = b + s /\ y < end /\ Multiple(b - head, 2 * s)
    BY <1>1, <1>2, <1>3, <1>7
  <2>2. b + 2 * s <= end
    <3>1. Multiple((end - head) - (b - head), 2 * s)
      BY <1>1, <1>5, <2>1, MultipleSum
    <3>2. (end - head) - (b - head) = end - b /\ end - b \in Nat /\ end - b # 0
      BY <1>1
    <3>3. ~ (end - b < 2 * s)
      BY <1>1, <3>1, <3>2, MultipleLeast
    <3>4. QED BY <1>1, <3>3
  <2>3. Smaller(y, b) = b /\ y \in Nat
    BY <1>1, <2>1 DEF Smaller
  <2>4. QED BY <1>1, <1>5, <2>1, <2>2, <2>3 DEF PairAt, s, head, end, y
<1>8. QED BY <1>6, <1>7

\* The other half is a block too, or is divided into smaller ones.
LEMMA BuddyBlock ==
  ASSUME NEW t, NEW hd, Grid(hd, t), NEW b \in DOMAIN hd, NEW y, NEW z, PairAt(hd, b, y, z)
  PROVE  /\ y \in DOMAIN hd /\ hd[y].size <= hd[b].size
         /\ hd[y].area_head = hd[b].area_head /\ hd[y].area_end = hd[b].area_end
<1> DEFINE s == hd[b].size
           head == hd[b].area_head
           end == hd[b].area_end
<1>1. /\ t \in Nat /\ b \in Nat /\ s \in BlockSizes /\ s \in Nat \ {0} /\ head \in Nat /\ end \in Nat
      /\ head <= b /\ b + s <= end /\ head \in DOMAIN hd /\ b + s <= t
      /\ \A c \in DOMAIN hd :
           head <= c /\ c < end => hd[c].area_head = head /\ hd[c].area_end = end
  BY GridNumbers DEF Grid, AreaOf
<1>2. /\ 2 * s \in BlockSizes /\ z \in Nat /\ y \in Nat
      /\ (b = z /\ y = z + s) \/ (y = z /\ b = z + s)
      /\ head <= z /\ z + 2 * s <= end /\ Multiple(z - head, 2 * s)
  BY DEF PairAt
<1>3. end <= t
  BY DEF Grid, AreaOf
<1>4. PICK c \in DOMAIN hd : c <= y /\ y < c + hd[c].size
  <2>1. y \in 0 .. t - 1
    BY <1>1, <1>2, <1>3
  <2>2. QED BY <2>1 DEF Grid, Side
<1> DEFINE r == hd[c].size
<1>5. /\ c \in Nat /\ r \in BlockSizes /\ r \in Nat \ {0}
      /\ c + r <= b \/ b + s <= c \/ b = c
  BY <1>1, GridNumbers DEF Grid, Side
<1>6. head <= c
  <2>1. ASSUME c < head PROVE FALSE
    <3>1. c + r <= head
      BY <1>1, <2>1 DEF Grid, Side
    <3>2. QED BY <1>1, <1>2, <1>4, <1>5, <3>1
  <2>2. QED BY <1>1, <1>5, <2>1
<1>7. hd[c].area_head = head /\ hd[c].area_end = end /\ Multiple(c - head, r)
  <2>1. c < end
    BY <1>1, <1>2, <1>4, <1>5
  <2>2. hd[c].area_head = head /\ hd[c].area_end = end
    BY <1>1, <1>6, <2>1
  <2>3. QED BY <2>2 DEF Grid, AreaOf
<1> HIDE DEF s, head, end, r
<1>8. r <= s
  <2>1. ASSUME s < r PROVE FALSE
    <3>1. Multiple(r, 2 * s) /\ 2 * s \in Nat
      BY <1>1, <1>5, <2>1, SizeFacts
    <3>2. Multiple(c - head, 2 * s) /\ c - head \in Nat
      BY <1>5, <1>6, <1>7, <1>1, <3>1, MultipleTrans
    <3>3. y < c + r /\ c <= y
      BY <1>4 DEF r
    <3>4. c <= z
      <4>1. ASSUME z < c PROVE FALSE
        <5>1. Multiple((c - head) - (z - head), 2 * s)
          BY <1>1, <1>2, <1>5, <3>1, <3>2, <4>1, MultipleSum
        <5>2. (c - head) - (z - head) = c - z /\ c - z \in Nat /\ c - z # 0 /\ c - z < 2 * s
          BY <1>1, <1>2, <1>5, <3>3, <4>1
        <5>3. QED BY <3>1, <5>1, <5>2, MultipleLeast
      <4>2. QED BY <1>2, <1>5, <4>1
    <3>5. z + 2 * s <= c + r
      <4>1. Multiple((c - head) + r, 2 * s)
        BY <1>5, <3>1, <3>2, MultipleSum
      <4>2. z - head \in Nat /\ (c - head) + r \in Nat
        BY <1>1, <1>2, <1>5, <3>2
      <4>3. z < c + r
        BY <1>1, <1>2, <1>5, <3>3
      <4>4. Multiple(((c - head) + r) - (z - head), 2 * s)
        BY <1>1, <1>2, <1>5, <3>1, <4>1, <4>2, <4>3, MultipleSum
      <4>5. ((c - head) + r) - (z - head) = (c + r) - z /\ (c + r) - z \in Nat /\ (c + r) - z # 0
        BY <1>1, <1>2, <1>5, <4>3
      <4>6. ~ ((c + r) - z < 2 * s)
        BY <3>1, <4>4, <4>5, MultipleLeast
      <4>7. QED BY <1>1, <1>2, <1>5, <4>6
    <3>6. c <= b /\ b < c + r
      BY <1>1, <1>2, <1>5, <3>4, <3>5
    <3>7. b = c
      BY <1>1, <1>5, <3>6
    <3>8. r = s
      BY <3>7 DEF r, s
    <3>9. QED BY <1>1, <2>1, <3>8
  <2>2. QED BY <1>1, <1>5, <2>1
<1>9. Multiple(s, r)
  BY <1>1, <1>5, <1>8, SizeFacts
<1>10. Multiple(y - head, r) /\ y - head \in Nat
  <2>1. Multiple(z - head, s) /\ z - head \in Nat
    <3>1. z - head \in Nat /\ 2 * s \in Nat /\ Multiple(2 * s, s)
      BY <1>1, <1>2 DEF Multiple
    <3>2. QED BY <1>1, <1>2, <3>1, MultipleTrans
  <2>2. Multiple(z - head, r)
    BY <1>1, <1>5, <1>9, <2>1, MultipleTrans
  <2>3. Multiple((z - head) + s, r)
    BY <1>1, <1>5, <1>9, <2>1, <2>2, MultipleSum
  <2>4. y = z \/ y - head = (z - head) + s
    BY <1>1, <1>2
  <2>5. y - head \in Nat
    BY <1>1, <1>2
  <2>6. QED BY <2>2, <2>3, <2>4, <2>5
<1>11. c = y
  <2>1. c - head \in Nat /\ c - head <= y - head /\ c <= y /\ y < c + r
    BY <1>1, <1>2, <1>4, <1>5, <1>6 DEF r
  <2>2. Multiple((y - head) - (c - head), r)
    BY <1>5, <1>7, <1>10, <2>1, MultipleSum
  <2>3. (y - head) - (c - head) = y - c /\ y - c \in Nat /\ y - c < r
    BY <1>1, <1>2, <1>5, <2>1
  <2>4. y - c = 0
    BY <1>5, <2>2, <2>3, MultipleLeast
  <2>5. QED BY <1>2, <1>5, <2>4
<1>12. QED BY <1>4, <1>7, <1>8, <1>11 DEF r, s, head, end

\* Of two buddies of one size each is the other's.
LEMMA BuddyBack ==
  ASSUME NEW t, NEW hd, Grid(hd, t), NEW b \in DOMAIN hd, NEW y, NEW z, PairAt(hd, b, y, z),
         hd[y].size = hd[b].size
  PROVE  BuddyOf(hd, y) = b
<1> DEFINE s == hd[b].size
           head == hd[b].area_head
           end == hd[b].area_end
           parity == ((y - head) \div s) % 2
<1>1. y \in DOMAIN hd /\ hd[y].size = s /\ hd[y].area_head = head /\ hd[y].area_end = end
  BY BuddyBlock
<1>2. /\ b \in Nat /\ s \in Nat \ {0} /\ head \in Nat /\ end \in Nat
      /\ head <= b /\ b + s <= end
  BY GridNumbers DEF Grid, AreaOf
<1>3. /\ z \in Nat /\ y \in Nat
      /\ (b = z /\ y = z + s) \/ (y = z /\ b = z + s)
      /\ head <= z /\ z + 2 * s <= end /\ Multiple(z - head, 2 * s)
  BY DEF PairAt
<1>4. BuddyOf(hd, y) = LET x == IF parity = 1 THEN y - s ELSE y + s
                       IN  IF x < head \/ x >= end THEN NoBlock ELSE x
  BY <1>1 DEF BuddyOf
<1>5. Multiple(y - head, s) /\ y - head \in Nat
  <2>1. AreaOf(hd, y, t) /\ y - head \in Nat
    BY <1>1, <1>2, <1>3 DEF Grid
  <2>2. QED BY <1>1, <2>1 DEF AreaOf
<1> HIDE DEF s, head, end
<1>6. /\ Multiple(y - head, 2 * s) => parity # 1
      /\ y - head >= s /\ Multiple((y - head) - s, 2 * s) => parity = 1
  BY <1>2, <1>5, MultipleParity
<1> HIDE DEF parity
<1>7. CASE b = z /\ y = z + s
  <2>1. y - head >= s /\ (y - head) - s = z - head
    BY <1>2, <1>3, <1>7
  <2>2. parity = 1
    BY <1>3, <1>6, <2>1
  <2>3. y - s = b /\ ~ (b < head) /\ ~ (b >= end)
    BY <1>2, <1>3, <1>7
  <2>4. QED BY <1>4, <2>2, <2>3
<1>8. CASE y = z /\ b = z + s
  <2>1. parity # 1
    BY <1>3, <1>6, <1>8
  <2>2. y + s = b /\ ~ (b < head) /\ ~ (b >= end)
    BY <1>2, <1>3, <1>8
  <2>3. QED BY <1>4, <2>1, <2>2
<1>9. QED BY <1>3, <1>7, <1>8

\* A block is divided into two halves, of which the one at the back is free.
Halved(hd, f, half) ==
  [b \in DOMAIN hd \cup {f + half} |->
     IF b = f THEN [hd[f] EXCEPT !.size = half]
     ELSE IF b = f + half THEN [hd[f] EXCEPT !.size = half, !.occupy = FALSE]
     ELSE hd[b]]

\* What the headers are after block f is halved.
IsHalved(hd, f, half, g) ==
  /\ DOMAIN g = DOMAIN hd \cup {f + half} /\ f + half \notin DOMAIN hd /\ f + half # f
  /\ g[f] \in HeaderRecord /\ g[f].size = half /\ g[f].occupy = hd[f].occupy
  /\ g[f].area_head = hd[f].area_head /\ g[f].area_end = hd[f].area_end
  /\ g[f + half] \in HeaderRecord /\ g[f + half].size = half /\ ~ g[f + half].occupy
  /\ g[f + half].area_head = hd[f].area_head /\ g[f + half].area_end = hd[f].area_end
  /\ \A b \in DOMAIN hd \ {f} : g[b] = hd[b]

\* They are, in Halved.
LEMMA HalvedFacts ==
  ASSUME NEW t, NEW hd, Grid(hd, t), NEW f \in DOMAIN hd, NEW half \in BlockSizes,
         hd[f].size = 2 * half
  PROVE  IsHalved(hd, f, half, Halved(hd, f, half))
<1> DEFINE g == Halved(hd, f, half)
<1>1. half \in Nat /\ half >= 1 /\ f \in Nat /\ hd[f] \in HeaderRecord
  BY SizeFacts, GridNumbers DEF Grid
<1>2. f + half \notin DOMAIN hd /\ f + half # f
  <2>1. ASSUME f + half \in DOMAIN hd PROVE FALSE
    <3>1. f < f + half
      BY <1>1
    <3>2. f + hd[f].size <= f + half
      BY <2>1, <3>1 DEF Grid, Side
    <3>3. QED BY <1>1, <3>2
  <2>2. QED BY <1>1, <2>1
<1>3. DOMAIN g = DOMAIN hd \cup {f + half} /\ g[f] = [hd[f] EXCEPT !.size = half]
  BY DEF Halved
<1>4. g[f + half] = [hd[f] EXCEPT !.size = half, !.occupy = FALSE]
  BY <1>2 DEF Halved
<1>5. \A b \in DOMAIN hd \ {f} : g[b] = hd[b]
  BY <1>2 DEF Halved
<1> HIDE DEF g
<1>6. QED BY <1>1, <1>2, <1>3, <1>4, <1>5 DEF HeaderRecord, IsHalved, g

\* Halves of a block are blocks that fill its place.
LEMMA HalvedGrid ==
  ASSUME NEW t, NEW hd, Grid(hd, t), NEW f \in DOMAIN hd, NEW half,
         hd[f].size = 2 * half, half \in BlockSizes, NEW g, IsFunction(g),
         IsHalved(hd, f, half, g)
  PROVE  Grid(g, t)
<1> DEFINE w == f + half
           head == hd[f].area_head
           end == hd[f].area_end
<1>1. /\ DOMAIN g = DOMAIN hd \cup {w} /\ w \notin DOMAIN hd /\ w # f
      /\ g[f] \in HeaderRecord /\ g[w] \in HeaderRecord
      /\ g[f].size = half /\ g[f].area_head = head /\ g[f].area_end = end
      /\ g[w].size = half /\ g[w].area_head = head /\ g[w].area_end = end
      /\ \A b \in DOMAIN hd \ {f} : g[b] = hd[b]
  BY DEF IsHalved
<1>2. /\ half \in Nat /\ half >= 1 /\ f \in Nat /\ hd[f] \in HeaderRecord /\ t \in Nat
      /\ f + 2 * half <= t /\ head \in Nat /\ end \in Nat /\ w \in Nat
  BY SizeFacts, GridNumbers DEF Grid
<1>4. GridType(g, t)
  <2>1. g[f] \in HeaderRecord /\ g[w] \in HeaderRecord
    BY <1>1
  <2>2. w \in 0 .. t - 1
    BY <1>2
  <2>3. GridType(hd, t)
    BY DEF Grid
  <2>4. \A b \in DOMAIN g : g[b] \in HeaderRecord
    BY <1>1, <2>1, <2>3 DEF GridType
  <2>5. DOMAIN g \subseteq 0 .. t - 1
    BY <1>1, <2>2, <2>3 DEF GridType
  <2>6. \A b \in DOMAIN g : g[b].size \in BlockSizes /\ b + g[b].size <= t
    <3>1. f + half <= t /\ w + half <= t
      BY <1>2
    <3>2. QED BY <1>1, <2>3, <3>1 DEF GridType
  <2>7. QED BY <1>2, <2>4, <2>5, <2>6 DEF GridType, IsFunction
<1>5. Side(g, t)
  <2>1. ASSUME NEW x \in 0 .. t - 1 PROVE \E b \in DOMAIN g : b <= x /\ x < b + g[b].size
    <3>1. PICK b \in DOMAIN hd : b <= x /\ x < b + hd[b].size
      BY DEF Grid, Side
    <3>2. CASE b # f
      BY <1>1, <3>1, <3>2
    <3>3. CASE b = f
      <4>1. (f <= x /\ x < f + half) \/ (w <= x /\ x < w + half)
        BY <1>2, <3>1, <3>3
      <4>2. QED BY <1>1, <4>1
    <3>4. QED BY <3>2, <3>3
  <2>2. ASSUME NEW b \in DOMAIN g, NEW c \in DOMAIN g, b < c PROVE b + g[b].size <= c
    <3>1. \A x \in DOMAIN hd : x \in Nat /\ hd[x].size \in Nat
      BY GridNumbers DEF Grid
    <3>2. CASE b \in DOMAIN hd \ {f} /\ c \in DOMAIN hd
      BY <1>1, <2>2, <3>2 DEF Grid, Side
    <3>3. CASE b \in DOMAIN hd \ {f} /\ c = w
      <4>1. b < f
        <5>1. ASSUME f < b PROVE FALSE
          <6>1. f + 2 * half <= b
            BY <3>3, <5>1 DEF Grid, Side
          <6>2. QED BY <1>2, <2>2, <3>1, <3>3, <6>1
        <5>2. QED BY <1>2, <3>1, <3>3, <5>1
      <4>2. b + hd[b].size <= f
        BY <3>3, <4>1 DEF Grid, Side
      <4>3. QED BY <1>1, <1>2, <3>1, <3>3, <4>2
    <3>4. CASE b = f /\ c = w
      BY <1>1, <1>2, <3>4
    <3>5. CASE b = f /\ c \in DOMAIN hd
      <4>1. f + 2 * half <= c
        BY <2>2, <3>5 DEF Grid, Side
      <4>2. QED BY <1>1, <1>2, <3>1, <3>5, <4>1
    <3>6. CASE b = w /\ c \in DOMAIN hd
      <4>1. f < c
        BY <1>2, <2>2, <3>1, <3>6
      <4>2. f + 2 * half <= c
        BY <3>6, <4>1 DEF Grid, Side
      <4>3. QED BY <1>1, <1>2, <3>1, <3>6, <4>2
    <3>7. CASE b = w /\ c = w
      BY <1>2, <2>2, <3>7
    <3>8. QED BY <1>1, <3>2, <3>3, <3>4, <3>5, <3>6, <3>7
  <2>3. QED BY <2>1, <2>2 DEF Side
<1>6. ASSUME NEW b \in DOMAIN g PROVE AreaOf(g, b, t)
  <2>1. AreaOf(hd, f, t) /\ \A x \in DOMAIN hd : AreaOf(hd, x, t)
    BY DEF Grid
  <2>2. head <= f /\ f + 2 * half <= end
    BY <2>1 DEF AreaOf
  <2>3. CASE b \in DOMAIN hd \ {f}
    <3> DEFINE a == hd[b].area_head
               e == hd[b].area_end
    <3>1. g[b] = hd[b] /\ AreaOf(hd, b, t)
      BY <1>1, <2>1, <2>3
    <3>2. a \in Nat /\ e \in Nat
      BY <2>3, GridNumbers DEF Grid
    <3>3. /\ a \in DOMAIN hd /\ e <= t /\ e - a \in BlockSizes /\ a <= b /\ b + hd[b].size <= e
          /\ Multiple(b - a, hd[b].size)
          /\ \A c \in DOMAIN hd : a <= c /\ c < e => hd[c].area_head = a /\ hd[c].area_end = e
      BY <3>1 DEF AreaOf
    <3>4. ASSUME a <= w, w < e PROVE head = a /\ end = e
      <4>1. a <= f
        <5>1. ASSUME f < a PROVE FALSE
          <6>1. f + 2 * half <= a
            BY <3>3, <5>1 DEF Grid, Side
          <6>2. QED BY <1>2, <3>2, <3>4, <6>1
        <5>2. QED BY <1>2, <3>2, <5>1
      <4>2. f < e
        BY <1>2, <3>2, <3>4
      <4>3. QED BY <3>3, <4>1, <4>2
    <3> HIDE DEF a, e
    <3>5. \A c \in DOMAIN g : a <= c /\ c < e => g[c].area_head = a /\ g[c].area_end = e
      BY <1>1, <3>3, <3>4
    <3>6. g[b].area_head = a /\ g[b].area_end = e /\ g[b].size = hd[b].size
      BY <3>1 DEF a, e
    <3>7. QED BY <1>1, <3>3, <3>5, <3>6 DEF AreaOf
  <2>4. CASE b \in {f, w}
    <3>1. /\ head \in DOMAIN hd /\ end <= t /\ end - head \in BlockSizes
          /\ Multiple(f - head, 2 * half)
          /\ \A c \in DOMAIN hd :
               head <= c /\ c < end => hd[c].area_head = head /\ hd[c].area_end = end
      BY <2>1 DEF AreaOf
    <3>2. Multiple(f - head, half) /\ f - head \in Nat
      <4>1. f - head \in Nat /\ 2 * half \in Nat /\ Multiple(2 * half, half)
        BY <1>2, <2>2 DEF Multiple
      <4>2. QED BY <1>2, <3>1, <4>1, MultipleTrans
    <3>3. Multiple(w - head, half)
      <4>1. Multiple(half, half)
        <5>1. half = 1 * half
          BY <1>2
        <5>2. QED BY <5>1 DEF Multiple
      <4>2. Multiple((f - head) + half, half)
        BY <1>2, <3>2, <4>1, MultipleSum
      <4>3. (f - head) + half = w - head
        BY <1>2
      <4>4. QED BY <4>2, <4>3
    <3>4. g[b].area_head = head /\ g[b].area_end = end /\ g[b].size = half
      BY <1>1, <2>4
    <3>5. head <= b /\ b + half <= end /\ Multiple(b - head, half)
      BY <1>2, <2>2, <2>4, <3>2, <3>3
    <3> HIDE DEF head, end, w
    <3>6. \A c \in DOMAIN g : head <= c /\ c < end => g[c].area_head = head /\ g[c].area_end = end
      BY <1>1, <3>1
    <3>7. QED BY <1>1, <3>1, <3>4, <3>5, <3>6 DEF AreaOf
  <2>5. QED BY <1>1, <2>3, <2>4
<1>7. QED BY <1>4, <1>5, <1>6 DEF Grid

\* Two halves, the one at w behind the one at z, become one block that is free.
IsJoined(hd, z, w, g) ==
  /\ DOMAIN g = DOMAIN hd \ {w}
  /\ g[z] \in HeaderRecord /\ g[z].size = 2 * hd[z].size /\ ~ g[z].occupy
  /\ g[z].area_head = hd[z].area_head /\ g[z].area_end = hd[z].area_end
  /\ \A b \in DOMAIN hd \ {z, w} : g[b] = hd[b]

\* A block that is joined of its halves fills their place.
LEMMA JoinedGrid ==
  ASSUME NEW t, NEW hd, Grid(hd, t), NEW z \in DOMAIN hd, NEW w \in DOMAIN hd,
         w = z + hd[z].size, hd[w].size = hd[z].size, PairAt(hd, z, w, z),
         NEW g, IsFunction(g), IsJoined(hd, z, w, g)
  PROVE  Grid(g, t)
<1> DEFINE s == hd[z].size
           head == hd[z].area_head
           end == hd[z].area_end
<1>1. /\ DOMAIN g = DOMAIN hd \ {w} /\ g[z] \in HeaderRecord
      /\ g[z].size = 2 * s /\ g[z].area_head = head /\ g[z].area_end = end
      /\ \A b \in DOMAIN hd \ {z, w} : g[b] = hd[b]
  BY DEF IsJoined
<1>2. /\ s \in Nat /\ s >= 1 /\ z \in Nat /\ w \in Nat /\ w = z + s /\ w # z
      /\ t \in Nat /\ head \in Nat /\ end \in Nat /\ w + s <= t
  BY GridNumbers DEF Grid
<1>3. /\ 2 * s \in BlockSizes /\ head <= z /\ z + 2 * s <= end /\ Multiple(z - head, 2 * s)
  BY DEF PairAt
<1>4. GridType(hd, t) /\ Side(hd, t) /\ AreaOf(hd, z, t) /\ \A b \in DOMAIN hd : AreaOf(hd, b, t)
  BY DEF Grid
<1>5. \A x \in DOMAIN hd : x \in Nat /\ hd[x].size \in Nat /\ hd[x].size >= 1
  BY <1>4, GridNumbers
<1>6. GridType(g, t)
  <2>1. \A b \in DOMAIN g : g[b] \in HeaderRecord
    BY <1>1, <1>4 DEF GridType
  <2>2. DOMAIN g \subseteq 0 .. t - 1
    BY <1>1, <1>4 DEF GridType
  <2>3. \A b \in DOMAIN g : g[b].size \in BlockSizes /\ b + g[b].size <= t
    <3>1. z + 2 * s <= t
      BY <1>2
    <3>2. QED BY <1>1, <1>3, <1>4, <3>1 DEF GridType
  <2>4. QED BY <1>2, <2>1, <2>2, <2>3 DEF GridType, IsFunction
<1>7. Side(g, t)
  <2>1. ASSUME NEW x \in 0 .. t - 1 PROVE \E b \in DOMAIN g : b <= x /\ x < b + g[b].size
    <3>1. PICK b \in DOMAIN hd : b <= x /\ x < b + hd[b].size
      BY <1>4 DEF Side
    <3>2. CASE b \notin {z, w}
      BY <1>1, <3>1, <3>2
    <3>3. CASE b \in {z, w}
      <4>1. z <= x /\ x < z + 2 * s
        BY <1>2, <3>1, <3>3
      <4>2. QED BY <1>1, <1>2, <4>1
    <3>4. QED BY <3>2, <3>3
  <2>2. ASSUME NEW b \in DOMAIN g, NEW c \in DOMAIN g, b < c PROVE b + g[b].size <= c
    <3>1. b \in DOMAIN hd /\ c \in DOMAIN hd /\ b # w /\ c # w
      BY <1>1
    <3>2. CASE b # z
      BY <1>1, <1>4, <2>2, <3>1, <3>2 DEF Side
    <3>3. CASE b = z
      <4>1. z + s <= c
        BY <1>4, <2>2, <3>1, <3>3 DEF Side
      <4>2. w < c
        BY <1>2, <1>5, <3>1, <4>1
      <4>3. w + s <= c
        BY <1>4, <3>1, <4>2 DEF Side
      <4>4. QED BY <1>1, <1>2, <1>5, <3>1, <3>3, <4>3
    <3>4. QED BY <3>2, <3>3
  <2>3. QED BY <2>1, <2>2 DEF Side
<1>8. ASSUME NEW b \in DOMAIN g PROVE AreaOf(g, b, t)
  <2>1. b \in DOMAIN hd /\ b # w
    BY <1>1
  <2> DEFINE a == hd[b].area_head
             e == hd[b].area_end
  <2>2. /\ a \in DOMAIN hd /\ e <= t /\ e - a \in BlockSizes /\ a <= b /\ b + hd[b].size <= e
        /\ Multiple(b - a, hd[b].size)
        /\ \A c \in DOMAIN hd : a <= c /\ c < e => hd[c].area_head = a /\ hd[c].area_end = e
    BY <1>4, <2>1 DEF AreaOf
  <2>3. a \in Nat /\ e \in Nat /\ b \in Nat
    BY <1>4, <2>1, GridNumbers
  <2>4. a # w
    <3>1. ASSUME a = w PROVE FALSE
      <4>1. w < e
        BY <1>2, <1>5, <2>1, <2>2, <2>3, <3>1
      <4>2. hd[w].area_head = w
        BY <1>2, <2>2, <3>1, <4>1
      <4>3. hd[w].area_head = head
        BY <1>3, <1>4, <1>2, BuddyBlock
      <4>4. QED BY <1>2, <1>3, <4>2, <4>3
    <3>2. QED BY <3>1
  <2>5. g[b].area_head = a /\ g[b].area_end = e
    BY <1>1, <2>1
  <2>6. b + g[b].size <= e /\ Multiple(b - a, g[b].size)
    BY <1>1, <1>3, <2>1, <2>2
  <2> HIDE DEF a, e, head, end
  <2>7. \A c \in DOMAIN g : a <= c /\ c < e => g[c].area_head = a /\ g[c].area_end = e
    BY <1>1, <2>2 DEF head, end
  <2>8. QED BY <1>1, <2>2, <2>4, <2>5, <2>6, <2>7 DEF AreaOf
<1>9. QED BY <1>6, <1>7, <1>8 DEF Grid

\* The mark of a block changes.
IsMarked(hd, b, o, g) ==
  /\ DOMAIN g = DOMAIN hd
  /\ g[b] \in HeaderRecord /\ g[b].size = hd[b].size /\ g[b].occupy = o
  /\ g[b].area_head = hd[b].area_head /\ g[b].area_end = hd[b].area_end
  /\ \A c \in DOMAIN hd \ {b} : g[c] = hd[c]

\* What is marked keeps its size and its buddy.
LEMMA MarkedSame ==
  ASSUME NEW hd, NEW b, NEW o, NEW g, IsMarked(hd, b, o, g)
  PROVE  \A c \in DOMAIN hd : g[c].size = hd[c].size /\ BuddyOf(g, c) = BuddyOf(hd, c)
<1>1. \A c \in DOMAIN hd : /\ g[c].size = hd[c].size /\ g[c].area_head = hd[c].area_head
                           /\ g[c].area_end = hd[c].area_end
  BY DEF IsMarked
<1>2. QED BY <1>1 DEF BuddyOf

\* Marked blocks fill the memory as before.
LEMMA MarkedGrid ==
  ASSUME NEW t, NEW hd, Grid(hd, t), NEW b \in DOMAIN hd, NEW o,
         NEW g, IsFunction(g), IsMarked(hd, b, o, g)
  PROVE  Grid(g, t)
<1>1. DOMAIN g = DOMAIN hd /\ g[b] \in HeaderRecord /\ \A c \in DOMAIN hd \ {b} : g[c] = hd[c]
  BY DEF IsMarked
<1>2. \A c \in DOMAIN hd : /\ g[c].size = hd[c].size /\ g[c].area_head = hd[c].area_head
                           /\ g[c].area_end = hd[c].area_end
  BY <1>1 DEF IsMarked
<1>3. GridType(hd, t) /\ Side(hd, t) /\ \A c \in DOMAIN hd : AreaOf(hd, c, t)
  BY DEF Grid
<1>4. GridType(g, t)
  <2>1. \A c \in DOMAIN g : g[c] \in HeaderRecord
    BY <1>1, <1>3 DEF GridType
  <2>2. QED BY <1>1, <1>2, <1>3, <2>1 DEF GridType, IsFunction
<1>5. Side(g, t)
  BY <1>1, <1>2, <1>3 DEF Side
<1>6. ASSUME NEW c \in DOMAIN g PROVE AreaOf(g, c, t)
  BY <1>1, <1>2, <1>3 DEF AreaOf
<1>7. QED BY <1>4, <1>5, <1>6 DEF Grid

\* An area of n units comes behind the others, as one block that is free.
IsGrown(hd, t, n, g) ==
  /\ DOMAIN g = DOMAIN hd \cup {t}
  /\ g[t] \in HeaderRecord /\ g[t].size = n /\ ~ g[t].occupy
  /\ g[t].area_head = t /\ g[t].area_end = t + n
  /\ \A c \in DOMAIN hd : g[c] = hd[c]

\* With an area at the end the blocks fill the larger memory.
LEMMA GrownGrid ==
  ASSUME NEW t, NEW hd, Grid(hd, t), NEW n \in BlockSizes,
         NEW g, IsFunction(g), IsGrown(hd, t, n, g)
  PROVE  Grid(g, t + n) /\ t \notin DOMAIN hd
<1>1. /\ DOMAIN g = DOMAIN hd \cup {t} /\ g[t] \in HeaderRecord /\ \A c \in DOMAIN hd : g[c] = hd[c]
      /\ g[t].size = n /\ g[t].area_head = t /\ g[t].area_end = t + n
  BY DEF IsGrown
<1>2. GridType(hd, t) /\ Side(hd, t) /\ \A c \in DOMAIN hd : AreaOf(hd, c, t)
  BY DEF Grid
<1>3. t \in Nat /\ n \in Nat /\ n >= 1
  BY <1>2, SizeFacts DEF GridType
<1>4. \A c \in DOMAIN hd : /\ c \in Nat /\ c < t /\ hd[c].size \in Nat /\ c + hd[c].size <= t
                           /\ hd[c].area_head \in Nat /\ hd[c].area_end \in Nat
  BY <1>2, GridNumbers
<1>5. t \notin DOMAIN hd
  BY <1>3, <1>4
<1>6. GridType(g, t + n)
  <2>1. \A c \in DOMAIN g : g[c] \in HeaderRecord
    BY <1>1, <1>2 DEF GridType
  <2>2. \A c \in DOMAIN g : g[c].size \in BlockSizes /\ c + g[c].size <= t + n
    <3>1. \A c \in DOMAIN hd : hd[c].size \in BlockSizes /\ c + hd[c].size <= t + n
      BY <1>2, <1>3, <1>4 DEF GridType
    <3>2. QED BY <1>1, <1>3, <3>1
  <2>3. DOMAIN g \subseteq 0 .. (t + n) - 1
    BY <1>1, <1>3, <1>4
  <2>4. QED BY <1>3, <2>1, <2>2, <2>3 DEF GridType, IsFunction
<1>7. Side(g, t + n)
  <2>1. ASSUME NEW x \in 0 .. (t + n) - 1 PROVE \E b \in DOMAIN g : b <= x /\ x < b + g[b].size
    <3>1. CASE x < t
      <4>1. x \in 0 .. t - 1
        BY <1>3, <3>1
      <4>2. QED BY <1>1, <1>2, <4>1 DEF Side
    <3>2. CASE x >= t
      <4>1. t <= x /\ x < t + n
        BY <1>3, <3>2
      <4>2. QED BY <1>1, <4>1
    <3>3. QED BY <1>3, <3>1, <3>2
  <2>2. ASSUME NEW b \in DOMAIN g, NEW c \in DOMAIN g, b < c PROVE b + g[b].size <= c
    <3>1. b \in DOMAIN hd
      BY <1>1, <1>3, <1>4, <2>2
    <3>2. QED BY <1>1, <1>2, <1>4, <2>2, <3>1 DEF Side
  <2>3. QED BY <2>1, <2>2 DEF Side
<1>8. ASSUME NEW b \in DOMAIN g PROVE AreaOf(g, b, t + n)
  <2>1. CASE b \in DOMAIN hd
    <3> DEFINE a == hd[b].area_head
               e == hd[b].area_end
    <3>1. /\ a \in DOMAIN hd /\ e <= t /\ e - a \in BlockSizes /\ a <= b /\ b + hd[b].size <= e
          /\ Multiple(b - a, hd[b].size)
          /\ \A c \in DOMAIN hd : a <= c /\ c < e => hd[c].area_head = a /\ hd[c].area_end = e
      BY <1>2, <2>1 DEF AreaOf
    <3>2. a \in Nat /\ e \in Nat /\ b \in Nat
      BY <1>4, <2>1
    <3>3. g[b] = hd[b] /\ e <= t + n /\ ~ (t < e)
      BY <1>1, <1>3, <2>1, <3>1, <3>2
    <3>4. \A c \in DOMAIN g : a <= c /\ c < e => g[c].area_head = a /\ g[c].area_end = e
      BY <1>1, <3>1, <3>3
    <3>5. QED BY <1>1, <3>1, <3>3, <3>4 DEF AreaOf
  <2>2. CASE b = t
    <3>1. (t + n) - t = n /\ t - t = 0 /\ Multiple(0, n)
      <4>1. 0 = 0 * n
        BY <1>3
      <4>2. QED BY <1>3, <4>1 DEF Multiple
    <3>2. \A c \in DOMAIN g : t <= c => c = t
      BY <1>1, <1>3, <1>4
    <3>3. t <= t /\ t + n <= t + n
      BY <1>3
    <3>4. QED BY <1>1, <2>2, <3>1, <3>2, <3>3 DEF AreaOf
  <2>3. QED BY <1>1, <2>1, <2>2
<1>9. QED BY <1>5, <1>6, <1>7, <1>8 DEF Grid

-----------------------------------------------------------------------------
(* Free blocks and their buddies.                                          *)

\* The blocks that are free.
FreeOf(hd) == {b \in DOMAIN hd : ~ hd[b].occupy}

\* The block's buddy is free and of its size.
Meets(hd, b) == BuddyOf(hd, b) \in FreeOf(hd) /\ hd[BuddyOf(hd, b)].size = hd[b].size

\* No two free blocks are the halves of one, but for block x and its buddy.
CoalescedBut(hd, x) == \A b \in FreeOf(hd) : Meets(hd, b) => b = x \/ BuddyOf(hd, b) = x

\* No two free blocks are the halves of one.
CoalescedOf(hd) == \A b \in FreeOf(hd) : ~ Meets(hd, b)

\* A buddy is a block, whatever its size.
LEMMA BuddyIsBlock ==
  ASSUME NEW t, NEW hd, Grid(hd, t), NEW b \in DOMAIN hd, BuddyOf(hd, b) # NoBlock
  PROVE  BuddyOf(hd, b) \in DOMAIN hd
BY BuddyPair, BuddyBlock

\* A block that meets its buddy is the buddy's buddy.
LEMMA MeetsFacts ==
  ASSUME NEW t, NEW hd, Grid(hd, t), NEW b \in DOMAIN hd, Meets(hd, b)
  PROVE  /\ BuddyOf(hd, b) # NoBlock
         /\ BuddyOf(hd, BuddyOf(hd, b)) = b
<1>1. BuddyOf(hd, b) \in DOMAIN hd /\ hd[BuddyOf(hd, b)].size = hd[b].size
  BY DEF Meets, FreeOf
<1>2. BuddyOf(hd, b) # NoBlock
  <2>1. BuddyOf(hd, b) \in Nat
    BY <1>1, GridNumbers DEF Grid
  <2>2. QED BY <2>1 DEF NoBlock
<1>3. QED BY <1>1, <1>2, BuddyPair, BuddyBack

\* The halves meet each other; no other blocks come to meet.
LEMMA HalvedCoalesced ==
  ASSUME NEW t, NEW hd, Grid(hd, t), NEW f \in DOMAIN hd, NEW half \in BlockSizes,
         hd[f].size = 2 * half, NEW g, Grid(g, t), IsHalved(hd, f, half, g), CoalescedBut(hd, f)
  PROVE  CoalescedBut(g, f)
<1> DEFINE w == f + half
           head == hd[f].area_head
<1>1. /\ DOMAIN g = DOMAIN hd \cup {w} /\ w \notin DOMAIN hd
      /\ g[w].size = half /\ g[w].area_head = head
      /\ \A b \in DOMAIN hd \ {f} : g[b] = hd[b]
  BY DEF IsHalved
<1>2. SUFFICES ASSUME NEW b \in FreeOf(g), Meets(g, b), b # f, BuddyOf(g, b) # f
               PROVE  FALSE
  BY DEF CoalescedBut
<1>3. BuddyOf(g, b) # NoBlock /\ BuddyOf(g, b) \in DOMAIN g /\ b \in DOMAIN g
  BY <1>2, MeetsFacts DEF FreeOf, Meets
<1>4. CASE b = w
  <2>1. PICK z : PairAt(g, w, BuddyOf(g, w), z)
    BY <1>3, <1>4, BuddyPair
  <2>2. /\ half \in Nat /\ half >= 1 /\ f \in Nat /\ w = f + half /\ head \in Nat /\ head <= f
        /\ Multiple(f - head, 2 * half)
    BY SizeFacts, GridNumbers DEF Grid, AreaOf
  <2>3. /\ (w = z /\ BuddyOf(g, w) = z + half) \/ (BuddyOf(g, w) = z /\ w = z + half)
        /\ z \in Nat /\ head <= z /\ Multiple(z - head, 2 * half)
    BY <1>1, <2>1 DEF PairAt
  <2>4. z # w
    <3>1. ASSUME z = w PROVE FALSE
      <4>1. Multiple((z - head) - (f - head), 2 * half)
        BY <2>2, <2>3, <3>1, MultipleSum
      <4>2. (z - head) - (f - head) = half
        BY <2>2, <3>1
      <4>3. QED BY <2>2, <4>1, <4>2, MultipleLeast
    <3>2. QED BY <3>1
  <2>5. BuddyOf(g, w) = f
    BY <2>2, <2>3, <2>4
  <2>6. QED BY <1>2, <1>4, <2>5
<1>5. CASE b # w
  <2>1. b \in DOMAIN hd \ {f} /\ g[b] = hd[b]
    BY <1>1, <1>2, <1>3, <1>5
  <2>2. BuddyOf(g, b) = BuddyOf(hd, b)
    BY <2>1 DEF BuddyOf
  <2>3. BuddyOf(hd, b) \in DOMAIN hd
    BY <1>3, <2>1, <2>2, BuddyIsBlock
  <2>4. g[BuddyOf(hd, b)] = hd[BuddyOf(hd, b)]
    BY <1>1, <1>2, <2>2, <2>3
  <2>5. b \in FreeOf(hd) /\ Meets(hd, b)
    BY <1>2, <2>1, <2>2, <2>3, <2>4 DEF Meets, FreeOf
  <2>6. QED BY <1>2, <2>2, <2>5 DEF CoalescedBut
<1>6. QED BY <1>4, <1>5

\* A joined block may meet its buddy; no other blocks come to meet.
LEMMA JoinedCoalesced ==
  ASSUME NEW t, NEW hd, Grid(hd, t), NEW z \in DOMAIN hd, NEW w \in DOMAIN hd, z # w,
         NEW g, Grid(g, t), IsJoined(hd, z, w, g), NEW x \in {z, w}, CoalescedBut(hd, x)
  PROVE  CoalescedBut(g, z)
<1>1. DOMAIN g = DOMAIN hd \ {w} /\ \A b \in DOMAIN hd \ {z, w} : g[b] = hd[b]
  BY DEF IsJoined
<1>2. SUFFICES ASSUME NEW b \in FreeOf(g), Meets(g, b), b # z, BuddyOf(g, b) # z
               PROVE  FALSE
  BY DEF CoalescedBut
<1>3. BuddyOf(g, b) \in DOMAIN g /\ b \in DOMAIN g
  BY <1>2 DEF FreeOf, Meets
<1>4. g[b] = hd[b] /\ b \in DOMAIN hd \ {z, w}
  BY <1>1, <1>2, <1>3
<1>5. BuddyOf(g, b) = BuddyOf(hd, b)
  BY <1>4 DEF BuddyOf
<1>6. BuddyOf(hd, b) \in DOMAIN hd \ {z, w}
  BY <1>1, <1>2, <1>3, <1>5
<1>7. g[BuddyOf(hd, b)] = hd[BuddyOf(hd, b)]
  BY <1>1, <1>6
<1>8. b \in FreeOf(hd) /\ Meets(hd, b)
  BY <1>2, <1>4, <1>5, <1>6, <1>7 DEF Meets, FreeOf
<1>9. QED BY <1>4, <1>6, <1>8 DEF CoalescedBut

\* A new area brings no blocks to meet.
LEMMA GrownCoalesced ==
  ASSUME NEW t, NEW hd, Grid(hd, t), NEW n \in BlockSizes,
         NEW g, Grid(g, t + n), IsGrown(hd, t, n, g), CoalescedOf(hd)
  PROVE  CoalescedBut(g, t)
<1>1. DOMAIN g = DOMAIN hd \cup {t} /\ \A b \in DOMAIN hd : g[b] = hd[b]
  BY DEF IsGrown
<1>2. SUFFICES ASSUME NEW b \in FreeOf(g), Meets(g, b), b # t, BuddyOf(g, b) # t
               PROVE  FALSE
  BY DEF CoalescedBut
<1>3. BuddyOf(g, b) \in DOMAIN g /\ b \in DOMAIN g
  BY <1>2 DEF FreeOf, Meets
<1>4. g[b] = hd[b] /\ b \in DOMAIN hd
  BY <1>1, <1>2, <1>3
<1>5. BuddyOf(g, b) = BuddyOf(hd, b)
  BY <1>4 DEF BuddyOf
<1>6. BuddyOf(hd, b) \in DOMAIN hd
  BY <1>1, <1>2, <1>3, <1>5
<1>7. b \in FreeOf(hd) /\ Meets(hd, b)
  BY <1>1, <1>2, <1>4, <1>5, <1>6 DEF Meets, FreeOf
<1>8. QED BY <1>7 DEF CoalescedOf

\* A block that is marked free may meet its buddy.
LEMMA FreedCoalesced ==
  ASSUME NEW t, NEW hd, Grid(hd, t), NEW b \in DOMAIN hd,
         NEW g, IsFunction(g), IsMarked(hd, b, FALSE, g), CoalescedOf(hd)
  PROVE  CoalescedBut(g, b)
<1>1. DOMAIN g = DOMAIN hd /\ \A c \in DOMAIN hd \ {b} : g[c] = hd[c]
  BY DEF IsMarked
<1>2. \A c \in DOMAIN hd : g[c].size = hd[c].size /\ BuddyOf(g, c) = BuddyOf(hd, c)
  <2> DEFINE o == FALSE
  <2>1. IsMarked(hd, b, o, g)
    OBVIOUS
  <2> HIDE DEF o
  <2>2. QED BY <2>1, MarkedSame
<1>3. SUFFICES ASSUME NEW c \in FreeOf(g), Meets(g, c), c # b, BuddyOf(g, c) # b
               PROVE  FALSE
  BY DEF CoalescedBut
<1>4. c \in FreeOf(hd) /\ Meets(hd, c)
  BY <1>1, <1>2, <1>3 DEF Meets, FreeOf
<1>5. QED BY <1>4 DEF CoalescedOf

\* A block that is in use meets nothing.
LEMMA TakenCoalesced ==
  ASSUME NEW t, NEW hd, Grid(hd, t), NEW b \in DOMAIN hd,
         NEW g, IsFunction(g), IsMarked(hd, b, TRUE, g), CoalescedBut(hd, b)
  PROVE  CoalescedOf(g)
<1>1. DOMAIN g = DOMAIN hd /\ \A c \in DOMAIN hd \ {b} : g[c] = hd[c]
  BY DEF IsMarked
<1>2. \A c \in DOMAIN hd : g[c].size = hd[c].size /\ BuddyOf(g, c) = BuddyOf(hd, c)
  <2> DEFINE o == TRUE
  <2>1. IsMarked(hd, b, o, g)
    OBVIOUS
  <2> HIDE DEF o
  <2>2. QED BY <2>1, MarkedSame
<1>3. b \notin FreeOf(g)
  BY DEF IsMarked, FreeOf
<1>4. SUFFICES ASSUME NEW c \in FreeOf(g), Meets(g, c) PROVE FALSE
  BY DEF CoalescedOf
<1>5. c # b /\ BuddyOf(g, c) # b
  BY <1>3, <1>4 DEF Meets
<1>6. c \in FreeOf(hd) /\ Meets(hd, c)
  BY <1>1, <1>2, <1>4, <1>5 DEF Meets, FreeOf
<1>7. QED BY <1>2, <1>4, <1>5, <1>6 DEF CoalescedBut, FreeOf

\* When the one block that may meet its buddy does not, none does.
LEMMA AloneCoalesced ==
  ASSUME NEW t, NEW hd, Grid(hd, t), NEW x \in FreeOf(hd), CoalescedBut(hd, x), ~ Meets(hd, x)
  PROVE  CoalescedOf(hd)
<1>1. SUFFICES ASSUME NEW b \in FreeOf(hd), Meets(hd, b) PROVE FALSE
  BY DEF CoalescedOf
<1>2. BuddyOf(hd, b) = x
  BY <1>1 DEF CoalescedBut
<1>3. BuddyOf(hd, x) = b /\ hd[x].size = hd[b].size
  BY <1>1, <1>2, MeetsFacts DEF FreeOf, Meets
<1>4. QED BY <1>1, <1>3 DEF Meets

-----------------------------------------------------------------------------
(* The free lists.                                                         *)

\* The free lists, by the size of their blocks.
Lists == [BlockSizes -> SUBSET Nat]

\* The lists have free blocks of their size, no more than there are places for.
ListsOf(hd, fl) ==
  \A n \in BlockSizes : /\ fl[n] \subseteq {b \in FreeOf(hd) : hd[b].size = n}
                        /\ Cardinality(fl[n]) <= MaxArrayLength

\* The free blocks that no list has.
LostOf(hd, fl) == {b \in FreeOf(hd) : b \notin fl[hd[b].size]}

\* free_list_delete.
Without(fl, n, b) == [fl EXCEPT ![n] = @ \ {b}]

\* free_list_add.
With(fl, n, b) ==
  IF Cardinality(fl[n]) >= MaxArrayLength THEN fl ELSE [fl EXCEPT ![n] = @ \cup {b}]

\* The blocks of a heap are finitely many, and so is a list.
LEMMA ListFinite ==
  ASSUME NEW t, NEW hd, GridType(hd, t), NEW s, s \subseteq DOMAIN hd
  PROVE  IsFiniteSet(s) /\ Cardinality(s) \in Nat
<1>1. DOMAIN hd \subseteq 0 .. t - 1 /\ t \in Nat
  BY DEF GridType
<1>2. IsFiniteSet(0 .. t - 1)
  <2>1. t - 1 \in Int
    BY <1>1
  <2>2. QED BY <2>1, FS_Interval
<1>3. IsFiniteSet(s)
  BY <1>1, <1>2, FS_Subset
<1>4. QED BY <1>3, FS_CardinalityType

\* A block leaves a list.
LEMMA WithoutFacts ==
  ASSUME NEW t, NEW hd, GridType(hd, t), NEW fl \in Lists, ListsOf(hd, fl),
         NEW n \in BlockSizes, NEW b
  PROVE  /\ Without(fl, n, b) \in Lists /\ ListsOf(hd, Without(fl, n, b))
         /\ Without(fl, n, b)[n] = fl[n] \ {b}
         /\ \A m \in BlockSizes : m # n => Without(fl, n, b)[m] = fl[m]
<1> DEFINE w == Without(fl, n, b)
<1>1. w \in Lists /\ w[n] = fl[n] \ {b} /\ \A m \in BlockSizes : m # n => w[m] = fl[m]
  BY DEF Without, Lists
<1> HIDE DEF w
<1>2. ASSUME NEW m \in BlockSizes
      PROVE  /\ w[m] \subseteq {x \in FreeOf(hd) : hd[x].size = m}
             /\ Cardinality(w[m]) <= MaxArrayLength
  <2>1. /\ fl[m] \subseteq {x \in FreeOf(hd) : hd[x].size = m}
        /\ Cardinality(fl[m]) <= MaxArrayLength
    BY DEF ListsOf
  <2>2. w[m] \subseteq fl[m]
    BY <1>1
  <2>3. IsFiniteSet(fl[m]) /\ Cardinality(fl[m]) \in Nat
    <3>1. fl[m] \subseteq DOMAIN hd
      BY <2>1 DEF FreeOf
    <3>2. QED BY <3>1, ListFinite
  <2>4. Cardinality(w[m]) <= Cardinality(fl[m]) /\ Cardinality(w[m]) \in Nat
    BY <2>2, <2>3, FS_Subset, FS_CardinalityType
  <2>5. QED BY <2>1, <2>2, <2>3, <2>4, SizesAssumption
<1>3. QED BY <1>1, <1>2 DEF ListsOf, w

\* A block is in the list afterwards, or the list is full.
Added(hd, fl, n, b, w) ==
  /\ w \in Lists /\ ListsOf(hd, w)
  /\ w[n] \in {fl[n], fl[n] \cup {b}}
  /\ b \in w[n] \/ Cardinality(w[n]) = MaxArrayLength
  /\ Cardinality(fl[n]) < MaxArrayLength => w[n] = fl[n] \cup {b}
  /\ \A m \in BlockSizes : m # n => w[m] = fl[m]

\* A free block comes into the list of its size, if there is a place.
LEMMA WithFacts ==
  ASSUME NEW t, NEW hd, GridType(hd, t), NEW fl \in Lists, ListsOf(hd, fl),
         NEW b \in FreeOf(hd), NEW n \in BlockSizes, hd[b].size = n
  PROVE  Added(hd, fl, n, b, With(fl, n, b))
<1> DEFINE w == With(fl, n, b)
<1>1. fl[n] \subseteq {x \in FreeOf(hd) : hd[x].size = n} /\ Cardinality(fl[n]) <= MaxArrayLength
  BY DEF ListsOf
<1>2. IsFiniteSet(fl[n]) /\ Cardinality(fl[n]) \in Nat /\ MaxArrayLength \in Nat
  <2>1. fl[n] \subseteq DOMAIN hd
    BY <1>1 DEF FreeOf
  <2>2. QED BY <2>1, ListFinite, SizesAssumption
<1>3. CASE Cardinality(fl[n]) >= MaxArrayLength
  <2>1. w = fl /\ Cardinality(fl[n]) = MaxArrayLength
    BY <1>1, <1>2, <1>3 DEF With
  <2>2. QED BY <1>2, <2>1 DEF Added
<1>4. CASE Cardinality(fl[n]) < MaxArrayLength
  <2>1. w = [fl EXCEPT ![n] = @ \cup {b}]
    BY <1>2, <1>4 DEF With
  <2>2. b \in Nat
    BY GridNumbers DEF FreeOf
  <2>3. w \in Lists /\ w[n] = fl[n] \cup {b} /\ \A m \in BlockSizes : m # n => w[m] = fl[m]
    BY <2>1, <2>2 DEF Lists
  <2>4. Cardinality(fl[n] \cup {b}) <= MaxArrayLength
    <3>1. Cardinality(fl[n] \cup {b}) =
            IF b \in fl[n] THEN Cardinality(fl[n]) ELSE Cardinality(fl[n]) + 1
      BY <1>2, FS_AddElement
    <3>2. QED BY <1>2, <1>4, <3>1
  <2> HIDE DEF w
  <2>5. ListsOf(hd, w)
    <3>1. ASSUME NEW m \in BlockSizes
          PROVE  /\ w[m] \subseteq {x \in FreeOf(hd) : hd[x].size = m}
                 /\ Cardinality(w[m]) <= MaxArrayLength
      <4>1. CASE m = n
        BY <1>1, <2>3, <2>4, <4>1
      <4>2. CASE m # n
        BY <2>3, <4>2 DEF ListsOf
      <4>3. QED BY <4>1, <4>2
    <3>2. QED BY <3>1 DEF ListsOf
  <2>6. QED BY <1>2, <1>4, <2>3, <2>5 DEF w, Added
<1>5. QED BY <1>2, <1>3, <1>4

\* The lists speak of blocks that are free and of their size in a grid with the
\* same headers there.
LEMMA ListsSame ==
  ASSUME NEW hd, NEW fl, ListsOf(hd, fl), NEW g,
         \A n \in BlockSizes : \A b \in fl[n] : b \in DOMAIN g /\ g[b] = hd[b]
  PROVE  ListsOf(g, fl)
<1>1. ASSUME NEW n \in BlockSizes
      PROVE  /\ fl[n] \subseteq {x \in FreeOf(g) : g[x].size = n}
             /\ Cardinality(fl[n]) <= MaxArrayLength
  <2>1. /\ fl[n] \subseteq {x \in FreeOf(hd) : hd[x].size = n}
        /\ Cardinality(fl[n]) <= MaxArrayLength
    BY DEF ListsOf
  <2>2. QED BY <2>1 DEF FreeOf
<1>2. QED BY <1>1 DEF ListsOf

\* A block and the half behind it are listed in its stead.
LEMMA HalvedLists ==
  ASSUME NEW t, NEW hd, Grid(hd, t), NEW f \in FreeOf(hd), NEW half \in BlockSizes,
         2 * half \in BlockSizes, hd[f].size = 2 * half, NEW g, Grid(g, t), IsHalved(hd, f, half, g),
         NEW fl \in Lists, ListsOf(hd, fl), f \in fl[2 * half], fl[half] = {}
  PROVE  LET after == With(With(Without(fl, 2 * half, f), half, f), half, f + half)
         IN  /\ after \in Lists /\ ListsOf(g, after) /\ LostOf(g, after) = LostOf(hd, fl)
             /\ after[half] = {f, f + half}
             /\ \A m \in BlockSizes : m \notin {half, 2 * half} => after[m] = fl[m]
<1> DEFINE w == f + half
           big == 2 * half
           f1 == Without(fl, big, f)
           f2 == With(f1, half, f)
           f3 == With(f2, half, w)
<1>1. /\ DOMAIN g = DOMAIN hd \cup {w} /\ w \notin DOMAIN hd /\ w # f
      /\ g[f].size = half /\ ~ g[f].occupy /\ g[w].size = half /\ ~ g[w].occupy
      /\ \A b \in DOMAIN hd \ {f} : g[b] = hd[b]
  BY DEF IsHalved, FreeOf
<1>2. big # half /\ big \in BlockSizes /\ f \in DOMAIN hd /\ ~ hd[f].occupy
  BY SizeFacts DEF FreeOf
<1>3. GridType(hd, t) /\ GridType(g, t)
  BY DEF Grid
<1> HIDE DEF w, big, f1, f2, f3
<1>4. /\ f1 \in Lists /\ ListsOf(hd, f1) /\ f1[big] = fl[big] \ {f}
      /\ \A m \in BlockSizes : m # big => f1[m] = fl[m]
  BY <1>2, <1>3, WithoutFacts DEF f1
<1>5. ListsOf(g, f1)
  <2>1. ASSUME NEW n \in BlockSizes, NEW b \in f1[n] PROVE b \in DOMAIN g /\ g[b] = hd[b]
    <3>1. b \in DOMAIN hd /\ hd[b].size = n
      BY <1>4 DEF ListsOf, FreeOf
    <3>2. b # f
      BY <1>4, <3>1 DEF big
    <3>3. QED BY <1>1, <3>1, <3>2
  <2>2. QED BY <1>4, <2>1, ListsSame
<1>6. f \in FreeOf(g) /\ w \in FreeOf(g)
  BY <1>1, <1>2 DEF FreeOf
<1>7. f1[half] = {} /\ MaxArrayLength >= 2 /\ MaxArrayLength \in Nat
  BY <1>2, <1>4, SizesAssumption
<1>8. /\ f2 \in Lists /\ ListsOf(g, f2) /\ f2[half] = {f}
      /\ \A m \in BlockSizes : m # half => f2[m] = f1[m]
  <2>1. Cardinality(f1[half]) < MaxArrayLength
    BY <1>7, FS_EmptySet
  <2>2. Added(g, f1, half, f, f2)
    BY <1>1, <1>3, <1>4, <1>5, <1>6, WithFacts DEF f2
  <2>3. QED BY <1>7, <2>1, <2>2 DEF Added
<1>9. /\ f3 \in Lists /\ ListsOf(g, f3) /\ f3[half] = {f, w}
      /\ \A m \in BlockSizes : m # half => f3[m] = f2[m]
  <2>1. Cardinality(f2[half]) < MaxArrayLength
    <3>1. Cardinality({f}) = 1
      BY FS_Singleton
    <3>2. QED BY <1>7, <1>8, <3>1
  <2>2. Added(g, f2, half, w, f3)
    BY <1>1, <1>3, <1>6, <1>8, WithFacts DEF f3
  <2>3. QED BY <1>8, <2>1, <2>2 DEF Added
<1>10. \A m \in BlockSizes : m \notin {half, big} => f3[m] = fl[m]
  BY <1>4, <1>8, <1>9
<1>11. f3[big] = fl[big] \ {f}
  BY <1>2, <1>4, <1>8, <1>9
<1>12. ASSUME NEW b PROVE b \in LostOf(g, f3) <=> b \in LostOf(hd, fl)
  <2>1. CASE b \in {f, w}
    <3>1. b \notin LostOf(g, f3)
      BY <1>1, <1>9, <2>1 DEF LostOf
    <3>2. b \notin LostOf(hd, fl)
      <4>1. f \notin LostOf(hd, fl)
        BY DEF LostOf
      <4>2. w \notin LostOf(hd, fl)
        BY <1>1 DEF LostOf, FreeOf
      <4>3. QED BY <2>1, <4>1, <4>2
    <3>3. QED BY <3>1, <3>2
  <2>2. CASE b \in DOMAIN hd \ {f, w}
    <3>1. g[b] = hd[b] /\ b \in DOMAIN g /\ hd[b].size \in BlockSizes
      BY <1>1, <1>3, <2>2 DEF GridType
    <3>2. b \in f3[hd[b].size] <=> b \in fl[hd[b].size]
      BY <1>9, <1>10, <1>11, <2>2, <3>1
    <3>3. QED BY <2>2, <3>1, <3>2 DEF LostOf, FreeOf
  <2>3. CASE b \notin DOMAIN hd \cup {w}
    BY <1>1, <2>3 DEF LostOf, FreeOf
  <2>4. QED BY <2>1, <2>2, <2>3
<1>13. QED BY <1>9, <1>10, <1>12 DEF f1, f2, f3, w, big

\* Two blocks that are the halves of one of size 2 * s in an area.
Halves(hd, x, y, z, w, s) ==
  /\ z \in FreeOf(hd) /\ w \in FreeOf(hd) /\ z # w /\ {x, y} = {z, w}
  /\ s \in BlockSizes /\ 2 * s \in BlockSizes
  /\ hd[z].size = s /\ hd[w].size = s /\ w = z + s /\ PairAt(hd, z, w, z)

\* Two halves leave their list and the joined block comes into its own.
JoinedInto(hd, g, fl, big, z, after) ==
  /\ after \in Lists /\ ListsOf(g, after)
  /\ LostOf(g, after) \subseteq LostOf(hd, fl) \cup {z}
  /\ z \in LostOf(g, after) => Cardinality(after[big]) = MaxArrayLength

\* They do, when a block is joined.
LEMMA JoinedLists ==
  ASSUME NEW t, NEW hd, Grid(hd, t), NEW x, NEW y, NEW z, NEW w, NEW s, Halves(hd, x, y, z, w, s),
         NEW g, Grid(g, t), IsJoined(hd, z, w, g), NEW fl \in Lists, ListsOf(hd, fl)
  PROVE  JoinedInto(hd, g, fl, 2 * s, z, With(Without(Without(fl, s, x), s, y), 2 * s, z))
<1> SUFFICES ASSUME z \in FreeOf(hd), w \in FreeOf(hd), z # w, s \in BlockSizes, hd[z].size = s,
                    hd[w].size = s, 2 * s \in BlockSizes, {x, y} = {z, w}
             PROVE  JoinedInto(hd, g, fl, 2 * s, z, With(Without(Without(fl, s, x), s, y), 2 * s, z))
  BY DEF Halves
<1> DEFINE big == 2 * s
           f1 == Without(fl, s, x)
           f2 == Without(f1, s, y)
           f3 == With(f2, big, z)
<1>1. /\ DOMAIN g = DOMAIN hd \ {w} /\ g[z].size = big /\ ~ g[z].occupy
      /\ \A b \in DOMAIN hd \ {z, w} : g[b] = hd[b]
  BY DEF IsJoined
<1>2. big # s /\ big \in BlockSizes /\ z \in DOMAIN hd /\ w \in DOMAIN hd
  BY SizeFacts DEF FreeOf
<1>3. GridType(hd, t) /\ GridType(g, t)
  BY DEF Grid
<1> HIDE DEF big, f1, f2, f3
<1>4. /\ f1 \in Lists /\ ListsOf(hd, f1) /\ f1[s] = fl[s] \ {x}
      /\ \A m \in BlockSizes : m # s => f1[m] = fl[m]
  BY <1>3, WithoutFacts DEF f1
<1>5. /\ f2 \in Lists /\ ListsOf(hd, f2) /\ f2[s] = f1[s] \ {y}
      /\ \A m \in BlockSizes : m # s => f2[m] = f1[m]
  BY <1>3, <1>4, WithoutFacts DEF f2
<1>6. f2[s] = fl[s] \ {z, w} /\ \A m \in BlockSizes : m # s => f2[m] = fl[m]
  BY <1>4, <1>5
<1>7. ListsOf(g, f2)
  <2>1. ASSUME NEW n \in BlockSizes, NEW b \in f2[n] PROVE b \in DOMAIN g /\ g[b] = hd[b]
    <3>1. b \in DOMAIN hd /\ hd[b].size = n
      BY <1>5 DEF ListsOf, FreeOf
    <3>2. b \notin {z, w}
      BY <1>6, <3>1
    <3>3. QED BY <1>1, <3>1, <3>2
  <2>2. QED BY <1>5, <2>1, ListsSame
<1>8. z \in FreeOf(g)
  BY <1>1, <1>2 DEF FreeOf
<1>9. /\ f3 \in Lists /\ ListsOf(g, f3) /\ f3[big] \in {f2[big], f2[big] \cup {z}}
      /\ z \in f3[big] \/ Cardinality(f3[big]) = MaxArrayLength
      /\ \A m \in BlockSizes : m # big => f3[m] = f2[m]
  <2>1. Added(g, f2, big, z, f3)
    BY <1>1, <1>2, <1>3, <1>5, <1>7, <1>8, WithFacts DEF f3
  <2>2. QED BY <2>1 DEF Added
<1>10. ASSUME NEW b \in LostOf(g, f3), b # z PROVE b \in LostOf(hd, fl)
  <2>1. b \in DOMAIN hd \ {z, w} /\ g[b] = hd[b] /\ ~ g[b].occupy /\ b \notin f3[g[b].size]
    BY <1>1, <1>10 DEF LostOf, FreeOf
  <2>2. hd[b].size \in BlockSizes
    BY <1>3, <2>1 DEF GridType
  <2>3. b \notin fl[hd[b].size]
    BY <1>2, <1>6, <1>9, <2>1, <2>2
  <2>4. QED BY <2>1, <2>3 DEF LostOf, FreeOf
<1>11. z \in LostOf(g, f3) => Cardinality(f3[big]) = MaxArrayLength
  BY <1>1, <1>9 DEF LostOf
<1>12. LostOf(g, f3) \subseteq LostOf(hd, fl) \cup {z}
  BY <1>10
<1>13. JoinedInto(hd, g, fl, big, z, f3)
  BY <1>9, <1>11, <1>12 DEF JoinedInto
<1>14. QED BY <1>13 DEF f1, f2, f3, big

\* A block in use becomes free.
LEMMA FreedLists ==
  ASSUME NEW t, NEW hd, Grid(hd, t), NEW b \in DOMAIN hd, hd[b].occupy, NEW s, hd[b].size = s,
         NEW g, Grid(g, t), IsMarked(hd, b, FALSE, g), NEW fl \in Lists, ListsOf(hd, fl)
  PROVE  JoinedInto(hd, g, fl, s, b, With(fl, s, b))
<1> DEFINE after == With(fl, s, b)
<1>1. /\ DOMAIN g = DOMAIN hd /\ g[b].size = s /\ ~ g[b].occupy
      /\ \A c \in DOMAIN hd \ {b} : g[c] = hd[c]
  BY DEF IsMarked
<1>2. GridType(hd, t) /\ GridType(g, t) /\ s \in BlockSizes
  BY DEF Grid, GridType
<1>3. ListsOf(g, fl)
  <2>1. ASSUME NEW n \in BlockSizes, NEW c \in fl[n] PROVE c \in DOMAIN g /\ g[c] = hd[c]
    <3>1. c \in DOMAIN hd /\ c # b
      BY DEF ListsOf, FreeOf
    <3>2. QED BY <1>1, <3>1
  <2>2. QED BY <2>1, ListsSame
<1>4. b \in FreeOf(g)
  BY <1>1 DEF FreeOf
<1> HIDE DEF after
<1>5. /\ after \in Lists /\ ListsOf(g, after) /\ after[s] \in {fl[s], fl[s] \cup {b}}
      /\ b \in after[s] \/ Cardinality(after[s]) = MaxArrayLength
      /\ \A m \in BlockSizes : m # s => after[m] = fl[m]
  <2>1. Added(g, fl, s, b, after)
    BY <1>1, <1>2, <1>3, <1>4, WithFacts DEF after
  <2>2. QED BY <2>1 DEF Added
<1>6. ASSUME NEW c \in LostOf(g, after), c # b PROVE c \in LostOf(hd, fl)
  <2>1. c \in DOMAIN hd /\ g[c] = hd[c] /\ ~ g[c].occupy /\ c \notin after[g[c].size]
    BY <1>1, <1>6 DEF LostOf, FreeOf
  <2>2. hd[c].size \in BlockSizes
    BY <1>2, <2>1 DEF GridType
  <2>3. c \notin fl[hd[c].size]
    BY <1>5, <2>1, <2>2
  <2>4. QED BY <2>1, <2>3 DEF LostOf, FreeOf
<1>7. b \in LostOf(g, after) => Cardinality(after[s]) = MaxArrayLength
  BY <1>1, <1>5 DEF LostOf
<1>8. LostOf(g, after) \subseteq LostOf(hd, fl) \cup {b}
  BY <1>6
<1>9. JoinedInto(hd, g, fl, s, b, after)
  BY <1>5, <1>7, <1>8 DEF JoinedInto
<1>10. QED BY <1>9 DEF after

\* A listed block comes into use.
SameLists(hd, g, fl, after) ==
  after \in Lists /\ ListsOf(g, after) /\ LostOf(g, after) = LostOf(hd, fl)

\* A block that comes into use leaves its list, and no block is lost.
LEMMA TakenLists ==
  ASSUME NEW t, NEW hd, Grid(hd, t), NEW b \in FreeOf(hd), NEW s, hd[b].size = s,
         NEW g, Grid(g, t), IsMarked(hd, b, TRUE, g), NEW fl \in Lists, ListsOf(hd, fl), b \in fl[s]
  PROVE  SameLists(hd, g, fl, Without(fl, s, b))
<1> DEFINE after == Without(fl, s, b)
<1>1. /\ DOMAIN g = DOMAIN hd /\ g[b].size = s /\ g[b].occupy /\ b \in DOMAIN hd
      /\ \A c \in DOMAIN hd \ {b} : g[c] = hd[c]
  BY DEF IsMarked, FreeOf
<1>2. GridType(hd, t) /\ s \in BlockSizes
  BY <1>1 DEF Grid, GridType
<1> HIDE DEF after
<1>3. /\ after \in Lists /\ ListsOf(hd, after) /\ after[s] = fl[s] \ {b}
      /\ \A m \in BlockSizes : m # s => after[m] = fl[m]
  BY <1>2, WithoutFacts DEF after
<1>4. ListsOf(g, after)
  <2>1. ASSUME NEW n \in BlockSizes, NEW c \in after[n] PROVE c \in DOMAIN g /\ g[c] = hd[c]
    <3>1. c \in DOMAIN hd /\ hd[c].size = n
      BY <1>3 DEF ListsOf, FreeOf
    <3>2. c # b
      BY <1>3, <3>1
    <3>3. QED BY <1>1, <3>1, <3>2
  <2>2. QED BY <1>3, <2>1, ListsSame
<1>5. ASSUME NEW c PROVE c \in LostOf(g, after) <=> c \in LostOf(hd, fl)
  <2>1. CASE c = b
    BY <1>1, <2>1 DEF LostOf, FreeOf
  <2>2. CASE c \in DOMAIN hd \ {b}
    <3>1. g[c] = hd[c] /\ hd[c].size \in BlockSizes
      BY <1>1, <1>2, <2>2 DEF GridType
    <3>2. c \in after[hd[c].size] <=> c \in fl[hd[c].size]
      BY <1>3, <2>2, <3>1
    <3>3. QED BY <1>1, <2>2, <3>1, <3>2 DEF LostOf, FreeOf
  <2>3. CASE c \notin DOMAIN hd
    BY <1>1, <2>3 DEF LostOf, FreeOf
  <2>4. QED BY <2>1, <2>2, <2>3
<1>6. SameLists(hd, g, fl, after)
  BY <1>3, <1>4, <1>5 DEF SameLists
<1>7. QED BY <1>6 DEF after

\* A new area is listed.
GrownInto(hd, g, fl, n, t, after) ==
  /\ SameLists(hd, g, fl, after) /\ after[n] = {t}
  /\ \A m \in BlockSizes : m # n => after[m] = fl[m]

\* A new area comes into its list, which was empty, and no block is lost.
LEMMA GrownLists ==
  ASSUME NEW t, NEW hd, Grid(hd, t), t \notin DOMAIN hd, NEW n \in BlockSizes,
         NEW g, Grid(g, t + n), IsGrown(hd, t, n, g), NEW fl \in Lists, ListsOf(hd, fl), fl[n] = {}
  PROVE  GrownInto(hd, g, fl, n, t, With(fl, n, t))
<1> DEFINE after == With(fl, n, t)
<1>1. /\ DOMAIN g = DOMAIN hd \cup {t} /\ g[t].size = n /\ ~ g[t].occupy
      /\ \A c \in DOMAIN hd : g[c] = hd[c]
  BY DEF IsGrown
<1>2. GridType(hd, t) /\ GridType(g, t + n)
  BY DEF Grid
<1>3. ListsOf(g, fl)
  <2>1. ASSUME NEW m \in BlockSizes, NEW c \in fl[m] PROVE c \in DOMAIN g /\ g[c] = hd[c]
    <3>1. c \in DOMAIN hd
      BY DEF ListsOf, FreeOf
    <3>2. QED BY <1>1, <3>1
  <2>2. QED BY <2>1, ListsSame
<1>4. t \in FreeOf(g)
  BY <1>1 DEF FreeOf
<1>5. Cardinality(fl[n]) < MaxArrayLength
  BY FS_EmptySet, SizesAssumption
<1> HIDE DEF after
<1>6. /\ after \in Lists /\ ListsOf(g, after) /\ after[n] = fl[n] \cup {t}
      /\ \A m \in BlockSizes : m # n => after[m] = fl[m]
  <2>1. Added(g, fl, n, t, after)
    BY <1>1, <1>2, <1>3, <1>4, WithFacts DEF after
  <2>2. QED BY <1>5, <2>1 DEF Added
<1>7. ASSUME NEW c PROVE c \in LostOf(g, after) <=> c \in LostOf(hd, fl)
  <2>1. CASE c = t
    <3>1. c \notin LostOf(hd, fl)
      BY <2>1 DEF LostOf, FreeOf
    <3>2. c \notin LostOf(g, after)
      BY <1>1, <1>6, <2>1 DEF LostOf
    <3>3. QED BY <3>1, <3>2
  <2>2. CASE c \in DOMAIN hd
    <3>1. g[c] = hd[c] /\ hd[c].size \in BlockSizes /\ c # t
      BY <1>1, <1>2, <2>2 DEF GridType
    <3>2. c \in after[hd[c].size] <=> c \in fl[hd[c].size]
      BY <1>6, <3>1
    <3>3. QED BY <1>1, <2>2, <3>1, <3>2 DEF LostOf, FreeOf
  <2>3. CASE c \notin DOMAIN hd \cup {t}
    BY <1>1, <2>3 DEF LostOf, FreeOf
  <2>4. QED BY <2>1, <2>2, <2>3
<1>8. after[n] = {t}
  BY <1>6
<1>9. GrownInto(hd, g, fl, n, t, after)
  BY <1>6, <1>7, <1>8 DEF GrownInto, SameLists
<1>10. QED BY <1>9 DEF after

-----------------------------------------------------------------------------
(* The heap in the memory.                                                 *)

\* Heaps of t cells on which the program has not exited, and for which no missing
\* return has counted.
HeapsOf(t) == [mem                 : [0 .. t - 1 -> Cell],
               free_list           : Lists,
               param_one_time_sbrk : {n \in BlockSizes : MinSbrk <= n /\ n <= MaxSbrk},
               exited              : {FALSE},
               stray               : {FALSE}]

\* The memory, of t cells, has these headers in it.
Shows(h, t, hd) ==
  /\ h \in HeapsOf(t) /\ GridType(hd, t)
  /\ \A b \in DOMAIN hd : h.mem[b] = hd[b]

\* The memory is that of another heap, but for these cells.
SameBut(h, g, t, cells) == \A x \in 0 .. t - 1 : x \notin cells => g.mem[x] = h.mem[x]

\* The size of the memory.
LEMMA TotalSize ==
  ASSUME NEW t \in Nat, NEW h \in HeapsOf(t)
  PROVE  total_size(h) = t /\ DOMAIN h.mem = 0 .. t - 1
<1>1. DOMAIN h.mem = 0 .. t - 1
  BY DEF HeapsOf
<1>2. Cardinality(0 .. t - 1) = t
  <2>1. t - 1 \in Int /\ 0 \in Int
    OBVIOUS
  <2>2. Cardinality(0 .. t - 1) = IF 0 > t - 1 THEN 0 ELSE (t - 1) - 0 + 1
    BY <2>1, FS_Interval
  <2>3. QED BY <2>2
<1>3. QED BY <1>1, <1>2 DEF total_size

\* What the calls read at a block is its header.
LEMMA HeaderIs ==
  ASSUME NEW t, NEW hd, NEW h, Shows(h, t, hd), NEW b \in DOMAIN hd
  PROVE  Header(h, b) = hd[b] /\ SizeOf(h, b) = hd[b].size /\ h.mem[b] = hd[b] /\ hd[b] \notin Data
<1>1. GridType(hd, t) /\ h \in HeapsOf(t) /\ h.mem[b] = hd[b]
  BY DEF Shows
<1>2. hd[b] \in HeaderRecord /\ b \in 0 .. t - 1 /\ t \in Nat
  BY <1>1 DEF GridType
<1>3. b \in DOMAIN h.mem /\ hd[b] \notin Data
  BY <1>1, <1>2, TotalSize, DataAssumption
<1>4. Header(h, b) = hd[b]
  BY <1>1, <1>3 DEF Header
<1>5. QED BY <1>1, <1>3, <1>4 DEF SizeOf

\* So they find its buddy.
LEMMA BuddyIs ==
  ASSUME NEW t, NEW hd, NEW h, Shows(h, t, hd), NEW b \in DOMAIN hd
  PROVE  buddy_address(h, b) = BuddyOf(hd, b)
BY HeaderIs DEF buddy_address, BuddyOf

\* A list operation changes the lists only.
LEMMA ListIs ==
  ASSUME NEW t, NEW hd, NEW h, Shows(h, t, hd), NEW b \in DOMAIN hd
  PROVE  /\ unlist(h, b) = [h EXCEPT !.free_list = Without(h.free_list, hd[b].size, b)]
         /\ list(h, b) = [h EXCEPT !.free_list = With(h.free_list, hd[b].size, b)]
<1>1. SizeOf(h, b) = hd[b].size /\ hd[b].size \in BlockSizes /\ IsPowerOfTwo(hd[b].size)
  BY HeaderIs, SizeFacts DEF Shows, GridType
<1>2. size2order(h, b) = h
  BY <1>1 DEF size2order
<1>3. unlist(h, b) = free_list_delete(h, b, hd[b].size) /\ list(h, b) = free_list_add(h, b, hd[b].size)
  BY <1>1, <1>2 DEF unlist, list
<1>4. free_list_delete(h, b, hd[b].size)
        = [h EXCEPT !.free_list = Without(h.free_list, hd[b].size, b)]
  BY <1>1 DEF free_list_delete, Without
<1>5. free_list_add(h, b, hd[b].size) = [h EXCEPT !.free_list = With(h.free_list, hd[b].size, b)]
  <2>1. CASE Cardinality(h.free_list[hd[b].size]) >= MaxArrayLength
    <3>1. free_list_add(h, b, hd[b].size) = h
      BY <2>1 DEF free_list_add
    <3>2. With(h.free_list, hd[b].size, b) = h.free_list
      BY <2>1 DEF With
    <3>3. h = [h EXCEPT !.free_list = h.free_list]
      BY DEF Shows, HeapsOf
    <3>4. QED BY <3>1, <3>2, <3>3
  <2>2. CASE ~ (Cardinality(h.free_list[hd[b].size]) >= MaxArrayLength)
    BY <1>1, <2>2 DEF free_list_add, With
  <2>3. QED BY <2>1, <2>2
<1>6. QED BY <1>3, <1>4, <1>5

\* Lists are changed, and the memory shows the same blocks.
LEMMA ListsSet ==
  ASSUME NEW t, NEW hd, NEW h, Shows(h, t, hd), NEW fl \in Lists
  PROVE  LET g == [h EXCEPT !.free_list = fl]
         IN  /\ Shows(g, t, hd) /\ g.free_list = fl /\ g.mem = h.mem
             /\ g.param_one_time_sbrk = h.param_one_time_sbrk
BY DEF Shows, HeapsOf

\* A header that is written.
Wrote(h, g, t, hd, b, r) ==
  /\ Shows(g, t, [c \in DOMAIN hd \cup {b} |-> IF c = b THEN r ELSE hd[c]])
  /\ g.free_list = h.free_list /\ SameBut(h, g, t, {b})

\* A header is written.
LEMMA HeaderWritten ==
  ASSUME NEW t, NEW hd, NEW h, Shows(h, t, hd), NEW b \in 0 .. t - 1,
         NEW r \in HeaderRecord, r.size \in BlockSizes, b + r.size <= t
  PROVE  Wrote(h, [h EXCEPT !.mem[b] = r], t, hd, b, r)
<1> DEFINE g == [h EXCEPT !.mem[b] = r]
           hr == [c \in DOMAIN hd \cup {b} |-> IF c = b THEN r ELSE hd[c]]
<1>1. h \in HeapsOf(t) /\ GridType(hd, t) /\ \A c \in DOMAIN hd : h.mem[c] = hd[c]
  BY DEF Shows
<1>2. g.mem = [h.mem EXCEPT ![b] = r] /\ g \in HeapsOf(t) /\ g.free_list = h.free_list
  BY <1>1 DEF HeapsOf, Cell
<1>3. \A x \in 0 .. t - 1 : g.mem[x] = IF x = b THEN r ELSE h.mem[x]
  BY <1>1, <1>2 DEF HeapsOf
<1> HIDE DEF g
<1>4. GridType(hr, t)
  <2>1. DOMAIN hr = DOMAIN hd \cup {b}
    OBVIOUS
  <2>2. \A c \in DOMAIN hr : hr[c] = IF c = b THEN r ELSE hd[c]
    OBVIOUS
  <2>3. hr \in [DOMAIN hr -> HeaderRecord]
    BY <1>1 DEF GridType
  <2> HIDE DEF hr
  <2>4. QED BY <1>1, <2>1, <2>2, <2>3 DEF GridType
<1>5. \A c \in DOMAIN hr : g.mem[c] = hr[c]
  BY <1>1, <1>3 DEF GridType
<1>6. Shows(g, t, hr)
  BY <1>2, <1>4, <1>5 DEF Shows
<1>7. QED BY <1>2, <1>3, <1>6 DEF Wrote, SameBut, g

\* A size is written.
LEMMA SizeSet ==
  ASSUME NEW t, NEW hd, NEW h, Shows(h, t, hd), NEW b \in DOMAIN hd, NEW n \in BlockSizes,
         b + n <= t
  PROVE  Wrote(h, set_size(h, b, n), t, hd, b, [hd[b] EXCEPT !.size = n])
<1> DEFINE r == [hd[b] EXCEPT !.size = n]
<1>1. GridType(hd, t) /\ hd[b] \in HeaderRecord /\ b \in 0 .. t - 1 /\ h.mem[b] = hd[b]
  BY DEF Shows, GridType
<1>2. r \in HeaderRecord /\ r.size = n
  BY <1>1, SizeFacts DEF HeaderRecord
<1>3. set_size(h, b, n) = [h EXCEPT !.mem[b] = r]
  BY <1>1 DEF set_size
<1> HIDE DEF r
<1>4. Wrote(h, [h EXCEPT !.mem[b] = r], t, hd, b, r)
  BY <1>1, <1>2, HeaderWritten
<1>5. QED BY <1>3, <1>4 DEF r

\* A mark is written.
LEMMA OccupySet ==
  ASSUME NEW t, NEW hd, NEW h, Shows(h, t, hd), NEW b \in DOMAIN hd, NEW o \in BOOLEAN
  PROVE  Wrote(h, set_occupy(h, b, o), t, hd, b, [hd[b] EXCEPT !.occupy = o])
<1> DEFINE r == [hd[b] EXCEPT !.occupy = o]
<1>1. /\ GridType(hd, t) /\ hd[b] \in HeaderRecord /\ b \in 0 .. t - 1 /\ h.mem[b] = hd[b]
      /\ hd[b].size \in BlockSizes /\ b + hd[b].size <= t
  BY DEF Shows, GridType
<1>2. r \in HeaderRecord /\ r.size = hd[b].size
  BY <1>1 DEF HeaderRecord
<1>3. set_occupy(h, b, o) = [h EXCEPT !.mem[b] = r]
  BY <1>1 DEF set_occupy
<1> HIDE DEF r
<1>4. Wrote(h, [h EXCEPT !.mem[b] = r], t, hd, b, r)
  BY <1>1, <1>2, HeaderWritten
<1>5. QED BY <1>3, <1>4 DEF r

\* Lists stay lists.
LEMMA ListsType ==
  ASSUME NEW fl \in Lists, NEW n \in BlockSizes, NEW b \in Nat
  PROVE  Without(fl, n, b) \in Lists /\ With(fl, n, b) \in Lists
BY DEF Lists, Without, With

\* What two steps leave alone.
LEMMA SameButTrans ==
  ASSUME NEW h, NEW g, NEW k, NEW t, NEW c1, NEW c2, NEW c3,
         SameBut(h, g, t, c1), SameBut(g, k, t, c2), c1 \cup c2 \subseteq c3
  PROVE  SameBut(h, k, t, c3)
BY DEF SameBut

\* One turn of split_block on the headers and on the lists.
HalveDoes(h, g, t, hd, f, half) ==
  /\ Shows(g, t, Halved(hd, f, half))
  /\ g.free_list = With(With(Without(h.free_list, 2 * half, f), half, f), half, f + half)
  /\ SameBut(h, g, t, {f, f + half})

\* A turn of split_block on a block that is too large.
LEMMA HalveTurn ==
  ASSUME NEW t, NEW hd, NEW h, Shows(h, t, hd), Grid(hd, t), NEW f \in DOMAIN hd,
         ~ hd[f].occupy,
         NEW half \in BlockSizes, hd[f].size = 2 * half, NEW small, ~ (2 * half <= small)
  PROVE  HalveDoes(h, halve(h, f, small), t, hd, f, half)
<1> DEFINE w  == f + half
           h1 == unlist(h, f)
           h2 == set_size(h1, f, half)
           h3 == list(h2, f)
           r4 == [h3.mem[f] EXCEPT !.occupy = FALSE]
           h4 == [h3 EXCEPT !.mem[w] = r4]
           h5 == list(h4, w)
           l1 == Without(h.free_list, 2 * half, f)
           l2 == With(l1, half, f)
           l3 == With(l2, half, w)
           r2 == [hd[f] EXCEPT !.size = half]
           d2 == [c \in DOMAIN hd \cup {f} |-> IF c = f THEN r2 ELSE hd[c]]
           d4 == [c \in DOMAIN d2 \cup {w} |-> IF c = w THEN r4 ELSE d2[c]]
<1> HIDE DEF l1, l2, l3, h1, h2, h3, h4, h5, d2, d4, r2, r4, w
<1>2. /\ half \in Nat /\ f \in Nat /\ hd[f] \in HeaderRecord /\ h.free_list \in Lists /\ t \in Nat
      /\ f + 2 * half <= t /\ w \notin DOMAIN hd /\ w # f /\ 2 * half \in BlockSizes /\ half >= 1
  <2>1. h.free_list \in Lists
    BY DEF Shows, HeapsOf
  <2>2. half \in Nat /\ half >= 1
    BY SizeFacts
  <2>3. f \in Nat /\ hd[f] \in HeaderRecord /\ t \in Nat /\ f + 2 * half <= t /\ 2 * half \in BlockSizes
    BY GridNumbers DEF Grid
  <2>4. w \notin DOMAIN hd /\ w # f
    <3>1. IsHalved(hd, f, half, Halved(hd, f, half))
      BY HalvedFacts
    <3>2. QED BY <3>1 DEF IsHalved, w
  <2>5. QED BY <2>1, <2>2, <2>3, <2>4
<1>3. l1 \in Lists /\ l2 \in Lists /\ l3 \in Lists
  <2>1. l1 \in Lists
    BY <1>2, ListsType DEF l1
  <2>2. l2 \in Lists
    BY <1>2, <2>1, ListsType DEF l2
  <2>3. l3 \in Lists
    <3>1. w \in Nat
      BY <1>2 DEF w
    <3>2. QED BY <1>2, <2>2, <3>1, ListsType DEF l3
  <2>4. QED BY <2>1, <2>2, <2>3
<1>4. Shows(h1, t, hd) /\ h1.free_list = l1 /\ h1.mem = h.mem
  <2>1. h1 = [h EXCEPT !.free_list = l1]
    BY ListIs DEF h1, l1
  <2>2. QED BY <1>3, <2>1, ListsSet
<1>5. Shows(h2, t, d2) /\ h2.free_list = l1 /\ SameBut(h1, h2, t, {f})
  <2>1. f + half <= t
    BY <1>2
  <2>2. Wrote(h1, h2, t, hd, f, r2)
    BY <1>4, <2>1, SizeSet DEF h2, r2
  <2>3. QED BY <1>4, <2>2 DEF Wrote, d2
<1>6. f \in DOMAIN d2 /\ d2[f] = r2 /\ r2.size = half /\ DOMAIN d2 = DOMAIN hd
  BY <1>2 DEF d2, r2, HeaderRecord
<1>7. Shows(h3, t, d2) /\ h3.free_list = l2 /\ h3.mem = h2.mem
  <2>1. h3 = [h2 EXCEPT !.free_list = l2]
    BY <1>5, <1>6, ListIs DEF h3, l2
  <2>2. QED BY <1>3, <1>5, <2>1, ListsSet
<1>8. r4 = [r2 EXCEPT !.occupy = FALSE] /\ r4 \in HeaderRecord /\ r4.size = half
  <2>1. h3.mem[f] = r2
    BY <1>6, <1>7 DEF Shows
  <2>2. r2 \in HeaderRecord
    BY <1>2 DEF r2, HeaderRecord
  <2>3. QED BY <1>6, <2>1, <2>2 DEF r4, HeaderRecord
<1>9. Shows(h4, t, d4) /\ h4.free_list = l2 /\ SameBut(h3, h4, t, {w})
  <2>1. w \in 0 .. t - 1 /\ w + r4.size <= t
    BY <1>2, <1>8 DEF w
  <2>2. Wrote(h3, h4, t, d2, w, r4)
    BY <1>7, <1>8, <2>1, HeaderWritten DEF h4
  <2>3. QED BY <1>7, <2>2 DEF Wrote, d4
<1>10. d4 = Halved(hd, f, half)
  <2>1. DOMAIN d4 = DOMAIN hd \cup {w}
    BY <1>6 DEF d4
  <2>2. r4 = [hd[f] EXCEPT !.size = half, !.occupy = FALSE]
    BY <1>2, <1>8 DEF r2, HeaderRecord
  <2>3. ASSUME NEW c \in DOMAIN hd \cup {w}
        PROVE  d4[c] = IF c = f THEN r2 ELSE IF c = w THEN r4 ELSE hd[c]
    BY <1>2, <1>6 DEF d4, d2
  <2>4. d4 = [c \in DOMAIN hd \cup {w} |-> IF c = f THEN r2 ELSE IF c = w THEN r4 ELSE hd[c]]
    BY <2>1, <2>3 DEF d4
  <2>5. QED BY <2>2, <2>4 DEF Halved, r2, w
<1>11. Shows(h5, t, d4) /\ h5.free_list = l3 /\ h5.mem = h4.mem
  <2>1. w \in DOMAIN d4 /\ d4[w].size = half
    BY <1>8 DEF d4
  <2>2. h5 = [h4 EXCEPT !.free_list = l3]
    BY <1>9, <2>1, ListIs DEF h5, l3
  <2>3. QED BY <1>3, <1>9, <2>2, ListsSet
<1>12. SameBut(h, h5, t, {f, w})
  BY <1>4, <1>5, <1>7, <1>9, <1>11 DEF SameBut
<1>13. halve(h, f, small) = h5
  <2>1. SizeOf(h, f) = 2 * half /\ ~ Header(h, f).occupy
    BY HeaderIs
  <2>2. (2 * half) \div 2 = half
    BY SizeFacts
  <2>3. ~ Header(h2, f).occupy
    <3>1. Header(h2, f) = r2
      BY <1>5, <1>6, HeaderIs
    <3>2. QED BY <1>2, <3>1 DEF r2, HeaderRecord
  <2>4. QED BY <2>1, <2>2, <2>3 DEF halve, h1, h2, h3, h4, h5, r4, w
<1>14. QED BY <1>10, <1>11, <1>12, <1>13 DEF HalveDoes, l1, l2, l3, w

-----------------------------------------------------------------------------
(* A block is split.                                                       *)

\* What splitting block f of a heap h0 with the headers hd0 has come to.
SplitTo(h0, hd0, t, f, small, h, hd) ==
  /\ Shows(h, t, hd) /\ Grid(hd, t) /\ ListsOf(hd, h.free_list) /\ CoalescedBut(hd, f)
  /\ f \in FreeOf(hd) /\ f \in h.free_list[hd[f].size]
  /\ small <= hd[f].size /\ hd[f].size <= hd0[f].size
  /\ \A n \in BlockSizes : small <= n /\ n < hd[f].size => h.free_list[n] = {}
  /\ \A c \in DOMAIN hd0 \ {f} : c \in DOMAIN hd /\ hd[c] = hd0[c]
  /\ \A c \in DOMAIN hd \ DOMAIN hd0 : c \in FreeOf(hd)
  /\ LostOf(hd, h.free_list) = LostOf(hd0, h0.free_list)
  /\ SameBut(h0, h, t, f .. f + hd0[f].size - 1)

\* Such a turn keeps what split_block has come to.
LEMMA SplitTurn ==
  ASSUME NEW t, NEW h0, NEW hd0, GridType(hd0, t), NEW f \in DOMAIN hd0,
         NEW small \in BlockSizes, NEW h, NEW hd,
         SplitTo(h0, hd0, t, f, small, h, hd), NEW half \in BlockSizes, hd[f].size = 2 * half,
         2 * half \in BlockSizes, small < 2 * half
  PROVE  SplitTo(h0, hd0, t, f, small, halve(h, f, small), Halved(hd, f, half))
<1> DEFINE g  == halve(h, f, small)
           gd == Halved(hd, f, half)
           w  == f + half
           after == With(With(Without(h.free_list, 2 * half, f), half, f), half, f + half)
<1>1. /\ Shows(h, t, hd) /\ Grid(hd, t) /\ ListsOf(hd, h.free_list) /\ CoalescedBut(hd, f)
      /\ f \in FreeOf(hd) /\ f \in h.free_list[2 * half] /\ f \in DOMAIN hd /\ h.free_list \in Lists
      /\ 2 * half <= hd0[f].size
      /\ \A n \in BlockSizes : small <= n /\ n < 2 * half => h.free_list[n] = {}
      /\ \A c \in DOMAIN hd0 \ {f} : c \in DOMAIN hd /\ hd[c] = hd0[c]
      /\ \A c \in DOMAIN hd \ DOMAIN hd0 : c \in FreeOf(hd)
      /\ LostOf(hd, h.free_list) = LostOf(hd0, h0.free_list)
      /\ SameBut(h0, h, t, f .. f + hd0[f].size - 1)
  BY DEF SplitTo, FreeOf, Shows, HeapsOf
<1>2. /\ half \in Nat /\ half >= 1 /\ small \in Nat /\ small <= half /\ f \in Nat /\ hd0[f].size \in Nat
  <2>1. half \in Nat /\ half >= 1 /\ small \in Nat /\ 2 * small <= 2 * half
    BY SizeFacts
  <2>2. f \in Nat /\ hd0[f].size \in Nat
    BY GridNumbers
  <2>3. QED BY <2>1, <2>2
<1>3. HalveDoes(h, g, t, hd, f, half)
  <2>1. ~ (2 * half <= small)
    BY <1>2
  <2>2. ~ hd[f].occupy
    BY <1>1 DEF FreeOf
  <2>3. QED BY <1>1, <2>1, <2>2, HalveTurn
<1>4. IsHalved(hd, f, half, gd) /\ IsFunction(gd)
  <2>1. IsHalved(hd, f, half, gd)
    BY <1>1, HalvedFacts
  <2>2. IsFunction(gd)
    BY DEF IsFunction, Halved
  <2>3. QED BY <2>1, <2>2
<1> HIDE DEF g, gd
<1>5. Grid(gd, t)
  BY <1>1, <1>4, HalvedGrid
<1>6. CoalescedBut(gd, f)
  BY <1>1, <1>4, <1>5, HalvedCoalesced
<1>7. h.free_list[half] = {}
  BY <1>1, <1>2
<1>8. /\ after \in Lists /\ ListsOf(gd, after) /\ LostOf(gd, after) = LostOf(hd, h.free_list)
      /\ after[half] = {f, w}
      /\ \A m \in BlockSizes : m \notin {half, 2 * half} => after[m] = h.free_list[m]
  BY <1>1, <1>4, <1>5, <1>7, HalvedLists
<1> HIDE DEF after
<1>9. Shows(g, t, gd) /\ g.free_list = after /\ SameBut(h, g, t, {f, w})
  BY <1>3 DEF HalveDoes, gd, after
<1>10. /\ gd[f].size = half /\ f \in FreeOf(gd) /\ w \in FreeOf(gd)
       /\ DOMAIN gd = DOMAIN hd \cup {w} /\ \A c \in DOMAIN hd \ {f} : gd[c] = hd[c]
  BY <1>1, <1>4 DEF IsHalved, FreeOf
<1>11. \A n \in BlockSizes : small <= n /\ n < half => after[n] = {}
  <2>1. ASSUME NEW n \in BlockSizes, small <= n, n < half PROVE after[n] = {}
    <3>1. n \in Nat
      BY SizeFacts
    <3>2. n \notin {half, 2 * half} /\ n < 2 * half
      BY <1>2, <2>1, <3>1
    <3>3. QED BY <1>1, <1>8, <2>1, <3>2
  <2>2. QED BY <2>1
<1>12. SameBut(h0, g, t, f .. f + hd0[f].size - 1)
  <2>1. {f, w} \subseteq f .. f + hd0[f].size - 1
    BY <1>1, <1>2
  <2> DEFINE region == f .. f + hd0[f].size - 1
  <2>2. SameBut(h0, h, t, region) /\ SameBut(h, g, t, {f, w}) /\ region \cup {f, w} \subseteq region
    BY <1>1, <1>9, <2>1
  <2> HIDE DEF region
  <2>3. SameBut(h0, g, t, region)
    BY <2>2, SameButTrans
  <2>4. QED BY <2>3 DEF region
<1>13. \A c \in DOMAIN hd0 \ {f} : c \in DOMAIN gd /\ gd[c] = hd0[c]
  BY <1>1, <1>10
<1>14. \A c \in DOMAIN gd \ DOMAIN hd0 : c \in FreeOf(gd)
  BY <1>1, <1>10 DEF FreeOf
<1>15. half <= hd0[f].size
  BY <1>1, <1>2
<1>16. f \in after[gd[f].size] /\ small <= gd[f].size
  BY <1>2, <1>8, <1>10
<1>17. QED BY <1>1, <1>5, <1>6, <1>8, <1>9, <1>10, <1>11, <1>12, <1>13, <1>14, <1>15, <1>16
           DEF SplitTo, g, gd

\* The loop of split_block, in n turns.
SplitIter(n, h, f, small, it) ==
  it = [k \in 0 .. n |-> IF k = 0 THEN h ELSE halve(it[k - 1], f, small)]

\* split_block is the last of the functions' values.
LEMMA SplitUnfold ==
  ASSUME NEW h, NEW f, NEW small
  PROVE  split_block(h, f, small) = (CHOOSE it : SplitIter(MaxOrder, h, f, small, it))[MaxOrder]
BY DEF split_block, SplitIter

\* There is such a function, for every number of turns.
LEMMA SplitIterExists ==
  ASSUME NEW n \in Nat, NEW h, NEW f, NEW small
  PROVE  \E it : SplitIter(n, h, f, small, it)
<1> DEFINE P == {k \in 0 .. n : \E it : SplitIter(k, h, f, small, it)}
<1>1. 0 \in P
  <2>1. SplitIter(0, h, f, small, [k \in 0 .. 0 |-> h])
    BY DEF SplitIter
  <2>2. QED BY <2>1
<1>2. ASSUME NEW k \in 1 .. n, k - 1 \in P PROVE k \in P
  <2>1. PICK it : SplitIter(k - 1, h, f, small, it)
    BY <1>2
  <2> DEFINE g == [j \in 0 .. k |-> IF j < k THEN it[j] ELSE halve(it[k - 1], f, small)]
  <2>2. ASSUME NEW j \in 0 .. k PROVE g[j] = IF j = 0 THEN h ELSE halve(g[j - 1], f, small)
    <3>1. CASE j = 0
      BY <2>1, <3>1 DEF SplitIter
    <3>2. CASE j # 0 /\ j < k
      <4>1. j \in 0 .. k - 1 /\ j - 1 \in 0 .. k
        BY <3>2
      <4>2. it[j] = halve(it[j - 1], f, small)
        BY <2>1, <3>2, <4>1 DEF SplitIter
      <4>3. g[j] = it[j] /\ g[j - 1] = it[j - 1]
        BY <3>2, <4>1
      <4>4. QED BY <3>2, <4>2, <4>3
    <3>3. CASE j = k
      <4>1. g[j] = halve(it[k - 1], f, small) /\ g[k - 1] = it[k - 1] /\ j # 0
        BY <3>3
      <4>2. QED BY <3>3, <4>1
    <3>4. QED BY <3>1, <3>2, <3>3
  <2>3. SplitIter(k, h, f, small, g)
    BY <2>2 DEF SplitIter
  <2>4. QED BY <2>3
<1>3. \A k \in 0 .. n : k \in P
  <2>1. \A k \in 1 .. n : k - 1 \in P => k \in P
    BY <1>2
  <2> HIDE DEF P
  <2>2. QED BY <1>1, <2>1, CountUp
<1>4. n \in P
  <2> HIDE DEF P
  <2>1. QED BY <1>3
<1>5. QED BY <1>4

\* After the turns the block is of the size that was asked for.
LEMMA SplitFacts ==
  ASSUME NEW t, NEW f, NEW small \in BlockSizes, NEW h0, NEW hd0,
         SplitTo(h0, hd0, t, f, small, h0, hd0)
  PROVE  \E hd : SplitTo(h0, hd0, t, f, small, split_block(h0, f, small), hd) /\ hd[f].size = small
<1>1. PICK it : SplitIter(MaxOrder, h0, f, small, it) /\ it[MaxOrder] = split_block(h0, f, small)
  BY SplitUnfold, SplitIterExists, OrderAssumption
<1> DEFINE Turns(k, hd) ==
             \/ hd[f].size = small
             \/ \E j \in 0 .. MaxOrder : hd[f].size = order2size[j] /\ j + k <= MaxOrder
           P == {k \in 0 .. MaxOrder : \E hd : SplitTo(h0, hd0, t, f, small, it[k], hd) /\ Turns(k, hd)}
<1>2. MaxOrder \in Nat /\ GridType(hd0, t) /\ f \in DOMAIN hd0 /\ hd0[f].size \in BlockSizes
  BY OrderAssumption DEF SplitTo, Grid, GridType, FreeOf
<1>3. 0 \in P
  <2>1. it[0] = h0
    BY <1>1, <1>2 DEF SplitIter
  <2>2. PICK j \in 0 .. MaxOrder : hd0[f].size = order2size[j]
    BY <1>2, SizeFacts
  <2>3. j + 0 <= MaxOrder /\ 0 \in 0 .. MaxOrder
    BY <1>2
  <2>4. QED BY <2>1, <2>2, <2>3
<1>4. ASSUME NEW k \in 1 .. MaxOrder, k - 1 \in P PROVE k \in P
  <2>1. PICK hd : SplitTo(h0, hd0, t, f, small, it[k - 1], hd) /\ Turns(k - 1, hd)
    BY <1>4
  <2>2. it[k] = halve(it[k - 1], f, small)
    <3>1. k \in 0 .. MaxOrder /\ k # 0
      BY <1>2
    <3>2. QED BY <1>1, <3>1 DEF SplitIter
  <2>3. /\ Shows(it[k - 1], t, hd) /\ f \in DOMAIN hd /\ small <= hd[f].size
        /\ hd[f].size \in BlockSizes
    BY <2>1 DEF SplitTo, FreeOf, Shows, GridType
  <2>4. CASE hd[f].size = small
    <3>1. SizeOf(it[k - 1], f) = small
      BY <2>3, <2>4, HeaderIs
    <3>2. it[k] = it[k - 1]
      <4>1. small <= small
        BY SizeFacts
      <4>2. QED BY <2>2, <3>1, <4>1 DEF halve
    <3>3. QED BY <2>1, <2>4, <3>2
  <2>5. CASE hd[f].size # small
    <3>1. PICK j \in 0 .. MaxOrder : hd[f].size = order2size[j] /\ j + (k - 1) <= MaxOrder
      BY <2>1, <2>5
    <3>2. small \in Nat /\ small >= 1 /\ hd[f].size \in Nat /\ small < hd[f].size /\ hd[f].size # 1
      <4>1. small \in Nat /\ small >= 1
        BY SizeFacts
      <4>2. hd[f].size \in Nat
        BY <2>3, SizeFacts
      <4>3. QED BY <2>3, <2>5, <4>1, <4>2
    <3> DEFINE half == hd[f].size \div 2
    <3>3. /\ j >= 1 /\ half = order2size[j - 1] /\ half \in BlockSizes /\ hd[f].size = 2 * half
      BY <3>1, <3>2, HalfSize
    <3> HIDE DEF half
    <3>4. SplitTo(h0, hd0, t, f, small, it[k], Halved(hd, f, half))
      BY <1>2, <2>1, <2>2, <2>3, <3>2, <3>3, SplitTurn
    <3>5. Halved(hd, f, half)[f].size = half
      <4>1. IsHalved(hd, f, half, Halved(hd, f, half))
        BY <2>1, <2>3, <3>3, HalvedFacts DEF SplitTo
      <4>2. QED BY <4>1 DEF IsHalved
    <3>6. j - 1 \in 0 .. MaxOrder /\ (j - 1) + k <= MaxOrder
      BY <1>2, <3>1, <3>3
    <3>7. QED BY <3>3, <3>4, <3>5, <3>6
  <2>6. QED BY <2>4, <2>5
<1>5. \A k \in 0 .. MaxOrder : k \in P
  <2>1. \A k \in 1 .. MaxOrder : k - 1 \in P => k \in P
    BY <1>4
  <2> HIDE DEF P
  <2>2. QED BY <1>2, <1>3, <2>1, CountUp
<1>6. MaxOrder \in P
  <2> HIDE DEF P
  <2>1. QED BY <1>2, <1>5
<1>7. PICK hd : SplitTo(h0, hd0, t, f, small, it[MaxOrder], hd) /\ Turns(MaxOrder, hd)
  BY <1>6
<1>8. hd[f].size = small
  <2>1. ASSUME NEW j \in 0 .. MaxOrder, hd[f].size = order2size[j], j + MaxOrder <= MaxOrder
        PROVE  hd[f].size = small
    <3>1. j = 0
      BY <1>2, <2>1
    <3>2. hd[f].size = 1
      BY <2>1, <3>1, OrderFacts
    <3>3. small <= 1 /\ small >= 1 /\ small \in Nat
      BY <1>7, <3>2, SizeFacts DEF SplitTo
    <3>4. QED BY <3>2, <3>3
  <2>2. QED BY <1>7, <2>1
<1>9. QED BY <1>1, <1>7, <1>8

-----------------------------------------------------------------------------
(* Free blocks are joined.                                                 *)

\* buddy_exist_not_occupied gives the front of two free halves, and otherwise
\* nothing, if it has a return.
LEMMA MergeIs ==
  ASSUME NEW t, NEW hd, NEW h, Shows(h, t, hd), Grid(hd, t), NEW x \in DOMAIN hd
  PROVE  /\ Meets(hd, x) => /\ buddy_exist_not_occupied(h, x) = Smaller(BuddyOf(hd, x), x)
                            /\ ~ no_return(h, x)
         /\ ~ Meets(hd, x) => \/ buddy_exist_not_occupied(h, x) = NoBlock
                              \/ Missing # "NULL" /\ no_return(h, x)
<1> DEFINE y == BuddyOf(hd, x)
<1>1. buddy_address(h, x) = y /\ SizeOf(h, x) = hd[x].size
  BY BuddyIs, HeaderIs
<1>2. CASE y = NoBlock
  <2>1. ~ Meets(hd, x)
    <3>1. y \notin DOMAIN hd
      BY <1>2, GridNumbers DEF Grid, NoBlock
    <3>2. QED BY <3>1 DEF Meets, FreeOf
  <2>2. QED BY <1>1, <1>2, <2>1 DEF buddy_exist_not_occupied, no_return
<1>3. CASE y # NoBlock
  <2>1. y \in DOMAIN hd
    BY <1>3, BuddyIsBlock
  <2>2. Header(h, y) = hd[y] /\ SizeOf(h, y) = hd[y].size
    BY <2>1, HeaderIs
  <2>3. Meets(hd, x) <=> SizeOf(h, y) = SizeOf(h, x) /\ ~ Header(h, y).occupy
    BY <1>1, <2>1, <2>2 DEF Meets, FreeOf
  <2>4. CASE Meets(hd, x)
    BY <1>1, <1>3, <2>3, <2>4 DEF buddy_exist_not_occupied, no_return
  <2>5. CASE ~ Meets(hd, x)
    BY <1>1, <1>3, <2>3, <2>5 DEF buddy_exist_not_occupied, no_return
  <2>6. QED BY <2>4, <2>5
<1>4. QED BY <1>2, <1>3

\* Blocks z and w as one, which is free.
Joined(hd, z, w) ==
  [b \in DOMAIN hd \ {w} |->
     IF b = z THEN [hd[z] EXCEPT !.size = 2 * hd[z].size, !.occupy = FALSE] ELSE hd[b]]

\* A block that meets its buddy is half of one.
LEMMA HalvesFound ==
  ASSUME NEW t, NEW hd, Grid(hd, t), NEW x \in FreeOf(hd), Meets(hd, x)
  PROVE  \E z, w : /\ Halves(hd, x, BuddyOf(hd, x), z, w, hd[x].size)
                   /\ z = Smaller(BuddyOf(hd, x), x)
<1> DEFINE y == BuddyOf(hd, x)
           s == hd[x].size
<1>1. x \in DOMAIN hd /\ y \in FreeOf(hd) /\ y \in DOMAIN hd /\ hd[y].size = s
  BY DEF Meets, FreeOf
<1>2. y # NoBlock
  BY <1>1, MeetsFacts
<1>3. PICK z : PairAt(hd, x, y, z) /\ z = Smaller(y, x)
  BY <1>1, <1>2, BuddyPair
<1>4. /\ 2 * s \in BlockSizes /\ z \in Nat
      /\ (x = z /\ y = z + s) \/ (y = z /\ x = z + s)
  BY <1>3 DEF PairAt
<1>5. /\ s \in BlockSizes /\ s \in Nat /\ s >= 1
      /\ hd[y].area_head = hd[x].area_head /\ hd[y].area_end = hd[x].area_end
  BY <1>1, <1>3, BuddyBlock, GridNumbers DEF Grid
<1> HIDE DEF y, s
<1>6. CASE x = z /\ y = z + s
  <2>1. {x, y} = {z, y} /\ z # y /\ z \in FreeOf(hd) /\ hd[z].size = s /\ PairAt(hd, z, y, z)
    BY <1>1, <1>3, <1>4, <1>5, <1>6 DEF s
  <2>2. Halves(hd, x, y, z, y, s)
    BY <1>1, <1>4, <1>5, <1>6, <2>1 DEF Halves
  <2>3. QED BY <1>3, <2>2 DEF y, s
<1>7. CASE y = z /\ x = z + s
  <2>1. PairAt(hd, z, x, z)
    BY <1>1, <1>3, <1>5, <1>7 DEF PairAt, s
  <2>2. {x, y} = {z, x} /\ z # x /\ z \in FreeOf(hd) /\ hd[z].size = s /\ hd[x].size = s
    BY <1>1, <1>4, <1>5, <1>7 DEF s
  <2>3. Halves(hd, x, y, z, x, s)
    BY <1>4, <1>5, <1>7, <2>1, <2>2 DEF Halves
  <2>4. QED BY <1>3, <2>3 DEF y, s
<1>8. QED BY <1>4, <1>6, <1>7

\* Joined is what the joined blocks are, and they fill the memory.
LEMMA JoinedFacts ==
  ASSUME NEW t, NEW hd, Grid(hd, t), NEW x, NEW y, NEW z, NEW w, NEW s, Halves(hd, x, y, z, w, s)
  PROVE  IsJoined(hd, z, w, Joined(hd, z, w)) /\ Grid(Joined(hd, z, w), t)
<1> DEFINE g == Joined(hd, z, w)
<1>1. /\ z \in DOMAIN hd /\ w \in DOMAIN hd /\ z # w /\ hd[z].size = s /\ hd[w].size = s
      /\ w = z + s /\ PairAt(hd, z, w, z) /\ 2 * s \in BlockSizes
  BY DEF Halves, FreeOf
<1>2. hd[z] \in HeaderRecord /\ 2 * s \in Nat
  BY <1>1, GridNumbers, SizeFacts DEF Grid
<1>3. IsJoined(hd, z, w, g)
  <2>1. DOMAIN g = DOMAIN hd \ {w} /\ \A b \in DOMAIN hd \ {z, w} : g[b] = hd[b]
    BY DEF Joined
  <2>2. g[z] = [hd[z] EXCEPT !.size = 2 * s, !.occupy = FALSE]
    BY <1>1 DEF Joined
  <2> HIDE DEF g
  <2>3. /\ g[z] \in HeaderRecord /\ g[z].size = 2 * s /\ ~ g[z].occupy
        /\ g[z].area_head = hd[z].area_head /\ g[z].area_end = hd[z].area_end
    BY <1>2, <2>2 DEF HeaderRecord
  <2>4. QED BY <1>1, <2>1, <2>3 DEF IsJoined
<1>4. IsFunction(g)
  BY DEF IsFunction, Joined
<1> HIDE DEF g
<1>5. Grid(g, t)
  BY <1>1, <1>3, <1>4, JoinedGrid
<1>6. QED BY <1>3, <1>5 DEF g

\* One turn of free's loop on the headers and on the lists.
JoinDoes(h, g, t, hd, x, y, z, w, s) ==
  /\ Shows(g, t, Joined(hd, z, w))
  /\ g.free_list = With(Without(Without(h.free_list, s, x), s, y), 2 * s, z)
  /\ SameBut(h, g, t, {z})

\* free has joined what a missing return gave it; of such a heap nothing is said
\* but that it stays one.
Astray(h) == Missing # "NULL" /\ "stray" \in DOMAIN h /\ h.stray = TRUE

\* What is done to a heap between two calls does not change that.
LEMMA AstrayKept ==
  ASSUME NEW h, Astray(h)
  PROVE  /\ \A b : Astray(unlist(h, b)) /\ Astray(list(h, b))
         /\ \A b, v : Astray(set_size(h, b, v)) /\ Astray(set_occupy(h, b, v))
         /\ \A v : Astray([h EXCEPT !.mem = v]) /\ Astray([h EXCEPT !.exited = v])
         /\ \A b, n, d : Astray(memset(h, b, n, d))
         /\ \A b, c, n : Astray(memcpy(h, b, c, n))
<1>1. \A v : /\ Astray([h EXCEPT !.mem = v]) /\ Astray([h EXCEPT !.exited = v])
            /\ Astray([h EXCEPT !.free_list = v])
  BY DEF Astray
<1>2. ASSUME NEW b PROVE Astray(unlist(h, b)) /\ Astray(list(h, b))
  <2> DEFINE g == size2order(h, b)
             n == SizeOf(h, b)
  <2>1. Astray(g) /\ \A v : Astray([g EXCEPT !.free_list = v])
    <3>1. Astray(g)
      BY <1>1 DEF size2order
    <3> HIDE DEF g
    <3>2. QED BY <3>1 DEF Astray
  <2> HIDE DEF g, n
  <2>2. Astray(free_list_delete(g, b, n)) /\ Astray(free_list_add(g, b, n))
    BY <2>1 DEF free_list_delete, free_list_add
  <2>3. QED BY <2>2 DEF unlist, list, g, n
<1>3. ASSUME NEW b, NEW v PROVE Astray(set_size(h, b, v)) /\ Astray(set_occupy(h, b, v))
  BY <1>1 DEF set_size, set_occupy
<1>4. /\ \A b, n, d : Astray(memset(h, b, n, d))
      /\ \A b, c, n : Astray(memcpy(h, b, c, n))
  BY <1>1 DEF memset, memcpy
<1>5. QED BY <1>1, <1>2, <1>3, <1>4

\* Nor does a turn of free's loop, and one that takes what a missing return gave
\* leads to such a heap.
LEMMA AstrayTurn ==
  ASSUME NEW at,
         \/ Astray(at.h)
         \/ /\ no_return(at.h, at.block) /\ Missing # "NULL" /\ "stray" \in DOMAIN at.h
            /\ ~ at.h.exited /\ buddy_exist_not_occupied(at.h, at.block) # NoBlock
  PROVE  Astray(join_turn(at).h)
<1> DEFINE merge  == buddy_exist_not_occupied(at.h, at.block)
           from   == IF no_return(at.h, at.block) THEN [at.h EXCEPT !.stray = TRUE] ELSE at.h
           a1     == unlist(from, at.block)
           alone  == unlist(a1, buddy_address(at.h, at.block))
           cut    == set_size(alone, merge, 2 * SizeOf(alone, merge))
           joined == set_occupy(cut, merge, FALSE)
<1>1. CASE at.h.exited \/ merge = NoBlock
  <2>1. join_turn(at) = at
    BY <1>1 DEF join_turn
  <2>2. QED BY <1>1, <2>1
<1>2. CASE ~ (at.h.exited \/ merge = NoBlock)
  <2>1. Astray(from)
    BY DEF Astray
  <2>2. Astray(alone)
    <3> HIDE DEF from
    <3>1. Astray(a1)
      BY <2>1, AstrayKept
    <3> HIDE DEF a1
    <3>2. QED BY <3>1, AstrayKept
  <2>3. Astray(list(joined, merge))
    <3> HIDE DEF alone, merge
    <3>1. Astray(cut)
      BY <2>2, AstrayKept
    <3> HIDE DEF cut
    <3>2. Astray(joined)
      BY <3>1, AstrayKept
    <3> HIDE DEF joined
    <3>3. QED BY <3>2, AstrayKept
  <2>4. join_turn(at) = IF alone.exited THEN [h |-> alone, block |-> at.block]
                        ELSE [h |-> list(joined, merge), block |-> merge]
    BY <1>2 DEF join_turn
  <2> HIDE DEF alone, joined, merge
  <2>5. CASE alone.exited
    <3>1. join_turn(at).h = alone
      BY <2>4, <2>5
    <3>2. QED BY <2>2, <3>1
  <2>6. CASE ~ alone.exited
    <3>1. join_turn(at).h = list(joined, merge)
      BY <2>4, <2>6
    <3>2. QED BY <2>3, <3>1
  <2>7. QED BY <2>5, <2>6
<1>3. QED BY <1>1, <1>2

\* A turn of free's loop where the block does not meet its buddy.
LEMMA JoinStays ==
  ASSUME NEW t, NEW hd, NEW at, Shows(at.h, t, hd), Grid(hd, t),
         at.block \in DOMAIN hd, ~ Meets(hd, at.block)
  PROVE  join_turn(at) = at \/ Astray(join_turn(at).h)
<1>1. CASE buddy_exist_not_occupied(at.h, at.block) = NoBlock
  BY <1>1 DEF join_turn
<1>2. CASE buddy_exist_not_occupied(at.h, at.block) # NoBlock
  <2>1. no_return(at.h, at.block) /\ Missing # "NULL"
    BY <1>2, MergeIs
  <2>2. "stray" \in DOMAIN at.h /\ ~ at.h.exited
    BY DEF Shows, HeapsOf
  <2>3. QED BY <1>2, <2>1, <2>2, AstrayTurn
<1>3. QED BY <1>1, <1>2

\* The turn joins: the block z is the front of the block at which it is and of its
\* buddy y, and w is the other one.
CanJoin(t, hd, at, y, z, w, s) ==
  /\ Shows(at.h, t, hd) /\ Grid(hd, t) /\ Meets(hd, at.block) /\ y = BuddyOf(hd, at.block)
  /\ Halves(hd, at.block, y, z, w, s) /\ z = Smaller(y, at.block)

\* A turn where it does.
LEMMA JoinTurn ==
  ASSUME NEW t, NEW hd, NEW at, NEW y, NEW z, NEW w, NEW s,
         CanJoin(t, hd, at, y, z, w, s)
  PROVE  /\ JoinDoes(at.h, join_turn(at).h, t, hd, at.block, y, z, w, s)
         /\ join_turn(at).block = z
<1> SUFFICES ASSUME Shows(at.h, t, hd), Grid(hd, t), Meets(hd, at.block), y = BuddyOf(hd, at.block),
                    Halves(hd, at.block, y, z, w, s), z = Smaller(y, at.block)
             PROVE  /\ JoinDoes(at.h, join_turn(at).h, t, hd, at.block, y, z, w, s)
                    /\ join_turn(at).block = z
  BY DEF CanJoin
<1> DEFINE h  == at.h
           x  == at.block
           h1 == unlist(h, x)
           h2 == unlist(h1, y)
           h3 == set_size(h2, z, 2 * s)
           h4 == set_occupy(h3, z, FALSE)
           h5 == list(h4, z)
           l1 == Without(h.free_list, s, x)
           l2 == Without(l1, s, y)
           l3 == With(l2, 2 * s, z)
           r3 == [hd[z] EXCEPT !.size = 2 * s]
           d3 == [c \in DOMAIN hd \cup {z} |-> IF c = z THEN r3 ELSE hd[c]]
           r4 == [d3[z] EXCEPT !.occupy = FALSE]
           d4 == [c \in DOMAIN d3 \cup {z} |-> IF c = z THEN r4 ELSE d3[c]]
<1>1. /\ x \in DOMAIN hd /\ y \in DOMAIN hd /\ z \in DOMAIN hd /\ w \in DOMAIN hd /\ z # w
      /\ hd[x].size = s /\ hd[y].size = s /\ hd[z].size = s
      /\ s \in BlockSizes /\ 2 * s \in BlockSizes
  BY DEF Halves, FreeOf
<1>2. /\ x \in Nat /\ y \in Nat /\ z \in Nat /\ h.free_list \in Lists /\ hd[z] \in HeaderRecord
      /\ 2 * s \in Nat /\ z + 2 * s <= t
  <2>1. h.free_list \in Lists /\ GridType(hd, t)
    BY DEF Shows, HeapsOf
  <2>2. x \in Nat /\ y \in Nat /\ z \in Nat /\ w \in Nat /\ hd[z] \in HeaderRecord /\ w + hd[w].size <= t
    BY <1>1, <2>1, GridNumbers
  <2>3. 2 * s \in Nat /\ s \in Nat
    BY <1>1, SizeFacts
  <2>4. w = z + s /\ hd[w].size = s
    BY DEF Halves
  <2>5. z + 2 * s <= t
    BY <2>1, <2>2, <2>3, <2>4 DEF GridType
  <2>6. QED BY <2>1, <2>2, <2>3, <2>5
<1> HIDE DEF h, x, l1, l2, l3, h1, h2, h3, h4, h5, d3, d4, r3, r4
<1>3. l1 \in Lists /\ l2 \in Lists /\ l3 \in Lists
  <2>1. l1 \in Lists
    BY <1>1, <1>2, ListsType DEF l1
  <2>2. l2 \in Lists
    BY <1>1, <1>2, <2>1, ListsType DEF l2
  <2>3. QED BY <1>1, <1>2, <2>1, <2>2, ListsType DEF l3
<1>4. Shows(h1, t, hd) /\ h1.free_list = l1 /\ h1.mem = h.mem
  <2>1. h1 = [h EXCEPT !.free_list = l1]
    BY <1>1, ListIs DEF h1, l1, h
  <2>2. QED BY <1>3, <2>1, ListsSet DEF h
<1>5. Shows(h2, t, hd) /\ h2.free_list = l2 /\ h2.mem = h.mem
  <2>1. h2 = [h1 EXCEPT !.free_list = l2]
    BY <1>1, <1>4, ListIs DEF h2, l2
  <2>2. QED BY <1>3, <1>4, <2>1, ListsSet
<1>6. Shows(h3, t, d3) /\ h3.free_list = l2 /\ SameBut(h2, h3, t, {z})
  <2>1. Wrote(h2, h3, t, hd, z, r3)
    BY <1>1, <1>2, <1>5, SizeSet DEF h3, r3
  <2>2. QED BY <1>5, <2>1 DEF Wrote, d3
<1>7. z \in DOMAIN d3 /\ d3[z] = r3 /\ DOMAIN d3 = DOMAIN hd
  BY <1>1 DEF d3
<1>8. Shows(h4, t, d4) /\ h4.free_list = l2 /\ SameBut(h3, h4, t, {z})
  <2>1. Wrote(h3, h4, t, d3, z, r4)
    BY <1>6, <1>7, OccupySet DEF h4, r4
  <2>2. QED BY <1>6, <2>1 DEF Wrote, d4
<1>9. /\ DOMAIN d4 = DOMAIN hd /\ d4[z] = [hd[z] EXCEPT !.size = 2 * s, !.occupy = FALSE]
      /\ \A c \in DOMAIN hd \ {z} : d4[c] = hd[c]
  <2>1. DOMAIN d4 = DOMAIN hd /\ d4[z] = r4
    BY <1>7 DEF d4
  <2>2. r4 = [hd[z] EXCEPT !.size = 2 * s, !.occupy = FALSE]
    BY <1>2, <1>7 DEF r4, r3, HeaderRecord
  <2>3. \A c \in DOMAIN hd \ {z} : d4[c] = hd[c]
    BY DEF d4, d3
  <2>4. QED BY <2>1, <2>2, <2>3
<1>10. Shows(h5, t, d4) /\ h5.free_list = l3 /\ h5.mem = h4.mem
  <2>1. z \in DOMAIN d4 /\ d4[z].size = 2 * s
    BY <1>1, <1>2, <1>9 DEF HeaderRecord
  <2>2. h5 = [h4 EXCEPT !.free_list = l3]
    BY <1>8, <2>1, ListIs DEF h5, l3
  <2>3. QED BY <1>3, <1>8, <2>2, ListsSet
<1>11. Shows(h5, t, Joined(hd, z, w))
  <2> DEFINE j == Joined(hd, z, w)
  <2>1. DOMAIN j = DOMAIN hd \ {w} /\ \A c \in DOMAIN j : j[c] = d4[c]
    BY <1>1, <1>9 DEF Joined
  <2>2. j \in [DOMAIN j -> HeaderRecord]
    <3>1. \A c \in DOMAIN j : j[c] \in HeaderRecord
      BY <1>9, <1>10, <2>1 DEF Shows, GridType
    <3>2. IsFunction(j)
      BY DEF IsFunction, Joined
    <3> HIDE DEF j
    <3>3. QED BY <3>1, <3>2 DEF IsFunction
  <2> HIDE DEF j
  <2>3. GridType(j, t)
    BY <1>9, <1>10, <2>1, <2>2 DEF Shows, GridType
  <2>4. QED BY <1>9, <1>10, <2>1, <2>3 DEF Shows, j
<1>12. SameBut(h, h5, t, {z})
  BY <1>4, <1>5, <1>6, <1>8, <1>10 DEF SameBut
<1>13. join_turn(at) = [h |-> h5, block |-> z]
  <2>1. buddy_exist_not_occupied(h, x) = z /\ z # NoBlock /\ ~ no_return(h, x)
    <3>1. buddy_exist_not_occupied(h, x) = z /\ ~ no_return(h, x)
      BY <1>1, MergeIs DEF h, x
    <3>2. QED BY <1>2, <3>1 DEF NoBlock
  <2>2. buddy_address(h, x) = y
    BY <1>1, BuddyIs DEF h, x
  <2>3. ~ h.exited /\ ~ h2.exited
    BY <1>5 DEF Shows, HeapsOf, h
  <2>4. SizeOf(h2, z) = s
    BY <1>1, <1>5, HeaderIs
  <2>5. QED BY <2>1, <2>2, <2>3, <2>4 DEF join_turn, h, x, h1, h2, h3, h4, h5
<1>14. QED BY <1>10, <1>11, <1>12, <1>13 DEF JoinDoes, h, x, l1, l2, l3

\* What joining has come to, at block x: h0 had the headers hd0, and the blocks
\* in old were lost.
JoinTo(h0, hd0, t, old, h, hd, x) ==
  /\ Shows(h, t, hd) /\ Grid(hd, t) /\ ListsOf(hd, h.free_list) /\ CoalescedBut(hd, x)
  /\ x \in FreeOf(hd) /\ x \in FreeOf(hd0)
  /\ \A c \in DOMAIN hd0 \ FreeOf(hd0) : c \in DOMAIN hd /\ hd[c] = hd0[c]
  /\ \A c \in DOMAIN hd \ {x} : c \in DOMAIN hd0 /\ hd[c] = hd0[c]
  /\ LostOf(hd, h.free_list) \subseteq old \cup {x}
  /\ x \in LostOf(hd, h.free_list) => Cardinality(h.free_list[hd[x].size]) = MaxArrayLength
  /\ SameBut(h0, h, t, FreeOf(hd0))

\* Such a turn keeps what the loop has come to, and the block is twice as large.
LEMMA JoinStep ==
  ASSUME NEW t, NEW h0, NEW hd0, NEW old, NEW at, NEW hd,
         JoinTo(h0, hd0, t, old, at.h, hd, at.block), Meets(hd, at.block)
  PROVE  \E g : /\ JoinTo(h0, hd0, t, old, join_turn(at).h, g, join_turn(at).block)
                /\ 2 * hd[at.block].size \in BlockSizes
                /\ g[join_turn(at).block].size = 2 * hd[at.block].size
<1> DEFINE x == at.block
           h == at.h
           y == BuddyOf(hd, x)
           s == hd[x].size
           nh == join_turn(at).h
<1>1. /\ Shows(h, t, hd) /\ Grid(hd, t) /\ ListsOf(hd, h.free_list) /\ CoalescedBut(hd, x)
      /\ x \in FreeOf(hd) /\ x \in FreeOf(hd0)
      /\ \A c \in DOMAIN hd0 \ FreeOf(hd0) : c \in DOMAIN hd /\ hd[c] = hd0[c]
      /\ \A c \in DOMAIN hd \ {x} : c \in DOMAIN hd0 /\ hd[c] = hd0[c]
      /\ LostOf(hd, h.free_list) \subseteq old \cup {x}
      /\ SameBut(h0, h, t, FreeOf(hd0))
  BY DEF JoinTo
<1>2. PICK z, w : Halves(hd, x, y, z, w, s) /\ z = Smaller(y, x)
  BY <1>1, HalvesFound
<1> DEFINE g == Joined(hd, z, w)
           after == With(Without(Without(h.free_list, s, x), s, y), 2 * s, z)
<1>3. JoinDoes(h, nh, t, hd, x, y, z, w, s) /\ join_turn(at).block = z
  <2>1. y = BuddyOf(hd, at.block)
    OBVIOUS
  <2> HIDE DEF y, s, g, after, x, h, nh
  <2>2. CanJoin(t, hd, at, y, z, w, s)
    BY <1>1, <1>2, <2>1 DEF CanJoin, x, h
  <2>3. JoinDoes(at.h, join_turn(at).h, t, hd, at.block, y, z, w, s) /\ join_turn(at).block = z
    BY <2>2, JoinTurn
  <2>4. QED BY <2>3 DEF x, h, nh
<1>4. IsJoined(hd, z, w, g) /\ Grid(g, t)
  BY <1>1, <1>2, JoinedFacts
<1>5. /\ z \in FreeOf(hd) /\ w \in FreeOf(hd) /\ z # w /\ {x, y} = {z, w}
      /\ s \in BlockSizes /\ 2 * s \in BlockSizes /\ hd[z].size = s /\ hd[w].size = s
      /\ z \in DOMAIN hd /\ w \in DOMAIN hd
  BY <1>2 DEF Halves, FreeOf
<1> HIDE DEF x, h, y, s, nh, g
<1>6. Shows(nh, t, g) /\ nh.free_list = after /\ SameBut(h, nh, t, {z})
  BY <1>3 DEF JoinDoes, g
<1>7. h.free_list \in Lists
  BY <1>1 DEF Shows, HeapsOf
<1>8. /\ after \in Lists /\ ListsOf(g, after)
      /\ LostOf(g, after) \subseteq LostOf(hd, h.free_list) \cup {z}
      /\ z \in LostOf(g, after) => Cardinality(after[2 * s]) = MaxArrayLength
  <2>1. Grid(hd, t) /\ Grid(g, t) /\ IsJoined(hd, z, w, g) /\ ListsOf(hd, h.free_list)
    BY <1>1, <1>4
  <2> DEFINE fl == h.free_list
  <2>2. fl \in Lists /\ ListsOf(hd, fl)
    BY <1>7, <2>1
  <2> HIDE DEF fl
  <2>3. JoinedInto(hd, g, fl, 2 * s, z, With(Without(Without(fl, s, x), s, y), 2 * s, z))
    <3>1. Halves(hd, x, y, z, w, s)
      BY <1>2
    <3>2. QED BY <2>1, <2>2, <3>1, JoinedLists
  <2>4. QED BY <2>3 DEF fl, JoinedInto
<1> HIDE DEF after
<1>9. CoalescedBut(g, z)
  BY <1>1, <1>4, <1>5, JoinedCoalesced
<1>10. /\ DOMAIN g = DOMAIN hd \ {w} /\ g[z].size = 2 * s /\ ~ g[z].occupy
       /\ \A c \in DOMAIN hd \ {z, w} : g[c] = hd[c]
  BY <1>4, <1>5 DEF IsJoined
<1>11. z \in FreeOf(g)
  BY <1>5, <1>10 DEF FreeOf
<1>12. z \in FreeOf(hd0)
  <2>1. CASE z = x
    BY <1>1, <2>1
  <2>2. CASE z # x
    BY <1>1, <1>5, <2>2 DEF FreeOf
  <2>3. QED BY <2>1, <2>2
<1>13. ASSUME NEW c \in DOMAIN hd0 \ FreeOf(hd0) PROVE c \in DOMAIN g /\ g[c] = hd0[c]
  <2>1. c \in DOMAIN hd /\ hd[c] = hd0[c] /\ c \notin FreeOf(hd)
    BY <1>1, <1>13 DEF FreeOf
  <2>2. QED BY <1>5, <1>10, <2>1
<1>14. ASSUME NEW c \in DOMAIN g \ {z} PROVE c \in DOMAIN hd0 /\ g[c] = hd0[c]
  <2>1. c \in DOMAIN hd \ {z, w} /\ c # x
    BY <1>5, <1>10
  <2>2. QED BY <1>1, <1>10, <2>1
<1>15. LostOf(g, after) \subseteq old \cup {z}
  <2>1. ASSUME NEW b \in LostOf(g, after), b # z PROVE b \in old
    <3>1. b \in DOMAIN g
      BY <2>1 DEF LostOf, FreeOf
    <3>2. b # x
      BY <1>5, <1>10, <2>1, <3>1
    <3>3. QED BY <1>1, <1>8, <2>1, <3>2
  <2>2. QED BY <2>1
<1>16. SameBut(h0, nh, t, FreeOf(hd0))
  BY <1>1, <1>6, <1>12, SameButTrans
<1>17. JoinTo(h0, hd0, t, old, nh, g, z)
  BY <1>4, <1>6, <1>8, <1>9, <1>10, <1>11, <1>12, <1>13, <1>14, <1>15, <1>16 DEF JoinTo
<1>18. QED BY <1>3, <1>5, <1>10, <1>17 DEF nh, s, x

\* The loop of free, in n turns.
JoinIter(n, h, b, it) ==
  it = [k \in 0 .. n |-> IF k = 0 THEN [h |-> h, block |-> b] ELSE join_turn(it[k - 1])]

\* join is the last of the functions' values.
LEMMA JoinUnfold ==
  ASSUME NEW h, NEW b
  PROVE  join(h, b) = (CHOOSE it : JoinIter(MaxOrder, h, b, it))[MaxOrder].h
BY DEF join, JoinIter

\* There is such a function, for every number of turns.
LEMMA JoinIterExists ==
  ASSUME NEW n \in Nat, NEW h, NEW b
  PROVE  \E it : JoinIter(n, h, b, it)
<1> DEFINE P == {k \in 0 .. n : \E it : JoinIter(k, h, b, it)}
<1>1. 0 \in P
  <2>1. JoinIter(0, h, b, [k \in 0 .. 0 |-> [h |-> h, block |-> b]])
    BY DEF JoinIter
  <2>2. QED BY <2>1
<1>2. ASSUME NEW k \in 1 .. n, k - 1 \in P PROVE k \in P
  <2>1. PICK it : JoinIter(k - 1, h, b, it)
    BY <1>2
  <2> DEFINE g == [j \in 0 .. k |-> IF j < k THEN it[j] ELSE join_turn(it[k - 1])]
  <2>2. ASSUME NEW j \in 0 .. k
        PROVE  g[j] = IF j = 0 THEN [h |-> h, block |-> b] ELSE join_turn(g[j - 1])
    <3>1. CASE j = 0
      BY <2>1, <3>1 DEF JoinIter
    <3>2. CASE j # 0 /\ j < k
      <4>1. j \in 0 .. k - 1 /\ j - 1 \in 0 .. k
        BY <3>2
      <4>2. it[j] = join_turn(it[j - 1])
        BY <2>1, <3>2, <4>1 DEF JoinIter
      <4>3. g[j] = it[j] /\ g[j - 1] = it[j - 1]
        BY <3>2, <4>1
      <4>4. QED BY <3>2, <4>2, <4>3
    <3>3. CASE j = k
      <4>1. g[j] = join_turn(it[k - 1]) /\ g[k - 1] = it[k - 1] /\ j # 0
        BY <3>3
      <4>2. QED BY <3>3, <4>1
    <3>4. QED BY <3>1, <3>2, <3>3
  <2>3. JoinIter(k, h, b, g)
    BY <2>2 DEF JoinIter
  <2>4. QED BY <2>3
<1>3. \A k \in 0 .. n : k \in P
  <2>1. \A k \in 1 .. n : k - 1 \in P => k \in P
    BY <1>2
  <2> HIDE DEF P
  <2>2. QED BY <1>1, <2>1, CountUp
<1>4. n \in P
  <2> HIDE DEF P
  <2>1. QED BY <1>3
<1>5. QED BY <1>4

\* After the turns nothing is left to join.
LEMMA JoinFacts ==
  ASSUME NEW t, NEW b, NEW h0, NEW hd0, NEW old, NEW h1,
         JoinTo(h0, hd0, t, old, h1, hd0, b)
  PROVE  \/ Astray(join(h1, b))
         \/ \E hd, x : JoinTo(h0, hd0, t, old, join(h1, b), hd, x) /\ CoalescedOf(hd)
<1> SUFFICES ASSUME ~ Astray(join(h1, b))
             PROVE  \E hd, x : JoinTo(h0, hd0, t, old, join(h1, b), hd, x) /\ CoalescedOf(hd)
  OBVIOUS
<1>1. PICK it : JoinIter(MaxOrder, h1, b, it) /\ it[MaxOrder].h = join(h1, b)
  BY JoinUnfold, JoinIterExists, OrderAssumption
<1> DEFINE Turns(k, hd, x) ==
             \/ ~ Meets(hd, x)
             \/ \E j \in 0 .. MaxOrder : hd[x].size = order2size[j] /\ k <= j
           Come(k, hd) == JoinTo(h0, hd0, t, old, it[k].h, hd, it[k].block)
           P == {k \in 0 .. MaxOrder :
                   \/ Astray(it[k].h)
                   \/ \E hd : Come(k, hd) /\ Turns(k, hd, it[k].block)}
<1>2. MaxOrder \in Nat /\ hd0[b].size \in BlockSizes
  BY OrderAssumption DEF JoinTo, Grid, GridType, FreeOf
<1>3. 0 \in P
  <2>1. it[0].h = h1 /\ it[0].block = b
    <3>1. it[0] = [h |-> h1, block |-> b]
      BY <1>1, <1>2 DEF JoinIter
    <3>2. QED BY <3>1
  <2>2. PICK j \in 0 .. MaxOrder : hd0[b].size = order2size[j]
    BY <1>2, SizeFacts
  <2>3. 0 <= j /\ 0 \in 0 .. MaxOrder
    BY <1>2
  <2>4. QED BY <2>1, <2>2, <2>3
<1>4. ASSUME NEW k \in 1 .. MaxOrder, k - 1 \in P PROVE k \in P
  <2> DEFINE at == it[k - 1]
  <2>1. it[k] = join_turn(at)
    <3>1. k \in 0 .. MaxOrder /\ k # 0
      BY <1>2
    <3>2. QED BY <1>1, <3>1 DEF JoinIter
  <2>2. CASE Astray(at.h)
    <3>1. Astray(it[k].h)
      <4> HIDE DEF at
      <4>1. QED BY <2>1, <2>2, AstrayTurn
    <3>2. QED BY <1>2, <3>1
  <2>3. CASE ~ Astray(at.h)
    <3>1. PICK hd : Come(k - 1, hd) /\ Turns(k - 1, hd, at.block)
      BY <1>4, <2>3
    <3>2. CASE ~ Meets(hd, at.block)
      <4>1. Shows(at.h, t, hd) /\ Grid(hd, t) /\ at.block \in DOMAIN hd
        BY <3>1 DEF JoinTo, FreeOf
      <4>2. it[k] = at \/ Astray(it[k].h)
        <5> HIDE DEF at
        <5>1. QED BY <2>1, <3>2, <4>1, JoinStays
      <4>3. QED BY <1>2, <3>1, <3>2, <4>2
    <3>3. CASE Meets(hd, at.block)
      <4>1. PICK j \in 0 .. MaxOrder : hd[at.block].size = order2size[j] /\ k - 1 <= j
        BY <3>1, <3>3
      <4>2. PICK g : /\ JoinTo(h0, hd0, t, old, join_turn(at).h, g, join_turn(at).block)
                     /\ 2 * hd[at.block].size \in BlockSizes
                     /\ g[join_turn(at).block].size = 2 * hd[at.block].size
        <5>1. JoinTo(h0, hd0, t, old, at.h, hd, at.block)
          BY <3>1
        <5> HIDE DEF at
        <5>2. QED BY <3>3, <5>1, JoinStep
      <4>3. j + 1 \in 0 .. MaxOrder /\ 2 * hd[at.block].size = order2size[j + 1]
        <5> HIDE DEF at
        <5>1. QED BY <4>1, <4>2, TwiceSize
      <4>4. k <= j + 1
        BY <1>2, <4>1
      <4>5. Come(k, g) /\ Turns(k, g, it[k].block)
        BY <2>1, <4>2, <4>3, <4>4
      <4>6. QED BY <1>2, <4>5
    <3>4. QED BY <3>2, <3>3
  <2>4. QED BY <2>2, <2>3
<1>5. \A k \in 0 .. MaxOrder : k \in P
  <2>1. \A k \in 1 .. MaxOrder : k - 1 \in P => k \in P
    BY <1>4
  <2> HIDE DEF P
  <2>2. QED BY <1>2, <1>3, <2>1, CountUp
<1>6. MaxOrder \in P
  <2> HIDE DEF P
  <2>1. QED BY <1>2, <1>5
<1> DEFINE x == it[MaxOrder].block
<1>7. PICK hd : JoinTo(h0, hd0, t, old, join(h1, b), hd, x) /\ Turns(MaxOrder, hd, x)
  BY <1>1, <1>6
<1> HIDE DEF x
<1>8. ~ Meets(hd, x)
  <2>1. ASSUME NEW j \in 0 .. MaxOrder, hd[x].size = order2size[j], MaxOrder <= j, Meets(hd, x)
        PROVE  FALSE
    <3>1. j = MaxOrder
      BY <1>2, <2>1
    <3>2. 2 * hd[x].size \in BlockSizes
      <4>1. Grid(hd, t) /\ x \in FreeOf(hd)
        BY <1>7 DEF JoinTo
      <4>2. \E z, w : Halves(hd, x, BuddyOf(hd, x), z, w, hd[x].size)
        BY <2>1, <4>1, HalvesFound
      <4>3. QED BY <4>2 DEF Halves
    <3>3. j + 1 \in 0 .. MaxOrder
      BY <2>1, <3>2, TwiceSize
    <3>4. QED BY <1>2, <3>1, <3>3
  <2>2. QED BY <1>7, <2>1
<1>9. CoalescedOf(hd)
  BY <1>7, <1>8, AloneCoalesced DEF JoinTo
<1>10. QED BY <1>7, <1>9

-----------------------------------------------------------------------------
(* The calls.                                                              *)

\* A heap between two calls.
HeapOK(h, t, hd) ==
  Shows(h, t, hd) /\ Grid(hd, t) /\ ListsOf(hd, h.free_list) /\ CoalescedOf(hd)

\* The heap g is h with block b marked, and gd its headers.
Marks(h, g, t, hd, b, o, gd) ==
  /\ Shows(g, t, gd) /\ Grid(gd, t) /\ IsFunction(gd) /\ IsMarked(hd, b, o, gd)
  /\ g.free_list = h.free_list /\ SameBut(h, g, t, {b})

\* set_occupy marks.
LEMMA OccupyMarks ==
  ASSUME NEW t, NEW hd, NEW h, Shows(h, t, hd), Grid(hd, t), NEW b \in DOMAIN hd, NEW o \in BOOLEAN
  PROVE  \E gd : Marks(h, set_occupy(h, b, o), t, hd, b, o, gd)
<1> DEFINE r == [hd[b] EXCEPT !.occupy = o]
           gd == [c \in DOMAIN hd \cup {b} |-> IF c = b THEN r ELSE hd[c]]
           g == set_occupy(h, b, o)
<1>1. Wrote(h, g, t, hd, b, r)
  BY OccupySet
<1>2. hd[b] \in HeaderRecord
  BY GridNumbers DEF Grid
<1>3. /\ r \in HeaderRecord /\ r.size = hd[b].size /\ r.occupy = o
      /\ r.area_head = hd[b].area_head /\ r.area_end = hd[b].area_end
  BY <1>2 DEF HeaderRecord
<1> HIDE DEF r, g
<1>4. DOMAIN gd = DOMAIN hd /\ gd[b] = r /\ \A c \in DOMAIN hd \ {b} : gd[c] = hd[c]
  OBVIOUS
<1>5. IsFunction(gd)
  BY DEF IsFunction
<1>6. Shows(g, t, gd) /\ g.free_list = h.free_list /\ SameBut(h, g, t, {b})
  BY <1>1 DEF Wrote
<1> HIDE DEF gd
<1>7. IsMarked(hd, b, o, gd)
  BY <1>3, <1>4 DEF IsMarked
<1>8. Grid(gd, t)
  BY <1>5, <1>7, MarkedGrid
<1>9. Marks(h, g, t, hd, b, o, gd)
  BY <1>5, <1>6, <1>7, <1>8 DEF Marks
<1>10. QED BY <1>9 DEF g

\* A block that is lost was lost before, or is the only one that is new and its
\* list is full.
LostStep(hd, fl, gd, gl) ==
  \A c \in LostOf(gd, gl) :
    \/ c \in LostOf(hd, fl) /\ hd[c].size = gd[c].size
    \/ /\ LostOf(gd, gl) \ {c} \subseteq LostOf(hd, fl)
       /\ Cardinality(gl[gd[c].size]) = MaxArrayLength

\* The blocks in use.
Used(hd) == DOMAIN hd \ FreeOf(hd)

\* Block b is no longer in use; the others in use are as they were.
FreedTo(h, hd, t, b, g, gd) ==
  /\ HeapOK(g, t, gd)
  /\ Used(gd) = Used(hd) \ {b}
  /\ \A c \in Used(gd) : gd[c] = hd[c]
  /\ LostStep(hd, h.free_list, gd, g.free_list)
  /\ SameBut(h, g, t, FreeOf(hd) \cup {b})

\* free, of a block in use.
LEMMA FreeFacts ==
  ASSUME NEW t, NEW hd, NEW h, HeapOK(h, t, hd), NEW b \in Used(hd)
  PROVE  \/ Astray(free(h, b + HeaderSize))
         \/ \E gd : FreedTo(h, hd, t, b, free(h, b + HeaderSize), gd)
<1> DEFINE m1  == set_occupy(h, b, FALSE)
           m2  == list(m1, b)
           m3  == join(m2, b)
           s   == hd[b].size
           old == LostOf(hd, h.free_list)
           after == With(h.free_list, s, b)
<1>1. /\ Shows(h, t, hd) /\ Grid(hd, t) /\ ListsOf(hd, h.free_list) /\ CoalescedOf(hd)
      /\ b \in DOMAIN hd /\ hd[b].occupy /\ h.free_list \in Lists
  BY DEF HeapOK, Used, FreeOf, Shows, HeapsOf
<1>2. b \in Nat /\ s \in BlockSizes
  BY <1>1, GridNumbers DEF Grid
<1>3. free(h, b + HeaderSize) = m3
  <2>1. b + HeaderSize # NULL /\ b + HeaderSize - HeaderSize = b
    BY <1>2 DEF HeaderSize, NULL
  <2>2. h.mem[b] \notin Data
    BY <1>1, HeaderIs
  <2> DEFINE ptr == b + HeaderSize
  <2>3. ptr # NULL /\ ptr - HeaderSize = b
    BY <1>2 DEF HeaderSize, NULL
  <2> HIDE DEF ptr, m3
  <2>4. free(h, ptr) = join(list(set_occupy(h, b, FALSE), b), b)
    BY <2>2, <2>3 DEF free
  <2>5. QED BY <2>4 DEF ptr, m3
<1>4. PICK d1 : Marks(h, m1, t, hd, b, FALSE, d1)
  BY <1>1, OccupyMarks
<1>5. /\ Shows(m1, t, d1) /\ Grid(d1, t) /\ IsFunction(d1) /\ IsMarked(hd, b, FALSE, d1)
      /\ m1.free_list = h.free_list /\ SameBut(h, m1, t, {b})
  BY <1>4 DEF Marks
<1> SUFFICES ASSUME ~ Astray(m3)
             PROVE  \E gd : FreedTo(h, hd, t, b, m3, gd)
  BY <1>3
<1> HIDE DEF m1, s
<1>6. /\ after \in Lists /\ ListsOf(d1, after) /\ LostOf(d1, after) \subseteq old \cup {b}
      /\ b \in LostOf(d1, after) => Cardinality(after[s]) = MaxArrayLength
  <2>1. s = hd[b].size
    BY DEF s
  <2> HIDE DEF old, after
  <2>2. JoinedInto(hd, d1, h.free_list, s, b, With(h.free_list, s, b))
    BY <1>1, <1>5, <2>1, FreedLists
  <2>3. QED BY <2>2 DEF JoinedInto, old, after
<1> HIDE DEF after
<1>7. /\ b \in DOMAIN d1 /\ d1[b].size = s /\ ~ d1[b].occupy /\ DOMAIN d1 = DOMAIN hd
      /\ \A c \in DOMAIN hd \ {b} : d1[c] = hd[c]
  BY <1>1, <1>5 DEF IsMarked, s
<1>8. b \in FreeOf(d1)
  BY <1>7 DEF FreeOf
<1>9. Shows(m2, t, d1) /\ m2.free_list = after /\ m2.mem = m1.mem
  <2>1. m2 = [m1 EXCEPT !.free_list = after]
    BY <1>5, <1>7, ListIs DEF after
  <2> HIDE DEF m2
  <2>2. QED BY <1>5, <1>6, <2>1, ListsSet
<1>10. CoalescedBut(d1, b)
  BY <1>1, <1>5, FreedCoalesced
<1> HIDE DEF m2, old
<1>11. JoinTo(m2, d1, t, old, m2, d1, b)
  <2>1. \A c \in DOMAIN d1 : c \in DOMAIN d1 /\ d1[c] = d1[c]
    OBVIOUS
  <2>2. SameBut(m2, m2, t, FreeOf(d1))
    BY DEF SameBut
  <2>3. QED BY <1>5, <1>6, <1>7, <1>8, <1>9, <1>10, <2>1, <2>2 DEF JoinTo
<1>12. PICK gd, x : JoinTo(m2, d1, t, old, m3, gd, x) /\ CoalescedOf(gd)
  BY <1>11, JoinFacts
<1> HIDE DEF m3
<1>13. /\ Shows(m3, t, gd) /\ Grid(gd, t) /\ ListsOf(gd, m3.free_list)
       /\ x \in FreeOf(gd) /\ x \in FreeOf(d1)
       /\ \A c \in DOMAIN d1 \ FreeOf(d1) : c \in DOMAIN gd /\ gd[c] = d1[c]
       /\ \A c \in DOMAIN gd \ {x} : c \in DOMAIN d1 /\ gd[c] = d1[c]
       /\ LostOf(gd, m3.free_list) \subseteq old \cup {x}
       /\ x \in LostOf(gd, m3.free_list) => Cardinality(m3.free_list[gd[x].size]) = MaxArrayLength
       /\ SameBut(m2, m3, t, FreeOf(d1))
  BY <1>12 DEF JoinTo
<1>14. FreeOf(d1) = FreeOf(hd) \cup {b}
  BY <1>1, <1>7 DEF FreeOf
<1>15. Used(d1) = Used(hd) \ {b} /\ \A c \in Used(d1) : d1[c] = hd[c]
  BY <1>7, <1>14 DEF Used
<1>16. Used(gd) = Used(d1) /\ \A c \in Used(gd) : gd[c] = d1[c]
  <2>1. ASSUME NEW c \in Used(d1) PROVE c \in Used(gd) /\ gd[c] = d1[c]
    BY <1>13, <2>1 DEF Used, FreeOf
  <2>2. ASSUME NEW c \in Used(gd) PROVE c \in Used(d1)
    <3>1. c \in DOMAIN gd \ {x}
      BY <1>13 DEF Used
    <3>2. QED BY <1>13, <3>1 DEF Used, FreeOf
  <2>3. QED BY <2>1, <2>2
<1>17. LostStep(hd, h.free_list, gd, m3.free_list)
  <2>1. ASSUME NEW c \in LostOf(gd, m3.free_list)
        PROVE  \/ c \in old /\ hd[c].size = gd[c].size
               \/ /\ LostOf(gd, m3.free_list) \ {c} \subseteq old
                  /\ Cardinality(m3.free_list[gd[c].size]) = MaxArrayLength
    <3>1. CASE c = x
      <4>1. Cardinality(m3.free_list[gd[c].size]) = MaxArrayLength
        BY <1>13, <2>1, <3>1
      <4>2. LostOf(gd, m3.free_list) \ {c} \subseteq old
        BY <1>13, <3>1
      <4>3. QED BY <4>1, <4>2
    <3>2. CASE c # x
      <4>1. c \in old /\ c \in DOMAIN gd
        BY <1>13, <2>1, <3>2 DEF LostOf, FreeOf
      <4>2. c \in DOMAIN hd /\ gd[c] = d1[c]
        BY <1>7, <1>13, <3>2, <4>1
      <4>3. d1[c].size = hd[c].size
        BY <1>7, <4>2 DEF s
      <4>4. QED BY <4>1, <4>2, <4>3
    <3>3. QED BY <3>1, <3>2
  <2>2. QED BY <2>1 DEF LostStep, old
<1>18. SameBut(h, m3, t, FreeOf(hd) \cup {b})
  <2>1. \A x1 \in 0 .. t - 1 : x1 \notin {b} => m2.mem[x1] = h.mem[x1]
    BY <1>5, <1>9 DEF SameBut
  <2>2. \A x1 \in 0 .. t - 1 : x1 \notin FreeOf(hd) \cup {b} => m3.mem[x1] = m2.mem[x1]
    BY <1>13, <1>14 DEF SameBut
  <2>3. QED BY <2>1, <2>2 DEF SameBut
<1>19. HeapOK(m3, t, gd)
  BY <1>12, <1>13 DEF HeapOK
<1>20. FreedTo(h, hd, t, b, m3, gd)
  BY <1>15, <1>16, <1>17, <1>18, <1>19 DEF FreedTo
<1>21. QED BY <1>20

\* The least of some numbers is one of them.
LEMMA MinFacts ==
  ASSUME NEW S \in SUBSET Nat, S # {}
  PROVE  Min(S) \in S /\ \A n \in S : Min(S) <= n
<1>1. PICK m \in S : \A n \in S : ~ (<<n, m>> \in OpToRel(<, Nat))
  <2>1. IsWellFoundedOn(OpToRel(<, Nat), Nat)
    BY NatLessThanWellFounded
  <2>2. QED BY <2>1, WFMin
<1>2. ASSUME NEW n \in S PROVE m <= n
  <2>1. n \in Nat /\ m \in Nat
    OBVIOUS
  <2>2. n < m => <<n, m>> \in {ss \in Nat \X Nat : ss[1] < ss[2]}
    BY <2>1
  <2>3. ~ (n < m)
    BY <1>1, <2>2 DEF OpToRel
  <2>4. QED BY <2>1, <2>3
<1>3. QED BY <1>1, <1>2 DEF Min

\* The size of the block for a request is the least that has room for it.
LEMMA RequestFacts ==
  ASSUME NEW n \in Requests
  PROVE  /\ n \in Nat /\ find_new_alloc_size(n) \in BlockSizes
         /\ find_new_alloc_size(n) >= n + HeaderSize
<1> DEFINE S == {size \in BlockSizes : size >= n + HeaderSize}
<1>1. n \in Nat /\ \E size \in BlockSizes : n + HeaderSize <= size
  BY SizesAssumption
<1>2. S \subseteq Nat /\ S # {}
  <2>1. \A s \in BlockSizes : s \in Nat
    BY SizeFacts
  <2>2. PICK size \in BlockSizes : n + HeaderSize <= size
    BY <1>1
  <2>3. size \in S
    BY <1>1, <2>1, <2>2 DEF HeaderSize
  <2>4. QED BY <2>1, <2>3
<1>3. find_new_alloc_size(n) = Min(S)
  BY DEF find_new_alloc_size
<1> HIDE DEF S
<1>4. Min(S) \in S
  BY <1>2, MinFacts
<1>5. QED BY <1>1, <1>3, <1>4 DEF S

\* The first of the lists from a size on that is not empty.
Found(fl, hd, size, b) ==
  /\ b \in FreeOf(hd) /\ b \in fl[hd[b].size] /\ size <= hd[b].size
  /\ \A n \in BlockSizes : size <= n /\ n < hd[b].size => fl[n] = {}

\* block_available gives a listed block that is large enough, if there is one.
LEMMA AvailableFacts ==
  ASSUME NEW t, NEW hd, NEW h, Shows(h, t, hd), ListsOf(hd, h.free_list), NEW size \in BlockSizes
  PROVE  IF block_available(h, size) = NoBlock
           THEN \A n \in BlockSizes : size <= n => h.free_list[n] = {}
           ELSE Found(h.free_list, hd, size, block_available(h, size))
<1> DEFINE fitting == {n \in BlockSizes : n >= size /\ h.free_list[n] # {}}
           first == Min(fitting)
           b == Min(h.free_list[first])
<1>1. \A n \in BlockSizes : n \in Nat
  BY SizeFacts
<1>2. CASE fitting = {}
  <2>1. block_available(h, size) = NoBlock
    BY <1>2 DEF block_available
  <2>2. QED BY <1>1, <1>2, <2>1
<1>3. CASE fitting # {}
  <2>1. fitting \in SUBSET Nat
    BY <1>1
  <2>2. first \in fitting /\ \A n \in fitting : first <= n
    <3> HIDE DEF fitting
    <3>1. QED BY <1>3, <2>1, MinFacts
  <2>3. block_available(h, size) = b
    BY <1>3 DEF block_available
  <2>4. first \in BlockSizes /\ first >= size /\ h.free_list[first] # {}
    BY <2>2
  <2> HIDE DEF first
  <2>5. h.free_list[first] \subseteq {x \in FreeOf(hd) : hd[x].size = first}
    BY <2>4 DEF ListsOf
  <2>6. h.free_list[first] \in SUBSET Nat
    BY <2>4 DEF Shows, HeapsOf, Lists
  <2>7. b \in h.free_list[first]
    BY <2>4, <2>6, MinFacts
  <2>8. b \in FreeOf(hd) /\ hd[b].size = first
    BY <2>5, <2>7
  <2>9. b # NoBlock
    BY <2>6, <2>7 DEF NoBlock
  <2> HIDE DEF b
  <2>10. \A n \in BlockSizes : size <= n /\ n < first => h.free_list[n] = {}
    <3>1. ASSUME NEW n \in BlockSizes, size <= n, n < first, h.free_list[n] # {} PROVE FALSE
      <4>1. n \in fitting
        BY <1>1, <3>1
      <4>2. first <= n
        BY <2>2, <4>1
      <4>3. QED BY <1>1, <2>4, <3>1, <4>2
    <3>2. QED BY <3>1
  <2>11. Found(h.free_list, hd, size, b)
    BY <1>1, <2>4, <2>7, <2>8, <2>10 DEF Found
  <2>12. QED BY <2>3, <2>9, <2>11
<1>4. QED BY <1>2, <1>3

\* The values of param_one_time_sbrk.
Params == {n \in BlockSizes : MinSbrk <= n /\ n <= MaxSbrk}

\* What is asked of sbrk is a block that is large enough.
LEMMA SbrkFacts ==
  ASSUME NEW h, h.param_one_time_sbrk \in Params, NEW size \in BlockSizes
  PROVE  /\ find_one_time_sbrk_size(h, size)[1] \in BlockSizes
         /\ size <= find_one_time_sbrk_size(h, size)[1]
         /\ find_one_time_sbrk_size(h, size)[2] \in Params
<1> DEFINE p == h.param_one_time_sbrk
           r == find_one_time_sbrk_size(h, size)
<1>1. /\ MinSbrk \in BlockSizes /\ MaxSbrk \in BlockSizes /\ MinSbrk <= MaxSbrk
      /\ p \in BlockSizes /\ MinSbrk <= p /\ p <= MaxSbrk
  BY SizesAssumption DEF Params
<1>2. MinSbrk \in Nat /\ MinSbrk >= 1 /\ MaxSbrk \in Nat
  BY <1>1, SizeFacts
<1>3. p \in Nat /\ size \in Nat
  BY <1>1, SizeFacts
<1> HIDE DEF p, r
<1>4. MinSbrk \in Params /\ MaxSbrk \in Params /\ p \in Params
  BY <1>1, <1>2 DEF Params
<1>5. r = CASE size <= MinSbrk -> <<MinSbrk, p>>
            [] size > MinSbrk /\ size >= MaxSbrk -> <<size, p>>
            [] size > MinSbrk /\ size < MaxSbrk /\ size > p -> <<size, Smaller(p * 2, MaxSbrk)>>
            [] OTHER -> <<p, Larger(p \div 2, MinSbrk)>>
  BY DEF find_one_time_sbrk_size, r, p
<1>6. CASE size <= MinSbrk
  <2>1. r = <<MinSbrk, p>>
    BY <1>2, <1>3, <1>5, <1>6
  <2>2. QED BY <1>1, <1>4, <1>6, <2>1 DEF r
<1>7. CASE size > MinSbrk /\ size >= MaxSbrk
  <2>1. r = <<size, p>>
    BY <1>2, <1>3, <1>5, <1>7
  <2>2. QED BY <1>3, <1>4, <2>1 DEF r
<1>8. CASE size > MinSbrk /\ size < MaxSbrk /\ size > p
  <2>1. r = <<size, Smaller(p * 2, MaxSbrk)>>
    BY <1>2, <1>3, <1>5, <1>8
  <2>2. 2 * p \in BlockSizes /\ 2 * p <= MaxSbrk
    <3>1. p < MaxSbrk
      BY <1>2, <1>3, <1>8
    <3>2. QED BY <1>1, <3>1, SizeFacts
  <2>3. p * 2 = 2 * p /\ 2 * p >= MinSbrk /\ ~ (2 * p > MaxSbrk)
    BY <1>1, <1>2, <1>3, <2>2
  <2>4. Smaller(p * 2, MaxSbrk) = 2 * p
    BY <2>3 DEF Smaller
  <2>5. 2 * p \in Params
    BY <1>2, <1>3, <2>2, <2>3 DEF Params
  <2>6. QED BY <1>3, <2>1, <2>4, <2>5 DEF r
<1>9. CASE size > MinSbrk /\ size < MaxSbrk /\ size <= p
  <2>1. r = <<p, Larger(p \div 2, MinSbrk)>>
    BY <1>2, <1>3, <1>5, <1>9
  <2>2. PICK k \in 0 .. MaxOrder : p = order2size[k]
    BY <1>1, SizeFacts
  <2>3. p # 1
    BY <1>2, <1>3, <1>9
  <2>4. p \div 2 \in BlockSizes /\ p = 2 * (p \div 2)
    BY <2>2, <2>3, HalfSize
  <2> DEFINE half == p \div 2
  <2>5. half \in Nat
    BY <2>4, SizeFacts
  <2>6. half \in BlockSizes /\ p = 2 * half
    BY <2>4
  <2>7. r = <<p, Larger(half, MinSbrk)>>
    BY <2>1
  <2> HIDE DEF half
  <2>8. Larger(half, MinSbrk) \in Params
    BY <1>1, <1>2, <1>3, <1>4, <2>5, <2>6 DEF Larger, Params
  <2>9. QED BY <1>1, <1>9, <2>7, <2>8 DEF r
<1>10. QED BY <1>2, <1>3, <1>6, <1>7, <1>8, <1>9

\* What is in the blocks of S stays.
KeepsIn(h, g, hd, S) ==
  \A c \in S : \A x \in Nat : c <= x /\ x < c + hd[c].size => g.mem[x] = h.mem[x]

\* The same blocks are lost, with the same sizes.
SameLost(hd, fl, gd, gl) ==
  /\ LostOf(gd, gl) = LostOf(hd, fl)
  /\ \A c \in LostOf(hd, fl) : gd[c].size = hd[c].size

\* The block of this size at b has come into use, in a heap of u cells; the other
\* blocks in use are as they were.
GivenTo(h, hd, u, b, size, g, gd) ==
  /\ HeapOK(g, u, gd)
  /\ b \notin Used(hd) /\ Used(gd) = Used(hd) \cup {b} /\ gd[b].size = size
  /\ \A c \in Used(hd) : gd[c] = hd[c]
  /\ SameLost(hd, h.free_list, gd, g.free_list)
  /\ KeepsIn(h, g, hd, Used(hd))

\* A block of a grid has no cell of another.
LEMMA Apart ==
  ASSUME NEW t, NEW hd, Grid(hd, t), NEW b \in DOMAIN hd, NEW c \in DOMAIN hd, b # c, NEW x \in Nat,
         c <= x, x < c + hd[c].size
  PROVE  x < t /\ ~ (b <= x /\ x < b + hd[b].size)
<1>1. /\ b \in Nat /\ c \in Nat /\ hd[b].size \in Nat /\ t \in Nat
  BY GridNumbers DEF Grid
<1>2. hd[c].size \in Nat /\ c + hd[c].size <= t
  BY GridNumbers DEF Grid
<1>3. (b < c => b + hd[b].size <= c) /\ (c < b => c + hd[c].size <= b)
  BY DEF Grid, Side
<1>4. QED BY <1>1, <1>2, <1>3

\* A block that was split down to its size is given out.
LEMMA TakeFacts ==
  ASSUME NEW t, NEW h0, NEW hd0, Grid(hd0, t), NEW f \in FreeOf(hd0), NEW small \in BlockSizes,
         NEW h, NEW hd, SplitTo(h0, hd0, t, f, small, h, hd), hd[f].size = small
  PROVE  \E gd : GivenTo(h0, hd0, t, f, small, unlist(set_occupy(h, f, TRUE), f), gd)
<1> DEFINE m1 == set_occupy(h, f, TRUE)
           m2 == unlist(m1, f)
           after == Without(h.free_list, small, f)
<1>1. /\ Shows(h, t, hd) /\ Grid(hd, t) /\ ListsOf(hd, h.free_list) /\ CoalescedBut(hd, f)
      /\ f \in FreeOf(hd) /\ f \in h.free_list[small] /\ f \in DOMAIN hd /\ h.free_list \in Lists
      /\ \A c \in DOMAIN hd0 \ {f} : c \in DOMAIN hd /\ hd[c] = hd0[c]
      /\ \A c \in DOMAIN hd \ DOMAIN hd0 : c \in FreeOf(hd)
      /\ LostOf(hd, h.free_list) = LostOf(hd0, h0.free_list)
      /\ SameBut(h0, h, t, f .. f + hd0[f].size - 1)
  BY DEF SplitTo, FreeOf, Shows, HeapsOf
<1>2. PICK gd : Marks(h, m1, t, hd, f, TRUE, gd)
  BY <1>1, OccupyMarks
<1>3. /\ Shows(m1, t, gd) /\ Grid(gd, t) /\ IsFunction(gd) /\ IsMarked(hd, f, TRUE, gd)
      /\ m1.free_list = h.free_list /\ SameBut(h, m1, t, {f})
  BY <1>2 DEF Marks
<1>4. /\ DOMAIN gd = DOMAIN hd /\ gd[f].size = small /\ gd[f].occupy = TRUE
      /\ \A c \in DOMAIN hd \ {f} : gd[c] = hd[c]
  BY <1>3 DEF IsMarked
<1> HIDE DEF m1
<1>5. /\ after \in Lists /\ ListsOf(gd, after) /\ LostOf(gd, after) = LostOf(hd, h.free_list)
  <2> HIDE DEF after
  <2> DEFINE fl == h.free_list
  <2>1. fl \in Lists /\ ListsOf(hd, fl) /\ f \in fl[small]
    BY <1>1
  <2>2. f \in FreeOf(hd) /\ hd[f].size = small /\ Grid(hd, t) /\ Grid(gd, t)
    BY <1>1, <1>3
  <2>3. after = Without(fl, small, f)
    BY DEF after
  <2> HIDE DEF fl
  <2>4. SameLists(hd, gd, fl, Without(fl, small, f))
    BY <1>3, <2>1, <2>2, TakenLists
  <2>5. QED BY <2>3, <2>4 DEF fl, SameLists
<1> HIDE DEF after
<1>6. Shows(m2, t, gd) /\ m2.free_list = after /\ m2.mem = m1.mem
  <2>1. m2 = [m1 EXCEPT !.free_list = after]
    BY <1>1, <1>3, <1>4, ListIs DEF after
  <2> HIDE DEF m2
  <2>2. QED BY <1>3, <1>5, <2>1, ListsSet
<1> HIDE DEF m2
<1>7. CoalescedOf(gd)
  BY <1>1, <1>3, TakenCoalesced
<1>8. HeapOK(m2, t, gd)
  BY <1>3, <1>5, <1>6, <1>7 DEF HeapOK
<1>9. f \notin Used(hd0) /\ f \in DOMAIN hd0
  BY DEF Used, FreeOf
<1>10. FreeOf(gd) = FreeOf(hd) \ {f}
  BY <1>4 DEF FreeOf
<1>11. Used(gd) = Used(hd) \cup {f}
  BY <1>1, <1>4, <1>10 DEF Used
<1>12. Used(hd) = Used(hd0)
  <2>1. ASSUME NEW c \in Used(hd) PROVE c \in Used(hd0)
    <3>1. c # f /\ c \in DOMAIN hd0
      BY <1>1 DEF Used
    <3>2. QED BY <1>1, <3>1 DEF Used, FreeOf
  <2>2. ASSUME NEW c \in Used(hd0) PROVE c \in Used(hd)
    <3>1. c # f /\ c \in DOMAIN hd0
      BY <1>9 DEF Used
    <3>2. QED BY <1>1, <3>1 DEF Used, FreeOf
  <2>3. QED BY <2>1, <2>2
<1>13. ASSUME NEW c \in Used(hd0) PROVE gd[c] = hd0[c]
  <2>1. c # f /\ c \in DOMAIN hd0 /\ c \in DOMAIN hd
    BY <1>9, <1>12 DEF Used
  <2>2. QED BY <1>1, <1>4, <2>1
<1>14. SameLost(hd0, h0.free_list, gd, m2.free_list)
  <2>1. ASSUME NEW c \in LostOf(hd0, h0.free_list) PROVE gd[c].size = hd0[c].size
    <3>1. c \in DOMAIN hd0 /\ c \in LostOf(hd, h.free_list)
      BY <1>1 DEF LostOf, FreeOf
    <3>2. c # f
      BY <1>1, <3>1 DEF LostOf
    <3>3. c \in DOMAIN hd /\ hd[c] = hd0[c]
      BY <1>1, <3>1, <3>2
    <3>4. QED BY <1>4, <3>2, <3>3
  <2>2. QED BY <1>1, <1>5, <1>6, <2>1 DEF SameLost
<1>15. KeepsIn(h0, m2, hd0, Used(hd0))
  <2>1. ASSUME NEW c \in Used(hd0), NEW x \in Nat, c <= x, x < c + hd0[c].size
        PROVE  m2.mem[x] = h0.mem[x]
    <3>1. c # f /\ c \in DOMAIN hd0
      BY <1>9 DEF Used
    <3>2. x < t /\ ~ (f <= x /\ x < f + hd0[f].size)
      BY <1>9, <2>1, <3>1, Apart
    <3>3. f \in Nat /\ t \in Nat /\ hd0[f].size \in Nat /\ hd0[f].size >= 1
      BY <1>9, GridNumbers DEF Grid
    <3>4. x \in 0 .. t - 1 /\ x \notin f .. f + hd0[f].size - 1 /\ x # f
      BY <3>2, <3>3
    <3>5. h.mem[x] = h0.mem[x]
      BY <1>1, <3>4 DEF SameBut
    <3>6. m1.mem[x] = h.mem[x]
      BY <1>3, <3>4 DEF SameBut
    <3>7. QED BY <1>6, <3>5, <3>6
  <2>2. QED BY <2>1 DEF KeepsIn
<1>16. GivenTo(h0, hd0, t, f, small, m2, gd)
  BY <1>4, <1>8, <1>9, <1>11, <1>12, <1>13, <1>14, <1>15 DEF GivenTo
<1>17. QED BY <1>16 DEF m1, m2

\* The heap with an area more, which is one block that is free and listed.
Grew(h, hd, h1, hd1, u) ==
  /\ Grid(hd1, u) /\ Used(hd1) = Used(hd)
  /\ \A c \in Used(hd) : hd1[c] = hd[c]
  /\ SameLost(hd, h.free_list, hd1, h1.free_list)
  /\ KeepsIn(h, h1, hd, Used(hd))

\* allocate_new_space takes a block of the new area at t, which it splits.
GrowsTo(h, hd, t, size, got, h1, hd1, u) ==
  /\ Grew(h, hd, h1, hd1, u) /\ t \in FreeOf(hd1)
  /\ SplitTo(h1, hd1, u, t, size, h1, hd1)
  /\ got = [h |-> split_block(h1, t, size), block |-> t]

\* It does.
LEMMA GrowFacts ==
  ASSUME NEW t, NEW hd, NEW h, HeapOK(h, t, hd), NEW size \in BlockSizes,
         \A n \in BlockSizes : size <= n => h.free_list[n] = {}
  PROVE  \E h1, hd1, u : GrowsTo(h, hd, t, size, allocate_new_space(h, size), h1, hd1, u)
<1> DEFINE one   == find_one_time_sbrk_size(h, size)[1]
           p     == find_one_time_sbrk_size(h, size)[2]
           u     == t + one
           block == [size |-> one, area_head |-> t, area_end |-> t + one, occupy |-> FALSE]
           at(a) == IF a < t THEN h.mem[a] ELSE IF a = t THEN block ELSE Junk
           mem   == [a \in 0 .. t + one - 1 |-> at(a)]
           grown == [h EXCEPT !.mem = mem, !.param_one_time_sbrk = p]
           h1    == list(grown, t)
           hd1   == [c \in DOMAIN hd \cup {t} |-> IF c = t THEN block ELSE hd[c]]
           after == With(h.free_list, one, t)
<1>1. /\ Shows(h, t, hd) /\ Grid(hd, t) /\ ListsOf(hd, h.free_list) /\ CoalescedOf(hd)
      /\ h.free_list \in Lists /\ h \in HeapsOf(t) /\ GridType(hd, t)
      /\ h.param_one_time_sbrk \in Params
  BY DEF HeapOK, Shows, HeapsOf, Params
<1>2. t \in Nat /\ DOMAIN hd \subseteq 0 .. t - 1
  BY <1>1 DEF GridType
<1>3. one \in BlockSizes /\ size <= one /\ p \in Params
  BY <1>1, SbrkFacts
<1>4. total_size(h) = t
  BY <1>1, <1>2, TotalSize
<1>5. allocate_new_space(h, size) = [h |-> split_block(h1, t, size), block |-> t]
  BY <1>4 DEF allocate_new_space
<1> HIDE DEF one, p
<1>6. one \in Nat /\ one >= 1 /\ u \in Nat /\ size \in Nat
  <2>1. one \in Nat /\ one >= 1 /\ size \in Nat
    BY <1>3, SizeFacts
  <2>2. QED BY <1>2, <2>1
<1>7. /\ block \in HeaderRecord /\ block.size = one /\ ~ block.occupy
      /\ block.area_head = t /\ block.area_end = u
  BY <1>2, <1>6 DEF HeaderRecord
<1>8. /\ mem \in [0 .. u - 1 -> Cell] /\ mem[t] = block
      /\ \A a \in 0 .. t - 1 : a \in 0 .. u - 1 /\ mem[a] = h.mem[a]
  <2>1. \A a \in 0 .. t - 1 : h.mem[a] \in Cell
    BY <1>1 DEF HeapsOf
  <2>2. block \in Cell /\ Junk \in Cell
    BY <1>7 DEF Cell, Data
  <2> HIDE DEF block
  <2>3. \A a \in 0 .. u - 1 : a < t => a \in 0 .. t - 1
    BY <1>2, <1>6
  <2>4. \A a \in 0 .. u - 1 : at(a) \in Cell
    <3>1. ASSUME NEW a \in 0 .. u - 1 PROVE at(a) \in Cell
      <4>1. CASE a < t
        BY <2>1, <2>3, <4>1
      <4>2. CASE ~ (a < t)
        BY <2>2, <4>2
      <4>3. QED BY <4>1, <4>2
    <3> HIDE DEF at
    <3>2. QED BY <3>1
  <2>5. at(t) = block /\ \A a \in 0 .. t - 1 : at(a) = h.mem[a]
    <3>1. ~ (t < t) /\ \A a \in 0 .. t - 1 : a < t
      BY <1>2
    <3>2. QED BY <3>1
  <2> HIDE DEF at, one
  <2>6. mem \in [0 .. u - 1 -> Cell] /\ \A a \in 0 .. u - 1 : mem[a] = at(a)
    <3> DEFINE D == 0 .. t + one - 1
    <3>1. D = 0 .. u - 1
      BY <1>2, <1>6
    <3>2. mem = [a \in D |-> at(a)]
      OBVIOUS
    <3>3. \A a \in D : at(a) \in Cell
      BY <2>4, <3>1
    <3> HIDE DEF mem, D
    <3>4. mem \in [D -> Cell] /\ \A a \in D : mem[a] = at(a)
      BY <3>2, <3>3
    <3>5. QED BY <3>1, <3>4
  <2> HIDE DEF mem
  <2>7. t \in 0 .. u - 1 /\ \A a \in 0 .. t - 1 : a \in 0 .. u - 1
    BY <1>2, <1>6
  <2>8. QED BY <2>5, <2>6, <2>7
<1>9. DOMAIN hd1 = DOMAIN hd \cup {t} /\ hd1[t] = block /\ IsFunction(hd1) /\ t \notin DOMAIN hd
      /\ \A c \in DOMAIN hd : hd1[c] = hd[c]
  <2>1. t \notin DOMAIN hd
    BY <1>2
  <2>2. QED BY <2>1 DEF IsFunction
<1> HIDE DEF block, hd1, mem
<1>10. IsGrown(hd, t, one, hd1)
  BY <1>7, <1>9 DEF IsGrown
<1>11. Grid(hd1, u)
  BY <1>1, <1>3, <1>9, <1>10, GrownGrid
<1> HIDE DEF u
<1>12. Shows(grown, u, hd1) /\ grown.free_list = h.free_list /\ grown.mem = mem
  <2>1. grown.mem = mem /\ grown.free_list = h.free_list /\ grown \in HeapsOf(u)
    BY <1>1, <1>3, <1>8 DEF HeapsOf, Params
  <2> HIDE DEF grown
  <2>2. \A c \in DOMAIN hd1 : mem[c] = hd1[c]
    <3>1. \A c \in DOMAIN hd : h.mem[c] = hd[c]
      BY <1>1 DEF Shows
    <3>2. QED BY <1>2, <1>8, <1>9, <3>1
  <2>3. GridType(hd1, u)
    BY <1>11 DEF Grid
  <2>4. QED BY <2>1, <2>2, <2>3 DEF Shows
<1> HIDE DEF grown
<1>13. h.free_list[one] = {}
  BY <1>3
<1>14. GrownInto(hd, hd1, h.free_list, one, t, after)
  <2> DEFINE fl == h.free_list
  <2>1. fl \in Lists /\ ListsOf(hd, fl) /\ fl[one] = {}
    BY <1>1, <1>13
  <2>2. Grid(hd1, t + one)
    BY <1>11 DEF u
  <2> HIDE DEF fl, after
  <2>3. GrownInto(hd, hd1, fl, one, t, With(fl, one, t))
    BY <1>1, <1>3, <1>9, <1>10, <2>1, <2>2, GrownLists
  <2>4. QED BY <2>3 DEF fl, after
<1> HIDE DEF after
<1>15. /\ after \in Lists /\ ListsOf(hd1, after) /\ LostOf(hd1, after) = LostOf(hd, h.free_list)
       /\ after[one] = {t} /\ \A m \in BlockSizes : m # one => after[m] = h.free_list[m]
  BY <1>14 DEF GrownInto, SameLists
<1>16. t \in FreeOf(hd1) /\ hd1[t].size = one /\ t \in DOMAIN hd1
  BY <1>7, <1>9 DEF FreeOf
<1>17. Shows(h1, u, hd1) /\ h1.free_list = after /\ h1.mem = mem
  <2>1. h1 = [grown EXCEPT !.free_list = after]
    BY <1>12, <1>16, ListIs DEF after
  <2> HIDE DEF h1
  <2>2. QED BY <1>12, <1>15, <2>1, ListsSet
<1> HIDE DEF h1
<1>18. CoalescedBut(hd1, t)
  BY <1>1, <1>3, <1>10, <1>11, GrownCoalesced DEF u
<1>19. SplitTo(h1, hd1, u, t, size, h1, hd1)
  <2>1. \A n \in BlockSizes : size <= n /\ n < one => h1.free_list[n] = {}
    <3>1. ASSUME NEW n \in BlockSizes, size <= n, n < one PROVE after[n] = {}
      <4>1. n # one
        BY <1>6, <3>1
      <4>2. QED BY <1>15, <3>1, <4>1
    <3>2. QED BY <1>17, <3>1
  <2>2. \A c \in DOMAIN hd1 \ DOMAIN hd1 : c \in FreeOf(hd1)
    OBVIOUS
  <2>3. SameBut(h1, h1, u, t .. t + hd1[t].size - 1)
    BY DEF SameBut
  <2>4. one <= one
    BY <1>6
  <2>5. QED BY <1>3, <1>11, <1>15, <1>16, <1>17, <1>18, <2>1, <2>2, <2>3, <2>4 DEF SplitTo
<1>20. FreeOf(hd1) = FreeOf(hd) \cup {t} /\ Used(hd1) = Used(hd)
  BY <1>9, <1>16 DEF FreeOf, Used
<1>21. KeepsIn(h, h1, hd, Used(hd))
  <2>1. ASSUME NEW c \in Used(hd), NEW x \in Nat, c <= x, x < c + hd[c].size
        PROVE  h1.mem[x] = h.mem[x]
    <3>1. c \in Nat /\ hd[c].size \in Nat /\ c + hd[c].size <= t
      BY <1>1, GridNumbers DEF Used
    <3>2. x \in 0 .. t - 1
      BY <1>2, <2>1, <3>1
    <3>3. QED BY <1>8, <1>17, <3>2
  <2>2. QED BY <2>1 DEF KeepsIn
<1>22. SameLost(hd, h.free_list, hd1, h1.free_list)
  <2>1. \A c \in LostOf(hd, h.free_list) : c \in DOMAIN hd
    BY DEF LostOf, FreeOf
  <2>2. QED BY <1>9, <1>15, <1>17, <2>1 DEF SameLost
<1>23. Grew(h, hd, h1, hd1, u)
  BY <1>9, <1>11, <1>20, <1>21, <1>22 DEF Grew, Used
<1>24. GrowsTo(h, hd, t, size, allocate_new_space(h, size), h1, hd1, u)
  BY <1>5, <1>16, <1>19, <1>23 DEF GrowsTo
<1>25. QED BY <1>24

\* A block of a heap that has grown is given out.
LEMMA GivenAfter ==
  ASSUME NEW h, NEW hd, NEW h1, NEW hd1, NEW u, NEW b, NEW size, NEW g, NEW gd,
         Grew(h, hd, h1, hd1, u), GivenTo(h1, hd1, u, b, size, g, gd)
  PROVE  GivenTo(h, hd, u, b, size, g, gd)
<1>1. /\ Used(hd1) = Used(hd) /\ \A c \in Used(hd) : hd1[c] = hd[c]
      /\ SameLost(hd, h.free_list, hd1, h1.free_list) /\ KeepsIn(h, h1, hd, Used(hd))
  BY DEF Grew
<1>2. /\ HeapOK(g, u, gd)
      /\ b \notin Used(hd1) /\ Used(gd) = Used(hd1) \cup {b} /\ gd[b].size = size
      /\ \A c \in Used(hd1) : gd[c] = hd1[c]
      /\ SameLost(hd1, h1.free_list, gd, g.free_list) /\ KeepsIn(h1, g, hd1, Used(hd1))
  BY DEF GivenTo
<1>3. SameLost(hd, h.free_list, gd, g.free_list)
  BY <1>1, <1>2 DEF SameLost
<1>4. KeepsIn(h, g, hd, Used(hd))
  BY <1>1, <1>2 DEF KeepsIn
<1>5. QED BY <1>1, <1>2, <1>3, <1>4 DEF GivenTo

\* The size of a block that is split down to it.
LEMMA SplitSize ==
  ASSUME NEW t, NEW h0, NEW hd0, NEW f, NEW small, NEW h, NEW hd,
         SplitTo(h0, hd0, t, f, small, h, hd), hd[f].size = small
  PROVE  SizeOf(h, f) = small
<1>1. Shows(h, t, hd) /\ f \in DOMAIN hd
  BY DEF SplitTo, FreeOf
<1>2. QED BY <1>1, HeaderIs

\* The call gives out block b, of this size.
MallocTo(h, hd, size, call, b, u, gd) ==
  call.ptr = b + HeaderSize /\ GivenTo(h, hd, u, b, size, call.h, gd)

\* malloc: no memory for no cells, or a block.
LEMMA MallocFacts ==
  ASSUME NEW t, NEW hd, NEW h, HeapOK(h, t, hd), NEW n \in Requests
  PROVE  IF n = 0 THEN malloc(h, n) = [h |-> h, ptr |-> NULL]
         ELSE \E b, u, gd : MallocTo(h, hd, find_new_alloc_size(n), malloc(h, n), b, u, gd)
<1>1. CASE n = 0
  <2>1. malloc(h, n) = [h |-> h, ptr |-> NULL]
    BY <1>1 DEF malloc
  <2>2. QED BY <1>1, <2>1
<1>2. CASE n # 0
  <2> DEFINE size  == find_new_alloc_size(n)
             found == block_available(h, size)
             got   == IF found = NoBlock THEN allocate_new_space(h, size)
                      ELSE [h |-> split_block(h, found, size), block |-> found]
             taken == unlist(set_occupy(got.h, got.block, TRUE), got.block)
  <2>1. size \in BlockSizes
    BY RequestFacts
  <2>2. malloc(h, n) = IF found # NoBlock /\ SizeOf(got.h, got.block) # size
                       THEN [h |-> got.h, ptr |-> NULL]
                       ELSE [h |-> taken, ptr |-> got.block + HeaderSize]
    BY <1>2 DEF malloc
  <2>3. Shows(h, t, hd) /\ Grid(hd, t) /\ ListsOf(hd, h.free_list) /\ CoalescedOf(hd)
    BY DEF HeapOK
  <2> HIDE DEF size
  <2>4. \E b, u, gd : /\ SizeOf(got.h, got.block) = size /\ got.block = b
                      /\ GivenTo(h, hd, u, b, size, taken, gd)
    <3>1. CASE found = NoBlock
      <4>1. \A m \in BlockSizes : size <= m => h.free_list[m] = {}
        BY <2>1, <2>3, <3>1, AvailableFacts
      <4>2. got = allocate_new_space(h, size)
        BY <3>1
      <4> HIDE DEF got, found
      <4>3. PICK h1, hd1, u : GrowsTo(h, hd, t, size, got, h1, hd1, u)
        BY <2>1, <4>1, <4>2, GrowFacts
      <4>4. /\ Grew(h, hd, h1, hd1, u) /\ Grid(hd1, u) /\ t \in FreeOf(hd1)
            /\ SplitTo(h1, hd1, u, t, size, h1, hd1)
            /\ got = [h |-> split_block(h1, t, size), block |-> t]
        BY <4>3 DEF GrowsTo, Grew
      <4>5. PICK hd2 : SplitTo(h1, hd1, u, t, size, got.h, hd2) /\ hd2[t].size = size
        BY <2>1, <4>4, SplitFacts
      <4>6. got.block = t /\ SizeOf(got.h, got.block) = size
        BY <4>4, <4>5, SplitSize
      <4>7. PICK gd : GivenTo(h1, hd1, u, t, size, taken, gd)
        <5>1. \E gd : GivenTo(h1, hd1, u, t, size, unlist(set_occupy(got.h, t, TRUE), t), gd)
          BY <2>1, <4>4, <4>5, TakeFacts
        <5>2. QED BY <4>6, <5>1
      <4> HIDE DEF taken
      <4>8. GivenTo(h, hd, u, t, size, taken, gd)
        BY <4>4, <4>7, GivenAfter
      <4>9. QED BY <4>6, <4>8
    <3>2. CASE found # NoBlock
      <4>1. got = [h |-> split_block(h, found, size), block |-> found]
        BY <3>2
      <4>2. Found(h.free_list, hd, size, found)
        BY <2>1, <2>3, <3>2, AvailableFacts
      <4> HIDE DEF got, found
      <4>3. /\ found \in FreeOf(hd) /\ found \in h.free_list[hd[found].size]
            /\ size <= hd[found].size
            /\ \A m \in BlockSizes : size <= m /\ m < hd[found].size => h.free_list[m] = {}
        BY <4>2 DEF Found
      <4>4. SplitTo(h, hd, t, found, size, h, hd)
        <5>1. CoalescedBut(hd, found)
          BY <2>3 DEF CoalescedOf, CoalescedBut
        <5>2. SameBut(h, h, t, found .. found + hd[found].size - 1)
          BY DEF SameBut
        <5>3. hd[found].size <= hd[found].size
          BY <2>3, <4>3, GridNumbers DEF Grid, FreeOf
        <5>4. QED BY <2>3, <4>3, <5>1, <5>2, <5>3 DEF SplitTo
      <4>5. PICK hd2 : SplitTo(h, hd, t, found, size, got.h, hd2) /\ hd2[found].size = size
        BY <2>1, <4>1, <4>4, SplitFacts
      <4>6. got.block = found /\ SizeOf(got.h, got.block) = size
        BY <4>1, <4>5, SplitSize
      <4>7. PICK gd : GivenTo(h, hd, t, found, size, taken, gd)
        <5>1. \E gd : GivenTo(h, hd, t, found, size,
                              unlist(set_occupy(got.h, found, TRUE), found), gd)
          BY <2>1, <2>3, <4>3, <4>5, TakeFacts
        <5>2. QED BY <4>6, <5>1
      <4>8. QED BY <4>6, <4>7
    <3>3. QED BY <3>1, <3>2
  <2>5. PICK b, u, gd : /\ SizeOf(got.h, got.block) = size /\ got.block = b
                        /\ GivenTo(h, hd, u, b, size, taken, gd)
    BY <2>4
  <2> HIDE DEF got, taken
  <2>6. malloc(h, n) = [h |-> taken, ptr |-> b + HeaderSize]
    BY <2>2, <2>5
  <2>7. MallocTo(h, hd, size, malloc(h, n), b, u, gd)
    BY <2>5, <2>6 DEF MallocTo
  <2>8. QED BY <1>2, <2>7 DEF size
<1>3. QED BY <1>1, <1>2

-----------------------------------------------------------------------------
(* The walk over the heap.                                                 *)

\* A size that is read is a number, wherever it is read.
LEMMA SizeIsNat ==
  ASSUME NEW t, NEW h \in HeapsOf(t), NEW b
  PROVE  SizeOf(h, b) \in Nat
<1>1. CASE b \notin DOMAIN h.mem \/ h.mem[b] \in Data
  BY <1>1 DEF SizeOf, Header
<1>2. CASE ~ (b \notin DOMAIN h.mem \/ h.mem[b] \in Data)
  <2>1. h.mem[b] \in HeaderRecord
    BY <1>2 DEF HeapsOf, Cell
  <2>2. Header(h, b) = h.mem[b]
    BY <1>2 DEF Header
  <2>3. QED BY <2>1, <2>2 DEF SizeOf, HeaderRecord
<1>3. QED BY <1>1, <1>2

\* The walks from m and from what lies behind it, in a heap of t units.
Walk(h, t, m, f) ==
  f = [b \in m .. t |-> IF SizeOf(h, b) = 0 \/ b + SizeOf(h, b) > t THEN {}
                        ELSE {b} \cup f[b + SizeOf(h, b)]]

\* Blocks is the first of the function's values.
LEMMA WalkUnfold ==
  ASSUME NEW h, NEW t, total_size(h) = t
  PROVE  Blocks(h) = (CHOOSE f : Walk(h, t, 0, f))[0]
BY DEF Blocks, Walk

\* There is such a function.
LEMMA WalkExists ==
  ASSUME NEW t \in Nat, NEW h \in HeapsOf(t)
  PROVE  \E f : Walk(h, t, 0, f)
<1> DEFINE Next1(f, b) == IF SizeOf(h, b) = 0 \/ b + SizeOf(h, b) > t THEN {}
                          ELSE {b} \cup f[b + SizeOf(h, b)]
           Sat(f, m) == f = [b \in m .. t |-> Next1(f, b)]
           P == {k \in 0 .. t : \E f : Sat(f, t - k)}
<1>1. \A b : SizeOf(h, b) \in Nat
  BY SizeIsNat
<1>2. \A b \in 0 .. t : \A f, g :
        (\A c \in 0 .. t : c > b => f[c] = g[c]) => Next1(f, b) = Next1(g, b)
  <2>1. ASSUME NEW b \in 0 .. t, NEW f, NEW g, \A c \in 0 .. t : c > b => f[c] = g[c]
        PROVE  Next1(f, b) = Next1(g, b)
    <3>1. CASE SizeOf(h, b) = 0 \/ b + SizeOf(h, b) > t
      BY <3>1
    <3>2. CASE ~ (SizeOf(h, b) = 0 \/ b + SizeOf(h, b) > t)
      <4> DEFINE s == SizeOf(h, b)
      <4>1. s \in Nat /\ s # 0 /\ ~ (b + s > t)
        BY <1>1, <3>2
      <4> HIDE DEF s
      <4>2. b + s \in 0 .. t /\ b + s > b
        BY <4>1
      <4>3. f[b + s] = g[b + s]
        BY <2>1, <4>2
      <4>4. QED BY <3>2, <4>3 DEF s
    <3>3. QED BY <3>1, <3>2
  <2> HIDE DEF Next1
  <2>2. QED BY <2>1
<1> HIDE DEF Next1
<1>3. 0 \in P
  <2> DEFINE f0 == [b \in t - 0 .. t |-> Next1(<<>>, b)]
  <2>1. ASSUME NEW b \in t - 0 .. t PROVE f0[b] = Next1(f0, b)
    <3>1. b \in 0 .. t /\ \A c \in 0 .. t : ~ (c > b)
      OBVIOUS
    <3>2. Next1(<<>>, b) = Next1(f0, b)
      BY <1>2, <3>1
    <3>3. QED BY <3>2
  <2>2. Sat(f0, t - 0)
    BY <2>1
  <2> HIDE DEF Sat, f0
  <2>3. QED BY <2>2
<1>4. ASSUME NEW k \in 1 .. t, k - 1 \in P PROVE k \in P
  <2> DEFINE m == t - k
  <2>1. PICK f : Sat(f, t - (k - 1))
    BY <1>4
  <2>2. m \in 0 .. t /\ t - (k - 1) = m + 1 /\ m + 1 \in 0 .. t
    OBVIOUS
  <2> HIDE DEF m
  <2> DEFINE g == [b \in m .. t |-> IF b = m THEN Next1(f, m) ELSE f[b]]
  <2>3. f = [b \in m + 1 .. t |-> Next1(f, b)]
    BY <2>1, <2>2
  <2>4. \A b \in m + 1 .. t : f[b] = Next1(f, b) /\ b \in m .. t /\ b # m
    BY <2>2, <2>3
  <2>5. g[m] = Next1(f, m) /\ \A b \in m + 1 .. t : g[b] = f[b]
    <3>1. m \in m .. t
      BY <2>2
    <3>2. QED BY <2>4, <3>1
  <2>6. DOMAIN g = m .. t /\ g = [b \in m .. t |-> g[b]]
    OBVIOUS
  <2> HIDE DEF g
  <2>7. ASSUME NEW b \in m .. t PROVE g[b] = Next1(g, b)
    <3>1. b \in 0 .. t
      BY <2>2
    <3>2. \A c \in 0 .. t : c > b => c \in m + 1 .. t
      BY <2>2
    <3>3. Next1(f, b) = Next1(g, b)
      BY <1>2, <2>5, <3>1, <3>2
    <3>4. CASE b = m
      BY <2>5, <3>3, <3>4
    <3>5. CASE b # m
      <4>1. b \in m + 1 .. t
        BY <2>2, <3>5
      <4>2. QED BY <2>4, <2>5, <3>3, <4>1
    <3>6. QED BY <3>4, <3>5
  <2>8. Sat(g, t - k)
    BY <2>6, <2>7 DEF m
  <2>9. k \in 0 .. t
    OBVIOUS
  <2> HIDE DEF Sat
  <2>10. QED BY <2>8, <2>9
<1>5. \A k \in 0 .. t : k \in P
  <2>1. \A k \in 1 .. t : k - 1 \in P => k \in P
    BY <1>4
  <2> HIDE DEF P
  <2>2. QED BY <1>3, <2>1, CountUp
<1>6. t \in P
  <2> HIDE DEF P
  <2>1. QED BY <1>5
<1>7. PICK f : Sat(f, t - t)
  BY <1>6
<1>8. t - t = 0
  OBVIOUS
<1>9. Walk(h, t, 0, f)
  BY <1>7, <1>8 DEF Walk, Next1
<1>10. QED BY <1>9

\* Behind a block comes the next, or the end.
LEMMA NextBlock ==
  ASSUME NEW t, NEW hd, Grid(hd, t), NEW b \in DOMAIN hd
  PROVE  /\ b + hd[b].size \in DOMAIN hd \cup {t}
         /\ {c \in DOMAIN hd : c >= b} = {b} \cup {c \in DOMAIN hd : c >= b + hd[b].size}
<1> DEFINE x == b + hd[b].size
<1>1. \A c \in DOMAIN hd : /\ c \in Nat /\ hd[c].size \in Nat /\ hd[c].size >= 1
                           /\ c + hd[c].size <= t
  BY GridNumbers DEF Grid
<1>2. t \in Nat
  BY DEF Grid, GridType
<1>3. \A c, d \in DOMAIN hd : c < d => c + hd[c].size <= d
  BY DEF Grid, Side
<1>4. x \in Nat /\ x <= t /\ x > b
  BY <1>1
<1>5. x \in DOMAIN hd \cup {t}
  <2>1. CASE x = t
    BY <2>1
  <2>2. CASE x # t
    <3>1. x \in 0 .. t - 1
      BY <1>2, <1>4, <2>2
    <3>2. PICK c \in DOMAIN hd : c <= x /\ x < c + hd[c].size
      <4> HIDE DEF x
      <4>1. QED BY <3>1 DEF Grid, Side
    <3>3. c = x
      <4>1. CASE c = b
        BY <1>1, <3>2, <4>1
      <4>2. CASE c < b
        <5>1. c + hd[c].size <= b
          BY <1>3, <4>2
        <5>2. QED BY <1>1, <1>4, <3>2, <5>1
      <4>3. CASE b < c
        <5>1. x <= c
          BY <1>3, <4>3
        <5>2. QED BY <1>1, <1>4, <3>2, <5>1
      <4>4. QED BY <1>1, <4>1, <4>2, <4>3
    <3>4. QED BY <3>3
  <2>3. QED BY <2>1, <2>2
<1>6. ASSUME NEW c \in DOMAIN hd PROVE c >= b <=> c = b \/ c >= x
  BY <1>1, <1>3, <1>4
<1>7. QED BY <1>5, <1>6

\* Who walks over the heap comes to the blocks.
LEMMA BlocksAre ==
  ASSUME NEW t, NEW hd, NEW h, Shows(h, t, hd), Grid(hd, t)
  PROVE  Blocks(h) = DOMAIN hd
<1>1. t \in Nat /\ h \in HeapsOf(t)
  BY DEF Shows, GridType
<1>2. total_size(h) = t /\ DOMAIN h.mem = 0 .. t - 1
  BY <1>1, TotalSize
<1>3. PICK f : Walk(h, t, 0, f) /\ Blocks(h) = f[0]
  BY <1>1, <1>2, WalkUnfold, WalkExists
<1> DEFINE From(b) == {c \in DOMAIN hd : c >= b}
           P == {k \in 0 .. t : \A b \in DOMAIN hd \cup {t} : b >= t - k => f[b] = From(b)}
<1>4. \A c \in DOMAIN hd : /\ c \in Nat /\ hd[c].size \in Nat /\ hd[c].size >= 1
                           /\ c + hd[c].size <= t /\ c < t
  BY GridNumbers DEF Grid
<1>5. f[t] = From(t)
  <2>1. SizeOf(h, t) = 0
    BY <1>1, <1>2 DEF SizeOf, Header
  <2>2. f[t] = {}
    BY <1>1, <1>3, <2>1 DEF Walk
  <2>3. From(t) = {}
    BY <1>1, <1>4
  <2>4. QED BY <2>2, <2>3
<1>6. \A b \in DOMAIN hd : f[b] = {b} \cup f[b + hd[b].size]
  <2>1. ASSUME NEW b \in DOMAIN hd PROVE f[b] = {b} \cup f[b + hd[b].size]
    <3>1. SizeOf(h, b) = hd[b].size
      BY HeaderIs
    <3>2. b \in 0 .. t /\ hd[b].size # 0 /\ ~ (b + hd[b].size > t)
      BY <1>1, <1>4
    <3>3. f[b] = IF SizeOf(h, b) = 0 \/ b + SizeOf(h, b) > t THEN {}
                 ELSE {b} \cup f[b + SizeOf(h, b)]
      BY <1>3, <3>2 DEF Walk
    <3>4. QED BY <3>1, <3>2, <3>3
  <2>2. QED BY <2>1
<1> HIDE DEF From
<1>7. 0 \in P
  <2>1. ASSUME NEW b \in DOMAIN hd \cup {t}, b >= t - 0 PROVE f[b] = From(b)
    <3>1. b = t
      BY <1>1, <1>4, <2>1
    <3>2. QED BY <1>5, <3>1
  <2>2. QED BY <1>1, <2>1
<1>8. ASSUME NEW k \in 1 .. t, k - 1 \in P PROVE k \in P
  <2>1. \A b \in DOMAIN hd \cup {t} : b >= t - (k - 1) => f[b] = From(b)
    BY <1>8
  <2>2. ASSUME NEW b \in DOMAIN hd \cup {t}, b >= t - k PROVE f[b] = From(b)
    <3>1. CASE b = t
      BY <1>5, <3>1
    <3>2. CASE b \in DOMAIN hd
      <4> DEFINE x == b + hd[b].size
      <4>1. x \in DOMAIN hd \cup {t} /\ From(b) = {b} \cup From(x)
        BY <3>2, NextBlock DEF From
      <4>2. x >= t - (k - 1)
        BY <1>1, <1>4, <2>2, <3>2
      <4>3. f[b] = {b} \cup f[x]
        BY <1>6, <3>2
      <4> HIDE DEF x
      <4>4. QED BY <2>1, <4>1, <4>2, <4>3
    <3>3. QED BY <3>1, <3>2
  <2>3. QED BY <1>1, <2>2
<1>9. \A k \in 0 .. t : k \in P
  <2>1. \A k \in 1 .. t : k - 1 \in P => k \in P
    BY <1>8
  <2> HIDE DEF P
  <2>2. QED BY <1>1, <1>7, <2>1, CountUp
<1>10. 0 \in DOMAIN hd \cup {t}
  <2>1. CASE t # 0
    <3>1. 0 \in 0 .. t - 1
      BY <1>1, <2>1
    <3>2. PICK c \in DOMAIN hd : c <= 0
      BY <3>1 DEF Grid, Side
    <3>3. QED BY <1>4, <3>2
  <2>2. QED BY <2>1
<1>11. f[0] = From(0)
  <2>1. t \in P
    <3> HIDE DEF P
    <3>1. QED BY <1>1, <1>9
  <2>2. 0 >= t - t
    BY <1>1
  <2>3. QED BY <1>10, <2>1, <2>2
<1>12. From(0) = DOMAIN hd
  BY <1>4 DEF From
<1>13. QED BY <1>3, <1>11, <1>12

-----------------------------------------------------------------------------
(* The invariant.                                                          *)

\* The program holds the blocks in use, and what it asked for fits.
HeldBy(hd, held) ==
  /\ DOMAIN held = {b + HeaderSize : b \in Used(hd)} /\ held \in [DOMAIN held -> Nat]
  /\ \A b \in Used(hd) : held[b + HeaderSize] <= hd[b].size - HeaderSize

\* The memory has these blocks, and the program holds the ones in use.
StateOK(h, held, t, hd) == HeapOK(h, t, hd) /\ HeldBy(hd, held)

\* The free blocks and the lost ones of the memory are those of the headers.
LEMMA UnlistedAre ==
  ASSUME NEW t, NEW hd, NEW h, HeapOK(h, t, hd)
  PROVE  FreeBlocks(h) = FreeOf(hd) /\ Unlisted(h) = LostOf(hd, h.free_list)
<1>1. Shows(h, t, hd) /\ Blocks(h) = DOMAIN hd
  BY BlocksAre DEF HeapOK
<1>2. \A b \in DOMAIN hd : h.mem[b] = hd[b] /\ SizeOf(h, b) = hd[b].size
  BY <1>1, HeaderIs
<1>3. FreeBlocks(h) = FreeOf(hd)
  BY <1>1, <1>2 DEF FreeBlocks, FreeOf
<1>4. FreeOf(hd) \subseteq DOMAIN hd
  BY DEF FreeOf
<1>5. QED BY <1>2, <1>3, <1>4 DEF Unlisted, LostOf

\* The invariant follows.
LEMMA InvFollows ==
  ASSUME NEW t, NEW hd, StateOK(heap, sizes, t, hd)
  PROVE  AllocInv
<1>1. /\ Shows(heap, t, hd) /\ Grid(hd, t) /\ ListsOf(hd, heap.free_list) /\ CoalescedOf(hd)
      /\ heap \in HeapsOf(t) /\ GridType(hd, t) /\ Side(hd, t) /\ HeldBy(hd, sizes)
  BY DEF StateOK, HeapOK, Shows, Grid
<1>2. t \in Nat /\ total_size(heap) = t /\ DOMAIN heap.mem = 0 .. t - 1
  BY <1>1, TotalSize DEF GridType
<1>3. Blocks(heap) = DOMAIN hd /\ FreeBlocks(heap) = FreeOf(hd)
  BY <1>1, BlocksAre, UnlistedAre DEF StateOK
<1>4. \A b \in DOMAIN hd : heap.mem[b] = hd[b] /\ SizeOf(heap, b) = hd[b].size
  BY <1>1, HeaderIs
<1>5. \A b \in DOMAIN hd : /\ b \in Nat /\ hd[b].size \in Nat /\ hd[b].size >= 1
                           /\ hd[b].size \in BlockSizes /\ b + hd[b].size <= t
                           /\ hd[b].area_head \in Nat /\ hd[b].area_end \in Nat
  BY <1>1, GridNumbers
<1>6. AllocTypeOK
  <2>1. sizes \in [Held -> Nat]
    BY <1>1 DEF HeldBy, Held
  <2>2. QED BY <1>1, <1>2, <2>1 DEF AllocTypeOK, HeapsOf, Lists
<1>7. Tiled
  <2>1. ASSUME NEW a \in 0 .. t - 1 PROVE \E b \in DOMAIN hd : a \in Extent(heap, b)
    <3>1. PICK b \in DOMAIN hd : b <= a /\ a < b + hd[b].size
      BY <1>1 DEF Side
    <3>2. a \in b .. b + hd[b].size - 1
      BY <1>5, <3>1
    <3>3. QED BY <1>4, <3>2 DEF Extent
  <2>2. \A b \in DOMAIN hd : SizeOf(heap, b) # 0 /\ b + SizeOf(heap, b) <= total_size(heap)
    <3>1. ASSUME NEW b \in DOMAIN hd PROVE SizeOf(heap, b) # 0 /\ b + SizeOf(heap, b) <= t
      <4>1. SizeOf(heap, b) = hd[b].size /\ hd[b].size \in Nat /\ hd[b].size >= 1
            /\ b + hd[b].size <= t
        BY <1>4, <1>5
      <4>2. QED BY <4>1
    <3>2. QED BY <1>2, <3>1
  <2>3. \A b, c \in DOMAIN hd : b < c => b + SizeOf(heap, b) <= c
    BY <1>1, <1>4 DEF Side
  <2>4. Tiles(DOMAIN hd, heap)
    BY <1>2, <2>1, <2>2, <2>3 DEF Tiles
  <2>5. QED BY <1>3, <2>4 DEF Tiled
<1>8. InAreas
  <2>1. ASSUME NEW b \in DOMAIN hd PROVE InArea(b, DOMAIN hd, heap)
    <3> DEFINE head == hd[b].area_head
               end  == hd[b].area_end
               s    == hd[b].size
    <3>1. /\ end - head \in BlockSizes /\ head \in DOMAIN hd /\ head <= b /\ b + s <= end /\ end <= t
          /\ Multiple(b - head, s)
          /\ \A c \in DOMAIN hd : head <= c /\ c < end => hd[c].area_head = head /\ hd[c].area_end = end
      BY <1>1 DEF Grid, AreaOf
    <3>2. /\ b \in Nat /\ s \in Nat /\ s >= 1 /\ s \in BlockSizes /\ head \in Nat /\ end \in Nat
      BY <1>5
    <3>3. heap.mem[b] = hd[b] /\ SizeOf(heap, b) = s
      BY <1>4
    <3> HIDE DEF head, end, s
    <3>4. (b - head) % s = 0
      <4> DEFINE d == b - head
      <4>1. d \in Nat
        BY <3>1, <3>2
      <4>2. Multiple(d, s)
        BY <3>1
      <4> HIDE DEF d
      <4>3. s \in Nat \ {0}
        BY <3>2
      <4>4. d % s = 0
        BY <4>1, <4>2, <4>3, MultipleMod
      <4>5. QED BY <4>4 DEF d
    <3>5. \A c \in DOMAIN hd :
            head <= c /\ c < end => heap.mem[c].area_head = head /\ heap.mem[c].area_end = end
      BY <1>4, <3>1
    <3>6. heap.mem[b].area_head = head /\ heap.mem[b].area_end = end
      BY <3>3 DEF head, end
    <3>7. QED BY <1>2, <3>1, <3>2, <3>3, <3>4, <3>5, <3>6 DEF InArea
  <2>2. QED BY <1>3, <2>1 DEF InAreas
<1>9. HeldOccupied
  <2>1. Blocks(heap) \ FreeBlocks(heap) = Used(hd)
    BY <1>3 DEF Used
  <2>2. Held = {b + HeaderSize : b \in Used(hd)}
    BY <1>1 DEF HeldBy, Held
  <2>3. ASSUME NEW p \in Held PROVE sizes[p] <= SizeOf(heap, p - HeaderSize) - HeaderSize
    <3>1. PICK b \in Used(hd) : p = b + HeaderSize
      BY <2>2
    <3>2. b \in DOMAIN hd /\ b \in Nat
      BY <1>5 DEF Used
    <3>3. p - HeaderSize = b
      BY <3>1, <3>2 DEF HeaderSize
    <3>4. sizes[p] <= hd[b].size - HeaderSize
      BY <1>1, <3>1 DEF HeldBy
    <3>5. QED BY <1>4, <3>2, <3>3, <3>4
  <2>4. QED BY <2>1, <2>2, <2>3 DEF HeldOccupied
<1>10. ListsFree
  <2>1. ASSUME NEW n \in BlockSizes
        PROVE  /\ heap.free_list[n] \subseteq {b \in FreeOf(hd) : SizeOf(heap, b) = n}
               /\ Cardinality(heap.free_list[n]) <= MaxArrayLength
    <3>1. /\ heap.free_list[n] \subseteq {b \in FreeOf(hd) : hd[b].size = n}
          /\ Cardinality(heap.free_list[n]) <= MaxArrayLength
      BY <1>1 DEF ListsOf
    <3>2. QED BY <1>4, <3>1 DEF FreeOf
  <2>2. QED BY <1>3, <2>1 DEF ListsFree
<1>11. Coalesced
  <2>1. ASSUME NEW b \in FreeOf(hd), buddy_address(heap, b) \in FreeOf(hd),
               SizeOf(heap, buddy_address(heap, b)) = SizeOf(heap, b)
        PROVE  FALSE
    <3>1. b \in DOMAIN hd /\ buddy_address(heap, b) = BuddyOf(hd, b)
      BY <1>1, BuddyIs DEF FreeOf
    <3>2. BuddyOf(hd, b) \in FreeOf(hd) /\ BuddyOf(hd, b) \in DOMAIN hd
      BY <2>1, <3>1 DEF FreeOf
    <3>3. Meets(hd, b)
      BY <1>4, <2>1, <3>1, <3>2 DEF Meets
    <3>4. QED BY <1>1, <2>1, <3>3 DEF CoalescedOf
  <2>2. QED BY <1>3, <2>1 DEF Coalesced
<1>12. QED BY <1>6, <1>7, <1>8, <1>9, <1>10, <1>11 DEF AllocInv

-----------------------------------------------------------------------------
(* Data is written.                                                        *)

\* The memory is as it was, but for the data of block b.
DataOnly(h, m, t, hd, b) ==
  /\ m \in [0 .. t - 1 -> Cell]
  /\ \A x \in 0 .. t - 1 : ~ (b < x /\ x < b + hd[b].size) => m[x] = h.mem[x]

\* The memory is another, with the same blocks and lists.
Rewritten(h, g, t, hd, m) == HeapOK(g, t, hd) /\ g.free_list = h.free_list /\ g.mem = m

\* No header lies in the data of a block.
LEMMA DataWritten ==
  ASSUME NEW t, NEW hd, NEW h, HeapOK(h, t, hd), NEW b \in DOMAIN hd, NEW m,
         DataOnly(h, m, t, hd, b)
  PROVE  Rewritten(h, [h EXCEPT !.mem = m], t, hd, m)
<1> DEFINE g == [h EXCEPT !.mem = m]
<1>1. /\ h \in HeapsOf(t) /\ GridType(hd, t) /\ Grid(hd, t) /\ ListsOf(hd, h.free_list)
      /\ CoalescedOf(hd) /\ \A c \in DOMAIN hd : h.mem[c] = hd[c]
      /\ m \in [0 .. t - 1 -> Cell]
      /\ \A x \in 0 .. t - 1 : ~ (b < x /\ x < b + hd[b].size) => m[x] = h.mem[x]
  BY DEF HeapOK, Shows, DataOnly
<1>2. g \in HeapsOf(t) /\ g.free_list = h.free_list /\ g.mem = m
  BY <1>1 DEF HeapsOf
<1> HIDE DEF g
<1>3. ASSUME NEW c \in DOMAIN hd PROVE m[c] = hd[c]
  <2>1. c \in Nat /\ c < t /\ hd[c].size \in Nat /\ hd[c].size >= 1 /\ t \in Nat
    BY <1>1, GridNumbers
  <2>2. ~ (b < c /\ c < b + hd[b].size)
    <3>1. CASE b = c
      BY <2>1, <3>1
    <3>2. CASE b # c
      <4>1. c <= c /\ c < c + hd[c].size
        BY <2>1
      <4>2. ~ (b <= c /\ c < b + hd[b].size)
        BY <1>1, <2>1, <3>2, <4>1, Apart
      <4>3. b \in Nat
        BY <1>1, GridNumbers
      <4>4. QED BY <2>1, <4>2, <4>3
    <3>3. QED BY <3>1, <3>2
  <2>3. c \in 0 .. t - 1
    BY <2>1
  <2>4. QED BY <1>1, <2>2, <2>3
<1>4. Shows(g, t, hd)
  BY <1>1, <1>2, <1>3 DEF Shows
<1>5. Rewritten(h, g, t, hd, m)
  BY <1>1, <1>2, <1>4 DEF HeapOK, Rewritten
<1>6. QED BY <1>5 DEF g

\* k cells from p on have come to be d.
Filled(h, g, t, hd, p, k, d) ==
  /\ HeapOK(g, t, hd) /\ g.free_list = h.free_list
  /\ \A x \in 0 .. t - 1 : g.mem[x] = IF p <= x /\ x < p + k THEN d ELSE h.mem[x]

\* memset, within a block.
LEMMA FillFacts ==
  ASSUME NEW t, NEW hd, NEW h, HeapOK(h, t, hd), NEW b \in DOMAIN hd, NEW p \in Nat, NEW k \in Int,
         b < p, p + k <= b + hd[b].size, NEW d \in Cell
  PROVE  Filled(h, memset(h, p, k, d), t, hd, p, k, d)
<1> DEFINE at(a) == IF a \in p .. p + k - 1 THEN d ELSE h.mem[a]
           m == [a \in DOMAIN h.mem |-> at(a)]
<1>1. h \in HeapsOf(t) /\ GridType(hd, t)
  BY DEF HeapOK, Shows
<1>2. t \in Nat /\ b \in Nat /\ hd[b].size \in Nat /\ b + hd[b].size <= t
  BY <1>1, GridNumbers
<1>3. DOMAIN h.mem = 0 .. t - 1 /\ \A a \in 0 .. t - 1 : h.mem[a] \in Cell
  BY <1>1 DEF HeapsOf
<1>4. memset(h, p, k, d) = [h EXCEPT !.mem = m]
  BY <1>1 DEF memset, HeapsOf
<1>5. \A a \in 0 .. t - 1 : at(a) = IF p <= a /\ a < p + k THEN d ELSE h.mem[a]
  <2>1. \A a \in 0 .. t - 1 : a \in p .. p + k - 1 <=> p <= a /\ a < p + k
    BY <1>2
  <2>2. QED BY <2>1
<1>6. \A a \in 0 .. t - 1 : at(a) \in Cell
  BY <1>3, <1>5
<1> HIDE DEF at
<1>7. m \in [0 .. t - 1 -> Cell] /\ \A a \in 0 .. t - 1 : m[a] = at(a)
  <2> DEFINE D == DOMAIN h.mem
  <2>1. m = [a \in D |-> at(a)] /\ D = 0 .. t - 1
    BY <1>3
  <2>2. \A a \in D : at(a) \in Cell
    BY <1>3, <1>6
  <2> HIDE DEF D, m
  <2>3. m \in [D -> Cell] /\ \A a \in D : m[a] = at(a)
    BY <2>1, <2>2
  <2>4. QED BY <2>1, <2>3
<1> HIDE DEF m
<1>8. ASSUME NEW x \in 0 .. t - 1, ~ (b < x /\ x < b + hd[b].size) PROVE m[x] = h.mem[x]
  <2>1. ~ (p <= x /\ x < p + k)
    BY <1>2, <1>8
  <2>2. QED BY <1>5, <1>7, <2>1
<1>9. DataOnly(h, m, t, hd, b)
  BY <1>7, <1>8 DEF DataOnly
<1>10. Rewritten(h, [h EXCEPT !.mem = m], t, hd, m)
  BY <1>9, DataWritten
<1>11. QED BY <1>4, <1>5, <1>7, <1>10 DEF Rewritten, Filled

\* k cells have come to be those from another place.
Copied(h, g, t, hd, to, from, k) ==
  /\ HeapOK(g, t, hd) /\ g.free_list = h.free_list
  /\ \A x \in 0 .. t - 1 : g.mem[x] = IF to <= x /\ x < to + k THEN h.mem[x - to + from] ELSE h.mem[x]

\* memcpy, to within a block.
LEMMA CopyFacts ==
  ASSUME NEW t, NEW hd, NEW h, HeapOK(h, t, hd), NEW b \in DOMAIN hd, NEW to \in Nat, NEW k \in Int,
         b < to, to + k <= b + hd[b].size, NEW from \in Nat, from + k <= t
  PROVE  Copied(h, memcpy(h, to, from, k), t, hd, to, from, k)
<1> DEFINE at(a) == IF a \in to .. to + k - 1 THEN h.mem[a - to + from] ELSE h.mem[a]
           m == [a \in DOMAIN h.mem |-> at(a)]
<1>1. h \in HeapsOf(t) /\ GridType(hd, t)
  BY DEF HeapOK, Shows
<1>2. t \in Nat /\ b \in Nat /\ hd[b].size \in Nat /\ b + hd[b].size <= t
  BY <1>1, GridNumbers
<1>3. DOMAIN h.mem = 0 .. t - 1 /\ \A a \in 0 .. t - 1 : h.mem[a] \in Cell
  BY <1>1 DEF HeapsOf
<1>4. memcpy(h, to, from, k) = [h EXCEPT !.mem = m]
  BY <1>1 DEF memcpy, HeapsOf
<1>5. \A a \in 0 .. t - 1 : at(a) = IF to <= a /\ a < to + k THEN h.mem[a - to + from] ELSE h.mem[a]
  <2>1. \A a \in 0 .. t - 1 : a \in to .. to + k - 1 <=> to <= a /\ a < to + k
    BY <1>2
  <2>2. QED BY <2>1
<1>6. ASSUME NEW a \in 0 .. t - 1 PROVE at(a) \in Cell
  <2>1. CASE to <= a /\ a < to + k
    <3> DEFINE y == a - to + from
    <3>1. y \in 0 .. t - 1
      BY <1>2, <2>1
    <3>2. at(a) = h.mem[y]
      BY <1>5, <2>1
    <3> HIDE DEF y, at
    <3>3. QED BY <1>3, <3>1, <3>2
  <2>2. CASE ~ (to <= a /\ a < to + k)
    BY <1>3, <1>5, <2>2
  <2>3. QED BY <2>1, <2>2
<1> HIDE DEF at
<1>7. m \in [0 .. t - 1 -> Cell] /\ \A a \in 0 .. t - 1 : m[a] = at(a)
  <2> DEFINE D == DOMAIN h.mem
  <2>1. m = [a \in D |-> at(a)] /\ D = 0 .. t - 1
    BY <1>3
  <2>2. \A a \in D : at(a) \in Cell
    BY <1>3, <1>6
  <2> HIDE DEF D, m
  <2>3. m \in [D -> Cell] /\ \A a \in D : m[a] = at(a)
    BY <2>1, <2>2
  <2>4. QED BY <2>1, <2>3
<1> HIDE DEF m
<1>8. ASSUME NEW x \in 0 .. t - 1, ~ (b < x /\ x < b + hd[b].size) PROVE m[x] = h.mem[x]
  <2>1. ~ (to <= x /\ x < to + k)
    BY <1>2, <1>8
  <2>2. QED BY <1>5, <1>7, <2>1
<1>9. DataOnly(h, m, t, hd, b)
  BY <1>7, <1>8 DEF DataOnly
<1>10. Rewritten(h, [h EXCEPT !.mem = m], t, hd, m)
  BY <1>9, DataWritten
<1>11. QED BY <1>4, <1>5, <1>7, <1>10 DEF Rewritten, Copied

-----------------------------------------------------------------------------
(* What the program holds.                                                 *)

\* The length of a sequence that is given as a function.
LEMMA LenIs ==
  ASSUME NEW S, NEW n \in Nat, NEW s \in [1 .. n -> S]
  PROVE  Len(s) = n
<1>1. s \in Seq(S)
  OBVIOUS
<1>2. DOMAIN s = 1 .. n
  OBVIOUS
<1>3. QED BY <1>1, <1>2

\* What each pointer leads to.
ContentOf(h, held) == [p \in DOMAIN held |-> [i \in 1 .. held[p] |-> h.mem[p + i - 1]]]

\* The block of a pointer, and the cells there.
LEMMA HeldBlock ==
  ASSUME NEW h, NEW held, NEW t, NEW hd, StateOK(h, held, t, hd), NEW p \in DOMAIN held
  PROVE  \E b \in Used(hd) : /\ p = b + HeaderSize /\ b \in Nat /\ b \in DOMAIN hd
                             /\ held[p] \in Nat /\ held[p] + HeaderSize <= hd[b].size
<1>1. Grid(hd, t) /\ HeldBy(hd, held)
  BY DEF StateOK, HeapOK
<1>2. PICK b \in Used(hd) : p = b + HeaderSize
  BY <1>1 DEF HeldBy
<1>3. b \in Nat /\ b \in DOMAIN hd /\ hd[b].size \in Nat
  BY <1>1, GridNumbers DEF Grid, Used
<1>4. held[p] \in Nat /\ held[p] <= hd[b].size - HeaderSize
  BY <1>1, <1>2 DEF HeldBy
<1>5. QED BY <1>2, <1>3, <1>4 DEF HeaderSize

\* Each content is a sequence of the length that was asked for.
LEMMA ContentFacts ==
  ASSUME NEW h, NEW held, NEW t, NEW hd, StateOK(h, held, t, hd)
  PROVE  /\ DOMAIN ContentOf(h, held) = DOMAIN held
         /\ \A p \in DOMAIN held : /\ Len(ContentOf(h, held)[p]) = held[p]
                                   /\ DOMAIN ContentOf(h, held)[p] = 1 .. held[p]
                                   /\ \A i \in 1 .. held[p] : ContentOf(h, held)[p][i] = h.mem[p + i - 1]
<1>1. DOMAIN ContentOf(h, held) = DOMAIN held
  BY DEF ContentOf
<1>2. ASSUME NEW p \in DOMAIN held
      PROVE  /\ Len(ContentOf(h, held)[p]) = held[p]
             /\ DOMAIN ContentOf(h, held)[p] = 1 .. held[p]
             /\ \A i \in 1 .. held[p] : ContentOf(h, held)[p][i] = h.mem[p + i - 1]
  <2> DEFINE c == [i \in 1 .. held[p] |-> h.mem[p + i - 1]]
  <2>1. ContentOf(h, held)[p] = c
    BY DEF ContentOf
  <2>2. PICK b \in Used(hd) : /\ p = b + HeaderSize /\ b \in Nat /\ b \in DOMAIN hd
                              /\ held[p] \in Nat /\ held[p] + HeaderSize <= hd[b].size
    BY HeldBlock
  <2>3. DOMAIN c = 1 .. held[p] /\ \A i \in 1 .. held[p] : c[i] = h.mem[p + i - 1]
    OBVIOUS
  <2>4. c \in [1 .. held[p] -> {c[i] : i \in 1 .. held[p]}]
    OBVIOUS
  <2> HIDE DEF c
  <2>5. Len(c) = held[p]
    BY <2>2, <2>4, LenIs
  <2>6. QED BY <2>1, <2>3, <2>5
<1>3. QED BY <1>1, <1>2

\* What is in a block that keeps its cells stays.
LEMMA ContentStays ==
  ASSUME NEW h, NEW held, NEW t, NEW hd, StateOK(h, held, t, hd), NEW g, NEW S, KeepsIn(h, g, hd, S),
         NEW now, NEW p \in DOMAIN held, p \in DOMAIN now, now[p] = held[p], p - HeaderSize \in S
  PROVE  ContentOf(g, now)[p] = ContentOf(h, held)[p]
<1>1. PICK b \in Used(hd) : /\ p = b + HeaderSize /\ b \in Nat /\ b \in DOMAIN hd
                            /\ held[p] \in Nat /\ held[p] + HeaderSize <= hd[b].size
  BY HeldBlock
<1>2. b \in S /\ hd[b].size \in Nat
  <2>1. p - HeaderSize = b
    BY <1>1 DEF HeaderSize
  <2>2. hd[b].size \in Nat
    BY <1>1, GridNumbers DEF StateOK, HeapOK, Grid
  <2>3. QED BY <2>1, <2>2
<1>3. ASSUME NEW i \in 1 .. held[p] PROVE g.mem[p + i - 1] = h.mem[p + i - 1]
  <2> DEFINE x == p + i - 1
  <2>1. x \in Nat /\ b <= x /\ x < b + hd[b].size
    BY <1>1, <1>2 DEF HeaderSize
  <2> HIDE DEF x
  <2>2. g.mem[x] = h.mem[x]
    BY <1>2, <2>1 DEF KeepsIn
  <2>3. QED BY <2>2 DEF x
<1>4. ContentOf(g, now)[p] = [i \in 1 .. held[p] |-> g.mem[p + i - 1]]
  BY DEF ContentOf
<1>5. ContentOf(h, held)[p] = [i \in 1 .. held[p] |-> h.mem[p + i - 1]]
  BY DEF ContentOf
<1>6. QED BY <1>3, <1>4, <1>5

\* What a pointer leads to is apart from what the others lead to.
LEMMA ContentApart ==
  ASSUME NEW h, NEW held, NEW t, NEW hd, StateOK(h, held, t, hd), NEW p \in DOMAIN held,
         NEW live, DOMAIN live = DOMAIN held \ {p}, \A q \in DOMAIN live : Len(live[q]) = held[q]
  PROVE  H!NewResult(live, p, held[p])
<1>1. PICK b \in Used(hd) : /\ p = b + HeaderSize /\ b \in Nat /\ b \in DOMAIN hd
                            /\ held[p] \in Nat /\ held[p] + HeaderSize <= hd[b].size
  BY HeldBlock
<1>2. Grid(hd, t) /\ hd[b].size \in Nat
  BY <1>1, GridNumbers DEF StateOK, HeapOK, Grid
<1>3. ASSUME NEW q \in DOMAIN live, NEW x, x \in H!Cells(p, held[p]), x \in H!Cells(q, held[q]) PROVE FALSE
  <2>1. q \in DOMAIN held /\ q # p
    BY <1>3
  <2>2. PICK c \in Used(hd) : /\ q = c + HeaderSize /\ c \in Nat /\ c \in DOMAIN hd
                              /\ held[q] \in Nat /\ held[q] + HeaderSize <= hd[c].size
    BY <2>1, HeldBlock
  <2>3. b # c /\ hd[c].size \in Nat
    BY <1>1, <1>2, <2>1, <2>2, GridNumbers DEF Grid
  <2>4. x \in p .. p + held[p] - 1 /\ x \in q .. q + held[q] - 1
    BY <1>3 DEF H!Cells
  <2>5. /\ held[p] \in Nat /\ held[q] \in Nat /\ p = b + 1 /\ q = c + 1
        /\ held[p] + 1 <= hd[b].size /\ held[q] + 1 <= hd[c].size
    BY <1>1, <2>2 DEF HeaderSize
  <2>6. x \in Nat /\ b <= x /\ x < b + hd[b].size
    BY <1>1, <1>2, <2>4, <2>5
  <2>7. c <= x /\ x < c + hd[c].size
    BY <2>2, <2>3, <2>4, <2>5
  <2>8. QED BY <1>1, <1>2, <2>2, <2>3, <2>6, <2>7, Apart
<1>4. QED BY <1>3 DEF H!NewResult

\* The content of a pointer leaves and that of pointer p comes, of n cells; it is apart
\* from the others, which are as they were.
Came(live, now, old, p, n) ==
  /\ DOMAIN now = (DOMAIN live \ {old}) \cup {p} /\ p \notin DOMAIN live \ {old}
  /\ \A q \in DOMAIN live \ {old} : now[q] = live[q]
  /\ Len(now[p]) = n /\ DOMAIN now[p] = 1 .. n
  /\ \A others : /\ DOMAIN others = DOMAIN live \ {old}
                 /\ \A q \in DOMAIN others : others[q] = live[q]
                 => H!NewResult(others, p, n)

\* What is held once p, of n cells, has come for old.
Moved(held, old, p, n) ==
  [q \in (DOMAIN held \ {old}) \cup {p} |-> IF q = p THEN n ELSE held[q]]

\* The block at b comes into use for the one at b0, which may be none.
Turned(h, hd, b0, g, u, gd, b) ==
  /\ HeapOK(g, u, gd)
  /\ Used(gd) = (Used(hd) \ {b0}) \cup {b} /\ b \notin Used(hd) \ {b0}
  /\ \A c \in Used(hd) \ {b0} : gd[c] = hd[c]
  /\ KeepsIn(h, g, hd, Used(hd) \ {b0})

\* So the content of one pointer leaves and that of another comes.
TurnedOK(h, held, g, now, u, gd, old, p, n) ==
  /\ StateOK(g, now, u, gd) /\ p \in DOMAIN now /\ now[p] = n
  /\ Came(ContentOf(h, held), ContentOf(g, now), old, p, n)

\* It does, where the block has room for n cells.
LEMMA TurnedFacts ==
  ASSUME NEW h, NEW held, NEW t, NEW hd, StateOK(h, held, t, hd), NEW b0 \in Int,
         NEW g, NEW u, NEW gd, NEW b, Turned(h, hd, b0, g, u, gd, b), NEW n \in Nat,
         n + HeaderSize <= gd[b].size
  PROVE  TurnedOK(h, held, g, Moved(held, b0 + HeaderSize, b + HeaderSize, n), u, gd,
                  b0 + HeaderSize, b + HeaderSize, n)
<1> DEFINE old == b0 + HeaderSize
           p   == b + HeaderSize
           now == Moved(held, old, p, n)
           live == ContentOf(h, held)
           new  == ContentOf(g, now)
<1>1. /\ HeapOK(g, u, gd) /\ Used(gd) = (Used(hd) \ {b0}) \cup {b} /\ b \notin Used(hd) \ {b0}
      /\ \A c \in Used(hd) \ {b0} : gd[c] = hd[c]
      /\ KeepsIn(h, g, hd, Used(hd) \ {b0})
  BY DEF Turned
<1>2. /\ Grid(hd, t) /\ Grid(gd, u) /\ DOMAIN held = {c + HeaderSize : c \in Used(hd)}
      /\ held \in [DOMAIN held -> Nat]
      /\ \A c \in Used(hd) : held[c + HeaderSize] <= hd[c].size - HeaderSize
  BY <1>1 DEF StateOK, HeapOK, HeldBy
<1>3. /\ \A c \in Used(hd) : c \in Nat /\ c \in DOMAIN hd
      /\ b \in Nat /\ gd[b].size \in Nat /\ b \in Used(gd)
  BY <1>1, <1>2, GridNumbers DEF Grid, Used
<1>4. \A c \in Used(hd) : (c + HeaderSize = old <=> c = b0) /\ (c + HeaderSize = p <=> c = b)
  <2>1. ASSUME NEW c \in Nat PROVE (c + HeaderSize = old <=> c = b0) /\ (c + HeaderSize = p <=> c = b)
    <3>1. b \in Nat
      BY <1>3
    <3>2. QED BY <3>1 DEF HeaderSize
  <2>2. QED BY <1>3, <2>1
<1>5. /\ DOMAIN now = (DOMAIN held \ {old}) \cup {p} /\ now[p] = n
      /\ \A q \in DOMAIN held \ {old} : q # p => now[q] = held[q]
  BY DEF Moved
<1>6. now = [q \in DOMAIN now |-> now[q]]
  BY DEF Moved
<1>7. p \notin DOMAIN held \ {old}
  <2>1. ASSUME NEW c \in Used(hd), p = c + HeaderSize, p # old PROVE FALSE
    <3>1. c = b /\ c # b0
      BY <1>4, <2>1
    <3>2. QED BY <1>1, <3>1
  <2>2. QED BY <1>2, <2>1
<1> HIDE DEF now, old, p
<1>8. HeldBy(gd, now)
  <2>1. DOMAIN now = {c + HeaderSize : c \in Used(gd)}
    <3>1. ASSUME NEW q \in DOMAIN now PROVE \E c \in Used(gd) : q = c + HeaderSize
      <4>1. CASE q = p
        BY <1>3, <4>1 DEF p
      <4>2. CASE q # p
        <5>1. PICK c \in Used(hd) : q = c + HeaderSize
          BY <1>2, <1>5, <4>2
        <5>2. c # b0
          BY <1>4, <1>5, <4>2, <5>1
        <5>3. QED BY <1>1, <5>1, <5>2
      <4>3. QED BY <4>1, <4>2
    <3>2. ASSUME NEW c \in Used(gd) PROVE c + HeaderSize \in DOMAIN now
      <4>1. CASE c = b
        BY <1>5, <4>1 DEF p
      <4>2. CASE c # b
        <5>1. c \in Used(hd) /\ c # b0
          BY <1>1, <4>2
        <5>2. c + HeaderSize \in DOMAIN held /\ c + HeaderSize # old
          BY <1>2, <1>4, <5>1
        <5>3. QED BY <1>5, <5>2
      <4>3. QED BY <4>1, <4>2
    <3>3. QED BY <3>1, <3>2
  <2>2. now \in [DOMAIN now -> Nat]
    <3>1. \A q \in DOMAIN now : now[q] \in Nat
      BY <1>2, <1>5
    <3>2. QED BY <1>6, <3>1
  <2>3. ASSUME NEW c \in Used(gd) PROVE now[c + HeaderSize] <= gd[c].size - HeaderSize
    <3>1. CASE c = b
      <4>1. now[c + HeaderSize] = n
        BY <1>5, <3>1 DEF p
      <4>2. QED BY <1>3, <3>1, <4>1 DEF HeaderSize
    <3>2. CASE c # b
      <4>1. c \in Used(hd) /\ c # b0 /\ gd[c] = hd[c]
        BY <1>1, <3>2
      <4>2. c + HeaderSize \in DOMAIN held \ {old} /\ c + HeaderSize # p
        BY <1>2, <1>4, <3>2, <4>1
      <4>3. now[c + HeaderSize] = held[c + HeaderSize]
        BY <1>5, <4>2
      <4>4. QED BY <1>2, <4>1, <4>3
    <3>3. QED BY <3>1, <3>2
  <2>4. QED BY <2>1, <2>2, <2>3 DEF HeldBy
<1>9. StateOK(g, now, u, gd)
  BY <1>1, <1>8 DEF StateOK
<1>10. /\ DOMAIN live = DOMAIN held /\ DOMAIN new = DOMAIN now
       /\ Len(new[p]) = n /\ DOMAIN new[p] = 1 .. n
       /\ \A q \in DOMAIN held : Len(live[q]) = held[q]
  BY <1>5, <1>9, ContentFacts
<1> HIDE DEF live, new
<1>11. ASSUME NEW q \in DOMAIN held \ {old} PROVE new[q] = live[q]
  <2>1. q # p /\ q \in DOMAIN now /\ now[q] = held[q]
    BY <1>5, <1>7
  <2>2. PICK c \in Used(hd) : q = c + HeaderSize
    BY <1>2
  <2>3. c # b0 /\ c \in Nat
    BY <1>3, <1>4, <2>2
  <2>4. q - HeaderSize = c
    BY <2>2, <2>3 DEF HeaderSize
  <2>5. q - HeaderSize \in Used(hd) \ {b0}
    BY <2>3, <2>4
  <2>6. q \in DOMAIN held
    OBVIOUS
  <2>7. QED BY <1>1, <2>1, <2>5, <2>6, ContentStays DEF live, new
<1>12. ASSUME NEW others, DOMAIN others = DOMAIN live \ {old},
              \A q \in DOMAIN others : others[q] = live[q]
       PROVE  H!NewResult(others, p, n)
  <2>1. DOMAIN others = DOMAIN now \ {p}
    BY <1>5, <1>7, <1>10, <1>12
  <2>2. ASSUME NEW q \in DOMAIN others PROVE Len(others[q]) = now[q]
    <3>1. q \in DOMAIN held \ {old} /\ q # p
      BY <1>7, <1>10, <1>12
    <3>2. QED BY <1>5, <1>10, <1>12, <3>1
  <2>3. p \in DOMAIN now /\ now[p] = n
    BY <1>5
  <2>4. QED BY <1>9, <2>1, <2>2, <2>3, ContentApart
<1>13. Came(live, new, old, p, n)
  BY <1>5, <1>7, <1>10, <1>11, <1>12 DEF Came
<1>14. TurnedOK(h, held, g, now, u, gd, old, p, n)
  BY <1>5, <1>9, <1>13 DEF TurnedOK, live, new
<1>15. QED BY <1>14 DEF now, old, p

\* A pointer is let go of.
LetGoOK(h, held, g, now, u, gd, p) ==
  /\ StateOK(g, now, u, gd)
  /\ ContentOf(g, now) = [q \in DOMAIN ContentOf(h, held) \ {p} |-> ContentOf(h, held)[q]]

\* A block is free that was in use, and its pointer is let go of.
LEMMA LetGoFacts ==
  ASSUME NEW h, NEW held, NEW t, NEW hd, StateOK(h, held, t, hd), NEW b \in Used(hd),
         NEW g, NEW u, NEW gd, HeapOK(g, u, gd), Used(gd) = Used(hd) \ {b},
         \A c \in Used(gd) : gd[c] = hd[c], KeepsIn(h, g, hd, Used(gd))
  PROVE  LetGoOK(h, held, g, [q \in DOMAIN held \ {b + HeaderSize} |-> held[q]], u, gd, b + HeaderSize)
<1> DEFINE p == b + HeaderSize
           now == [q \in DOMAIN held \ {p} |-> held[q]]
           live == ContentOf(h, held)
           new  == ContentOf(g, now)
<1>1. /\ Grid(hd, t) /\ DOMAIN held = {c + HeaderSize : c \in Used(hd)}
      /\ held \in [DOMAIN held -> Nat]
      /\ \A c \in Used(hd) : held[c + HeaderSize] <= hd[c].size - HeaderSize
  BY DEF StateOK, HeapOK, HeldBy
<1>2. \A c \in Used(hd) : c \in Nat /\ c \in DOMAIN hd
  BY <1>1, GridNumbers DEF Grid, Used
<1>3. \A c \in Used(hd) : c + HeaderSize = p <=> c = b
  <2>1. ASSUME NEW c \in Nat PROVE c + HeaderSize = p <=> c = b
    <3>1. b \in Nat
      BY <1>2
    <3>2. QED BY <3>1 DEF HeaderSize
  <2>2. QED BY <1>2, <2>1
<1>4. /\ DOMAIN now = DOMAIN held \ {p} /\ \A q \in DOMAIN held \ {p} : now[q] = held[q]
      /\ now \in [DOMAIN now -> Nat]
  BY <1>1
<1> HIDE DEF now, p
<1>5. HeldBy(gd, now)
  <2>1. DOMAIN now = {c + HeaderSize : c \in Used(gd)}
    BY <1>1, <1>3, <1>4
  <2>2. \A c \in Used(gd) : now[c + HeaderSize] <= gd[c].size - HeaderSize
    <3>1. ASSUME NEW c \in Used(gd) PROVE now[c + HeaderSize] <= gd[c].size - HeaderSize
      <4>1. c \in Used(hd) /\ c + HeaderSize \in DOMAIN held \ {p} /\ gd[c] = hd[c]
        BY <1>1, <1>3
      <4>2. QED BY <1>1, <1>4, <4>1
    <3>2. QED BY <3>1
  <2>3. QED BY <1>4, <2>1, <2>2 DEF HeldBy
<1>6. StateOK(g, now, u, gd)
  BY <1>5 DEF StateOK
<1>7. DOMAIN live = DOMAIN held /\ DOMAIN new = DOMAIN now /\ new = [q \in DOMAIN now |-> new[q]]
  BY DEF ContentOf
<1> HIDE DEF live, new
<1>8. ASSUME NEW q \in DOMAIN now PROVE new[q] = live[q]
  <2>1. PICK c \in Used(hd) : q = c + HeaderSize /\ c # b
    BY <1>1, <1>3, <1>4
  <2>2. q - HeaderSize = c /\ c \in Used(gd)
    BY <1>2, <2>1 DEF HeaderSize
  <2>3. q \in DOMAIN held /\ now[q] = held[q]
    BY <1>4
  <2>4. QED BY <2>2, <2>3, ContentStays DEF live, new
<1>9. new = [q \in DOMAIN live \ {p} |-> live[q]]
  BY <1>4, <1>7, <1>8
<1>10. LetGoOK(h, held, g, now, u, gd, p)
  BY <1>6, <1>9 DEF LetGoOK, live, new
<1>11. QED BY <1>10 DEF now, p

-----------------------------------------------------------------------------
(* The steps.                                                              *)

\* Where data is written, the other blocks keep what is in them.
LEMMA FilledKeeps ==
  ASSUME NEW t, NEW hd, Grid(hd, t), NEW h, NEW g, NEW p \in Nat, NEW k \in Int, NEW d,
         Filled(h, g, t, hd, p, k, d), NEW b \in DOMAIN hd, b < p, p + k <= b + hd[b].size
  PROVE  KeepsIn(h, g, hd, DOMAIN hd \ {b})
<1>1. ASSUME NEW c \in DOMAIN hd \ {b}, NEW x \in Nat, c <= x, x < c + hd[c].size
      PROVE  g.mem[x] = h.mem[x]
  <2>1. x < t /\ ~ (b <= x /\ x < b + hd[b].size)
    BY <1>1, Apart
  <2>2. b \in Nat /\ hd[b].size \in Nat /\ t \in Nat
    BY GridNumbers DEF Grid
  <2>3. x \in 0 .. t - 1 /\ ~ (p <= x /\ x < p + k)
    BY <2>1, <2>2
  <2>4. QED BY <2>3 DEF Filled
<1>2. QED BY <1>1 DEF KeepsIn

\* So they do where data is copied to.
LEMMA CopiedKeeps ==
  ASSUME NEW t, NEW hd, Grid(hd, t), NEW h, NEW g, NEW p \in Nat, NEW k \in Int, NEW from,
         Copied(h, g, t, hd, p, from, k), NEW b \in DOMAIN hd, b < p, p + k <= b + hd[b].size
  PROVE  KeepsIn(h, g, hd, DOMAIN hd \ {b})
<1>1. ASSUME NEW c \in DOMAIN hd \ {b}, NEW x \in Nat, c <= x, x < c + hd[c].size
      PROVE  g.mem[x] = h.mem[x]
  <2>1. x < t /\ ~ (b <= x /\ x < b + hd[b].size)
    BY <1>1, Apart
  <2>2. b \in Nat /\ hd[b].size \in Nat /\ t \in Nat
    BY GridNumbers DEF Grid
  <2>3. x \in 0 .. t - 1 /\ ~ (p <= x /\ x < p + k)
    BY <2>1, <2>2
  <2>4. QED BY <2>3 DEF Copied
<1>2. QED BY <1>1 DEF KeepsIn

\* A free leaves alone what is in the blocks that stay in use.
LEMMA FreedKeeps ==
  ASSUME NEW t, NEW hd, Grid(hd, t), NEW h, NEW g, NEW gd, NEW b \in Used(hd),
         FreedTo(h, hd, t, b, g, gd)
  PROVE  KeepsIn(h, g, hd, Used(gd))
<1>1. ASSUME NEW c \in Used(gd), NEW x \in Nat, c <= x, x < c + hd[c].size
      PROVE  g.mem[x] = h.mem[x]
  <2>1. c \in Used(hd) /\ c # b
    BY DEF FreedTo
  <2>2. ASSUME NEW e \in DOMAIN hd, e # c PROVE x # e /\ x < t
    <3>1. c \in DOMAIN hd
      BY <2>1 DEF Used
    <3>2. x < t /\ ~ (e <= x /\ x < e + hd[e].size)
      BY <1>1, <2>2, <3>1, Apart
    <3>3. e \in Nat /\ hd[e].size \in Nat /\ hd[e].size >= 1
      BY GridNumbers DEF Grid
    <3>4. QED BY <3>2, <3>3
  <2>3. x \notin FreeOf(hd) \cup {b} /\ x < t
    BY <2>1, <2>2 DEF Used, FreeOf
  <2>4. x \in 0 .. t - 1
    BY <2>3 DEF Grid, GridType
  <2>5. QED BY <2>3, <2>4 DEF FreedTo, SameBut
<1>2. QED BY <1>1 DEF KeepsIn

\* What two steps keep.
LEMMA KeepsTrans ==
  ASSUME NEW h, NEW k, NEW g, NEW hd, NEW gd, NEW S, NEW S1, NEW S2, KeepsIn(h, k, hd, S1),
         KeepsIn(k, g, gd, S2), S \subseteq S1, S \subseteq S2, \A c \in S : gd[c] = hd[c]
  PROVE  KeepsIn(h, g, hd, S)
BY DEF KeepsIn

\* Where the same blocks are lost, none more is.
LEMMA LostSame ==
  ASSUME NEW hd, NEW fl, NEW gd, NEW gl, SameLost(hd, fl, gd, gl)
  PROVE  LostStep(hd, fl, gd, gl)
BY DEF SameLost, LostStep

\* A step after one that loses no block.
LEMMA LostAfter ==
  ASSUME NEW hd, NEW fl, NEW kd, NEW kl, NEW gd, NEW gl, SameLost(hd, fl, kd, kl),
         LostStep(kd, kl, gd, gl)
  PROVE  LostStep(hd, fl, gd, gl)
<1>1. LostOf(kd, kl) = LostOf(hd, fl) /\ \A c \in LostOf(hd, fl) : kd[c].size = hd[c].size
  BY DEF SameLost
<1>2. QED BY <1>1 DEF LostStep

\* No pointer is NULL.
LEMMA NullNotHeld ==
  ASSUME NEW h, NEW held, NEW t, NEW hd, StateOK(h, held, t, hd)
  PROVE  NULL \notin DOMAIN held /\ NoBlock \notin DOMAIN hd
<1>1. ASSUME NULL \in DOMAIN held PROVE FALSE
  <2>1. PICK b \in Used(hd) : NULL = b + HeaderSize /\ b \in Nat
    BY <1>1, HeldBlock
  <2>2. QED BY <2>1 DEF NULL, HeaderSize
<1>2. ASSUME NoBlock \in DOMAIN hd PROVE FALSE
  <2>1. NoBlock \in Nat
    BY <1>2, GridNumbers DEF StateOK, HeapOK, Grid
  <2>2. QED BY <2>1 DEF NoBlock
<1>3. QED BY <1>1, <1>2

\* The heap and what is held after a call.
Advanced(h, hd, g, now) ==
  \E u, gd : StateOK(g, now, u, gd) /\ LostStep(hd, h.free_list, gd, g.free_list)

\* A new block comes to the program.
NewOK(h, held, hd, g, now, p, n) ==
  /\ Advanced(h, hd, g, now) /\ p \in DOMAIN now /\ now[p] = n
  /\ Came(ContentOf(h, held), ContentOf(g, now), NULL, p, n)

\* It does, when malloc has given out a block and the program has filled it.
LEMMA NewFacts ==
  ASSUME NEW h, NEW held, NEW t, NEW hd, StateOK(h, held, t, hd), NEW n \in Requests,
         NEW call, NEW b, NEW u, NEW gd, MallocTo(h, hd, find_new_alloc_size(n), call, b, u, gd),
         NEW g, HeapOK(g, u, gd), g.free_list = call.h.free_list, KeepsIn(call.h, g, gd, DOMAIN gd \ {b})
  PROVE  NewOK(h, held, hd, g, Moved(held, NULL, b + HeaderSize, n), b + HeaderSize, n)
<1>1. /\ b \notin Used(hd) /\ Used(gd) = Used(hd) \cup {b} /\ gd[b].size = find_new_alloc_size(n)
      /\ \A c \in Used(hd) : gd[c] = hd[c]
      /\ SameLost(hd, h.free_list, gd, call.h.free_list)
      /\ KeepsIn(h, call.h, hd, Used(hd))
  BY DEF MallocTo, GivenTo
<1>2. n \in Nat /\ n + HeaderSize <= gd[b].size
  BY <1>1, RequestFacts DEF HeaderSize
<1>3. NoBlock \notin Used(hd)
  BY NullNotHeld DEF Used
<1>4. KeepsIn(h, g, hd, Used(hd) \ {NoBlock})
  <2>1. Used(hd) \ {NoBlock} \subseteq Used(hd) /\ Used(hd) \ {NoBlock} \subseteq DOMAIN gd \ {b}
    BY <1>1 DEF Used
  <2> DEFINE S == Used(hd) \ {NoBlock}
             S1 == Used(hd)
             S2 == DOMAIN gd \ {b}
  <2>2. KeepsIn(h, call.h, hd, S1) /\ KeepsIn(call.h, g, gd, S2) /\ S \subseteq S1 /\ S \subseteq S2
        /\ \A c \in S : gd[c] = hd[c]
    BY <1>1, <2>1
  <2> HIDE DEF S, S1, S2
  <2>3. KeepsIn(h, g, hd, S)
    BY <2>2, KeepsTrans
  <2>4. QED BY <2>3 DEF S
<1>5. Turned(h, hd, NoBlock, g, u, gd, b)
  BY <1>1, <1>3, <1>4 DEF Turned
<1>6. NoBlock \in Int /\ NoBlock + HeaderSize = NULL
  BY DEF NoBlock, HeaderSize, NULL
<1>7. TurnedOK(h, held, g, Moved(held, NULL, b + HeaderSize, n), u, gd, NULL, b + HeaderSize, n)
  <2>1. TurnedOK(h, held, g, Moved(held, NoBlock + HeaderSize, b + HeaderSize, n), u, gd,
                 NoBlock + HeaderSize, b + HeaderSize, n)
    BY <1>2, <1>5, <1>6, TurnedFacts
  <2>2. QED BY <1>6, <2>1
<1>8. LostStep(hd, h.free_list, gd, g.free_list)
  BY <1>1, LostSame
<1>9. QED BY <1>7, <1>8 DEF TurnedOK, NewOK, Advanced

\* What is held without a pointer.
Left(held, p) == [q \in DOMAIN held \ {p} |-> held[q]]

\* Nothing is done, and NULL is let go of.
LEMMA NothingDone ==
  ASSUME NEW h, NEW held, NEW t, NEW hd, StateOK(h, held, t, hd)
  PROVE  /\ Advanced(h, hd, h, held)
         /\ Left(held, NULL) = held
<1>1. LostStep(hd, h.free_list, hd, h.free_list)
  BY DEF LostStep
<1>2. held = [q \in DOMAIN held \ {NULL} |-> held[q]]
  <2>1. held \in [DOMAIN held -> Nat]
    BY DEF StateOK, HeldBy
  <2>2. DOMAIN held \ {NULL} = DOMAIN held
    BY NullNotHeld
  <2>3. QED BY <2>1, <2>2
<1>3. QED BY <1>1, <1>2 DEF Advanced, Left

\* What the program does with the result of a call (Gets).
GetsOf(h, held, call, p, n, first, g, now) ==
  IF call.ptr = NULL THEN g = call.h /\ now = Left(held, p)
  ELSE g = memset(call.h, call.ptr + first, n - first, Written) /\ now = Moved(held, p, call.ptr, n)

\* That is Gets.
LEMMA GetsIs ==
  ASSUME NEW CONSTANT call, NEW CONSTANT p, NEW CONSTANT n, NEW CONSTANT first
  PROVE  Gets(call, p, n, first) => GetsOf(heap, sizes, call, p, n, first, heap', sizes')
<1>1. LetGo(p) = [q \in DOMAIN sizes \ {p} |-> sizes[q]]
  BY DEF LetGo, Held
<1> DEFINE others == LetGo(p)
           now == [q \in DOMAIN others \cup {call.ptr} |-> IF q = call.ptr THEN n ELSE others[q]]
<1>2. now = Moved(sizes, p, call.ptr, n)
  <2>1. DOMAIN others = DOMAIN sizes \ {p} /\ \A q \in DOMAIN sizes \ {p} : others[q] = sizes[q]
    BY <1>1
  <2> HIDE DEF others
  <2>2. QED BY <2>1 DEF Moved
<1>3. QED BY <1>1, <1>2 DEF Gets, GetsOf, Left

\* The content that malloc and calloc come to.
NewContent(live, new, zeroed) ==
  \/ new = live
  \/ \E p, n : /\ NULL \notin DOMAIN live /\ Came(live, new, NULL, p, n)
               /\ zeroed => \A i \in 1 .. n : new[p][i] = Zero

\* What malloc returns has two parts.
LEMMA MallocRecord ==
  ASSUME NEW h, NEW n
  PROVE  malloc(h, n) = [h |-> malloc(h, n).h, ptr |-> malloc(h, n).ptr]
<1> DEFINE size  == find_new_alloc_size(n)
           found == block_available(h, size)
           got   == IF found = NoBlock THEN allocate_new_space(h, size)
                    ELSE [h |-> split_block(h, found, size), block |-> found]
           taken == unlist(set_occupy(got.h, got.block, TRUE), got.block)
<1>1. malloc(h, n) = IF n = 0 THEN [h |-> h, ptr |-> NULL]
                     ELSE IF found # NoBlock /\ SizeOf(got.h, got.block) # size
                       THEN [h |-> got.h, ptr |-> NULL]
                     ELSE [h |-> taken, ptr |-> got.block + HeaderSize]
  BY DEF malloc
<1> HIDE DEF got, taken, size
<1>2. QED BY <1>1

\* malloc, and what the program does with its result.
LEMMA MallocStep ==
  ASSUME NEW h, NEW held, NEW t, NEW hd, StateOK(h, held, t, hd), NEW n \in Requests, NEW g, NEW now,
         GetsOf(h, held, malloc(h, n), NULL, n, 0, g, now)
  PROVE  Advanced(h, hd, g, now) /\ NewContent(ContentOf(h, held), ContentOf(g, now), FALSE)
<1> DEFINE call == malloc(h, n)
<1>1. HeapOK(h, t, hd)
  BY DEF StateOK
<1>2. IF n = 0 THEN call = [h |-> h, ptr |-> NULL]
      ELSE \E b, u, gd : MallocTo(h, hd, find_new_alloc_size(n), call, b, u, gd)
  BY <1>1, MallocFacts
<1> HIDE DEF call
<1>3. CASE n = 0
  <2>1. call.h = h /\ call.ptr = NULL
    BY <1>2, <1>3
  <2>2. Advanced(h, hd, h, held) /\ Left(held, NULL) = held
    BY NothingDone
  <2>3. g = h /\ now = held
    BY <2>1, <2>2 DEF GetsOf, call
  <2>4. QED BY <2>2, <2>3 DEF NewContent
<1>4. CASE n # 0
  <2>1. PICK b, u, gd : MallocTo(h, hd, find_new_alloc_size(n), call, b, u, gd)
    BY <1>2, <1>4
  <2>2. /\ call.ptr = b + HeaderSize /\ HeapOK(call.h, u, gd) /\ b \in DOMAIN gd
        /\ gd[b].size = find_new_alloc_size(n) /\ Grid(gd, u)
    BY <2>1 DEF MallocTo, GivenTo, Used, HeapOK
  <2>3. b \in Nat /\ gd[b].size \in Nat /\ n \in Nat /\ gd[b].size >= n + HeaderSize
    <3>1. b \in Nat /\ gd[b].size \in Nat
      BY <2>2, GridNumbers DEF Grid
    <3>2. QED BY <2>2, <3>1, RequestFacts
  <2> DEFINE p == b + HeaderSize
  <2>4. p \in Nat /\ b < p /\ p + n <= b + gd[b].size /\ p # NULL /\ p + 0 = p /\ n - 0 = n
    BY <2>3 DEF HeaderSize, NULL
  <2>5. call.ptr = p
    BY <2>2
  <2> HIDE DEF p
  <2>6. g = memset(call.h, p, n, Written) /\ now = Moved(held, NULL, p, n)
    BY <2>4, <2>5 DEF GetsOf, call
  <2>7. Filled(call.h, g, u, gd, p, n, Written)
    BY <2>2, <2>3, <2>4, <2>6, FillFacts DEF Cell, Data
  <2>8. HeapOK(g, u, gd) /\ g.free_list = call.h.free_list
    BY <2>7 DEF Filled
  <2>9. KeepsIn(call.h, g, gd, DOMAIN gd \ {b})
    BY <2>2, <2>3, <2>4, <2>7, FilledKeeps
  <2>10. NewOK(h, held, hd, g, now, p, n)
    BY <2>1, <2>6, <2>8, <2>9, NewFacts DEF p
  <2>11. NULL \notin DOMAIN ContentOf(h, held)
    BY NullNotHeld, ContentFacts
  <2>12. QED BY <2>10, <2>11 DEF NewOK, NewContent
<1>5. QED BY <1>3, <1>4

\* calloc, likewise: the program fills nothing.
LEMMA CallocStep ==
  ASSUME NEW h, NEW held, NEW t, NEW hd, StateOK(h, held, t, hd), NEW n \in Requests, NEW g, NEW now,
         GetsOf(h, held, calloc(h, n), NULL, n, n, g, now)
  PROVE  Advanced(h, hd, g, now) /\ NewContent(ContentOf(h, held), ContentOf(g, now), TRUE)
<1> DEFINE call == malloc(h, n)
           zero == calloc(h, n)
<1>1. HeapOK(h, t, hd)
  BY DEF StateOK
<1>2. IF n = 0 THEN call = [h |-> h, ptr |-> NULL]
      ELSE \E b, u, gd : MallocTo(h, hd, find_new_alloc_size(n), call, b, u, gd)
  BY <1>1, MallocFacts
<1>3. zero = IF call.ptr = NULL THEN call ELSE [call EXCEPT !.h = memset(@, call.ptr, n, Zero)]
  BY DEF calloc
<1>4. CASE n = 0
  <2>1. zero = [h |-> h, ptr |-> NULL]
    BY <1>2, <1>3, <1>4
  <2> HIDE DEF call, zero
  <2>2. zero.h = h /\ zero.ptr = NULL
    BY <2>1
  <2>3. Advanced(h, hd, h, held) /\ Left(held, NULL) = held
    BY NothingDone
  <2>4. g = h /\ now = held
    BY <2>2, <2>3 DEF GetsOf, zero
  <2>5. QED BY <2>3, <2>4 DEF NewContent
<1>5. CASE n # 0
  <2>1. PICK b, u, gd : MallocTo(h, hd, find_new_alloc_size(n), call, b, u, gd)
    BY <1>2, <1>5
  <2>2. /\ call.ptr = b + HeaderSize /\ HeapOK(call.h, u, gd) /\ b \in DOMAIN gd
        /\ gd[b].size = find_new_alloc_size(n) /\ Grid(gd, u)
    BY <2>1 DEF MallocTo, GivenTo, Used, HeapOK
  <2>3. b \in Nat /\ gd[b].size \in Nat /\ n \in Nat /\ gd[b].size >= n + HeaderSize
        /\ u \in Nat /\ b + gd[b].size <= u
    <3>1. b \in Nat /\ gd[b].size \in Nat /\ u \in Nat /\ b + gd[b].size <= u
      BY <2>2, GridNumbers DEF Grid
    <3>2. QED BY <2>2, <3>1, RequestFacts
  <2> DEFINE p == b + HeaderSize
             k == memset(call.h, p, n, Zero)
  <2>4. p \in Nat /\ b < p /\ p + n <= b + gd[b].size /\ p # NULL /\ n - n = 0
        /\ p + n \in Nat /\ b < p + n /\ (p + n) + 0 <= b + gd[b].size
    BY <2>3 DEF HeaderSize, NULL
  <2>5. call.ptr = p
    BY <2>2
  <2> HIDE DEF p
  <2>6. zero.ptr = p /\ zero.h = k
    <3>1. call = [h |-> call.h, ptr |-> call.ptr]
      BY MallocRecord
    <3> HIDE DEF call
    <3>2. zero = [call EXCEPT !.h = memset(@, call.ptr, n, Zero)]
      BY <1>3, <2>4, <2>5
    <3> HIDE DEF zero
    <3>3. QED BY <2>5, <3>1, <3>2
  <2> HIDE DEF call, zero, k
  <2>7. g = memset(k, p + n, 0, Written) /\ now = Moved(held, NULL, p, n)
    BY <2>4, <2>6 DEF GetsOf, zero
  <2>8. Filled(call.h, k, u, gd, p, n, Zero)
    BY <2>2, <2>3, <2>4, FillFacts DEF Cell, Data, k
  <2>9. HeapOK(k, u, gd) /\ k.free_list = call.h.free_list
    BY <2>8 DEF Filled
  <2>10. Filled(k, g, u, gd, p + n, 0, Written)
    BY <2>2, <2>3, <2>4, <2>7, <2>9, FillFacts DEF Cell, Data
  <2>11. HeapOK(g, u, gd) /\ g.free_list = call.h.free_list
    BY <2>9, <2>10 DEF Filled
  <2>12. KeepsIn(call.h, g, gd, DOMAIN gd \ {b})
    <3> DEFINE S == DOMAIN gd \ {b}
    <3>1. KeepsIn(call.h, k, gd, S) 
      BY <2>2, <2>3, <2>4, <2>8, FilledKeeps
    <3>2. KeepsIn(k, g, gd, S)
      BY <2>2, <2>3, <2>4, <2>10, FilledKeeps
    <3> HIDE DEF S
    <3>3. KeepsIn(call.h, g, gd, S)
      BY <3>1, <3>2, KeepsTrans
    <3>4. QED BY <3>3 DEF S
  <2>13. NewOK(h, held, hd, g, now, p, n)
    BY <2>1, <2>7, <2>11, <2>12, NewFacts DEF p
  <2>14. NULL \notin DOMAIN ContentOf(h, held)
    BY NullNotHeld, ContentFacts
  <2>15. ASSUME NEW i \in 1 .. n PROVE ContentOf(g, now)[p][i] = Zero
    <3> DEFINE x == p + i - 1
    <3>1. ContentOf(g, now)[p][i] = g.mem[x]
      BY <2>13 DEF NewOK, ContentOf
    <3>2. x \in 0 .. u - 1 /\ p <= x /\ x < p + n /\ ~ (p + n <= x /\ x < p + n + 0)
      BY <2>3, <2>4
    <3> HIDE DEF x
    <3>3. k.mem[x] = Zero
      BY <2>8, <3>2 DEF Filled
    <3>4. g.mem[x] = k.mem[x]
      BY <2>10, <3>2 DEF Filled
    <3>5. QED BY <3>1, <3>3, <3>4
  <2>16. QED BY <2>13, <2>14, <2>15 DEF NewOK, NewContent
<1>6. QED BY <1>4, <1>5

-----------------------------------------------------------------------------
\* A pointer is let go of, and what the other pointers lead to stays.
FreedOK(h, held, hd, g, now, p) ==
  Advanced(h, hd, g, now) /\ ContentOf(g, now) = Left(ContentOf(h, held), p)

\* free, where what is in the block has been written over.
LEMMA FreeAfter ==
  ASSUME NEW h, NEW held, NEW t, NEW hd, StateOK(h, held, t, hd), NEW b \in Used(hd),
         NEW k, HeapOK(k, t, hd), k.free_list = h.free_list, KeepsIn(h, k, hd, DOMAIN hd \ {b})
  PROVE  \/ Astray(free(k, b + HeaderSize))
         \/ FreedOK(h, held, hd, free(k, b + HeaderSize), Left(held, b + HeaderSize), b + HeaderSize)
<1> DEFINE p == b + HeaderSize
           g == free(k, p)
<1> SUFFICES ASSUME ~ Astray(g)
             PROVE  FreedOK(h, held, hd, g, Left(held, p), p)
  OBVIOUS
<1>1. PICK gd : FreedTo(k, hd, t, b, g, gd)
  BY FreeFacts
<1> HIDE DEF g, p
<1>2. /\ HeapOK(g, t, gd) /\ Used(gd) = Used(hd) \ {b} /\ \A c \in Used(gd) : gd[c] = hd[c]
      /\ LostStep(hd, k.free_list, gd, g.free_list)
  BY <1>1 DEF FreedTo
<1>3. KeepsIn(h, g, hd, Used(gd))
  <2> DEFINE S == Used(gd)
             S1 == DOMAIN hd \ {b}
  <2>1. KeepsIn(k, g, hd, S) /\ KeepsIn(h, k, hd, S1) /\ S \subseteq S1 /\ S \subseteq S
        /\ \A c \in S : hd[c] = hd[c]
    <3>1. Grid(hd, t)
      BY DEF StateOK, HeapOK
    <3>2. KeepsIn(k, g, hd, S)
      BY <1>1, <3>1, FreedKeeps
    <3>3. QED BY <1>2, <3>2 DEF Used
  <2> HIDE DEF S, S1
  <2>2. KeepsIn(h, g, hd, S)
    BY <2>1, KeepsTrans
  <2>3. QED BY <2>2 DEF S
<1>4. LetGoOK(h, held, g, Left(held, p), t, gd, p)
  BY <1>2, <1>3, LetGoFacts DEF p, Left
<1>5. StateOK(g, Left(held, p), t, gd) /\ ContentOf(g, Left(held, p)) = Left(ContentOf(h, held), p)
  BY <1>4 DEF LetGoOK, Left
<1>6. FreedOK(h, held, hd, g, Left(held, p), p)
  BY <1>2, <1>5 DEF FreedOK, Advanced
<1>7. QED BY <1>6

\* The content that free comes to.
GoneContent(live, new) == new = live \/ \E p \in DOMAIN live : new = Left(live, p)

\* free, of a pointer whose data is not looked at again, or of NULL.
LEMMA FreeStep ==
  ASSUME NEW h, NEW held, NEW t, NEW hd, StateOK(h, held, t, hd),
         NEW p \in DOMAIN held \cup {NULL}, NEW n, n = IF p = NULL THEN 0 ELSE held[p]
  PROVE  \/ Astray(free(memset(h, p, n, Junk), p))
         \/ /\ Advanced(h, hd, free(memset(h, p, n, Junk), p), Left(held, p))
            /\ GoneContent(ContentOf(h, held), ContentOf(free(memset(h, p, n, Junk), p), Left(held, p)))
<1> DEFINE k == memset(h, p, n, Junk)
<1> SUFFICES ASSUME ~ Astray(free(k, p))
             PROVE  /\ Advanced(h, hd, free(k, p), Left(held, p))
                    /\ GoneContent(ContentOf(h, held), ContentOf(free(k, p), Left(held, p)))
  OBVIOUS
<1>1. CASE p = NULL
  <2>1. k = h
    <3>1. h \in HeapsOf(t)
      BY DEF StateOK, HeapOK, Shows
    <3>2. h.mem = [a \in DOMAIN h.mem |-> IF a \in NULL .. NULL + 0 - 1 THEN Junk ELSE h.mem[a]]
      BY <3>1 DEF HeapsOf, NULL
    <3>3. h = [h EXCEPT !.mem = h.mem]
      BY <3>1 DEF HeapsOf
    <3>4. n = 0
      BY <1>1
    <3>5. QED BY <1>1, <3>2, <3>3, <3>4 DEF memset
  <2> HIDE DEF k
  <2>2. free(k, p) = h
    BY <1>1, <2>1 DEF free
  <2>3. Advanced(h, hd, h, held) /\ Left(held, NULL) = held
    BY NothingDone
  <2>4. Advanced(h, hd, free(k, p), Left(held, p))
        /\ GoneContent(ContentOf(h, held), ContentOf(free(k, p), Left(held, p)))
    BY <1>1, <2>2, <2>3 DEF GoneContent
  <2>5. QED BY <2>4
<1>2. CASE p # NULL
  <2>1. PICK b \in Used(hd) : /\ p = b + HeaderSize /\ b \in Nat /\ b \in DOMAIN hd
                              /\ held[p] \in Nat /\ held[p] + HeaderSize <= hd[b].size
    BY <1>2, HeldBlock
  <2>2. HeapOK(h, t, hd) /\ Grid(hd, t) /\ hd[b].size \in Nat
    <3>1. HeapOK(h, t, hd) /\ Grid(hd, t)
      BY DEF StateOK, HeapOK
    <3>2. QED BY <2>1, <3>1, GridNumbers DEF Grid
  <2>3. p \in Nat /\ n \in Int /\ b < p /\ p + n <= b + hd[b].size
    BY <1>2, <2>1, <2>2 DEF HeaderSize
  <2>4. Filled(h, k, t, hd, p, n, Junk)
    BY <2>1, <2>2, <2>3, FillFacts DEF Cell, Data
  <2> HIDE DEF k
  <2>5. HeapOK(k, t, hd) /\ k.free_list = h.free_list
    BY <2>4 DEF Filled
  <2>6. KeepsIn(h, k, hd, DOMAIN hd \ {b})
    BY <2>1, <2>2, <2>3, <2>4, FilledKeeps
  <2>7. FreedOK(h, held, hd, free(k, p), Left(held, p), p)
    BY <2>1, <2>5, <2>6, FreeAfter
  <2>8. p \in DOMAIN ContentOf(h, held)
    BY <1>2, ContentFacts
  <2>9. Advanced(h, hd, free(k, p), Left(held, p))
        /\ GoneContent(ContentOf(h, held), ContentOf(free(k, p), Left(held, p)))
    BY <2>7, <2>8 DEF FreedOK, GoneContent
  <2>10. QED BY <2>9
<1>3. QED BY <1>1, <1>2

\* The content that realloc comes to where the block stays or moves.
KeptContent(live, new) ==
  \E p, q, n : /\ p \in DOMAIN live /\ Came(live, new, p, q, n)
               /\ \A i \in DOMAIN live[p] \cap DOMAIN new[q] : new[q][i] = live[p][i]

\* The cells that both the old and the new size have are those of before.
SameCells(h, g, p, q, m) == \A i \in 1 .. m : g.mem[q + i - 1] = h.mem[p + i - 1]

\* The cells that two sizes have in common.
LEMMA SmallerIs ==
  ASSUME NEW m \in Nat, NEW n \in Nat
  PROVE  /\ Smaller(n, m) \in Nat /\ Smaller(n, m) <= m /\ Smaller(n, m) <= n
         /\ \A i \in (1 .. m) \cap (1 .. n) : i \in 1 .. Smaller(n, m)
BY DEF Smaller

\* Where they are, realloc has kept the content.
LEMMA KeptFacts ==
  ASSUME NEW h, NEW held, NEW t, NEW hd, StateOK(h, held, t, hd), NEW p \in DOMAIN held,
         NEW g, NEW now, NEW u, NEW gd, NEW q, NEW n \in Nat, TurnedOK(h, held, g, now, u, gd, p, q, n),
         SameCells(h, g, p, q, Smaller(n, held[p]))
  PROVE  KeptContent(ContentOf(h, held), ContentOf(g, now))
<1> DEFINE live == ContentOf(h, held)
           new  == ContentOf(g, now)
<1>1. /\ held[p] \in Nat /\ p \in DOMAIN live /\ DOMAIN live[p] = 1 .. held[p]
      /\ \A i \in 1 .. held[p] : live[p][i] = h.mem[p + i - 1]
  BY ContentFacts DEF StateOK, HeldBy
<1>2. /\ q \in DOMAIN now /\ now[q] = n /\ Came(live, new, p, q, n) /\ StateOK(g, now, u, gd)
  BY DEF TurnedOK
<1>3. DOMAIN new[q] = 1 .. n /\ \A i \in 1 .. n : new[q][i] = g.mem[q + i - 1]
  BY <1>2, ContentFacts
<1> HIDE DEF live, new
<1>4. ASSUME NEW i \in DOMAIN live[p] \cap DOMAIN new[q] PROVE new[q][i] = live[p][i]
  <2>1. i \in 1 .. held[p] /\ i \in 1 .. n
    BY <1>1, <1>3
  <2>2. i \in 1 .. Smaller(n, held[p])
    BY <1>1, <2>1, SmallerIs
  <2>3. g.mem[q + i - 1] = h.mem[p + i - 1]
    BY <2>2 DEF SameCells
  <2>4. QED BY <1>1, <1>3, <2>1, <2>3
<1>5. KeptContent(live, new)
  BY <1>1, <1>2, <1>4 DEF KeptContent
<1>6. QED BY <1>5 DEF live, new

\* realloc, where the block is large enough.
LEMMA InPlaceStep ==
  ASSUME NEW h, NEW held, NEW t, NEW hd, StateOK(h, held, t, hd), NEW p \in DOMAIN held,
         NEW n \in Nat, SizeOf(h, p - HeaderSize) >= n + HeaderSize, NEW g, NEW now,
         GetsOf(h, held, [h |-> h, ptr |-> p], p, n, Smaller(n, held[p]), g, now)
  PROVE  Advanced(h, hd, g, now) /\ KeptContent(ContentOf(h, held), ContentOf(g, now))
<1> DEFINE first == Smaller(n, held[p])
           to    == p + first
           k     == n - first
<1>1. PICK b \in Used(hd) : /\ p = b + HeaderSize /\ b \in Nat /\ b \in DOMAIN hd
                            /\ held[p] \in Nat /\ held[p] + HeaderSize <= hd[b].size
  BY HeldBlock
<1>2. HeapOK(h, t, hd) /\ Grid(hd, t) /\ Shows(h, t, hd)
  BY DEF StateOK, HeapOK
<1>3. hd[b].size \in Nat /\ b + hd[b].size <= t /\ t \in Nat
  BY <1>1, <1>2, GridNumbers DEF Grid
<1>4. SizeOf(h, p - HeaderSize) = hd[b].size
  <2>1. p - HeaderSize = b
    BY <1>1 DEF HeaderSize
  <2>2. QED BY <1>1, <1>2, <2>1, HeaderIs
<1>5. first \in Nat /\ first <= n /\ first <= held[p]
  BY <1>1, SmallerIs
<1> HIDE DEF first
<1>6. /\ p \in Nat /\ p # NULL /\ to \in Nat /\ k \in Int /\ b < to /\ to + k <= b + hd[b].size
      /\ to + k = p + n
  BY <1>1, <1>3, <1>4, <1>5 DEF HeaderSize, NULL
<1> HIDE DEF to, k
<1>7. g = memset(h, to, k, Written) /\ now = Moved(held, p, p, n)
  BY <1>6 DEF GetsOf, first, to, k
<1>8. Filled(h, g, t, hd, to, k, Written)
  BY <1>1, <1>2, <1>6, <1>7, FillFacts DEF Cell, Data
<1>9. HeapOK(g, t, hd) /\ g.free_list = h.free_list
  BY <1>8 DEF Filled
<1>10. KeepsIn(h, g, hd, DOMAIN hd \ {b})
  BY <1>1, <1>2, <1>6, <1>8, FilledKeeps
<1>11. Turned(h, hd, b, g, t, hd, b)
  <2>1. KeepsIn(h, g, hd, Used(hd) \ {b})
    BY <1>10 DEF KeepsIn, Used
  <2>2. QED BY <1>9, <2>1 DEF Turned
<1>12. TurnedOK(h, held, g, now, t, hd, p, p, n)
  <2>1. n + HeaderSize <= hd[b].size
    BY <1>3, <1>4 DEF HeaderSize
  <2>2. b \in Int
    BY <1>1
  <2>3. TurnedOK(h, held, g, Moved(held, b + HeaderSize, b + HeaderSize, n), t, hd,
                 b + HeaderSize, b + HeaderSize, n)
    BY <1>11, <2>1, <2>2, TurnedFacts
  <2>4. QED BY <1>1, <1>7, <2>3
<1>13. SameCells(h, g, p, p, first)
  <2>1. ASSUME NEW i \in 1 .. first PROVE g.mem[p + i - 1] = h.mem[p + i - 1]
    <3> DEFINE x == p + i - 1
    <3>1. x \in 0 .. t - 1 /\ ~ (to <= x /\ x < to + k)
      BY <1>1, <1>3, <1>5, <1>6 DEF to, HeaderSize
    <3> HIDE DEF x
    <3>2. g.mem[x] = h.mem[x]
      BY <1>8, <3>1 DEF Filled
    <3>3. QED BY <3>2 DEF x
  <2>2. QED BY <2>1 DEF SameCells
<1>14. KeptContent(ContentOf(h, held), ContentOf(g, now))
  BY <1>12, <1>13, KeptFacts DEF first
<1>15. Advanced(h, hd, g, now)
  <2>1. StateOK(g, now, t, hd)
    BY <1>12 DEF TurnedOK
  <2>2. LostStep(hd, h.free_list, hd, g.free_list)
    BY <1>9 DEF LostStep
  <2>3. QED BY <2>1, <2>2 DEF Advanced
<1>16. QED BY <1>14, <1>15

\* realloc, where a larger block is taken and the old one is freed.
LEMMA MoveStep ==
  ASSUME NEW h, NEW held, NEW t, NEW hd, StateOK(h, held, t, hd),
         NEW p \in DOMAIN held, NEW n \in Requests, SizeOf(h, p - HeaderSize) < find_new_alloc_size(n),
         NEW new, NEW c, NEW u, NEW gd, MallocTo(h, hd, find_new_alloc_size(n), new, c, u, gd),
         NEW f, f = free(memcpy(new.h, new.ptr, p, SizeOf(h, p - HeaderSize) - HeaderSize), p),
         NEW g, NEW now, GetsOf(h, held, [h |-> f, ptr |-> new.ptr], p, n, Smaller(n, held[p]), g, now)
  PROVE  \/ Astray(f)
         \/ Advanced(h, hd, g, now) /\ KeptContent(ContentOf(h, held), ContentOf(g, now))
<1> SUFFICES ASSUME ~ Astray(f)
             PROVE  Advanced(h, hd, g, now) /\ KeptContent(ContentOf(h, held), ContentOf(g, now))
  OBVIOUS
<1> DEFINE size  == find_new_alloc_size(n)
           old   == SizeOf(h, p - HeaderSize)
           m     == old - HeaderSize
           q     == c + HeaderSize
           copy  == memcpy(new.h, q, p, m)
           first == Smaller(n, held[p])
           to    == q + first
           k     == n - first
<1>1. PICK b \in Used(hd) : /\ p = b + HeaderSize /\ b \in Nat /\ b \in DOMAIN hd
                            /\ held[p] \in Nat /\ held[p] + HeaderSize <= hd[b].size
  BY HeldBlock
<1>2. HeapOK(h, t, hd) /\ Grid(hd, t) /\ Shows(h, t, hd)
  BY DEF StateOK, HeapOK
<1>3. /\ new.ptr = q /\ HeapOK(new.h, u, gd) /\ Grid(gd, u)
      /\ c \notin Used(hd) /\ Used(gd) = Used(hd) \cup {c} /\ gd[c].size = size
      /\ \A e \in Used(hd) : gd[e] = hd[e]
      /\ SameLost(hd, h.free_list, gd, new.h.free_list)
      /\ KeepsIn(h, new.h, hd, Used(hd))
  BY DEF MallocTo, GivenTo, HeapOK
<1>4. old = hd[b].size
  <2>1. p - HeaderSize = b
    BY <1>1 DEF HeaderSize
  <2>2. QED BY <1>1, <1>2, <2>1, HeaderIs
<1>5. n \in Nat /\ size >= n + HeaderSize
  BY RequestFacts
<1>6. /\ b \in DOMAIN gd /\ b \in Used(gd) /\ gd[b] = hd[b] /\ b # c
      /\ c \in Used(gd) /\ c \in DOMAIN gd
  BY <1>1, <1>3 DEF Used
<1>7. /\ b \in Nat /\ c \in Nat /\ u \in Nat /\ hd[b].size \in Nat /\ gd[c].size \in Nat
      /\ c + gd[c].size <= u /\ b + hd[b].size <= u /\ hd[b].size < gd[c].size
  <2>1. b \in Nat /\ u \in Nat /\ gd[b].size \in Nat /\ b + gd[b].size <= u
    BY <1>3, <1>6, GridNumbers DEF Grid
  <2>2. c \in Nat /\ gd[c].size \in Nat /\ c + gd[c].size <= u
    BY <1>3, <1>6, GridNumbers DEF Grid
  <2>3. hd[b].size < gd[c].size
    BY <1>3, <1>4
  <2>4. QED BY <1>6, <2>1, <2>2, <2>3
<1>8. first \in Nat /\ first <= n /\ first <= held[p]
  BY <1>1, <1>5, SmallerIs
<1>9. n + HeaderSize <= gd[c].size
  BY <1>3, <1>5
<1> HIDE DEF first, size, old
<1>10. /\ p \in Nat /\ p = b + 1 /\ q \in Nat /\ q = c + 1 /\ q # NULL
       /\ m \in Int /\ m = hd[b].size - 1 /\ c < q /\ q + m <= c + gd[c].size /\ p + m <= u
  BY <1>1, <1>4, <1>7 DEF HeaderSize, NULL
<1>11. held[p] <= m
  BY <1>1, <1>4, <1>7 DEF HeaderSize
<1> HIDE DEF q, m
<1>12. /\ to \in Nat /\ k \in Int /\ c < to /\ to + k <= c + gd[c].size /\ to = q + first
  BY <1>5, <1>7, <1>8, <1>9, <1>10 DEF HeaderSize
<1> HIDE DEF to, k
<1>13. Copied(new.h, copy, u, gd, q, p, m)
  BY <1>3, <1>6, <1>10, CopyFacts
<1>14. f = free(copy, b + HeaderSize)
  BY <1>1, <1>3 DEF old, m
<1> HIDE DEF copy
<1>15. HeapOK(copy, u, gd) /\ copy.free_list = new.h.free_list
  BY <1>13 DEF Copied
<1>16. PICK kd : FreedTo(copy, gd, u, b, f, kd)
  BY <1>6, <1>14, <1>15, FreeFacts
<1>17. /\ HeapOK(f, u, kd) /\ Grid(kd, u) /\ Used(kd) = Used(gd) \ {b}
       /\ \A e \in Used(kd) : kd[e] = gd[e]
       /\ LostStep(gd, copy.free_list, kd, f.free_list)
  BY <1>16 DEF FreedTo, HeapOK
<1>18. c \in Used(kd) /\ c \in DOMAIN kd /\ kd[c] = gd[c]
  BY <1>6, <1>17 DEF Used
<1>19. g = memset(f, to, k, Written) /\ now = Moved(held, p, q, n)
  <2>1. [h |-> f, ptr |-> new.ptr].ptr = q /\ [h |-> f, ptr |-> new.ptr].h = f
    BY <1>3
  <2>2. QED BY <1>10, <2>1 DEF GetsOf, first, to, k
<1>20. Filled(f, g, u, kd, to, k, Written)
  BY <1>12, <1>17, <1>18, <1>19, FillFacts DEF Cell, Data
<1>21. HeapOK(g, u, kd) /\ g.free_list = f.free_list
  BY <1>20 DEF Filled
<1>22. /\ KeepsIn(new.h, copy, gd, DOMAIN gd \ {c}) /\ KeepsIn(copy, f, gd, Used(kd))
       /\ KeepsIn(f, g, kd, DOMAIN kd \ {c})
  <2>1. KeepsIn(new.h, copy, gd, DOMAIN gd \ {c})
    BY <1>3, <1>6, <1>10, <1>13, CopiedKeeps
  <2>2. KeepsIn(copy, f, gd, Used(kd))
    BY <1>3, <1>6, <1>16, FreedKeeps
  <2>3. KeepsIn(f, g, kd, DOMAIN kd \ {c})
    BY <1>12, <1>17, <1>18, <1>20, FilledKeeps
  <2>4. QED BY <2>1, <2>2, <2>3
<1>23. KeepsIn(h, g, hd, Used(hd) \ {b})
  <2> DEFINE S  == Used(hd) \ {b}
             S1 == Used(hd)
             S2 == DOMAIN gd \ {c}
             S3 == Used(kd)
             S4 == DOMAIN kd \ {c}
  <2>1. S \subseteq S1 /\ S \subseteq S2 /\ S \subseteq S3 /\ S \subseteq S4 /\ S \subseteq S
    BY <1>3, <1>17 DEF Used
  <2>2. (\A e \in S : gd[e] = hd[e]) /\ \A e \in S : kd[e] = hd[e]
    BY <1>3, <1>17
  <2>3. KeepsIn(h, new.h, hd, S1) /\ KeepsIn(new.h, copy, gd, S2) /\ KeepsIn(copy, f, gd, S3)
        /\ KeepsIn(f, g, kd, S4)
    BY <1>3, <1>22
  <2> HIDE DEF S, S1, S2, S3, S4
  <2>4. KeepsIn(h, copy, hd, S)
    BY <2>1, <2>2, <2>3, KeepsTrans
  <2>5. KeepsIn(h, f, hd, S)
    BY <2>1, <2>2, <2>3, <2>4, KeepsTrans
  <2>6. KeepsIn(h, g, hd, S)
    BY <2>1, <2>2, <2>3, <2>5, KeepsTrans
  <2>7. QED BY <2>6 DEF S
<1>24. Turned(h, hd, b, g, u, kd, c)
  <2>1. Used(kd) = (Used(hd) \ {b}) \cup {c} /\ c \notin Used(hd) \ {b}
    BY <1>3, <1>6, <1>17
  <2>2. \A e \in Used(hd) \ {b} : kd[e] = hd[e]
    BY <1>3, <1>17
  <2>3. QED BY <1>21, <1>23, <2>1, <2>2 DEF Turned
<1>25. TurnedOK(h, held, g, now, u, kd, p, q, n)
  <2>1. n + HeaderSize <= kd[c].size /\ b \in Int
    BY <1>7, <1>9, <1>18
  <2>2. TurnedOK(h, held, g, Moved(held, b + HeaderSize, c + HeaderSize, n), u, kd,
                 b + HeaderSize, c + HeaderSize, n)
    BY <1>5, <1>24, <2>1, TurnedFacts
  <2>3. QED BY <1>1, <1>19, <2>2 DEF q
<1>26. SameCells(h, g, p, q, first)
  <2>1. ASSUME NEW i \in 1 .. first PROVE g.mem[q + i - 1] = h.mem[p + i - 1]
    <3> DEFINE x == q + i - 1
               y == p + i - 1
    <3>1. /\ x \in 0 .. u - 1 /\ ~ (to <= x /\ x < to + k) /\ c <= x /\ x < c + gd[c].size
          /\ q <= x /\ x < q + m /\ x - q + p = y
          /\ x \in Nat /\ y \in Nat /\ b <= y /\ y < b + hd[b].size
      BY <1>1, <1>7, <1>8, <1>10, <1>11, <1>12
    <3> HIDE DEF x, y
    <3>2. g.mem[x] = f.mem[x]
      BY <1>20, <3>1 DEF Filled
    <3>3. f.mem[x] = copy.mem[x]
      BY <1>18, <1>22, <3>1 DEF KeepsIn
    <3>4. copy.mem[x] = new.h.mem[y]
      BY <1>13, <3>1 DEF Copied
    <3>5. new.h.mem[y] = h.mem[y]
      BY <1>1, <1>3, <3>1 DEF KeepsIn
    <3>6. g.mem[x] = h.mem[y]
      BY <3>2, <3>3, <3>4, <3>5
    <3>7. QED BY <3>6 DEF x, y
  <2>2. QED BY <2>1 DEF SameCells
<1>27. KeptContent(ContentOf(h, held), ContentOf(g, now))
  BY <1>5, <1>25, <1>26, KeptFacts DEF first
<1>28. Advanced(h, hd, g, now)
  <2>1. StateOK(g, now, u, kd)
    BY <1>25 DEF TurnedOK
  <2>2. LostStep(hd, h.free_list, kd, g.free_list)
    <3>1. LostStep(gd, new.h.free_list, kd, g.free_list)
      BY <1>15, <1>17, <1>21
    <3>2. QED BY <1>3, <3>1, LostAfter
  <2>3. QED BY <2>1, <2>2 DEF Advanced
<1>29. QED BY <1>27, <1>28

\* What realloc comes to.
AnyContent(live, new) ==
  NewContent(live, new, FALSE) \/ GoneContent(live, new) \/ KeptContent(live, new)

\* realloc, in all its cases.
LEMMA ReallocStep ==
  ASSUME NEW h, NEW held, NEW t, NEW hd, StateOK(h, held, t, hd),
         NEW p \in DOMAIN held \cup {NULL}, NEW n \in Requests, NEW g, NEW now,
         NEW m, m = IF p = NULL THEN 0 ELSE held[p],
         GetsOf(h, held, realloc(h, p, n), p, n, Smaller(n, m), g, now)
  PROVE  \/ Astray(g)
         \/ Advanced(h, hd, g, now) /\ AnyContent(ContentOf(h, held), ContentOf(g, now))
<1> SUFFICES ASSUME ~ Astray(g)
             PROVE  Advanced(h, hd, g, now) /\ AnyContent(ContentOf(h, held), ContentOf(g, now))
  OBVIOUS
<1> DEFINE old  == SizeOf(h, p - HeaderSize)
           new  == malloc(h, n)
           f    == free(memcpy(new.h, new.ptr, p, old - HeaderSize), p)
           call == realloc(h, p, n)
<1>1. call = IF p = NULL THEN new
             ELSE IF n = 0 THEN [h |-> free(h, p), ptr |-> NULL]
             ELSE IF old >= find_new_alloc_size(n) THEN [h |-> h, ptr |-> p]
             ELSE IF new.ptr = NULL THEN [h |-> [new.h EXCEPT !.exited = TRUE], ptr |-> NULL]
             ELSE [h |-> f, ptr |-> new.ptr]
  BY DEF realloc
<1>2. n \in Nat /\ find_new_alloc_size(n) >= n + HeaderSize /\ find_new_alloc_size(n) \in Nat
  BY RequestFacts, SizeFacts
<1> HIDE DEF call
<1>3. CASE p = NULL
  <2>1. call = new
    BY <1>1, <1>3
  <2>2. Smaller(n, m) = 0
    BY <1>2, <1>3 DEF Smaller
  <2>3. GetsOf(h, held, malloc(h, n), NULL, n, 0, g, now)
    BY <1>3, <2>1, <2>2 DEF call
  <2>4. Advanced(h, hd, g, now) /\ NewContent(ContentOf(h, held), ContentOf(g, now), FALSE)
    BY <2>3, MallocStep
  <2>5. QED BY <2>4 DEF AnyContent
<1>4. CASE p # NULL
  <2>1. p \in DOMAIN held /\ m = held[p]
    BY <1>4
  <2>2. PICK b \in Used(hd) : /\ p = b + HeaderSize /\ b \in Nat /\ b \in DOMAIN hd
                              /\ held[p] \in Nat /\ held[p] + HeaderSize <= hd[b].size
    BY <2>1, HeldBlock
  <2>3. HeapOK(h, t, hd) /\ Shows(h, t, hd) /\ Grid(hd, t)
    BY DEF StateOK, HeapOK
  <2>4. GetsOf(h, held, call, p, n, Smaller(n, held[p]), g, now)
    BY <2>1 DEF call
  <2>5. CASE n = 0
    <3>1. call = [h |-> free(h, p), ptr |-> NULL]
      BY <1>1, <1>4, <2>5
    <3>2. call.h = free(h, p) /\ call.ptr = NULL
      BY <3>1
    <3>3. g = free(h, p) /\ now = Left(held, p)
      BY <2>4, <3>2 DEF GetsOf
    <3>4. KeepsIn(h, h, hd, DOMAIN hd \ {b})
      BY DEF KeepsIn
    <3>5. FreedOK(h, held, hd, free(h, p), Left(held, p), p)
      BY <2>2, <2>3, <3>3, <3>4, FreeAfter
    <3>6. p \in DOMAIN ContentOf(h, held)
      BY <2>1, ContentFacts
    <3>7. QED BY <3>3, <3>5, <3>6 DEF FreedOK, GoneContent, AnyContent
  <2>6. CASE n # 0 /\ old >= find_new_alloc_size(n)
    <3>1. call = [h |-> h, ptr |-> p]
      BY <1>1, <1>4, <2>6
    <3>2. p - HeaderSize = b /\ old = hd[b].size /\ old \in Nat
      <4>1. p - HeaderSize = b
        BY <2>2 DEF HeaderSize
      <4>2. old = hd[b].size
        BY <2>2, <2>3, <4>1, HeaderIs
      <4>3. hd[b].size \in Nat
        BY <2>2, <2>3, GridNumbers DEF Grid
      <4>4. QED BY <4>1, <4>2, <4>3
    <3>3. old >= n + HeaderSize
      <4> HIDE DEF old
      <4>1. QED BY <1>2, <2>6, <3>2 DEF HeaderSize
    <3>4. Advanced(h, hd, g, now) /\ KeptContent(ContentOf(h, held), ContentOf(g, now))
      BY <1>2, <2>1, <2>4, <3>1, <3>3, InPlaceStep
    <3>5. QED BY <3>4 DEF AnyContent
  <2>7. CASE n # 0 /\ ~ (old >= find_new_alloc_size(n))
    <3>1. PICK c, u, gd : MallocTo(h, hd, find_new_alloc_size(n), new, c, u, gd)
      BY <2>3, <2>7, MallocFacts
    <3>2. new.ptr # NULL
      <4>1. new.ptr = c + HeaderSize /\ c \in DOMAIN gd /\ Grid(gd, u)
        BY <3>1 DEF MallocTo, GivenTo, HeapOK, Used
      <4>2. c \in Nat
        BY <4>1, GridNumbers DEF Grid
      <4>3. QED BY <4>1, <4>2 DEF HeaderSize, NULL
    <3>3. call = [h |-> f, ptr |-> new.ptr]
      BY <1>1, <1>4, <2>7, <3>2
    <3>4. old < find_new_alloc_size(n)
      <4>1. p - HeaderSize = b
        BY <2>2 DEF HeaderSize
      <4>2. old = hd[b].size
        BY <2>2, <2>3, <4>1, HeaderIs
      <4>3. hd[b].size \in Nat
        BY <2>2, <2>3, GridNumbers DEF Grid
      <4> HIDE DEF old
      <4>4. QED BY <1>2, <2>7, <4>2, <4>3
    <3>5. GetsOf(h, held, [h |-> f, ptr |-> new.ptr], p, n, Smaller(n, held[p]), g, now)
      BY <2>4, <3>3
    <3> HIDE DEF new
    <3> DEFINE k == f
    <3>6. k = free(memcpy(new.h, new.ptr, p, SizeOf(h, p - HeaderSize) - HeaderSize), p)
      OBVIOUS
    <3>7. GetsOf(h, held, [h |-> k, ptr |-> new.ptr], p, n, Smaller(n, held[p]), g, now)
      BY <3>5
    <3> HIDE DEF k
    <3>8. ~ Astray(k)
      <4>1. [h |-> k, ptr |-> new.ptr].h = k /\ [h |-> k, ptr |-> new.ptr].ptr = new.ptr
        OBVIOUS
      <4>2. GetsOf(h, held, [h |-> k, ptr |-> new.ptr], p, n, Smaller(n, held[p]), g, now) =>
              g = k \/ g = memset(k, new.ptr + Smaller(n, held[p]), n - Smaller(n, held[p]), Written)
        BY <4>1 DEF GetsOf
      <4>3. QED BY <3>7, <4>2, AstrayKept
    <3>9. Advanced(h, hd, g, now) /\ KeptContent(ContentOf(h, held), ContentOf(g, now))
      BY <2>1, <3>1, <3>4, <3>6, <3>7, <3>8, MoveStep
    <3>10. QED BY <3>9 DEF AnyContent
  <2>8. QED BY <2>5, <2>6, <2>7
<1>5. QED BY <1>3, <1>4

-----------------------------------------------------------------------------
(* The calls, where a missing return has counted.                          *)

\* Nor do the turns of split_block's loop change that.
LEMMA AstraySplit ==
  ASSUME NEW h, Astray(h), NEW f, NEW small
  PROVE  Astray(split_block(h, f, small))
<1>1. PICK it : SplitIter(MaxOrder, h, f, small, it) /\ it[MaxOrder] = split_block(h, f, small)
  BY SplitUnfold, SplitIterExists, OrderAssumption
<1> DEFINE P == {k \in 0 .. MaxOrder : Astray(it[k])}
<1>2. MaxOrder \in Nat
  BY OrderAssumption
<1>3. 0 \in P
  BY <1>1, <1>2 DEF SplitIter
<1>4. ASSUME NEW k \in 1 .. MaxOrder, k - 1 \in P PROVE k \in P
  <2> DEFINE g == it[k - 1]
             half  == SizeOf(g, f) \div 2
             taken == IF Header(g, f).occupy THEN g ELSE unlist(g, f)
             cut   == set_size(taken, f, half)
             front == IF Header(cut, f).occupy THEN cut ELSE list(cut, f)
             both  == [front EXCEPT !.mem[f + half] = [front.mem[f] EXCEPT !.occupy = FALSE]]
  <2>1. it[k] = halve(g, f, small)
    <3>1. k \in 0 .. MaxOrder /\ k # 0
      BY <1>2
    <3>2. QED BY <1>1, <3>1 DEF SplitIter
  <2>2. Astray(g)
    BY <1>4
  <2> HIDE DEF g, half
  <2>3. Astray(taken)
    BY <2>2, AstrayKept
  <2> HIDE DEF taken
  <2>4. Astray(cut)
    BY <2>3, AstrayKept
  <2> HIDE DEF cut
  <2>5. Astray(front)
    BY <2>4, AstrayKept
  <2> HIDE DEF front
  <2>6. Astray(both)
    BY <2>5 DEF Astray
  <2> HIDE DEF both
  <2>7. Astray(list(both, f + half))
    BY <2>6, AstrayKept
  <2>8. halve(g, f, small) = IF SizeOf(g, f) <= small THEN g ELSE list(both, f + half)
    BY DEF halve, both, front, cut, taken, half
  <2>9. Astray(halve(g, f, small))
    BY <2>2, <2>7, <2>8
  <2>10. QED BY <1>2, <2>1, <2>9
<1>5. \A k \in 0 .. MaxOrder : k \in P
  <2>1. \A k \in 1 .. MaxOrder : k - 1 \in P => k \in P
    BY <1>4
  <2> HIDE DEF P
  <2>2. QED BY <1>2, <1>3, <2>1, CountUp
<1>6. Astray(it[MaxOrder])
  BY <1>2, <1>5
<1>7. QED BY <1>1, <1>6

\* Nor do those of free's.
LEMMA AstrayJoin ==
  ASSUME NEW h, Astray(h), NEW b
  PROVE  Astray(join(h, b))
<1>1. PICK it : JoinIter(MaxOrder, h, b, it) /\ it[MaxOrder].h = join(h, b)
  BY JoinUnfold, JoinIterExists, OrderAssumption
<1> DEFINE P == {k \in 0 .. MaxOrder : Astray(it[k].h)}
<1>2. MaxOrder \in Nat
  BY OrderAssumption
<1>3. 0 \in P
  <2>1. it[0] = [h |-> h, block |-> b]
    BY <1>1, <1>2 DEF JoinIter
  <2>2. it[0].h = h
    BY <2>1
  <2>3. QED BY <1>2, <2>2
<1>4. ASSUME NEW k \in 1 .. MaxOrder, k - 1 \in P PROVE k \in P
  <2> DEFINE at == it[k - 1]
  <2>1. it[k] = join_turn(at)
    <3>1. k \in 0 .. MaxOrder /\ k # 0
      BY <1>2
    <3>2. QED BY <1>1, <3>1 DEF JoinIter
  <2>2. Astray(at.h)
    BY <1>4
  <2>3. Astray(it[k].h)
    <3> HIDE DEF at
    <3>1. QED BY <2>1, <2>2, AstrayTurn
  <2>4. QED BY <1>2, <2>3
<1>5. \A k \in 0 .. MaxOrder : k \in P
  <2>1. \A k \in 1 .. MaxOrder : k - 1 \in P => k \in P
    BY <1>4
  <2> HIDE DEF P
  <2>2. QED BY <1>2, <1>3, <2>1, CountUp
<1>6. Astray(it[MaxOrder].h)
  BY <1>2, <1>5
<1>7. QED BY <1>1, <1>6

\* Nor does malloc.
LEMMA AstrayMalloc ==
  ASSUME NEW h, Astray(h), NEW n
  PROVE  Astray(malloc(h, n).h)
<1> DEFINE size  == find_new_alloc_size(n)
           found == block_available(h, size)
           new   == allocate_new_space(h, size)
           split == [h |-> split_block(h, found, size), block |-> found]
           got   == IF found = NoBlock THEN new ELSE split
           used  == set_occupy(got.h, got.block, TRUE)
           taken == unlist(used, got.block)
<1>1. malloc(h, n) = IF n = 0 THEN [h |-> h, ptr |-> NULL]
                     ELSE IF found # NoBlock /\ SizeOf(got.h, got.block) # size
                       THEN [h |-> got.h, ptr |-> NULL]
                     ELSE [h |-> taken, ptr |-> got.block + HeaderSize]
  BY DEF malloc
<1>2. Astray(new.h)
  <2> DEFINE one_time_alloc == find_one_time_sbrk_size(h, size)[1]
             b     == total_size(h)
             block == [size |-> one_time_alloc, area_head |-> b, area_end |-> b + one_time_alloc,
                       occupy |-> FALSE]
             mem   == [a \in 0 .. b + one_time_alloc - 1 |->
                         IF a < b THEN h.mem[a] ELSE IF a = b THEN block ELSE Junk]
             param == find_one_time_sbrk_size(h, size)[2]
             grown == [h EXCEPT !.mem = mem, !.param_one_time_sbrk = param]
             whole == list(grown, b)
  <2>1. new = [h |-> split_block(whole, b, size), block |-> b]
    BY DEF allocate_new_space
  <2> HIDE DEF mem, param, size, new
  <2>2. Astray(grown)
    BY DEF Astray
  <2> HIDE DEF grown
  <2>3. Astray(whole)
    BY <2>2, AstrayKept
  <2> HIDE DEF whole, b
  <2>4. Astray(split_block(whole, b, size))
    BY <2>3, AstraySplit
  <2>5. QED BY <2>1, <2>4
<1>3. Astray(split.h)
  <2>1. split.h = split_block(h, found, size)
    OBVIOUS
  <2> HIDE DEF found, size
  <2>2. QED BY <2>1, AstraySplit
<1>4. Astray(got.h)
  <2> HIDE DEF new, split
  <2>1. QED BY <1>2, <1>3
<1> HIDE DEF got, size, found
<1>5. Astray(used)
  BY <1>4, AstrayKept
<1> HIDE DEF used
<1>6. Astray(taken)
  BY <1>5, AstrayKept
<1> HIDE DEF taken
<1>7. QED BY <1>1, <1>4, <1>6

\* Nor do calloc, free and realloc.
LEMMA AstrayCalls ==
  ASSUME NEW h, Astray(h)
  PROVE  /\ \A n : Astray(calloc(h, n).h)
         /\ \A p : Astray(free(h, p))
         /\ \A p, n : Astray(realloc(h, p, n).h)
<1>1. ASSUME NEW n PROVE Astray(calloc(h, n).h)
  <2> DEFINE got == malloc(h, n)
  <2>1. Astray(got.h)
    BY AstrayMalloc
  <2>2. got = [h |-> got.h, ptr |-> got.ptr]
    BY MallocRecord
  <2>3. calloc(h, n) = IF got.ptr = NULL THEN got
                       ELSE [got EXCEPT !.h = memset(got.h, got.ptr, n, Zero)]
    BY DEF calloc
  <2> HIDE DEF got
  <2> DEFINE zero == memset(got.h, got.ptr, n, Zero)
  <2>4. Astray(zero)
    BY <2>1, AstrayKept
  <2> HIDE DEF zero
  <2>5. [got EXCEPT !.h = zero].h = zero
    BY <2>2
  <2>6. calloc(h, n).h = got.h \/ calloc(h, n).h = zero
    BY <2>3, <2>5 DEF zero
  <2>7. QED BY <2>1, <2>4, <2>6
<1>2. ASSUME NEW g, Astray(g), NEW p PROVE Astray(free(g, p))
  <2> DEFINE b == p - HeaderSize
             m1 == set_occupy(g, b, FALSE)
             m2 == list(m1, b)
             end == [g EXCEPT !.exited = TRUE]
  <2>1. free(g, p) = IF p = NULL THEN g ELSE IF g.mem[b] \in Data THEN end ELSE join(m2, b)
    BY DEF free
  <2> HIDE DEF b
  <2>2. Astray(m1) /\ Astray(end)
    BY <1>2, AstrayKept
  <2> HIDE DEF m1, end
  <2>3. Astray(m2)
    BY <2>2, AstrayKept
  <2> HIDE DEF m2
  <2>4. Astray(join(m2, b))
    BY <2>3, AstrayJoin
  <2>5. QED BY <1>2, <2>1, <2>2, <2>4
<1>3. ASSUME NEW p, NEW n PROVE Astray(realloc(h, p, n).h)
  <2> DEFINE old  == SizeOf(h, p - HeaderSize)
             new  == malloc(h, n)
             copy == memcpy(new.h, new.ptr, p, old - HeaderSize)
             end  == [new.h EXCEPT !.exited = TRUE]
             gone == free(h, p)
             moved == free(copy, p)
  <2>1. realloc(h, p, n) =
          IF p = NULL THEN new
          ELSE IF n = 0 THEN [h |-> gone, ptr |-> NULL]
          ELSE IF old >= find_new_alloc_size(n) THEN [h |-> h, ptr |-> p]
          ELSE IF new.ptr = NULL THEN [h |-> end, ptr |-> NULL]
          ELSE [h |-> moved, ptr |-> new.ptr]
    BY DEF realloc
  <2>2. Astray(new.h)
    BY AstrayMalloc
  <2> HIDE DEF new, old
  <2>3. Astray(copy) /\ Astray(end)
    BY <2>2, AstrayKept
  <2> HIDE DEF copy, end
  <2>4. Astray(gone) /\ Astray(moved)
    BY <1>2, <2>3
  <2> HIDE DEF gone, moved
  <2>5. \/ realloc(h, p, n).h = new.h
        \/ realloc(h, p, n).h = gone
        \/ realloc(h, p, n).h = h
        \/ realloc(h, p, n).h = end
        \/ realloc(h, p, n).h = moved
    BY <2>1
  <2>6. QED BY <2>2, <2>3, <2>4, <2>5
<1>4. QED BY <1>1, <1>2, <1>3

\* So it is with every step.
LEMMA AstrayStays ==
  ASSUME Astray(heap), [AllocNext]_alloc_vars
  PROVE  Astray(heap')
<1>1. CASE Malloc
  <2>1. PICK n \in Requests : Gets(malloc(heap, n), NULL, n, 0)
    BY <1>1 DEF Malloc
  <2>2. heap' = malloc(heap, n).h
        \/ heap' = memset(malloc(heap, n).h, malloc(heap, n).ptr + 0, n - 0, Written)
    BY <2>1 DEF Gets
  <2>3. QED BY <2>2, AstrayMalloc, AstrayKept
<1>2. CASE Calloc
  <2>1. PICK n \in Requests : Gets(calloc(heap, n), NULL, n, n)
    BY <1>2 DEF Calloc
  <2>2. heap' = calloc(heap, n).h
        \/ heap' = memset(calloc(heap, n).h, calloc(heap, n).ptr + n, n - n, Written)
    BY <2>1 DEF Gets
  <2>3. QED BY <2>2, AstrayCalls, AstrayKept
<1>3. CASE Free
  <2>1. PICK p : heap' = free(memset(heap, p, Old(p), Junk), p)
    BY <1>3 DEF Free
  <2>2. Astray(memset(heap, p, Old(p), Junk))
    BY AstrayKept
  <2>3. QED BY <2>1, <2>2, AstrayCalls
<1>4. CASE Realloc
  <2>1. PICK p, n : Gets(realloc(heap, p, n), p, n, Smaller(n, Old(p)))
    BY <1>4 DEF Realloc
  <2> DEFINE call == realloc(heap, p, n)
  <2>2. Astray(call.h)
    BY AstrayCalls
  <2> HIDE DEF call
  <2>3. heap' = call.h
        \/ heap' = memset(call.h, call.ptr + Smaller(n, Old(p)), n - Smaller(n, Old(p)), Written)
    BY <2>1 DEF Gets, call
  <2>4. QED BY <2>2, <2>3, AstrayKept
<1>5. CASE UNCHANGED alloc_vars
  BY <1>5 DEF alloc_vars
<1>6. QED BY <1>1, <1>2, <1>3, <1>4, <1>5 DEF AllocNext

-----------------------------------------------------------------------------
(* The specification.                                                      *)

\* The inductive invariant: some blocks are those of the memory, and the program
\* holds the ones in use.
Good == \E t, hd : StateOK(heap, sizes, t, hd)

\* Content, before and after a step.
LEMMA ContentIs == Content = ContentOf(heap, sizes) /\ Content' = ContentOf(heap', sizes')
BY DEF Content, ContentOf, Held

\* The action Malloc.
LEMMA MallocDoes ==
  ASSUME NEW t, NEW hd, StateOK(heap, sizes, t, hd), Malloc
  PROVE  Advanced(heap, hd, heap', sizes') /\ NewContent(Content, Content', FALSE)
<1>1. PICK n \in Requests : Gets(malloc(heap, n), NULL, n, 0)
  BY DEF Malloc
<1>2. GetsOf(heap, sizes, malloc(heap, n), NULL, n, 0, heap', sizes')
  BY <1>1, GetsIs
<1>3. QED BY <1>2, MallocStep, ContentIs

\* The action Calloc.
LEMMA CallocDoes ==
  ASSUME NEW t, NEW hd, StateOK(heap, sizes, t, hd), Calloc
  PROVE  Advanced(heap, hd, heap', sizes') /\ NewContent(Content, Content', TRUE)
<1>1. PICK n \in Requests : Gets(calloc(heap, n), NULL, n, n)
  BY DEF Calloc
<1>2. GetsOf(heap, sizes, calloc(heap, n), NULL, n, n, heap', sizes')
  BY <1>1, GetsIs
<1>3. QED BY <1>2, CallocStep, ContentIs

\* The action Free.
LEMMA FreeDoes ==
  ASSUME NEW t, NEW hd, StateOK(heap, sizes, t, hd), Free, ~ Astray(heap')
  PROVE  Advanced(heap, hd, heap', sizes') /\ GoneContent(Content, Content')
<1>1. PICK p \in Held \cup {NULL} : /\ heap' = free(memset(heap, p, Old(p), Junk), p)
                                    /\ sizes' = LetGo(p)
  BY DEF Free
<1> DEFINE n == Old(p)
<1>2. p \in DOMAIN sizes \cup {NULL} /\ n = IF p = NULL THEN 0 ELSE sizes[p]
  BY <1>1 DEF Held, Old
<1>3. sizes' = Left(sizes, p) /\ heap' = free(memset(heap, p, n, Junk), p)
  BY <1>1 DEF LetGo, Held, Left
<1> HIDE DEF n
<1>4. Advanced(heap, hd, heap', sizes') /\ GoneContent(ContentOf(heap, sizes), ContentOf(heap', sizes'))
  BY <1>2, <1>3, FreeStep
<1>5. QED BY <1>4, ContentIs

\* The action Realloc.
LEMMA ReallocDoes ==
  ASSUME NEW t, NEW hd, StateOK(heap, sizes, t, hd), Realloc, ~ Astray(heap')
  PROVE  Advanced(heap, hd, heap', sizes') /\ AnyContent(Content, Content')
<1>1. PICK p \in Held \cup {NULL}, n \in Requests : Gets(realloc(heap, p, n), p, n, Smaller(n, Old(p)))
  BY DEF Realloc
<1> DEFINE m == Old(p)
<1>2. p \in DOMAIN sizes \cup {NULL} /\ m = IF p = NULL THEN 0 ELSE sizes[p]
  BY <1>1 DEF Held, Old
<1>3. GetsOf(heap, sizes, realloc(heap, p, n), p, n, Smaller(n, m), heap', sizes')
  BY <1>1, GetsIs
<1> HIDE DEF m
<1>4. Advanced(heap, hd, heap', sizes') /\ AnyContent(ContentOf(heap, sizes), ContentOf(heap', sizes'))
  BY <1>1, <1>2, <1>3, ReallocStep
<1>5. QED BY <1>4, ContentIs

\* Every step leads from blocks to blocks, and loses at most one.
LEMMA NextAdvances ==
  ASSUME NEW t, NEW hd, StateOK(heap, sizes, t, hd), [AllocNext]_alloc_vars, ~ Astray(heap')
  PROVE  Advanced(heap, hd, heap', sizes')
<1>1. CASE Malloc
  BY <1>1, MallocDoes
<1>2. CASE Calloc
  BY <1>2, CallocDoes
<1>3. CASE Free
  BY <1>3, FreeDoes
<1>4. CASE Realloc
  BY <1>4, ReallocDoes
<1>5. CASE UNCHANGED alloc_vars
  <2>1. heap' = heap /\ sizes' = sizes
    BY <1>5 DEF alloc_vars
  <2>2. Advanced(heap, hd, heap, sizes)
    BY NothingDone
  <2>3. QED BY <2>1, <2>2
<1>6. QED BY <1>1, <1>2, <1>3, <1>4, <1>5 DEF AllocNext

\* At the start there is no memory.
LEMMA InitGood ==
  ASSUME AllocInit
  PROVE  Good
<1> DEFINE hd == [b \in {} |-> heap.mem[b]]
<1>1. /\ heap = [mem |-> <<>>, free_list |-> [n \in BlockSizes |-> {}],
                 param_one_time_sbrk |-> MinSbrk, exited |-> FALSE, stray |-> FALSE]
      /\ sizes = <<>>
  BY DEF AllocInit
<1>2. DOMAIN hd = {} /\ hd = [b \in {} |-> hd[b]] /\ hd \in [{} -> HeaderRecord]
  OBVIOUS
<1>3. <<>> \in [{} -> Cell] /\ <<>> \in [{} -> Nat] /\ DOMAIN <<>> = {}
  OBVIOUS
<1>4. 0 .. 0 - 1 = {} /\ 0 \in Nat
  OBVIOUS
<1> HIDE DEF hd
<1>5. heap \in HeapsOf(0)
  <2>1. [n \in BlockSizes |-> {}] \in Lists
    BY DEF Lists
  <2>2. MinSbrk \in {n \in BlockSizes : MinSbrk <= n /\ n <= MaxSbrk}
    <3>1. MinSbrk \in BlockSizes /\ MinSbrk <= MaxSbrk
      BY SizesAssumption
    <3>2. MinSbrk \in Nat
      BY <3>1, SizeFacts
    <3>3. QED BY <3>1, <3>2
  <2>3. <<>> \in [0 .. 0 - 1 -> Cell]
    BY <1>3, <1>4
  <2>4. QED BY <1>1, <2>1, <2>2, <2>3 DEF HeapsOf
<1>6. GridType(hd, 0)
  BY <1>2, <1>4 DEF GridType
<1>7. Shows(heap, 0, hd)
  BY <1>2, <1>5, <1>6 DEF Shows
<1>8. Grid(hd, 0)
  <2>1. Side(hd, 0)
    BY <1>2 DEF Side
  <2>2. QED BY <1>2, <1>6, <2>1 DEF Grid
<1>9. FreeOf(hd) = {} /\ Used(hd) = {}
  BY <1>2 DEF FreeOf, Used
<1>10. ListsOf(hd, heap.free_list)
  <2>1. heap.free_list = [n \in BlockSizes |-> {}]
    BY <1>1
  <2>2. Cardinality({}) <= MaxArrayLength
    BY FS_EmptySet, SizesAssumption
  <2>3. [n \in BlockSizes |-> {}] \in Lists
    BY DEF Lists
  <2>4. QED BY <2>1, <2>2, <2>3 DEF ListsOf
<1>11. CoalescedOf(hd)
  BY <1>9 DEF CoalescedOf
<1>12. HeldBy(hd, sizes)
  BY <1>1, <1>3, <1>9 DEF HeldBy
<1>13. StateOK(heap, sizes, 0, hd)
  BY <1>7, <1>8, <1>10, <1>11, <1>12 DEF StateOK, HeapOK
<1>14. QED BY <1>13 DEF Good

\* Where a missing return has not counted the invariant is inductive.
LEMMA GoodStep ==
  ASSUME Good, [AllocNext]_alloc_vars, ~ Astray(heap')
  PROVE  Good'
<1>1. PICK t, hd : StateOK(heap, sizes, t, hd)
  BY DEF Good
<1>2. Advanced(heap, hd, heap', sizes')
  BY <1>1, NextAdvances
<1>3. PICK u, gd : StateOK(heap', sizes', u, gd)
  BY <1>2 DEF Advanced
<1>4. QED BY <1>3 DEF Good

\* In every state the invariant holds, or a missing return has counted.
LEMMA GoodAlways == AllocSpec => [](Astray(heap) \/ Good)
<1>1. AllocInit => Good
  BY InitGood
<1>2. (Astray(heap) \/ Good) /\ [AllocNext]_alloc_vars => (Astray(heap) \/ Good)'
  <2>1. ASSUME Astray(heap), [AllocNext]_alloc_vars PROVE Astray(heap')
    BY <2>1, AstrayStays
  <2>2. ASSUME Good, [AllocNext]_alloc_vars PROVE Astray(heap') \/ Good'
    BY <2>2, GoodStep
  <2>3. Astray(heap)' <=> Astray(heap')
    BY DEF Astray
  <2>4. QED BY <2>1, <2>2, <2>3
<1>3. QED BY <1>1, <1>2, PTL DEF AllocSpec

\* Of a step: where it leads to, or there already, a missing return has counted.
LEMMA GoodOrStray ==
  ASSUME Astray(heap) \/ Good, [AllocNext]_alloc_vars
  PROVE  \/ Astray(heap')
         \/ Good /\ ~ Astray(heap')
BY AstrayStays

\* Until free joins what a missing return gave it the headers, the lists and what
\* the program holds agree, and free memory is joined, after any calls, with any
\* sizes; where buddy_exist_not_occupied returns NULL that never happens.
THEOREM AllocatorInvariant ==
  AllocSpec => []((heap.stray => Missing = "buddy") /\ (heap.stray \/ AllocInv))
<1>1. Astray(heap) => heap.stray /\ Missing = "buddy"
  BY SizesAssumption DEF Astray
<1>2. Good => AllocInv
  BY InvFollows DEF Good
<1>3. AllocInv => ~ heap.stray
  <2>1. ASSUME AllocInv PROVE ~ heap.stray
    <3>1. heap.stray \in {FALSE}
      BY <2>1 DEF AllocInv, AllocTypeOK
    <3>2. QED BY <3>1
  <2>2. QED BY <2>1
<1>4. Astray(heap) \/ Good => (heap.stray => Missing = "buddy") /\ (heap.stray \/ AllocInv)
  BY <1>1, <1>2, <1>3
<1>5. QED BY <1>4, GoodAlways, PTL

\* What is lost, in the terms of the memory.
LEMMA LostFollows ==
  ASSUME Good, [AllocNext]_alloc_vars, ~ Astray(heap')
  PROVE  FullLoses
<1>1. PICK t, hd : StateOK(heap, sizes, t, hd)
  BY DEF Good
<1>2. PICK u, gd : StateOK(heap', sizes', u, gd) /\ LostStep(hd, heap.free_list, gd, heap'.free_list)
  BY <1>1, NextAdvances DEF Advanced
<1> DEFINE g == heap'
<1>3. HeapOK(heap, t, hd) /\ Shows(heap, t, hd) /\ HeapOK(g, u, gd) /\ Shows(g, u, gd)
      /\ LostStep(hd, heap.free_list, gd, g.free_list)
  BY <1>1, <1>2 DEF StateOK, HeapOK
<1> HIDE DEF g
<1>4. Unlisted(heap) = LostOf(hd, heap.free_list) /\ Unlisted(g) = LostOf(gd, g.free_list)
  BY <1>3, UnlistedAre
<1>5. /\ \A b \in LostOf(hd, heap.free_list) : SizeOf(heap, b) = hd[b].size
      /\ \A b \in LostOf(gd, g.free_list) : SizeOf(g, b) = gd[b].size
  BY <1>3, HeaderIs DEF LostOf, FreeOf
<1>6. \A b \in Unlisted(g) :
        \/ b \in Unlisted(heap) /\ SizeOf(heap, b) = SizeOf(g, b)
        \/ /\ Unlisted(g) \ {b} \subseteq Unlisted(heap)
           /\ Cardinality(g.free_list[SizeOf(g, b)]) = MaxArrayLength
  BY <1>3, <1>4, <1>5 DEF LostStep
<1>7. QED BY <1>6 DEF g, FullLoses

\* A step after which no missing return has counted loses a block only by a free
\* that finds the list full, and one block at a time; where
\* buddy_exist_not_occupied returns NULL that is every step.
THEOREM AllocatorLosesWhenFull ==
  AllocSpec => /\ [][heap'.stray \/ FullLoses]_alloc_vars
               /\ Missing = "NULL" => LostWhenFull
<1>1. (Astray(heap) \/ Good) /\ [AllocNext]_alloc_vars => [heap'.stray \/ FullLoses]_alloc_vars
  <2>1. Astray(heap') => heap'.stray
    BY DEF Astray
  <2>2. QED BY <2>1, GoodOrStray, LostFollows
<1>2. ASSUME Missing = "NULL" PROVE AllocSpec => LostWhenFull
  <2>1. (Astray(heap) \/ Good) /\ [AllocNext]_alloc_vars => [FullLoses]_alloc_vars
    <3>1. ~ Astray(heap')
      BY <1>2 DEF Astray
    <3>2. QED BY <3>1, GoodOrStray, LostFollows
  <2>2. QED BY <2>1, GoodAlways, PTL DEF AllocSpec, LostWhenFull
<1>3. AllocSpec => [][heap'.stray \/ FullLoses]_alloc_vars
  BY <1>1, GoodAlways, PTL DEF AllocSpec
<1>4. QED BY <1>2, <1>3

-----------------------------------------------------------------------------
(* The abstract heap.                                                      *)

\* The content that malloc and calloc come to is that of the abstract call.
LEMMA NewIsAllocated ==
  ASSUME NEW zeroed \in BOOLEAN, NewContent(Content, Content', zeroed)
  PROVE  H!Allocated(zeroed) \/ UNCHANGED Content
<1>1. CASE Content' = Content
  BY <1>1
<1>2. CASE Content' # Content
  <2>1. PICK p, n : /\ NULL \notin DOMAIN Content /\ Came(Content, Content', NULL, p, n)
                    /\ zeroed => \A i \in 1 .. n : Content'[p][i] = Zero
    BY <1>2 DEF NewContent
  <2> DEFINE live == Content
             new  == Content'
  <2>2. /\ NULL \notin DOMAIN live
        /\ DOMAIN new = (DOMAIN live \ {NULL}) \cup {p} /\ p \notin DOMAIN live \ {NULL}
        /\ \A q \in DOMAIN live \ {NULL} : new[q] = live[q]
        /\ Len(new[p]) = n /\ DOMAIN new[p] = 1 .. n
        /\ zeroed => \A i \in 1 .. n : new[p][i] = Zero
    BY <2>1 DEF Came
  <2>3. \A others : /\ DOMAIN others = DOMAIN live \ {NULL}
                    /\ \A q \in DOMAIN others : others[q] = live[q]
                    => H!NewResult(others, p, n)
    BY <2>1 DEF Came
  <2> HIDE DEF live, new
  <2>4. DOMAIN live \ {NULL} = DOMAIN live
    BY <2>2
  <2>5. H!NewResult(live, p, n)
    BY <2>3, <2>4
  <2>6. /\ p \in DOMAIN new \ DOMAIN live /\ DOMAIN new = DOMAIN live \cup {p}
        /\ \A q \in DOMAIN live : new[q] = live[q]
        /\ H!NewResult(live, p, Len(new[p]))
        /\ zeroed => \A i \in DOMAIN new[p] : new[p][i] = Zero
    BY <2>2, <2>4, <2>5
  <2>7. H!Allocated(zeroed)
    BY <2>6 DEF H!Allocated, live, new
  <2>8. QED BY <2>7
<1>3. QED BY <1>1, <1>2

\* So is that of free.
LEMMA GoneIsFreed ==
  ASSUME GoneContent(Content, Content')
  PROVE  H!Free \/ UNCHANGED Content
BY DEF GoneContent, Left, H!Free

\* So is that of realloc where the block stays or moves.
LEMMA KeptIsRealloc ==
  ASSUME KeptContent(Content, Content')
  PROVE  H!Realloc
<1>1. PICK p, q, n : /\ p \in DOMAIN Content /\ Came(Content, Content', p, q, n)
                     /\ \A i \in DOMAIN Content[p] \cap DOMAIN Content'[q] :
                          Content'[q][i] = Content[p][i]
  BY DEF KeptContent
<1> DEFINE live == Content
           new  == Content'
           others == DOMAIN live \ {p}
           rest == [r \in others |-> live[r]]
<1>2. /\ p \in DOMAIN live /\ DOMAIN new = others \cup {q}
      /\ \A r \in others : new[r] = live[r]
      /\ Len(new[q]) = n
      /\ \A i \in DOMAIN live[p] \cap DOMAIN new[q] : new[q][i] = live[p][i]
  BY <1>1 DEF Came
<1>3. \A others_ : /\ DOMAIN others_ = DOMAIN live \ {p}
                   /\ \A r \in DOMAIN others_ : others_[r] = live[r]
                   => H!NewResult(others_, q, n)
  BY <1>1 DEF Came
<1> HIDE DEF live, new
<1>4. H!NewResult(rest, q, n)
  <2>1. DOMAIN rest = DOMAIN live \ {p} /\ \A r \in DOMAIN rest : rest[r] = live[r]
    OBVIOUS
  <2> HIDE DEF rest
  <2>2. QED BY <1>3, <2>1
<1>5. q \in DOMAIN new /\ H!NewResult([r \in others |-> live[r]], q, Len(new[q]))
  BY <1>2, <1>4
<1>6. QED BY <1>2, <1>5 DEF H!Realloc, live, new

\* Each call is that of the abstract heap, or leaves the content as it is.
LEMMA CallsAreHeapCalls ==
  ASSUME Good, ~ Astray(heap')
  PROVE  /\ Malloc => H!Malloc \/ UNCHANGED Content
         /\ Calloc => H!Calloc \/ UNCHANGED Content
         /\ Free => H!Free \/ UNCHANGED Content
         /\ Realloc => H!Malloc \/ H!Free \/ H!Realloc \/ UNCHANGED Content
<1>1. PICK t, hd : StateOK(heap, sizes, t, hd)
  BY DEF Good
<1>2. ASSUME Malloc PROVE H!Malloc \/ UNCHANGED Content
  <2>1. NewContent(Content, Content', FALSE)
    BY <1>1, <1>2, MallocDoes
  <2>2. QED BY <2>1, NewIsAllocated DEF H!Malloc
<1>3. ASSUME Calloc PROVE H!Calloc \/ UNCHANGED Content
  <2>1. NewContent(Content, Content', TRUE)
    BY <1>1, <1>3, CallocDoes
  <2>2. QED BY <2>1, NewIsAllocated DEF H!Calloc
<1>4. ASSUME Free PROVE H!Free \/ UNCHANGED Content
  <2>1. GoneContent(Content, Content')
    BY <1>1, <1>4, FreeDoes
  <2>2. QED BY <2>1, GoneIsFreed
<1>5. ASSUME Realloc PROVE H!Malloc \/ H!Free \/ H!Realloc \/ UNCHANGED Content
  <2>1. AnyContent(Content, Content')
    BY <1>1, <1>5, ReallocDoes
  <2>2. CASE NewContent(Content, Content', FALSE)
    BY <2>2, NewIsAllocated DEF H!Malloc
  <2>3. CASE GoneContent(Content, Content')
    BY <2>3, GoneIsFreed
  <2>4. CASE KeptContent(Content, Content')
    BY <2>4, KeptIsRealloc
  <2>5. QED BY <2>1, <2>2, <2>3, <2>4 DEF AnyContent
<1>6. QED BY <1>2, <1>3, <1>4, <1>5

\* Until a missing return has counted, the allocator implements the heap of
\* Heap.tla: memory in use has one holder, only the holder changes it, and realloc
\* keeps the data.  Where buddy_exist_not_occupied returns NULL it always does.
THEOREM AllocatorIsHeap ==
  AllocSpec => /\ H!Init /\ [][heap'.stray \/ H!Next \/ UNCHANGED Content]_alloc_vars
               /\ Missing = "NULL" => HeapSpec
<1>1. AllocInit => H!Init
  <2>1. ASSUME AllocInit PROVE Content = <<>>
    <3>1. DOMAIN sizes = {}
      BY <2>1 DEF AllocInit
    <3>2. Content = [p \in {} |-> [i \in 1 .. sizes[p] |-> heap.mem[p + i - 1]]]
      BY <3>1 DEF Content, Held
    <3>3. QED BY <3>2
  <2>2. QED BY <2>1 DEF H!Init
<1>2. (Astray(heap) \/ Good) /\ [AllocNext]_alloc_vars =>
        [heap'.stray \/ H!Next \/ UNCHANGED Content]_alloc_vars
  <2>1. ASSUME Good, AllocNext, ~ Astray(heap') PROVE H!Next \/ UNCHANGED Content
    BY <2>1, CallsAreHeapCalls DEF AllocNext, H!Next
  <2>2. Astray(heap') => heap'.stray
    BY DEF Astray
  <2>3. QED BY <2>1, <2>2, GoodOrStray
<1>3. ASSUME Missing = "NULL" PROVE AllocSpec => HeapSpec
  <2>1. (Astray(heap) \/ Good) /\ [AllocNext]_alloc_vars => [H!Next]_Content
    <3>1. ~ Astray(heap')
      BY <1>3 DEF Astray
    <3>2. ASSUME Good, AllocNext PROVE H!Next \/ UNCHANGED Content
      BY <3>1, <3>2, CallsAreHeapCalls DEF AllocNext, H!Next
    <3>3. ASSUME UNCHANGED alloc_vars PROVE UNCHANGED Content
      BY <3>3 DEF alloc_vars, Content, Held
    <3>4. QED BY <3>1, <3>2, <3>3, GoodOrStray
  <2>2. QED BY <1>1, <2>1, GoodAlways, PTL DEF AllocSpec, HeapSpec, H!Spec
<1>4. AllocSpec => H!Init /\ [][heap'.stray \/ H!Next \/ UNCHANGED Content]_alloc_vars
  BY <1>1, <1>2, GoodAlways, PTL DEF AllocSpec
<1>5. QED BY <1>3, <1>4

\* Likewise, each call does what the abstract one of its name does, or leaves the
\* content as it is; in particular the cells that calloc gives are zero.
THEOREM AllocatorCalls ==
  AllocSpec => [][heap'.stray \/ /\ Malloc => H!Malloc \/ UNCHANGED Content
                                 /\ Calloc => H!Calloc \/ UNCHANGED Content
                                 /\ Free => H!Free \/ UNCHANGED Content
                                 /\ Realloc => \/ H!Malloc \/ H!Free \/ H!Realloc
                                               \/ UNCHANGED Content]_alloc_vars
<1>1. (Astray(heap) \/ Good) /\ [AllocNext]_alloc_vars =>
        [heap'.stray \/ /\ Malloc => H!Malloc \/ UNCHANGED Content
                        /\ Calloc => H!Calloc \/ UNCHANGED Content
                        /\ Free => H!Free \/ UNCHANGED Content
                        /\ Realloc => \/ H!Malloc \/ H!Free \/ H!Realloc
                                      \/ UNCHANGED Content]_alloc_vars
  <2>1. Astray(heap') => heap'.stray
    BY DEF Astray
  <2>2. QED BY <2>1, GoodOrStray, CallsAreHeapCalls
<1>2. QED BY <1>1, GoodAlways, PTL DEF AllocSpec
=============================================================================
