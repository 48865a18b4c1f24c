---------------------------- MODULE LibWfgProofs ----------------------------
(***************************************************************************)
(* What the functions of libwfg.c do to a graph, as lemmas: for every set  *)
(* of threads and resources, and a queue of edges of any length. Then the  *)
(* library under every sequence of calls (WfgCalls), and its abstraction.  *)
(***************************************************************************)
EXTENDS WfgCalls, WellFoundedInduction, TLAPS

\* The fetch loops stop at the first match, if there is a match
\* (libwfg.c:23-34, 71-81).
LEMMA FirstOfFacts ==
  ASSUME NEW n \in Nat, NEW I \in SUBSET (1 .. n)
  PROVE  /\ FirstOf(I) = NULL <=> I = {}
         /\ I # {} => FirstOf(I) \in I /\ \A j \in I : FirstOf(I) <= j
<1>1. CASE I = {}
  BY <1>1 DEF FirstOf
<1>2. CASE I # {}
  <2>1. PICK i \in I : \A j \in I : ~ (<<j, i>> \in OpToRel(<, Nat))
    <3>1. I \subseteq Nat
      OBVIOUS
    <3>2. QED BY <1>2, <3>1, NatLessThanWellFounded, WFMin
  <2>2. ASSUME NEW j \in I PROVE i <= j
    <3>1. i \in Nat /\ j \in Nat
      OBVIOUS
    <3>2. ~ (j < i)
      <4>1. ASSUME j < i PROVE FALSE
        <5>1. <<j, i>> \in {ss \in Nat \X Nat : ss[1] < ss[2]}
          BY <3>1, <4>1
        <5>2. QED BY <2>1, <5>1 DEF OpToRel
      <4>2. QED BY <4>1
    <3>3. QED BY <3>1, <3>2
  <2>3. FirstOf(I) \in I /\ \A j \in I : FirstOf(I) <= j
    BY <1>2, <2>2 DEF FirstOf
  <2>4. QED BY <1>2, <2>3 DEF NULL
<1>3. QED BY <1>1, <1>2

\* The queue without one item: its type, and where every other item went.
LEMMA RemoveAtFacts ==
  ASSUME NEW S, NEW q \in Seq(S), NEW pos \in DOMAIN q
  PROVE  LET p == queue_remove_at(q, pos)
         IN  /\ p \in Seq(S)
             /\ DOMAIN p = 1 .. Len(q) - 1
             /\ Len(p) = Len(q) - 1
             /\ \A i \in DOMAIN p : p[i] = IF i < pos THEN q[i] ELSE q[i + 1]
<1> DEFINE p == queue_remove_at(q, pos)
<1>1. Len(q) \in Nat /\ pos \in 1 .. Len(q) /\ DOMAIN q = 1 .. Len(q)
  OBVIOUS
<1>2. \A i \in 1 .. Len(q) - 1 : (IF i < pos THEN q[i] ELSE q[i + 1]) \in S
  BY <1>1
<1>3. p \in [1 .. Len(q) - 1 -> S]
  BY <1>2 DEF queue_remove_at
<1>4. p \in Seq(S)
  BY <1>1, <1>3
<1>5. Len(p) = Len(q) - 1
  BY <1>1 DEF queue_remove_at
<1>6. QED BY <1>3, <1>4, <1>5 DEF queue_remove_at

-----------------------------------------------------------------------------
(* The edges the functions find.                                           *)

\* The wait edge fetch_thread_wait returns, and when it returns none
\* (libwfg.c:23-34).
LEMMA FetchWaitFacts ==
  ASSUME NEW q \in Seq(Edge), NEW t \in Threads
  PROVE  LET f == fetch_thread_wait(q, t)
         IN  /\ f = NULL <=> \A r \in Resources : ~ Waits(q, t, r)
             /\ f # NULL => f \in DOMAIN q /\ q[f].t_id = t /\ q[f].flag = "Wait"
<1> DEFINE I == {i \in DOMAIN q : q[i].t_id = t /\ q[i].flag = "Wait"}
<1>1. Len(q) \in Nat /\ I \in SUBSET (1 .. Len(q))
  OBVIOUS
<1>2. /\ FirstOf(I) = NULL <=> I = {}
      /\ I # {} => FirstOf(I) \in I
  BY <1>1, FirstOfFacts
<1>3. I = {} <=> \A r \in Resources : ~ Waits(q, t, r)
  <2>1. \A i \in DOMAIN q : q[i] \in Edge
    OBVIOUS
  <2>2. QED BY <2>1 DEF Waits, Edge
<1>4. QED BY <1>2, <1>3 DEF fetch_thread_wait

\* The same for fetch_resource_hold (libwfg.c:71-81).
LEMMA FetchHoldFacts ==
  ASSUME NEW q \in Seq(Edge), NEW r \in Resources
  PROVE  LET f == fetch_resource_hold(q, r)
         IN  /\ f = NULL <=> \A t \in Threads : ~ Holds(q, t, r)
             /\ f # NULL => f \in DOMAIN q /\ q[f].r_id = r /\ q[f].flag = "Hold"
<1> DEFINE I == {i \in DOMAIN q : q[i].r_id = r /\ q[i].flag = "Hold"}
<1>1. Len(q) \in Nat /\ I \in SUBSET (1 .. Len(q))
  OBVIOUS
<1>2. /\ FirstOf(I) = NULL <=> I = {}
      /\ I # {} => FirstOf(I) \in I
  BY <1>1, FirstOfFacts
<1>3. I = {} <=> \A t \in Threads : ~ Holds(q, t, r)
  <2>1. \A i \in DOMAIN q : q[i] \in Edge
    OBVIOUS
  <2>2. QED BY <2>1 DEF Holds, Edge
<1>4. QED BY <1>2, <1>3 DEF fetch_resource_hold

-----------------------------------------------------------------------------
(* The functions that change the graph, in terms of who waits and holds.   *)

\* wfg_add_wait_edge fails exactly when the thread waits already, and adds
\* its wait edge otherwise (libwfg.c:56-68).
LEMMA AddWaitFacts ==
  ASSUME NEW q \in Seq(Edge), Unique(q), NEW t \in Threads, NEW r \in Resources
  PROVE  LET out == wfg_add_wait_edge(q, t, r)
         IN  /\ out.q \in Seq(Edge) /\ Unique(out.q)
             /\ out.ret = 0 <=> \A s \in Resources : ~ Waits(q, t, s)
             /\ out.ret = 0 =>
                  \A u \in Threads, s \in Resources :
                    /\ Waits(out.q, u, s) <=> Waits(q, u, s) \/ (u = t /\ s = r)
                    /\ Holds(out.q, u, s) <=> Holds(q, u, s)
             /\ out.ret # 0 => out.q = q
<1> DEFINE e == [t_id |-> t, r_id |-> r, flag |-> "Wait"]
           p == Append(q, e)
<1>1. CASE fetch_thread_wait(q, t) # NULL
  BY <1>1, FetchWaitFacts DEF wfg_add_wait_edge
<1>2. CASE fetch_thread_wait(q, t) = NULL
  <2>1. \A s \in Resources : ~ Waits(q, t, s)
    BY <1>2, FetchWaitFacts
  <2>2. \A i \in DOMAIN q : q[i] \in Edge
    OBVIOUS
  <2>3. e \in Edge
    BY DEF Edge
  <2>4. /\ p \in Seq(Edge)
        /\ Len(q) \in Nat /\ DOMAIN q = 1 .. Len(q) /\ DOMAIN p = 1 .. Len(q) + 1
        /\ \A i \in DOMAIN q : p[i] = q[i]
        /\ p[Len(q) + 1] = e
    BY <2>3
  <2>5. Unique(p)
    <3>1. \A i \in DOMAIN q : ~ (q[i].flag = "Wait" /\ q[i].t_id = t)
      BY <2>1, <2>2 DEF Waits, Edge
    <3>2. \A i \in DOMAIN p : i # Len(q) + 1 => i \in DOMAIN q
      BY <2>4
    <3>3. e.flag = "Wait" /\ e.t_id = t
      OBVIOUS
    <3> HIDE DEF e, p
    <3>4. QED BY <2>4, <3>1, <3>2, <3>3 DEF Unique
  <2>6. ASSUME NEW u \in Threads, NEW s \in Resources
        PROVE  /\ Waits(p, u, s) <=> Waits(q, u, s) \/ (u = t /\ s = r)
               /\ Holds(p, u, s) <=> Holds(q, u, s)
    <3>1. \A i \in DOMAIN p : i \in DOMAIN q \/ i = Len(q) + 1
      BY <2>4
    <3>2. \A i \in DOMAIN q : i \in DOMAIN p
      BY <2>4
    <3>3. Len(q) + 1 \in DOMAIN p
      BY <2>4
    <3>4. e.flag = "Wait" /\ e.t_id = t /\ e.r_id = r
      OBVIOUS
    <3> HIDE DEF e, p
    <3>5. QED BY <2>4, <3>1, <3>2, <3>3, <3>4 DEF Waits, Holds
  <2>7. wfg_add_wait_edge(q, t, r) = [q |-> p, ret |-> 0]
    BY <1>2 DEF wfg_add_wait_edge
  <2>8. QED BY <2>1, <2>4, <2>5, <2>6, <2>7
<1>3. QED BY <1>1, <1>2

\* wfg_add_hold_edge succeeds exactly when the thread waits for the resource
\* and nobody holds it; the wait edge has then become a hold edge
\* (libwfg.c:105-114).
LEMMA AddHoldFacts ==
  ASSUME NEW q \in Seq(Edge), Unique(q), NEW t \in Threads, NEW r \in Resources
  PROVE  LET out == wfg_add_hold_edge(q, t, r)
         IN  /\ out.q \in Seq(Edge) /\ Unique(out.q)
             /\ out.ret = 0 <=> Waits(q, t, r) /\ \A u \in Threads : ~ Holds(q, u, r)
             /\ out.ret = 0 =>
                  \A u \in Threads, s \in Resources :
                    /\ Waits(out.q, u, s) <=> Waits(q, u, s) /\ ~ (u = t /\ s = r)
                    /\ Holds(out.q, u, s) <=> Holds(q, u, s) \/ (u = t /\ s = r)
             /\ out.ret # 0 => out.q = q
<1> DEFINE item == fetch_thread_wait(q, t)
           held == fetch_resource_hold(q, r)
           p == [q EXCEPT ![item].flag = "Hold"]
<1>1. \A i \in DOMAIN q : q[i] \in Edge
  OBVIOUS
<1>2. CASE item = NULL \/ q[item].r_id # r \/ held # NULL
  <2>1. wfg_add_hold_edge(q, t, r).q = q /\ wfg_add_hold_edge(q, t, r).ret # 0
    BY <1>2 DEF wfg_add_hold_edge
  <2>2. ~ (Waits(q, t, r) /\ \A u \in Threads : ~ Holds(q, u, r))
    <3>1. Waits(q, t, r) => item # NULL /\ q[item].r_id = r
      BY FetchWaitFacts, <1>1 DEF Unique, Waits
    <3>2. held # NULL => \E u \in Threads : Holds(q, u, r)
      BY FetchHoldFacts
    <3>3. QED BY <1>2, <3>1, <3>2
  <2>3. QED BY <2>1, <2>2
<1>3. CASE item # NULL /\ q[item].r_id = r /\ held = NULL
  <2>1. wfg_add_hold_edge(q, t, r) = [q |-> p, ret |-> 0]
    BY <1>3 DEF wfg_add_hold_edge
  <2>2. item \in DOMAIN q /\ q[item].t_id = t /\ q[item].flag = "Wait"
    BY <1>3, FetchWaitFacts
  <2>3. \A u \in Threads : ~ Holds(q, u, r)
    BY <1>3, FetchHoldFacts
  <2>4. Waits(q, t, r)
    BY <1>3, <2>2 DEF Waits
  <2>5. /\ DOMAIN p = DOMAIN q
        /\ \A i \in DOMAIN q : /\ p[i].t_id = q[i].t_id
                               /\ p[i].r_id = q[i].r_id
                               /\ i # item => p[i].flag = q[i].flag
        /\ p[item].flag = "Hold"
    BY <1>1, <2>2 DEF Edge
  <2>6. p \in Seq(Edge)
    <3>1. [q[item] EXCEPT !.flag = "Hold"] \in Edge
      BY <1>1, <2>2 DEF Edge
    <3>2. QED BY <2>2, <3>1
  <2> HIDE DEF p, item, held
  <2>7. Unique(p)
    <3>1. \A i \in DOMAIN q : ~ (q[i].flag = "Hold" /\ q[i].r_id = r)
      BY <1>1, <2>3 DEF Holds, Edge
    <3>2. q[item].r_id = r
      BY <1>3
    <3>3. QED BY <2>2, <2>5, <3>1, <3>2 DEF Unique
  <2>8. ASSUME NEW u \in Threads, NEW s \in Resources
        PROVE  /\ Waits(p, u, s) <=> Waits(q, u, s) /\ ~ (u = t /\ s = r)
               /\ Holds(p, u, s) <=> Holds(q, u, s) \/ (u = t /\ s = r)
    <3>1. q[item].r_id = r
      BY <1>3
    <3>2. \A i \in DOMAIN q : q[i].flag = "Wait" /\ q[i].t_id = t => i = item
      BY <2>2 DEF Unique
    <3>3. "Wait" # "Hold"
      OBVIOUS
    <3>4. Waits(p, u, s) <=> Waits(q, u, s) /\ ~ (u = t /\ s = r)
      BY <2>2, <2>5, <3>1, <3>2, <3>3 DEF Waits
    <3>5. Holds(p, u, s) <=> Holds(q, u, s) \/ (u = t /\ s = r)
      BY <2>2, <2>5, <3>1, <3>2, <3>3 DEF Holds
    <3>6. QED BY <3>4, <3>5
  <2>9. QED BY <2>1, <2>3, <2>4, <2>6, <2>7, <2>8
<1>4. QED BY <1>2, <1>3

\* wfg_remove_edge fails exactly when there is no edge between the thread and
\* the resource; if there is one, or two, one goes (libwfg.c:136-149).
LEMMA RemoveOneFacts ==
  ASSUME NEW q \in Seq(Edge), Unique(q), NEW t \in Threads, NEW r \in Resources
  PROVE  LET out == wfg_remove_edge(q, t, r)
         IN  /\ out.q \in Seq(Edge) /\ Unique(out.q)
             /\ out.ret = 0 <=> Waits(q, t, r) \/ Holds(q, t, r)
             /\ out.ret = 0 =>
                  \/ /\ Waits(q, t, r)
                     /\ \A u \in Threads, s \in Resources :
                          /\ Waits(out.q, u, s) <=> Waits(q, u, s) /\ ~ (u = t /\ s = r)
                          /\ Holds(out.q, u, s) <=> Holds(q, u, s)
                  \/ /\ Holds(q, t, r)
                     /\ \A u \in Threads, s \in Resources :
                          /\ Waits(out.q, u, s) <=> Waits(q, u, s)
                          /\ Holds(out.q, u, s) <=> Holds(q, u, s) /\ ~ (u = t /\ s = r)
             /\ out.ret # 0 => out.q = q
<1> DEFINE I == {i \in DOMAIN q : q[i].t_id = t /\ q[i].r_id = r}
           item == FirstOf(I)
           p == queue_remove_at(q, item)
<1>1. \A i \in DOMAIN q : q[i] \in Edge
  OBVIOUS
<1>2. Len(q) \in Nat /\ DOMAIN q = 1 .. Len(q)
  OBVIOUS
<1>3. /\ item = NULL <=> I = {}
      /\ I # {} => item \in I
  <2>1. I \in SUBSET (1 .. Len(q))
    BY <1>2
  <2>2. QED BY <1>2, <2>1, FirstOfFacts
<1>4. I = {} <=> ~ (Waits(q, t, r) \/ Holds(q, t, r))
  BY <1>1 DEF Waits, Holds, Edge
<1>5. CASE I = {}
  BY <1>3, <1>4, <1>5 DEF wfg_remove_edge
<1>6. CASE I # {}
  <2>1. item \in DOMAIN q /\ q[item].t_id = t /\ q[item].r_id = r /\ item # NULL
    BY <1>3, <1>6
  <2>2. q[item].flag \in {"Wait", "Hold"}
    BY <1>1, <2>1 DEF Edge
  <2>3. wfg_remove_edge(q, t, r) = [q |-> p, ret |-> 0]
    BY <2>1 DEF wfg_remove_edge
  <2>4. /\ p \in Seq(Edge)
        /\ DOMAIN p = 1 .. Len(q) - 1
        /\ \A i \in DOMAIN p : p[i] = IF i < item THEN q[i] ELSE q[i + 1]
    <3>1. item \in DOMAIN q
      BY <2>1
    <3> HIDE DEF item
    <3>2. QED BY <3>1, RemoveAtFacts
  <2> DEFINE from(i) == IF i < item THEN i ELSE i + 1
  <2>5. item \in 1 .. Len(q)
    BY <1>2, <2>1
  <2> HIDE DEF p, item
  <2>6. /\ \A i \in DOMAIN p : from(i) \in DOMAIN q /\ from(i) # item /\ p[i] = q[from(i)]
        /\ \A i, j \in DOMAIN p : from(i) = from(j) => i = j
    BY <1>2, <2>4, <2>5
  <2>7. \A i \in DOMAIN q : i # item => \E j \in DOMAIN p : from(j) = i
    <3>1. ASSUME NEW i \in DOMAIN q, i # item
          PROVE  \E j \in DOMAIN p : from(j) = i
      <4>1. CASE i < item
        BY <1>2, <2>4, <2>5, <4>1
      <4>2. CASE i > item
        <5>1. i - 1 \in DOMAIN p /\ from(i - 1) = i
          BY <1>2, <2>4, <2>5, <4>2
        <5>2. QED BY <5>1
      <4>3. QED BY <1>2, <2>5, <3>1, <4>1, <4>2
    <3>2. QED BY <3>1
  <2> HIDE DEF from
  <2>8. Unique(p)
    BY <2>6 DEF Unique
  <2>9. ASSUME q[item].flag = "Wait", NEW u \in Threads, NEW s \in Resources
        PROVE  /\ Waits(p, u, s) <=> Waits(q, u, s) /\ ~ (u = t /\ s = r)
               /\ Holds(p, u, s) <=> Holds(q, u, s)
    <3>1. \A i \in DOMAIN q : q[i].flag = "Wait" /\ q[i].t_id = t => i = item
      BY <2>1, <2>9 DEF Unique
    <3>2. Waits(p, u, s) <=> Waits(q, u, s) /\ ~ (u = t /\ s = r)
      BY <2>1, <2>6, <2>7, <3>1 DEF Waits
    <3>3. Holds(p, u, s) <=> Holds(q, u, s)
      BY <2>6, <2>7, <2>9 DEF Holds
    <3>4. QED BY <3>2, <3>3
  <2>10. ASSUME q[item].flag = "Hold", NEW u \in Threads, NEW s \in Resources
         PROVE  /\ Waits(p, u, s) <=> Waits(q, u, s)
                /\ Holds(p, u, s) <=> Holds(q, u, s) /\ ~ (u = t /\ s = r)
    <3>1. \A i \in DOMAIN q : q[i].flag = "Hold" /\ q[i].r_id = r => i = item
      BY <2>1, <2>10 DEF Unique
    <3>2. Waits(p, u, s) <=> Waits(q, u, s)
      BY <2>6, <2>7, <2>10 DEF Waits
    <3>3. Holds(p, u, s) <=> Holds(q, u, s) /\ ~ (u = t /\ s = r)
      BY <2>1, <2>6, <2>7, <3>1 DEF Holds
    <3>4. QED BY <3>2, <3>3
  <2>11. CASE q[item].flag = "Wait"
    <3>1. Waits(q, t, r)
      BY <2>1, <2>11 DEF Waits
    <3>2. QED BY <1>4, <1>6, <2>3, <2>4, <2>8, <2>9, <2>11, <3>1
  <2>12. CASE q[item].flag = "Hold"
    <3>1. Holds(q, t, r)
      BY <2>1, <2>12 DEF Holds
    <3>2. QED BY <1>4, <1>6, <2>3, <2>4, <2>8, <2>10, <2>12, <3>1
  <2>13. QED BY <2>2, <2>11, <2>12
<1>7. QED BY <1>5, <1>6

\* If there is only one, that one goes.
LEMMA RemoveFacts ==
  ASSUME NEW q \in Seq(Edge), Unique(q), NEW t \in Threads, NEW r \in Resources,
         ~ (Waits(q, t, r) /\ Holds(q, t, r))
  PROVE  LET out == wfg_remove_edge(q, t, r)
         IN  /\ out.q \in Seq(Edge) /\ Unique(out.q)
             /\ out.ret = 0 <=> Waits(q, t, r) \/ Holds(q, t, r)
             /\ out.ret = 0 =>
                  \A u \in Threads, s \in Resources :
                    /\ Waits(out.q, u, s) <=> Waits(q, u, s) /\ ~ (u = t /\ s = r)
                    /\ Holds(out.q, u, s) <=> Holds(q, u, s) /\ ~ (u = t /\ s = r)
             /\ out.ret # 0 => out.q = q
BY RemoveOneFacts

-----------------------------------------------------------------------------
(* The walk of wfg_get_cycle.                                              *)

\* One turn of the inner loop never leaves a knot: from a thread of a knot it
\* comes to a thread of that knot (libwfg.c:206-215).
LEMMA NextWaitFacts ==
  ASSUME NEW q \in Seq(Edge), Unique(q), NEW e \in DOMAIN q, q[e].flag = "Wait"
  PROVE  LET n == next_wait(q, e)
         IN  /\ n # NULL => n \in DOMAIN q /\ q[n].flag = "Wait"
             /\ \A S \in SUBSET Threads : Knot(q, S) /\ q[e].t_id \in S =>
                  n # NULL /\ q[n].t_id \in S
<1> DEFINE h == fetch_resource_hold(q, q[e].r_id)
           n == next_wait(q, e)
<1>1. \A i \in DOMAIN q : q[i].t_id \in Threads /\ q[i].r_id \in Resources
  <2>1. \A i \in DOMAIN q : q[i] \in Edge
    OBVIOUS
  <2>2. QED BY <2>1 DEF Edge
<1>2. h # NULL => h \in DOMAIN q /\ q[h].r_id = q[e].r_id /\ q[h].flag = "Hold"
  BY <1>1, FetchHoldFacts
<1>3. n # NULL => /\ h # NULL
                  /\ n = fetch_thread_wait(q, q[h].t_id)
  BY DEF next_wait
<1>4. n # NULL => n \in DOMAIN q /\ q[n].flag = "Wait" /\ q[n].t_id = q[h].t_id
  <2> HIDE DEF h, n
  <2>1. QED BY <1>1, <1>2, <1>3, FetchWaitFacts
<1>5. ASSUME NEW S \in SUBSET Threads, Knot(q, S), q[e].t_id \in S
      PROVE  n # NULL /\ q[n].t_id \in S
  <2>1. PICK u \in S, r \in Resources : Waits(q, q[e].t_id, r) /\ Holds(q, u, r)
    BY <1>5 DEF Knot, WaitsFor
  <2>2. q[e].r_id = r
    BY <2>1 DEF Waits, Unique
  <2>3. h # NULL
    <3>1. u \in Threads
      OBVIOUS
    <3>2. QED BY <2>1, <2>2, <3>1, FetchHoldFacts
  <2>4. q[h].t_id = u
    BY <1>2, <2>1, <2>2, <2>3 DEF Holds, Unique
  <2>5. \E s \in Resources : Waits(q, u, s)
    BY <1>5 DEF Knot, WaitsFor
  <2>6. fetch_thread_wait(q, u) # NULL
    <3>1. u \in Threads
      OBVIOUS
    <3>2. QED BY <2>5, <3>1, FetchWaitFacts
  <2>7. n # NULL
    BY <2>3, <2>4, <2>6 DEF next_wait
  <2>8. QED BY <1>4, <2>4, <2>7
<1>6. QED BY <1>4, <1>5

\* It comes to the thread that holds what the last one waits for.
LEMMA NextIsWaitedFor ==
  ASSUME NEW q \in Seq(Edge), NEW e \in DOMAIN q, q[e].flag = "Wait", next_wait(q, e) # NULL
  PROVE  WaitsFor(q, q[e].t_id, q[next_wait(q, e)].t_id)
<1> DEFINE h == fetch_resource_hold(q, q[e].r_id)
           n == next_wait(q, e)
<1>1. \A i \in DOMAIN q : q[i].t_id \in Threads /\ q[i].r_id \in Resources
  <2>1. \A i \in DOMAIN q : q[i] \in Edge
    OBVIOUS
  <2>2. QED BY <2>1 DEF Edge
<1>2. h # NULL /\ n = fetch_thread_wait(q, q[h].t_id)
  BY DEF next_wait
<1>3. h \in DOMAIN q /\ q[h].r_id = q[e].r_id /\ q[h].flag = "Hold"
  BY <1>1, <1>2, FetchHoldFacts
<1>4. q[n].t_id = q[h].t_id
  <2> HIDE DEF h, n
  <2>1. n # NULL
    BY DEF n
  <2>2. QED BY <1>1, <1>2, <1>3, <2>1, FetchWaitFacts
<1>5. Waits(q, q[e].t_id, q[e].r_id) /\ Holds(q, q[h].t_id, q[e].r_id)
  BY <1>3 DEF Waits, Holds
<1>6. QED BY <1>1, <1>4, <1>5 DEF WaitsFor

\* The outer loop goes on from position i, when no wait edge before i belongs
\* to a thread of a knot: either a walk begins, or there is no knot at all
\* (libwfg.c:198-204).
LEMMA WalkFromFacts ==
  ASSUME NEW q \in Seq(Edge), NEW i \in Nat,
         \A S \in SUBSET Threads : Knot(q, S) =>
           \A j \in DOMAIN q : q[j].flag = "Wait" /\ j < i => q[j].t_id \notin S
  PROVE  LET w == walk_from(q, i)
         IN  /\ w \in Walk
             /\ w.start # NULL => WalkSound(q, w)
             /\ w.start = NULL => w = NoWalk /\ NoKnot(q)
<1> DEFINE I == {j \in DOMAIN q : j >= i /\ q[j].flag = "Wait"}
           first == FirstOf(I)
<1>1. /\ Len(q) \in Nat /\ DOMAIN q = 1 .. Len(q)
      /\ \A j \in DOMAIN q : q[j] \in Edge
  OBVIOUS
<1>2. /\ first = NULL <=> I = {}
      /\ I # {} => first \in I /\ \A j \in I : first <= j
  <2>1. I \in SUBSET (1 .. Len(q))
    BY <1>1
  <2>2. QED BY <1>1, <2>1, FirstOfFacts
<1>3. CASE first # NULL
  <2>1. first \in DOMAIN q /\ q[first].flag = "Wait" /\ first \in Nat
    BY <1>1, <1>2, <1>3
  <2>2. walk_from(q, i) = [start |-> first, begin |-> first, seen |-> {q[first].t_id}]
    BY <1>3 DEF walk_from
  <2>3. q[first].t_id \in Threads
    BY <1>1, <2>1 DEF Edge
  <2>4. ASSUME NEW S \in SUBSET Threads, Knot(q, S), NEW j \in DOMAIN q,
               q[j].flag = "Wait", j < first
        PROVE  q[j].t_id \notin S
    <3>1. j \in Nat
      BY <1>1
    <3>2. j \notin I
      <4>1. \A k \in I : first <= k
        BY <1>2, <1>3
      <4> HIDE DEF first, I
      <4>2. QED BY <2>1, <2>4, <3>1, <4>1
    <3>3. j < i
      BY <2>4, <3>1, <3>2
    <3>4. QED BY <2>4, <3>3
  <2> HIDE DEF first
  <2>5. QED BY <2>1, <2>2, <2>3, <2>4 DEF WalkSound, Walk, NULL
<1>4. CASE first = NULL
  <2>1. walk_from(q, i) = NoWalk
    BY <1>4 DEF walk_from
  <2>2. \A j \in DOMAIN q : q[j].flag = "Wait" => j < i
    BY <1>1, <1>2, <1>4
  <2>3. ASSUME NEW S \in SUBSET Threads, Knot(q, S), S # {} PROVE FALSE
    <3>1. PICK t \in S : \E r \in Resources : Waits(q, t, r)
      BY <2>3 DEF Knot, WaitsFor
    <3>2. QED BY <2>2, <2>3, <3>1 DEF Waits
  <2>4. QED BY <2>1, <2>3 DEF NoWalk, Walk, NULL, NoKnot
<1>5. QED BY <1>3, <1>4

\* A turn of the loops keeps the walk sound, and the loops end without a
\* cycle only when there is no knot in the graph (libwfg.c:198-219).
LEMMA WalkStepFacts ==
  ASSUME NEW q \in Seq(Edge), Unique(q), NEW w \in Walk, w.start # NULL,
         WalkSound(q, w)
  PROVE  LET v == walk_step(q, w)
         IN  /\ v \in Walk
             /\ v.start # NULL => WalkSound(q, v)
             /\ v.start = NULL /\ v.seen = {} => NoKnot(q)
<1> DEFINE n == next_wait(q, w.begin)
<1>1. /\ w.start \in DOMAIN q /\ w.begin \in DOMAIN q
      /\ q[w.start].flag = "Wait" /\ q[w.begin].flag = "Wait"
      /\ w.start \in Nat /\ w.seen \in SUBSET Threads
  BY DEF WalkSound, Walk
<1>2. /\ n # NULL => n \in DOMAIN q /\ q[n].flag = "Wait"
      /\ \A S \in SUBSET Threads : Knot(q, S) /\ q[w.begin].t_id \in S =>
           n # NULL /\ q[n].t_id \in S
  BY <1>1, NextWaitFacts
<1>3. CASE n = NULL
  <2>1. walk_step(q, w) = walk_from(q, w.start + 1)
    BY <1>3 DEF walk_step
  <2>2. ASSUME NEW S \in SUBSET Threads, Knot(q, S), NEW j \in DOMAIN q,
               q[j].flag = "Wait", j < w.start + 1
        PROVE  q[j].t_id \notin S
    <3>1. q[w.start].t_id \notin S
      BY <1>2, <1>3, <2>2 DEF WalkSound
    <3>2. j < w.start \/ j = w.start
      BY <1>1, <2>2
    <3>3. QED BY <2>2, <3>1, <3>2 DEF WalkSound
  <2>3. w.start + 1 \in Nat
    BY <1>1
  <2>4. QED BY <2>1, <2>2, <2>3, WalkFromFacts
<1>4. CASE n # NULL /\ n = w.start
  <2>1. walk_step(q, w) = Found(w.seen)
    BY <1>4 DEF walk_step
  <2>2. w.seen # {}
    BY DEF WalkSound
  <2>3. QED BY <1>1, <2>1, <2>2 DEF Found, Walk, NULL
<1>5. CASE n # NULL /\ n # w.start
  <2> DEFINE v == [start |-> w.start, begin |-> n, seen |-> w.seen \cup {q[n].t_id}]
  <2>1. walk_step(q, w) = v
    BY <1>5 DEF walk_step
  <2>2. n \in DOMAIN q /\ q[n].flag = "Wait" /\ n \in Nat
    BY <1>2, <1>5
  <2>3. q[n] \in Edge
    BY <2>2
  <2>4. q[n].t_id \in Threads
    BY <2>3 DEF Edge
  <2>5. v \in Walk
    BY <1>1, <2>2, <2>4 DEF Walk
  <2>6. /\ v.start = w.start /\ v.begin = n /\ w.seen \subseteq v.seen
    OBVIOUS
  <2> HIDE DEF n, v
  <2>7. WalkSound(q, v)
    BY <1>1, <1>2, <2>2, <2>6 DEF WalkSound
  <2>8. QED BY <2>1, <2>5, <2>6, <2>7
<1>6. QED BY <1>3, <1>4, <1>5

\* A walk begins with one thread, and each turn adds the one that the last
\* waits for; when it comes back to the edge it began from, its threads are
\* one cycle (libwfg.c:198-219).
LEMMA PathFromFacts ==
  ASSUME NEW q \in Seq(Edge), NEW i \in Nat, walk_from(q, i).start # NULL
  PROVE  WalkPath(q, walk_from(q, i))
BY DEF walk_from, NoWalk, WalkPath

LEMMA PathStepFacts ==
  ASSUME NEW q \in Seq(Edge), Unique(q), NEW w \in Walk, w.start # NULL,
         WalkSound(q, w), WalkPath(q, w)
  PROVE  LET v == walk_step(q, w)
         IN  /\ v.start # NULL => WalkPath(q, v)
             /\ v.start = NULL => v.seen = {} \/ IsCycle(q, v.seen)
<1> DEFINE n == next_wait(q, w.begin)
           last == q[w.begin].t_id
           first == q[w.start].t_id
<1>1. /\ w.start \in DOMAIN q /\ w.begin \in DOMAIN q
      /\ q[w.begin].flag = "Wait" /\ w.start \in Nat /\ w.seen \in SUBSET Threads
      /\ first \in w.seen /\ last \in w.seen
  BY DEF WalkSound, WalkPath, Walk
<1>2. /\ \A t \in w.seen \ {last} : \E u \in w.seen : WaitsFor(q, t, u)
      /\ \A S \in SUBSET Threads : Knot(q, S) =>
           /\ S \cap w.seen # {} => last \in S
           /\ first \in S => w.seen \subseteq S
  BY DEF WalkPath
<1>3. \A S \in SUBSET Threads : Knot(q, S) /\ last \in S => n # NULL /\ q[n].t_id \in S
  BY <1>1, NextWaitFacts
<1>4. n # NULL => WaitsFor(q, last, q[n].t_id)
  BY <1>1, NextIsWaitedFor
<1>5. CASE n = NULL
  <2>1. walk_step(q, w) = walk_from(q, w.start + 1)
    BY <1>5 DEF walk_step
  <2>2. w.start + 1 \in Nat
    BY <1>1
  <2>3. walk_from(q, w.start + 1).start = NULL => walk_from(q, w.start + 1).seen = {}
    BY DEF walk_from, NoWalk
  <2>4. QED BY <2>1, <2>2, <2>3, PathFromFacts
<1>6. CASE n # NULL /\ n = w.start
  <2>1. walk_step(q, w) = Found(w.seen)
    BY <1>6 DEF walk_step
  <2>2. Knot(q, w.seen)
    BY <1>1, <1>2, <1>4, <1>6 DEF Knot
  <2>3. ASSUME NEW P \in SUBSET w.seen, P # {}, Knot(q, P) PROVE P = w.seen
    <3>1. P \in SUBSET Threads
      BY <1>1
    <3>2. last \in P
      BY <1>2, <2>3, <3>1
    <3>3. first \in P
      BY <1>3, <1>6, <2>3, <3>1, <3>2
    <3>4. QED BY <1>2, <2>3, <3>1, <3>3
  <2>4. IsCycle(q, w.seen)
    BY <1>1, <2>2, <2>3 DEF IsCycle
  <2>5. QED BY <2>1, <2>4 DEF Found
<1>7. CASE n # NULL /\ n # w.start
  <2> DEFINE v == [start |-> w.start, begin |-> n, seen |-> w.seen \cup {q[n].t_id}]
  <2>1. walk_step(q, w) = v
    BY <1>7 DEF walk_step
  <2>2. v.start = w.start /\ v.begin = n /\ v.seen = w.seen \cup {q[n].t_id}
    OBVIOUS
  <2>3. \A t \in v.seen \ {q[n].t_id} : \E u \in v.seen : WaitsFor(q, t, u)
    BY <1>1, <1>2, <1>4, <1>7
  <2>4. ASSUME NEW S \in SUBSET Threads, Knot(q, S)
        PROVE  /\ S \cap v.seen # {} => q[n].t_id \in S
               /\ first \in S => v.seen \subseteq S
    <3>1. S \cap w.seen # {} => q[n].t_id \in S
      BY <1>2, <1>3, <2>4
    <3>2. QED BY <1>1, <1>2, <2>4, <3>1
  <2> HIDE DEF v, n
  <2>5. WalkPath(q, v)
    BY <2>2, <2>3, <2>4 DEF WalkPath
  <2>6. QED BY <1>1, <2>1, <2>2, <2>5
<1>8. QED BY <1>5, <1>6, <1>7

\* A turn that ends wfg_get_cycle's loops returns threads if and only if the graph
\* has a knot, and then they are one cycle; a turn that does not leaves a walk of
\* which the next turn can say the same (libwfg.c:198-219).
THEOREM TurnDecides ==
  ASSUME NEW q \in Seq(Edge), Unique(q), NEW w \in Walk, w.start # NULL,
         WalkSound(q, w), WalkPath(q, w)
  PROVE  LET v == walk_step(q, w)
         IN  IF v.start # NULL
               THEN v \in Walk /\ WalkSound(q, v) /\ WalkPath(q, v)
               ELSE /\ v.seen # {} <=> \E S \in SUBSET Threads : S # {} /\ Knot(q, S)
                    /\ v.seen # {} => IsCycle(q, v.seen)
<1> DEFINE v == walk_step(q, w)
<1>1. /\ v \in Walk
      /\ v.start # NULL => WalkSound(q, v) /\ WalkPath(q, v)
      /\ v.start = NULL /\ v.seen = {} => NoKnot(q)
      /\ v.start = NULL => v.seen = {} \/ IsCycle(q, v.seen)
  BY WalkStepFacts, PathStepFacts
<1>2. v.seen \in SUBSET Threads
  BY <1>1 DEF Walk
<1> HIDE DEF v
<1>3. v.start = NULL => (v.seen # {} <=> \E S \in SUBSET Threads : S # {} /\ Knot(q, S))
  BY <1>1, <1>2 DEF IsCycle, NoKnot
<1>4. QED BY <1>1, <1>3 DEF v

-----------------------------------------------------------------------------
(* The library under every sequence of calls (WfgCalls).                   *)

LEMMA InitWfgInv == wfg_init => WfgInv
<1> SUFFICES ASSUME wfg_init PROVE WfgInv
  OBVIOUS
<1>1. WfgTypeOK
  BY DEF wfg_init, WfgTypeOK, NoWalk, Walk, NULL
<1>2. UniqueEdges /\ ~ InGetCycle
  BY DEF wfg_init, UniqueEdges, Unique, InGetCycle, NoWalk
<1>3. QED BY <1>1, <1>2 DEF WfgInv

\* A call that changes the graph leaves its queue in order, and says no with
\* one of its codes (libwfg.c:56-149).
LEMMA ChangeStep ==
  ASSUME WfgInv, NEW outcome, Change(outcome),
         outcome.q \in Seq(Edge), Unique(outcome.q), outcome.ret \in 0 .. 3
  PROVE  WfgInv'
BY DEF WfgInv, WfgTypeOK, UniqueEdges, InGetCycle, Change

LEMMA RetFacts ==
  \A t \in Threads, r \in Resources :
    /\ wfg_add_wait_edge(wfg, t, r).ret \in 0 .. 3
    /\ wfg_add_hold_edge(wfg, t, r).ret \in 0 .. 3
    /\ wfg_remove_edge(wfg, t, r).ret \in 0 .. 3
BY DEF wfg_add_wait_edge, wfg_add_hold_edge, wfg_remove_edge

\* A turn of wfg_get_cycle: the walk is a path of the graph as it is, and when
\* it ends it has one cycle, or there is none (libwfg.c:198-232).
LEMMA WalkStep ==
  ASSUME WfgInv, GetCycle \/ GetCycleStep
  PROVE  /\ WfgInv' /\ wfg' = wfg
         /\ InGetCycle' => UNCHANGED <<ret, array>>
         /\ ~ InGetCycle' => /\ ret' = 0
                             /\ IsCycle(wfg, array') \/ (array' = {} /\ NoKnot(wfg))
<1>1. wfg \in Seq(Edge) /\ Unique(wfg) /\ locals \in Walk /\ ret \in 0 .. 3 /\ array \in SUBSET Threads
  BY DEF WfgInv, WfgTypeOK, UniqueEdges
<1>2. PICK w \in Walk :
        /\ Continue(w)
        /\ w.start # NULL => WalkSound(wfg, w) /\ WalkPath(wfg, w)
        /\ w.start = NULL => IsCycle(wfg, w.seen) \/ (w.seen = {} /\ NoKnot(wfg))
  <2>1. CASE GetCycle
    <3> DEFINE w == walk_from(wfg, 1)
    <3>1. \A j \in DOMAIN wfg : ~ (j < 1)
      BY <1>1
    <3>2. /\ w \in Walk
          /\ w.start # NULL => WalkSound(wfg, w)
          /\ w.start = NULL => w = NoWalk /\ NoKnot(wfg)
      BY <1>1, <3>1, WalkFromFacts
    <3>3. w.start # NULL => WalkPath(wfg, w)
      BY <1>1, PathFromFacts
    <3>4. Continue(w)
      BY <2>1 DEF GetCycle
    <3> HIDE DEF w
    <3>5. QED BY <3>2, <3>3, <3>4 DEF NoWalk
  <2>2. CASE GetCycleStep
    <3> DEFINE w == walk_step(wfg, locals)
    <3>1. locals.start # NULL /\ WalkSound(wfg, locals) /\ WalkPath(wfg, locals)
      BY <2>2 DEF WfgInv, GetCycleStep, InGetCycle
    <3>2. /\ w \in Walk
          /\ w.start # NULL => WalkSound(wfg, w)
          /\ w.start = NULL /\ w.seen = {} => NoKnot(wfg)
      BY <1>1, <3>1, WalkStepFacts
    <3>3. /\ w.start # NULL => WalkPath(wfg, w)
          /\ w.start = NULL => w.seen = {} \/ IsCycle(wfg, w.seen)
      BY <1>1, <3>1, PathStepFacts
    <3>4. Continue(w)
      BY <2>2 DEF GetCycleStep
    <3> HIDE DEF w
    <3>5. QED BY <3>2, <3>3, <3>4
  <2>3. QED BY <2>1, <2>2
<1>3. wfg' = wfg
  BY <1>2 DEF Continue
<1>4. CASE w.start = NULL
  <2>1. locals' = NoWalk /\ array' = w.seen /\ ret' = 0
    BY <1>2, <1>4 DEF Continue
  <2>2. ~ InGetCycle'
    BY <2>1 DEF InGetCycle, NoWalk
  <2>3. locals' \in Walk /\ array' \in SUBSET Threads
    BY <2>1 DEF NoWalk, Walk, NULL
  <2>4. WfgInv'
    BY <1>1, <1>3, <2>1, <2>2, <2>3 DEF WfgInv, WfgTypeOK, UniqueEdges
  <2>5. QED BY <1>2, <1>3, <1>4, <2>1, <2>2, <2>4
<1>5. CASE w.start # NULL
  <2>1. locals' = w /\ array' = array /\ ret' = ret
    BY <1>2, <1>5 DEF Continue
  <2>2. InGetCycle'
    BY <1>5, <2>1 DEF InGetCycle
  <2>3. WfgInv'
    BY <1>1, <1>2, <1>3, <1>5, <2>1, <2>2 DEF WfgInv, WfgTypeOK, UniqueEdges
  <2>4. QED BY <1>3, <2>1, <2>2, <2>3
<1>6. QED BY <1>4, <1>5

LEMMA StepWfgInv == WfgInv /\ [WfgNext]_wfg_vars => WfgInv'
<1> SUFFICES ASSUME WfgInv, [WfgNext]_wfg_vars PROVE WfgInv'
  OBVIOUS
<1>1. wfg \in Seq(Edge) /\ Unique(wfg)
  BY DEF WfgInv, WfgTypeOK, UniqueEdges
<1>2. ASSUME NEW t \in Threads, NEW r \in Resources, AddWaitEdge(t, r) PROVE WfgInv'
  <2> DEFINE out == wfg_add_wait_edge(wfg, t, r)
  <2>1. out.q \in Seq(Edge) /\ Unique(out.q) /\ out.ret \in 0 .. 3
    BY <1>1, AddWaitFacts, RetFacts
  <2>2. Change(out)
    BY <1>2 DEF AddWaitEdge
  <2> HIDE DEF out
  <2>3. QED BY <2>1, <2>2, ChangeStep
<1>3. ASSUME NEW t \in Threads, NEW r \in Resources, AddHoldEdge(t, r) PROVE WfgInv'
  <2> DEFINE out == wfg_add_hold_edge(wfg, t, r)
  <2>1. out.q \in Seq(Edge) /\ Unique(out.q) /\ out.ret \in 0 .. 3
    BY <1>1, AddHoldFacts, RetFacts
  <2>2. Change(out)
    BY <1>3 DEF AddHoldEdge
  <2> HIDE DEF out
  <2>3. QED BY <2>1, <2>2, ChangeStep
<1>4. ASSUME NEW t \in Threads, NEW r \in Resources, RemoveEdge(t, r) PROVE WfgInv'
  <2> DEFINE out == wfg_remove_edge(wfg, t, r)
  <2>1. out.q \in Seq(Edge) /\ Unique(out.q) /\ out.ret \in 0 .. 3
    BY <1>1, RemoveOneFacts, RetFacts
  <2>2. Change(out)
    BY <1>4 DEF RemoveEdge
  <2> HIDE DEF out
  <2>3. QED BY <2>1, <2>2, ChangeStep
<1>5. CASE GetCycle \/ GetCycleStep
  BY <1>5, WalkStep
<1>6. CASE UNCHANGED wfg_vars
  BY <1>6 DEF wfg_vars, WfgInv, WfgTypeOK, UniqueEdges, InGetCycle
<1>7. QED BY <1>2, <1>3, <1>4, <1>5, <1>6 DEF WfgNext

\* Whatever is called, a thread has one wait edge and a resource one hold edge
\* at most, and a walk has gone through threads that wait for each other
\* (libwfg.c:56-219).
THEOREM WfgInvariance == WfgSpec => []WfgInv
BY InitWfgInv, StepWfgInv, PTL DEF WfgSpec

-----------------------------------------------------------------------------
(* The abstract graph.                                                     *)

LEMMA WaitOfFacts ==
  ASSUME NEW q \in Seq(Edge), Unique(q), NEW t \in Threads
  PROVE  /\ WaitOf(q, t) \in Resources \cup {Nobody}
         /\ \A r \in Resources : WaitOf(q, t) = r <=> Waits(q, t, r)
         /\ WaitOf(q, t) = Nobody <=> \A r \in Resources : ~ Waits(q, t, r)
<1>1. ASSUME NEW r \in Resources, NEW s \in Resources, Waits(q, t, r), Waits(q, t, s) PROVE r = s
  BY <1>1 DEF Waits, Unique
<1>2. QED BY <1>1, NobodyAssumption DEF WaitOf

LEMMA HolderOfFacts ==
  ASSUME NEW q \in Seq(Edge), Unique(q), NEW r \in Resources
  PROVE  /\ HolderOf(q, r) \in Threads \cup {Nobody}
         /\ \A t \in Threads : HolderOf(q, r) = t <=> Holds(q, t, r)
         /\ HolderOf(q, r) = Nobody <=> \A t \in Threads : ~ Holds(q, t, r)
<1>1. ASSUME NEW t \in Threads, NEW u \in Threads, Holds(q, t, r), Holds(q, u, r) PROVE t = u
  BY <1>1 DEF Holds, Unique
<1>2. QED BY <1>1, NobodyAssumption DEF HolderOf

\* A thread whose wait edges are the same waits for the same, and so on.
LEMMA SameFacts ==
  ASSUME NEW p \in Seq(Edge), Unique(p), NEW q \in Seq(Edge), Unique(q)
  PROVE  /\ \A t \in Threads : (\A r \in Resources : Waits(p, t, r) <=> Waits(q, t, r))
              => WaitOf(p, t) = WaitOf(q, t)
         /\ \A r \in Resources : (\A t \in Threads : Holds(p, t, r) <=> Holds(q, t, r))
              => HolderOf(p, r) = HolderOf(q, r)
<1>1. ASSUME NEW t \in Threads, \A r \in Resources : Waits(p, t, r) <=> Waits(q, t, r)
      PROVE  WaitOf(p, t) = WaitOf(q, t)
  BY <1>1, WaitOfFacts
<1>2. ASSUME NEW r \in Resources, \A t \in Threads : Holds(p, t, r) <=> Holds(q, t, r)
      PROVE  HolderOf(p, r) = HolderOf(q, r)
  BY <1>2, HolderOfFacts
<1>3. QED BY <1>1, <1>2

\* A knot is a knot in both graphs.
LEMMA KnotFacts ==
  ASSUME WfgInv, NEW P \in SUBSET Threads PROVE Graph!Knot(P) <=> Knot(wfg, P)
<1>1. wfg \in Seq(Edge) /\ Unique(wfg)
  BY DEF WfgInv, WfgTypeOK, UniqueEdges
<1>2. ASSUME NEW t \in P
      PROVE  (\E u \in P : WaitsFor(wfg, t, u))
               <=> \E r \in Resources : WaitOf(wfg, t) = r /\ HolderOf(wfg, r) \in P
  <2>1. t \in Threads
    OBVIOUS
  <2>2. \A r \in Resources : WaitOf(wfg, t) = r <=> Waits(wfg, t, r)
    BY <1>1, <2>1, WaitOfFacts
  <2>3. \A r \in Resources : HolderOf(wfg, r) \in P <=> \E u \in P : Holds(wfg, u, r)
    BY <1>1, HolderOfFacts
  <2>4. QED BY <2>2, <2>3 DEF WaitsFor
<1>3. QED BY <1>2 DEF Graph!Knot, Knot

\* What a call does to the edges, in the abstract graph.
Wait == [t \in Threads |-> WaitOf(wfg, t)]
Hold == [r \in Resources |-> HolderOf(wfg, r)]

\* If a call changes only the edges of t and r, so does it in the abstract graph.
LEMMA MapFacts ==
  ASSUME WfgInv, WfgInv', NEW t \in Threads, NEW r \in Resources
  PROVE  /\ (\A u \in Threads, s \in Resources :
               Waits(wfg', u, s) <=> Waits(wfg, u, s) \/ (u = t /\ s = r))
              => Wait' = [Wait EXCEPT ![t] = r]
         /\ (\A u \in Threads, s \in Resources :
               Waits(wfg', u, s) <=> Waits(wfg, u, s) /\ ~ (u = t /\ s = r))
              /\ Waits(wfg, t, r)
              => Wait' = [Wait EXCEPT ![t] = Nobody]
         /\ (\A u \in Threads, s \in Resources : Waits(wfg', u, s) <=> Waits(wfg, u, s))
              => Wait' = Wait
         /\ (\A u \in Threads, s \in Resources :
               Holds(wfg', u, s) <=> Holds(wfg, u, s) \/ (u = t /\ s = r))
              => Hold' = [Hold EXCEPT ![r] = t]
         /\ (\A u \in Threads, s \in Resources :
               Holds(wfg', u, s) <=> Holds(wfg, u, s) /\ ~ (u = t /\ s = r))
              /\ Holds(wfg, t, r)
              => Hold' = [Hold EXCEPT ![r] = Nobody]
         /\ (\A u \in Threads, s \in Resources : Holds(wfg', u, s) <=> Holds(wfg, u, s))
              => Hold' = Hold
<1> DEFINE q == wfg
           p == wfg'
<1>1. q \in Seq(Edge) /\ Unique(q) /\ p \in Seq(Edge) /\ Unique(p)
  BY DEF WfgInv, WfgTypeOK, UniqueEdges
<1> DEFINE w == [u \in Threads |-> WaitOf(q, u)]
           v == [u \in Threads |-> WaitOf(p, u)]
           h == [s \in Resources |-> HolderOf(q, s)]
           k == [s \in Resources |-> HolderOf(p, s)]
<1>2. Wait = w /\ Wait' = v /\ Hold = h /\ Hold' = k
  BY DEF Wait, Hold
<1> HIDE DEF p, q
<1>3. ASSUME \A u \in Threads, s \in Resources :
               Waits(p, u, s) <=> Waits(q, u, s) \/ (u = t /\ s = r)
      PROVE  v = [w EXCEPT ![t] = r]
  <2>1. \A u \in Threads : u # t => WaitOf(p, u) = WaitOf(q, u)
    BY <1>1, <1>3, SameFacts
  <2>2. WaitOf(p, t) = r
    BY <1>1, <1>3, WaitOfFacts
  <2>3. QED BY <2>1, <2>2
<1>4. ASSUME \A u \in Threads, s \in Resources :
               Waits(p, u, s) <=> Waits(q, u, s) /\ ~ (u = t /\ s = r),
             Waits(q, t, r)
      PROVE  v = [w EXCEPT ![t] = Nobody]
  <2>1. \A u \in Threads : u # t => WaitOf(p, u) = WaitOf(q, u)
    BY <1>1, <1>4, SameFacts
  <2>2. \A s \in Resources : Waits(q, t, s) => s = r
    BY <1>1, <1>4, WaitOfFacts
  <2>3. WaitOf(p, t) = Nobody
    BY <1>1, <1>4, <2>2, WaitOfFacts
  <2>4. QED BY <2>1, <2>3
<1>5. ASSUME \A u \in Threads, s \in Resources : Waits(p, u, s) <=> Waits(q, u, s) PROVE v = w
  <2>1. \A u \in Threads : WaitOf(p, u) = WaitOf(q, u)
    BY <1>1, <1>5, SameFacts
  <2>2. QED BY <2>1
<1>6. ASSUME \A u \in Threads, s \in Resources :
               Holds(p, u, s) <=> Holds(q, u, s) \/ (u = t /\ s = r)
      PROVE  k = [h EXCEPT ![r] = t]
  <2>1. \A s \in Resources : s # r => HolderOf(p, s) = HolderOf(q, s)
    BY <1>1, <1>6, SameFacts
  <2>2. HolderOf(p, r) = t
    BY <1>1, <1>6, HolderOfFacts
  <2>3. QED BY <2>1, <2>2
<1>7. ASSUME \A u \in Threads, s \in Resources :
               Holds(p, u, s) <=> Holds(q, u, s) /\ ~ (u = t /\ s = r),
             Holds(q, t, r)
      PROVE  k = [h EXCEPT ![r] = Nobody]
  <2>1. \A s \in Resources : s # r => HolderOf(p, s) = HolderOf(q, s)
    BY <1>1, <1>7, SameFacts
  <2>2. \A u \in Threads : Holds(q, u, r) => u = t
    BY <1>1, <1>7, HolderOfFacts
  <2>3. HolderOf(p, r) = Nobody
    BY <1>1, <1>7, <2>2, HolderOfFacts
  <2>4. QED BY <2>1, <2>3
<1>8. ASSUME \A u \in Threads, s \in Resources : Holds(p, u, s) <=> Holds(q, u, s) PROVE k = h
  <2>1. \A s \in Resources : HolderOf(p, s) = HolderOf(q, s)
    BY <1>1, <1>8, SameFacts
  <2>2. QED BY <2>1
<1>9. QED BY <1>2, <1>3, <1>4, <1>5, <1>6, <1>7, <1>8 DEF p, q

LEMMA InitGraph == wfg_init => Graph!Init
<1> SUFFICES ASSUME wfg_init PROVE Graph!Init
  OBVIOUS
<1>1. wfg = <<>> /\ ret = 0 /\ array = {}
  BY DEF wfg_init
<1>2. \A t \in Threads, r \in Resources : ~ Waits(wfg, t, r) /\ ~ Holds(wfg, t, r)
  BY <1>1 DEF Waits, Holds
<1>3. \A t \in Threads : WaitOf(wfg, t) = Nobody
  BY <1>2 DEF WaitOf
<1>4. \A r \in Resources : HolderOf(wfg, r) = Nobody
  BY <1>2 DEF HolderOf
<1>5. QED BY <1>1, <1>3, <1>4 DEF Graph!Init

LEMMA AddWaitGraph ==
  ASSUME WfgInv, WfgInv', NEW t \in Threads, NEW r \in Resources, AddWaitEdge(t, r)
  PROVE  Graph!AddWaitEdge(t, r)
<1> DEFINE out == wfg_add_wait_edge(wfg, t, r)
<1>1. wfg \in Seq(Edge) /\ Unique(wfg)
  BY DEF WfgInv, WfgTypeOK, UniqueEdges
<1>2. wfg' = out.q /\ ret' = out.ret /\ array' = {}
  BY DEF AddWaitEdge, Change
<1>3. /\ out.ret = 0 <=> WaitOf(wfg, t) = Nobody
      /\ out.ret = 0 =>
           \A u \in Threads, s \in Resources :
             /\ Waits(out.q, u, s) <=> Waits(wfg, u, s) \/ (u = t /\ s = r)
             /\ Holds(out.q, u, s) <=> Holds(wfg, u, s)
      /\ out.ret # 0 => out.q = wfg
  BY <1>1, AddWaitFacts, WaitOfFacts
<1> HIDE DEF out
<1>4. CASE ret' = 0
  <2>1. Wait' = [Wait EXCEPT ![t] = r] /\ Hold' = Hold
    BY <1>2, <1>3, <1>4, MapFacts
  <2>2. WaitOf(wfg, t) = Nobody
    BY <1>2, <1>3, <1>4
  <2>3. QED BY <1>2, <1>4, <2>1, <2>2 DEF Graph!AddWaitEdge, Wait, Hold
<1>5. CASE ret' # 0
  <2>1. Wait' = Wait /\ Hold' = Hold
    BY <1>2, <1>3, <1>5 DEF Wait, Hold
  <2>2. WaitOf(wfg, t) # Nobody
    BY <1>2, <1>3, <1>5
  <2>3. Wait = [Wait EXCEPT ![t] = @]
    BY DEF Wait
  <2>4. QED BY <1>2, <1>5, <2>1, <2>2, <2>3 DEF Graph!AddWaitEdge, Wait, Hold
<1>6. QED BY <1>4, <1>5

LEMMA AddHoldGraph ==
  ASSUME WfgInv, WfgInv', NEW t \in Threads, NEW r \in Resources, AddHoldEdge(t, r)
  PROVE  Graph!AddHoldEdge(t, r)
<1> DEFINE out == wfg_add_hold_edge(wfg, t, r)
<1>1. wfg \in Seq(Edge) /\ Unique(wfg)
  BY DEF WfgInv, WfgTypeOK, UniqueEdges
<1>2. wfg' = out.q /\ ret' = out.ret /\ array' = {}
  BY DEF AddHoldEdge, Change
<1>3. /\ out.ret = 0 <=> WaitOf(wfg, t) = r /\ HolderOf(wfg, r) = Nobody
      /\ out.ret = 0 => Waits(wfg, t, r)
      /\ out.ret = 0 =>
           \A u \in Threads, s \in Resources :
             /\ Waits(out.q, u, s) <=> Waits(wfg, u, s) /\ ~ (u = t /\ s = r)
             /\ Holds(out.q, u, s) <=> Holds(wfg, u, s) \/ (u = t /\ s = r)
      /\ out.ret # 0 => out.q = wfg
  <2>1. WaitOf(wfg, t) = r <=> Waits(wfg, t, r)
    BY <1>1, WaitOfFacts
  <2>2. HolderOf(wfg, r) = Nobody <=> \A u \in Threads : ~ Holds(wfg, u, r)
    BY <1>1, HolderOfFacts
  <2>3. QED BY <1>1, <2>1, <2>2, AddHoldFacts
<1> HIDE DEF out
<1>4. CASE ret' = 0
  <2>1. Wait' = [Wait EXCEPT ![t] = Nobody] /\ Hold' = [Hold EXCEPT ![r] = t]
    BY <1>2, <1>3, <1>4, MapFacts
  <2>2. WaitOf(wfg, t) = r /\ HolderOf(wfg, r) = Nobody
    BY <1>2, <1>3, <1>4
  <2>3. QED BY <1>2, <1>4, <2>1, <2>2 DEF Graph!AddHoldEdge, Wait, Hold
<1>5. CASE ret' # 0
  <2>1. Wait' = Wait /\ Hold' = Hold
    BY <1>2, <1>3, <1>5 DEF Wait, Hold
  <2>2. ~ (WaitOf(wfg, t) = r /\ HolderOf(wfg, r) = Nobody)
    BY <1>2, <1>3, <1>5
  <2>3. Wait = [Wait EXCEPT ![t] = @] /\ Hold = [Hold EXCEPT ![r] = @]
    BY DEF Wait, Hold
  <2>4. QED BY <1>2, <1>5, <2>1, <2>2, <2>3 DEF Graph!AddHoldEdge, Wait, Hold
<1>6. QED BY <1>4, <1>5

LEMMA RemoveGraph ==
  ASSUME WfgInv, WfgInv', NEW t \in Threads, NEW r \in Resources, RemoveEdge(t, r)
  PROVE  Graph!RemoveEdge(t, r)
<1> DEFINE out == wfg_remove_edge(wfg, t, r)
<1>1. wfg \in Seq(Edge) /\ Unique(wfg)
  BY DEF WfgInv, WfgTypeOK, UniqueEdges
<1>2. wfg' = out.q /\ ret' = out.ret /\ array' = {}
  BY DEF RemoveEdge, Change
<1>3. /\ WaitOf(wfg, t) = r <=> Waits(wfg, t, r)
      /\ HolderOf(wfg, r) = t <=> Holds(wfg, t, r)
  BY <1>1, WaitOfFacts, HolderOfFacts
<1>4. /\ out.ret = 0 <=> Waits(wfg, t, r) \/ Holds(wfg, t, r)
      /\ out.ret # 0 => out.q = wfg
  BY <1>1, RemoveOneFacts
<1>5. out.ret = 0 =>
        \/ /\ Waits(wfg, t, r)
           /\ \A u \in Threads, s \in Resources :
                /\ Waits(out.q, u, s) <=> Waits(wfg, u, s) /\ ~ (u = t /\ s = r)
                /\ Holds(out.q, u, s) <=> Holds(wfg, u, s)
        \/ /\ Holds(wfg, t, r)
           /\ \A u \in Threads, s \in Resources :
                /\ Waits(out.q, u, s) <=> Waits(wfg, u, s)
                /\ Holds(out.q, u, s) <=> Holds(wfg, u, s) /\ ~ (u = t /\ s = r)
  BY <1>1, RemoveOneFacts
<1> HIDE DEF out
<1>6. CASE ret' = 0
  <2>1. CASE /\ Waits(wfg, t, r)
             /\ \A u \in Threads, s \in Resources :
                  /\ Waits(wfg', u, s) <=> Waits(wfg, u, s) /\ ~ (u = t /\ s = r)
                  /\ Holds(wfg', u, s) <=> Holds(wfg, u, s)
    <3>1. \A u \in Threads, s \in Resources :
            Waits(wfg', u, s) <=> Waits(wfg, u, s) /\ ~ (u = t /\ s = r)
      BY <2>1
    <3>2. \A u \in Threads, s \in Resources : Holds(wfg', u, s) <=> Holds(wfg, u, s)
      BY <2>1
    <3>3. Wait' = [Wait EXCEPT ![t] = Nobody]
      BY <2>1, <3>1, MapFacts
    <3>4. Hold' = Hold
      BY <3>2, MapFacts
    <3>5. WaitOf(wfg, t) = r
      BY <1>3, <2>1
    <3>6. QED BY <1>2, <1>6, <3>3, <3>4, <3>5 DEF Graph!RemoveEdge, Wait, Hold
  <2>2. CASE /\ Holds(wfg, t, r)
             /\ \A u \in Threads, s \in Resources :
                  /\ Waits(wfg', u, s) <=> Waits(wfg, u, s)
                  /\ Holds(wfg', u, s) <=> Holds(wfg, u, s) /\ ~ (u = t /\ s = r)
    <3>1. \A u \in Threads, s \in Resources : Waits(wfg', u, s) <=> Waits(wfg, u, s)
      BY <2>2
    <3>2. \A u \in Threads, s \in Resources :
            Holds(wfg', u, s) <=> Holds(wfg, u, s) /\ ~ (u = t /\ s = r)
      BY <2>2
    <3>3. Wait' = Wait
      BY <3>1, MapFacts
    <3>4. Hold' = [Hold EXCEPT ![r] = Nobody]
      BY <2>2, <3>2, MapFacts
    <3>5. HolderOf(wfg, r) = t
      BY <1>3, <2>2
    <3>6. QED BY <1>2, <1>6, <3>3, <3>4, <3>5 DEF Graph!RemoveEdge, Wait, Hold
  <2>3. QED BY <1>2, <1>5, <1>6, <2>1, <2>2
<1>7. CASE ret' # 0
  <2>1. Wait' = Wait /\ Hold' = Hold
    BY <1>2, <1>4, <1>7 DEF Wait, Hold
  <2>2. WaitOf(wfg, t) # r /\ HolderOf(wfg, r) # t
    BY <1>2, <1>3, <1>4, <1>7
  <2>3. QED BY <1>2, <1>7, <2>1, <2>2 DEF Graph!RemoveEdge, Wait, Hold
<1>8. QED BY <1>6, <1>7

\* The end of wfg_get_cycle is GetCycle, and its other turns change nothing.
LEMMA WalkGraph ==
  ASSUME WfgInv, GetCycle \/ GetCycleStep PROVE [Graph!GetCycle]_Graph!vars
<1>1. Wait' = Wait /\ Hold' = Hold
  BY WalkStep DEF Wait, Hold
<1>2. CASE InGetCycle'
  <2>1. ret' = ret /\ array' = array
    BY <1>2, WalkStep
  <2>2. QED BY <1>1, <2>1 DEF Graph!vars, Wait, Hold
<1>3. CASE ~ InGetCycle'
  <2>1. ret' = 0 /\ (IsCycle(wfg, array') \/ (array' = {} /\ NoKnot(wfg)))
    BY <1>3, WalkStep
  <2>2. CASE IsCycle(wfg, array')
    <3>1. array' \in SUBSET Threads
      BY WalkStep DEF WfgInv, WfgTypeOK
    <3>2. \A P \in SUBSET array' : Graph!Knot(P) <=> Knot(wfg, P)
      BY <3>1, KnotFacts
    <3>3. Graph!IsCycle(array')
      BY <2>2, <3>2 DEF IsCycle, Graph!IsCycle
    <3>4. QED BY <1>1, <2>1, <3>3 DEF Graph!GetCycle, Wait, Hold
  <2>3. CASE array' = {} /\ NoKnot(wfg)
    <3>1. \A P \in (SUBSET Threads) \ {{}} : ~ Graph!Knot(P)
      BY <2>3, KnotFacts DEF NoKnot
    <3>2. QED BY <1>1, <2>1, <2>3, <3>1 DEF Graph!GetCycle, Wait, Hold
  <2>4. QED BY <2>1, <2>2, <2>3
<1>4. QED BY <1>2, <1>3

\* libwfg.c implements the abstract graph: its functions do what their comments
\* say and wfg_get_cycle, when it returns, has the threads of one cycle if and
\* only if there is one (libwfg.c:56-232).
THEOREM ImplementsGraph == WfgSpec => GraphSpec
<1>1. WfgInv /\ WfgInv' /\ [WfgNext]_wfg_vars => [Graph!Next]_Graph!vars
  <2> SUFFICES ASSUME WfgInv, WfgInv', [WfgNext]_wfg_vars PROVE [Graph!Next]_Graph!vars
    OBVIOUS
  <2>1. CASE \E t \in Threads, r \in Resources :
               AddWaitEdge(t, r) \/ AddHoldEdge(t, r) \/ RemoveEdge(t, r)
    BY <2>1, AddWaitGraph, AddHoldGraph, RemoveGraph DEF Graph!Next
  <2>2. CASE GetCycle \/ GetCycleStep
    BY <2>2, WalkGraph DEF Graph!Next
  <2>3. CASE UNCHANGED wfg_vars
    <3>1. wfg' = wfg /\ ret' = ret /\ array' = array
      BY <2>3 DEF wfg_vars
    <3>2. Wait' = Wait /\ Hold' = Hold
      BY <3>1 DEF Wait, Hold
    <3>3. QED BY <3>1, <3>2 DEF Graph!vars, Wait, Hold
  <2>4. QED BY <2>1, <2>2, <2>3 DEF WfgNext
<1>2. QED BY <1>1, InitGraph, WfgInvariance, PTL DEF WfgSpec, GraphSpec, Graph!Spec
=============================================================================
