--------------------------- MODULE WebServerProofs ---------------------------
(***************************************************************************)
(* The web server for any number of clients and requests: in what order    *)
(* these are answered, and that every connection is closed in the end.     *)
(***************************************************************************)
EXTENDS WebServer, TLAPS

\* How many requests there are, as the arithmetic below wants it.
LEMMA RequestFacts ==
  \A c \in Clients : Requests[c] \in Seq(BOOLEAN) /\ Len(Requests[c]) \in Nat
BY RequestsAssumption

\* The invariant holds when the server starts.
LEMMA InitIInv == Init => IInv
<1> SUFFICES ASSUME Init PROVE IInv
  OBVIOUS
<1>1. TypeOK
  <2>1. pc \in [Threads -> {"away", "pending", "check", "select", "recheck", "accept", "send",
                             "failed", "close", "join", "ended", "error"}]
    BY DEF Init
  <2>2. /\ mutex_signal \in Threads \cup {None}
        /\ handling \in SUBSET Threads /\ over \in SUBSET Clients
    BY DEF Init
  <2>8. kill_signal \in BOOLEAN
    BY DEF Init
  <2>9. signals \in 0 .. Signals
    BY SignalsAssumption DEF Init
  <2>3. node_list \in Seq(Clients) /\ joined \in 0 .. Len(node_list)
    BY DEF Init
  <2>4. /\ sent \in [Clients -> Nat] /\ received \in [Clients -> Nat]
        /\ used \in [Clients -> Nat] /\ keepalive \in [Clients -> BOOLEAN]
    BY DEF Init
  <2>5. /\ [request |-> 0, pieces |-> 0] \in Heads /\ [request |-> 0, pieces |-> 4] \in Heads
    BY DEF Heads
  <2>6. head \in [Clients -> Heads] /\ answered \in [Clients -> Heads]
    BY <2>5 DEF Init
  <2>7. QED BY <2>1, <2>2, <2>3, <2>4, <2>6, <2>8, <2>9 DEF TypeOK
<1>2. SignalAgrees
  BY DEF Init, SignalAgrees
<1>3. ListAgrees
  BY MainAssumption DEF Init, ListAgrees, Threads
<1>4. BuffersAgree
  BY RequestFacts, MainAssumption DEF Init, BuffersAgree, Threads
<1>5. AnswersAgree /\ KeepAgrees
  <2> SUFFICES ASSUME NEW c \in Clients PROVE AnswersAgree!(c) /\ KeepAgrees!(c)
    BY DEF AnswersAgree, KeepAgrees
  <2>1. pc[c] = "away" /\ answered[c] = [request |-> 0, pieces |-> 4] /\ used[c] = 0
        /\ keepalive[c] = FALSE
    BY MainAssumption DEF Init, Threads
  <2>2. QED BY <2>1, RequestFacts DEF Holds
<1>6. QED BY <1>1, <1>2, <1>3, <1>4, <1>5 DEF IInv

\* A thread that goes on leaves the list as it is, unless it has ended before, or
\* gets away from a connection that is not accepted.
LEMMA ListKept ==
  ASSUME TypeOK, ListAgrees, NEW t \in Threads, NEW where,
         pc' = [pc EXCEPT ![t] = where], UNCHANGED list,
         pc[t] # "ended", t = Main => where # "ended",
         t \in Clients /\ pc[t] \in {"away", "pending"} => where \in {"away", "pending"}
  PROVE  ListAgrees'
<1> USE DEF list
<1>1. \A u \in Threads : pc'[u] = IF u = t THEN where ELSE pc[u]
  BY DEF TypeOK
<1>2. \A c \in Clients : pc'[c] \notin {"away", "pending"} => pc[c] \notin {"away", "pending"}
  BY <1>1 DEF Threads
<1>3. \A c \in Clients : pc'[c] \notin {"away", "pending"} =>
                          \E i \in 1 .. Len(node_list) : node_list[i] = c
  BY <1>2 DEF ListAgrees
<1>4. \A i \in 1 .. joined : pc'[node_list[i]] = "ended"
  <2> TAKE i \in 1 .. joined
  <2>1. i \in 1 .. Len(node_list) /\ node_list \in Seq(Clients)
    BY DEF TypeOK
  <2>2. node_list[i] \in Threads
    BY <2>1 DEF Threads
  <2>3. pc[node_list[i]] = "ended"
    BY DEF ListAgrees
  <2>4. QED BY <2>2, <2>3, <1>1
<1>5. pc'[Main] = "ended" => joined = Len(node_list)
  BY <1>1 DEF ListAgrees, Threads
<1>6. QED BY <1>3, <1>4, <1>5 DEF ListAgrees

\* How a client's thread goes on between two answers.
Onward(c) == \/ pc'[c] = pc[c]
             \/ pc[c] = "away" /\ pc'[c] = "pending"
             \/ pc[c] = "pending" /\ pc'[c] = "check"
             \/ pc[c] = "check" /\ ~ kill_signal /\ pc'[c] = "select"
             \/ pc[c] = "select" /\ pc'[c] \in {"failed", Again(c)}
             \/ pc[c] \in {"check", "failed", "close"} /\ pc'[c] \in {"close", "ended"}
             \/ pc[c] = "recheck" /\ pc'[c] = "send"
             \/ pc[c] = "recheck" /\ kill_signal /\ pc'[c] = Again(c)

\* What is to be answered, and how the connection is kept, stays right meanwhile.
LEMMA AnswersKept ==
  ASSUME TypeOK, AnswersAgree, KeepAgrees,
         UNCHANGED <<used, head, keepalive, answered>>, kill_signal => kill_signal',
         received' \in [Clients -> Nat], \A c \in Clients : received[c] <= received'[c],
         \A c \in Clients : Onward(c)
  PROVE  AnswersAgree' /\ KeepAgrees'
<1> SUFFICES ASSUME NEW c \in Clients PROVE AnswersAgree!(c)' /\ KeepAgrees!(c)'
  BY DEF AnswersAgree, KeepAgrees
<1>1. AnswersAgree!(c) /\ KeepAgrees!(c) /\ Onward(c)
  BY DEF AnswersAgree, KeepAgrees
<1>2. head[c] \in Heads /\ answered[c] \in Heads /\ used[c] \in Nat
      /\ received[c] \in Nat /\ received'[c] \in Nat /\ received[c] <= received'[c]
  BY DEF TypeOK
<1>3. head'[c] = head[c] /\ answered'[c] = answered[c] /\ used'[c] = used[c]
      /\ keepalive'[c] = keepalive[c]
  OBVIOUS
<1>4. /\ Holds(c, head[c]) => Holds(c, head[c])'
      /\ Holds(c, answered[c]) => Holds(c, answered[c])'
  <2>1. Holds(c, head[c]) => Holds(c, head[c])'
    BY <1>2, <1>3 DEF Holds, Heads
  <2>2. Holds(c, answered[c]) => Holds(c, answered[c])'
    BY <1>2, <1>3 DEF Holds, Heads
  <2>3. QED BY <2>1, <2>2
<1>5. Again(c) = IF keepalive[c] THEN "check" ELSE "close"
  BY DEF Again
<1>6. AnswersAgree!(c)'
  <2>0. Follows(head[c], answered[c]) => Follows(head[c], answered[c])'
    BY <1>3 DEF Follows
  <2>1. CASE pc'[c] \in {"recheck", "send"}
    <3>1. pc[c] \in {"recheck", "send"}
      BY <1>1, <1>5, <2>1 DEF Onward
    <3>2. QED BY <1>1, <1>3, <1>4, <2>0, <2>1, <3>1
  <2>2. CASE pc'[c] \notin {"recheck", "send"}
    <3>1. CASE pc[c] \in {"recheck", "send"}
      <4>1. kill_signal' /\ pc'[c] \in {"check", "close"}
        BY <1>1, <1>5, <2>2, <3>1 DEF Onward
      <4>2. QED BY <2>2, <4>1
    <3>2. CASE pc[c] \notin {"recheck", "send"} /\ Holds(c, answered[c])
      BY <1>4, <2>2, <3>2
    <3>3. CASE kill_signal /\ pc[c] \in {"check", "close", "ended"}
      <4>1. kill_signal' /\ pc'[c] \in {"check", "close", "ended"}
        BY <1>1, <3>3 DEF Onward
      <4>2. QED BY <2>2, <4>1
    <3>4. QED BY <1>1, <3>1, <3>2, <3>3
  <2>3. QED BY <2>1, <2>2
<1>7. KeepAgrees!(c)'
  BY <1>1, <1>3, <1>5 DEF Onward
<1>8. QED BY <1>6, <1>7

\* Nothing is read and nobody answered: it is enough to look where the threads are.
LEMMA AnswersStay ==
  ASSUME TypeOK, AnswersAgree, KeepAgrees, UNCHANGED worker, kill_signal => kill_signal',
         \A c \in Clients : Onward(c)
  PROVE  AnswersAgree' /\ KeepAgrees'
<1>1. received' \in [Clients -> Nat] /\ \A c \in Clients : received[c] <= received'[c]
  BY DEF TypeOK, worker
<1>2. QED BY <1>1, AnswersKept DEF worker

\* A client does not touch what the server keeps.
LEMMA ClientStep ==
  ASSUME IInv, NEW c \in Clients, Client(c)
  PROVE  IInv'
<1> USE DEF IInv
<1>1. CASE Connect(c)
  <2>1. TypeOK'
    BY <1>1 DEF Connect, Goto, TypeOK, signal, list, client, worker
  <2>2. SignalAgrees'
    BY <1>1 DEF Connect, Goto, TypeOK, SignalAgrees, Threads, signal
  <2>3. ListAgrees'
    BY <1>1, MainAssumption, ListKept DEF Connect, Goto, Threads
  <2>4. BuffersAgree'
    BY <1>1 DEF Connect, Goto, TypeOK, BuffersAgree, Threads, client, worker
  <2>5. AnswersAgree' /\ KeepAgrees'
    <3>1. \A d \in Clients : Onward(d)
      BY <1>1 DEF Connect, Goto, TypeOK, Threads, Onward
    <3>2. QED BY <1>1, <3>1, AnswersStay DEF Connect, signal
  <2>6. QED BY <2>1, <2>2, <2>3, <2>4, <2>5
<1>2. CASE Send(c)
  <2>1. PICK n \in 1 .. 4 * Len(Requests[c]) - sent[c] : sent' = [sent EXCEPT ![c] = @ + n]
    BY <1>2 DEF Send
  <2> UNCHANGED <<pc, signal, list, over, worker>>
    BY <1>2 DEF Send
  <2>2. sent' \in [Clients -> Nat] /\ sent'[c] = sent[c] + n /\ n \in Nat
        /\ \A d \in Clients : d # c => sent'[d] = sent[d]
    BY <2>1, RequestFacts DEF TypeOK
  <2>3. TypeOK'
    BY <2>2 DEF TypeOK, signal, list, worker
  <2>4. SignalAgrees' /\ ListAgrees'
    BY DEF SignalAgrees, ListAgrees, signal, list
  <2>5. BuffersAgree'
    <3> SUFFICES ASSUME NEW d \in Clients PROVE BuffersAgree!(d)'
      BY DEF BuffersAgree
    <3>1. BuffersAgree!(d) /\ received[d] \in Nat /\ sent[d] \in Nat
      BY DEF BuffersAgree, TypeOK
    <3>2. sent'[d] >= sent[d] /\ sent'[d] <= 4 * Len(Requests[d])
      BY <2>1, <2>2, <3>1, RequestFacts
    <3>3. used' = used /\ received' = received /\ head' = head
      BY DEF worker
    <3>4. received[d] <= sent'[d]
      BY <2>2, <3>1, <3>2
    <3>5. QED BY <3>1, <3>2, <3>3, <3>4
  <2>6. AnswersAgree' /\ KeepAgrees'
    BY AnswersStay DEF Onward, signal
  <2>7. QED BY <2>3, <2>4, <2>5, <2>6
<1>3. CASE SendNoMore(c)
  <2> UNCHANGED <<pc, signal, list, sent, worker>>
    BY <1>3 DEF SendNoMore
  <2>1. TypeOK'
    BY <1>3 DEF SendNoMore, TypeOK, signal, list, worker
  <2>2. SignalAgrees' /\ ListAgrees' /\ BuffersAgree'
    BY DEF SignalAgrees, ListAgrees, BuffersAgree, signal, list, worker
  <2>3. AnswersAgree' /\ KeepAgrees'
    BY AnswersStay DEF Onward, signal
  <2>4. QED BY <2>1, <2>2, <2>3
<1>4. QED BY <1>1, <1>2, <1>3 DEF Client

\* The signal comes, and is handled, and the threads look for it.
LEMMA SignalStep ==
  ASSUME IInv, NEW t \in Threads,
         Interrupt(t) \/ SetKill(t) \/ GetKillLock(t) \/ GetKill(t)
  PROVE  IInv'
<1> USE DEF IInv
<1>1. CASE Interrupt(t)
  <2> UNCHANGED <<pc, mutex_signal, kill_signal, list, client, worker>>
    BY <1>1 DEF Interrupt
  <2>1. TypeOK'
    BY <1>1, SignalsAssumption DEF Interrupt, TypeOK, list, client, worker
  <2>2. SignalAgrees' /\ ListAgrees' /\ BuffersAgree'
    BY DEF SignalAgrees, ListAgrees, BuffersAgree, list, client, worker
  <2>3. AnswersAgree' /\ KeepAgrees'
    BY AnswersStay DEF Onward
  <2>4. QED BY <2>1, <2>2, <2>3
<1>2. CASE SetKill(t)
  <2> UNCHANGED <<mutex_signal, signals, list, client, worker>> /\ kill_signal' = TRUE
      /\ mutex_signal = None
    BY <1>2 DEF SetKill
  <2>1. \/ pc[t] = "select" /\ pc' = [pc EXCEPT ![t] = "failed"]
        \/ pc' = pc
    BY <1>2 DEF SetKill, Goto
  <2>2. TypeOK'
    BY <1>2, <2>1 DEF SetKill, TypeOK, list, client, worker
  <2>3. SignalAgrees'
    BY <2>1 DEF SignalAgrees, TypeOK
  <2>4. ListAgrees'
    BY <2>1, ListKept DEF ListAgrees, list
  <2>5. BuffersAgree'
    BY <2>1 DEF BuffersAgree, TypeOK, Threads, client, worker
  <2>6. AnswersAgree' /\ KeepAgrees'
    <3>1. \A c \in Clients : Onward(c)
      BY <2>1 DEF TypeOK, Threads, Onward
    <3>2. QED BY <3>1, AnswersStay
  <2>7. QED BY <2>2, <2>3, <2>4, <2>5, <2>6
<1>3. CASE GetKillLock(t)
  <2> UNCHANGED <<pc, kill_signal, handling, signals, list, client, worker>>
    BY <1>3 DEF GetKillLock
  <2>1. TypeOK'
    BY <1>3 DEF GetKillLock, TypeOK, list, client, worker
  <2>2. SignalAgrees'
    BY <1>3 DEF GetKillLock, SignalAgrees
  <2>3. ListAgrees' /\ BuffersAgree'
    BY DEF ListAgrees, BuffersAgree, list, client, worker
  <2>4. AnswersAgree' /\ KeepAgrees'
    BY AnswersStay DEF Onward
  <2>5. QED BY <2>1, <2>2, <2>3, <2>4
<1>4. CASE GetKill(t)
  <2> UNCHANGED <<kill_signal, handling, signals, list, client, worker>> /\ mutex_signal' = None
    BY <1>4 DEF GetKill
  <2>1. t # None /\ pc[t] \in {"check", "recheck", "failed"}
    BY <1>4, MainAssumption DEF GetKill, SignalAgrees, Threads
  <2>2. PICK where : /\ pc' = [pc EXCEPT ![t] = where]
                     /\ \/ pc[t] = "check" /\ ~ kill_signal /\ where = "select"
                        \/ pc[t] # "recheck" /\ kill_signal /\ where = LoopEnd(t)
                        \/ pc[t] = "recheck" /\ t = Main /\ where \in {"join", "accept"}
                        \/ pc[t] = "recheck" /\ t # Main /\ kill_signal /\ where = Again(t)
                        \/ pc[t] = "recheck" /\ t # Main /\ ~ kill_signal /\ where = "send"
    BY <1>4, <2>1 DEF GetKill, Goto, SignalAgrees
  <2>3. where \in {"select", "join", "accept", "check", "close", "send"}
    BY <2>2 DEF LoopEnd, Again
  <2>4. TypeOK'
    BY <2>2, <2>3, MainAssumption DEF TypeOK, list, client, worker, Threads
  <2>5. SignalAgrees'
    BY <2>2, <2>3 DEF SignalAgrees, TypeOK
  <2>6. ListAgrees'
    BY <2>1, <2>2, <2>3, ListKept
  <2>7. BuffersAgree'
    BY <2>1, <2>2, MainAssumption DEF BuffersAgree, TypeOK, Threads, LoopEnd, Again, client, worker
  <2>8. AnswersAgree' /\ KeepAgrees'
    <3>1. \A c \in Clients : pc'[c] = IF c = t THEN where ELSE pc[c]
      BY <2>2 DEF TypeOK, Threads
    <3>2. \A c \in Clients : Onward(c)
      BY <2>1, <2>2, <3>1, MainAssumption DEF LoopEnd, Again, Onward
    <3>3. QED BY <3>2, AnswersStay
  <2>9. QED BY <2>4, <2>5, <2>6, <2>7, <2>8
<1>5. QED BY <1>1, <1>2, <1>3, <1>4

\* How a kept or a new connection goes on without an answer.
LEMMA AgainFacts ==
  ASSUME IInv, NEW c \in Clients, pc[c] = "select", pc' = [pc EXCEPT ![c] = Again(c)],
         UNCHANGED <<signal, list, client, used, head, keepalive, answered>>,
         received' \in [Clients -> Nat],
         \A d \in Clients : d # c => received'[d] = received[d],
         received[c] <= received'[c], received'[c] <= sent[c]
  PROVE  IInv'
<1> USE DEF IInv
<1> Again(c) \in {"check", "close"}
  BY DEF Again
<1> c \in Threads /\ c # Main
  BY MainAssumption DEF Threads
<1>1. TypeOK'
  BY DEF TypeOK, signal, list, client
<1>2. SignalAgrees'
  <2>1. mutex_signal # c
    BY MainAssumption DEF SignalAgrees
  <2>2. QED BY <2>1 DEF SignalAgrees, TypeOK, Threads, signal
<1>3. ListAgrees'
  BY ListKept
<1>4. BuffersAgree'
  <2> SUFFICES ASSUME NEW d \in Clients PROVE BuffersAgree!(d)'
    BY DEF BuffersAgree
  <2>1. BuffersAgree!(d)
    BY DEF BuffersAgree
  <2>2. pc'[d] \in {"recheck", "send"} => pc[d] \in {"recheck", "send"}
    BY DEF TypeOK, Threads
  <2>3. used' = used /\ sent' = sent /\ head' = head
    BY DEF client
  <2>4. used[d] <= received'[d] /\ received'[d] <= sent[d]
    <3>1. used[d] \in Nat /\ received[d] \in Nat /\ received'[d] \in Nat
      BY DEF TypeOK
    <3>2. CASE d = c
      BY <2>1, <3>1, <3>2
    <3>3. CASE d # c
      BY <2>1, <3>3
    <3>4. QED BY <3>2, <3>3
  <2>5. QED BY <2>1, <2>2, <2>3, <2>4
<1>5. AnswersAgree' /\ KeepAgrees'
  <2>1. ASSUME NEW d \in Clients PROVE received[d] <= received'[d]
    <3>1. received[d] \in Nat
      BY DEF TypeOK
    <3>2. CASE d = c
      BY <3>2
    <3>3. CASE d # c
      BY <3>1, <3>3
    <3>4. QED BY <3>2, <3>3
  <2>2. \A d \in Clients : Onward(d)
    BY DEF TypeOK, Threads, Onward
  <2>3. QED BY <2>1, <2>2, AnswersKept DEF signal
<1>6. QED BY <1>1, <1>2, <1>3, <1>4, <1>5

\* A head to answer is the next, or more of the last; and the buffer fits it.
LEMMA HeadStep ==
  ASSUME IInv, NEW c \in Clients, pc[c] = "select", NEW pieces \in 2 .. 4,
         HeadAnswered(c, pieces),
         UNCHANGED <<signal, list, client, keepalive, answered>>,
         received' \in [Clients -> Nat], used' \in [Clients -> Nat],
         \A d \in Clients : d # c => received'[d] = received[d] /\ used'[d] = used[d],
         used[c] < 4 * Len(Requests[c]),
         used'[c] = IF pieces = 4 THEN used[c] + 4 ELSE used[c],
         used[c] + pieces <= received'[c], received'[c] <= sent[c],
         used[c] + 3 <= received[c] => pieces >= 3
  PROVE  IInv'
<1> USE DEF IInv
<1> DEFINE request == used[c] \div 4 + 1
<1> c \in Threads /\ c # Main
  BY MainAssumption DEF Threads
<1>1. PICK k \in 0 .. Len(Requests[c]) : used[c] = 4 * k
  BY DEF BuffersAgree
<1>2. request = k + 1 /\ request \in 1 .. Len(Requests[c]) /\ k + 1 \in 0 .. Len(Requests[c])
  BY <1>1, RequestFacts
<1>3. /\ pc' = [pc EXCEPT ![c] = "recheck"]
      /\ head' = [head EXCEPT ![c] = [request |-> request, pieces |-> pieces]]
  BY DEF HeadAnswered, Goto
<1> HIDE DEF request
<1>4. TypeOK'
  <2>1. [request |-> request, pieces |-> pieces] \in Heads
    BY <1>2 DEF Heads
  <2>2. head' \in [Clients -> Heads]
    BY <2>1, <1>3 DEF TypeOK
  <2>3. QED BY <2>2, <1>3 DEF TypeOK, signal, list, client
<1>5. SignalAgrees'
  <2>1. mutex_signal # c
    BY MainAssumption DEF SignalAgrees
  <2>2. QED BY <2>1, <1>3 DEF SignalAgrees, TypeOK, Threads, signal
<1>6. ListAgrees'
  BY <1>3, ListKept
<1>7. BuffersAgree'
  <2> SUFFICES ASSUME NEW d \in Clients PROVE BuffersAgree!(d)'
    BY DEF BuffersAgree
  <2>1. BuffersAgree!(d)
    BY DEF BuffersAgree
  <2>2. CASE d = c
    <3>1. used'[c] \in {4 * n : n \in 0 .. Len(Requests[c])}
      BY <1>1, <1>2, RequestFacts
    <3>2. head'[c].request = request
      BY <1>3 DEF TypeOK
    <3>3. sent[c] <= 4 * Len(Requests[c]) /\ sent' = sent /\ used'[c] <= received'[c]
      BY <1>1, <2>1, <2>2 DEF client, TypeOK
    <3>4. QED BY <2>2, <3>1, <3>2, <3>3, <1>2
  <2>3. CASE d # c
    <3>1. pc'[d] = pc[d] /\ head'[d] = head[d]
      BY <2>3, <1>3 DEF TypeOK, Threads
    <3>2. QED BY <2>1, <2>3, <3>1 DEF client
  <2>4. QED BY <2>2, <2>3
<1>8. AnswersAgree'
  <2> SUFFICES ASSUME NEW d \in Clients PROVE AnswersAgree!(d)'
    BY DEF AnswersAgree
  <2>1. AnswersAgree!(d) /\ KeepAgrees!(d)
    BY DEF AnswersAgree, KeepAgrees
  <2>2. CASE d = c
    <3> DEFINE last == answered[c]
    <3>1. last.request \in Nat /\ last.pieces \in 0 .. 4 /\ received[c] \in Nat
      BY DEF TypeOK, Heads
    <3>2. Holds(c, last) /\ last.pieces \in {3, 4}
      BY <2>1, <2>2, <3>1
    <3>3. \/ last.pieces = 4 /\ k = last.request
          \/ last.pieces = 3 /\ k = last.request - 1 /\ pieces >= 3
      <4>1. k \in Nat
        BY <1>1
      <4>2. CASE last.pieces = 4
        BY <1>1, <3>1, <3>2, <4>1, <4>2 DEF Holds
      <4>3. CASE last.pieces = 3
        <5>1. used[c] = 4 * (last.request - 1) /\ received[c] >= used[c] + 3
          BY <3>2, <4>3 DEF Holds
        <5>2. used[c] \in Nat
          BY DEF TypeOK
        <5>3. pieces >= 3
          BY <3>1, <5>1, <5>2
        <5>4. k = last.request - 1
          <6>1. \A m \in Nat, n \in Int : 4 * m = 4 * n => m = n
            OBVIOUS
          <6>2. last.request - 1 \in Int /\ 4 * k = 4 * (last.request - 1)
            BY <1>1, <3>1, <5>1
          <6> HIDE DEF last
          <6>3. QED BY <4>1, <6>1, <6>2
        <5>5. QED BY <4>3, <5>3, <5>4
      <4>4. QED BY <3>2, <4>2, <4>3
    <3> HIDE DEF last
    <3>4. /\ head'[c] = [request |-> k + 1, pieces |-> pieces]
          /\ pc'[c] = "recheck" /\ answered'[c] = last
      BY <1>2, <1>3 DEF TypeOK, Threads, last
    <3>5. Follows(head'[c], last)
      BY <3>1, <3>3, <3>4 DEF Follows
    <3>6. Holds(c, head[c])'
      <4>1. head'[c].request = k + 1 /\ head'[c].pieces = pieces
        BY <3>4
      <4>2. CASE pieces = 4
        BY <1>1, <4>1, <4>2 DEF Holds
      <4>3. CASE pieces # 4
        BY <1>1, <4>1, <4>3 DEF Holds
      <4>4. QED BY <4>2, <4>3
    <3>7. head'[c].pieces \in 2 .. 4
      BY <3>4
    <3>8. Follows(head[c], answered[c])'
      BY <3>4, <3>5 DEF Follows
    <3>9. QED BY <2>2, <3>4, <3>6, <3>7, <3>8
  <2>3. CASE d # c
    <3>1. pc'[d] = pc[d] /\ head'[d] = head[d] /\ answered' = answered
      BY <2>3, <1>3 DEF TypeOK, Threads
    <3>2. kill_signal' = kill_signal /\ received'[d] = received[d] /\ used'[d] = used[d]
      BY <2>3 DEF signal
    <3>3. QED BY <2>1, <3>1, <3>2 DEF Holds, Follows
  <2>4. QED BY <2>2, <2>3
<1>9. KeepAgrees'
  <2>1. \A d \in Clients : pc'[d] = IF d = c THEN "recheck" ELSE pc[d]
    BY <1>3 DEF TypeOK, Threads
  <2>2. QED BY <2>1 DEF KeepAgrees
<1>10. QED BY <1>4, <1>5, <1>6, <1>7, <1>8, <1>9

\* A worker keeps the invariant.
LEMMA WorkerStep ==
  ASSUME IInv, NEW c \in Clients, Worker(c)
  PROVE  IInv'
<1> USE DEF IInv
<1> c \in Threads /\ c # Main
  BY MainAssumption DEF Threads
<1>1. CASE SelectTimeout(c)
  <2>1. /\ pc[c] = "select" /\ pc' = [pc EXCEPT ![c] = Again(c)]
        /\ UNCHANGED <<signal, list, client, used, head, keepalive, answered>>
        /\ received' = received
    BY <1>1 DEF SelectTimeout, Goto, worker
  <2>2. /\ received' \in [Clients -> Nat] /\ \A d \in Clients : received'[d] = received[d]
        /\ received[c] <= received'[c] /\ received'[c] <= sent[c]
    BY <2>1 DEF TypeOK, BuffersAgree
  <2>3. QED BY <2>1, <2>2, AgainFacts
<1>2. CASE RecvHead(c)
  <2> DEFINE room  == Buffer - (received[c] - used[c])
             there == sent[c] - received[c]
             total == received[c] + (IF there < room THEN there ELSE room)
  <2>1. /\ pc[c] = "select" /\ received' = [received EXCEPT ![c] = total]
        /\ UNCHANGED <<signal, list, client, keepalive, answered>>
    BY <1>2 DEF RecvHead
  <2>2. /\ sent[c] \in Nat /\ received[c] \in Nat /\ used[c] \in Nat
        /\ used[c] <= received[c] /\ received[c] <= sent[c] /\ sent[c] <= 4 * Len(Requests[c])
        /\ Len(Requests[c]) \in Nat
    BY RequestFacts DEF TypeOK, BuffersAgree
  <2>4. \/ /\ total - used[c] >= 4 /\ HeadAnswered(c, 4)
           /\ used' = [used EXCEPT ![c] = @ + 4]
        \/ /\ total - used[c] \in {2, 3} /\ HeadAnswered(c, total - used[c])
           /\ used' = used
        \/ /\ total - used[c] < 2 /\ pc' = [pc EXCEPT ![c] = Again(c)]
           /\ used' = used /\ head' = head
    BY <1>2 DEF RecvHead, Goto
  <2>5. total \in Int /\ total <= sent[c]
    BY <2>2, BufferAssumption
  <2>7. total >= received[c] \/ total - used[c] >= 4
    BY <2>2, BufferAssumption
  <2> HIDE DEF total
  <2>9. total \in Nat /\ total >= used[c]
    BY <2>2, <2>5, <2>7
  <2>10. received' \in [Clients -> Nat] /\ received'[c] = total
         /\ \A d \in Clients : d # c => received'[d] = received[d]
    BY <2>1, <2>9 DEF TypeOK
  <2>11. CASE total - used[c] >= 4 /\ HeadAnswered(c, 4) /\ used' = [used EXCEPT ![c] = @ + 4]
    <3>1. /\ used' \in [Clients -> Nat] /\ used'[c] = used[c] + 4
          /\ \A d \in Clients : d # c => used'[d] = used[d]
      BY <2>2, <2>11 DEF TypeOK
    <3>2. used[c] < 4 * Len(Requests[c])
      BY <2>2, <2>5, <2>11
    <3>3. used[c] + 4 <= received'[c] /\ received'[c] <= sent[c]
      BY <2>2, <2>5, <2>9, <2>10, <2>11
    <3>4. QED BY <2>1, <2>10, <2>11, <3>1, <3>2, <3>3, HeadStep
  <2>12. CASE total - used[c] \in {2, 3} /\ HeadAnswered(c, total - used[c]) /\ used' = used
    <3>1. used[c] < 4 * Len(Requests[c]) /\ total - used[c] \in 2 .. 4 /\ total - used[c] # 4
      BY <2>2, <2>5, <2>9, <2>12
    <3>2. used' \in [Clients -> Nat]
      BY <2>12 DEF TypeOK
    <3>3. /\ used[c] + (total - used[c]) <= total
          /\ used[c] + 3 <= received[c] => total - used[c] >= 3
      BY <2>2, <2>7, <2>9, <2>12
    <3>4. QED BY <2>1, <2>5, <2>9, <2>10, <2>12, <3>1, <3>2, <3>3, HeadStep
  <2>13. CASE /\ total - used[c] < 2 /\ pc' = [pc EXCEPT ![c] = Again(c)]
              /\ used' = used /\ head' = head
    <3>1. received[c] <= received'[c]
      BY <2>2, <2>7, <2>10, <2>13
    <3>2. QED BY <2>1, <2>5, <2>9, <2>10, <2>13, <3>1, AgainFacts
  <2>14. QED BY <2>4, <2>11, <2>12, <2>13
<1>3. CASE Respond(c)
  <2> UNCHANGED <<signal, list, client, received, used, head>>
    BY <1>3 DEF Respond
  <2>1. /\ pc[c] = "send" /\ keepalive' = [keepalive EXCEPT ![c] = keeps(c)]
        /\ answered' = [answered EXCEPT ![c] = head[c]]
        /\ pc' = [pc EXCEPT ![c] = IF keepalive'[c] THEN "check" ELSE "close"]
    BY <1>3 DEF Respond, Goto
  <2>2. PICK where \in {"check", "close"} : pc' = [pc EXCEPT ![c] = where]
    BY <2>1
  <2>3. head[c].request \in 1 .. Len(Requests[c])
    BY <2>1 DEF BuffersAgree
  <2>4. keeps(c) \in BOOLEAN
    BY DEF keeps
  <2>5. TypeOK'
    <3>1. answered' \in [Clients -> Heads]
      BY <2>1 DEF TypeOK
    <3>2. keepalive' \in [Clients -> BOOLEAN]
      BY <2>1, <2>4 DEF TypeOK
    <3>3. QED BY <2>2, <3>1, <3>2 DEF TypeOK, signal, list, client
  <2>6. SignalAgrees'
    <3>1. mutex_signal # c
      BY <2>1, MainAssumption DEF SignalAgrees
    <3>2. QED BY <2>2, <3>1 DEF SignalAgrees, TypeOK, Threads, signal
  <2>7. ListAgrees'
    BY <2>1, <2>2, ListKept
  <2>8. BuffersAgree'
    BY <2>2 DEF BuffersAgree, TypeOK, Threads, client
  <2>9. AnswersAgree' /\ KeepAgrees'
    <3> SUFFICES ASSUME NEW d \in Clients PROVE AnswersAgree!(d)' /\ KeepAgrees!(d)'
      BY DEF AnswersAgree, KeepAgrees
    <3>1. AnswersAgree!(d) /\ KeepAgrees!(d)
      BY DEF AnswersAgree, KeepAgrees
    <3>2. CASE d = c
      <4>1. Holds(c, head[c]) /\ head[c].pieces \in 2 .. 4
        BY <2>1, <3>1, <3>2
      <4>2. /\ pc'[c] = IF keeps(c) THEN "check" ELSE "close"
            /\ answered'[c] = head[c] /\ keepalive'[c] = keeps(c)
        BY <2>1 DEF TypeOK, Threads
      <4>3. Holds(c, answered[c])'
        BY <4>1, <4>2 DEF Holds
      <4>4. AnswersAgree!(c)'
        BY <4>2, <4>3
      <4>5. keeps(c) => head[c].pieces >= 3
        BY DEF keeps
      <4>6. /\ head[c].request <= Len(Requests[c]) /\ head[c].request # 0 /\ head[c].pieces >= 2
        BY <2>3, <4>1, RequestFacts
      <4>7. KeepAgrees!(c)'
        <5>1. CASE keeps(c)
          BY <4>2, <4>5, <4>6, <5>1
        <5>2. CASE ~ keeps(c)
          BY <4>2, <4>6, <5>2
        <5>3. QED BY <5>1, <5>2
      <4>8. QED BY <3>2, <4>4, <4>7
    <3>3. CASE d # c
      <4>1. pc'[d] = pc[d] /\ answered'[d] = answered[d] /\ keepalive'[d] = keepalive[d]
        BY <2>1, <2>2, <3>3 DEF TypeOK, Threads
      <4>2. QED BY <3>1, <4>1 DEF signal, Holds, Follows
    <3>4. QED BY <3>2, <3>3
  <2>10. QED BY <2>5, <2>6, <2>7, <2>8, <2>9
<1>4. CASE Close(c)
  <2> UNCHANGED <<signal, list, client, worker>>
    BY <1>4 DEF Close
  <2>1. pc[c] = "close" /\ pc' = [pc EXCEPT ![c] = "ended"]
    BY <1>4 DEF Close, Goto
  <2>2. TypeOK'
    BY <2>1 DEF TypeOK, signal, list, client, worker
  <2>3. SignalAgrees'
    <3>1. mutex_signal # c
      BY <2>1, MainAssumption DEF SignalAgrees
    <3>2. QED BY <2>1, <3>1 DEF SignalAgrees, TypeOK, Threads, signal
  <2>4. ListAgrees'
    BY <2>1, ListKept
  <2>5. BuffersAgree'
    BY <2>1 DEF BuffersAgree, TypeOK, Threads, client, worker
  <2>6. AnswersAgree' /\ KeepAgrees'
    <3>1. \A d \in Clients : Onward(d)
      BY <2>1 DEF TypeOK, Threads, Onward
    <3>2. QED BY <3>1, AnswersStay DEF signal
  <2>7. QED BY <2>2, <2>3, <2>4, <2>5, <2>6
<1>5. QED BY <1>1, <1>2, <1>3, <1>4 DEF Worker

\* Main accepts connections, and joins the threads of all of them.
LEMMA MainStep ==
  ASSUME IInv, SelectConnection \/ Accept \/ Join
  PROVE  IInv'
<1> USE DEF IInv
<1> Main \in Threads /\ Main # None
  BY MainAssumption DEF Threads
<1>1. CASE SelectConnection
  <2> UNCHANGED <<signal, list, client, worker>>
    BY <1>1 DEF SelectConnection
  <2>1. PICK where \in {"recheck", "check"} : /\ pc[Main] = "select"
                                            /\ pc' = [pc EXCEPT ![Main] = where]
    BY <1>1 DEF SelectConnection, Goto
  <2>2. TypeOK'
    BY <2>1 DEF TypeOK, signal, list, client, worker
  <2>3. SignalAgrees'
    <3>1. mutex_signal # Main
      BY <2>1 DEF SignalAgrees
    <3>2. QED BY <2>1, <3>1 DEF SignalAgrees, TypeOK, Threads, signal
  <2>4. ListAgrees'
    BY <2>1, MainAssumption, ListKept
  <2>5. \A c \in Clients : pc'[c] = pc[c]
    BY <2>1, MainAssumption DEF TypeOK, Threads
  <2>6. BuffersAgree'
    BY <2>5 DEF BuffersAgree, client, worker
  <2>7. AnswersAgree' /\ KeepAgrees'
    BY <2>5, AnswersStay DEF Onward, signal
  <2>8. QED BY <2>2, <2>3, <2>4, <2>6, <2>7
<1>2. CASE Accept
  <2>1. PICK c \in Clients : /\ pc[c] = "pending" /\ pc[Main] = "accept"
                             /\ pc' = [pc EXCEPT ![c] = "check", ![Main] = "check"]
                             /\ node_list' = Append(node_list, c)
                             /\ UNCHANGED <<signal, joined, client, worker>>
    BY <1>2 DEF Accept, Waiting
  <2>2. \A t \in Threads : pc'[t] = IF t \in {c, Main} THEN "check" ELSE pc[t]
    BY <2>1, MainAssumption DEF TypeOK, Threads
  <2>3. /\ node_list' \in Seq(Clients) /\ Len(node_list') = Len(node_list) + 1
        /\ node_list'[Len(node_list) + 1] = c
        /\ \A i \in 1 .. Len(node_list) : node_list'[i] = node_list[i]
    BY <2>1 DEF TypeOK
  <2>4. joined' = joined /\ joined \in 0 .. Len(node_list) /\ Len(node_list) \in Nat
    BY <2>1 DEF TypeOK
  <2>5. TypeOK'
    <3>1. pc' \in [Threads -> {"away", "pending", "check", "select", "recheck", "accept", "send",
                                "failed", "close", "join", "ended", "error"}]
      BY <2>1 DEF TypeOK
    <3>2. joined' \in 0 .. Len(node_list')
      BY <2>3, <2>4
    <3>3. QED BY <2>1, <2>3, <3>1, <3>2 DEF TypeOK, signal, client, worker
  <2>6. SignalAgrees'
    <3>1. mutex_signal \notin {c, Main}
      BY <2>1, MainAssumption DEF SignalAgrees
    <3>2. mutex_signal' = mutex_signal /\ kill_signal' = kill_signal
      BY <2>1 DEF signal
    <3>3. mutex_signal # None => pc'[mutex_signal] \in {"check", "recheck", "failed"}
      BY <2>2, <3>1 DEF SignalAgrees, TypeOK
    <3>4. QED BY <2>2, <3>2, <3>3 DEF SignalAgrees
  <2>7. ListAgrees'
    <3>1. ASSUME NEW d \in Clients, pc'[d] \notin {"away", "pending"}
          PROVE  \E i \in 1 .. Len(node_list') : node_list'[i] = d
      <4>1. CASE d = c
        BY <4>1, <2>3, <2>4
      <4>2. CASE d # c
        <5>1. pc[d] \notin {"away", "pending"}
          BY <3>1, <4>2, <2>2, MainAssumption DEF Threads
        <5>2. PICK i \in 1 .. Len(node_list) : node_list[i] = d
          BY <5>1 DEF ListAgrees
        <5>3. i \in 1 .. Len(node_list') /\ node_list'[i] = d
          BY <5>2, <2>3, <2>4
        <5>4. QED BY <5>3
      <4>3. QED BY <4>1, <4>2
    <3>2. ASSUME NEW i \in 1 .. joined
          PROVE  pc'[node_list'[i]] = "ended"
      <4>1. i \in 1 .. Len(node_list) /\ node_list \in Seq(Clients)
        BY <2>4 DEF TypeOK
      <4>2. pc[node_list[i]] = "ended" /\ node_list[i] \in Threads
        BY <4>1 DEF ListAgrees, Threads
      <4>3. pc'[node_list[i]] = "ended"
        BY <4>2, <2>1, <2>2
      <4>4. QED BY <4>1, <4>3, <2>3
    <3>3. pc'[Main] # "ended"
      BY <2>2
    <3>4. QED BY <2>4, <3>1, <3>2, <3>3 DEF ListAgrees
  <2>8. BuffersAgree'
    <3> SUFFICES ASSUME NEW d \in Clients PROVE BuffersAgree!(d)'
      BY DEF BuffersAgree
    <3>1. BuffersAgree!(d)
      BY DEF BuffersAgree
    <3>2. pc'[d] \in {"recheck", "send"} => pc[d] \in {"recheck", "send"}
      BY <2>2 DEF Threads
    <3>3. QED BY <2>1, <3>1, <3>2 DEF client, worker
  <2>9. AnswersAgree' /\ KeepAgrees'
    <3>1. \A d \in Clients : Onward(d)
      BY <2>1, <2>2, MainAssumption DEF Threads, Onward
    <3>2. QED BY <2>1, <3>1, AnswersStay DEF signal
  <2>10. QED BY <2>5, <2>6, <2>7, <2>8, <2>9
<1>3. CASE Join
  <2> UNCHANGED <<signal, node_list, client, worker>> /\ pc[Main] = "join"
    BY <1>3 DEF Join
  <2>1. CASE /\ joined < Len(node_list) /\ pc[node_list[joined + 1]] = "ended"
             /\ joined' = joined + 1 /\ pc' = pc
    <3>1. TypeOK'
      <4>1. joined' \in 0 .. Len(node_list)
        BY <2>1 DEF TypeOK
      <4>2. QED BY <2>1, <4>1 DEF TypeOK, signal, client, worker
    <3>2. \A i \in 1 .. joined' : i \in 1 .. joined \/ i = joined + 1
      BY <2>1 DEF TypeOK
    <3>3. ListAgrees'
      BY <2>1, <3>2 DEF ListAgrees
    <3>4. SignalAgrees' /\ BuffersAgree'
      BY <2>1 DEF SignalAgrees, BuffersAgree, signal, client, worker
    <3>5. AnswersAgree' /\ KeepAgrees'
      BY <2>1, AnswersStay DEF Onward, signal
    <3>6. QED BY <3>1, <3>3, <3>4, <3>5
  <2>2. CASE joined >= Len(node_list) /\ joined' = joined /\ pc' = [pc EXCEPT ![Main] = "ended"]
    <3>1. TypeOK'
      BY <2>2 DEF TypeOK, signal, client, worker
    <3>2. \A t \in Threads : pc'[t] = IF t = Main THEN "ended" ELSE pc[t]
      BY <2>2 DEF TypeOK
    <3>3. SignalAgrees'
      <4>1. mutex_signal # Main
        BY DEF SignalAgrees
      <4>2. QED BY <3>2, <4>1 DEF SignalAgrees, TypeOK, signal
    <3>4. \A c \in Clients : pc'[c] = pc[c]
      BY <3>2, MainAssumption DEF Threads
    <3>5. ListAgrees'
      <4>1. joined = Len(node_list)
        BY <2>2 DEF TypeOK
      <4>2. \A i \in 1 .. joined : node_list[i] \in Clients
        BY <4>1 DEF TypeOK
      <4>3. QED BY <2>2, <3>4, <4>1, <4>2 DEF ListAgrees
    <3>6. BuffersAgree'
      BY <3>4 DEF BuffersAgree, client, worker
    <3>7. AnswersAgree' /\ KeepAgrees'
      BY <3>4, AnswersStay DEF Onward, signal
    <3>8. QED BY <3>1, <3>3, <3>5, <3>6, <3>7
  <2>3. joined \in Nat /\ Len(node_list) \in Nat
    BY DEF TypeOK
  <2>4. QED BY <1>3, <2>1, <2>2, <2>3 DEF Join, Goto
<1>4. QED BY <1>1, <1>2, <1>3

\* The inductive invariant (server.c:65-89, 98-133, 312-390, 446-506).
THEOREM Invariance == Spec => []IInv
<1>1. ASSUME IInv, [Next]_vars PROVE IInv'
  <2>1. CASE \E t \in Threads : Thread(t) \/ Interrupt(t)
    <3>1. PICK t \in Threads : Thread(t) \/ Interrupt(t)
      BY <2>1
    <3>2. QED BY <1>1, <3>1, SignalStep, WorkerStep, MainStep DEF Thread
  <2>2. CASE \E c \in Clients : Client(c)
    BY <1>1, <2>2, ClientStep
  <2>3. CASE UNCHANGED vars
    BY <1>1, <2>3
       DEF vars, signal, list, client, worker, IInv, TypeOK, SignalAgrees, ListAgrees, BuffersAgree,
           AnswersAgree, KeepAgrees, Holds
  <2>4. QED BY <1>1, <2>1, <2>2, <2>3 DEF Next
<1>2. QED BY InitIInv, <1>1, PTL DEF Spec

\* Requests are answered in their order, and none with a whole head twice, however
\* clients cut them up or put them together, and whenever the signal comes
\* (server.c:110-129, 343-384).
THEOREM OrderedAnswers == Spec => AnswersInOrder
<1>1. IInv => \A c \in Clients : Respond(c) => Follows(head[c], answered[c])
  BY DEF IInv, AnswersAgree, Respond
<1>2. QED BY <1>1, Invariance, PTL DEF Spec, AnswersInOrder

\* When main returns no thread of a connection is left, for any number of
\* connections (server.c:465-505).
THEOREM Closes == Spec => []AllClosed
<1>1. ASSUME IInv PROVE AllClosed
  <2> SUFFICES ASSUME pc[Main] = "ended", NEW c \in Clients
               PROVE  pc[c] \in {"away", "pending", "ended"}
    BY DEF AllClosed
  <2>1. CASE pc[c] \notin {"away", "pending"}
    <3>1. PICK i \in 1 .. Len(node_list) : node_list[i] = c
      BY <1>1, <2>1 DEF IInv, ListAgrees
    <3>2. joined = Len(node_list)
      BY <1>1 DEF IInv, ListAgrees
    <3>3. QED BY <1>1, <3>1, <3>2 DEF IInv, ListAgrees
  <2>2. QED BY <2>1
<1>2. QED BY <1>1, Invariance, PTL
=============================================================================
