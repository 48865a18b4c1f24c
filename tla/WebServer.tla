------------------------------ MODULE WebServer ------------------------------
(***************************************************************************)
(* The web server of mp8 (server.c): main accepts connections and starts a *)
(* thread for each; the thread answers requests until one does not ask to  *)
(* keep the connection alive.  A handler of SIGINT sets kill_signal, which *)
(* every thread looks at in its loop, with mutex_signal.                   *)
(*                                                                         *)
(* A request is four pieces: the beginning of the request line, the rest   *)
(* of it with its end of line, the line with the header "Connection", and  *)
(* the empty line.  What a client sends is a row of pieces, so that        *)
(* buffers are intervals of it.  Clients read what they are sent.          *)
(***************************************************************************)
EXTENDS Integers, Sequences, FiniteSets

CONSTANTS Clients,
          Requests,   \* Requests[c][n]: whether the n-th request of c asks to keep the connection
          Buffer,     \* MAXBUF, in pieces
          Main,       \* the thread of main
          None,
          Signals     \* how often SIGINT comes (bound)

Threads == Clients \cup {Main}

ASSUME RequestsAssumption == Requests \in [Clients -> Seq(BOOLEAN)]
ASSUME BufferAssumption == Buffer \in Nat /\ Buffer >= 4   \* a request fits
ASSUME MainAssumption == Main \notin Clients /\ None \notin Clients \cup {Main}
ASSUME SignalsAssumption == Signals \in Nat

VARIABLES
  pc,            \* where each thread is, or its client
  mutex_signal,  \* who has it, or None
  kill_signal,
  handling,      \* the threads that are in the handler
  signals,       \* how often SIGINT came
  node_list,     \* the connections in the order they were accepted
  joined,        \* how many of them main has joined
  sent,          \* how many pieces each client has sent
  over,          \* the clients that send no more
  received,      \* how many pieces the server has read
  used,          \* how many of them are out of the buffer
  head,          \* headbuf: of which request, and how many pieces
  keepalive,
  answered       \* the head that was answered last, which is request 0 at first

vars == <<pc, mutex_signal, kill_signal, handling, signals, node_list, joined, sent,
          over, received, used, head, keepalive, answered>>
signal == <<mutex_signal, kill_signal, handling, signals>>
list == <<node_list, joined>>
client == <<sent, over>>
worker == <<received, used, head, keepalive, answered>>

Heads == [request : Nat, pieces : 0 .. 4]

TypeOK ==
  /\ pc \in [Threads -> {"away", "pending", "check", "select", "recheck", "accept", "send",
                          "failed", "close", "join", "ended", "error"}]
  /\ mutex_signal \in Threads \cup {None} /\ kill_signal \in BOOLEAN
  /\ handling \in SUBSET Threads /\ signals \in 0 .. Signals
  /\ node_list \in Seq(Clients) /\ joined \in 0 .. Len(node_list)
  /\ over \in SUBSET Clients
  /\ sent \in [Clients -> Nat] /\ received \in [Clients -> Nat] /\ used \in [Clients -> Nat]
  /\ head \in [Clients -> Heads] /\ answered \in [Clients -> Heads]
  /\ keepalive \in [Clients -> BOOLEAN]

Init == /\ pc = [t \in Threads |-> IF t = Main THEN "check" ELSE "away"]
        /\ mutex_signal = None /\ kill_signal = FALSE /\ handling = {} /\ signals = 0
        /\ node_list = <<>> /\ joined = 0
        /\ over = {}
        /\ sent = [c \in Clients |-> 0]
        /\ received = [c \in Clients |-> 0]
        /\ used = [c \in Clients |-> 0]
        /\ head = [c \in Clients |-> [request |-> 0, pieces |-> 0]]
        /\ keepalive = [c \in Clients |-> FALSE]
        /\ answered = [c \in Clients |-> [request |-> 0, pieces |-> 4]]

Goto(t, where) == pc' = [pc EXCEPT ![t] = where]

-----------------------------------------------------------------------------
(* Clients.                                                                *)

Connect(c) == /\ pc[c] = "away"
              /\ Goto(c, "pending")
              /\ UNCHANGED <<signal, list, client, worker>>

Connected(c) == pc[c] \notin {"away", "ended"} /\ c \notin over

\* Any part of a request, or several requests.
Send(c) == \E n \in 1 .. 4 * Len(Requests[c]) - sent[c] :
             /\ Connected(c)
             /\ sent' = [sent EXCEPT ![c] = @ + n]
             /\ UNCHANGED <<pc, signal, list, over, worker>>

\* The client closes its side: after what it sent recv finds an end of file.
SendNoMore(c) == /\ Connected(c)
                 /\ over' = over \cup {c}
                 /\ UNCHANGED <<pc, signal, list, sent, worker>>

-----------------------------------------------------------------------------
(* The signal and mutex_signal.                                            *)

Runs(t) == pc[t] \notin {"away", "pending", "ended"}
Free(t) == t \notin handling

\* SIGINT may hit any thread of the program, wherever it is.
Interrupt(t) == /\ signals < Signals /\ Runs(t) /\ Free(t) /\ pc[Main] # "ended"
                /\ signals' = signals + 1
                /\ handling' = handling \cup {t}
                /\ UNCHANGED <<pc, mutex_signal, kill_signal, list, client, worker>>

\* handle, set_kill.  If the thread had mutex_signal, this waits for ever.  A select
\* that it was in returns -1; it may have been about to call it.
SetKill(t) == /\ t \in handling /\ mutex_signal = None
              /\ kill_signal' = TRUE
              /\ handling' = handling \ {t}
              /\ \/ pc[t] = "select" /\ Goto(t, "failed")
                 \/ UNCHANGED pc
              /\ UNCHANGED <<mutex_signal, signals, list, client, worker>>

\* get_kill, called before select, before a connection is accepted or an answer
\* sent, and after select has failed.
GetKillLock(t) == /\ pc[t] \in {"check", "recheck", "failed"} /\ Free(t)
                  /\ mutex_signal = None
                  /\ mutex_signal' = t
                  /\ UNCHANGED <<pc, kill_signal, handling, signals, list, client, worker>>

\* The end of the loop, for a thread that need not keep its connection.
LoopEnd(t) == IF t = Main THEN "join" ELSE "close"
Again(c) == IF keepalive[c] THEN "check" ELSE "close"

\* Slip: a kept connection is served without a look at kill_signal.
GetKill_late(t) == /\ mutex_signal = t /\ Free(t)
                   /\ mutex_signal' = None
                   /\ Goto(t, CASE pc[t] = "check" ->
                                     IF kill_signal /\ ~ (t \in Clients /\ keepalive[t])
                                       THEN LoopEnd(t) ELSE "select"
                               [] pc[t] = "failed" -> IF kill_signal THEN LoopEnd(t) ELSE "error"
                               [] OTHER -> IF t = Main
                                             THEN (IF kill_signal THEN "join" ELSE "accept")
                                             ELSE (IF kill_signal THEN Again(t) ELSE "send"))
                   /\ UNCHANGED <<kill_signal, handling, signals, list, client, worker>>

GetKill(t) == /\ mutex_signal = t /\ Free(t)
              /\ mutex_signal' = None
              /\ Goto(t, CASE pc[t] = "check"  -> IF kill_signal THEN LoopEnd(t) ELSE "select"
                          [] pc[t] = "failed" -> IF kill_signal THEN LoopEnd(t) ELSE "error"
                          [] OTHER -> IF t = Main
                                        THEN (IF kill_signal THEN "join" ELSE "accept")
                                        ELSE (IF kill_signal THEN Again(t) ELSE "send"))
              /\ UNCHANGED <<kill_signal, handling, signals, list, client, worker>>

-----------------------------------------------------------------------------
(* worker_thread.                                                          *)

HasInput(c) == received[c] < sent[c] \/ c \in over

\* Slip: the connection is closed when nothing comes for a second.
SelectTimeout_closes(c) == /\ pc[c] = "select" /\ Free(c) /\ ~ HasInput(c)
                           /\ Goto(c, "close")
                           /\ UNCHANGED <<signal, list, client, worker>>

\* Nothing for a second: a kept connection stays, a new one does not.
SelectTimeout(c) == /\ pc[c] = "select" /\ Free(c) /\ ~ HasInput(c)
                    /\ Goto(c, Again(c))
                    /\ UNCHANGED <<signal, list, client, worker>>

\* select finds input, and recv_head has this to be answered: a whole head, of which
\* it clears the buffer, or a part with the request line, which it leaves there.
HeadAnswered(c, pieces) == /\ head' = [head EXCEPT ![c] = [request |-> used[c] \div 4 + 1,
                                                           pieces  |-> pieces]]
                           /\ Goto(c, "recheck")

\* Slip: the head stays in the buffer.
RecvHead_keeps(c) ==
  /\ pc[c] = "select" /\ Free(c) /\ HasInput(c)
  /\ LET room  == Buffer - (received[c] - used[c])
         there == sent[c] - received[c]
         total == received[c] + (IF there < room THEN there ELSE room)
     IN  /\ received' = [received EXCEPT ![c] = total]
         /\ \/ total - used[c] >= 4 /\ HeadAnswered(c, 4)
            \/ total - used[c] \in {2, 3} /\ HeadAnswered(c, total - used[c])
            \/ total - used[c] < 2 /\ Goto(c, Again(c)) /\ UNCHANGED head
  /\ UNCHANGED <<signal, list, client, used, keepalive, answered>>

RecvHead(c) ==
  /\ pc[c] = "select" /\ Free(c) /\ HasInput(c)
  /\ LET room  == Buffer - (received[c] - used[c])
         there == sent[c] - received[c]
         total == received[c] + (IF there < room THEN there ELSE room)
     IN  /\ received' = [received EXCEPT ![c] = total]
         /\ \/ /\ total - used[c] >= 4
               /\ HeadAnswered(c, 4)
               /\ used' = [used EXCEPT ![c] = @ + 4]
            \/ total - used[c] \in {2, 3} /\ HeadAnswered(c, total - used[c]) /\ UNCHANGED used
            \/ total - used[c] < 2 /\ Goto(c, Again(c)) /\ UNCHANGED <<used, head>>
  /\ UNCHANGED <<signal, list, client, keepalive, answered>>

\* parse_http and _response_file_: the header "Connection" counts if it was read.
keeps(c) == Requests[c][head[c].request] /\ head[c].pieces >= 3

Respond(c) ==
  /\ pc[c] = "send" /\ Free(c)
  /\ keepalive' = [keepalive EXCEPT ![c] = keeps(c)]
  /\ answered' = [answered EXCEPT ![c] = head[c]]
  /\ Goto(c, IF keepalive'[c] THEN "check" ELSE "close")
  /\ UNCHANGED <<signal, list, client, received, used, head>>

Close(c) == /\ pc[c] = "close" /\ Free(c)
            /\ Goto(c, "ended")
            /\ UNCHANGED <<signal, list, client, worker>>

-----------------------------------------------------------------------------
(* main: acceptConnect.                                                    *)

Waiting == {c \in Clients : pc[c] = "pending"}

SelectConnection == /\ pc[Main] = "select" /\ Free(Main)
                    /\ Goto(Main, IF Waiting # {} THEN "recheck" ELSE "check")
                    /\ UNCHANGED <<signal, list, client, worker>>

\* Slip: the connection is not put into the list.
Accept_not_listed == \E c \in Waiting :
                       /\ pc[Main] = "accept" /\ Free(Main)
                       /\ pc' = [pc EXCEPT ![c] = "check", ![Main] = "check"]
                       /\ UNCHANGED <<signal, list, client, worker>>

Accept == \E c \in Waiting :
            /\ pc[Main] = "accept" /\ Free(Main)
            /\ pc' = [pc EXCEPT ![c] = "check", ![Main] = "check"]
            /\ node_list' = Append(node_list, c)
            /\ UNCHANGED <<signal, joined, client, worker>>

\* Slip: only the first half of the list is joined, since it gets shorter meanwhile.
Join_half == /\ pc[Main] = "join" /\ Free(Main)
             /\ IF joined < Len(node_list) \div 2
                  THEN /\ pc[node_list[joined + 1]] = "ended"
                       /\ joined' = joined + 1
                       /\ UNCHANGED pc
                  ELSE Goto(Main, "ended") /\ UNCHANGED joined
             /\ UNCHANGED <<signal, node_list, client, worker>>

Join == /\ pc[Main] = "join" /\ Free(Main)
        /\ IF joined < Len(node_list)
             THEN /\ pc[node_list[joined + 1]] = "ended"
                  /\ joined' = joined + 1
                  /\ UNCHANGED pc
             ELSE Goto(Main, "ended") /\ UNCHANGED joined
        /\ UNCHANGED <<signal, node_list, client, worker>>

-----------------------------------------------------------------------------
Worker(c) == SelectTimeout(c) \/ RecvHead(c) \/ Respond(c) \/ Close(c)

Thread(t) == \/ SetKill(t) \/ GetKillLock(t) \/ GetKill(t)
             \/ t \in Clients /\ Worker(t)
             \/ t = Main /\ (SelectConnection \/ Accept \/ Join)

Client(c) == Connect(c) \/ Send(c) \/ SendNoMore(c)

\* A handler that waits for the mutex its own thread has.
Stuck == \E t \in handling : mutex_signal = t

Next == \/ \E t \in Threads : Thread(t) \/ Interrupt(t)
        \/ \E c \in Clients : Client(c)
        \/ (pc[Main] = "ended" \/ Stuck) /\ UNCHANGED vars

\* Threads run, and none is kept from mutex_signal for ever, since its sections
\* are short.
Fairness == \A t \in Threads : SF_vars(Thread(t))

Spec == Init /\ [][Next]_vars

FairSpec == Spec /\ Fairness

-----------------------------------------------------------------------------
(* What holds.                                                             *)

\* What may be answered after the last answer: the next request, if that had the
\* whole head of a request that keeps the connection; or once more the same
\* request, if that had its header "Connection" and not its last line.
Follows(now, last) ==
  \/ now.request = last.request + 1 /\ last.pieces = 4
  \/ now.request = last.request /\ last.pieces = 3 /\ now.pieces \in {3, 4}

\* Requests are answered in the order they were sent, however they are cut up or
\* put together, and none that was answered with its whole head is answered again
\* (server.c:110-129, 343-384).
AnswersInOrder == [][\A c \in Clients : Respond(c) => Follows(head[c], answered[c])]_vars

\* When main returns, every connection that it accepted is closed, and its thread
\* has ended (server.c:495-505).
AllClosed == pc[Main] = "ended" =>
               \A c \in Clients : pc[c] \in {"away", "pending", "ended"}

\* The inductive invariant.  Who has mutex_signal is in get_kill, and select only
\* fails when the signal has come.
SignalAgrees ==
  /\ mutex_signal # None => pc[mutex_signal] \in {"check", "recheck", "failed"}
  /\ \A t \in Threads : pc[t] # "error" /\ (pc[t] = "failed" => kill_signal)

\* The list has every connection that was accepted, and main joins in its order.
ListAgrees ==
  /\ \A c \in Clients : pc[c] \notin {"away", "pending"} =>
                          \E i \in 1 .. Len(node_list) : node_list[i] = c
  /\ \A i \in 1 .. joined : pc[node_list[i]] = "ended"
  /\ pc[Main] = "ended" => joined = Len(node_list)

\* The buffer begins with a request; what is to be answered is one.
BuffersAgree ==
  \A c \in Clients :
    /\ used[c] \in {4 * n : n \in 0 .. Len(Requests[c])}
    /\ used[c] <= received[c] /\ received[c] <= sent[c] /\ sent[c] <= 4 * Len(Requests[c])
    /\ pc[c] \in {"recheck", "send"} => head[c].request \in 1 .. Len(Requests[c])

\* The buffer when this head is to be answered, or was: all of a whole head is out
\* of it, and all of another is still there.
Holds(c, h) ==
  IF h.pieces = 4 THEN used[c] = 4 * h.request
                  ELSE used[c] = 4 * (h.request - 1) /\ received[c] >= used[c] + h.pieces

\* The head that is to be answered follows the last; without one the buffer still
\* is what it was then, unless the signal came between reading and answering.
AnswersAgree ==
  \A c \in Clients :
    LET now == head[c]
        last == answered[c]
    IN  IF pc[c] \in {"recheck", "send"}
          THEN now.pieces \in 2 .. 4 /\ Follows(now, last) /\ Holds(c, now)
          ELSE Holds(c, last) \/ (kill_signal /\ pc[c] \in {"check", "close", "ended"})

\* A connection is kept as the last answer said; the first needs none.
KeepAgrees ==
  \A c \in Clients :
    LET last == answered[c]
    IN  /\ last.request <= Len(Requests[c])
        /\ IF last.request = 0
             THEN last.pieces = 4 /\ ~ keepalive[c]
             ELSE /\ pc[c] \notin {"away", "pending"} /\ last.pieces >= 2
                  /\ keepalive[c] => last.pieces >= 3
                  /\ pc[c] \in {"check", "select", "failed", "recheck", "send"} => keepalive[c]

IInv == TypeOK /\ SignalAgrees /\ ListAgrees /\ BuffersAgree /\ AnswersAgree /\ KeepAgrees

\* When the connection is kept, the next request is answered as soon as its request
\* line is there, unless the program is to end (server.c:338-384).
Answered ==
  \A c \in Clients : \A n \in 1 .. Len(Requests[c]) :
    [](keepalive[c] /\ answered[c] = [request |-> n - 1, pieces |-> 4] /\ sent[c] >= 4 * n - 2 =>
         <>(answered[c].request = n \/ kill_signal \/ Stuck))

\* After SIGINT the program ends, with all that its threads do, unless the handler
\* hit a thread inside get_kill: it then waits for itself (server.c:76-89, 549-552).
Ends == [](signals > 0 => <>(pc[Main] = "ended" \/ Stuck))
=============================================================================
