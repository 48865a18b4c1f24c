--------------------------- MODULE MapReduceProofs ---------------------------
(***************************************************************************)
(* libmapreduce for every number of processes, all they may write, and     *)
(* pipes and buffers of every size that holds a line: the inductive        *)
(* invariant, what mapreduce_get_value returns, and that the dictionary is *)
(* what reducing lines one after the other makes of it (MapResult).        *)
(***************************************************************************)
EXTENDS MapReduce, WellFoundedInduction, TLAPS

\* The worker's loop has a next pipe while there is one to read.
LEMMA CurrentIsReady ==
  ASSUME ready \in SUBSET Processes, ready # {}
  PROVE  current \in ready
<1>1. Processes \subseteq Nat
  BY OutputAssumption DEF Processes
<1>2. PICK p \in ready : \A q \in ready : ~ (<<q, p>> \in OpToRel(<, Nat))
  BY <1>1, NatLessThanWellFounded, WFMin
<1>3. ASSUME NEW q \in ready PROVE p <= q
  <2>1. p \in Nat /\ q \in Nat
    BY <1>1
  <2>2. ASSUME q < p PROVE FALSE
    <3>1. <<q, p>> \in {ss \in Nat \X Nat : ss[1] < ss[2]}
      BY <2>1, <2>2
    <3>2. QED BY <1>2, <3>1 DEF OpToRel
  <2>3. QED BY <2>1, <2>2
<1>4. QED BY <1>3 DEF current

\* The line that is dealt with exists, and its key is one of the keys.
LEMMA LineFacts ==
  ASSUME TypeOK, PipesAgree, WorkerAgrees, worker \in {"process", "add"}, HasLine
  PROVE  /\ current \in ready /\ current \in Processes
         /\ done[current] \in Nat /\ done[current] < Len(Output[current])
         /\ key \in Keys /\ value \in Nat \X Nat
<1>1. current \in ready /\ current \in Processes
  BY CurrentIsReady DEF TypeOK, WorkerAgrees
<1>2. Output[current] \in Seq(Keys) /\ current \in Nat
  BY <1>1, OutputAssumption DEF Processes
<1>3. Len(Output[current]) \in Nat
  BY <1>2
<1>4. done[current] \in Nat /\ taken[current] \in Nat /\ written[current] \in Nat
  BY <1>1 DEF TypeOK
<1>5. taken[current] >= 2 * (done[current] + 1) /\ taken[current] <= 2 * Len(Output[current])
  BY <1>1, <1>3, <1>4 DEF PipesAgree, HasLine
<1>6. done[current] < Len(Output[current])
  BY <1>3, <1>4, <1>5
<1>7. key \in Keys
  BY <1>2, <1>3, <1>4, <1>6 DEF key
<1>8. QED BY <1>1, <1>2, <1>4, <1>6, <1>7 DEF value

\* The beginnings of a sequence: none of it, all of it, and those of a longer one.
LEMMA BeginningFacts ==
  ASSUME NEW S, NEW v \in Seq(S)
  PROVE  /\ <<>> = SubSeq(v, 1, 0) /\ v = SubSeq(v, 1, Len(v))
         /\ \A x \in S : \A n \in 0 .. Len(v) : SubSeq(Append(v, x), 1, n) = SubSeq(v, 1, n)
<1>1. <<>> = SubSeq(v, 1, 0) /\ v = SubSeq(v, 1, Len(v))
  OBVIOUS
<1>2. ASSUME NEW x \in S, NEW n \in 0 .. Len(v)
      PROVE  SubSeq(Append(v, x), 1, n) = SubSeq(v, 1, n)
  OBVIOUS
<1>3. QED BY <1>1, <1>2

\* A line more at the end of a value.
LEMMA AppendedLine ==
  ASSUME NEW v \in Values, NEW x \in Nat \X Nat
  PROVE  Lines(Append(v, x)) = Lines(v) \cup {x}
<1> DEFINE w == Append(v, x)
<1>1. /\ Len(v) \in Nat /\ DOMAIN v = 1 .. Len(v) /\ DOMAIN w = 1 .. (Len(v) + 1)
      /\ w[Len(v) + 1] = x /\ \A i \in DOMAIN v : w[i] = v[i]
  BY DEF Values
<1> HIDE DEF w
<1>2. \A i : i \in DOMAIN w <=> i \in DOMAIN v \/ i = Len(v) + 1
  BY <1>1
<1>3. Lines(w) = Lines(v) \cup {x}
  BY <1>1, <1>2, Zenon DEF Lines
<1>4. QED BY <1>3 DEF w

\* The invariant holds before the first process is forked.
LEMMA InitIInv == Init => IInv
<1> SUFFICES ASSUME Init PROVE IInv
  OBVIOUS
<1>1. Len(Output) \in Nat /\ \A p \in Processes : Len(Output[p]) \in Nat
  BY OutputAssumption DEF Processes
<1>2. TypeOK
  <2>1. <<>> \in Values
    BY DEF Values
  <2>2. kv \in [Keys -> Values] /\ found \in Keys \X Values
    BY <2>1 DEF Init
  <2>3. QED BY <1>1, <2>1, <2>2 DEF Init, TypeOK
<1>3. MainAgrees /\ PipesAgree
  BY <1>1 DEF Init, MainAgrees, PipesAgree, Processes
<1>4. WorkerAgrees /\ SilenceIsEnd /\ ReadDoesNotBlock /\ EndsLast
  BY DEF Init, WorkerAgrees, SilenceIsEnd, ReadDoesNotBlock, EndsLast
<1>5. FoundIsPast
  <2>1. found \in Keys \X {<<>>} /\ values[found[1]] = <<>>
    BY DEF Init, values
  <2>2. <<>> = SubSeq(<<>>, 1, 0) /\ Len(<<>>) = 0 /\ found[2] = <<>>
    BY <2>1
  <2>3. QED BY <2>1, <2>2 DEF FoundIsPast, IsPast
<1>6. ValuesAgree
  <2> SUFFICES ASSUME NEW k \in Keys PROVE Lines(values[k]) = Reduced(k)
    BY DEF ValuesAgree
  <2>1. values[k] = <<>>
    BY DEF Init, values
  <2>2. Lines(<<>>) = {}
    BY DEF Lines
  <2>3. \A p \in Processes : done[p] = 0
    BY DEF Init
  <2>4. Reduced(k) = {}
    BY <2>3 DEF Reduced
  <2>5. QED BY <2>1, <2>2, <2>4
<1>7. QED BY <1>2, <1>3, <1>4, <1>5, <1>6 DEF IInv, Positions

\* The processes: more is written, and the end is reached when all is.
LEMMA ProcessPositions ==
  ASSUME Positions, NEW p \in Processes, Write(p) \/ Exit(p)
  PROVE  Positions'
<1> USE DEF Positions, calls, pipes, reducing, asking, HasData
<1>0. /\ Len(Output) \in Nat /\ \A q \in Processes : q \in Nat /\ Len(Output[q]) \in Nat
  BY OutputAssumption DEF Processes
<1>a. key' = key /\ current' = current
  BY DEF Write, Exit, key, current
<1>1. CASE Write(p)
  <2>1. TypeOK'
    BY <1>1 DEF Write, TypeOK
  <2>2. MainAgrees' /\ EndsLast'
    BY <1>1 DEF Write, TypeOK, MainAgrees, EndsLast
  <2>3. PipesAgree'
    <3> SUFFICES ASSUME NEW q \in Processes
                 PROVE  /\ 2 * done[q] <= taken[q] /\ taken[q] <= written'[q]
                        /\ written'[q] <= 2 * Len(Output[q])
                        /\ taken[q] >= 2 * (done[q] + 1) => worker \in {"process", "add"} /\ q = current
      BY <1>1, <1>a DEF Write, PipesAgree
    <3>1. done[q] \in Nat /\ taken[q] \in Nat /\ written[q] \in Nat
      BY DEF TypeOK
    <3>2. /\ 2 * done[q] <= taken[q] /\ taken[q] <= written[q] /\ written[q] <= 2 * Len(Output[q])
          /\ taken[q] >= 2 * (done[q] + 1) => worker \in {"process", "add"} /\ q = current
      BY DEF PipesAgree
    <3>3. written'[q] = IF q = p THEN written[q] + 1 ELSE written[q]
      BY <1>1 DEF Write, TypeOK
    <3>4. q = p => written[q] < 2 * Len(Output[q])
      BY <1>1 DEF Write
    <3>5. QED BY <1>0, <3>1, <3>2, <3>3, <3>4
  <2>4. WorkerAgrees' /\ ReadDoesNotBlock'
    BY <1>1, <1>a DEF Write, TypeOK, WorkerAgrees, ReadDoesNotBlock, HasLine
  <2>5. SilenceIsEnd'
    BY <1>1 DEF Write, TypeOK, SilenceIsEnd
  <2>6. QED BY <2>1, <2>2, <2>3, <2>4, <2>5
<1>2. CASE Exit(p)
  <2>1. TypeOK'
    BY <1>2 DEF Exit, TypeOK
  <2>2. MainAgrees' /\ EndsLast'
    BY <1>2 DEF Exit, TypeOK, MainAgrees, EndsLast
  <2>3. PipesAgree' /\ WorkerAgrees' /\ ReadDoesNotBlock'
    BY <1>2, <1>a DEF Exit, TypeOK, PipesAgree, WorkerAgrees, ReadDoesNotBlock, HasLine
  <2>4. SilenceIsEnd'
    BY <1>2 DEF Exit, TypeOK, SilenceIsEnd
  <2>5. QED BY <2>1, <2>2, <2>3, <2>4
<1>3. QED BY <1>1, <1>2

\* main: what it counts is right, and it starts the worker and waits for it.
LEMMA MainPositions ==
  ASSUME Positions, Main
  PROVE  Positions'
<1> USE DEF Positions, calls, pipes, reducing, asking, HasData
<1>0. /\ Len(Output) \in Nat /\ \A q \in Processes : q \in 1 .. Len(Output)
      /\ Output = <<>> <=> Len(Output) = 0
  BY OutputAssumption DEF Processes
<1>1. CASE Fork
  <2>1. TypeOK'
    <3>1. launched' \in 0 .. Len(Output)
      BY <1>0, <1>1 DEF Fork, TypeOK
    <3>2. child' \in [Processes -> {"none", "runs", "exited"}]
      BY <1>1 DEF Fork, TypeOK
    <3>3. QED BY <1>1, <3>1, <3>2 DEF Fork, TypeOK
  <2>2. MainAgrees' /\ EndsLast'
    BY <1>0, <1>1 DEF Fork, TypeOK, MainAgrees, EndsLast, Processes
  <2>3. PipesAgree' /\ WorkerAgrees' /\ SilenceIsEnd' /\ ReadDoesNotBlock'
    BY <1>1 DEF Fork, MainAgrees, PipesAgree, WorkerAgrees, SilenceIsEnd, ReadDoesNotBlock,
                HasLine, key, current
  <2>4. QED BY <2>1, <2>2, <2>3
<1>2. CASE StartWorker
  <2>1. TypeOK'
    BY <1>0, <1>2 DEF StartWorker, TypeOK
  <2>2. MainAgrees' /\ EndsLast'
    BY <1>0, <1>2 DEF StartWorker, TypeOK, MainAgrees, EndsLast, Processes
  <2>3. PipesAgree' /\ WorkerAgrees' /\ ReadDoesNotBlock'
    BY <1>2 DEF StartWorker, MainAgrees, PipesAgree, WorkerAgrees, ReadDoesNotBlock
  <2>4. SilenceIsEnd'
    BY <1>0, <1>2 DEF StartWorker, SilenceIsEnd
  <2>5. QED BY <2>1, <2>2, <2>3, <2>4
<1>3. CASE Wait
  <2>1. TypeOK'
    BY <1>0, <1>3 DEF Wait, TypeOK, MainAgrees
  <2>2. MainAgrees' /\ EndsLast'
    BY <1>0, <1>3 DEF Wait, TypeOK, MainAgrees, EndsLast
  <2>3. PipesAgree' /\ WorkerAgrees' /\ SilenceIsEnd' /\ ReadDoesNotBlock'
    BY <1>3 DEF Wait, PipesAgree, WorkerAgrees, SilenceIsEnd, ReadDoesNotBlock,
                HasLine, key, current
  <2>4. QED BY <2>1, <2>2, <2>3
<1>4. ASSUME \/ Join \/ ReduceAll \/ GetRead \/ \E k \in Keys : GetFind(k)
      PROVE  Positions'
  <2>1. UNCHANGED <<launched, waited, remain, child, written, taken, done, worker, armed, ready,
                    kv, old, slow>>
    BY <1>4 DEF Join, ReduceAll, GetRead, GetFind
  <2>2. TypeOK'
    <3>1. main' \in {"map", "calls", "get", "wait", "returned", "getfinal"}
      BY <1>4 DEF Join, ReduceAll, GetRead, GetFind, TypeOK
    <3>2. found' \in Keys \X Values
      BY <1>4 DEF Join, ReduceAll, GetRead, GetFind, TypeOK
    <3>3. got' \in Keys \X (Values \cup {Garbage})
      <4>1. <<>> \in Values
        BY DEF Values
      <4>2. QED BY <1>4, <4>1 DEF Join, ReduceAll, GetRead, GetFind, TypeOK
    <3>4. QED BY <2>1, <3>1, <3>2, <3>3 DEF TypeOK
  <2>3. MainAgrees' /\ EndsLast'
    BY <1>4, <2>1 DEF Join, ReduceAll, GetRead, GetFind, MainAgrees, EndsLast
  <2>4. PipesAgree' /\ WorkerAgrees' /\ SilenceIsEnd' /\ ReadDoesNotBlock'
    BY <2>1 DEF PipesAgree, WorkerAgrees, SilenceIsEnd, ReadDoesNotBlock, HasLine, key, current
  <2>5. QED BY <2>2, <2>3, <2>4
<1>5. QED BY <1>1, <1>2, <1>3, <1>4 DEF Main

\* The worker's select: pipes with data are read; and silence, without slow
\* processes, is the end, which the worker then knows.
LEMMA SelectPositions ==
  ASSUME Positions, SelectReady \/ SelectTimeout \/ GetRemain
  PROVE  Positions'
<1> USE DEF Positions, calls, pipes, reducing, asking, HasData
<1>0. /\ Len(Output) \in Nat /\ \A q \in Processes : q \in 1 .. Len(Output)
  BY OutputAssumption DEF Processes
<1>1. CASE SelectReady
  <2>1. armed = Processes
    BY <1>1 DEF SelectReady, SilenceIsEnd
  <2>2. TypeOK' /\ MainAgrees' /\ EndsLast'
    BY <1>1 DEF SelectReady, TypeOK, MainAgrees, EndsLast
  <2>3. PipesAgree'
    BY <1>1 DEF SelectReady, PipesAgree
  <2>4. WorkerAgrees' /\ SilenceIsEnd' /\ ReadDoesNotBlock'
    BY <1>1, <2>1 DEF SelectReady, WorkerAgrees, SilenceIsEnd, ReadDoesNotBlock
  <2>5. QED BY <2>2, <2>3, <2>4
<1>2. CASE SelectTimeout
  <2>1. TypeOK' /\ MainAgrees' /\ EndsLast'
    BY <1>2 DEF SelectTimeout, TypeOK, MainAgrees, EndsLast
  <2>2. PipesAgree' /\ WorkerAgrees' /\ ReadDoesNotBlock'
    BY <1>2 DEF SelectTimeout, PipesAgree, WorkerAgrees, ReadDoesNotBlock
  <2>3. ASSUME slow = {}, NEW p \in Processes
        PROVE  child[p] = "exited" /\ taken[p] = written[p]
    <3>1. CASE armed = Processes
      <4>1. ~ (written[p] > taken[p]) /\ child[p] = "exited"
        BY <1>2, <2>3, <3>1 DEF SelectTimeout, Silence
      <4>2. written[p] \in Nat /\ taken[p] \in Nat /\ taken[p] <= written[p]
        BY DEF TypeOK, PipesAgree
      <4>3. QED BY <4>1, <4>2
    <3>2. CASE armed # Processes
      BY <1>2, <2>3, <3>2 DEF SelectTimeout, SilenceIsEnd
    <3>3. QED BY <3>1, <3>2
  <2>4. SilenceIsEnd'
    BY <1>2, <2>3 DEF SelectTimeout, SilenceIsEnd
  <2>5. QED BY <2>1, <2>2, <2>4
<1>3. CASE GetRemain
  <2>1. TypeOK' /\ MainAgrees'
    BY <1>3 DEF GetRemain, TypeOK, MainAgrees
  <2>2. EndsLast'
    <3>1. CASE remain = 0
      <4>1. waited = Len(Output)
        BY <1>0, <1>3, <3>1 DEF GetRemain, TypeOK, MainAgrees
      <4>2. QED BY <1>0, <1>3, <4>1 DEF GetRemain, MainAgrees, EndsLast
    <3>2. CASE remain # 0
      BY <1>3, <3>2 DEF GetRemain, EndsLast
    <3>3. QED BY <3>1, <3>2
  <2>3. PipesAgree' /\ WorkerAgrees' /\ SilenceIsEnd' /\ ReadDoesNotBlock'
    BY <1>3 DEF GetRemain, PipesAgree, WorkerAgrees, SilenceIsEnd, ReadDoesNotBlock
  <2>4. QED BY <2>1, <2>2, <2>3
<1>4. QED BY <1>1, <1>2, <1>3

\* The worker's pipes: it reads at least a piece, and as much as the buffer
\* takes; it goes on when no whole line is left.
LEMMA ReadPositions ==
  ASSUME Positions, Read \/ NextPipe
  PROVE  Positions'
<1> USE DEF Positions, calls, pipes, reducing, asking, HasData
<1>0. \A q \in Processes : Len(Output[q]) \in Nat
  BY OutputAssumption DEF Processes
<1>1. current \in ready /\ current \in Processes
  BY CurrentIsReady DEF Read, NextPipe, WorkerAgrees, TypeOK
<1>2. /\ done[current] \in Nat /\ taken[current] \in Nat /\ written[current] \in Nat
      /\ 2 * done[current] <= taken[current] /\ taken[current] <= written[current]
  BY <1>1 DEF TypeOK, PipesAgree
<1>3. CASE Read
  <2>1. taken[current] < 2 * (done[current] + 1)
    BY <1>1, <1>2, <1>3 DEF Read, PipesAgree
  <2>2. PICK n \in Nat : n <= written[current] - taken[current]
                         /\ taken' = [taken EXCEPT ![current] = @ + n]
    <3> DEFINE there == written[current] - taken[current]
               fits == Buffer - (taken[current] - 2 * done[current])
               read == IF there < fits THEN there ELSE fits
    <3>1. read \in Nat /\ read <= there
      BY <1>2, <2>1, BufferAssumption
    <3>2. taken' = [taken EXCEPT ![current] = @ + read]
      BY <1>3 DEF Read
    <3>3. QED BY <3>1, <3>2
  <2>3. current' = current
    BY <1>3 DEF Read, current
  <2>4. \A q \in Processes : taken'[q] = IF q = current THEN taken[current] + n ELSE taken[q]
    BY <1>1, <2>2 DEF TypeOK
  <2>5. taken' \in [Processes -> Nat]
    BY <1>1, <1>2, <2>2 DEF TypeOK
  <2>6. TypeOK' /\ MainAgrees' /\ EndsLast'
    BY <1>3, <2>5 DEF Read, TypeOK, MainAgrees, EndsLast
  <2>7. PipesAgree'
    <3> SUFFICES ASSUME NEW q \in Processes
                 PROVE  /\ 2 * done[q] <= taken'[q] /\ taken'[q] <= written[q]
                        /\ written[q] <= 2 * Len(Output[q])
                        /\ taken'[q] >= 2 * (done[q] + 1) => q = current
      BY <1>3, <2>3 DEF Read, PipesAgree
    <3>1. CASE q = current
      BY <1>0, <1>2, <2>2, <2>4, <3>1 DEF PipesAgree
    <3>2. CASE q # current
      BY <1>3, <2>4, <3>2 DEF Read, PipesAgree
    <3>3. QED BY <3>1, <3>2
  <2>8. WorkerAgrees'
    BY <1>1, <1>3, <2>3, <2>4 DEF Read, WorkerAgrees, ReadDoesNotBlock, TypeOK
  <2>9. SilenceIsEnd' /\ ReadDoesNotBlock'
    BY <1>3 DEF Read, SilenceIsEnd, ReadDoesNotBlock
  <2>10. QED BY <2>6, <2>7, <2>8, <2>9
<1>4. CASE NextPipe
  <2>1. TypeOK' /\ MainAgrees' /\ EndsLast'
    BY <1>4 DEF NextPipe, TypeOK, MainAgrees, EndsLast
  <2>2. PipesAgree'
    <3>1. ~ (taken[current] >= 2 * (done[current] + 1))
      BY <1>4 DEF NextPipe, HasLine
    <3>2. QED BY <1>4, <3>1 DEF NextPipe, PipesAgree
  <2>3. WorkerAgrees' /\ ReadDoesNotBlock'
    BY <1>4 DEF NextPipe, WorkerAgrees, ReadDoesNotBlock
  <2>4. SilenceIsEnd'
    BY <1>4 DEF NextPipe, SilenceIsEnd
  <2>5. QED BY <2>1, <2>2, <2>3, <2>4
<1>5. QED BY <1>3, <1>4

\* The worker's dictionary: a line is reduced, in one step or in two.
LEMMA ReducePositions ==
  ASSUME Positions, AddFirst \/ RemoveOld \/ AddReduced
  PROVE  Positions'
<1> USE DEF Positions, calls, pipes, asking, HasData
<1>1. HasLine /\ worker \in {"process", "add"}
  BY DEF AddFirst, RemoveOld, AddReduced, WorkerAgrees
<1>2. /\ current \in Processes /\ key \in Keys /\ value \in Nat \X Nat
      /\ done[current] \in Nat /\ taken[current] \in Nat
  BY <1>1, LineFacts DEF TypeOK
<1>3. kv[key] \in Values /\ old \in Values
  BY <1>2 DEF TypeOK
<1>4. current' = current
  BY DEF AddFirst, RemoveOld, AddReduced, current
<1>5. CASE RemoveOld
  <2>1. key' = key /\ (HasLine)' = HasLine
    BY <1>4, <1>5 DEF RemoveOld, key, HasLine
  <2>2. kv' = [kv EXCEPT ![key] = <<>>] /\ kv' \in [Keys -> Values] /\ old' \in Values
    BY <1>2, <1>3, <1>5 DEF RemoveOld, TypeOK, Values
  <2>3. TypeOK' /\ MainAgrees' /\ EndsLast'
    BY <1>5, <2>2 DEF RemoveOld, TypeOK, MainAgrees, EndsLast
  <2>4. PipesAgree' /\ SilenceIsEnd' /\ ReadDoesNotBlock'
    BY <1>4, <1>5 DEF RemoveOld, PipesAgree, SilenceIsEnd, ReadDoesNotBlock
  <2>5. WorkerAgrees'
    <3>1. kv'[key] = <<>>
      BY <1>2, <2>2 DEF TypeOK
    <3>2. QED BY <1>1, <1>4, <1>5, <2>1, <3>1 DEF RemoveOld, WorkerAgrees
  <2>6. QED BY <2>3, <2>4, <2>5
<1>6. CASE AddFirst \/ AddReduced
  <2>1. /\ done' = [done EXCEPT ![current] = @ + 1] /\ worker' = "process"
        /\ UNCHANGED <<main, launched, waited, remain, child, written, taken, armed, ready,
                       found, got, slow>>
    BY <1>6 DEF AddFirst, AddReduced
  <2>2. kv' \in [Keys -> Values] /\ old' \in Values
    <3>1. <<>> \in Values /\ <<value>> \in Values /\ Append(old, value) \in Values
      BY <1>2, <1>3 DEF Values
    <3>2. QED BY <1>2, <1>3, <1>6, <3>1, ZenonT(60) DEF AddFirst, AddReduced, TypeOK
  <2>3. TypeOK' /\ MainAgrees' /\ EndsLast'
    BY <1>1, <1>2, <2>1, <2>2 DEF TypeOK, MainAgrees, EndsLast
  <2>4. PipesAgree'
    <3> SUFFICES ASSUME NEW q \in Processes
                 PROVE  /\ 2 * done'[q] <= taken[q] /\ taken[q] <= written[q]
                        /\ written[q] <= 2 * Len(Output[q])
                        /\ taken[q] >= 2 * (done'[q] + 1) => q = current
      BY <1>4, <2>1 DEF PipesAgree
    <3>1. CASE q = current
      <4>1. done'[q] = done[q] + 1 /\ 2 * (done[q] + 1) <= taken[q]
        BY <1>1, <1>2, <2>1, <3>1 DEF TypeOK, HasLine
      <4>2. QED BY <1>2, <3>1, <4>1 DEF PipesAgree
    <3>2. CASE q # current
      BY <1>1, <2>1, <3>2 DEF PipesAgree, TypeOK
    <3>3. QED BY <3>1, <3>2
  <2>5. WorkerAgrees' /\ SilenceIsEnd' /\ ReadDoesNotBlock'
    BY <1>1, <1>4, <2>1 DEF WorkerAgrees, SilenceIsEnd, ReadDoesNotBlock
  <2>6. QED BY <2>3, <2>4, <2>5
<1>7. QED BY <1>5, <1>6

\* Every step of the program keeps the positions.
LEMMA StepPositions == Positions /\ [Next]_vars => Positions'
<1> SUFFICES ASSUME Positions, [Next]_vars PROVE Positions'
  OBVIOUS
<1>1. CASE Worker
  BY <1>1, SelectPositions, ReadPositions, ReducePositions DEF Worker
<1>2. CASE Main
  BY <1>2, MainPositions
<1>3. CASE \E p \in Processes : Write(p) \/ Exit(p)
  BY <1>3, ProcessPositions
<1>4. CASE UNCHANGED vars
  BY <1>4 DEF vars, Positions, TypeOK, MainAgrees, PipesAgree, WorkerAgrees, SilenceIsEnd,
              ReadDoesNotBlock, EndsLast, HasLine, HasData, key, current
<1>5. QED BY <1>1, <1>2, <1>3, <1>4 DEF Next

\* What a step does to the dictionary: nothing, or it reduces a line as MapResult
\* says.  Removing the old entry is nothing, since adding the new one follows.
LEMMA StepIsReduce ==
  ASSUME Positions, [Next]_vars
  PROVE  UNCHANGED <<done, values>> \/ \E p \in Processes : Result!Reduce(p)
<1> USE DEF Positions, calls, pipes, asking
<1>1. CASE AddFirst \/ AddReduced
  <2>1. HasLine /\ worker \in {"process", "add"}
    BY <1>1 DEF AddFirst, AddReduced, WorkerAgrees
  <2>2. /\ current \in Processes /\ key \in Keys /\ value \in Nat \X Nat
        /\ done[current] < Len(Output[current])
    BY <2>1, LineFacts
  <2>3. kv \in [Keys -> Values] /\ old \in Values /\ worker' = "process"
    BY <1>1, <2>1 DEF AddFirst, AddReduced, TypeOK
  <2>4. values \in [Keys -> Values] /\ kv' = [values EXCEPT ![key] = Append(@, value)]
    <3>1. CASE AddFirst
      <4>1. worker = "process" /\ kv[key] = <<>> /\ kv' = [kv EXCEPT ![key] = <<value>>]
        BY <3>1 DEF AddFirst
      <4>2. Append(<<>>, value) = <<value>>
        OBVIOUS
      <4>3. QED BY <2>3, <4>1, <4>2 DEF values
    <3>2. CASE AddReduced
      <4>1. worker = "add" /\ kv' = [kv EXCEPT ![key] = Append(old, value)]
        BY <3>2 DEF AddReduced
      <4>2. values = [kv EXCEPT ![key] = old]
        BY <4>1 DEF values
      <4>3. QED BY <2>2, <2>3, <4>1, <4>2
    <3>3. QED BY <1>1, <3>1, <3>2
  <2>5. values' = kv'
    BY <2>3 DEF values
  <2>6. done' = [done EXCEPT ![current] = @ + 1]
    BY <1>1 DEF AddFirst, AddReduced
  <2>7. Result!Reduce(current)
    BY <2>2, <2>4, <2>5, <2>6 DEF Result!Reduce, key, value
  <2>8. QED BY <2>2, <2>7
<1>2. CASE RemoveOld
  <2>1. /\ worker = "process" /\ kv' = [kv EXCEPT ![key] = <<>>] /\ old' = kv[key]
        /\ worker' = "add" /\ done' = done /\ key' = key
    BY <1>2 DEF RemoveOld, key, current
  <2>2. kv \in [Keys -> Values] /\ key \in Keys
    BY <1>2, LineFacts DEF RemoveOld, TypeOK
  <2>3. [kv' EXCEPT ![key] = old'] = kv
    BY <2>1, <2>2
  <2>4. QED BY <2>1, <2>3 DEF values
<1>3. ASSUME UNCHANGED <<done, kv, old, worker, ready>>
      PROVE  UNCHANGED <<done, values>>
  BY <1>3 DEF values, key, current
<1>4. CASE SelectReady \/ SelectTimeout \/ GetRemain \/ Read \/ NextPipe
  <2>1. UNCHANGED <<done, kv, old>> /\ worker # "add" /\ worker' # "add"
    BY <1>4 DEF SelectReady, SelectTimeout, GetRemain, Read, NextPipe, reducing
  <2>2. QED BY <2>1 DEF values
<1>5. CASE StartWorker
  <2>1. UNCHANGED <<done, kv, old>> /\ worker # "add" /\ worker' # "add"
    BY <1>5 DEF StartWorker, MainAgrees, reducing
  <2>2. QED BY <2>1 DEF values
<1>6. CASE Main /\ ~ StartWorker
  BY <1>3, <1>6 DEF Main, Fork, Wait, Join, ReduceAll, GetRead, GetFind, reducing
<1>7. CASE \E p \in Processes : Write(p) \/ Exit(p)
  BY <1>3, <1>7 DEF Write, Exit, reducing
<1>8. CASE UNCHANGED vars
  BY <1>3, <1>8 DEF vars
<1>9. QED BY <1>1, <1>2, <1>4, <1>5, <1>6, <1>7, <1>8 DEF Next, Worker

\* The values have their types, with the one that is being replaced.
LEMMA ValuesType == Positions => values \in [Keys -> Values]
BY DEF Positions, TypeOK, values

\* An earlier value of a key stays one, whatever the worker does.
LEMMA PastStays ==
  ASSUME Positions, [Next]_vars, NEW entry \in Keys \X Values, IsPast(entry)
  PROVE  IsPast(entry)'
<1> DEFINE k == entry[1]
           n == Len(entry[2])
<1>1. values[k] \in Values /\ k \in Keys /\ values \in [Keys -> Values]
  BY ValuesType
<1>2. n \in Nat /\ n <= Len(values[k]) /\ entry[2] = SubSeq(values[k], 1, n)
  BY DEF IsPast, Values
<1>3. CASE UNCHANGED <<done, values>>
  BY <1>2, <1>3 DEF IsPast
<1>4. ASSUME NEW p \in Processes, Result!Reduce(p) PROVE IsPast(entry)'
  <2>1. /\ done[p] < Len(Output[p])
        /\ values' = [values EXCEPT ![Output[p][done[p] + 1]] = Append(@, <<p, done[p] + 1>>)]
    BY <1>4 DEF Result!Reduce
  <2>2. <<p, done[p] + 1>> \in Nat \X Nat
    BY OutputAssumption DEF Positions, TypeOK, Processes
  <2>3. CASE Output[p][done[p] + 1] = k
    <3>1. values'[k] = Append(values[k], <<p, done[p] + 1>>)
      BY <1>1, <2>1, <2>3
    <3>2. /\ Len(values'[k]) = Len(values[k]) + 1
          /\ SubSeq(values'[k], 1, n) = SubSeq(values[k], 1, n)
      BY <1>1, <1>2, <2>2, <3>1, BeginningFacts DEF Values
    <3>3. QED BY <1>1, <1>2, <3>2 DEF IsPast, Values
  <2>4. CASE Output[p][done[p] + 1] # k
    BY <1>1, <1>2, <2>1, <2>4 DEF IsPast
  <2>5. QED BY <2>3, <2>4
<1>5. QED BY <1>3, <1>4, StepIsReduce

\* What dictionary_get finds is a value of the key, even while its entry is away.
LEMMA EntryIsPast ==
  ASSUME Positions, NEW k \in Keys
  PROVE  IsPast(<<k, kv[k]>>)
<1>1. kv[k] \in Seq(Nat \X Nat) /\ values[k] \in Seq(Nat \X Nat)
  BY ValuesType DEF Positions, TypeOK, Values
<1>2. kv[k] = values[k] \/ kv[k] = <<>>
  BY DEF Positions, TypeOK, WorkerAgrees, values
<1>3. Len(kv[k]) <= Len(values[k]) /\ kv[k] = SubSeq(values[k], 1, Len(kv[k]))
  <2>1. CASE kv[k] = values[k]
    BY <1>1, <2>1, BeginningFacts
  <2>2. CASE kv[k] = <<>>
    BY <1>1, <2>2, BeginningFacts
  <2>3. QED BY <1>2, <2>1, <2>2
<1>4. QED BY <1>3 DEF IsPast

\* What main finds stays a value of its key.
LEMMA StepPast == IInv /\ [Next]_vars => FoundIsPast'
<1> SUFFICES ASSUME IInv, [Next]_vars PROVE FoundIsPast'
  OBVIOUS
<1>1. Positions /\ IsPast(found)
  BY DEF IInv, FoundIsPast
<1>2. found \in Keys \X Values /\ kv \in [Keys -> Values]
  BY <1>1 DEF Positions, TypeOK
<1> DEFINE Entries == {e \in Keys \X Values : IsPast(e)}
<1>3. \A k \in Keys : <<k, kv[k]>> \in Entries
  BY <1>1, <1>2, EntryIsPast
<1>4. found \in Entries
  BY <1>1, <1>2
<1>5. \A e \in Entries : IsPast(e)'
  BY <1>1, PastStays
<1> HIDE DEF Entries
<1>6. found' \in Entries
  <2>1. CASE UNCHANGED found
    BY <1>4, <2>1
  <2>2. ASSUME NEW k \in Keys, GetFind(k)
        PROVE  found' \in Entries
    BY <1>3, <1>4, <2>2 DEF GetFind
  <2>3. QED
    BY <2>1, <2>2 DEF Next, vars, Worker, Main, SelectReady, SelectTimeout, GetRemain, Read,
       AddFirst, RemoveOld, AddReduced, NextPipe, Fork, StartWorker, GetRead, Wait, Join, ReduceAll,
       Write, Exit, asking
<1>7. IsPast(found)'
  BY <1>5, <1>6 DEF IsPast
<1>8. QED BY <1>7 DEF FoundIsPast

\* A line more has been reduced: to the value of its key, and to no other.
LEMMA StepValues == Positions /\ ValuesAgree /\ [Next]_vars => ValuesAgree'
<1> SUFFICES ASSUME Positions, ValuesAgree, [Next]_vars, NEW k \in Keys
             PROVE  Lines(values'[k]) = Reduced(k)'
  BY DEF ValuesAgree
<1>1. values[k] \in Values /\ values \in [Keys -> Values] /\ Lines(values[k]) = Reduced(k)
  BY ValuesType DEF ValuesAgree
<1>2. CASE UNCHANGED <<done, values>>
  BY <1>1, <1>2 DEF Reduced
<1>3. ASSUME NEW p \in Processes, Result!Reduce(p)
      PROVE  Lines(values'[k]) = Reduced(k)'
  <2> DEFINE line == <<p, done[p] + 1>>
  <2>1. /\ done' = [done EXCEPT ![p] = @ + 1]
        /\ values' = [values EXCEPT ![Output[p][done[p] + 1]] = Append(@, line)]
    BY <1>3 DEF Result!Reduce
  <2>2. done \in [Processes -> Nat] /\ line \in Nat \X Nat
    BY OutputAssumption DEF Positions, TypeOK, Processes
  <2>3. \A q \in Processes : done'[q] = IF q = p THEN done[p] + 1 ELSE done[q]
    BY <2>1, <2>2
  <2>4. ASSUME NEW l
        PROVE  l \in Reduced(k)' <=> l \in Reduced(k) \/ (l = line /\ Output[p][done[p] + 1] = k)
    <3>1. l \in Reduced(k) <=> \E q \in Processes : \E i \in 1 .. done[q] : Output[q][i] = k /\ l = <<q, i>>
      BY DEF Reduced
    <3>2. l \in Reduced(k)' <=> \E q \in Processes : \E i \in 1 .. done'[q] : Output[q][i] = k /\ l = <<q, i>>
      BY DEF Reduced
    <3>3. \A i : i \in 1 .. (done[p] + 1) <=> i \in 1 .. done[p] \/ i = done[p] + 1
      BY <2>2
    <3>4. QED BY <2>3, <3>1, <3>2, <3>3, Zenon
  <2>5. CASE Output[p][done[p] + 1] = k
    <3>1. values'[k] = Append(values[k], line)
      BY <1>1, <2>1, <2>5
    <3>2. Lines(values'[k]) = Lines(values[k]) \cup {line}
      <4> HIDE DEF line
      <4>1. Lines(Append(values[k], line)) = Lines(values[k]) \cup {line}
        BY <1>1, <2>2, AppendedLine
      <4>2. QED BY <3>1, <4>1
    <3>3. Reduced(k)' = Reduced(k) \cup {line}
      <4> HIDE DEF line
      <4>1. \A l : l \in Reduced(k)' <=> l \in Reduced(k) \/ l = line
        BY <2>4, <2>5
      <4>2. QED BY <4>1, Zenon
    <3>4. QED BY <1>1, <3>2, <3>3
  <2>6. CASE Output[p][done[p] + 1] # k
    <3>1. values'[k] = values[k]
      BY <1>1, <2>1, <2>6
    <3>2. QED BY <1>1, <2>4, <2>6, <3>1
  <2>7. QED BY <2>5, <2>6
<1>4. QED BY <1>2, <1>3, StepIsReduce

\* The types hold, and the positions of main, of the worker and in the pipes fit
\* together (libmapreduce.c:220-347).
THEOREM Invariance == Spec => []IInv
<1>1. IInv /\ [Next]_vars => IInv'
  BY StepPositions, StepValues, StepPast DEF IInv
<1>2. QED BY <1>1, InitIInv, PTL DEF Spec

\* The worker never reads from an empty pipe, which would block it for ever
\* (libmapreduce.c:258-271).
THEOREM NeverBlocks == Spec => []ReadDoesNotBlock
BY Invariance, PTL DEF IInv, Positions

\* The worker ends after the processes, and after main has waited for them
\* (libmapreduce.c:282).
THEOREM WorkerEndsLast == Spec => []EndsLast
BY Invariance, PTL DEF IInv, Positions

\* When mapreduce_reduce_all returns and no process was silent for two seconds,
\* every line is reduced: nothing is in a pipe, and no whole line in a buffer
\* (libmapreduce.c:282, 336-347).
THEOREM NothingIsLeft == Spec => []AllReduced
<1>1. IInv => AllReduced
  <2> SUFFICES ASSUME IInv, main \in {"returned", "getfinal"}, slow = {}, NEW p \in Processes
               PROVE  done[p] = Len(Output[p])
    BY DEF AllReduced, AllDone
  <2>1. worker = "ended" /\ armed = {} /\ armed # Processes
    BY DEF IInv, Positions, MainAgrees, SilenceIsEnd
  <2>2. taken[p] = 2 * Len(Output[p])
    BY <2>1 DEF IInv, Positions, SilenceIsEnd, MainAgrees
  <2>3. taken[p] < 2 * (done[p] + 1) /\ 2 * done[p] <= taken[p] /\ done[p] \in Nat
    BY <2>1, <2>2, OutputAssumption, SMTT(30) DEF IInv, Positions, TypeOK, PipesAgree, Processes
  <2>4. Len(Output[p]) \in Nat
    BY OutputAssumption DEF Processes
  <2>5. QED BY <2>2, <2>3, <2>4
<1>2. QED BY <1>1, Invariance, PTL

\* mapreduce_get_value returns what has been reduced to the key so far; while the
\* worker replaces the entry also NULL or freed memory (libmapreduce.c:111-115,
\* 355-359).
THEOREM CurrentValues == Spec => GotIsCurrent
<1> DEFINE Current == LET k == got'[1]
                          v == got'[2]
                      IN  \/ v \notin {<<>>, Garbage} /\ Lines(v) = Reduced(k)
                          \/ v = <<>> /\ (Reduced(k) = {} \/ Replacing(k))
                          \/ v = Garbage /\ (Len(found[2]) < Len(values[k]) \/ Replacing(k))
<1>1. ASSUME IInv, [Next]_vars, GetRead \/ got' # got PROVE Current
  <2>1. Positions /\ ValuesAgree /\ IsPast(found) /\ found \in Keys \X Values
    BY <1>1 DEF IInv, FoundIsPast, Positions, TypeOK
  <2>2. ASSUME NEW k \in Keys, ~ Replacing(k)
        PROVE  kv[k] = values[k] /\ Lines(kv[k]) = Reduced(k) /\ kv[k] \in Values
    <3>1. values[k] = kv[k] /\ kv[k] \in Values
      BY <2>1, <2>2 DEF Replacing, values, Positions, TypeOK
    <3>2. QED BY <2>1, <3>1 DEF ValuesAgree
  <2>3. CASE GetRead
    <3> DEFINE k == found[1]
    <3>1. k \in Keys /\ found = <<k, found[2]>> /\ found[2] \in Seq(Nat \X Nat)
      BY <2>1 DEF Values
    <3>2. CASE kv[k] = found[2]
      <4>1. got' = found
        BY <2>3, <3>2 DEF GetRead
      <4>2. found[2] # Garbage
        BY <3>1, GarbageAssumption
      <4>3. CASE ~ Replacing(k)
        <5>1. Lines(found[2]) = Reduced(k)
          BY <2>2, <3>1, <3>2, <4>3
        <5>2. Lines(<<>>) = {}
          BY DEF Lines
        <5>3. QED BY <4>1, <4>2, <5>1, <5>2
      <4>4. CASE Replacing(k)
        <5>1. found[2] = <<>>
          BY <2>1, <3>2, <4>4 DEF Replacing, Positions, WorkerAgrees
        <5>2. QED BY <4>1, <4>4, <5>1
      <4>5. QED BY <4>3, <4>4
    <3>3. CASE kv[k] # found[2]
      <4>1. got' = <<k, Garbage>>
        BY <2>3, <3>3 DEF GetRead
      <4>2. CASE Replacing(k)
        BY <4>1, <4>2
      <4>3. CASE ~ Replacing(k)
        <5>1. values[k] \in Seq(Nat \X Nat) /\ values[k] # found[2]
          BY <2>2, <3>1, <3>3, <4>3 DEF Values
        <5>2. /\ Len(found[2]) <= Len(values[k])
              /\ found[2] = SubSeq(values[k], 1, Len(found[2]))
          BY <2>1 DEF IsPast
        <5>3. Len(found[2]) # Len(values[k])
          BY <5>1, <5>2, BeginningFacts
        <5>4. Len(found[2]) < Len(values[k])
          BY <3>1, <5>1, <5>2, <5>3
        <5>5. QED BY <4>1, <5>4
      <4>4. QED BY <4>2, <4>3
    <3>4. QED BY <3>2, <3>3
  <2>4. CASE ~ GetRead
    <3>1. PICK k \in Keys : GetFind(k)
      BY <1>1, <2>4 DEF Next, vars, Worker, Main, SelectReady, SelectTimeout, GetRemain, Read,
         AddFirst, RemoveOld, AddReduced, NextPipe, Fork, StartWorker, Wait, Join, ReduceAll,
         Write, Exit, asking
    <3>2. kv[k] = <<>> /\ got' = <<k, <<>>>>
      BY <1>1, <2>4, <3>1 DEF GetFind
    <3>3. CASE Replacing(k)
      BY <3>2, <3>3
    <3>4. CASE ~ Replacing(k)
      <4>1. Lines(<<>>) = {}
        BY DEF Lines
      <4>2. Reduced(k) = {}
        BY <2>2, <3>2, <3>4, <4>1
      <4>3. QED BY <3>2, <4>2
    <3>5. QED BY <3>3, <3>4
  <2>5. QED BY <2>3, <2>4
<1>2. IInv /\ [Next]_vars => [GetRead \/ got' # got => Current]_vars
  BY <1>1
<1>3. QED BY <1>2, Invariance, PTL DEF Spec, GotIsCurrent

\* The dictionary is what reducing lines one after the other makes of it, none
\* twice and those of a process in order, though reads cut up lines and an entry
\* is replaced in two steps (libmapreduce.c:92-121, 156-202).  That no line is left
\* out in the end is NothingIsLeft.
THEOREM ImplementsMapResult == Spec => ResultSpec
<1>1. Init => Result!Init
  BY DEF Init, Result!Init, values, Processes, Result!Processes
<1>2. IInv /\ [Next]_vars => [\E p \in Result!Processes : Result!Reduce(p)]_<<done, values>>
  BY StepIsReduce DEF IInv, Processes, Result!Processes
<1>3. QED BY <1>1, <1>2, Invariance, PTL DEF Spec, ResultSpec, Result!Spec
=============================================================================
