--------------------------- MODULE SimulatorProofs ---------------------------
(***************************************************************************)
(* Proofs about the scheduler library and the simulator of mp4, for every  *)
(* file, scheme, quantum and number of cores.                              *)
(***************************************************************************)
EXTENDS Simulator, SequenceTheorems, FiniteSetTheorems, WellFoundedInduction, TLAPS

-----------------------------------------------------------------------------
(* Numbers and sequences.                                                  *)

\* A set of positions has a first one.
LEMMA LeastFacts ==
  ASSUME NEW I \in SUBSET Nat, I # {}
  PROVE  \E i \in I : \A j \in I : i <= j
<1>1. PICK i \in I : \A j \in I : ~ (<<j, i>> \in OpToRel(<, Nat))
  BY NatLessThanWellFounded, WFMin
<1>2. ASSUME NEW j \in I PROVE i <= j
  <2>1. i \in Nat /\ j \in Nat
    OBVIOUS
  <2>2. ~ (j < i)
    <3>1. ASSUME j < i PROVE FALSE
      <4>1. <<j, i>> \in {ss \in Nat \X Nat : ss[1] < ss[2]}
        BY <2>1, <3>1
      <4>2. QED BY <1>1, <4>1 DEF OpToRel
    <3>2. QED BY <3>1
  <2>3. QED BY <2>1, <2>2
<1>3. QED BY <1>2

\* Min of a set of positions.
LEMMA MinFacts ==
  ASSUME NEW I \in SUBSET Nat, I # {}
  PROVE  Min(I) \in I /\ \A j \in I : Min(I) <= j
BY LeastFacts DEF Min

\* A sequence with one more item at place p.
LEMMA InsertFacts ==
  ASSUME NEW T, NEW q \in Seq(T), NEW x \in T, NEW p \in 1 .. Len(q) + 1
  PROVE  LET r == InsertAt(q, p, x)
         IN  /\ r \in Seq(T)
             /\ Len(r) = Len(q) + 1
             /\ \A i \in 1 .. Len(q) + 1 :
                  r[i] = IF i < p THEN q[i] ELSE IF i = p THEN x ELSE q[i - 1]
<1> DEFINE a == SubSeq(q, 1, p - 1)
           b == SubSeq(q, p, Len(q))
<1>1. /\ a \in Seq(T) /\ Len(a) = p - 1
      /\ \A i \in 1 .. p - 1 : a[i] = q[i]
  BY SubSeqProperties
<1>2. /\ b \in Seq(T) /\ Len(b) = Len(q) - p + 1
      /\ \A i \in 1 .. Len(q) - p + 1 : b[i] = q[p + i - 1]
  BY SubSeqProperties
<1> HIDE DEF a, b
<1>3. <<x>> \in Seq(T) /\ Len(<<x>>) = 1 /\ <<x>>[1] = x
  OBVIOUS
<1> DEFINE c == a \o <<x>>
<1>4. /\ c \in Seq(T) /\ Len(c) = p
      /\ \A i \in 1 .. p : c[i] = IF i < p THEN q[i] ELSE x
  BY <1>1, <1>3, ConcatProperties
<1> HIDE DEF c
<1>5. /\ c \o b \in Seq(T) /\ Len(c \o b) = Len(q) + 1
      /\ \A i \in 1 .. Len(q) + 1 : (c \o b)[i] = IF i <= p THEN c[i] ELSE b[i - p]
  <2>1. Len(c) + Len(b) = Len(q) + 1
    BY <1>2, <1>4
  <2>2. QED BY <1>2, <1>4, <2>1, ConcatProperties
<1> DEFINE r == c \o b
<1> HIDE DEF r
<1>6. ASSUME NEW i \in 1 .. Len(q) + 1
      PROVE  r[i] = IF i < p THEN q[i] ELSE IF i = p THEN x ELSE q[i - 1]
  <2>1. i \in Int /\ p \in Int
    OBVIOUS
  <2>2. ASSUME i <= p PROVE r[i] = IF i < p THEN q[i] ELSE x
    <3>1. i \in 1 .. p
      BY <2>2
    <3>2. r[i] = c[i]
      BY <1>5, <2>2 DEF r
    <3>3. QED BY <1>4, <3>1, <3>2
  <2>3. ASSUME i > p PROVE r[i] = q[i - 1]
    <3>1. i - p \in 1 .. Len(q) - p + 1 /\ p + (i - p) - 1 = i - 1
      BY <2>3
    <3>2. r[i] = b[i - p]
      BY <1>5, <2>3 DEF r
    <3>3. QED BY <1>2, <3>1, <3>2
  <2>4. QED BY <2>1, <2>2, <2>3
<1>7. QED BY <1>5, <1>6 DEF InsertAt, a, b, c, r

WithQueue(s, q) == [s EXCEPT !.queue = q]

\* What is put into a queue and then removed leaves the queue as it was: the
\* job that has finished (libscheduler.c:328-329).
LEMMA RemoveInserted ==
  ASSUME NEW T, NEW q \in Seq(T), NEW x \in T, NEW p \in 1 .. Len(q) + 1,
         x \notin ToSet(q), NEW s, s.queue = InsertAt(q, p, x), "queue" \in DOMAIN s
  PROVE  priqueue_remove(s, x) = WithQueue(s, q)
<1> DEFINE n == Len(q)
           r == InsertAt(q, p, x)
           keep == {i \in DOMAIN r : r[i] # x}
           upto(i) == {j \in keep : j <= i}
           from(m) == CHOOSE i \in keep : Cardinality(upto(i)) = m
<1>1. n \in Nat /\ p \in Nat \ {0} /\ p <= n + 1 /\ q \in [1 .. n -> T]
  OBVIOUS
<1>2. /\ DOMAIN r = 1 .. n + 1
      /\ \A i \in 1 .. n + 1 : r[i] = IF i < p THEN q[i] ELSE IF i = p THEN x ELSE q[i - 1]
  <2>1. /\ r \in Seq(T) /\ Len(r) = n + 1
        /\ \A i \in 1 .. n + 1 : r[i] = IF i < p THEN q[i] ELSE IF i = p THEN x ELSE q[i - 1]
    BY InsertFacts, SMTT(30)
  <2> HIDE DEF r, n
  <2>2. DOMAIN r = 1 .. n + 1
    BY <2>1
  <2>3. QED BY <2>1, <2>2
<1> HIDE DEF r
<1>3. \A i \in 1 .. n : q[i] # x
  BY <1>1 DEF ToSet
<1>4. keep = (1 .. n + 1) \ {p}
  <2>1. ASSUME NEW i \in 1 .. n + 1 PROVE r[i] = x <=> i = p
    <3>1. CASE i < p
      BY <1>1, <1>2, <1>3, <3>1
    <3>2. CASE i = p
      BY <1>2, <3>2
    <3>3. CASE i > p
      <4>1. i - 1 \in 1 .. n /\ r[i] = q[i - 1]
        BY <1>1, <1>2, <3>3
      <4>2. QED BY <1>3, <3>3, <4>1
    <3>4. QED BY <1>1, <3>1, <3>2, <3>3
  <2>2. QED BY <1>2, <2>1
<1>5. Cardinality(keep) = n
  <2>1. IsFiniteSet(1 .. n + 1) /\ Cardinality(1 .. n + 1) = n + 1
    BY <1>1, FS_Interval
  <2>2. p \in 1 .. n + 1
    BY <1>1
  <2>3. Cardinality((1 .. n + 1) \ {p}) = (n + 1) - 1
    BY <2>1, <2>2, FS_RemoveElement
  <2> HIDE DEF keep
  <2>4. QED BY <1>1, <1>4, <2>3
<1>6. ASSUME NEW i \in keep PROVE Cardinality(upto(i)) = IF i < p THEN i ELSE i - 1
  <2>1. i \in Nat /\ i # p /\ 1 <= i /\ i <= n + 1
    BY <1>1, <1>4
  <2>2. IsFiniteSet(1 .. i) /\ Cardinality(1 .. i) = i
    BY <2>1, FS_Interval
  <2>3. CASE i < p
    <3>1. upto(i) = 1 .. i
      BY <1>1, <1>4, <2>1, <2>3
    <3>2. QED BY <2>2, <2>3, <3>1
  <2>4. CASE i > p
    <3>1. upto(i) = (1 .. i) \ {p} /\ p \in 1 .. i
      BY <1>1, <1>4, <2>1, <2>4
    <3>2. Cardinality(upto(i)) = i - 1
      BY <2>2, <3>1, FS_RemoveElement
    <3>3. QED BY <1>1, <2>1, <2>4, <3>2
  <2>5. QED BY <1>1, <2>1, <2>3, <2>4
<1>7. ASSUME NEW m \in 1 .. n PROVE r[from(m)] = q[m]
  <2> DEFINE k == IF m < p THEN m ELSE m + 1
  <2>1. k \in keep /\ Cardinality(upto(k)) = m
    <3>1. k \in keep /\ (IF k < p THEN k ELSE k - 1) = m
      BY <1>1, <1>4
    <3> HIDE DEF k
    <3>2. QED BY <1>6, <3>1
  <2>2. ASSUME NEW i \in keep, Cardinality(upto(i)) = m PROVE i = k
    <3>1. (IF i < p THEN i ELSE i - 1) = m /\ i \in Nat /\ i # p
      BY <1>1, <1>4, <1>6, <2>2
    <3>2. QED BY <1>1, <3>1
  <2> HIDE DEF upto
  <2>3. from(m) = k
    <3> HIDE DEF k, keep
    <3>1. QED BY <2>1, <2>2
  <2>4. r[k] = q[m]
    <3>1. CASE m < p
      BY <1>1, <1>2, <3>1
    <3>2. CASE ~ m < p
      <4>1. m + 1 \in 1 .. n + 1 /\ ~ (m + 1 < p) /\ m + 1 # p /\ (m + 1) - 1 = m
        BY <1>1, <3>2
      <4>2. r[m + 1] = q[(m + 1) - 1]
        BY <1>2, <4>1
      <4>3. QED BY <3>2, <4>1, <4>2
    <3>3. QED BY <3>1, <3>2
  <2> HIDE DEF from, k
  <2>5. QED BY <2>3, <2>4
<1> HIDE DEF upto, from, keep
<1>8. [m \in 1 .. Cardinality(keep) |-> r[from(m)]] = q
  BY <1>1, <1>5, <1>7
<1>9. priqueue_remove(s, x) = [s EXCEPT !.queue = [m \in 1 .. Cardinality(keep) |-> r[from(m)]]]
  BY DEF priqueue_remove, keep, from, upto, r
<1>10. QED BY <1>8, <1>9 DEF WithQueue

-----------------------------------------------------------------------------
(* Sums over finite sets.                                                  *)

\* Of the subsets of a finite set, in any choice of them, one has none of the
\* others as a part.
LEMMA LeastSet ==
  ASSUME NEW I, IsFiniteSet(I), NEW B \in SUBSET (SUBSET I), B # {}
  PROVE  \E T \in B : \A U \in SUBSET T : U # T => U \notin B
<1>1. B \subseteq FiniteSubsetsOf(I)
  BY FS_Subset DEF FiniteSubsetsOf
<1>2. PICK T \in B : \A U \in B : ~ (<<U, T>> \in StrictSubsetOrdering(I))
  BY <1>1, FS_StrictSubsetOrderingWellFounded, WFMin
<1>3. ASSUME NEW U \in SUBSET T, U # T, U \in B PROVE FALSE
  <2>1. <<U, T>> \in StrictSubsetOrdering(I)
    BY <1>3 DEF StrictSubsetOrdering
  <2>2. QED BY <1>2, <1>3, <2>1
<1>4. QED BY <1>3

Pick(s) == CHOOSE x \in s : TRUE

\* iter is what the fold of g over the subsets of I is.
Folds(g, I, iter) ==
  iter = [s \in SUBSET I |-> IF s = {} THEN 0 ELSE g[Pick(s)] + iter[s \ {Pick(s)}]]

Fold(g, I) == CHOOSE iter : Folds(g, I, iter)

LEMMA SumUnfold ==
  ASSUME NEW g, NEW I
  PROVE  SumFunctionOnSet(g, I) = Fold(g, I)[I]
BY DEF SumFunctionOnSet, FoldFunctionOnSet, MapThenFoldSet, Fold, Folds, Pick

\* What the fold is of no item and, for a set, what remains without the item picked.
LEMMA FoldsFacts ==
  ASSUME NEW g, NEW I, NEW f, Folds(g, I, f)
  PROVE  /\ f[{}] = 0
         /\ \A s \in SUBSET I : s # {} =>
              /\ f[s] = g[Pick(s)] + f[s \ {Pick(s)}]
              /\ Pick(s) \in s
              /\ s \ {Pick(s)} \in SUBSET s /\ s \ {Pick(s)} # s
<1>1. /\ f[{}] = 0
      /\ \A s \in SUBSET I : s # {} => f[s] = g[Pick(s)] + f[s \ {Pick(s)}]
  BY DEF Folds
<1>2. \A s : s # {} => Pick(s) \in s
  BY DEF Pick
<1>3. QED BY <1>1, <1>2

\* It does not depend on the set of which a set is a part,
LEMMA FoldsAgree ==
  ASSUME NEW g, NEW I, IsFiniteSet(I), NEW T, NEW f, NEW h, Folds(g, I, f), Folds(g, T, h),
         NEW U \in SUBSET I, U \in SUBSET T
  PROVE  f[U] = h[U]
<1> DEFINE B == {V \in SUBSET U : f[V] # h[V]}
<1>1. SUFFICES ASSUME B # {} PROVE FALSE
  OBVIOUS
<1>2. IsFiniteSet(U)
  BY FS_Subset
<1>3. PICK V \in B : \A W \in SUBSET V : W # V => W \notin B
  <2>1. B \in SUBSET (SUBSET U)
    OBVIOUS
  <2> HIDE DEF B
  <2>2. QED BY <1>1, <1>2, <2>1, LeastSet
<1>4. V \in SUBSET I /\ V \in SUBSET T
  BY <1>3
<1>5. V # {}
  <2>1. f[{}] = 0 /\ h[{}] = 0
    BY FoldsFacts
  <2>2. QED BY <1>3, <2>1
<1>6. V \ {Pick(V)} \notin B
  BY <1>3, <1>4, <1>5, FoldsFacts
<1>7. QED BY <1>3, <1>4, <1>5, <1>6, FoldsFacts

\* and there is one for every finite set.
LEMMA FoldsExist ==
  ASSUME NEW g, NEW I, IsFiniteSet(I)
  PROVE  Folds(g, I, Fold(g, I))
<1> DEFINE B == {T \in SUBSET I : ~ Folds(g, T, Fold(g, T))}
<1>1. SUFFICES ASSUME B # {} PROVE FALSE
  OBVIOUS
<1>2. PICK T \in B : \A U \in SUBSET T : U # T => U \notin B
  <2>1. B \in SUBSET (SUBSET I)
    OBVIOUS
  <2> HIDE DEF B
  <2>2. QED BY <1>1, <2>1, LeastSet
<1>3. \A U \in SUBSET T : U # T => Folds(g, U, Fold(g, U)) /\ IsFiniteSet(U)
  BY <1>2, FS_Subset
<1> DEFINE f == [s \in SUBSET T |->
                   IF s # T THEN Fold(g, s)[s]
                   ELSE IF s = {} THEN 0
                   ELSE g[Pick(s)] + Fold(g, s \ {Pick(s)})[s \ {Pick(s)}]]
<1>4. ASSUME NEW s \in SUBSET T
      PROVE  f[s] = IF s = {} THEN 0 ELSE g[Pick(s)] + f[s \ {Pick(s)}]
  <2>1. s # {} => s \ {Pick(s)} \in SUBSET T /\ s \ {Pick(s)} # T /\ s \ {Pick(s)} # s
    BY DEF Pick
  <2>2. CASE s = T
    BY <2>1, <2>2
  <2>3. CASE s # T /\ s = {}
    BY <1>3, <2>3, FoldsFacts
  <2>4. CASE s # T /\ s # {}
    <3> DEFINE r == s \ {Pick(s)}
    <3>1. Folds(g, s, Fold(g, s)) /\ Folds(g, r, Fold(g, r)) /\ IsFiniteSet(s)
      BY <1>3, <2>1, <2>4
    <3>2. Fold(g, s)[r] = Fold(g, r)[r]
      <4>1. r \in SUBSET s /\ r \in SUBSET r
        OBVIOUS
      <4> HIDE DEF r
      <4>2. QED BY <3>1, <4>1, FoldsAgree
    <3>3. Fold(g, s)[s] = g[Pick(s)] + Fold(g, s)[r]
      BY <2>4, <3>1, FoldsFacts
    <3>4. f[s] = Fold(g, s)[s] /\ f[r] = Fold(g, r)[r]
      BY <2>1, <2>4
    <3>5. QED BY <2>4, <3>2, <3>3, <3>4
  <2>5. QED BY <2>2, <2>3, <2>4
<1>5. Folds(g, T, f)
  <2>1. f = [s \in SUBSET T |-> f[s]]
    OBVIOUS
  <2>2. [s \in SUBSET T |-> f[s]]
          = [s \in SUBSET T |-> IF s = {} THEN 0 ELSE g[Pick(s)] + f[s \ {Pick(s)}]]
    <3> HIDE DEF f
    <3>1. QED BY <1>4
  <2> HIDE DEF f
  <2>3. QED BY <2>1, <2>2 DEF Folds
<1>6. Folds(g, T, Fold(g, T))
  <2> HIDE DEF f
  <2>1. QED BY <1>5 DEF Fold
<1>7. QED BY <1>2, <1>6

\* The sum over a set is that over the set without the item picked first, and
\* the item.
LEMMA SumPick ==
  ASSUME NEW g, NEW I, IsFiniteSet(I)
  PROVE  /\ I = {} => SumFunctionOnSet(g, I) = 0
         /\ I # {} => /\ Pick(I) \in I
                      /\ SumFunctionOnSet(g, I)
                           = g[Pick(I)] + SumFunctionOnSet(g, I \ {Pick(I)})
<1>1. Folds(g, I, Fold(g, I))
  BY FoldsExist
<1>2. CASE I = {}
  BY <1>1, <1>2, FoldsFacts, SumUnfold
<1>3. CASE I # {}
  <2> DEFINE R == I \ {Pick(I)}
  <2>1. Pick(I) \in I /\ R \in SUBSET I /\ R \in SUBSET R /\ IsFiniteSet(R)
    BY <1>3, FS_Subset DEF Pick
  <2>2. Fold(g, I)[I] = g[Pick(I)] + Fold(g, I)[R]
    <3> DEFINE f == Fold(g, I)
    <3>1. Folds(g, I, f)
      BY <1>1
    <3> HIDE DEF f, R
    <3>2. f = [s \in SUBSET I |-> IF s = {} THEN 0 ELSE g[Pick(s)] + f[s \ {Pick(s)}]]
      BY <3>1 DEF Folds
    <3>3. f[I] = g[Pick(I)] + f[I \ {Pick(I)}]
      BY <1>3, <3>2
    <3>4. QED BY <3>3 DEF f, R
  <2> HIDE DEF R
  <2>3. Fold(g, I)[R] = Fold(g, R)[R]
    BY <1>1, <2>1, FoldsExist, FoldsAgree
  <2>4. SumFunctionOnSet(g, I) = g[Pick(I)] + SumFunctionOnSet(g, R)
    BY <2>2, <2>3, SumUnfold
  <2>5. QED BY <1>3, <2>1, <2>4 DEF R
<1>4. QED BY <1>2, <1>3

LEMMA SumType ==
  ASSUME NEW g, NEW I, IsFiniteSet(I), \A x \in I : g[x] \in Int
  PROVE  SumFunctionOnSet(g, I) \in Int
<1> DEFINE B == {T \in SUBSET I : SumFunctionOnSet(g, T) \notin Int}
<1>1. SUFFICES ASSUME B # {} PROVE FALSE
  OBVIOUS
<1>2. PICK T \in B : \A U \in SUBSET T : U # T => U \notin B
  <2>1. B \in SUBSET (SUBSET I)
    OBVIOUS
  <2> HIDE DEF B
  <2>2. QED BY <1>1, <2>1, LeastSet
<1>3. IsFiniteSet(T)
  BY <1>2, FS_Subset
<1>4. T # {}
  <2>1. T = {} => SumFunctionOnSet(g, T) = 0
    BY <1>3, SumPick
  <2>2. QED BY <1>2, <2>1
<1>5. Pick(T) \in T /\ T \ {Pick(T)} \in SUBSET I /\ T \ {Pick(T)} \notin B
  BY <1>2, <1>3, <1>4, SumPick
<1>6. g[Pick(T)] \in Int /\ SumFunctionOnSet(g, T \ {Pick(T)}) \in Int
  BY <1>5
<1>7. QED BY <1>2, <1>3, <1>4, <1>6, SumPick

\* The order does not matter.
LEMMA SumRemove ==
  ASSUME NEW g, NEW I, IsFiniteSet(I), \A x \in I : g[x] \in Int, NEW x \in I
  PROVE  SumFunctionOnSet(g, I) = g[x] + SumFunctionOnSet(g, I \ {x})
<1> DEFINE Sum(T) == SumFunctionOnSet(g, T)
           B == {T \in SUBSET I : \E y \in T : Sum(T) # g[y] + Sum(T \ {y})}
<1>1. SUFFICES ASSUME B # {} PROVE FALSE
  OBVIOUS
<1>2. PICK T \in B : \A U \in SUBSET T : U # T => U \notin B
  <2>1. B \in SUBSET (SUBSET I)
    OBVIOUS
  <2> HIDE DEF B
  <2>2. QED BY <1>1, <2>1, LeastSet
<1>3. PICK y \in T : Sum(T) # g[y] + Sum(T \ {y})
  BY <1>2
<1>4. \A U \in SUBSET T : IsFiniteSet(U) /\ Sum(U) \in Int
  <2>1. ASSUME NEW U \in SUBSET T PROVE IsFiniteSet(U) /\ Sum(U) \in Int
    <3>1. IsFiniteSet(U) /\ \A z \in U : g[z] \in Int
      BY <1>2, FS_Subset
    <3>2. QED BY <3>1, SumType
  <2>2. QED BY <2>1
<1> DEFINE p == Pick(T)
<1>5. p \in T /\ Sum(T) = g[p] + Sum(T \ {p})
  BY <1>3, <1>4, SumPick
<1>6. p # y
  BY <1>3, <1>5
<1> HIDE DEF p
<1>7. Sum(T \ {p}) = g[y] + Sum((T \ {p}) \ {y})
  <2>1. T \ {p} \in SUBSET T /\ T \ {p} # T /\ y \in T \ {p} /\ T \ {p} \in SUBSET I
    BY <1>2, <1>5, <1>6
  <2>2. QED BY <1>2, <2>1
<1>8. Sum(T \ {y}) = g[p] + Sum((T \ {y}) \ {p})
  <2>1. T \ {y} \in SUBSET T /\ T \ {y} # T /\ p \in T \ {y} /\ T \ {y} \in SUBSET I
    BY <1>2, <1>5, <1>6
  <2>2. QED BY <1>2, <2>1
<1>9. Sum((T \ {p}) \ {y}) = Sum((T \ {y}) \ {p})
  <2>1. (T \ {p}) \ {y} = (T \ {y}) \ {p}
    OBVIOUS
  <2>2. QED BY <2>1
<1>10. g[p] \in Int /\ g[y] \in Int /\ Sum((T \ {p}) \ {y}) \in Int
  BY <1>2, <1>4, <1>5
<1> HIDE DEF Sum
<1>11. QED BY <1>3, <1>5, <1>7, <1>8, <1>9, <1>10

\* Two functions one of which is greater by 1 on some of the items.
LEMMA SumChange ==
  ASSUME NEW g, NEW h, NEW I, IsFiniteSet(I), \A x \in I : g[x] \in Int,
         NEW K, \A x \in I : h[x] = IF x \in K THEN g[x] + 1 ELSE g[x]
  PROVE  SumFunctionOnSet(h, I) = SumFunctionOnSet(g, I) + Cardinality(I \cap K)
<1> DEFINE B == {T \in SUBSET I : SumFunctionOnSet(h, T)
                                    # SumFunctionOnSet(g, T) + Cardinality(T \cap K)}
<1>1. SUFFICES ASSUME B # {} PROVE FALSE
  OBVIOUS
<1>2. PICK T \in B : \A U \in SUBSET T : U # T => U \notin B
  <2>1. B \in SUBSET (SUBSET I)
    OBVIOUS
  <2> HIDE DEF B
  <2>2. QED BY <1>1, <2>1, LeastSet
<1>3. IsFiniteSet(T)
  BY <1>2, FS_Subset
<1>4. T # {}
  <2>1. ASSUME T = {} PROVE FALSE
    <3>1. SumFunctionOnSet(h, T) = 0 /\ SumFunctionOnSet(g, T) = 0
      BY <1>3, <2>1, SumPick
    <3>2. T \cap K = {}
      BY <2>1
    <3>3. Cardinality(T \cap K) = 0
      BY <3>2, FS_EmptySet
    <3>4. QED BY <1>2, <3>1, <3>3
  <2>2. QED BY <2>1
<1> DEFINE p == Pick(T)
           R == T \ {p}
<1>5. /\ p \in T /\ p \in I /\ R \in SUBSET T /\ R # T /\ R \in SUBSET I /\ IsFiniteSet(R)
      /\ SumFunctionOnSet(h, T) = h[p] + SumFunctionOnSet(h, R)
      /\ SumFunctionOnSet(g, T) = g[p] + SumFunctionOnSet(g, R)
  BY <1>2, <1>3, <1>4, SumPick, FS_Subset
<1>6. SumFunctionOnSet(h, R) = SumFunctionOnSet(g, R) + Cardinality(R \cap K)
  BY <1>2, <1>5
<1>7. Cardinality(T \cap K) = Cardinality(R \cap K) + (IF p \in K THEN 1 ELSE 0)
  <2>1. T \cap K = IF p \in K THEN (R \cap K) \cup {p} ELSE R \cap K
    BY <1>5
  <2>2. p \notin R \cap K /\ IsFiniteSet(R \cap K)
    BY <1>5, FS_Subset
  <2>3. Cardinality((R \cap K) \cup {p}) = Cardinality(R \cap K) + 1
    BY <2>2, FS_AddElement
  <2>4. Cardinality(R \cap K) \in Nat
    BY <2>2, FS_CardinalityType
  <2>5. QED BY <2>1, <2>3, <2>4
<1>8. SumFunctionOnSet(g, R) \in Int /\ Cardinality(R \cap K) \in Nat /\ g[p] \in Int
  <2>1. IsFiniteSet(R \cap K)
    BY <1>5, FS_Subset
  <2>2. SumFunctionOnSet(g, R) \in Int
    BY <1>5, SumType
  <2>3. QED BY <1>5, <2>1, <2>2, FS_CardinalityType
<1>9. h[p] = IF p \in K THEN g[p] + 1 ELSE g[p]
  BY <1>5
<1> HIDE DEF p, R
<1>10. QED BY <1>2, <1>5, <1>6, <1>7, <1>8, <1>9

\* The sum is about the values on the set alone.
LEMMA SumSame ==
  ASSUME NEW g, NEW h, NEW I, IsFiniteSet(I), \A x \in I : g[x] \in Int /\ h[x] = g[x]
  PROVE  SumFunctionOnSet(h, I) = SumFunctionOnSet(g, I)
<1>1. SumFunctionOnSet(h, I) = SumFunctionOnSet(g, I) + Cardinality(I \cap {})
  BY SumChange
<1>2. I \cap {} = {} /\ Cardinality({}) = 0
  BY FS_EmptySet
<1>3. SumFunctionOnSet(g, I) \in Int
  BY SumType
<1>4. QED BY <1>1, <1>2, <1>3

\* With one item more, and with a set of items more.
LEMMA SumAdd ==
  ASSUME NEW g, NEW I, IsFiniteSet(I), NEW x, x \notin I, \A y \in I \cup {x} : g[y] \in Int
  PROVE  SumFunctionOnSet(g, I \cup {x}) = g[x] + SumFunctionOnSet(g, I)
<1>1. IsFiniteSet(I \cup {x}) /\ (I \cup {x}) \ {x} = I
  BY FS_AddElement
<1>2. QED BY <1>1, SumRemove

LEMMA SumUnion ==
  ASSUME NEW g, NEW I, IsFiniteSet(I), NEW T, IsFiniteSet(T), I \cap T = {},
         \A x \in I \cup T : g[x] \in Int
  PROVE  SumFunctionOnSet(g, I \cup T) = SumFunctionOnSet(g, I) + SumFunctionOnSet(g, T)
<1> DEFINE B == {U \in SUBSET T : SumFunctionOnSet(g, I \cup U)
                                    # SumFunctionOnSet(g, I) + SumFunctionOnSet(g, U)}
<1>1. SUFFICES ASSUME B # {} PROVE FALSE
  OBVIOUS
<1>2. PICK U \in B : \A V \in SUBSET U : V # U => V \notin B
  <2>1. B \in SUBSET (SUBSET T)
    OBVIOUS
  <2> HIDE DEF B
  <2>2. QED BY <1>1, <2>1, LeastSet
<1>3. IsFiniteSet(U) /\ SumFunctionOnSet(g, I) \in Int
  BY <1>2, FS_Subset, SumType
<1>4. U # {}
  <2>1. ASSUME U = {} PROVE FALSE
    <3>1. SumFunctionOnSet(g, U) = 0
      BY <1>3, <2>1, SumPick
    <3>2. I \cup U = I
      BY <2>1
    <3>3. SumFunctionOnSet(g, I \cup U) = SumFunctionOnSet(g, I)
      BY <3>2
    <3>4. SumFunctionOnSet(g, I \cup U) # SumFunctionOnSet(g, I) + SumFunctionOnSet(g, U)
      BY <1>2
    <3>5. QED BY <1>3, <3>1, <3>3, <3>4
  <2>2. QED BY <2>1
<1>5. PICK x \in U : TRUE
  BY <1>4
<1> DEFINE V == U \ {x}
<1>6. /\ V \in SUBSET U /\ V # U /\ V \in SUBSET T /\ IsFiniteSet(V) /\ IsFiniteSet(I \cup V)
      /\ x \notin V /\ x \notin I \cup V /\ U = V \cup {x} /\ I \cup U = (I \cup V) \cup {x}
      /\ \A y \in I \cup U : g[y] \in Int
  BY <1>2, <1>3, <1>5, FS_Subset, FS_Union, ZenonT(60)
<1>7. SumFunctionOnSet(g, I \cup V) = SumFunctionOnSet(g, I) + SumFunctionOnSet(g, V)
  BY <1>2, <1>6
<1> HIDE DEF V
<1>8. SumFunctionOnSet(g, U) = g[x] + SumFunctionOnSet(g, V)
  BY <1>6, SumAdd
<1>9. SumFunctionOnSet(g, I \cup U) = g[x] + SumFunctionOnSet(g, I \cup V)
  BY <1>6, SumAdd
<1>10. g[x] \in Int /\ SumFunctionOnSet(g, V) \in Int
  BY <1>6, SumType
<1>11. QED BY <1>2, <1>3, <1>7, <1>8, <1>9, <1>10

-----------------------------------------------------------------------------
(* The order of jobs.                                                      *)

\* The jobs of a file: a number and an arrival time has one job.
LEMMA JobsFacts ==
  ASSUME NEW in, Valid(in)
  PROVE  /\ S!Jobs(in) \subseteq Nat
         /\ in.scheme \in Schemes /\ in.cores \in Nat \ {0} /\ in.quantum \in Nat
         /\ \A x \in S!Jobs(in) :
              /\ S!Of(in, x).arrival_time \in Nat
              /\ S!Of(in, x).run_time \in Nat \ {0}
              /\ S!Of(in, x).priority \in Int
         /\ \A x, y \in S!Jobs(in) :
              S!Of(in, x).arrival_time = S!Of(in, y).arrival_time => x = y
         /\ \A i \in DOMAIN in.file : S!Of(in, in.file[i].job_id) = in.file[i]
<1> DEFINE J == [job_id : Nat, arrival_time : Nat, run_time : Nat \ {0}, priority : Int]
<1>1. /\ in.scheme \in Schemes /\ in.cores \in Nat \ {0} /\ in.quantum \in Nat
      /\ in.file \in Seq(J)
  BY DEF Valid, Input
<1>2. \A i, j \in DOMAIN in.file :
        \/ in.file[i].job_id = in.file[j].job_id
        \/ in.file[i].arrival_time = in.file[j].arrival_time
        => i = j
  BY DEF Valid
<1> HIDE DEF J
<1>3. \A i \in DOMAIN in.file : in.file[i] \in J
  BY <1>1
<1>4. ASSUME NEW i \in DOMAIN in.file PROVE S!Of(in, in.file[i].job_id) = in.file[i]
  BY <1>2 DEF S!Of
<1>5. ASSUME NEW x \in S!Jobs(in)
      PROVE  \E i \in DOMAIN in.file : x = in.file[i].job_id /\ S!Of(in, x) = in.file[i]
  BY <1>4 DEF S!Jobs
<1>6. \A i \in DOMAIN in.file :
        /\ in.file[i].job_id \in Nat /\ in.file[i].arrival_time \in Nat
        /\ in.file[i].run_time \in Nat \ {0} /\ in.file[i].priority \in Int
  BY <1>3 DEF J
<1>7. ASSUME NEW x \in S!Jobs(in)
      PROVE  /\ x \in Nat /\ S!Of(in, x).arrival_time \in Nat
             /\ S!Of(in, x).run_time \in Nat \ {0} /\ S!Of(in, x).priority \in Int
  BY <1>5, <1>6
<1>8. ASSUME NEW x \in S!Jobs(in), NEW y \in S!Jobs(in),
             S!Of(in, x).arrival_time = S!Of(in, y).arrival_time
      PROVE  x = y
  <2>1. PICK i \in DOMAIN in.file : x = in.file[i].job_id /\ S!Of(in, x) = in.file[i]
    BY <1>5
  <2>2. PICK j \in DOMAIN in.file : y = in.file[j].job_id /\ S!Of(in, y) = in.file[j]
    BY <1>5
  <2>3. QED BY <1>2, <1>8, <2>1, <2>2
<1>9. QED BY <1>1, <1>4, <1>7, <1>8

\* Of two jobs one goes before the other, by a strict order.
LEMMA BeforeFacts ==
  ASSUME NEW in, Valid(in), in.scheme # "RR", NEW l \in [S!Jobs(in) -> Nat]
  PROVE  /\ \A x \in S!Jobs(in) : S!Key(in, l, x) \in Int
         /\ \A x \in S!Jobs(in) : ~ S!Before(in, l, x, x)
         /\ \A x, y \in S!Jobs(in) : x # y => S!Before(in, l, x, y) \/ S!Before(in, l, y, x)
         /\ \A x, y, z \in S!Jobs(in) :
              S!Before(in, l, x, y) /\ S!Before(in, l, y, z) => S!Before(in, l, x, z)
<1>1. ASSUME NEW x \in S!Jobs(in) PROVE S!Key(in, l, x) \in Int
  <2>1. /\ S!Of(in, x).run_time \in Nat \ {0} /\ S!Of(in, x).priority \in Int /\ l[x] \in Nat
        /\ in.scheme \in Schemes
    BY JobsFacts
  <2>2. QED BY <2>1 DEF S!Key, Schemes
<1>2. \A x \in S!Jobs(in) : S!Of(in, x).arrival_time \in Nat
  BY JobsFacts
<1>3. \A x, y \in S!Jobs(in) : x # y => S!Of(in, x).arrival_time # S!Of(in, y).arrival_time
  BY JobsFacts
<1>4. QED BY <1>1, <1>2, <1>3 DEF S!Before

-----------------------------------------------------------------------------
(* The functions of the library: what each leaves of Library.              *)

\* The records as update_time leaves them.
Fresh(in, s, l, now) ==
  \A x \in DOMAIN s.job :
    LET j == s.job[x]
    IN  /\ j.arrival_time = S!Of(in, x).arrival_time
        /\ j.running_time = S!Of(in, x).run_time
        /\ j.priority = S!Of(in, x).priority
        /\ j.remaining_time = l[x]
        /\ j.last_update_time_on_core = IF x \in on_core(s) THEN now ELSE -1

\* What is on the cores is in the library's records.
LEMMA OnCoreFacts ==
  ASSUME NEW in, Valid(in), NEW s, LibraryTypes(in, s)
  PROVE  /\ Cores(s) = 0 .. in.cores - 1
         /\ on_core(s) \subseteq S!Jobs(in)
         /\ -1 \notin S!Jobs(in)
         /\ \A x : x \in on_core(s) <=> x # -1 /\ \E c \in 0 .. in.cores - 1 : s.core[c] = x
         /\ \A x : x \in ToSet(s.queue) <=> \E i \in DOMAIN s.queue : s.queue[i] = x
         /\ ToSet(s.queue) \subseteq S!Jobs(in)
         /\ DOMAIN s.queue = 1 .. Len(s.queue) /\ Len(s.queue) \in Nat
<1>1. s.core \in [0 .. in.cores - 1 -> S!Jobs(in) \cup {-1}] /\ s.queue \in Seq(S!Jobs(in))
  BY DEF LibraryTypes
<1>2. -1 \notin S!Jobs(in)
  BY JobsFacts
<1>3. Cores(s) = 0 .. in.cores - 1
  BY <1>1 DEF Cores
<1>4. \A x : x \in on_core(s) <=> x # -1 /\ \E c \in 0 .. in.cores - 1 : s.core[c] = x
  BY <1>3 DEF on_core
<1>5. /\ \A x : x \in ToSet(s.queue) <=> \E i \in DOMAIN s.queue : s.queue[i] = x
      /\ ToSet(s.queue) \subseteq S!Jobs(in)
  BY <1>1 DEF ToSet
<1>6. DOMAIN s.queue = 1 .. Len(s.queue) /\ Len(s.queue) \in Nat
  BY <1>1
<1>7. QED BY <1>1, <1>2, <1>3, <1>4, <1>5, <1>6, ZenonT(60)

\* update_time brings the records up to date and leaves the rest.
LEMMA UpdateFacts ==
  ASSUME NEW in, Valid(in), NEW s, NEW now \in Nat, NEW l \in [S!Jobs(in) -> Nat],
         Library(in, s, l, now)
  PROVE  LET u == update_time(s, now)
         IN  /\ u.core = s.core /\ u.queue = s.queue /\ DOMAIN u.job = DOMAIN s.job
             /\ Library(in, u, l, now)
             /\ Fresh(in, u, l, now)
<1> DEFINE u == update_time(s, now)
           ran(x)       == s.job[x].last_update_time_on_core # now
           responded    == {x \in on_core(s) : s.job[x].first_time_on_core = -1 /\ ran(x)}
           updated(x)   ==
             [s.job[x] EXCEPT
                !.first_time_on_core = IF x \in responded THEN s.job[x].last_update_time_on_core ELSE @,
                !.remaining_time = @ - (now - s.job[x].last_update_time_on_core),
                !.last_update_time_on_core = now]
<1>1. /\ DOMAIN u = DOMAIN s
      /\ u.schema = s.schema /\ u.core = s.core /\ u.queue = s.queue /\ u.failed = s.failed
      /\ u.job = [x \in DOMAIN s.job |-> IF x \in on_core(s) THEN updated(x) ELSE s.job[x]]
  BY DEF update_time, Library, LibraryTypes
<1> HIDE DEF u
<1>2. on_core(u) = on_core(s)
  <2>1. u.core = s.core
    BY <1>1
  <2>2. QED BY <2>1 DEF on_core, Cores
<1>3. ASSUME NEW x \in DOMAIN s.job
      PROVE  /\ u.job[x] \in JobRecord
             /\ u.job[x].arrival_time = S!Of(in, x).arrival_time
             /\ u.job[x].running_time = S!Of(in, x).run_time
             /\ u.job[x].priority = S!Of(in, x).priority
             /\ u.job[x].remaining_time = l[x]
             /\ u.job[x].last_update_time_on_core = IF x \in on_core(s) THEN now ELSE -1
  <2> DEFINE j == s.job[x]
  <2>1. j \in JobRecord /\ l[x] \in Nat
    BY DEF Library, LibraryTypes
  <2>2. /\ j.arrival_time = S!Of(in, x).arrival_time
        /\ j.running_time = S!Of(in, x).run_time
        /\ j.priority = S!Of(in, x).priority
        /\ x \in on_core(s) => /\ j.last_update_time_on_core \in 0 .. now
                               /\ l[x] = j.remaining_time - (now - j.last_update_time_on_core)
        /\ x \notin on_core(s) => j.last_update_time_on_core = -1 /\ l[x] = j.remaining_time
    BY DEF Library, Records
  <2> HIDE DEF responded
  <2>3. CASE x \in on_core(s)
    <3>1. u.job[x] = updated(x)
      BY <1>1, <2>3
    <3>2. QED BY <2>1, <2>2, <2>3, <3>1 DEF JobRecord
  <2>4. CASE x \notin on_core(s)
    BY <1>1, <2>1, <2>2, <2>4
  <2>5. QED BY <2>3, <2>4
<1>4. DOMAIN u.job = DOMAIN s.job /\ u.job \in [DOMAIN u.job -> JobRecord]
  BY <1>1, <1>3
<1>5. LibraryTypes(in, u)
  BY <1>1, <1>4 DEF Library, LibraryTypes
<1>6. InOnePlace(u)
  BY <1>1, <1>2, <1>4, ZenonT(60) DEF Library, InOnePlace, Cores, Available
<1>7. InOrder(in, u, l, now)
  BY <1>1, <1>2 DEF Library, InOrder
<1>8. Fresh(in, u, l, now)
  BY <1>2, <1>3, <1>4 DEF Fresh
<1>9. Records(in, u, l, now)
  <2>1. now \in 0 .. now /\ now - now = 0 /\ \A x \in S!Jobs(in) : l[x] = l[x] - (now - now)
    OBVIOUS
  <2>2. DOMAIN u.job \subseteq S!Jobs(in)
    BY <1>5 DEF LibraryTypes
  <2>3. QED BY <1>2, <1>3, <1>4, <2>1, <2>2 DEF Records
<1>10. QED BY <1>1, <1>4, <1>5, <1>6, <1>7, <1>8, <1>9 DEF Library, u

\* comparer puts jobs in the order of the scheme.
LEMMA ComparerFacts ==
  ASSUME NEW in, Valid(in), NEW s, NEW now \in Nat, NEW l \in [S!Jobs(in) -> Nat],
         LibraryTypes(in, s), Fresh(in, s, l, now),
         NEW x \in DOMAIN s.job, NEW y \in DOMAIN s.job
  PROVE  /\ in.scheme = "RR" => comparer(s, x, y) = 0
         /\ in.scheme # "RR" =>
              /\ comparer(s, x, y) =
                   IF S!Key(in, l, x) = S!Key(in, l, y)
                     THEN S!Of(in, x).arrival_time - S!Of(in, y).arrival_time
                     ELSE S!Key(in, l, x) - S!Key(in, l, y)
              /\ comparer(s, x, y) \in Int
              /\ comparer(s, x, y) < 0 <=> S!Before(in, l, x, y)
<1>1. s.schema = in.scheme /\ in.scheme \in Schemes /\ x \in S!Jobs(in) /\ y \in S!Jobs(in)
  BY JobsFacts DEF LibraryTypes
<1>2. /\ \A z \in {x, y} :
           /\ s.job[z].arrival_time = S!Of(in, z).arrival_time
           /\ s.job[z].running_time = S!Of(in, z).run_time
           /\ s.job[z].priority = S!Of(in, z).priority
           /\ s.job[z].remaining_time = l[z]
           /\ S!Of(in, z).arrival_time \in Nat
           /\ S!Of(in, z).run_time \in Int
           /\ S!Of(in, z).priority \in Int
           /\ l[z] \in Int
  BY <1>1, JobsFacts DEF Fresh
<1>3. CASE in.scheme = "RR"
  BY <1>1, <1>3 DEF comparer
<1>4. CASE in.scheme # "RR"
  <2>1. S!Key(in, l, x) \in Int /\ S!Key(in, l, y) \in Int
    BY <1>1, <1>4, BeforeFacts
  <2> DEFINE kx == S!Key(in, l, x)
             ky == S!Key(in, l, y)
             later == S!Of(in, x).arrival_time - S!Of(in, y).arrival_time
  <2>2. comparer(s, x, y) = IF kx - ky = 0 THEN later ELSE kx - ky
    <3>1. /\ \A z \in {x, y} : s.job[z].arrival_time = S!Of(in, z).arrival_time
          /\ \A z \in {x, y} : s.job[z].running_time = S!Of(in, z).run_time
          /\ \A z \in {x, y} : s.job[z].priority = S!Of(in, z).priority
          /\ \A z \in {x, y} : s.job[z].remaining_time = l[z]
      BY <1>2
    <3>2. CASE in.scheme = "FCFS"
      <4>1. comparer(s, x, y) = later
        BY <1>1, <3>1, <3>2 DEF comparer
      <4>2. kx = 0 /\ ky = 0
        BY <3>2 DEF S!Key
      <4>3. QED BY <4>1, <4>2
    <3>3. CASE in.scheme = "SJF"
      <4>1. kx = s.job[x].running_time /\ ky = s.job[y].running_time
        BY <3>1, <3>3 DEF S!Key
      <4> HIDE DEF kx, ky
      <4>2. QED BY <1>1, <3>1, <3>3, <4>1 DEF comparer
    <3>4. CASE in.scheme = "PSJF"
      <4>1. kx = s.job[x].remaining_time /\ ky = s.job[y].remaining_time
        BY <3>1, <3>4 DEF S!Key
      <4> HIDE DEF kx, ky
      <4>2. QED BY <1>1, <3>1, <3>4, <4>1 DEF comparer
    <3>5. CASE in.scheme \in {"PRI", "PPRI"}
      <4>1. kx = s.job[x].priority /\ ky = s.job[y].priority
        BY <3>1, <3>5 DEF S!Key
      <4> HIDE DEF kx, ky
      <4>2. QED BY <1>1, <3>1, <3>5, <4>1 DEF comparer
    <3>6. QED BY <1>1, <1>4, <3>2, <3>3, <3>4, <3>5 DEF Schemes
  <2>3. QED BY <1>2, <1>4, <2>1, <2>2 DEF S!Before
<1>5. QED BY <1>3, <1>4

WithCore(core, c, x) == [core EXCEPT ![c] = x]

\* Inside a call: the jobs of X are known, and in no place.
Loose(in, s, l, now, X) ==
  /\ LibraryTypes(in, s) /\ Fresh(in, s, l, now)
  /\ \A c, d \in Cores(s) : s.core[c] = s.core[d] /\ s.core[c] # -1 => c = d
  /\ \A i, j \in DOMAIN s.queue : s.queue[i] = s.queue[j] => i = j
  /\ ToSet(s.queue) \cap on_core(s) = {}
  /\ ToSet(s.queue) \cup on_core(s) = DOMAIN s.job \ X
  /\ X \subseteq DOMAIN s.job
  /\ in.scheme # "RR" =>
       \A i, j \in DOMAIN s.queue : i < j => S!Before(in, l, s.queue[i], s.queue[j])

\* The items of the longer sequence, each once if x is new.
LEMMA InsertOnce ==
  ASSUME NEW T, NEW q \in Seq(T), NEW x \in T, NEW p \in 1 .. Len(q) + 1, x \notin ToSet(q),
         \A i, j \in DOMAIN q : q[i] = q[j] => i = j
  PROVE  LET r == InsertAt(q, p, x)
         IN  /\ ToSet(r) = ToSet(q) \cup {x}
             /\ \A i, j \in DOMAIN r : r[i] = r[j] => i = j
<1> DEFINE n == Len(q)
           r == InsertAt(q, p, x)
<1>1. /\ n \in Nat /\ DOMAIN q = 1 .. n /\ p \in Nat /\ 1 <= p /\ p <= n + 1
      /\ DOMAIN r = 1 .. n + 1
      /\ \A i \in 1 .. n + 1 : r[i] = IF i < p THEN q[i] ELSE IF i = p THEN x ELSE q[i - 1]
  <2>1. /\ r \in Seq(T) /\ Len(r) = n + 1
        /\ \A i \in 1 .. n + 1 : r[i] = IF i < p THEN q[i] ELSE IF i = p THEN x ELSE q[i - 1]
    BY InsertFacts
  <2> HIDE DEF r
  <2>2. QED BY <2>1
<1> HIDE DEF r, n
<1>2. \A i \in 1 .. n : q[i] \in ToSet(q) /\ q[i] # x
  BY <1>1 DEF ToSet
<1>3. ASSUME NEW i \in 1 .. n + 1
      PROVE  \/ i = p /\ r[i] = x
             \/ i < p /\ i \in 1 .. n /\ r[i] = q[i]
             \/ i > p /\ i - 1 \in 1 .. n /\ r[i] = q[i - 1]
  BY <1>1
<1>4. ASSUME NEW i \in 1 .. n + 1, NEW j \in 1 .. n + 1, r[i] = r[j] PROVE i = j
  <2>1. i \in Int /\ j \in Int
    BY <1>1
  <2>2. CASE r[i] = x
    BY <1>2, <1>3, <1>4, <2>2
  <2>3. CASE r[i] # x
    <3>1. i # p /\ j # p
      BY <1>3, <1>4, <2>3
    <3> DEFINE a == IF i < p THEN i ELSE i - 1
               b == IF j < p THEN j ELSE j - 1
    <3>2. a \in 1 .. n /\ r[i] = q[a]
      BY <1>3, <3>1
    <3>3. b \in 1 .. n /\ r[j] = q[b]
      BY <1>3, <3>1
    <3> HIDE DEF a, b
    <3>4. a = b
      BY <1>1, <1>4, <3>2, <3>3
    <3>5. QED BY <1>1, <2>1, <3>1, <3>4 DEF a, b
  <2>4. QED BY <2>2, <2>3
<1>5. ASSUME NEW i \in 1 .. n PROVE \E j \in 1 .. n + 1 : r[j] = q[i]
  <2>1. CASE i < p
    <3>1. i \in 1 .. n + 1 /\ r[i] = q[i]
      BY <1>1, <2>1
    <3>2. QED BY <3>1
  <2>2. CASE ~ i < p
    <3>1. i + 1 \in 1 .. n + 1 /\ ~ (i + 1 < p) /\ i + 1 # p /\ (i + 1) - 1 = i
      BY <1>1, <2>2
    <3>2. r[i + 1] = q[(i + 1) - 1]
      BY <1>1, <3>1
    <3>3. QED BY <3>1, <3>2
  <2>3. QED BY <2>1, <2>2
<1>6. \E j \in 1 .. n + 1 : r[j] = x
  BY <1>1
<1>7. ToSet(r) = ToSet(q) \cup {x}
  <2>1. ToSet(r) = {r[i] : i \in 1 .. n + 1} /\ ToSet(q) = {q[i] : i \in 1 .. n}
    BY <1>1 DEF ToSet
  <2>2. QED BY <1>3, <1>5, <1>6, <2>1
<1>8. QED BY <1>1, <1>4, <1>7 DEF r

\* The job x of X is in the queue now, at its place in the order, and in RR at
\* the end.
Offered(in, s, l, now, X, x, t) ==
  /\ t.core = s.core /\ t.job = s.job
  /\ ToSet(t.queue) = ToSet(s.queue) \cup {x}
  /\ \E p \in 1 .. Len(s.queue) + 1 : t = WithQueue(s, InsertAt(s.queue, p, x))
  /\ in.scheme = "RR" => t.queue = Append(s.queue, x)
  /\ Loose(in, t, l, now, X \ {x})

\* priqueue_offer puts a job that is in no place into the queue, at its place in
\* the order, and in RR at the end (libpriqueue.c:71-105).
LEMMA OfferFacts ==
  ASSUME NEW in, Valid(in), NEW s, NEW now \in Nat, NEW l \in [S!Jobs(in) -> Nat],
         NEW X, Loose(in, s, l, now, X), NEW x \in X
  PROVE  Offered(in, s, l, now, X, x, priqueue_offer(s, x))
<1> DEFINE t == priqueue_offer(s, x)
           q == s.queue
           n == Len(q)
           behind == {i \in DOMAIN q : comparer(s, x, q[i]) < 0}
           p == IF behind = {} THEN n + 1 ELSE CHOOSE i \in behind : \A j \in behind : i <= j
           J == S!Jobs(in)
<1>1. /\ LibraryTypes(in, s) /\ Fresh(in, s, l, now)
      /\ q \in Seq(J) /\ n \in Nat /\ DOMAIN q = 1 .. n
      /\ x \in J /\ x \in DOMAIN s.job /\ x \notin ToSet(q) /\ x \notin on_core(s)
      /\ DOMAIN s.job \subseteq J
  BY OnCoreFacts DEF Loose, LibraryTypes
<1>2. \A i \in 1 .. n : q[i] \in J /\ q[i] \in DOMAIN s.job /\ q[i] # x
  <2>1. \A i \in 1 .. n : q[i] \in ToSet(q)
    BY <1>1 DEF ToSet
  <2>2. QED BY <1>1, <2>1 DEF Loose
<1>3. /\ p \in 1 .. n + 1
      /\ \A i \in 1 .. n : i < p => i \notin behind
      /\ p \in 1 .. n => p \in behind
  <2>1. CASE behind = {}
    BY <1>1, <2>1
  <2>2. CASE behind # {}
    <3>1. behind \in SUBSET Nat /\ behind \subseteq 1 .. n
      BY <1>1
    <3> HIDE DEF behind
    <3>2. p \in behind /\ \A j \in behind : p <= j
      BY <2>2, <3>1, LeastFacts
    <3> HIDE DEF p
    <3>3. QED BY <3>1, <3>2
  <2>3. QED BY <2>1, <2>2
<1>4. t = [s EXCEPT !.queue = InsertAt(q, p, x)]
  BY DEF priqueue_offer
<1> DEFINE r == InsertAt(q, p, x)
<1>5. /\ DOMAIN t = DOMAIN s /\ t.queue = r /\ t.core = s.core /\ t.job = s.job
      /\ t.schema = s.schema /\ t.failed = s.failed
  BY <1>1, <1>4 DEF LibraryTypes
<1>6. ASSUME in.scheme # "RR", NEW i \in 1 .. n PROVE i \in behind <=> S!Before(in, l, x, q[i])
  <2>1. q[i] \in DOMAIN s.job
    BY <1>2
  <2>2. comparer(s, x, q[i]) < 0 <=> S!Before(in, l, x, q[i])
    BY <1>1, <1>6, <2>1, ComparerFacts
  <2>3. QED BY <1>1, <2>2
<1>7. in.scheme = "RR" => behind = {}
  <2>1. ASSUME in.scheme = "RR", NEW i \in 1 .. n PROVE comparer(s, x, q[i]) = 0
    BY <1>1, <1>2, <2>1, ComparerFacts
  <2>2. QED BY <1>1, <2>1
<1>8. in.scheme = "RR" => p = n + 1
  BY <1>7
<1> HIDE DEF t, p, behind
<1>9. /\ r \in Seq(J) /\ Len(r) = n + 1 /\ DOMAIN r = 1 .. n + 1
      /\ \A i \in 1 .. n + 1 : r[i] = IF i < p THEN q[i] ELSE IF i = p THEN x ELSE q[i - 1]
  <2>1. /\ r \in Seq(J) /\ Len(r) = n + 1
        /\ \A i \in 1 .. n + 1 : r[i] = IF i < p THEN q[i] ELSE IF i = p THEN x ELSE q[i - 1]
    <3>1. q \in Seq(J) /\ x \in J /\ p \in 1 .. Len(q) + 1
      BY <1>1, <1>3
    <3> HIDE DEF J, q
    <3>2. QED BY <3>1, InsertFacts
  <2> HIDE DEF r, J
  <2>2. QED BY <1>1, <2>1
<1>10. /\ ToSet(r) = ToSet(q) \cup {x}
       /\ \A i, j \in DOMAIN r : r[i] = r[j] => i = j
  <2>1. \A i, j \in DOMAIN q : q[i] = q[j] => i = j
    BY DEF Loose
  <2> HIDE DEF J
  <2>2. QED BY <1>1, <1>3, <2>1, InsertOnce
<1> HIDE DEF r
<1>11. in.scheme = "RR" => r = Append(q, x)
  <2> SUFFICES ASSUME in.scheme = "RR" PROVE r = Append(q, x)
    OBVIOUS
  <2> HIDE DEF J, q
  <2>1. /\ Append(q, x) \in Seq(J) /\ Len(Append(q, x)) = n + 1
        /\ \A i \in 1 .. n : Append(q, x)[i] = q[i]
        /\ Append(q, x)[n + 1] = x
    BY <1>1, AppendProperties
  <2>2. ASSUME NEW i \in 1 .. n + 1 PROVE r[i] = Append(q, x)[i]
    BY <1>1, <1>8, <1>9, <2>1
  <2>3. QED BY <1>9, <2>1, <2>2, SeqEqual
<1>12. ASSUME in.scheme # "RR", NEW i \in DOMAIN r, NEW j \in DOMAIN r, i < j
       PROVE  S!Before(in, l, r[i], r[j])
  <2>1. i \in 1 .. n + 1 /\ j \in 1 .. n + 1 /\ i \in Int /\ j \in Int /\ p \in Int
    BY <1>3, <1>9
  <2>2. \A a, b \in 1 .. n : a < b => S!Before(in, l, q[a], q[b])
    BY <1>1, <1>12 DEF Loose
  <2>3. CASE j < p
    <3>1. i \in 1 .. n /\ j \in 1 .. n /\ i < p /\ i < j
      BY <1>3, <1>12, <2>1, <2>3
    <3>2. QED BY <1>9, <2>1, <2>2, <2>3, <3>1
  <2>4. CASE j = p
    <3>1. i \in 1 .. n /\ i < p /\ r[i] = q[i] /\ r[j] = x
      BY <1>3, <1>9, <1>12, <2>1, <2>4
    <3>2. ~ S!Before(in, l, x, q[i])
      BY <1>3, <1>6, <1>12, <3>1
    <3>3. QED BY <1>1, <1>2, <1>12, <3>1, <3>2, BeforeFacts
  <2>5. CASE j > p /\ i = p
    <3>1. ~ (j < p) /\ j # p
      BY <2>1, <2>5
    <3>2. j - 1 \in 1 .. n /\ p \in 1 .. n /\ r[j] = q[j - 1] /\ r[i] = x
      <4>1. j - 1 \in 1 .. n /\ p \in 1 .. n
        BY <1>3, <2>1, <2>5
      <4>2. r[j] = q[j - 1]
        BY <1>9, <2>1, <3>1
      <4>3. r[i] = x
        <5>1. ~ (p < p)
          BY <2>1
        <5>2. QED BY <1>9, <2>1, <2>5, <5>1
      <4>4. QED BY <4>1, <4>2, <4>3
    <3>3. S!Before(in, l, x, q[p])
      BY <1>3, <1>6, <1>12, <3>2
    <3>4. j - 1 = p \/ p < j - 1
      BY <2>1, <2>5
    <3>5. j - 1 = p \/ S!Before(in, l, q[p], q[j - 1])
      BY <2>2, <3>2, <3>4
    <3>6. q[p] \in J /\ q[j - 1] \in J
      BY <1>2, <3>2
    <3>7. QED BY <1>1, <1>12, <3>2, <3>3, <3>5, <3>6, BeforeFacts
  <2>6. CASE j > p /\ i # p
    <3> DEFINE k == IF i < p THEN i ELSE i - 1
    <3>1. k \in 1 .. n /\ j - 1 \in 1 .. n /\ k < j - 1
      BY <1>3, <1>12, <2>1, <2>6
    <3>2. r[j] = q[j - 1] /\ r[i] = q[k]
      BY <1>9, <2>1, <2>6, SMTT(30)
    <3> HIDE DEF k
    <3>3. QED BY <2>2, <3>1, <3>2
  <2>7. QED BY <2>1, <2>3, <2>4, <2>5, <2>6
<1>13. on_core(t) = on_core(s) /\ Cores(t) = Cores(s)
  BY <1>5 DEF on_core, Cores
<1>14. LibraryTypes(in, t) /\ Fresh(in, t, l, now)
  <2>1. Fresh(in, t, l, now)
    BY <1>1, <1>5, <1>13 DEF Fresh
  <2>2. QED BY <1>1, <1>5, <1>9, <2>1 DEF LibraryTypes
<1>15. Loose(in, t, l, now, X \ {x})
  <2>1. ToSet(t.queue) \cap on_core(t) = {}
    BY <1>1, <1>5, <1>10, <1>13 DEF Loose
  <2>2. ToSet(t.queue) \cup on_core(t) = DOMAIN t.job \ (X \ {x})
    BY <1>1, <1>5, <1>10, <1>13 DEF Loose
  <2>3. X \ {x} \subseteq DOMAIN t.job
    BY <1>5 DEF Loose
  <2>4. \A c, d \in Cores(t) : t.core[c] = t.core[d] /\ t.core[c] # -1 => c = d
    BY <1>5, <1>13 DEF Loose
  <2>5. QED BY <1>5, <1>10, <1>12, <1>14, <2>1, <2>2, <2>3, <2>4 DEF Loose
<1>16. ToSet(t.queue) = ToSet(q) \cup {x}
  BY <1>5, <1>10
<1>17. t = WithQueue(s, r)
  BY <1>4 DEF WithQueue, t, r, q
<1>18. QED BY <1>3, <1>5, <1>11, <1>15, <1>16, <1>17 DEF t, r, Offered

\* A core without its job: the job is in no place.
Taken(s, c) == [s EXCEPT !.core[c] = -1, !.job[s.core[c]].last_update_time_on_core = -1]

LEMMA TakenFacts ==
  ASSUME NEW in, Valid(in), NEW s, NEW now \in Nat, NEW l \in [S!Jobs(in) -> Nat],
         NEW X, Loose(in, s, l, now, X), NEW c \in Cores(s), s.core[c] # -1
  PROVE  LET x == s.core[c]
             t == Taken(s, c)
         IN  /\ t.core = WithCore(s.core, c, -1) /\ t.queue = s.queue
             /\ DOMAIN t.job = DOMAIN s.job /\ DOMAIN t = DOMAIN s
             /\ x \in on_core(s) /\ x \in DOMAIN s.job /\ x \notin X /\ x \notin ToSet(s.queue)
             /\ on_core(t) = on_core(s) \ {x}
             /\ Loose(in, t, l, now, X \cup {x})
<1> DEFINE x == s.core[c]
           t == Taken(s, c)
<1>1. LibraryTypes(in, s) /\ Fresh(in, s, l, now)
  BY DEF Loose
<1>2. s.core \in [Cores(s) -> S!Jobs(in) \cup {-1}] /\ s.job \in [DOMAIN s.job -> JobRecord]
  BY <1>1, OnCoreFacts DEF LibraryTypes
<1>3. x \in on_core(s) /\ x \in DOMAIN s.job /\ x \notin X /\ x \notin ToSet(s.queue)
  <2>1. x \in on_core(s)
    BY DEF on_core
  <2>2. QED BY <2>1 DEF Loose
<1>4. /\ DOMAIN t = DOMAIN s /\ t.queue = s.queue /\ t.schema = s.schema /\ t.failed = s.failed
      /\ t.core = [s.core EXCEPT ![c] = -1]
      /\ t.job = [s.job EXCEPT ![x].last_update_time_on_core = -1]
  BY <1>1 DEF Taken, LibraryTypes
<1>5. /\ DOMAIN t.job = DOMAIN s.job
      /\ \A y \in DOMAIN s.job :
           t.job[y] = IF y = x THEN [s.job[x] EXCEPT !.last_update_time_on_core = -1]
                      ELSE s.job[y]
  <2>1. t.job = [s.job EXCEPT ![x].last_update_time_on_core = -1]
    BY <1>4
  <2> HIDE DEF t, x
  <2>2. QED BY <1>2, <2>1
<1> HIDE DEF t
<1>6. Cores(t) = Cores(s)
  BY <1>4 DEF Cores
<1>7. \A d \in Cores(s) : t.core[d] = IF d = c THEN -1 ELSE s.core[d]
  BY <1>2, <1>4
<1>8. \A d \in Cores(s) : d # c => s.core[d] # x
  BY DEF Loose
<1>9. on_core(t) = on_core(s) \ {x}
  <2>1. ASSUME NEW y PROVE y \in on_core(t) <=> y \in on_core(s) \ {x}
    <3>1. y \in on_core(t) <=> y # -1 /\ \E d \in Cores(s) : t.core[d] = y
      BY <1>6 DEF on_core
    <3>2. y \in on_core(s) <=> y # -1 /\ \E d \in Cores(s) : s.core[d] = y
      BY DEF on_core
    <3> HIDE DEF x
    <3>3. QED BY <1>7, <1>8, <3>1, <3>2 DEF x
  <2>2. QED BY <2>1
<1>10. ASSUME NEW y \in DOMAIN s.job
       PROVE  /\ t.job[y] \in JobRecord
              /\ t.job[y].arrival_time = s.job[y].arrival_time
              /\ t.job[y].running_time = s.job[y].running_time
              /\ t.job[y].priority = s.job[y].priority
              /\ t.job[y].remaining_time = s.job[y].remaining_time
              /\ t.job[y].last_update_time_on_core =
                   IF y = x THEN -1 ELSE s.job[y].last_update_time_on_core
  <2>1. s.job[y] \in JobRecord /\ s.job[x] \in JobRecord
    BY <1>2, <1>3
  <2> HIDE DEF x
  <2>2. QED BY <1>5, <2>1 DEF JobRecord
<1>11. Fresh(in, t, l, now)
  BY <1>1, <1>5, <1>9, <1>10 DEF Fresh
<1>12. t.core \in [0 .. in.cores - 1 -> S!Jobs(in) \cup {-1}]
  <2>1. Cores(s) = 0 .. in.cores - 1
    BY <1>1, OnCoreFacts
  <2>2. t.core \in [Cores(s) -> S!Jobs(in) \cup {-1}]
    BY <1>2, <1>4
  <2>3. QED BY <2>1, <2>2
<1>13. LibraryTypes(in, t)
  <2>1. t.job \in [DOMAIN t.job -> JobRecord]
    <3>1. t.job = [y \in DOMAIN t.job |-> t.job[y]]
      BY <1>2, <1>4
    <3>2. QED BY <1>5, <1>10, <3>1
  <2>2. QED BY <1>1, <1>4, <1>5, <1>12, <2>1 DEF LibraryTypes
<1>14. \A d, e \in Cores(t) : t.core[d] = t.core[e] /\ t.core[d] # -1 => d = e
  BY <1>6, <1>7 DEF Loose
<1>15. /\ ToSet(t.queue) \cap on_core(t) = {}
       /\ ToSet(t.queue) \cup on_core(t) = DOMAIN t.job \ (X \cup {x})
       /\ X \cup {x} \subseteq DOMAIN t.job
  BY <1>3, <1>4, <1>5, <1>9 DEF Loose
<1>16. Loose(in, t, l, now, X \cup {x})
  BY <1>4, <1>11, <1>13, <1>14, <1>15 DEF Loose
<1>17. QED BY <1>3, <1>4, <1>5, <1>9, <1>16 DEF t, WithCore

\* core_assign_on_id puts a job that is in no place on an idle core.
LEMMA AssignFacts ==
  ASSUME NEW in, Valid(in), NEW s, NEW now \in Nat, NEW l \in [S!Jobs(in) -> Nat],
         NEW X, Loose(in, s, l, now, X), NEW c \in Cores(s), s.core[c] = -1, NEW x \in X
  PROVE  LET t == core_assign_on_id(s, c, x, now)
         IN  /\ t.core = WithCore(s.core, c, x) /\ t.queue = s.queue
             /\ DOMAIN t.job = DOMAIN s.job /\ DOMAIN t = DOMAIN s
             /\ on_core(t) = on_core(s) \cup {x}
             /\ Loose(in, t, l, now, X \ {x})
<1> DEFINE t == core_assign_on_id(s, c, x, now)
<1>1. LibraryTypes(in, s) /\ Fresh(in, s, l, now)
  BY DEF Loose
<1>2. s.core \in [Cores(s) -> S!Jobs(in) \cup {-1}] /\ s.job \in [DOMAIN s.job -> JobRecord]
  BY <1>1, OnCoreFacts DEF LibraryTypes
<1>3. x \notin on_core(s) /\ x \in DOMAIN s.job /\ x \notin ToSet(s.queue) /\ x \in S!Jobs(in)
  BY <1>1 DEF Loose, LibraryTypes
<1>4. /\ DOMAIN t = DOMAIN s /\ t.queue = s.queue /\ t.schema = s.schema /\ t.failed = s.failed
      /\ t.core = [s.core EXCEPT ![c] = x]
      /\ t.job = [s.job EXCEPT ![x].last_update_time_on_core = now]
  BY <1>1 DEF core_assign_on_id, LibraryTypes
<1> HIDE DEF t
<1>5. /\ DOMAIN t.job = DOMAIN s.job
      /\ \A y \in DOMAIN s.job :
           t.job[y] = IF y = x THEN [s.job[x] EXCEPT !.last_update_time_on_core = now]
                      ELSE s.job[y]
  BY <1>2, <1>4
<1>6. Cores(t) = Cores(s)
  BY <1>4 DEF Cores
<1>7. \A d \in Cores(s) : t.core[d] = IF d = c THEN x ELSE s.core[d]
  BY <1>2, <1>4
<1>8. x # -1
  BY <1>1, <1>3, OnCoreFacts
<1>9. on_core(t) = on_core(s) \cup {x}
  <2>1. ASSUME NEW y PROVE y \in on_core(t) <=> y \in on_core(s) \cup {x}
    <3>1. y \in on_core(t) <=> y # -1 /\ \E d \in Cores(s) : t.core[d] = y
      BY <1>6 DEF on_core
    <3>2. y \in on_core(s) <=> y # -1 /\ \E d \in Cores(s) : s.core[d] = y
      BY DEF on_core
    <3>3. QED BY <1>7, <1>8, <3>1, <3>2
  <2>2. QED BY <2>1
<1>10. ASSUME NEW y \in DOMAIN s.job
       PROVE  /\ t.job[y] \in JobRecord
              /\ t.job[y].arrival_time = s.job[y].arrival_time
              /\ t.job[y].running_time = s.job[y].running_time
              /\ t.job[y].priority = s.job[y].priority
              /\ t.job[y].remaining_time = s.job[y].remaining_time
              /\ t.job[y].last_update_time_on_core =
                   IF y = x THEN now ELSE s.job[y].last_update_time_on_core
  <2>1. s.job[y] \in JobRecord /\ s.job[x] \in JobRecord
    BY <1>2, <1>3
  <2>2. QED BY <1>5, <2>1 DEF JobRecord
<1>11. Fresh(in, t, l, now)
  BY <1>1, <1>5, <1>9, <1>10 DEF Fresh
<1>12. t.core \in [0 .. in.cores - 1 -> S!Jobs(in) \cup {-1}]
  <2>1. Cores(s) = 0 .. in.cores - 1
    BY <1>1, OnCoreFacts
  <2>2. t.core \in [Cores(s) -> S!Jobs(in) \cup {-1}]
    BY <1>2, <1>3, <1>4
  <2>3. QED BY <2>1, <2>2
<1>13. LibraryTypes(in, t)
  <2>1. t.job \in [DOMAIN t.job -> JobRecord]
    <3>1. t.job = [y \in DOMAIN t.job |-> t.job[y]]
      BY <1>2, <1>4
    <3>2. QED BY <1>5, <1>10, <3>1
  <2>2. QED BY <1>1, <1>4, <1>5, <1>12, <2>1 DEF LibraryTypes
<1>14. \A d, e \in Cores(t) : t.core[d] = t.core[e] /\ t.core[d] # -1 => d = e
  <2>1. \A d \in Cores(s) : s.core[d] # x
    BY <1>3, <1>8 DEF on_core
  <2>2. QED BY <1>6, <1>7, <2>1 DEF Loose
<1>15. /\ ToSet(t.queue) \cap on_core(t) = {}
       /\ ToSet(t.queue) \cup on_core(t) = DOMAIN t.job \ (X \ {x})
       /\ X \ {x} \subseteq DOMAIN t.job
  BY <1>3, <1>4, <1>5, <1>9 DEF Loose
<1>16. Loose(in, t, l, now, X \ {x})
  BY <1>4, <1>11, <1>13, <1>14, <1>15 DEF Loose
<1>17. QED BY <1>4, <1>5, <1>9, <1>16 DEF t, WithCore

\* The job of core c is in the queue now, and the core is idle.
BackInQueue(in, s, l, now, X, c, t) ==
  LET x == s.core[c]
  IN  /\ t.core = WithCore(s.core, c, -1) /\ DOMAIN t.job = DOMAIN s.job
      /\ x \in on_core(s) /\ x \in S!Jobs(in) /\ x \notin ToSet(s.queue)
      /\ on_core(t) = on_core(s) \ {x}
      /\ ToSet(t.queue) = ToSet(s.queue) \cup {x}
      /\ \E p \in 1 .. Len(s.queue) + 1 : t = WithQueue(Taken(s, c), InsertAt(s.queue, p, x))
      /\ in.scheme = "RR" => t.queue = Append(s.queue, x)
      /\ Loose(in, t, l, now, X)

\* core_job_remove_on_id puts the job of a core back into the queue.
LEMMA RemoveOnIdFacts ==
  ASSUME NEW in, Valid(in), NEW s, NEW now \in Nat, NEW l \in [S!Jobs(in) -> Nat],
         NEW X, Loose(in, s, l, now, X), NEW c \in Cores(s), s.core[c] # -1
  PROVE  BackInQueue(in, s, l, now, X, c, core_job_remove_on_id(s, c))
<1> DEFINE x == s.core[c]
           v == Taken(s, c)
           t == core_job_remove_on_id(s, c)
<1>1. Loose(in, v, l, now, X \cup {x})
  BY TakenFacts
<1>2. /\ v.core = WithCore(s.core, c, -1) /\ v.queue = s.queue
      /\ DOMAIN v.job = DOMAIN s.job
      /\ x \in on_core(s) /\ x \in DOMAIN s.job /\ x \notin X /\ x \notin ToSet(s.queue)
      /\ on_core(v) = on_core(s) \ {x}
  BY <1>1, TakenFacts
<1>3. t = priqueue_offer(v, x)
  BY DEF core_job_remove_on_id, Taken
<1>4. x \in S!Jobs(in)
  BY <1>1, <1>2 DEF Loose, LibraryTypes
<1> HIDE DEF v, t, x
<1> DEFINE Y == X \cup {x}
<1>5. x \in Y /\ Y \ {x} = X
  BY <1>2
<1> HIDE DEF Y
<1>6. Offered(in, v, l, now, Y, x, t)
  BY <1>1, <1>3, <1>5, OfferFacts DEF Y
<1>7. on_core(t) = on_core(v)
  BY <1>6 DEF Offered, on_core, Cores
<1>8. QED BY <1>2, <1>4, <1>6, <1>5, <1>7 DEF Offered, BackInQueue, v, t, x

\* The first of the queue leaves it.
LEMMA TailFacts ==
  ASSUME NEW in, Valid(in), NEW s, NEW now \in Nat, NEW l \in [S!Jobs(in) -> Nat],
         Loose(in, s, l, now, {}), s.queue # <<>>
  PROVE  LET t == WithQueue(s, Tail(s.queue))
             h == Head(s.queue)
         IN  /\ t.core = s.core /\ t.job = s.job /\ t.queue = Tail(s.queue)
             /\ h \in ToSet(s.queue)
             /\ ToSet(t.queue) = ToSet(s.queue) \ {h}
             /\ in.scheme # "RR" => \A y \in ToSet(t.queue) : S!Before(in, l, h, y)
             /\ Loose(in, t, l, now, {h})
<1> DEFINE q == s.queue
           n == Len(q)
           r == Tail(q)
           h == Head(q)
           t == WithQueue(s, Tail(s.queue))
           J == S!Jobs(in)
<1>1. LibraryTypes(in, s) /\ Fresh(in, s, l, now)
  BY DEF Loose
<1>2. q \in Seq(J) /\ q # <<>>
  BY <1>1 DEF LibraryTypes
<1>3. /\ DOMAIN t = DOMAIN s /\ t.queue = r /\ t.core = s.core /\ t.job = s.job
      /\ t.schema = s.schema /\ t.failed = s.failed
  BY <1>1 DEF LibraryTypes, WithQueue
<1> HIDE DEF q, t
<1>4. /\ n \in Nat /\ n > 0 /\ DOMAIN q = 1 .. n
      /\ r \in Seq(J) /\ Len(r) = n - 1 /\ DOMAIN r = 1 .. n - 1
      /\ \A i \in 1 .. n - 1 : r[i] = q[i + 1]
      /\ h = q[1]
  <2> HIDE DEF J
  <2>1. r \in Seq(J) /\ Len(r) = n - 1 /\ \A i \in 1 .. Len(r) : r[i] = q[i + 1]
    BY <1>2, HeadTailProperties
  <2>2. h = q[1] /\ n \in Nat /\ n > 0
    BY <1>2
  <2>3. QED BY <1>2, <2>1, <2>2
<1> HIDE DEF r, h, n, J
<1>5. \A i, j \in 1 .. n : q[i] = q[j] => i = j
  BY <1>4 DEF Loose, q
<1>6. \A y : y \in ToSet(q) <=> \E i \in 1 .. n : y = q[i]
  BY <1>4 DEF ToSet
<1>7. \A y : y \in ToSet(r) <=> \E i \in 1 .. n - 1 : y = q[i + 1]
  BY <1>4 DEF ToSet
<1>8. h \in ToSet(q)
  BY <1>4, <1>6
<1>9. ToSet(r) = ToSet(q) \ {h}
  <2>1. ASSUME NEW y \in ToSet(r) PROVE y \in ToSet(q) /\ y # h
    <3>1. PICK i \in 1 .. n - 1 : y = q[i + 1]
      BY <1>7, <2>1
    <3>2. i + 1 \in 1 .. n /\ 1 \in 1 .. n /\ i + 1 # 1
      BY <1>4
    <3>3. QED BY <1>4, <1>5, <1>6, <3>1, <3>2
  <2>2. ASSUME NEW y \in ToSet(q), y # h PROVE y \in ToSet(r)
    <3>1. PICK i \in 1 .. n : y = q[i]
      BY <1>6, <2>2
    <3>2. i - 1 \in 1 .. n - 1 /\ (i - 1) + 1 = i
      BY <1>4, <2>2, <3>1
    <3>3. QED BY <1>7, <3>1, <3>2
  <2>3. QED BY <2>1, <2>2
<1>10. on_core(t) = on_core(s) /\ Cores(t) = Cores(s)
  BY <1>3 DEF on_core, Cores
<1>11. LibraryTypes(in, t)
  BY <1>1, <1>3, <1>4 DEF LibraryTypes, J
<1>12. Fresh(in, t, l, now)
  BY <1>1, <1>3, <1>10 DEF Fresh
<1>13. /\ ToSet(r) \cap on_core(t) = {}
       /\ ToSet(r) \cup on_core(t) = DOMAIN t.job \ {h}
       /\ h \in DOMAIN t.job
  BY <1>3, <1>8, <1>9, <1>10 DEF Loose, q
<1>14. \A i, j \in DOMAIN r : r[i] = r[j] => i = j
  <2>1. ASSUME NEW i \in 1 .. n - 1, NEW j \in 1 .. n - 1, r[i] = r[j] PROVE i = j
    <3>1. i + 1 \in 1 .. n /\ j + 1 \in 1 .. n
      BY <1>4
    <3>2. i + 1 = j + 1
      BY <1>4, <1>5, <2>1, <3>1
    <3>3. QED BY <3>2
  <2>2. QED BY <1>4, <2>1
<1>15. ASSUME in.scheme # "RR", NEW i \in 1 .. n, NEW j \in 1 .. n, i < j
       PROVE  S!Before(in, l, q[i], q[j])
  BY <1>4, <1>15 DEF Loose, q
<1>16. ASSUME in.scheme # "RR", NEW i \in DOMAIN r, NEW j \in DOMAIN r, i < j
       PROVE  S!Before(in, l, r[i], r[j])
  <2>1. i + 1 \in 1 .. n /\ j + 1 \in 1 .. n /\ i + 1 < j + 1
    BY <1>4, <1>16
  <2>2. QED BY <1>4, <1>15, <1>16, <2>1
<1>17. ASSUME in.scheme # "RR", NEW y \in ToSet(r) PROVE S!Before(in, l, h, y)
  <2>1. PICK i \in 1 .. n - 1 : y = q[i + 1]
    BY <1>7, <1>17
  <2>2. i + 1 \in 1 .. n /\ 1 \in 1 .. n /\ 1 < i + 1
    BY <1>4
  <2>3. QED BY <1>4, <1>15, <1>17, <2>1, <2>2
<1>18. Loose(in, t, l, now, {h})
  <2>1. \A c, d \in Cores(t) : t.core[c] = t.core[d] /\ t.core[c] # -1 => c = d
    BY <1>3, <1>10 DEF Loose
  <2>2. QED BY <1>3, <1>11, <1>12, <1>13, <1>14, <1>16, <2>1 DEF Loose
<1>19. QED BY <1>3, <1>8, <1>9, <1>17, <1>18 DEF q, t, r, h

\* The first of the queue, if there is one, is on core c now.
GivenNext(in, s, l, now, c, call) ==
  LET t == call.s
      h == Head(s.queue)
  IN  /\ Loose(in, t, l, now, {}) /\ DOMAIN t.job = DOMAIN s.job
      /\ s.queue = <<>> => t = s /\ call.result = -1
      /\ s.queue # <<>> =>
           /\ call.result = h /\ h \in ToSet(s.queue)
           /\ t.core = WithCore(s.core, c, h)
           /\ t.queue = Tail(s.queue)
           /\ on_core(t) = on_core(s) \cup {h}
           /\ ToSet(t.queue) = ToSet(s.queue) \ {h}
           /\ in.scheme # "RR" => \A y \in ToSet(t.queue) : S!Before(in, l, h, y)

\* next_on_core gives an idle core to the first of the queue (libscheduler.c:161-172).
LEMMA NextOnCoreFacts ==
  ASSUME NEW in, Valid(in), NEW s, NEW now \in Nat, NEW l \in [S!Jobs(in) -> Nat],
         Loose(in, s, l, now, {}), NEW c \in Cores(s), s.core[c] = -1
  PROVE  GivenNext(in, s, l, now, c, next_on_core(s, c, now))
<1> DEFINE call == next_on_core(s, c, now)
           h == Head(s.queue)
           v == WithQueue(s, Tail(s.queue))
           t == core_assign_on_id(v, c, h, now)
<1>1. CASE s.queue = <<>>
  <2>1. call = [s |-> s, result |-> -1]
    BY <1>1 DEF next_on_core
  <2>2. call.s = s /\ call.result = -1
    BY <2>1
  <2> HIDE DEF call
  <2>3. QED BY <1>1, <2>2 DEF GivenNext, call
<1>2. CASE s.queue # <<>>
  <2>1. call.s = t /\ call.result = h
    BY <1>2 DEF next_on_core, WithQueue
  <2>2. /\ v.core = s.core /\ v.job = s.job /\ v.queue = Tail(s.queue)
        /\ h \in ToSet(s.queue)
        /\ ToSet(v.queue) = ToSet(s.queue) \ {h}
        /\ in.scheme # "RR" => \A y \in ToSet(v.queue) : S!Before(in, l, h, y)
        /\ Loose(in, v, l, now, {h})
    BY <1>2, TailFacts
  <2> HIDE DEF call, v, h
  <2>3. c \in Cores(v) /\ v.core[c] = -1 /\ on_core(v) = on_core(s)
    BY <2>2 DEF Cores, on_core
  <2>4. Loose(in, t, l, now, {h} \ {h})
    <3> DEFINE H == {h}
    <3>1. h \in H
      OBVIOUS
    <3>2. Loose(in, v, l, now, H)
      BY <2>2
    <3> HIDE DEF H
    <3>3. Loose(in, t, l, now, H \ {h})
      BY <2>3, <3>1, <3>2, AssignFacts
    <3>4. QED BY <3>3 DEF H
  <2>5. /\ t.core = WithCore(v.core, c, h) /\ t.queue = v.queue
        /\ DOMAIN t.job = DOMAIN v.job
        /\ on_core(t) = on_core(v) \cup {h}
    BY <2>2, <2>3, <2>4, AssignFacts
  <2>6. {h} \ {h} = {}
    OBVIOUS
  <2> HIDE DEF t
  <2>7. QED BY <1>2, <2>1, <2>2, <2>3, <2>4, <2>5, <2>6 DEF call, h, GivenNext
<1>3. QED BY <1>1, <1>2

\* A job that is in no place is forgotten.
LEMMA ForgetFacts ==
  ASSUME NEW in, Valid(in), NEW s, NEW now \in Nat, NEW l \in [S!Jobs(in) -> Nat],
         NEW x, Loose(in, s, l, now, {x}), NEW w, DOMAIN w = DOMAIN s,
         w.schema = s.schema, w.core = s.core, w.queue = s.queue, w.failed = s.failed,
         w.job = Restrict(s.job, DOMAIN s.job \ {x})
  PROVE  DOMAIN w.job = DOMAIN s.job \ {x} /\ Loose(in, w, l, now, {})
<1>1. DOMAIN w.job = DOMAIN s.job \ {x} /\ \A y \in DOMAIN w.job : w.job[y] = s.job[y]
  BY DEF Restrict
<1>2. on_core(w) = on_core(s) /\ Cores(w) = Cores(s)
  BY DEF on_core, Cores
<1>3. w.job \in [DOMAIN w.job -> JobRecord]
  BY <1>1 DEF Restrict, Loose, LibraryTypes
<1>4. LibraryTypes(in, w)
  BY <1>1, <1>3 DEF Loose, LibraryTypes
<1>5. Fresh(in, w, l, now)
  BY <1>1, <1>2, ZenonT(60) DEF Loose, Fresh
<1>6. /\ ToSet(w.queue) \cap on_core(w) = {}
      /\ ToSet(w.queue) \cup on_core(w) = DOMAIN w.job \ {}
  BY <1>1, <1>2 DEF Loose
<1>7. \A c, d \in Cores(w) : w.core[c] = w.core[d] /\ w.core[c] # -1 => c = d
  BY <1>2 DEF Loose
<1>8. QED BY <1>1, <1>4, <1>5, <1>6, <1>7 DEF Loose

\* What a call leaves, if it keeps the cores busy and the order.
LEMMA LibraryFacts ==
  ASSUME NEW in, Valid(in), NEW s, NEW now \in Nat, NEW l \in [S!Jobs(in) -> Nat],
         Loose(in, s, l, now, {}), s.queue # <<>> => Available(s) = {},
         in.scheme # "RR" => \A x \in on_core(s), y \in ToSet(s.queue) : Leads(in, l, now, x, y)
  PROVE  Library(in, s, l, now)
<1>1. LibraryTypes(in, s) /\ Fresh(in, s, l, now)
  BY DEF Loose
<1>2. InOnePlace(s)
  BY DEF Loose, InOnePlace
<1>3. InOrder(in, s, l, now)
  BY DEF Loose, InOrder
<1>4. Records(in, s, l, now)
  <2>1. DOMAIN s.job \subseteq S!Jobs(in)
    BY <1>1 DEF LibraryTypes
  <2>2. now \in 0 .. now /\ now - now = 0 /\ \A y \in S!Jobs(in) : l[y] = l[y] - (now - now)
    OBVIOUS
  <2>3. QED BY <1>1, <2>1, <2>2 DEF Fresh, Records
<1>5. QED BY <1>1, <1>2, <1>3, <1>4 DEF Library

\* Where Library holds and the records are fresh, every job is in its place.
LEMMA LooseFacts ==
  ASSUME NEW in, NEW s, NEW now, NEW l, Library(in, s, l, now), Fresh(in, s, l, now)
  PROVE  Loose(in, s, l, now, {})
<1>1. ToSet(s.queue) \cup on_core(s) = DOMAIN s.job \ {}
  BY DEF Library, InOnePlace
<1>2. QED BY <1>1 DEF Library, InOnePlace, InOrder, Loose

\* Of some cores one is at least as good as every other.
LEMMA BestFacts ==
  ASSUME NEW B \in SUBSET Nat, NEW n \in Nat, B \subseteq 0 .. n, B # {}, NEW R,
         \A c, d \in B : <<c, d>> \in R \/ <<d, c>> \in R,
         \A c, d, e \in B : <<c, d>> \in R /\ <<d, e>> \in R => <<c, e>> \in R
  PROVE  \E c \in B : \A d \in B : <<c, d>> \in R
<1> DEFINE upto(m) == B \cap 0 .. m
           best(m) == upto(m) # {} => \E c \in upto(m) : \A d \in upto(m) : <<c, d>> \in R
           bad == {m \in Nat : ~ best(m)}
<1>1. ASSUME bad # {} PROVE FALSE
  <2>1. PICK m \in bad : \A k \in bad : m <= k
    <3>1. bad \in SUBSET Nat
      OBVIOUS
    <3> HIDE DEF bad
    <3>2. QED BY <1>1, <3>1, LeastFacts
  <2>2. m \in Nat /\ ~ best(m)
    BY <2>1
  <2>3. m \in Nat
    BY <2>2
  <2>4. upto(m) # {}
    BY <2>2
  <2>5. CASE m = 0
    <3>1. \A c \in upto(m) : c = 0
      BY <2>5
    <3>2. \A c, d \in upto(m) : <<c, d>> \in R
      BY <3>1
    <3> HIDE DEF upto
    <3>3. QED BY <2>2, <2>4, <3>2
  <2>6. CASE m # 0
    <3>1. m - 1 \in Nat /\ ~ (m <= m - 1)
      BY <2>2, <2>6
    <3>2. best(m - 1)
      <4> HIDE DEF best
      <4>1. m - 1 \notin bad
        <5> HIDE DEF bad
        <5>1. QED BY <2>1, <3>1
      <4>2. QED BY <3>1, <4>1
    <3>3. ASSUME NEW c PROVE c \in upto(m) <=> c \in upto(m - 1) \/ (c = m /\ m \in B)
      <4>1. c \in 0 .. m <=> c \in Int /\ 0 <= c /\ c <= m
        BY <2>3
      <4>2. c \in 0 .. m - 1 <=> c \in Int /\ 0 <= c /\ c <= m - 1
        BY <3>1
      <4>3. c \in Int => (c <= m <=> c <= m - 1 \/ c = m)
        BY <2>3
      <4>4. c \in 0 .. m <=> c \in 0 .. m - 1 \/ c = m
        BY <2>3, <4>1, <4>2, <4>3
      <4>5. QED BY <4>4
    <3>4. \A c \in upto(m) : c \in B
      OBVIOUS
    <3>5. CASE upto(m - 1) = {}
      <4>1. \A c, d \in upto(m) : c = m /\ d = m
        BY <3>3, <3>5
      <4> HIDE DEF upto
      <4>2. QED BY <2>2, <2>4, <3>4, <4>1
    <3>6. CASE upto(m - 1) # {}
      <4>1. PICK c \in upto(m - 1) : \A d \in upto(m - 1) : <<c, d>> \in R
        BY <3>2, <3>6
      <4>2. CASE m \in B /\ <<m, c>> \in R
        <5>1. m \in upto(m) /\ c \in B
          BY <3>3, <3>4, <4>1, <4>2
        <5>2. ASSUME NEW d \in upto(m) PROVE <<m, d>> \in R
          <6> HIDE DEF upto
          <6>1. QED BY <3>3, <3>4, <4>1, <4>2, <5>1
        <5> HIDE DEF upto
        <5>3. QED BY <2>2, <5>1, <5>2
      <4>3. CASE m \notin B \/ <<m, c>> \notin R
        <5>1. c \in upto(m) /\ c \in B
          BY <3>3, <3>4, <4>1
        <5>2. ASSUME NEW d \in upto(m) PROVE <<c, d>> \in R
          <6> HIDE DEF upto
          <6>1. QED BY <3>3, <3>4, <4>1, <4>3, <5>1
        <5> HIDE DEF upto
        <5>3. QED BY <2>2, <5>1, <5>2
      <4>4. QED BY <4>2, <4>3
    <3>7. QED BY <3>5, <3>6
  <2>7. QED BY <2>5, <2>6
<1>2. best(n)
  BY <1>1
<1>3. upto(n) = B
  OBVIOUS
<1> HIDE DEF upto
<1>4. QED BY <1>2, <1>3

\* core_to_preempt: a job that came last takes the core of the job which every
\* other job on a core goes before, or none (libscheduler.c:94-116).
LEMMA PreemptFacts ==
  ASSUME NEW in, Valid(in), in.scheme \in {"PSJF", "PPRI"},
         NEW s, NEW now \in Nat, NEW l \in [S!Jobs(in) -> Nat],
         NEW x, Loose(in, s, l, now, {x}), Available(s) = {},
         \A y \in DOMAIN s.job \ {x} : S!Of(in, y).arrival_time < S!Of(in, x).arrival_time
  PROVE  LET k == core_to_preempt(s, x)
         IN  /\ k = -1 => \A a \in on_core(s) : S!Before(in, l, a, x)
             /\ k # -1 => /\ k \in Cores(s) /\ s.core[k] # -1
                          /\ S!Before(in, l, x, s.core[k])
                          /\ \A a \in on_core(s) \ {s.core[k]} : S!Before(in, l, a, s.core[k])
<1> DEFINE beats(c) == comparer(s, x, s.core[c])
           beaten == {c \in Cores(s) : beats(c) < 0}
           rather(c, d) ==
             \/ beats(c) < beats(d)
             \/ /\ beats(c) = beats(d)
                /\ s.job[s.core[c]].arrival_time >= s.job[s.core[d]].arrival_time
           k == core_to_preempt(s, x)
           arr(y) == S!Of(in, y).arrival_time
           key(y) == S!Key(in, l, y)
           R == {e \in beaten \X beaten : rather(e[1], e[2])}
<1>1. /\ LibraryTypes(in, s) /\ Fresh(in, s, l, now) /\ in.scheme # "RR"
      /\ x \in DOMAIN s.job /\ x \in S!Jobs(in) /\ x \notin on_core(s)
      /\ DOMAIN s.job \subseteq S!Jobs(in) /\ on_core(s) \subseteq DOMAIN s.job \ {x}
  BY DEF Loose, LibraryTypes
<1>2. in.cores \in Nat \ {0} /\ Cores(s) = 0 .. in.cores - 1
  BY <1>1, OnCoreFacts, JobsFacts
<1>3. \A c \in Cores(s) : s.core[c] # -1 /\ s.core[c] \in on_core(s)
  BY DEF Available, on_core
<1>4. \A y \in S!Jobs(in) : arr(y) \in Int /\ key(y) \in Int
  BY <1>1, JobsFacts, BeforeFacts
<1>5. ASSUME NEW c \in Cores(s)
      PROVE  /\ beats(c) < 0 <=> S!Before(in, l, x, s.core[c])
             /\ beats(c) < 0 => beats(c) = key(x) - key(s.core[c])
             /\ s.job[s.core[c]].arrival_time = arr(s.core[c])
             /\ arr(s.core[c]) \in Int /\ key(s.core[c]) \in Int /\ beats(c) \in Int
  <2> DEFINE y == s.core[c]
  <2>1. y \in DOMAIN s.job /\ y \in DOMAIN s.job \ {x} /\ y \in S!Jobs(in)
    BY <1>1, <1>3
  <2> HIDE DEF y
  <2>2. /\ comparer(s, x, y) = IF key(x) = key(y) THEN arr(x) - arr(y) ELSE key(x) - key(y)
        /\ comparer(s, x, y) \in Int
        /\ comparer(s, x, y) < 0 <=> S!Before(in, l, x, y)
    BY <1>1, <2>1, ComparerFacts
  <2>3. arr(y) < arr(x) /\ arr(y) \in Int /\ arr(x) \in Int /\ key(y) \in Int
    BY <1>1, <1>4, <2>1
  <2>4. s.job[y].arrival_time = arr(y)
    BY <1>1, <2>1 DEF Fresh
  <2> DEFINE b == comparer(s, x, y)
  <2>5. b < 0 => b = key(x) - key(y)
    <3>1. CASE key(x) = key(y)
      <4>1. b = arr(x) - arr(y)
        BY <2>2, <3>1
      <4> HIDE DEF b, arr, key
      <4>2. ~ (b < 0)
        BY <2>3, <4>1
      <4>3. QED BY <4>2
    <3>2. CASE key(x) # key(y)
      BY <2>2, <3>2
    <3>3. QED BY <3>1, <3>2
  <2>6. QED BY <2>2, <2>3, <2>4, <2>5 DEF y
<1>6. k = IF beaten = {} THEN -1 ELSE CHOOSE c \in beaten : \A d \in beaten : rather(c, d)
  BY DEF core_to_preempt
<1>7. ASSUME NEW c \in beaten, NEW d \in beaten
      PROVE  rather(c, d) <=> \/ key(x) - key(s.core[c]) < key(x) - key(s.core[d])
                              \/ /\ key(x) - key(s.core[c]) = key(x) - key(s.core[d])
                                 /\ arr(s.core[c]) >= arr(s.core[d])
  BY <1>5
<1>8. beaten \subseteq Cores(s) /\ \A c \in Cores(s) : c \in beaten <=> beats(c) < 0
  OBVIOUS
<1> HIDE DEF beaten, rather, beats, arr, key, k
<1>9. key(x) \in Int /\ \A c \in beaten : key(s.core[c]) \in Int /\ arr(s.core[c]) \in Int
  BY <1>1, <1>4, <1>5, <1>8
<1>10. \A c, d \in beaten : rather(c, d) <=>
         \/ key(s.core[d]) < key(s.core[c])
         \/ key(s.core[d]) = key(s.core[c]) /\ arr(s.core[d]) <= arr(s.core[c])
  <2>1. ASSUME NEW a \in Int, NEW b \in Int, NEW e \in Int
        PROVE  /\ e - a < e - b <=> b < a
               /\ e - a = e - b <=> b = a
    OBVIOUS
  <2>2. ASSUME NEW c \in beaten, NEW d \in beaten
        PROVE  /\ key(x) - key(s.core[c]) < key(x) - key(s.core[d])
                    <=> key(s.core[d]) < key(s.core[c])
               /\ key(x) - key(s.core[c]) = key(x) - key(s.core[d])
                    <=> key(s.core[d]) = key(s.core[c])
               /\ arr(s.core[c]) >= arr(s.core[d]) <=> arr(s.core[d]) <= arr(s.core[c])
    BY <1>9, <2>1
  <2>3. QED BY <1>7, <2>2
<1>11. ASSUME beaten # {} PROVE k \in beaten /\ \A d \in beaten : rather(k, d)
  <2>1. \A c, d \in beaten : rather(c, d) \/ rather(d, c)
    BY <1>9, <1>10
  <2>2. \A c, d, e \in beaten : rather(c, d) /\ rather(d, e) => rather(c, e)
    BY <1>9, <1>10
  <2>3. \A c, d \in beaten : <<c, d>> \in R <=> rather(c, d)
    OBVIOUS
  <2> HIDE DEF R
  <2>4. beaten \in SUBSET Nat /\ beaten \subseteq 0 .. in.cores - 1 /\ in.cores - 1 \in Nat
    BY <1>2, <1>8
  <2>5. \A c, d \in beaten : <<c, d>> \in R \/ <<d, c>> \in R
    BY <2>1, <2>3
  <2>6. \A c, d, e \in beaten : <<c, d>> \in R /\ <<d, e>> \in R => <<c, e>> \in R
    BY <2>2, <2>3
  <2>7. \E c \in beaten : \A d \in beaten : <<c, d>> \in R
    BY <1>11, <2>4, <2>5, <2>6, BestFacts
  <2>8. \E c \in beaten : \A d \in beaten : rather(c, d)
    BY <2>3, <2>7
  <2>9. QED BY <1>6, <1>11, <2>8
<1>12. ASSUME NEW a \in on_core(s), ~ S!Before(in, l, x, a) PROVE S!Before(in, l, a, x)
  BY <1>1, <1>12, BeforeFacts
<1>13. ASSUME k = -1 PROVE \A a \in on_core(s) : S!Before(in, l, a, x)
  <2>1. beaten = {}
    <3>1. \A c \in beaten : c # -1
      BY <1>2, <1>8
    <3>2. QED BY <1>11, <1>13, <3>1
  <2>2. ASSUME NEW a \in on_core(s) PROVE S!Before(in, l, a, x)
    <3>1. PICK c \in Cores(s) : s.core[c] = a
      BY <2>2 DEF on_core
    <3>2. ~ S!Before(in, l, x, a)
      BY <1>5, <1>8, <2>1, <3>1
    <3>3. QED BY <1>12, <3>2
  <2>3. QED BY <2>2
<1>14. ASSUME k # -1
       PROVE  /\ k \in Cores(s) /\ s.core[k] # -1
              /\ S!Before(in, l, x, s.core[k])
              /\ \A a \in on_core(s) \ {s.core[k]} : S!Before(in, l, a, s.core[k])
  <2>1. k \in beaten /\ \A d \in beaten : rather(k, d)
    BY <1>6, <1>11, <1>14
  <2>2. k \in Cores(s) /\ s.core[k] # -1 /\ S!Before(in, l, x, s.core[k])
    BY <1>3, <1>5, <1>8, <2>1
  <2>3. ASSUME NEW a \in on_core(s) \ {s.core[k]} PROVE S!Before(in, l, a, s.core[k])
    <3>1. PICK c \in Cores(s) : s.core[c] = a
      BY <2>3 DEF on_core
    <3>2. s.core[k] \in S!Jobs(in) /\ a \in S!Jobs(in)
      BY <1>1, <1>3, <2>2
    <3>3. CASE c \in beaten
      <4>1. \/ key(a) < key(s.core[k])
            \/ key(a) = key(s.core[k]) /\ arr(a) <= arr(s.core[k])
        BY <1>10, <2>1, <3>1, <3>3
      <4>2. arr(a) # arr(s.core[k]) /\ arr(a) \in Int /\ arr(s.core[k]) \in Int
        BY <1>4, <2>3, <3>2, JobsFacts DEF arr
      <4>3. QED BY <4>1, <4>2 DEF S!Before, arr, key
    <3>4. CASE c \notin beaten
      <4>1. ~ S!Before(in, l, x, a)
        BY <1>5, <1>8, <3>1, <3>4
      <4>2. S!Before(in, l, a, x)
        BY <1>12, <4>1
      <4>3. QED BY <1>1, <2>2, <3>2, <4>2, BeforeFacts
    <3>5. QED BY <3>3, <3>4
  <2>4. QED BY <2>2, <2>3
<1>15. QED BY <1>13, <1>14 DEF k

-----------------------------------------------------------------------------
(* The calls of the simulator, and a unit of time.                         *)

\* The job x has a core now, or a place in the queue.
Placed(in, s, l, now, x, call) ==
  LET t == call.s
  IN  /\ Library(in, t, l, now)
      /\ DOMAIN t.job = DOMAIN s.job \cup {x}
      /\ call.result = -1 => t.core = s.core
      /\ call.result # -1 =>
           call.result \in Cores(s) /\ t.core = WithCore(s.core, call.result, x)
      /\ in.scheme = "RR" => t.queue = s.queue \/ t.queue = Append(s.queue, x)

\* scheduler_new_job: the job gets an idle core, or the core of the job it takes
\* it from, or a place in the queue (libscheduler.c:210-270).
LEMMA NewJobFacts ==
  ASSUME NEW in, Valid(in), NEW s, NEW now \in Nat, NEW l \in [S!Jobs(in) -> Nat],
         Library(in, s, l, now),
         NEW x \in S!Jobs(in), x \notin DOMAIN s.job,
         S!Of(in, x).arrival_time = now, l[x] = S!Of(in, x).run_time,
         \A y \in DOMAIN s.job : S!Of(in, y).arrival_time < now,
         NEW running_time, running_time = S!Of(in, x).run_time,
         NEW priority, priority = S!Of(in, x).priority
  PROVE  Placed(in, s, l, now, x, scheduler_new_job(s, x, now, running_time, priority))
<1> DEFINE u == update_time(s, now)
           v == [u EXCEPT !.job = [y \in DOMAIN @ \cup {x} |->
                                     IF y = x THEN NewJob(now, running_time, priority) ELSE @[y]]]
           free == core_available(v)
           index == IF v.schema \in {"PSJF", "PPRI"} THEN core_to_preempt(v, x) ELSE -1
           call == scheduler_new_job(s, x, now, running_time, priority)
           t == call.s
<1>1. /\ u.core = s.core /\ u.queue = s.queue /\ DOMAIN u.job = DOMAIN s.job
      /\ Library(in, u, l, now) /\ Fresh(in, u, l, now)
  BY UpdateFacts
<1>2. call = CASE free # -1 -> [s |-> core_assign_on_id(v, free, x, now), result |-> free]
               [] free = -1 /\ index # -1 ->
                    [s |-> core_assign_on_id(core_job_remove_on_id(v, index), index, x, now),
                     result |-> index]
               [] OTHER -> [s |-> priqueue_offer(v, x), result |-> -1]
  BY DEF scheduler_new_job
<1> HIDE DEF u, call
<1>3. LibraryTypes(in, u)
  BY <1>1 DEF Library
<1>4. /\ DOMAIN v = DOMAIN u /\ v.core = u.core /\ v.queue = u.queue
      /\ v.schema = in.scheme /\ v.failed = u.failed
      /\ v.job = [y \in DOMAIN u.job \cup {x} |->
                    IF y = x THEN NewJob(now, running_time, priority) ELSE u.job[y]]
  BY <1>3 DEF LibraryTypes
<1> HIDE DEF v
<1>5. on_core(v) = on_core(s) /\ Cores(v) = Cores(s) /\ v.core = s.core /\ v.queue = s.queue
  BY <1>1, <1>4 DEF on_core, Cores
<1>6. on_core(u) = on_core(s) /\ Cores(u) = Cores(s) /\ Available(u) = Available(v)
  BY <1>1, <1>4 DEF on_core, Cores, Available
<1>7. /\ DOMAIN v.job = DOMAIN s.job \cup {x}
      /\ v.job[x] = NewJob(now, running_time, priority)
      /\ \A y \in DOMAIN s.job : v.job[y] = u.job[y]
  BY <1>1, <1>4
<1>8. /\ ToSet(s.queue) \cap on_core(s) = {} /\ ToSet(s.queue) \cup on_core(s) = DOMAIN s.job
      /\ s.queue # <<>> => Available(v) = {}
      /\ DOMAIN s.job \subseteq S!Jobs(in)
      /\ x \notin on_core(s) /\ x \notin ToSet(s.queue)
  BY <1>1, <1>3, <1>6 DEF Library, InOnePlace, LibraryTypes
<1>9. S!Of(in, x).run_time \in Nat \ {0} /\ S!Of(in, x).priority \in Int
  BY JobsFacts
<1>10. /\ v.job[x] \in JobRecord
       /\ v.job[x].arrival_time = now /\ v.job[x].running_time = running_time
       /\ v.job[x].remaining_time = running_time /\ v.job[x].priority = priority
       /\ v.job[x].last_update_time_on_core = -1
  BY <1>7, <1>9 DEF NewJob, JobRecord
<1>11. LibraryTypes(in, v)
  <2>1. \A y \in DOMAIN v.job : v.job[y] \in JobRecord
    BY <1>1, <1>3, <1>7, <1>10 DEF LibraryTypes
  <2>2. v.job \in [DOMAIN v.job -> JobRecord]
    <3>1. v.job = [y \in DOMAIN v.job |-> v.job[y]]
      BY <1>4
    <3>2. QED BY <2>1, <3>1
  <2>3. DOMAIN v.job \subseteq S!Jobs(in)
    BY <1>7, <1>8
  <2>4. QED BY <1>3, <1>4, <2>2, <2>3 DEF LibraryTypes
<1>12. Fresh(in, v, l, now)
  <2>1. ASSUME NEW y \in DOMAIN v.job
        PROVE  LET j == v.job[y]
               IN  /\ j.arrival_time = S!Of(in, y).arrival_time
                   /\ j.running_time = S!Of(in, y).run_time
                   /\ j.priority = S!Of(in, y).priority
                   /\ j.remaining_time = l[y]
                   /\ j.last_update_time_on_core = IF y \in on_core(v) THEN now ELSE -1
    <3>1. CASE y = x
      BY <1>5, <1>8, <1>10, <3>1
    <3>2. CASE y # x
      <4>1. y \in DOMAIN u.job /\ v.job[y] = u.job[y]
        BY <1>1, <1>7, <3>2
      <4>2. QED BY <1>1, <1>5, <1>6, <4>1 DEF Fresh
    <3>3. QED BY <3>1, <3>2
  <2>2. QED BY <2>1 DEF Fresh
<1>13. Loose(in, v, l, now, {x})
  <2>1. /\ \A c, d \in Cores(v) : v.core[c] = v.core[d] /\ v.core[c] # -1 => c = d
        /\ \A i, j \in DOMAIN v.queue : v.queue[i] = v.queue[j] => i = j
    BY <1>1, <1>5 DEF Library, InOnePlace, Cores
  <2>2. /\ ToSet(v.queue) \cap on_core(v) = {}
        /\ ToSet(v.queue) \cup on_core(v) = DOMAIN v.job \ {x}
        /\ {x} \subseteq DOMAIN v.job
    BY <1>5, <1>7, <1>8
  <2>3. in.scheme # "RR" =>
          \A i, j \in DOMAIN v.queue : i < j => S!Before(in, l, v.queue[i], v.queue[j])
    BY <1>1, <1>5 DEF Library, InOrder
  <2>4. QED BY <1>11, <1>12, <2>1, <2>2, <2>3 DEF Loose
<1>14. ASSUME in.scheme # "RR", NEW a \in on_core(s), NEW b \in ToSet(s.queue)
       PROVE  Leads(in, l, now, a, b)
  BY <1>1, <1>6, <1>14 DEF Library, InOrder
<1>15. /\ free = -1 => Available(v) = {}
       /\ free # -1 => free \in Cores(s) /\ v.core[free] = -1 /\ Available(v) # {}
  <2>1. Cores(v) = 0 .. in.cores - 1 /\ Available(v) \in SUBSET Nat
    <3>1. Cores(v) = 0 .. in.cores - 1
      BY <1>11, OnCoreFacts
    <3>2. QED BY <3>1 DEF Available
  <2>2. ASSUME Available(v) # {} PROVE free \in Available(v)
    BY <2>1, <2>2, LeastFacts DEF core_available
  <2>3. ASSUME Available(v) = {} PROVE free = -1
    BY <2>3 DEF core_available
  <2>4. -1 \notin Available(v)
    BY <2>1
  <2>5. QED BY <1>5, <2>2, <2>3, <2>4 DEF Available
<1> DEFINE K == {x}
<1>16. K \ {x} = {}
  OBVIOUS
<1>17. x \in K /\ Loose(in, v, l, now, K)
  BY <1>13
<1> HIDE DEF free, index, t, K
<1>18. CASE free # -1
  <2> DEFINE w == core_assign_on_id(v, free, x, now)
  <2>1. call.s = w /\ call.result = free
    BY <1>2, <1>18
  <2>2. free \in Cores(v) /\ v.core[free] = -1 /\ s.queue = <<>>
    BY <1>5, <1>8, <1>15, <1>18
  <2>3. Loose(in, w, l, now, K \ {x})
    BY <1>17, <2>2, AssignFacts
  <2>4. /\ w.core = WithCore(v.core, free, x) /\ w.queue = v.queue
        /\ DOMAIN w.job = DOMAIN v.job
    BY <1>17, <2>2, <2>3, AssignFacts
  <2> HIDE DEF w
  <2>5. ToSet(w.queue) = {}
    BY <1>5, <2>2, <2>4 DEF ToSet
  <2>6. Library(in, w, l, now)
    BY <1>5, <1>16, <2>2, <2>3, <2>4, <2>5, LibraryFacts
  <2>7. QED BY <1>5, <1>7, <1>15, <1>18, <2>1, <2>4, <2>6 DEF t, call, Placed
<1>19. CASE free = -1 /\ index # -1
  <2> DEFINE y == v.core[index]
             w == core_job_remove_on_id(v, index)
             z == core_assign_on_id(w, index, x, now)
  <2>1. call.s = z /\ call.result = index
    BY <1>2, <1>19
  <2>2. in.scheme \in {"PSJF", "PPRI"} /\ index = core_to_preempt(v, x)
    BY <1>4, <1>19 DEF index
  <2>3. Available(v) = {}
    BY <1>15, <1>19
  <2>4. \A a \in DOMAIN v.job \ {x} : S!Of(in, a).arrival_time < S!Of(in, x).arrival_time
    BY <1>7
  <2>5. /\ index \in Cores(v) /\ y # -1
        /\ S!Before(in, l, x, y)
        /\ \A a \in on_core(v) \ {y} : S!Before(in, l, a, y)
    BY <1>13, <1>19, <2>2, <2>3, <2>4, PreemptFacts
  <2> HIDE DEF w
  <2>6. BackInQueue(in, v, l, now, K, index, w)
    BY <1>17, <2>5, RemoveOnIdFacts DEF w
  <2>7. /\ w.core = WithCore(v.core, index, -1) /\ DOMAIN w.job = DOMAIN v.job
        /\ y \in on_core(v) /\ y \in S!Jobs(in)
        /\ on_core(w) = on_core(v) \ {y}
        /\ ToSet(w.queue) = ToSet(v.queue) \cup {y}
        /\ Loose(in, w, l, now, K)
    BY <2>6 DEF BackInQueue, y
  <2>8. v.core \in [Cores(v) -> S!Jobs(in) \cup {-1}]
    BY <1>11, OnCoreFacts DEF LibraryTypes
  <2>9. index \in Cores(w) /\ w.core[index] = -1
    BY <2>5, <2>7, <2>8 DEF Cores, WithCore
  <2> HIDE DEF z, y
  <2>10. Loose(in, z, l, now, K \ {x})
    BY <1>17, <2>7, <2>9, AssignFacts DEF z
  <2>11. /\ z.core = WithCore(w.core, index, x) /\ z.queue = w.queue
         /\ DOMAIN z.job = DOMAIN w.job /\ on_core(z) = on_core(w) \cup {x}
    BY <1>17, <2>7, <2>9, <2>10, AssignFacts DEF z
  <2>12. z.core = WithCore(v.core, index, x)
    BY <2>5, <2>7, <2>8, <2>11 DEF WithCore
  <2>13. ASSUME NEW a \in on_core(z), NEW b \in ToSet(z.queue)
         PROVE  S!Before(in, l, a, b)
    <3>1. (a \in on_core(v) \ {y} \/ a = x) /\ (b \in ToSet(v.queue) \/ b = y)
      BY <2>7, <2>11
    <3>2. a \in S!Jobs(in) /\ b \in S!Jobs(in) /\ in.scheme # "RR"
      BY <1>5, <1>8, <2>2, <2>7, <3>1
    <3>3. b \in ToSet(v.queue) /\ a # x => S!Before(in, l, a, b)
      BY <1>5, <1>14, <2>2, <3>1, <3>2 DEF Leads
    <3>4. b \in ToSet(v.queue) => S!Before(in, l, y, b)
      BY <1>5, <1>14, <2>2, <2>7, <3>2 DEF Leads
    <3>5. b \in ToSet(v.queue) /\ a = x => S!Before(in, l, a, b)
      BY <2>5, <2>7, <3>2, <3>4, BeforeFacts
    <3>6. b = y => S!Before(in, l, a, b)
      BY <2>5, <3>1
    <3>7. QED BY <3>1, <3>3, <3>5, <3>6
  <2>14. Available(z) = {}
    <3>1. \A c \in Cores(v) : z.core[c] # -1
      <4>1. x # -1
        BY <1>11, OnCoreFacts
      <4>2. QED BY <2>3, <2>8, <2>12, <4>1 DEF Available, WithCore
    <3>2. Cores(z) = Cores(v)
      BY <2>12 DEF Cores, WithCore
    <3>3. QED BY <3>1, <3>2 DEF Available
  <2>15. Library(in, z, l, now)
    <3>1. \A a \in on_core(z), b \in ToSet(z.queue) : Leads(in, l, now, a, b)
      BY <2>2, <2>13 DEF Leads
    <3>2. QED BY <1>16, <2>10, <2>14, <3>1, LibraryFacts
  <2>16. QED BY <1>5, <1>7, <1>19, <2>1, <2>2, <2>5, <2>7, <2>11, <2>12, <2>15 DEF t, call, Placed
<1>20. CASE free = -1 /\ index = -1
  <2> DEFINE w == priqueue_offer(v, x)
  <2>1. call.s = w /\ call.result = -1
    BY <1>2, <1>20
  <2>2. Available(v) = {}
    BY <1>15, <1>20
  <2> HIDE DEF w
  <2>3. Offered(in, v, l, now, K, x, w)
    BY <1>17, OfferFacts DEF w
  <2>4. /\ w.core = v.core /\ w.job = v.job
        /\ ToSet(w.queue) = ToSet(v.queue) \cup {x}
        /\ in.scheme = "RR" => w.queue = Append(v.queue, x)
    BY <2>3 DEF Offered
  <2>5. on_core(w) = on_core(s) /\ Available(w) = {}
    BY <1>5, <2>2, <2>4 DEF on_core, Cores, Available
  <2>6. ASSUME in.scheme # "RR", NEW a \in on_core(w), NEW b \in ToSet(w.queue)
        PROVE  Leads(in, l, now, a, b)
    <3>1. CASE b \in ToSet(s.queue)
      BY <1>14, <2>5, <2>6, <3>1
    <3>2. CASE b = x /\ in.scheme \in {"PSJF", "PPRI"}
      <4>1. core_to_preempt(v, x) = -1
        BY <1>4, <1>20, <3>2 DEF index
      <4>2. \A e \in DOMAIN v.job \ {x} : S!Of(in, e).arrival_time < S!Of(in, x).arrival_time
        BY <1>7
      <4>3. S!Before(in, l, a, x)
        BY <1>5, <1>13, <2>2, <2>5, <3>2, <4>1, <4>2, PreemptFacts
      <4>4. QED BY <3>2, <4>3 DEF Leads
    <3>3. CASE b = x /\ in.scheme \notin {"PSJF", "PPRI"}
      <4>1. S!Of(in, a).arrival_time < now
        BY <1>8, <2>5
      <4>2. QED BY <3>3, <4>1 DEF Leads
    <3>4. QED BY <1>5, <2>4, <3>1, <3>2, <3>3
  <2>7. Library(in, w, l, now)
    BY <1>16, <2>3, <2>5, <2>6, LibraryFacts DEF Offered
  <2>8. QED BY <1>5, <1>7, <2>1, <2>4, <2>7 DEF t, call, Placed
<1>21. QED BY <1>18, <1>19, <1>20

\* The job of core c is forgotten, and the first of the queue is on the core.
Replaced(in, s, l, now, c, call) ==
  LET x == s.core[c]
      t == call.s
  IN  /\ Library(in, t, l, now)
      /\ DOMAIN t.job = DOMAIN s.job \ {x}
      /\ t.core = WithCore(s.core, c, call.result)
      /\ s.queue = <<>> => t.queue = <<>> /\ call.result = -1
      /\ s.queue # <<>> => /\ t.queue = Tail(s.queue) /\ call.result = Head(s.queue)
                           /\ call.result \in ToSet(s.queue)
                           /\ call.result \in on_core(t)

\* scheduler_job_finished: the job is forgotten, and the first of the queue gets
\* its core (libscheduler.c:282-343).
LEMMA JobFinishedFacts ==
  ASSUME NEW in, Valid(in), NEW s, NEW now \in Nat, NEW l \in [S!Jobs(in) -> Nat],
         Library(in, s, l, now), NEW c \in Cores(s), s.core[c] # -1,
         \A y \in DOMAIN s.job : S!Of(in, y).arrival_time < now
  PROVE  Replaced(in, s, l, now, c, scheduler_job_finished(s, c, s.core[c], now))
<1> DEFINE x == s.core[c]
           u == update_time(s, now)
           b == Taken(u, c)
           r == core_job_remove_on_id(u, c)
           v == priqueue_remove(r, x)
           took == now - u.job[x].arrival_time
           w == [v EXCEPT !.wait = add(@, took - u.job[x].running_time),
                          !.turnaround = add(@, took),
                          !.job = Restrict(@, DOMAIN @ \ {x})]
           call == scheduler_job_finished(s, c, x, now)
           t == call.s
<1>1. /\ u.core = s.core /\ u.queue = s.queue /\ DOMAIN u.job = DOMAIN s.job
      /\ Library(in, u, l, now) /\ Fresh(in, u, l, now)
  BY UpdateFacts
<1>2. call = IF c \notin Cores(s) \/ u.core[c] # x
             THEN [s |-> [s EXCEPT !.failed = TRUE], result |-> -1]
             ELSE next_on_core(w, c, now)
  BY DEF scheduler_job_finished
<1>3. call = next_on_core(w, c, now)
  BY <1>1, <1>2
<1> HIDE DEF u, call
<1>4. on_core(u) = on_core(s) /\ Cores(u) = Cores(s) /\ Available(u) = Available(s)
  BY <1>1 DEF on_core, Cores, Available
<1>5. Loose(in, u, l, now, {})
  BY <1>1, LooseFacts
<1> DEFINE E == {}
<1>6. Loose(in, u, l, now, E) /\ c \in Cores(u) /\ u.core[c] # -1 /\ u.core[c] = x
  BY <1>1, <1>4, <1>5
<1> HIDE DEF E, x, b, r
<1>7. Loose(in, b, l, now, E \cup {x})
  BY <1>6, TakenFacts DEF b
<1>8. /\ b.core = WithCore(u.core, c, -1) /\ b.queue = u.queue
      /\ DOMAIN b.job = DOMAIN u.job /\ DOMAIN b = DOMAIN u
      /\ x \in on_core(u) /\ x \in DOMAIN u.job /\ x \notin ToSet(u.queue)
      /\ on_core(b) = on_core(u) \ {x}
  BY <1>6, <1>7, TakenFacts DEF b
<1>9. BackInQueue(in, u, l, now, E, c, r)
  BY <1>6, RemoveOnIdFacts DEF r
<1>10. x \in S!Jobs(in) /\ \E p \in 1 .. Len(u.queue) + 1 : r = WithQueue(b, InsertAt(u.queue, p, x))
  BY <1>6, <1>9 DEF BackInQueue, b
<1>11. PICK p \in 1 .. Len(u.queue) + 1 : r = WithQueue(b, InsertAt(u.queue, p, x))
  BY <1>10
<1>12. /\ "queue" \in DOMAIN r /\ r.queue = InsertAt(u.queue, p, x)
       /\ r.core = b.core /\ r.job = b.job /\ r.schema = b.schema /\ r.failed = b.failed
       /\ DOMAIN r = DOMAIN b
  <2>1. DOMAIN b = {"schema", "core", "queue", "job", "wait", "turnaround", "response", "failed"}
    BY <1>7 DEF Loose, LibraryTypes
  <2>2. QED BY <1>11, <2>1 DEF WithQueue
<1>13. v = WithQueue(r, u.queue)
  <2>1. u.queue \in Seq(S!Jobs(in))
    BY <1>5 DEF Loose, LibraryTypes
  <2>2. QED BY <1>8, <1>10, <1>12, <2>1, RemoveInserted
<1>14. /\ DOMAIN v = DOMAIN b /\ v.queue = b.queue
       /\ v.core = b.core /\ v.job = b.job /\ v.schema = b.schema /\ v.failed = b.failed
  BY <1>8, <1>12, <1>13 DEF WithQueue
<1> HIDE DEF v
<1>15. /\ DOMAIN w = DOMAIN b /\ w.queue = b.queue
       /\ w.core = b.core /\ w.schema = b.schema /\ w.failed = b.failed
       /\ w.job = Restrict(b.job, DOMAIN b.job \ {x})
  <2>1. DOMAIN b = {"schema", "core", "queue", "job", "wait", "turnaround", "response", "failed"}
    BY <1>7 DEF Loose, LibraryTypes
  <2>2. QED BY <1>14, <2>1
<1> HIDE DEF w
<1>16. Loose(in, w, l, now, {}) /\ DOMAIN w.job = DOMAIN b.job \ {x}
  <2>1. Loose(in, b, l, now, {x})
    BY <1>7 DEF E
  <2>2. Loose(in, w, l, now, {})
    BY <1>15, <2>1, ForgetFacts
  <2>3. QED BY <1>15, <2>2 DEF Restrict
<1>17. s.core \in [Cores(s) -> S!Jobs(in) \cup {-1}]
  BY OnCoreFacts DEF Library, LibraryTypes
<1>18. c \in Cores(w) /\ w.core[c] = -1 /\ w.queue = s.queue /\ w.core = WithCore(s.core, c, -1)
  BY <1>1, <1>8, <1>15, <1>17 DEF Cores, WithCore
<1> HIDE DEF t
<1>19. GivenNext(in, w, l, now, c, call)
  BY <1>3, <1>16, <1>18, NextOnCoreFacts
<1> DEFINE h == Head(s.queue)
<1>20. /\ Loose(in, t, l, now, {}) /\ DOMAIN t.job = DOMAIN w.job
       /\ s.queue = <<>> => t = w /\ call.result = -1
       /\ s.queue # <<>> =>
            /\ call.result = h /\ h \in ToSet(s.queue)
            /\ t.core = WithCore(w.core, c, h)
            /\ t.queue = Tail(s.queue)
            /\ on_core(t) = on_core(w) \cup {h}
            /\ ToSet(t.queue) = ToSet(s.queue) \ {h}
            /\ in.scheme # "RR" => \A y \in ToSet(t.queue) : S!Before(in, l, h, y)
  BY <1>18, <1>19 DEF GivenNext, t
<1> HIDE DEF h
<1>21. DOMAIN t.job = DOMAIN s.job \ {x}
  BY <1>1, <1>8, <1>16, <1>20
<1>22. t.core = WithCore(s.core, c, call.result)
  BY <1>17, <1>18, <1>20 DEF WithCore, Cores
<1>23. CASE s.queue = <<>>
  <2>1. t.queue = <<>> /\ ToSet(t.queue) = {}
    BY <1>18, <1>20, <1>23 DEF ToSet
  <2>2. Library(in, t, l, now)
    BY <1>20, <2>1, LibraryFacts
  <2>3. QED BY <1>20, <1>21, <1>22, <1>23, <2>1, <2>2 DEF t, call, x, Replaced
<1>24. CASE s.queue # <<>>
  <2>1. /\ call.result = h /\ h \in ToSet(s.queue)
        /\ t.queue = Tail(s.queue)
        /\ on_core(t) = (on_core(s) \ {x}) \cup {h}
        /\ ToSet(t.queue) = ToSet(s.queue) \ {h}
        /\ in.scheme # "RR" => \A y \in ToSet(t.queue) : S!Before(in, l, h, y)
    <3>1. on_core(w) = on_core(b)
      BY <1>15 DEF on_core, Cores
    <3>2. QED BY <1>4, <1>8, <1>20, <1>24, <3>1
  <2>2. Available(s) = {}
    BY <1>24 DEF Library, InOnePlace
  <2>3. h # -1 /\ h \in DOMAIN s.job
    <3>1. ToSet(s.queue) \subseteq S!Jobs(in) /\ -1 \notin S!Jobs(in)
      BY OnCoreFacts DEF Library
    <3>2. QED BY <2>1, <3>1 DEF Library, InOnePlace
  <2>4. Available(t) = {}
    BY <1>17, <1>22, <2>1, <2>2, <2>3 DEF Available, Cores, WithCore
  <2>5. ASSUME in.scheme # "RR", NEW a \in on_core(s), NEW y \in ToSet(s.queue)
        PROVE  Leads(in, l, now, a, y)
    BY <2>5 DEF Library, InOrder
  <2>6. x \in on_core(s)
    BY <1>4, <1>8
  <2>7. ASSUME in.scheme # "RR", NEW a \in on_core(t), NEW y \in ToSet(t.queue)
        PROVE  Leads(in, l, now, a, y)
    <3>1. y \in ToSet(s.queue)
      BY <2>1
    <3>2. CASE a = h
      <4>1. S!Before(in, l, h, y) /\ Leads(in, l, now, x, y)
        BY <2>1, <2>5, <2>6, <2>7, <3>1
      <4>2. S!Of(in, h).arrival_time < now
        BY <2>3
      <4>3. QED BY <3>2, <4>1, <4>2 DEF Leads
    <3>3. CASE a # h
      BY <2>1, <2>5, <2>7, <3>1, <3>3
    <3>4. QED BY <3>2, <3>3
  <2>8. Library(in, t, l, now)
    BY <1>20, <2>4, <2>7, LibraryFacts
  <2>9. QED BY <1>21, <1>22, <1>24, <2>1, <2>8 DEF t, call, x, h, Replaced
<1>25. QED BY <1>23, <1>24

\* The job of core c is behind the queue, and the first of both is on the core.
TakenTurns(in, s, l, now, c, call) ==
  LET x == s.core[c]
      t == call.s
  IN  /\ Library(in, t, l, now)
      /\ DOMAIN t.job = DOMAIN s.job
      /\ t.core = WithCore(s.core, c, call.result)
      /\ call.result # -1 /\ call.result \in DOMAIN s.job /\ call.result \in on_core(t)
      /\ t.queue = Tail(Append(s.queue, x)) /\ call.result = Head(Append(s.queue, x))

\* scheduler_quantum_expired: in RR the job goes to the end of the queue, and the
\* first of it gets the core (libscheduler.c:357-377).
LEMMA QuantumExpiredFacts ==
  ASSUME NEW in, Valid(in), in.scheme = "RR",
         NEW s, NEW now \in Nat, NEW l \in [S!Jobs(in) -> Nat],
         Library(in, s, l, now), NEW c \in Cores(s), s.core[c] # -1
  PROVE  TakenTurns(in, s, l, now, c, scheduler_quantum_expired(s, c, now))
<1> DEFINE x == s.core[c]
           u == update_time(s, now)
           r == core_job_remove_on_id(u, c)
           call == scheduler_quantum_expired(s, c, now)
           t == call.s
           E == {}
           h == Head(r.queue)
<1>1. /\ u.core = s.core /\ u.queue = s.queue /\ DOMAIN u.job = DOMAIN s.job
      /\ Library(in, u, l, now) /\ Fresh(in, u, l, now)
  BY UpdateFacts
<1>2. call = next_on_core(r, c, now)
  BY DEF scheduler_quantum_expired
<1> HIDE DEF u, call
<1>3. Cores(u) = Cores(s) /\ on_core(u) = on_core(s)
  BY <1>1 DEF Cores, on_core
<1>4. Loose(in, u, l, now, E) /\ c \in Cores(u) /\ u.core[c] # -1 /\ u.core[c] = x
  BY <1>1, <1>3, LooseFacts
<1> HIDE DEF E, x, r
<1>5. BackInQueue(in, u, l, now, E, c, r)
  BY <1>4, RemoveOnIdFacts DEF r
<1>6. /\ r.core = WithCore(u.core, c, -1) /\ DOMAIN r.job = DOMAIN u.job
      /\ x \in on_core(u) /\ x \in S!Jobs(in)
      /\ on_core(r) = on_core(u) \ {x}
      /\ ToSet(r.queue) = ToSet(u.queue) \cup {x}
      /\ r.queue = Append(u.queue, x)
      /\ Loose(in, r, l, now, E)
  BY <1>4, <1>5 DEF BackInQueue
<1>7. s.core \in [Cores(s) -> S!Jobs(in) \cup {-1}]
  BY OnCoreFacts DEF Library, LibraryTypes
<1>8. c \in Cores(r) /\ r.core[c] = -1 /\ r.core = WithCore(s.core, c, -1)
  BY <1>1, <1>6, <1>7 DEF Cores, WithCore
<1>9. r.queue # <<>>
  <2>1. ToSet(r.queue) # {}
    BY <1>6
  <2>2. QED BY <2>1 DEF ToSet
<1>10. GivenNext(in, r, l, now, c, call)
  BY <1>2, <1>6, <1>8, NextOnCoreFacts DEF E
<1> HIDE DEF t, h
<1>11. /\ Loose(in, t, l, now, {}) /\ DOMAIN t.job = DOMAIN r.job
       /\ call.result = h /\ h \in ToSet(r.queue)
       /\ t.core = WithCore(r.core, c, h)
       /\ t.queue = Tail(r.queue)
       /\ on_core(t) = on_core(r) \cup {h}
  BY <1>9, <1>10 DEF GivenNext, t, h
<1>12. h \in S!Jobs(in) /\ h # -1
  <2>1. LibraryTypes(in, r)
    BY <1>6 DEF Loose
  <2>2. ToSet(r.queue) \subseteq S!Jobs(in) /\ -1 \notin S!Jobs(in)
    BY <2>1, OnCoreFacts
  <2>3. QED BY <1>11, <2>2
<1>13. h \in DOMAIN s.job
  BY <1>1, <1>6, <1>11 DEF Library, InOnePlace
<1>14. t.core = WithCore(s.core, c, h)
  BY <1>7, <1>8, <1>11 DEF WithCore, Cores
<1>15. t.queue # <<>> => Available(t) = {}
  <2>1. ASSUME Available(t) # {} PROVE t.queue = <<>>
    <3>1. PICK d \in Cores(t) : t.core[d] = -1
      BY <2>1 DEF Available
    <3>2. d \in Cores(s) /\ s.core[d] = -1
      BY <1>7, <1>12, <1>14, <3>1 DEF Cores, WithCore
    <3>3. s.queue = <<>>
      BY <3>2 DEF Library, InOnePlace, Available
    <3>4. r.queue = <<x>>
      BY <1>1, <1>6, <3>3
    <3>5. QED BY <1>11, <3>4
  <2>2. QED BY <2>1
<1>16. Library(in, t, l, now)
  BY <1>11, <1>15, LibraryFacts
<1>17. QED BY <1>1, <1>6, <1>11, <1>12, <1>13, <1>14, <1>16 DEF t, h, call, x, TakenTurns

\* A unit of time takes one from what is left of the jobs on the cores, and the
\* library will see it in the next call (simulator.c:357-374).
LEMMA UnitFacts ==
  ASSUME NEW in, Valid(in), NEW s, NEW now \in Nat, NEW l \in [S!Jobs(in) -> Nat],
         Library(in, s, l, now),
         \A x \in on_core(s) : l[x] > 0 /\ l[x] <= S!Of(in, x).run_time,
         \A x \in DOMAIN s.job : S!Of(in, x).arrival_time <= now,
         NEW m \in [S!Jobs(in) -> Nat],
         \A x \in S!Jobs(in) : m[x] = IF x \in on_core(s) THEN l[x] - 1 ELSE l[x]
  PROVE  Library(in, s, m, now + 1)
<1>1. LibraryTypes(in, s) /\ InOnePlace(s)
  BY DEF Library
<1>2. /\ ToSet(s.queue) \cap on_core(s) = {} /\ ToSet(s.queue) \cup on_core(s) = DOMAIN s.job
      /\ DOMAIN s.job \subseteq S!Jobs(in)
  BY <1>1 DEF InOnePlace, LibraryTypes
<1>3. Records(in, s, m, now + 1)
  <2>1. ASSUME NEW x \in DOMAIN s.job
        PROVE  LET j == s.job[x]
                   updated == j.last_update_time_on_core
               IN  /\ j.arrival_time = S!Of(in, x).arrival_time
                   /\ j.running_time = S!Of(in, x).run_time
                   /\ j.priority = S!Of(in, x).priority
                   /\ x \in on_core(s) => /\ updated \in 0 .. now + 1
                                          /\ m[x] = j.remaining_time - (now + 1 - updated)
                   /\ x \notin on_core(s) => updated = -1 /\ m[x] = j.remaining_time
    <3> DEFINE j == s.job[x]
               updated == j.last_update_time_on_core
    <3>1. /\ j.arrival_time = S!Of(in, x).arrival_time
          /\ j.running_time = S!Of(in, x).run_time
          /\ j.priority = S!Of(in, x).priority
          /\ x \in on_core(s) => updated \in 0 .. now /\ l[x] = j.remaining_time - (now - updated)
          /\ x \notin on_core(s) => updated = -1 /\ l[x] = j.remaining_time
      BY DEF Library, Records
    <3>2. j.remaining_time \in Nat /\ x \in S!Jobs(in)
      BY <1>1, <1>2 DEF LibraryTypes, JobRecord
    <3> DEFINE remaining == j.remaining_time
    <3>3. x \in on_core(s) => updated \in 0 .. now + 1 /\ m[x] = remaining - (now + 1 - updated)
      <4>1. ASSUME x \in on_core(s)
            PROVE  updated \in 0 .. now + 1 /\ m[x] = remaining - (now + 1 - updated)
        <5>1. updated \in 0 .. now /\ l[x] = remaining - (now - updated) /\ m[x] = l[x] - 1
              /\ remaining \in Nat
          BY <3>1, <3>2, <4>1
        <5> HIDE DEF updated, remaining
        <5>2. QED BY <5>1
      <4>2. QED BY <4>1
    <3>4. x \notin on_core(s) => updated = -1 /\ m[x] = remaining
      BY <3>1, <3>2
    <3> HIDE DEF updated
    <3>5. QED BY <3>1, <3>3, <3>4 DEF updated
  <2>2. QED BY <2>1 DEF Records
<1>4. InOrder(in, s, m, now + 1)
  <2> SUFFICES ASSUME in.scheme # "RR"
               PROVE  /\ \A i, j \in DOMAIN s.queue :
                           i < j => S!Before(in, m, s.queue[i], s.queue[j])
                      /\ \A x \in on_core(s), y \in ToSet(s.queue) : Leads(in, m, now + 1, x, y)
    BY DEF InOrder
  <2>1. in.scheme \in Schemes
    BY JobsFacts
  <2>2. ASSUME NEW x \in S!Jobs(in)
        PROVE  /\ S!Key(in, l, x) \in Int /\ S!Key(in, m, x) \in Int
               /\ S!Key(in, m, x) <= S!Key(in, l, x)
               /\ x \notin on_core(s) => S!Key(in, m, x) = S!Key(in, l, x)
    <3>1. S!Key(in, l, x) \in Int /\ S!Key(in, m, x) \in Int
      BY BeforeFacts
    <3>2. CASE in.scheme = "PSJF"
      <4>1. S!Key(in, l, x) = l[x] /\ S!Key(in, m, x) = m[x]
        BY <3>2 DEF S!Key
      <4>2. QED BY <3>1, <4>1
    <3>3. CASE in.scheme # "PSJF"
      <4>1. S!Key(in, m, x) = S!Key(in, l, x)
        BY <2>1, <3>3 DEF S!Key, Schemes
      <4>2. QED BY <3>1, <4>1
    <3>4. QED BY <3>2, <3>3
  <2>3. \A x \in S!Jobs(in) : S!Of(in, x).arrival_time \in Nat
    BY JobsFacts
  <2>4. ASSUME NEW x \in S!Jobs(in), NEW y \in S!Jobs(in), y \notin on_core(s),
               S!Before(in, l, x, y)
        PROVE  S!Before(in, m, x, y)
    <3>1. /\ S!Key(in, m, x) <= S!Key(in, l, x) /\ S!Key(in, m, y) = S!Key(in, l, y)
          /\ S!Key(in, l, x) \in Int /\ S!Key(in, m, x) \in Int /\ S!Key(in, m, y) \in Int
      BY <2>2, <2>4
    <3>2. \/ S!Key(in, l, x) < S!Key(in, l, y)
          \/ /\ S!Key(in, l, x) = S!Key(in, l, y)
             /\ S!Of(in, x).arrival_time < S!Of(in, y).arrival_time
      BY <2>4 DEF S!Before
    <3>3. \/ S!Key(in, m, x) < S!Key(in, m, y)
          \/ /\ S!Key(in, m, x) = S!Key(in, m, y)
             /\ S!Of(in, x).arrival_time < S!Of(in, y).arrival_time
      BY <3>1, <3>2
    <3>4. QED BY <3>3 DEF S!Before
  <2>5. \A i \in DOMAIN s.queue : s.queue[i] \in S!Jobs(in) /\ s.queue[i] \notin on_core(s)
    <3>1. \A i \in DOMAIN s.queue : s.queue[i] \in ToSet(s.queue)
      BY <1>1, OnCoreFacts
    <3>2. QED BY <1>2, <3>1
  <2>6. ASSUME NEW i \in DOMAIN s.queue, NEW j \in DOMAIN s.queue, i < j
        PROVE  S!Before(in, m, s.queue[i], s.queue[j])
    <3>1. S!Before(in, l, s.queue[i], s.queue[j])
      BY <2>6 DEF Library, InOrder
    <3>2. QED BY <2>4, <2>5, <3>1
  <2>7. ASSUME NEW x \in on_core(s), NEW y \in ToSet(s.queue) PROVE Leads(in, m, now + 1, x, y)
    <3>1. x \in S!Jobs(in) /\ y \in S!Jobs(in) /\ y \notin on_core(s)
      BY <1>2
    <3>2. Leads(in, l, now, x, y)
      BY DEF Library, InOrder
    <3>3. CASE in.scheme \in {"PSJF", "PPRI"}
      BY <2>4, <3>1, <3>2, <3>3 DEF Leads
    <3>4. CASE in.scheme \notin {"PSJF", "PPRI"}
      <4>1. m[y] = l[y] /\ m[x] = l[x] - 1 /\ l[x] \in Nat /\ l[x] <= S!Of(in, x).run_time
        BY <3>1
      <4>2. S!Of(in, x).run_time \in Nat
        BY <3>1, JobsFacts
      <4>3. m[x] # S!Of(in, x).run_time
        BY <4>1, <4>2
      <4>4. QED BY <3>2, <3>4, <4>1, <4>3 DEF Leads
    <3>5. QED BY <3>3, <3>4
  <2>8. QED BY <2>6, <2>7
<1>5. QED BY <1>1, <1>3, <1>4 DEF Library

-----------------------------------------------------------------------------
(* The array of the simulator.                                             *)

Once(array) == \A i, j \in DOMAIN array : array[i].job_id = array[j].job_id => i = j

\* What is left of the jobs is what the array says, and nothing of the others.
LEMMA LeftFacts ==
  ASSUME NEW in, NEW array \in Seq(SimJob), Once(array)
  PROVE  /\ LeftOf(in, array) \in [S!Jobs(in) -> Nat]
         /\ \A i \in DOMAIN array : array[i].job_id \in S!Jobs(in) =>
              LeftOf(in, array)[array[i].job_id] = array[i].run_time
         /\ \A x \in S!Jobs(in) : (\A i \in DOMAIN array : array[i].job_id # x) =>
              LeftOf(in, array)[x] = 0
<1> DEFINE there(x) == {i \in DOMAIN array : array[i].job_id = x}
           l(x) == IF there(x) = {} THEN 0 ELSE array[CHOOSE i \in there(x) : TRUE].run_time
<1>1. LeftOf(in, array) = [x \in S!Jobs(in) |-> l(x)]
  BY DEF LeftOf, S!Jobs
<1>2. \A i \in DOMAIN array : array[i].run_time \in Nat
  <2>1. \A i \in DOMAIN array : array[i] \in SimJob
    <3> HIDE DEF SimJob
    <3>1. QED OBVIOUS
  <2>2. QED BY <2>1 DEF SimJob
<1>3. ASSUME NEW i \in DOMAIN array PROVE l(array[i].job_id) = array[i].run_time
  <2>1. there(array[i].job_id) = {i}
    BY DEF Once
  <2> HIDE DEF there
  <2>2. QED BY <2>1
<1>4. ASSUME NEW x, \A i \in DOMAIN array : array[i].job_id # x PROVE l(x) = 0
  <2>1. there(x) = {}
    BY <1>4
  <2>2. QED BY <2>1
<1>5. ASSUME NEW x PROVE l(x) \in Nat
  <2>1. CASE there(x) = {}
    BY <2>1
  <2>2. CASE there(x) # {}
    <3>1. PICK i \in there(x) : TRUE
      BY <2>2
    <3>2. i \in DOMAIN array /\ array[i].job_id = x
      OBVIOUS
    <3> HIDE DEF l
    <3>3. QED BY <1>2, <1>3, <3>2
  <2>3. QED BY <2>1, <2>2
<1> HIDE DEF l
<1>6. QED BY <1>1, <1>3, <1>4, <1>5

\* The array without the job at place i.
Dropped(array, i) == SubSeq([array EXCEPT ![i] = array[Len(array)]], 1, Len(array) - 1)

LEMMA DropFacts ==
  ASSUME NEW T, NEW array \in Seq(T), NEW i \in DOMAIN array
  PROVE  LET d == Dropped(array, i)
         IN  /\ d \in Seq(T)
             /\ \A k \in DOMAIN d : \E m \in DOMAIN array \ {i} : d[k] = array[m]
             /\ \A m \in DOMAIN array \ {i} : \E k \in DOMAIN d : d[k] = array[m]
             /\ (\A k, m \in DOMAIN array : array[k] = array[m] => k = m)
                  => \A k, m \in DOMAIN d : d[k] = d[m] => k = m
<1> DEFINE n == Len(array)
           a == [array EXCEPT ![i] = array[n]]
           d == SubSeq(a, 1, n - 1)
           from(k) == IF k = i THEN n ELSE k
<1>1. n \in Nat /\ DOMAIN array = 1 .. n /\ i \in 1 .. n
  OBVIOUS
<1>2. \A k \in 1 .. n : array[k] \in T
  BY <1>1
<1>3. a \in Seq(T) /\ Len(a) = n /\ \A k \in 1 .. n : a[k] = IF k = i THEN array[n] ELSE array[k]
  <2>1. a \in [1 .. n -> T] /\ \A k \in 1 .. n : a[k] = IF k = i THEN array[n] ELSE array[k]
    BY <1>1, <1>2
  <2> HIDE DEF a, n
  <2>2. QED BY <1>1, <2>1
<1> HIDE DEF a
<1>4. /\ d \in Seq(T) /\ DOMAIN d = 1 .. n - 1
      /\ \A k \in 1 .. n - 1 : d[k] = a[k]
  <2> HIDE DEF n
  <2>1. /\ d \in Seq(T) /\ Len(d) = n - 1
        /\ \A k \in 1 .. n - 1 : d[k] = a[1 + k - 1]
    BY <1>1, <1>3, SubSeqProperties
  <2> HIDE DEF d
  <2>2. \A k \in 1 .. n - 1 : 1 + k - 1 = k
    BY <1>1
  <2>3. QED BY <1>1, <2>1, <2>2
<1> HIDE DEF d, n
<1>5. ASSUME NEW k \in 1 .. n - 1
      PROVE  from(k) \in (1 .. n) \ {i} /\ d[k] = array[from(k)]
  BY <1>1, <1>3, <1>4
<1>6. ASSUME NEW m \in (1 .. n) \ {i} PROVE \E k \in 1 .. n - 1 : from(k) = m
  <2>1. CASE m = n
    BY <1>1, <2>1
  <2>2. CASE m # n
    BY <1>1, <2>2
  <2>3. QED BY <2>1, <2>2
<1>7. ASSUME NEW k \in 1 .. n - 1, NEW m \in 1 .. n - 1, from(k) = from(m) PROVE k = m
  BY <1>1, <1>7
<1> HIDE DEF from
<1>8. \A k \in DOMAIN d : \E m \in DOMAIN array \ {i} : d[k] = array[m]
  BY <1>1, <1>4, <1>5
<1>9. \A m \in DOMAIN array \ {i} : \E k \in DOMAIN d : d[k] = array[m]
  BY <1>1, <1>4, <1>5, <1>6
<1>10. ASSUME \A k, m \in DOMAIN array : array[k] = array[m] => k = m,
              NEW k \in DOMAIN d, NEW m \in DOMAIN d, d[k] = d[m]
       PROVE  k = m
  <2>1. from(k) = from(m)
    BY <1>1, <1>4, <1>5, <1>10
  <2>2. QED BY <1>4, <1>7, <2>1
<1>11. QED BY <1>4, <1>8, <1>9, <1>10 DEF d, a, n, Dropped

-----------------------------------------------------------------------------
(* The simulator's steps.                                                  *)

\* What the invariant says of the jobs and where they are.
LEMMA PlaceFacts ==
  ASSUME Inv
  PROVE  /\ Valid(input) /\ time \in Nat /\ Once(jobs)
         /\ Left \in [S!Jobs(input) -> Nat]
         /\ Cores(sched) = CoreIds /\ CoreIds \subseteq Nat
         /\ DOMAIN sched.job \subseteq S!Jobs(input)
         /\ ToSet(sched.queue) \cap on_core(sched) = {}
         /\ ToSet(sched.queue) \cup on_core(sched) = DOMAIN sched.job
         /\ sched.core \in [CoreIds -> S!Jobs(input) \cup {-1}]
         /\ \A k \in DOMAIN jobs :
              /\ jobs[k] \in SimJob /\ jobs[k].job_id \in S!Jobs(input)
              /\ Left[jobs[k].job_id] = jobs[k].run_time
              /\ jobs[k].core_id \in CoreIds \cup {-1}
              /\ jobs[k].arrived <=> jobs[k].job_id \in DOMAIN sched.job
              /\ jobs[k].core_id # -1 =>
                   /\ sched.core[jobs[k].core_id] = jobs[k].job_id
                   /\ jobs[k].job_id \in on_core(sched)
              /\ jobs[k].core_id = -1 => jobs[k].job_id \notin on_core(sched)
         /\ \A c \in CoreIds : sched.core[c] # -1 =>
              \E k \in DOMAIN jobs : jobs[k].job_id = sched.core[c] /\ jobs[k].core_id = c
         /\ \A x \in DOMAIN sched.job : \E k \in DOMAIN jobs : jobs[k].job_id = x /\ jobs[k].arrived
         /\ \A x \in DOMAIN sched.job : S!Of(input, x).arrival_time <= time
         /\ phase # "arrive" => \A x \in DOMAIN sched.job : S!Of(input, x).arrival_time < time
<1>1. Valid(input) /\ time \in Nat /\ Once(jobs) /\ jobs \in Seq(SimJob)
  BY DEF Inv, TypeOK, JobsAgree, Once
<1>2. LibraryTypes(input, sched) /\ InOnePlace(sched)
  BY DEF Inv, Library
<1>3. /\ Cores(sched) = CoreIds
      /\ \A x : x \in on_core(sched) <=> x # -1 /\ \E c \in CoreIds : sched.core[c] = x
      /\ on_core(sched) \subseteq S!Jobs(input) /\ -1 \notin S!Jobs(input)
  BY <1>1, <1>2, OnCoreFacts DEF CoreIds
<1>4. CoreIds \subseteq Nat /\ -1 \notin CoreIds
  BY DEF CoreIds
<1>5. /\ DOMAIN sched.job \subseteq S!Jobs(input)
      /\ ToSet(sched.queue) \cap on_core(sched) = {}
      /\ ToSet(sched.queue) \cup on_core(sched) = DOMAIN sched.job
      /\ sched.core \in [CoreIds -> S!Jobs(input) \cup {-1}]
  BY <1>2 DEF LibraryTypes, InOnePlace, CoreIds
<1>6. \A k \in DOMAIN jobs : jobs[k] \in SimJob
  <2> HIDE DEF SimJob
  <2>1. QED BY <1>1
<1>7. ASSUME NEW k \in DOMAIN jobs
      PROVE  /\ jobs[k].job_id \in S!Jobs(input)
             /\ jobs[k].core_id \in CoreIds \cup {-1}
             /\ \A c \in CoreIds : sched.core[c] = jobs[k].job_id <=> jobs[k].core_id = c
             /\ jobs[k].arrival_time = S!Of(input, jobs[k].job_id).arrival_time
             /\ jobs[k].arrived =>
                  \/ jobs[k].arrival_time < time
                  \/ jobs[k].arrival_time = time /\ phase = "arrive"
  BY DEF Inv, JobsAgree
<1>8. Left \in [S!Jobs(input) -> Nat] /\ \A k \in DOMAIN jobs : Left[jobs[k].job_id] = jobs[k].run_time
  BY <1>1, <1>7, LeftFacts DEF Left
<1>9. DOMAIN sched.job = {jobs[k].job_id : k \in {m \in DOMAIN jobs : jobs[m].arrived}}
  BY DEF Inv, JobsAgree, arrived
<1>10. ASSUME NEW k \in DOMAIN jobs
       PROVE  jobs[k].arrived <=> jobs[k].job_id \in DOMAIN sched.job
  BY <1>1, <1>9 DEF Once
<1>11. ASSUME NEW k \in DOMAIN jobs, jobs[k].core_id # -1
       PROVE  /\ sched.core[jobs[k].core_id] = jobs[k].job_id
              /\ jobs[k].job_id \in on_core(sched)
  <2>1. jobs[k].core_id \in CoreIds
    BY <1>7, <1>11
  <2>2. sched.core[jobs[k].core_id] = jobs[k].job_id
    BY <1>7, <2>1
  <2>3. jobs[k].job_id # -1
    BY <1>3, <1>7
  <2>4. QED BY <1>3, <2>1, <2>2, <2>3
<1>12. ASSUME NEW k \in DOMAIN jobs, jobs[k].core_id = -1
       PROVE  jobs[k].job_id \notin on_core(sched)
  BY <1>3, <1>4, <1>7, <1>12
<1>13. ASSUME NEW x \in DOMAIN sched.job
       PROVE  \E k \in DOMAIN jobs : jobs[k].job_id = x /\ jobs[k].arrived
  BY <1>9
<1>14. ASSUME NEW c \in CoreIds, sched.core[c] # -1
       PROVE  \E k \in DOMAIN jobs : jobs[k].job_id = sched.core[c] /\ jobs[k].core_id = c
  <2>1. sched.core[c] \in DOMAIN sched.job
    BY <1>3, <1>5, <1>14
  <2>2. PICK k \in DOMAIN jobs : jobs[k].job_id = sched.core[c]
    BY <1>13, <2>1
  <2>3. QED BY <1>7, <2>2
<1>15. ASSUME NEW x \in DOMAIN sched.job
       PROVE  /\ S!Of(input, x).arrival_time <= time
              /\ phase # "arrive" => S!Of(input, x).arrival_time < time
  <2>1. PICK k \in DOMAIN jobs : jobs[k].job_id = x /\ jobs[k].arrived
    BY <1>13
  <2>2. jobs[k].arrival_time \in Nat
    BY <1>6 DEF SimJob
  <2>3. QED BY <1>1, <1>7, <2>1, <2>2
<1>16. QED BY <1>1, <1>3, <1>4, <1>5, <1>6, <1>7, <1>8, <1>10, <1>11, <1>12, <1>13, <1>14, <1>15

\* A run begins in the invariant.
LEMMA InitInv == Init => Inv
<1> SUFFICES ASSUME Init PROVE Inv
  OBVIOUS
<1>1. Valid(input)
  BY InputsAssumption DEF Init
<1>2. /\ input.cores \in Nat \ {0} /\ input.scheme \in Schemes
      /\ \A i \in DOMAIN input.file : S!Of(input, input.file[i].job_id) = input.file[i]
  BY <1>1, JobsFacts
<1> DEFINE F == [job_id : Nat, arrival_time : Nat, run_time : Nat \ {0}, priority : Int]
           n == Len(input.file)
<1>3. /\ input.file \in Seq(F) /\ n \in Nat /\ DOMAIN input.file = 1 .. n
      /\ \A i \in DOMAIN input.file : input.file[i] \in F
  <2> HIDE DEF F
  <2>1. input.file \in Seq(F)
    BY <1>1 DEF Valid, Input, F
  <2>2. QED BY <2>1
<1>4. /\ DOMAIN jobs = DOMAIN input.file
      /\ \A i \in DOMAIN input.file :
           /\ jobs[i].job_id = input.file[i].job_id
           /\ jobs[i].arrival_time = input.file[i].arrival_time
           /\ jobs[i].run_time = input.file[i].run_time
           /\ jobs[i].priority = input.file[i].priority
           /\ jobs[i].core_id = -1 /\ jobs[i].arrived = FALSE
           /\ jobs[i] \in SimJob
  BY <1>3, SMTT(30) DEF Init, SimJob
<1>5. jobs \in Seq(SimJob)
  <2>1. jobs = [i \in 1 .. n |-> jobs[i]]
    BY <1>3 DEF Init
  <2>2. n \in Nat /\ \A i \in 1 .. n : jobs[i] \in SimJob
    BY <1>3, <1>4
  <2> HIDE DEF n
  <2>3. jobs \in [1 .. n -> SimJob]
    BY <2>1, <2>2
  <2>4. QED BY <2>2, <2>3
<1>6. TypeOK
  BY <1>1, <1>5 DEF Init, TypeOK
<1>7. /\ DOMAIN sched = {"schema", "core", "queue", "job", "wait", "turnaround", "response", "failed"}
      /\ sched.schema = input.scheme /\ sched.core = [c \in CoreIds |-> -1]
      /\ sched.queue = <<>> /\ sched.job = <<>> /\ sched.failed = FALSE
  BY DEF Init, scheduler_start_up, CoreIds
<1>8. DOMAIN sched.job = {} /\ DOMAIN sched.queue = {} /\ ToSet(sched.queue) = {}
  BY <1>7 DEF ToSet
<1>9. on_core(sched) = {} /\ Cores(sched) = CoreIds
  BY <1>7 DEF on_core, Cores
<1>10. NoError
  BY <1>7 DEF Init, NoError
<1>11. JobsAgree
  <2>1. \A i, j \in DOMAIN jobs : jobs[i].job_id = jobs[j].job_id => i = j
    BY <1>1, <1>4 DEF Valid
  <2>2. arrived = {}
    BY <1>4 DEF arrived
  <2>3. ASSUME NEW i \in DOMAIN jobs
        PROVE  LET j == jobs[i]
                   f == S!Of(input, j.job_id)
               IN  /\ j.job_id \in S!Jobs(input)
                   /\ j.arrival_time = f.arrival_time /\ j.priority = f.priority
                   /\ j.run_time <= f.run_time
                   /\ j.arrived => j.arrival_time < time \/ (j.arrival_time = time /\ phase = "arrive")
                   /\ ~ j.arrived => j.arrival_time >= time /\ j.run_time = f.run_time
                   /\ j.run_time = 0 => phase = "finished" /\ j.core_id # -1
                   /\ j.core_id \in CoreIds \cup {-1}
                   /\ \A c \in CoreIds : sched.core[c] = j.job_id <=> j.core_id = c
    <3> DEFINE f == input.file[i]
    <3>1. i \in DOMAIN input.file /\ S!Of(input, jobs[i].job_id) = f
      BY <1>2, <1>4
    <3>2. /\ jobs[i].job_id = f.job_id
          /\ jobs[i].arrival_time = f.arrival_time
          /\ jobs[i].run_time = f.run_time
          /\ jobs[i].priority = f.priority
          /\ jobs[i].core_id = -1 /\ jobs[i].arrived = FALSE
      BY <1>4, <3>1
    <3>3. f \in F
      BY <1>3, <3>1
    <3> HIDE DEF f
    <3>4. f.job_id \in Nat /\ f.arrival_time \in Nat /\ f.run_time \in Nat \ {0}
      BY <3>3
    <3>5. jobs[i].job_id \in S!Jobs(input)
      BY <3>1, <3>2 DEF S!Jobs, f
    <3>6. time = 0
      BY DEF Init
    <3>7. \A c \in CoreIds : sched.core[c] = -1 /\ c # -1
      BY <1>7 DEF CoreIds
    <3>8. f.run_time <= f.run_time /\ f.arrival_time >= 0 /\ f.run_time # 0 /\ f.job_id # -1
      BY <3>4
    <3>9. QED BY <3>1, <3>2, <3>5, <3>6, <3>7, <3>8
  <2>4. QED BY <1>8, <2>1, <2>2, <2>3 DEF JobsAgree
<1>12. ClocksAgree
  BY <1>7 DEF ClocksAgree
<1>13. Library(input, sched, Left, time)
  <2>1. LibraryTypes(input, sched)
    <3>1. sched.core \in [0 .. input.cores - 1 -> S!Jobs(input) \cup {-1}]
      BY <1>7 DEF CoreIds
    <3>2. sched.job \in [DOMAIN sched.job -> JobRecord]
      BY <1>7
    <3>3. sched.queue \in Seq(S!Jobs(input))
      BY <1>7
    <3>4. QED BY <1>7, <1>8, <3>1, <3>2, <3>3 DEF LibraryTypes
  <2>2. InOnePlace(sched)
    BY <1>7, <1>8, <1>9 DEF InOnePlace
  <2>3. Records(input, sched, Left, time)
    BY <1>8 DEF Records
  <2>4. InOrder(input, sched, Left, time)
    BY <1>8, <1>9 DEF InOrder
  <2>5. QED BY <2>1, <2>2, <2>3, <2>4 DEF Library
<1>14. QED BY <1>6, <1>10, <1>11, <1>12, <1>13 DEF Inv

\* set_active_job changes the core of the job with the number, if one has it.
LEMMA SetFacts ==
  ASSUME NEW a \in Seq(SimJob), NEW id, NEW c \in Int
  PROVE  LET b == set_active_job(a, id, c)
         IN  /\ b \in Seq(SimJob) /\ DOMAIN b = DOMAIN a
             /\ \A k \in DOMAIN a :
                  /\ b[k].job_id = a[k].job_id /\ b[k].arrival_time = a[k].arrival_time
                  /\ b[k].run_time = a[k].run_time /\ b[k].priority = a[k].priority
                  /\ b[k].arrived = a[k].arrived
                  /\ b[k].core_id = IF a[k].job_id = id THEN c ELSE a[k].core_id
<1> DEFINE n == Len(a)
           b == set_active_job(a, id, c)
<1>1. n \in Nat /\ DOMAIN a = 1 .. n
  OBVIOUS
<1>2. \A k \in 1 .. n : a[k] \in SimJob
  <2> HIDE DEF SimJob
  <2>1. QED BY <1>1
<1>3. b = [k \in 1 .. n |-> IF a[k].job_id = id THEN [a[k] EXCEPT !.core_id = c] ELSE a[k]]
  BY <1>1 DEF set_active_job
<1> HIDE DEF n, b
<1>4. ASSUME NEW k \in 1 .. n
      PROVE  /\ b[k] \in SimJob
             /\ b[k].job_id = a[k].job_id /\ b[k].arrival_time = a[k].arrival_time
             /\ b[k].run_time = a[k].run_time /\ b[k].priority = a[k].priority
             /\ b[k].arrived = a[k].arrived
             /\ b[k].core_id = IF a[k].job_id = id THEN c ELSE a[k].core_id
  <2>1. a[k] \in SimJob
    BY <1>2
  <2>2. CASE a[k].job_id = id
    <3>1. b[k] = [a[k] EXCEPT !.core_id = c]
      BY <1>3, <2>2
    <3>2. QED BY <2>1, <2>2, <3>1 DEF SimJob
  <2>3. CASE a[k].job_id # id
    <3>1. b[k] = a[k]
      BY <1>3, <2>3
    <3>2. QED BY <2>1, <2>3, <3>1
  <2>4. QED BY <2>2, <2>3
<1>5. b \in Seq(SimJob) /\ DOMAIN b = 1 .. n
  <2>1. b \in [1 .. n -> SimJob]
    BY <1>3, <1>4
  <2> HIDE DEF SimJob
  <2>2. QED BY <1>1, <2>1
<1>6. QED BY <1>1, <1>4, <1>5 DEF b

\* What a job of the simulator's array must be, if the cores hold K.
JobAgrees(j, K, now, ph) ==
  LET f == S!Of(input, j.job_id)
  IN  /\ j.job_id \in S!Jobs(input)
      /\ j.arrival_time = f.arrival_time /\ j.priority = f.priority
      /\ j.run_time <= f.run_time
      /\ j.arrived => j.arrival_time < now \/ (j.arrival_time = now /\ ph = "arrive")
      /\ ~ j.arrived => j.arrival_time >= now /\ j.run_time = f.run_time
      /\ j.run_time = 0 => ph = "finished" /\ j.core_id # -1
      /\ j.core_id \in CoreIds \cup {-1}
      /\ \A c \in CoreIds : K[c] = j.job_id <=> j.core_id = c

\* A job that has finished leaves both sides, and its core goes to the first of
\* the queue on both.  Nothing changes in what is left of the jobs.
LEMMA JobFinishedStep ==
  ASSUME Inv, JobFinished
  PROVE  /\ Inv' /\ Left' = Left
         /\ \/ sched.queue = <<>> /\ sched'.queue = <<>>
            \/ /\ sched.queue # <<>> /\ sched'.queue = Tail(sched.queue)
               /\ Head(sched.queue) \in on_core(sched')
<1> DEFINE i == Min(Finished)
           c == jobs[i].core_id
           x == jobs[i].job_id
           call == scheduler_job_finished(sched, c, x, time)
           id == call.result
           d == Dropped(jobs, i)
<1>1. /\ Valid(input) /\ time \in Nat /\ Once(jobs)
      /\ Left \in [S!Jobs(input) -> Nat]
      /\ Cores(sched) = CoreIds /\ CoreIds \subseteq Nat
      /\ DOMAIN sched.job \subseteq S!Jobs(input)
      /\ ToSet(sched.queue) \cap on_core(sched) = {}
      /\ ToSet(sched.queue) \cup on_core(sched) = DOMAIN sched.job
      /\ sched.core \in [CoreIds -> S!Jobs(input) \cup {-1}]
  BY PlaceFacts
<1>2. \A k \in DOMAIN jobs :
        /\ jobs[k] \in SimJob /\ jobs[k].job_id \in S!Jobs(input)
        /\ Left[jobs[k].job_id] = jobs[k].run_time
        /\ jobs[k].arrived <=> jobs[k].job_id \in DOMAIN sched.job
        /\ jobs[k].core_id # -1 => /\ sched.core[jobs[k].core_id] = jobs[k].job_id
                                   /\ jobs[k].job_id \in on_core(sched)
        /\ jobs[k].core_id = -1 => jobs[k].job_id \notin on_core(sched)
        /\ JobAgrees(jobs[k], sched.core, time, phase)
  <2>1. \A k \in DOMAIN jobs : JobAgrees(jobs[k], sched.core, time, phase)
    BY DEF Inv, JobsAgree, JobAgrees
  <2>2. QED BY <2>1, PlaceFacts
<1>3. /\ phase = "finished" /\ Finished # {}
      /\ sched' = call.s
      /\ quantum_clock' = IF input.scheme = "RR" THEN [quantum_clock EXCEPT ![c] = input.quantum]
                                                 ELSE quantum_clock
      /\ Named(call, c, d)
      /\ input' = input /\ time' = time
  BY DEF JobFinished, Dropped
<1>4. jobs \in Seq(SimJob) /\ i \in DOMAIN jobs /\ jobs[i].run_time = 0
  <2>1. jobs \in Seq(SimJob)
    BY DEF Inv, TypeOK
  <2>2. Finished \in SUBSET Nat /\ Finished \subseteq DOMAIN jobs
    <3> HIDE DEF SimJob
    <3>1. DOMAIN jobs \subseteq Nat
      BY <2>1
    <3>2. QED BY <3>1 DEF Finished
  <2>3. i \in Finished
    BY <1>3, <2>2, MinFacts
  <2>4. QED BY <2>1, <2>2, <2>3 DEF Finished
<1> HIDE DEF i
<1>5. c \in CoreIds /\ sched.core[c] = x /\ x # -1 /\ x \in on_core(sched) /\ x \in S!Jobs(input)
  <2>1. c # -1 /\ c \in CoreIds \cup {-1}
    BY <1>2, <1>4 DEF JobAgrees
  <2>2. x \in on_core(sched) /\ sched.core[c] = x /\ x \in S!Jobs(input)
    BY <1>2, <1>4, <2>1
  <2>3. QED BY <2>1, <2>2 DEF on_core
<1>6. Library(input, sched, Left, time)
  BY DEF Inv
<1>7. \A y \in DOMAIN sched.job : S!Of(input, y).arrival_time < time
  BY <1>3, PlaceFacts
<1>8. Replaced(input, sched, Left, time, c, call)
  BY <1>1, <1>5, <1>6, <1>7, JobFinishedFacts
<1> HIDE DEF call, id, x, c, d
<1>9. /\ Library(input, sched', Left, time)
      /\ DOMAIN sched'.job = DOMAIN sched.job \ {x}
      /\ sched'.core = WithCore(sched.core, c, id)
      /\ sched.queue = <<>> => sched'.queue = <<>> /\ id = -1
      /\ sched.queue # <<>> => /\ sched'.queue = Tail(sched.queue) /\ id = Head(sched.queue)
                               /\ id \in ToSet(sched.queue)
                               /\ id \in on_core(sched')
  BY <1>3, <1>5, <1>8 DEF Replaced, id
<1>10. /\ id # x
       /\ id # -1 => id \in DOMAIN sched.job /\ \A e \in CoreIds : sched.core[e] # id
  <2>1. id # -1 => id \in ToSet(sched.queue)
    BY <1>9
  <2>2. \A e \in CoreIds : sched.core[e] # -1 => sched.core[e] \in on_core(sched)
    BY <1>1 DEF on_core
  <2>3. QED BY <1>1, <1>5, <2>1, <2>2
<1>11. /\ d \in Seq(SimJob) /\ Once(d)
       /\ \A k \in DOMAIN d : \E m \in DOMAIN jobs \ {i} : d[k] = jobs[m]
       /\ \A m \in DOMAIN jobs \ {i} : \E k \in DOMAIN d : d[k] = jobs[m]
  <2>1. \A k, m \in DOMAIN jobs : jobs[k] = jobs[m] => k = m
    BY <1>1 DEF Once
  <2>2. /\ d \in Seq(SimJob)
        /\ \A k \in DOMAIN d : \E m \in DOMAIN jobs \ {i} : d[k] = jobs[m]
        /\ \A m \in DOMAIN jobs \ {i} : \E k \in DOMAIN d : d[k] = jobs[m]
        /\ \A k, m \in DOMAIN d : d[k] = d[m] => k = m
    BY <1>4, <2>1, DropFacts DEF d
  <2>3. QED BY <1>1, <2>2 DEF Once
<1>12. jobs' = set_active_job(d, id, c) /\ phase' = phase
  <2>1. ASSUME id # -1 PROVE CanSet(d, id)
    <3>1. PICK k \in DOMAIN jobs : jobs[k].job_id = id /\ jobs[k].arrived
      BY <1>10, <2>1, PlaceFacts
    <3>2. k \in DOMAIN jobs \ {i}
      BY <1>10, <3>1 DEF x
    <3>3. QED BY <1>11, <3>1, <3>2 DEF CanSet
  <2>2. QED BY <1>3, <2>1 DEF Named, id
<1>13. /\ jobs' \in Seq(SimJob) /\ DOMAIN jobs' = DOMAIN d
       /\ \A k \in DOMAIN d :
            /\ jobs'[k].job_id = d[k].job_id /\ jobs'[k].arrival_time = d[k].arrival_time
            /\ jobs'[k].run_time = d[k].run_time /\ jobs'[k].priority = d[k].priority
            /\ jobs'[k].arrived = d[k].arrived
            /\ jobs'[k].core_id = IF d[k].job_id = id THEN c ELSE d[k].core_id
  <2>1. c \in Int
    BY <1>1, <1>5
  <2>2. QED BY <1>11, <1>12, <2>1, SetFacts
<1>14. ASSUME NEW k \in DOMAIN jobs'
       PROVE  \E m \in DOMAIN jobs \ {i} :
                /\ jobs'[k].job_id = jobs[m].job_id /\ jobs'[k].arrival_time = jobs[m].arrival_time
                /\ jobs'[k].run_time = jobs[m].run_time /\ jobs'[k].priority = jobs[m].priority
                /\ jobs'[k].arrived = jobs[m].arrived
                /\ jobs'[k].core_id = IF jobs[m].job_id = id THEN c ELSE jobs[m].core_id
  BY <1>11, <1>13
<1>15. ASSUME NEW m \in DOMAIN jobs \ {i}
       PROVE  \E k \in DOMAIN jobs' :
                /\ jobs'[k].job_id = jobs[m].job_id /\ jobs'[k].run_time = jobs[m].run_time
                /\ jobs'[k].arrived = jobs[m].arrived
  BY <1>11, <1>13
<1>16. \A e \in CoreIds : sched'.core[e] = IF e = c THEN id ELSE sched.core[e]
  BY <1>1, <1>9 DEF WithCore
<1>17. ASSUME NEW k \in DOMAIN jobs' PROVE JobAgrees(jobs'[k], sched'.core, time, phase)
  <2>1. PICK m \in DOMAIN jobs \ {i} :
          /\ jobs'[k].job_id = jobs[m].job_id /\ jobs'[k].arrival_time = jobs[m].arrival_time
          /\ jobs'[k].run_time = jobs[m].run_time /\ jobs'[k].priority = jobs[m].priority
          /\ jobs'[k].arrived = jobs[m].arrived
          /\ jobs'[k].core_id = IF jobs[m].job_id = id THEN c ELSE jobs[m].core_id
    BY <1>14
  <2>2. JobAgrees(jobs[m], sched.core, time, phase)
    BY <1>2
  <2>3. jobs[m].job_id # x /\ jobs[m].core_id # c
    <3>1. jobs[m].job_id # x
      BY <1>1, <1>4 DEF Once, x
    <3>2. QED BY <1>5, <2>2, <3>1 DEF JobAgrees
  <2>4. \A e \in CoreIds : sched'.core[e] = jobs'[k].job_id <=> jobs'[k].core_id = e
    <3>1. CASE jobs[m].job_id = id
      <4>1. jobs'[k].core_id = c /\ jobs'[k].job_id = id
        BY <2>1, <3>1
      <4>2. id # -1
        BY <1>2, <1>6, <3>1, OnCoreFacts, <1>1 DEF Library
      <4>3. QED BY <1>10, <1>16, <4>1, <4>2
    <3>2. CASE jobs[m].job_id # id
      <4>1. jobs'[k].core_id = jobs[m].core_id /\ jobs'[k].job_id = jobs[m].job_id
        BY <2>1, <3>2
      <4>2. \A e \in CoreIds : sched.core[e] = jobs[m].job_id <=> jobs[m].core_id = e
        BY <2>2 DEF JobAgrees
      <4>3. QED BY <1>16, <2>3, <3>2, <4>1, <4>2
    <3>3. QED BY <3>1, <3>2
  <2>5. jobs'[k].core_id \in CoreIds \cup {-1}
    BY <1>5, <2>1, <2>2 DEF JobAgrees
  <2>6. jobs'[k].run_time = 0 => phase = "finished" /\ jobs'[k].core_id # -1
    <3>1. c # -1
      BY <1>1, <1>5
    <3>2. QED BY <2>1, <2>2, <3>1 DEF JobAgrees
  <2>7. QED BY <2>1, <2>2, <2>4, <2>5, <2>6 DEF JobAgrees
<1>18. Once(jobs')
  BY <1>11, <1>13 DEF Once
<1>19. CoreIds' = CoreIds
  BY <1>3 DEF CoreIds
<1>20. arrived' = DOMAIN sched'.job
  <2>1. DOMAIN sched.job = arrived
    BY DEF Inv, JobsAgree
  <2>2. ASSUME NEW y \in arrived' PROVE y \in DOMAIN sched'.job
    <3>1. PICK k \in DOMAIN jobs' : jobs'[k].arrived /\ y = jobs'[k].job_id
      BY <2>2 DEF arrived
    <3>2. PICK m \in DOMAIN jobs \ {i} : y = jobs[m].job_id /\ jobs[m].arrived
      BY <1>14, <3>1
    <3>3. y # x
      BY <1>1, <1>4, <3>2 DEF Once, x
    <3>4. QED BY <1>2, <1>9, <3>2, <3>3
  <2>3. ASSUME NEW y \in DOMAIN sched'.job PROVE y \in arrived'
    <3>1. PICK m \in DOMAIN jobs : jobs[m].job_id = y /\ jobs[m].arrived
      BY <1>9, <2>3, PlaceFacts
    <3>2. m # i
      BY <1>9, <2>3, <3>1 DEF x
    <3>3. PICK k \in DOMAIN jobs' : jobs'[k].job_id = y /\ jobs'[k].arrived
      BY <1>15, <3>1, <3>2
    <3>4. QED BY <3>3 DEF arrived
  <2>4. QED BY <2>2, <2>3
<1>21. JobsAgree'
  <2>1. \A k \in DOMAIN jobs' : JobAgrees(jobs'[k], sched'.core, time', phase')
    BY <1>3, <1>12, <1>17
  <2>2. \A k, m \in DOMAIN jobs' : jobs'[k].job_id = jobs'[m].job_id => k = m
    BY <1>18 DEF Once
  <2>3. QED BY <1>3, <1>19, <1>20, <2>1, <2>2 DEF JobsAgree, JobAgrees
<1>22. Left' = Left
  <2>1. Left' = LeftOf(input, jobs')
    BY <1>3 DEF Left
  <2> DEFINE m == LeftOf(input, jobs')
  <2>2. \A k \in DOMAIN jobs' : jobs'[k].job_id \in S!Jobs(input)
    BY <1>17 DEF JobAgrees
  <2>3. /\ m \in [S!Jobs(input) -> Nat]
        /\ \A k \in DOMAIN jobs' : m[jobs'[k].job_id] = jobs'[k].run_time
        /\ \A y \in S!Jobs(input) : (\A k \in DOMAIN jobs' : jobs'[k].job_id # y) => m[y] = 0
    BY <1>13, <1>18, <2>2, LeftFacts
  <2>4. \A y \in S!Jobs(input) : (\A k \in DOMAIN jobs : jobs[k].job_id # y) => Left[y] = 0
    BY <1>1, <1>4, LeftFacts DEF Left
  <2> HIDE DEF m
  <2>5. ASSUME NEW y \in S!Jobs(input) PROVE m[y] = Left[y]
    <3>1. CASE \E k \in DOMAIN jobs' : jobs'[k].job_id = y
      BY <1>2, <1>14, <2>3, <3>1
    <3>2. CASE \A k \in DOMAIN jobs' : jobs'[k].job_id # y
      <4>1. m[y] = 0
        BY <2>3, <3>2
      <4>2. \A k \in DOMAIN jobs \ {i} : jobs[k].job_id # y
        BY <1>15, <3>2
      <4>3. CASE y = x
        BY <1>2, <1>4, <4>1, <4>3 DEF x
      <4>4. CASE y # x
        <5>1. \A k \in DOMAIN jobs : jobs[k].job_id # y
          BY <4>2, <4>4 DEF x
        <5>2. QED BY <2>4, <4>1, <5>1
      <4>5. QED BY <4>3, <4>4
    <3>3. QED BY <3>1, <3>2
  <2>6. m = Left
    BY <1>1, <2>3, <2>5
  <2>7. QED BY <2>1, <2>6 DEF m
<1>23. TypeOK'
  <2>1. quantum_clock' \in [CoreIds -> Int]
    <3>1. quantum_clock \in [CoreIds -> Int] /\ input.quantum \in Int
      BY <1>1, JobsFacts DEF Inv, TypeOK
    <3>2. QED BY <1>3, <3>1
  <2>2. QED BY <1>1, <1>3, <1>12, <1>13, <1>19, <2>1 DEF TypeOK
<1>24. ClocksAgree'
  <2> SUFFICES ASSUME input.scheme = "RR", NEW e \in CoreIds, sched'.core[e] # -1
               PROVE  quantum_clock'[e] \in 0 .. input.quantum
    BY <1>3, <1>12, <1>19 DEF ClocksAgree
  <2>1. quantum_clock \in [CoreIds -> Int] /\ input.quantum \in Nat
    BY <1>1, JobsFacts DEF Inv, TypeOK
  <2>2. quantum_clock' = [quantum_clock EXCEPT ![c] = input.quantum]
    BY <1>3
  <2>3. CASE e = c
    BY <2>1, <2>2, <2>3
  <2>4. CASE e # c
    <3>1. sched.core[e] # -1
      BY <1>16, <2>4
    <3>2. quantum_clock[e] \in 0 .. input.quantum
      BY <3>1 DEF Inv, ClocksAgree
    <3>3. QED BY <2>1, <2>2, <2>4, <3>2
  <2>5. QED BY <2>3, <2>4
<1>25. NoError'
  <2>1. ~ sched'.failed
    BY <1>9 DEF Library, LibraryTypes
  <2>2. QED BY <1>3, <1>12, <2>1 DEF NoError
<1>26. Library(input, sched, Left, time)'
  BY <1>3, <1>9, <1>22
<1>27. Inv'
  BY <1>21, <1>23, <1>24, <1>25, <1>26 DEF Inv
<1>28. QED BY <1>9, <1>22, <1>27

\* A job whose quantum has expired goes behind the queue, and the first of both
\* gets the core on both sides.  Nothing changes in what is left of the jobs.
LEMMA QuantumExpiredStep ==
  ASSUME Inv, QuantumExpired
  PROVE  /\ Inv' /\ Left' = Left
         /\ \E x \in S!Jobs(input) : /\ sched'.queue = Tail(Append(sched.queue, x))
                                     /\ Head(Append(sched.queue, x)) \in on_core(sched')
<1>1. /\ Valid(input) /\ time \in Nat /\ Once(jobs)
      /\ Left \in [S!Jobs(input) -> Nat]
      /\ Cores(sched) = CoreIds /\ CoreIds \subseteq Nat
      /\ DOMAIN sched.job \subseteq S!Jobs(input)
      /\ sched.core \in [CoreIds -> S!Jobs(input) \cup {-1}]
  BY PlaceFacts
<1>2. PICK c \in Expired :
        LET i == Min({k \in DOMAIN jobs : jobs[k].core_id = c})
            call == scheduler_quantum_expired(sched, c, time)
        IN  /\ phase = "expired"
            /\ sched' = call.s
            /\ quantum_clock' = [quantum_clock EXCEPT ![c] = input.quantum]
            /\ Named(call, c, [jobs EXCEPT ![i].core_id = -1])
            /\ input' = input /\ time' = time
  BY DEF QuantumExpired
<1> DEFINE i == Min({k \in DOMAIN jobs : jobs[k].core_id = c})
           x == jobs[i].job_id
           call == scheduler_quantum_expired(sched, c, time)
           id == call.result
           d == [jobs EXCEPT ![i].core_id = -1]
<1>3. \A k \in DOMAIN jobs :
        /\ jobs[k] \in SimJob /\ jobs[k].job_id \in S!Jobs(input)
        /\ Left[jobs[k].job_id] = jobs[k].run_time
        /\ jobs[k].arrived <=> jobs[k].job_id \in DOMAIN sched.job
        /\ jobs[k].core_id # -1 => /\ sched.core[jobs[k].core_id] = jobs[k].job_id
                                   /\ jobs[k].job_id \in on_core(sched)
        /\ JobAgrees(jobs[k], sched.core, time, phase)
  <2>1. \A k \in DOMAIN jobs : JobAgrees(jobs[k], sched.core, time, phase)
    BY DEF Inv, JobsAgree, JobAgrees
  <2>2. QED BY <2>1, PlaceFacts
<1>4. input.scheme = "RR" /\ c \in CoreIds /\ \E k \in DOMAIN jobs : jobs[k].core_id = c
  BY DEF Expired
<1>5. jobs \in Seq(SimJob) /\ i \in DOMAIN jobs /\ jobs[i].core_id = c
  <2>1. jobs \in Seq(SimJob)
    BY DEF Inv, TypeOK
  <2> DEFINE I == {k \in DOMAIN jobs : jobs[k].core_id = c}
  <2>2. I \in SUBSET Nat /\ I # {}
    <3> HIDE DEF SimJob
    <3>1. DOMAIN jobs \subseteq Nat
      BY <2>1
    <3>2. QED BY <1>4, <3>1
  <2>3. i \in I
    <3> HIDE DEF I
    <3>1. Min(I) \in I
      BY <2>2, MinFacts
    <3>2. QED BY <3>1 DEF I
  <2>4. QED BY <2>1, <2>3
<1> HIDE DEF i
<1>6. sched.core[c] = x /\ x # -1 /\ x \in S!Jobs(input) /\ c # -1
  <2>1. c # -1
    BY <1>1, <1>4
  <2>2. QED BY <1>3, <1>5, <2>1 DEF on_core
<1>7. TakenTurns(input, sched, Left, time, c, call)
  <2>1. Library(input, sched, Left, time)
    BY DEF Inv
  <2>2. QED BY <1>1, <1>4, <1>6, <2>1, QuantumExpiredFacts
<1>8. /\ phase = "expired" /\ sched' = call.s
      /\ quantum_clock' = [quantum_clock EXCEPT ![c] = input.quantum]
      /\ Named(call, c, d)
      /\ input' = input /\ time' = time
  BY <1>2 DEF i
<1> HIDE DEF call, id, x, d
<1>9. /\ Library(input, sched', Left, time)
      /\ DOMAIN sched'.job = DOMAIN sched.job
      /\ sched'.core = WithCore(sched.core, c, id)
      /\ id # -1 /\ id \in DOMAIN sched.job /\ id \in on_core(sched')
      /\ sched'.queue = Tail(Append(sched.queue, x)) /\ id = Head(Append(sched.queue, x))
  BY <1>6, <1>7, <1>8 DEF TakenTurns, id
<1>10. \A e \in CoreIds : sched'.core[e] = IF e = c THEN id ELSE sched.core[e]
  BY <1>1, <1>9 DEF WithCore
<1>11. ASSUME NEW e \in CoreIds, e # c PROVE sched.core[e] # id
  <2>1. \A a, b \in CoreIds : sched'.core[a] = sched'.core[b] /\ sched'.core[a] # -1 => a = b
    <3>1. Cores(sched') = CoreIds
      BY <1>1, <1>9 DEF Cores, WithCore
    <3>2. QED BY <1>9, <3>1 DEF Library, InOnePlace
  <2>2. QED BY <1>4, <1>9, <1>10, <1>11, <2>1
<1>12. /\ d \in Seq(SimJob) /\ DOMAIN d = DOMAIN jobs
       /\ \A k \in DOMAIN jobs :
            /\ d[k].job_id = jobs[k].job_id /\ d[k].arrival_time = jobs[k].arrival_time
            /\ d[k].run_time = jobs[k].run_time /\ d[k].priority = jobs[k].priority
            /\ d[k].arrived = jobs[k].arrived
            /\ d[k].core_id = IF k = i THEN -1 ELSE jobs[k].core_id
  <2> DEFINE n == Len(jobs)
  <2>1. n \in Nat /\ DOMAIN jobs = 1 .. n
    BY <1>5
  <2>2. DOMAIN d = 1 .. n
    BY <1>5, <2>1 DEF d
  <2>3. ASSUME NEW k \in 1 .. n
        PROVE  /\ d[k].job_id = jobs[k].job_id /\ d[k].arrival_time = jobs[k].arrival_time
               /\ d[k].run_time = jobs[k].run_time /\ d[k].priority = jobs[k].priority
               /\ d[k].arrived = jobs[k].arrived
               /\ d[k].core_id = IF k = i THEN -1 ELSE jobs[k].core_id
               /\ d[k] \in SimJob
    <3>1. jobs[k] \in SimJob
      BY <1>3, <2>1
    <3>2. d[k] = IF k = i THEN [jobs[k] EXCEPT !.core_id = -1] ELSE jobs[k]
      BY <1>5, <2>1 DEF d
    <3>3. QED BY <3>1, <3>2 DEF SimJob
  <2>4. d \in Seq(SimJob)
    <3>1. d = [k \in 1 .. n |-> d[k]]
      BY <1>5, <2>1 DEF d
    <3> HIDE DEF n
    <3>2. d \in [1 .. n -> SimJob]
      BY <2>3, <3>1
    <3>3. QED BY <2>1, <3>2
  <2>5. QED BY <2>1, <2>2, <2>3, <2>4
<1>13. jobs' = set_active_job(d, id, c) /\ phase' = phase
  <2>1. CanSet(d, id)
    <3>1. PICK k \in DOMAIN jobs : jobs[k].job_id = id /\ jobs[k].arrived
      BY <1>9, PlaceFacts
    <3>2. QED BY <1>12, <3>1 DEF CanSet
  <2>2. QED BY <1>8, <2>1 DEF Named, id
<1>14. /\ jobs' \in Seq(SimJob) /\ DOMAIN jobs' = DOMAIN jobs
       /\ \A k \in DOMAIN jobs :
            /\ jobs'[k].job_id = jobs[k].job_id /\ jobs'[k].arrival_time = jobs[k].arrival_time
            /\ jobs'[k].run_time = jobs[k].run_time /\ jobs'[k].priority = jobs[k].priority
            /\ jobs'[k].arrived = jobs[k].arrived
            /\ jobs'[k].core_id = IF jobs[k].job_id = id THEN c
                                  ELSE IF k = i THEN -1 ELSE jobs[k].core_id
  <2>1. c \in Int
    BY <1>1, <1>4
  <2>2. /\ jobs' \in Seq(SimJob) /\ DOMAIN jobs' = DOMAIN d
        /\ \A k \in DOMAIN d :
             /\ jobs'[k].job_id = d[k].job_id /\ jobs'[k].arrival_time = d[k].arrival_time
             /\ jobs'[k].run_time = d[k].run_time /\ jobs'[k].priority = d[k].priority
             /\ jobs'[k].arrived = d[k].arrived
             /\ jobs'[k].core_id = IF d[k].job_id = id THEN c ELSE d[k].core_id
    BY <1>12, <1>13, <2>1, SetFacts
  <2>3. QED BY <1>12, <2>2
<1>15. ASSUME NEW k \in DOMAIN jobs PROVE JobAgrees(jobs'[k], sched'.core, time, phase)
  <2>1. JobAgrees(jobs[k], sched.core, time, phase)
    BY <1>3
  <2>2. \A e \in CoreIds : sched'.core[e] = jobs'[k].job_id <=> jobs'[k].core_id = e
    <3>1. CASE jobs[k].job_id = id
      BY <1>10, <1>11, <1>14, <3>1
    <3>2. CASE jobs[k].job_id # id /\ k = i
      <4>1. jobs'[k].core_id = -1 /\ jobs'[k].job_id = x
        BY <1>14, <3>2 DEF x
      <4>2. \A e \in CoreIds : e # c => sched.core[e] # x
        BY <1>5, <2>1, <3>2 DEF JobAgrees, x
      <4>3. x # id /\ \A e \in CoreIds : e # -1
        BY <1>1, <3>2 DEF x
      <4>4. QED BY <1>10, <4>1, <4>2, <4>3
    <3>3. CASE jobs[k].job_id # id /\ k # i
      <4>1. jobs'[k].core_id = jobs[k].core_id /\ jobs'[k].job_id = jobs[k].job_id
        BY <1>14, <3>3
      <4>2. \A e \in CoreIds : sched.core[e] = jobs[k].job_id <=> jobs[k].core_id = e
        BY <2>1 DEF JobAgrees
      <4>3. jobs[k].job_id # x
        BY <1>1, <1>5, <3>3 DEF Once, x
      <4>4. QED BY <1>4, <1>6, <1>10, <3>3, <4>1, <4>2, <4>3
    <3>4. QED BY <3>1, <3>2, <3>3
  <2>3. jobs'[k].core_id \in CoreIds \cup {-1}
    BY <1>4, <1>14, <2>1 DEF JobAgrees
  <2>4. jobs'[k].run_time # 0
    BY <1>8, <1>14, <2>1 DEF JobAgrees
  <2>5. QED BY <1>14, <2>1, <2>2, <2>3, <2>4 DEF JobAgrees
<1>16. CoreIds' = CoreIds
  BY <1>8 DEF CoreIds
<1>17. arrived' = DOMAIN sched'.job
  <2>1. arrived' = arrived
    BY <1>14 DEF arrived
  <2>2. QED BY <1>9, <2>1 DEF Inv, JobsAgree
<1>18. Once(jobs')
  BY <1>1, <1>14 DEF Once
<1>19. JobsAgree'
  <2>1. \A k \in DOMAIN jobs' : JobAgrees(jobs'[k], sched'.core, time', phase')
    BY <1>8, <1>13, <1>14, <1>15
  <2>2. \A k, m \in DOMAIN jobs' : jobs'[k].job_id = jobs'[m].job_id => k = m
    BY <1>18 DEF Once
  <2>3. QED BY <1>8, <1>16, <1>17, <2>1, <2>2 DEF JobsAgree, JobAgrees
<1>20. Left' = Left
  <2>1. Left' = LeftOf(input, jobs')
    BY <1>8 DEF Left
  <2> DEFINE m == LeftOf(input, jobs')
  <2>2. \A k \in DOMAIN jobs' : jobs'[k].job_id \in S!Jobs(input)
    BY <1>3, <1>14
  <2>3. /\ m \in [S!Jobs(input) -> Nat]
        /\ \A k \in DOMAIN jobs' : m[jobs'[k].job_id] = jobs'[k].run_time
        /\ \A y \in S!Jobs(input) : (\A k \in DOMAIN jobs' : jobs'[k].job_id # y) => m[y] = 0
    BY <1>14, <1>18, <2>2, LeftFacts
  <2>4. \A y \in S!Jobs(input) : (\A k \in DOMAIN jobs : jobs[k].job_id # y) => Left[y] = 0
    BY <1>1, <1>5, LeftFacts DEF Left
  <2> HIDE DEF m
  <2>5. ASSUME NEW y \in S!Jobs(input) PROVE m[y] = Left[y]
    BY <1>3, <1>14, <2>3, <2>4, SMTT(30)
  <2>6. m = Left
    BY <1>1, <2>3, <2>5
  <2>7. QED BY <2>1, <2>6 DEF m
<1>21. TypeOK'
  <2>1. quantum_clock' \in [CoreIds -> Int]
    <3>1. quantum_clock \in [CoreIds -> Int] /\ input.quantum \in Int
      BY <1>1, JobsFacts DEF Inv, TypeOK
    <3>2. QED BY <1>8, <3>1
  <2>2. QED BY <1>1, <1>8, <1>13, <1>14, <1>16, <2>1 DEF TypeOK
<1>22. ClocksAgree'
  <2> SUFFICES ASSUME NEW e \in CoreIds, sched'.core[e] # -1
               PROVE  quantum_clock'[e] \in 0 .. input.quantum
    BY <1>8, <1>13, <1>16 DEF ClocksAgree
  <2>1. quantum_clock \in [CoreIds -> Int] /\ input.quantum \in Nat
    BY <1>1, JobsFacts DEF Inv, TypeOK
  <2>2. quantum_clock' = [quantum_clock EXCEPT ![c] = input.quantum]
    BY <1>8
  <2>3. CASE e = c
    BY <2>1, <2>2, <2>3
  <2>4. CASE e # c
    <3>1. sched.core[e] # -1
      BY <1>10, <2>4
    <3>2. quantum_clock[e] \in 0 .. input.quantum
      BY <1>4, <3>1 DEF Inv, ClocksAgree
    <3>3. QED BY <2>1, <2>2, <2>4, <3>2
  <2>5. QED BY <2>3, <2>4
<1>23. NoError'
  <2>1. ~ sched'.failed
    BY <1>9 DEF Library, LibraryTypes
  <2>2. QED BY <1>8, <1>13, <2>1 DEF NoError
<1>24. Library(input, sched, Left, time)'
  BY <1>8, <1>9, <1>20
<1>25. Inv'
  BY <1>19, <1>21, <1>22, <1>23, <1>24 DEF Inv
<1>26. QED BY <1>6, <1>9, <1>20, <1>25

\* A job that arrives gets the core the scheduler says, or none, and who was on
\* the core is off it on both sides.  Nothing changes in what is left of the jobs.
LEMMA ArriveStep ==
  ASSUME Inv, Arrive
  PROVE  /\ Inv' /\ Left' = Left
         /\ input.scheme = "RR" =>
              \/ sched'.queue = sched.queue
              \/ \E x \in S!Jobs(input) : sched'.queue = Append(sched.queue, x)
<1> DEFINE i == Min(Arriving)
           x == jobs[i].job_id
           call == scheduler_new_job(sched, x, time, jobs[i].run_time, jobs[i].priority)
           c == call.result
<1>1. /\ Valid(input) /\ time \in Nat /\ Once(jobs)
      /\ Left \in [S!Jobs(input) -> Nat]
      /\ Cores(sched) = CoreIds /\ CoreIds \subseteq Nat
      /\ DOMAIN sched.job \subseteq S!Jobs(input)
      /\ on_core(sched) \subseteq DOMAIN sched.job
      /\ sched.core \in [CoreIds -> S!Jobs(input) \cup {-1}]
  BY PlaceFacts
<1>2. \A k \in DOMAIN jobs :
        /\ jobs[k] \in SimJob /\ jobs[k].job_id \in S!Jobs(input)
        /\ Left[jobs[k].job_id] = jobs[k].run_time
        /\ jobs[k].arrived <=> jobs[k].job_id \in DOMAIN sched.job
        /\ JobAgrees(jobs[k], sched.core, time, phase)
  <2>1. \A k \in DOMAIN jobs : JobAgrees(jobs[k], sched.core, time, phase)
    BY DEF Inv, JobsAgree, JobAgrees
  <2>2. QED BY <2>1, PlaceFacts
<1>3. /\ phase = "arrive" /\ Arriving # {} /\ phase' = phase
      /\ sched' = call.s
      /\ jobs' = [k \in DOMAIN jobs |->
                    CASE k = i -> [jobs[k] EXCEPT !.arrived = TRUE, !.core_id = c]
                      [] k # i /\ c # -1 /\ jobs[k].core_id = c -> [jobs[k] EXCEPT !.core_id = -1]
                      [] OTHER -> jobs[k]]
      /\ quantum_clock' = IF input.scheme = "RR" /\ c # -1
                            THEN [quantum_clock EXCEPT ![c] = input.quantum] ELSE quantum_clock
      /\ input' = input /\ time' = time
  BY DEF Arrive
<1>4. input' = input /\ time' = time /\ phase' = phase /\ phase = "arrive"
  BY <1>3
<1>5. IF input.scheme = "RR" /\ c # -1
       THEN quantum_clock' = [quantum_clock EXCEPT ![c] = input.quantum]
       ELSE quantum_clock' = quantum_clock
  BY <1>3
<1>6. jobs \in Seq(SimJob) /\ i \in DOMAIN jobs /\ jobs[i].arrival_time = time /\ ~ jobs[i].arrived
  <2>1. jobs \in Seq(SimJob)
    BY DEF Inv, TypeOK
  <2>2. Arriving \in SUBSET Nat /\ Arriving \subseteq DOMAIN jobs
    <3> HIDE DEF SimJob
    <3>1. DOMAIN jobs \subseteq Nat
      BY <2>1
    <3>2. QED BY <3>1 DEF Arriving
  <2>3. i \in Arriving
    BY <1>3, <2>2, MinFacts
  <2>4. QED BY <2>1, <2>2, <2>3 DEF Arriving
<1> HIDE DEF i
<1>7. /\ x \in S!Jobs(input) /\ x \notin DOMAIN sched.job
      /\ S!Of(input, x).arrival_time = time
      /\ jobs[i].run_time = S!Of(input, x).run_time /\ Left[x] = S!Of(input, x).run_time
      /\ jobs[i].priority = S!Of(input, x).priority
  BY <1>2, <1>6 DEF JobAgrees
<1>8. ASSUME NEW y \in DOMAIN sched.job PROVE S!Of(input, y).arrival_time < time
  <2>1. S!Of(input, y).arrival_time <= time
    BY PlaceFacts
  <2>2. y \in S!Jobs(input) /\ y # x
    BY <1>1, <1>7
  <2>3. S!Of(input, y).arrival_time # time /\ S!Of(input, y).arrival_time \in Nat
    BY <1>1, <1>7, <2>2, JobsFacts
  <2>4. QED BY <1>1, <2>1, <2>3
<1> HIDE DEF x
<1>9. Placed(input, sched, Left, time, x, call)
  <2>1. Library(input, sched, Left, time)
    BY DEF Inv
  <2>2. QED BY <1>1, <1>7, <1>8, <2>1, NewJobFacts
<1> HIDE DEF call, c
<1>10. /\ Library(input, sched', Left, time)
       /\ DOMAIN sched'.job = DOMAIN sched.job \cup {x}
       /\ c = -1 => sched'.core = sched.core
       /\ c # -1 => c \in CoreIds /\ sched'.core = WithCore(sched.core, c, x)
       /\ input.scheme = "RR" =>
            sched'.queue = sched.queue \/ sched'.queue = Append(sched.queue, x)
  BY <1>1, <1>3, <1>9 DEF Placed, c
<1>11. -1 \notin CoreIds
  BY <1>1
<1>12. \A e \in CoreIds : sched'.core[e] = IF e = c THEN x ELSE sched.core[e]
  BY <1>1, <1>10, <1>11 DEF WithCore
<1>13. \A e \in CoreIds : sched.core[e] # x
  <2>1. ASSUME NEW e \in CoreIds, sched.core[e] = x PROVE FALSE
    <3>1. x # -1
      BY <1>1, <1>7, JobsFacts
    <3>2. x \in on_core(sched)
      BY <1>1, <2>1, <3>1 DEF on_core
    <3>3. QED BY <1>1, <1>7, <3>2
  <2>2. QED BY <2>1
<1> DEFINE n == Len(jobs)
<1>14. n \in Nat /\ DOMAIN jobs = 1 .. n /\ DOMAIN jobs' = 1 .. n
  <2>1. n \in Nat /\ DOMAIN jobs = 1 .. n
    <3> HIDE DEF SimJob
    <3>1. QED BY <1>6
  <2>2. DOMAIN jobs' = DOMAIN jobs
    BY <1>3
  <2>3. QED BY <2>1, <2>2
<1>15. ASSUME NEW k \in DOMAIN jobs
       PROVE  /\ jobs'[k].job_id = jobs[k].job_id /\ jobs'[k].arrival_time = jobs[k].arrival_time
              /\ jobs'[k].run_time = jobs[k].run_time /\ jobs'[k].priority = jobs[k].priority
              /\ jobs'[k].arrived = (k = i \/ jobs[k].arrived)
              /\ jobs'[k].core_id = IF k = i THEN c
                                    ELSE IF c # -1 /\ jobs[k].core_id = c THEN -1
                                    ELSE jobs[k].core_id
              /\ jobs'[k] \in SimJob
  <2>1. jobs[k] \in SimJob /\ c \in Int
    <3>1. jobs[k] \in SimJob
      BY <1>2
    <3>2. c \in Nat \cup {-1}
      BY <1>1, <1>10
    <3>3. QED BY <3>1, <3>2
  <2>2. jobs'[k] = CASE k = i -> [jobs[k] EXCEPT !.arrived = TRUE, !.core_id = c]
                     [] k # i /\ c # -1 /\ jobs[k].core_id = c -> [jobs[k] EXCEPT !.core_id = -1]
                     [] OTHER -> jobs[k]
    BY <1>3
  <2>3. CASE k = i
    <3>1. jobs'[k] = [jobs[k] EXCEPT !.arrived = TRUE, !.core_id = c]
      BY <2>2, <2>3
    <3>2. QED BY <2>1, <2>3, <3>1 DEF SimJob
  <2>4. CASE k # i /\ c # -1 /\ jobs[k].core_id = c
    <3>1. jobs'[k] = [jobs[k] EXCEPT !.core_id = -1]
      BY <2>2, <2>4
    <3>2. QED BY <2>1, <2>4, <3>1 DEF SimJob
  <2>5. CASE k # i /\ ~ (c # -1 /\ jobs[k].core_id = c)
    <3>1. jobs'[k] = jobs[k]
      BY <2>2, <2>5
    <3>2. QED BY <2>1, <2>5, <3>1 DEF SimJob
  <2>6. QED BY <2>3, <2>4, <2>5
<1>16. jobs' \in Seq(SimJob)
  <2>1. jobs' = [k \in 1 .. n |-> jobs'[k]]
    BY <1>3, <1>14
  <2>2. \A k \in 1 .. n : jobs'[k] \in SimJob
    BY <1>14, <1>15
  <2>3. n \in Nat
    BY <1>14
  <2> HIDE DEF n
  <2>4. jobs' \in [1 .. n -> SimJob]
    BY <2>1, <2>2
  <2>5. QED BY <2>3, <2>4
<1> HIDE DEF n
<1>17. ASSUME NEW k \in DOMAIN jobs PROVE JobAgrees(jobs'[k], sched'.core, time, phase)
  <2>1. JobAgrees(jobs[k], sched.core, time, phase)
    BY <1>2
  <2>2. \A e \in CoreIds : sched'.core[e] = jobs'[k].job_id <=> jobs'[k].core_id = e
    <3>1. CASE k = i
      <4>1. jobs'[k].job_id = x /\ jobs'[k].core_id = c
        BY <1>15, <3>1 DEF x
      <4>2. QED BY <1>12, <1>13, <4>1
    <3>2. CASE k # i
      <4>1. jobs[k].job_id # x
        BY <1>1, <1>6, <3>2 DEF Once, x
      <4>2. \A e \in CoreIds : sched.core[e] = jobs[k].job_id <=> jobs[k].core_id = e
        BY <2>1 DEF JobAgrees
      <4>3. QED BY <1>11, <1>12, <1>15, <3>2, <4>1, <4>2
    <3>3. QED BY <3>1, <3>2
  <2>3. jobs'[k].core_id \in CoreIds \cup {-1}
    BY <1>10, <1>15, <2>1 DEF JobAgrees
  <2>4. jobs'[k].run_time # 0
    BY <1>3, <1>15, <2>1 DEF JobAgrees
  <2>5. jobs'[k].arrived =>
          jobs'[k].arrival_time < time \/ (jobs'[k].arrival_time = time /\ phase = "arrive")
    BY <1>3, <1>6, <1>15, <2>1 DEF JobAgrees
  <2>6. QED BY <1>15, <2>1, <2>2, <2>3, <2>4, <2>5 DEF JobAgrees
<1>18. CoreIds' = CoreIds
  BY <1>3 DEF CoreIds
<1>19. arrived' = DOMAIN sched'.job
  <2>1. DOMAIN sched.job = arrived
    BY DEF Inv, JobsAgree
  <2>2. ASSUME NEW y PROVE y \in arrived' <=> y \in arrived \/ y = x
    <3>1. y \in arrived' <=> \E k \in DOMAIN jobs : (k = i \/ jobs[k].arrived) /\ jobs[k].job_id = y
      <4>1. y \in arrived' <=> \E k \in DOMAIN jobs : jobs'[k].arrived /\ jobs'[k].job_id = y
        BY <1>14 DEF arrived
      <4>2. QED BY <1>15, <4>1
    <3>2. y \in arrived <=> \E k \in DOMAIN jobs : jobs[k].arrived /\ jobs[k].job_id = y
      BY DEF arrived
    <3>3. QED BY <1>6, <3>1, <3>2 DEF x
  <2>3. QED BY <1>10, <2>1, <2>2
<1>20. Once(jobs')
  BY <1>1, <1>14, <1>15 DEF Once
<1>21. JobsAgree'
  <2>1. \A k \in DOMAIN jobs' : JobAgrees(jobs'[k], sched'.core, time', phase')
    BY <1>3, <1>14, <1>17
  <2>2. \A k, m \in DOMAIN jobs' : jobs'[k].job_id = jobs'[m].job_id => k = m
    BY <1>20 DEF Once
  <2>3. QED BY <1>4, <1>18, <1>19, <2>1, <2>2 DEF JobsAgree, JobAgrees
<1>22. Left' = Left
  <2>1. Left' = LeftOf(input, jobs')
    BY <1>3 DEF Left
  <2> DEFINE m == LeftOf(input, jobs')
  <2>2. \A k \in DOMAIN jobs' : jobs'[k].job_id \in S!Jobs(input)
    BY <1>2, <1>14, <1>15
  <2>3. /\ m \in [S!Jobs(input) -> Nat]
        /\ \A k \in DOMAIN jobs' : m[jobs'[k].job_id] = jobs'[k].run_time
        /\ \A y \in S!Jobs(input) : (\A k \in DOMAIN jobs' : jobs'[k].job_id # y) => m[y] = 0
    BY <1>16, <1>20, <2>2, LeftFacts
  <2>4. \A y \in S!Jobs(input) : (\A k \in DOMAIN jobs : jobs[k].job_id # y) => Left[y] = 0
    BY <1>1, <1>6, LeftFacts DEF Left
  <2> HIDE DEF m
  <2>5. ASSUME NEW y \in S!Jobs(input) PROVE m[y] = Left[y]
    BY <1>2, <1>14, <1>15, <2>3, <2>4
  <2>6. m = Left
    BY <1>1, <2>3, <2>5
  <2>7. QED BY <2>1, <2>6 DEF m
<1>23. quantum_clock \in [CoreIds -> Int] /\ input.quantum \in Nat
  BY <1>1, JobsFacts DEF Inv, TypeOK
<1>24. TypeOK'
  <2>1. quantum_clock' \in [CoreIds -> Int]
    <3>1. CASE input.scheme = "RR" /\ c # -1
      BY <1>10, <1>18, <1>23, <1>5, <3>1
    <3>2. CASE ~ (input.scheme = "RR" /\ c # -1)
      BY <1>18, <1>23, <1>5, <3>2
    <3>3. QED BY <3>1, <3>2
  <2>2. QED BY <1>1, <1>4, <1>16, <1>18, <2>1 DEF TypeOK
<1>25. ClocksAgree'
  <2> SUFFICES ASSUME input.scheme = "RR", NEW e \in CoreIds, sched'.core[e] # -1
               PROVE  quantum_clock'[e] \in 0 .. input.quantum /\ quantum_clock'[e] # 0
    BY <1>3, <1>18 DEF ClocksAgree
  <2>1. input.quantum > 0
    BY <1>1 DEF Valid
  <2>2. CASE e = c
    <3>1. quantum_clock' = [quantum_clock EXCEPT ![c] = input.quantum]
      BY <1>3, <1>11, <2>2
    <3>2. QED BY <1>23, <2>1, <2>2, <3>1
  <2>3. CASE e # c
    <3>1. sched.core[e] # -1
      BY <1>12, <2>3
    <3>2. quantum_clock[e] \in 0 .. input.quantum /\ quantum_clock[e] # 0
      BY <1>3, <3>1 DEF Inv, ClocksAgree
    <3>3. quantum_clock'[e] = quantum_clock[e]
      BY <1>3, <1>23, <2>3
    <3>4. QED BY <3>2, <3>3
  <2>4. QED BY <2>2, <2>3
<1>26. NoError'
  <2>1. ~ sched'.failed
    BY <1>10 DEF Library, LibraryTypes
  <2>2. QED BY <1>3, <2>1 DEF NoError
<1>27. Library(input, sched, Left, time)'
  BY <1>3, <1>10, <1>22
<1>28. Inv'
  BY <1>21, <1>24, <1>25, <1>26, <1>27 DEF Inv
<1>29. QED BY <1>7, <1>10, <1>22, <1>28

\* The cores run for a unit: no job waits for nothing, every clock that matters
\* goes down by one, and so does what is left of the jobs on the cores.
LEMMA RunUnitStep ==
  ASSUME Inv, RunUnit
  PROVE  /\ Inv' /\ sched' = sched /\ time' = time + 1 /\ input' = input
         /\ phase = "arrive" /\ Arriving = {}
         /\ Left' \in [S!Jobs(input) -> Nat]
         /\ \A x \in S!Jobs(input) : Left'[x] = IF x \in on_core(sched) THEN Left[x] - 1 ELSE Left[x]
<1> DEFINE running == {i \in DOMAIN jobs : jobs[i].core_id # -1}
           alive   == {i \in DOMAIN jobs : jobs[i].arrived}
           ran(c)  == Cardinality({i \in running : jobs[i].core_id = c})
<1>1. /\ Valid(input) /\ time \in Nat /\ Once(jobs)
      /\ Left \in [S!Jobs(input) -> Nat]
      /\ Cores(sched) = CoreIds /\ CoreIds \subseteq Nat
      /\ DOMAIN sched.job \subseteq S!Jobs(input)
      /\ ToSet(sched.queue) \cup on_core(sched) = DOMAIN sched.job
      /\ \A x \in DOMAIN sched.job : S!Of(input, x).arrival_time <= time
      /\ \A c \in CoreIds : sched.core[c] # -1 =>
           \E k \in DOMAIN jobs : jobs[k].job_id = sched.core[c] /\ jobs[k].core_id = c
  BY PlaceFacts
<1>2. \A k \in DOMAIN jobs :
        /\ jobs[k] \in SimJob /\ jobs[k].job_id \in S!Jobs(input)
        /\ Left[jobs[k].job_id] = jobs[k].run_time
        /\ jobs[k].arrived <=> jobs[k].job_id \in DOMAIN sched.job
        /\ jobs[k].core_id # -1 <=> jobs[k].job_id \in on_core(sched)
        /\ jobs[k].core_id \in CoreIds \cup {-1}
        /\ JobAgrees(jobs[k], sched.core, time, phase)
  <2>1. \A k \in DOMAIN jobs : JobAgrees(jobs[k], sched.core, time, phase)
    BY DEF Inv, JobsAgree, JobAgrees
  <2>2. QED BY <2>1, PlaceFacts
<1>3. /\ phase = "arrive" /\ Arriving = {}
      /\ input' = input /\ sched' = sched /\ time' = time + 1
      /\ phase' = IF running = {} /\ alive # {} THEN "error" ELSE "finished"
  BY DEF RunUnit
<1>4. jobs' = [i \in DOMAIN jobs |-> IF i \in running THEN [jobs[i] EXCEPT !.run_time = @ - 1]
                                                      ELSE jobs[i]]
  BY DEF RunUnit
<1>5. quantum_clock' = [c \in CoreIds |-> quantum_clock[c] - ran(c)]
  BY DEF RunUnit
<1>6. jobs \in Seq(SimJob) /\ quantum_clock \in [CoreIds -> Int]
  BY DEF Inv, TypeOK
<1> DEFINE n == Len(jobs)
<1>7. n \in Nat /\ DOMAIN jobs = 1 .. n /\ DOMAIN jobs' = 1 .. n
  <2>1. n \in Nat /\ DOMAIN jobs = 1 .. n
    <3> HIDE DEF SimJob
    <3>1. QED BY <1>6
  <2>2. DOMAIN jobs' = DOMAIN jobs
    BY <1>4
  <2>3. QED BY <2>1, <2>2
<1> HIDE DEF n
<1>8. \A c : ran(c) \in Nat
  <2>1. IsFiniteSet(1 .. n)
    BY <1>7, FS_Interval
  <2>2. ASSUME NEW c PROVE {i \in running : jobs[i].core_id = c} \subseteq 1 .. n
    BY <1>7
  <2>3. QED BY <2>1, <2>2, FS_Subset, FS_CardinalityType
<1>9. ASSUME NEW c \in CoreIds, sched.core[c] # -1 PROVE ran(c) = 1
  <2>1. PICK k \in DOMAIN jobs : jobs[k].job_id = sched.core[c] /\ jobs[k].core_id = c
    BY <1>1, <1>9
  <2>2. c # -1
    BY <1>1
  <2>3. ASSUME NEW m \in DOMAIN jobs, jobs[m].core_id = c PROVE m = k
    <3>1. sched.core[c] = jobs[m].job_id
      BY <1>2, <2>3 DEF JobAgrees
    <3>2. QED BY <1>1, <2>1, <3>1 DEF Once
  <2>4. {i \in running : jobs[i].core_id = c} = {k}
    BY <2>1, <2>2, <2>3
  <2>5. QED BY <2>4, FS_Singleton
<1> HIDE DEF ran
<1>10. running # {} \/ alive = {}
  <2> SUFFICES ASSUME alive # {} PROVE running # {}
    OBVIOUS
  <2>1. PICK k \in DOMAIN jobs : jobs[k].arrived
    OBVIOUS
  <2>2. jobs[k].job_id \in ToSet(sched.queue) \cup on_core(sched)
    BY <1>1, <1>2, <2>1
  <2>3. CASE jobs[k].job_id \in on_core(sched)
    BY <1>2, <2>3
  <2>4. CASE jobs[k].job_id \in ToSet(sched.queue)
    <3>1. Available(sched) = {}
      <4>1. sched.queue # <<>>
        BY <2>4 DEF ToSet
      <4>2. QED BY <4>1 DEF Inv, Library, InOnePlace
    <3>2. 0 \in CoreIds
      BY <1>1, JobsFacts DEF CoreIds
    <3>3. sched.core[0] # -1
      BY <1>1, <3>1, <3>2 DEF Available
    <3>4. PICK m \in DOMAIN jobs : jobs[m].core_id = 0
      BY <1>1, <3>2, <3>3
    <3>5. QED BY <3>4
  <2>5. QED BY <2>2, <2>3, <2>4
<1>11. phase' = "finished"
  BY <1>3, <1>10
<1>12. ASSUME NEW k \in DOMAIN jobs, k \in running
       PROVE  jobs[k].run_time > 0 /\ Left[jobs[k].job_id] > 0
  BY <1>2, <1>3 DEF JobAgrees, SimJob
<1>13. ASSUME NEW k \in DOMAIN jobs
       PROVE  /\ jobs'[k].job_id = jobs[k].job_id /\ jobs'[k].arrival_time = jobs[k].arrival_time
              /\ jobs'[k].run_time = IF k \in running THEN jobs[k].run_time - 1 ELSE jobs[k].run_time
              /\ jobs'[k].priority = jobs[k].priority
              /\ jobs'[k].arrived = jobs[k].arrived
              /\ jobs'[k].core_id = jobs[k].core_id
              /\ jobs'[k] \in SimJob
  <2>1. jobs[k] \in SimJob
    BY <1>2
  <2>2. CASE k \in running
    <3>1. jobs'[k] = [jobs[k] EXCEPT !.run_time = @ - 1]
      BY <1>4, <2>2
    <3>2. jobs[k].run_time > 0
      BY <1>12, <2>2
    <3> HIDE DEF running
    <3>3. QED BY <2>1, <2>2, <3>1, <3>2 DEF SimJob
  <2>3. CASE k \notin running
    <3>1. jobs'[k] = jobs[k]
      BY <1>4, <2>3
    <3>2. QED BY <2>1, <2>3, <3>1 DEF SimJob
  <2>4. QED BY <2>2, <2>3
<1>14. jobs' \in Seq(SimJob)
  <2>1. jobs' = [k \in 1 .. n |-> jobs'[k]]
    BY <1>4, <1>7
  <2>2. \A k \in 1 .. n : jobs'[k] \in SimJob
    BY <1>7, <1>13
  <2>3. n \in Nat
    BY <1>7
  <2>4. jobs' \in [1 .. n -> SimJob]
    BY <2>1, <2>2
  <2>5. QED BY <2>3, <2>4
<1>15. Once(jobs')
  BY <1>1, <1>7, <1>13 DEF Once
<1>16. CoreIds' = CoreIds
  BY <1>3 DEF CoreIds
<1>17. ASSUME NEW k \in DOMAIN jobs PROVE JobAgrees(jobs'[k], sched.core, time + 1, "finished")
  <2>1. JobAgrees(jobs[k], sched.core, time, phase) /\ jobs[k] \in SimJob
    BY <1>2
  <2>2. jobs'[k].run_time <= S!Of(input, jobs[k].job_id).run_time
    <3>1. jobs[k].run_time \in Nat /\ S!Of(input, jobs[k].job_id).run_time \in Nat
      BY <1>1, <1>2, <2>1, JobsFacts DEF SimJob
    <3>2. jobs[k].run_time <= S!Of(input, jobs[k].job_id).run_time
      BY <2>1 DEF JobAgrees
    <3>3. QED BY <1>13, <3>1, <3>2
  <2>3. jobs[k].arrival_time \in Nat
    BY <2>1 DEF SimJob
  <2>4. jobs[k].arrived => jobs[k].arrival_time < time + 1
    BY <1>1, <2>1, <2>3 DEF JobAgrees
  <2>5. ~ jobs[k].arrived =>
          /\ jobs[k].arrival_time >= time + 1
          /\ jobs'[k].run_time = S!Of(input, jobs[k].job_id).run_time
    <3> SUFFICES ASSUME ~ jobs[k].arrived
                 PROVE  /\ jobs[k].arrival_time >= time + 1
                        /\ jobs'[k].run_time = S!Of(input, jobs[k].job_id).run_time
      OBVIOUS
    <3>1. jobs[k].arrival_time # time
      BY <1>3 DEF Arriving
    <3>2. k \notin running
      BY <1>1, <1>2
    <3>3. QED BY <1>1, <1>13, <2>1, <2>3, <3>1, <3>2 DEF JobAgrees
  <2>6. jobs'[k].run_time = 0 => jobs'[k].core_id # -1
    BY <1>3, <1>13, <2>1 DEF JobAgrees
  <2>7. QED BY <1>13, <2>1, <2>2, <2>4, <2>5, <2>6 DEF JobAgrees
<1>18. arrived' = arrived
  <2>1. \A k \in DOMAIN jobs : jobs'[k].arrived = jobs[k].arrived /\ jobs'[k].job_id = jobs[k].job_id
    BY <1>13
  <2>2. ASSUME NEW y PROVE y \in arrived' <=> y \in arrived
    <3>1. y \in arrived' <=> \E k \in DOMAIN jobs : jobs'[k].arrived /\ jobs'[k].job_id = y
      BY <1>7 DEF arrived
    <3>2. y \in arrived <=> \E k \in DOMAIN jobs : jobs[k].arrived /\ jobs[k].job_id = y
      BY DEF arrived
    <3>3. QED BY <2>1, <3>1, <3>2
  <2>3. QED BY <2>2
<1>19. JobsAgree'
  <2>1. \A k \in DOMAIN jobs' : JobAgrees(jobs'[k], sched'.core, time', phase')
    BY <1>3, <1>7, <1>11, <1>17
  <2>2. \A k, m \in DOMAIN jobs' : jobs'[k].job_id = jobs'[m].job_id => k = m
    BY <1>15 DEF Once
  <2>3. DOMAIN sched'.job = arrived'
    BY <1>3, <1>18 DEF Inv, JobsAgree
  <2>4. input' = input
    BY <1>3
  <2>5. QED BY <1>16, <2>1, <2>2, <2>3, <2>4 DEF JobsAgree, JobAgrees
<1>20. /\ Left' \in [S!Jobs(input) -> Nat]
       /\ \A k \in DOMAIN jobs : Left'[jobs[k].job_id] = jobs'[k].run_time
       /\ \A y \in S!Jobs(input) : (\A k \in DOMAIN jobs : jobs[k].job_id # y) => Left'[y] = 0
  <2>1. Left' = LeftOf(input, jobs')
    BY <1>3 DEF Left
  <2>2. \A k \in DOMAIN jobs' : jobs'[k].job_id \in S!Jobs(input)
    BY <1>2, <1>7, <1>13
  <2>3. /\ LeftOf(input, jobs') \in [S!Jobs(input) -> Nat]
        /\ \A k \in DOMAIN jobs' : LeftOf(input, jobs')[jobs'[k].job_id] = jobs'[k].run_time
        /\ \A y \in S!Jobs(input) :
             (\A k \in DOMAIN jobs' : jobs'[k].job_id # y) => LeftOf(input, jobs')[y] = 0
    BY <1>14, <1>15, <2>2, LeftFacts
  <2>4. QED BY <1>7, <1>13, <2>1, <2>3
<1>21. ASSUME NEW y \in S!Jobs(input)
       PROVE  Left'[y] = IF y \in on_core(sched) THEN Left[y] - 1 ELSE Left[y]
  <2>1. CASE \E k \in DOMAIN jobs : jobs[k].job_id = y
    <3>1. PICK k \in DOMAIN jobs : jobs[k].job_id = y
      BY <2>1
    <3>2. Left'[y] = jobs'[k].run_time /\ Left[y] = jobs[k].run_time
      BY <1>2, <1>20, <3>1
    <3>3. k \in running <=> y \in on_core(sched)
      BY <1>2, <3>1
    <3>4. QED BY <1>13, <3>2, <3>3
  <2>2. CASE \A k \in DOMAIN jobs : jobs[k].job_id # y
    <3>1. Left'[y] = 0
      BY <1>20, <2>2
    <3>2. Left[y] = 0
      BY <1>1, <1>6, <2>2, LeftFacts DEF Left
    <3>3. y \notin on_core(sched)
      BY <1>1, <2>2, PlaceFacts
    <3>4. QED BY <3>1, <3>2, <3>3
  <2>3. QED BY <2>1, <2>2
<1>22. Library(input, sched, Left', time + 1)
  <2>1. Library(input, sched, Left, time)
    BY DEF Inv
  <2>2. ASSUME NEW x \in on_core(sched)
        PROVE  Left[x] > 0 /\ Left[x] <= S!Of(input, x).run_time
    <3>1. PICK k \in DOMAIN jobs : jobs[k].job_id = x
      BY <1>1, PlaceFacts
    <3>2. jobs[k].core_id # -1
      BY <1>2, <3>1
    <3>3. Left[x] > 0
      BY <1>12, <3>1, <3>2
    <3>4. Left[x] <= S!Of(input, x).run_time
      BY <1>2, <3>1 DEF JobAgrees
    <3>5. QED BY <3>3, <3>4
  <2> DEFINE m == Left'
  <2>3. m \in [S!Jobs(input) -> Nat]
    BY <1>20
  <2>4. \A x \in S!Jobs(input) : m[x] = IF x \in on_core(sched) THEN Left[x] - 1 ELSE Left[x]
    BY <1>21
  <2> HIDE DEF m
  <2>5. Library(input, sched, m, time + 1)
    BY <1>1, <2>1, <2>2, <2>3, <2>4, UnitFacts
  <2>6. QED BY <2>5 DEF m
<1>23. TypeOK'
  <2>1. quantum_clock' \in [CoreIds -> Int]
    BY <1>5, <1>6, <1>8
  <2>2. time' \in Nat
    BY <1>1, <1>3
  <2>3. QED BY <1>1, <1>3, <1>11, <1>14, <1>16, <2>1, <2>2 DEF TypeOK
<1>24. ClocksAgree'
  <2> SUFFICES ASSUME input.scheme = "RR", NEW c \in CoreIds, sched.core[c] # -1
               PROVE  quantum_clock'[c] \in 0 .. input.quantum
    BY <1>3, <1>11, <1>16 DEF ClocksAgree
  <2>1. quantum_clock[c] \in 0 .. input.quantum /\ quantum_clock[c] # 0
    BY <1>3 DEF Inv, ClocksAgree
  <2>2. quantum_clock'[c] = quantum_clock[c] - 1
    BY <1>5, <1>9
  <2>3. input.quantum \in Nat
    BY <1>1, JobsFacts
  <2>4. QED BY <2>1, <2>2, <2>3
<1>25. NoError'
  BY <1>3, <1>11 DEF NoError, Inv
<1>26. Library(input, sched, Left, time)'
  BY <1>3, <1>22
<1>27. Inv'
  BY <1>19, <1>23, <1>24, <1>25, <1>26 DEF Inv
<1>28. QED BY <1>3, <1>20, <1>21, <1>27

\* The phases that change nothing but the phase, and the steps that change nothing.
LEMMA PhaseStep ==
  ASSUME Inv, NoMoreFinished \/ NoMoreExpired \/ UNCHANGED vars
  PROVE  Inv' /\ Left' = Left /\ UNCHANGED <<input, time, jobs, quantum_clock, sched>>
<1>1. /\ input' = input /\ time' = time /\ jobs' = jobs
      /\ quantum_clock' = quantum_clock /\ sched' = sched
      /\ \/ phase = "finished" /\ phase' = "end"
         \/ phase = "finished" /\ Finished = {} /\ phase' = "expired"
         \/ phase = "expired" /\ Expired = {} /\ phase' = "arrive"
         \/ phase' = phase
  BY DEF NoMoreFinished, NoMoreExpired, vars
<1>2. Left' = Left
  BY <1>1 DEF Left
<1>3. CoreIds' = CoreIds /\ arrived' = arrived
  BY <1>1 DEF CoreIds, arrived
<1>4. TypeOK'
  BY <1>1, <1>3 DEF Inv, TypeOK
<1>5. NoError'
  BY <1>1 DEF Inv, NoError
<1>6. JobsAgree'
  <2>1. JobsAgree
    BY DEF Inv
  <2>2. ASSUME NEW k \in DOMAIN jobs
        PROVE  /\ jobs[k].run_time = 0 => phase' = "finished" /\ jobs[k].core_id # -1
               /\ jobs[k].arrived =>
                    \/ jobs[k].arrival_time < time
                    \/ jobs[k].arrival_time = time /\ phase' = "arrive"
    <3>1. /\ jobs[k].run_time = 0 => phase = "finished" /\ jobs[k].core_id # -1
          /\ jobs[k].arrived =>
               jobs[k].arrival_time < time \/ (jobs[k].arrival_time = time /\ phase = "arrive")
      BY <2>1 DEF JobsAgree
    <3>2. CASE phase = "finished" /\ phase' = "end"
      <4>1. jobs = <<>>
        BY <1>1, <3>2 DEF NoMoreFinished, NoMoreExpired, vars
      <4>2. QED BY <4>1
    <3>3. CASE phase = "finished" /\ Finished = {} /\ phase' = "expired"
      BY <3>1, <3>3 DEF Finished
    <3>4. CASE phase = "expired" /\ phase' = "arrive"
      BY <3>1, <3>4
    <3>5. CASE phase' = phase
      BY <3>1, <3>5
    <3>6. QED BY <1>1, <3>2, <3>3, <3>4, <3>5
  <2>3. QED BY <1>1, <1>3, <2>1, <2>2 DEF JobsAgree
<1>7. ClocksAgree'
  <2> SUFFICES ASSUME input.scheme = "RR", NEW c \in CoreIds, sched.core[c] # -1
               PROVE  /\ quantum_clock[c] \in 0 .. input.quantum
                      /\ phase' = "arrive" => quantum_clock[c] # 0
    BY <1>1, <1>3 DEF ClocksAgree
  <2>1. /\ quantum_clock[c] \in 0 .. input.quantum
        /\ phase = "arrive" => quantum_clock[c] # 0
    BY DEF Inv, ClocksAgree
  <2>2. \E k \in DOMAIN jobs : jobs[k].core_id = c
    BY PlaceFacts
  <2>3. CASE phase = "expired" /\ Expired = {}
    BY <2>1, <2>2, <2>3 DEF Expired
  <2>4. QED BY <1>1, <2>1, <2>3
<1>8. Library(input, sched, Left, time)'
  BY <1>1, <1>2 DEF Inv
<1>9. Inv'
  BY <1>4, <1>5, <1>6, <1>7, <1>8 DEF Inv
<1>10. QED BY <1>1, <1>2, <1>9

-----------------------------------------------------------------------------
(* The theorems.                                                           *)

LEMMA StepInv == Inv /\ [Next]_vars => Inv'
<1> SUFFICES ASSUME Inv, [Next]_vars PROVE Inv'
  OBVIOUS
<1>1. CASE JobFinished
  BY <1>1, JobFinishedStep
<1>2. CASE QuantumExpired
  BY <1>2, QuantumExpiredStep
<1>3. CASE Arrive
  BY <1>3, ArriveStep
<1>4. CASE RunUnit
  BY <1>4, RunUnitStep
<1>5. CASE NoMoreFinished \/ NoMoreExpired \/ UNCHANGED vars
  BY <1>5, PhaseStep
<1>6. QED BY <1>1, <1>2, <1>3, <1>4, <1>5 DEF Next

\* No call of the simulator fails a check, the simulator and the library agree
\* where each job is, and no core is idle while a job waits, however many jobs,
\* cores and quanta (simulator.c:246-374, libscheduler.c:65-343).
LEMMA BothSides == Spec => []Inv
BY InitInv, StepInv, PTL DEF Spec

\* A sequence without repetitions is as long as the set of its elements is big.
LEMMA LenFacts ==
  ASSUME NEW T, NEW q \in Seq(T), \A i, j \in DOMAIN q : q[i] = q[j] => i = j
  PROVE  Len(q) = Cardinality(ToSet(q))
<1> DEFINE n == Len(q)
<1>1. n \in Nat /\ DOMAIN q = 1 .. n /\ q = [i \in 1 .. n |-> q[i]]
  OBVIOUS
<1>2. q \in Surjection(1 .. n, ToSet(q))
  BY <1>1 DEF Surjection, ToSet
<1>3. q \in Injection(1 .. n, ToSet(q))
  BY <1>1, <1>2 DEF Injection, Surjection, IsInjective
<1>4. IsFiniteSet(1 .. n) /\ Cardinality(1 .. n) = n
  <2> HIDE DEF n
  <2>1. n \in Nat
    BY <1>1
  <2>2. QED BY <2>1, FS_Interval
<1>5. Cardinality(ToSet(q)) = Cardinality(1 .. n)
  BY <1>2, <1>3, <1>4, FS_Surjection
<1>6. QED BY <1>4, <1>5

LEMMA InvAgree == Inv => Agree
<1> SUFFICES ASSUME Inv PROVE Agree
  OBVIOUS
<1>1. LibraryTypes(input, sched) /\ InOnePlace(sched) /\ Records(input, sched, Left, time)
  BY DEF Inv, Library
<1>2. \A c \in CoreIds, i \in DOMAIN jobs : sched.core[c] = jobs[i].job_id <=> jobs[i].core_id = c
  BY DEF Inv, JobsAgree
<1>3. arrived = DOMAIN sched.job
  BY DEF Inv, JobsAgree
<1>4. ToSet(sched.queue) = arrived \ on_core(sched)
  BY <1>1, <1>3 DEF InOnePlace
<1>5. Len(sched.queue) = Cardinality(ToSet(sched.queue))
  <2>1. sched.queue \in Seq(S!Jobs(input))
    BY <1>1 DEF LibraryTypes
  <2>2. \A i, j \in DOMAIN sched.queue : sched.queue[i] = sched.queue[j] => i = j
    BY <1>1 DEF InOnePlace
  <2>3. QED BY <2>1, <2>2, LenFacts
<1>6. ASSUME NEW i \in DOMAIN jobs, jobs[i].arrived
      PROVE  LET j == sched.job[jobs[i].job_id]
             IN  jobs[i].run_time =
                   IF jobs[i].core_id = -1 THEN j.remaining_time
                   ELSE j.remaining_time - (time - j.last_update_time_on_core)
  <2> DEFINE x == jobs[i].job_id
  <2>1. /\ x \in DOMAIN sched.job /\ Left[x] = jobs[i].run_time
        /\ jobs[i].core_id # -1 => x \in on_core(sched)
        /\ jobs[i].core_id = -1 => x \notin on_core(sched)
    BY <1>6, PlaceFacts
  <2> HIDE DEF x
  <2>2. /\ x \in on_core(sched) =>
             Left[x] = sched.job[x].remaining_time - (time - sched.job[x].last_update_time_on_core)
        /\ x \notin on_core(sched) => Left[x] = sched.job[x].remaining_time
    BY <1>1, <2>1 DEF Records
  <2>3. CASE jobs[i].core_id = -1
    BY <2>1, <2>2, <2>3 DEF x
  <2>4. CASE jobs[i].core_id # -1
    BY <2>1, <2>2, <2>4 DEF x
  <2>5. QED BY <2>3, <2>4
<1>7. QED BY <1>2, <1>4, <1>5, <1>6 DEF Agree

\* The simulator and the library agree where each job is and how long it has
\* still to run, whatever has been preempted, put back or taken out of the queue
\* (libscheduler.c:65-86, 118-192, simulator.c:230-374).
THEOREM Agreement == Spec => []Agree
BY BothSides, InvAgree, PTL

LEMMA PrefixFacts ==
  ASSUME NEW T, NEW q \in Seq(T), NEW x \in T
  PROVE  /\ IsPrefix(q, q) /\ IsPrefix(q, Append(q, x))
         /\ q # <<>> => /\ Tail(q) \in Seq(T)
                        /\ Tail(Append(q, x)) = Append(Tail(q), x)
                        /\ Head(Append(q, x)) = Head(q)
         /\ Tail(Append(<<>>, x)) = <<>>
<1>1. IsPrefix(q, q)
  BY DEF IsPrefix
<1>2. IsPrefix(q, Append(q, x))
  BY DEF IsPrefix
<1>3. Tail(Append(<<>>, x)) = <<>>
  OBVIOUS
<1>4. ASSUME q # <<>>
      PROVE  /\ Tail(q) \in Seq(T)
             /\ Tail(Append(q, x)) = Append(Tail(q), x)
             /\ Head(Append(q, x)) = Head(q)
  BY <1>4
<1>5. QED BY <1>1, <1>2, <1>3, <1>4

\* In RR the jobs that wait are served in the order in which they came
\* (libpriqueue.c:71-105, libscheduler.c:247-343).
THEOREM RoundRobinOrder == Spec => RoundRobin
<1> DEFINE Fair == \/ IsPrefix(sched.queue, sched'.queue)
                   \/ /\ sched.queue # <<>> /\ IsPrefix(Tail(sched.queue), sched'.queue)
                      /\ Head(sched.queue) \in on_core(sched')
<1>1. Inv /\ [Next]_vars => [input.scheme = "RR" => Fair]_vars
  <2> SUFFICES ASSUME Inv, [Next]_vars, input.scheme = "RR" PROVE Fair
    OBVIOUS
  <2> DEFINE q == sched.queue
  <2>1. q \in Seq(S!Jobs(input))
    BY DEF Inv, Library, LibraryTypes
  <2>2. CASE JobFinished
    <3>1. CASE q = <<>> /\ sched'.queue = <<>>
      BY <3>1 DEF IsPrefix
    <3>2. CASE q # <<>> /\ sched'.queue = Tail(q) /\ Head(q) \in on_core(sched')
      <4>1. Tail(q) \in Seq(S!Jobs(input)) /\ Head(q) \in S!Jobs(input)
        BY <2>1, <3>2
      <4>2. IsPrefix(Tail(q), Tail(q))
        BY <4>1, PrefixFacts
      <4>3. QED BY <3>2, <4>2
    <3>3. QED BY <2>2, <3>1, <3>2, JobFinishedStep
  <2>3. CASE QuantumExpired
    <3>1. PICK x \in S!Jobs(input) : /\ sched'.queue = Tail(Append(q, x))
                                     /\ Head(Append(q, x)) \in on_core(sched')
      BY <2>3, QuantumExpiredStep
    <3>2. CASE q = <<>>
      <4>1. sched'.queue = <<>>
        BY <2>1, <3>1, <3>2, PrefixFacts
      <4>2. QED BY <3>2, <4>1 DEF IsPrefix
    <3>3. CASE q # <<>>
      <4>1. /\ sched'.queue = Append(Tail(q), x) /\ Head(q) \in on_core(sched')
            /\ Tail(q) \in Seq(S!Jobs(input))
        BY <2>1, <3>1, <3>3, PrefixFacts
      <4>2. IsPrefix(Tail(q), Append(Tail(q), x))
        BY <4>1, PrefixFacts
      <4>3. QED BY <3>3, <4>1, <4>2
    <3>4. QED BY <3>2, <3>3
  <2>4. CASE Arrive
    <3>1. \/ sched'.queue = q
          \/ \E x \in S!Jobs(input) : sched'.queue = Append(q, x)
      BY <2>4, ArriveStep
    <3>2. CASE sched'.queue = q
      BY <2>1, <3>2 DEF IsPrefix
    <3>3. ASSUME NEW x \in S!Jobs(input), sched'.queue = Append(q, x) PROVE Fair
      <4>1. IsPrefix(q, Append(q, x))
        BY <2>1, PrefixFacts
      <4>2. QED BY <3>3, <4>1
    <3>4. QED BY <3>1, <3>2, <3>3
  <2>5. CASE RunUnit \/ NoMoreFinished \/ NoMoreExpired \/ UNCHANGED vars
    <3>1. sched'.queue = q
      BY <2>5, RunUnitStep, PhaseStep
    <3>2. IsPrefix(q, q)
      BY <2>1 DEF IsPrefix
    <3>3. QED BY <3>1, <3>2
  <2>6. QED BY <2>2, <2>3, <2>4, <2>5 DEF Next
<1>2. QED BY <1>1, BothSides, PTL DEF Spec, RoundRobin

\* In every unit the library's cores run the jobs that the scheme says.
LEMMA ChosenFacts ==
  ASSUME Inv, phase = "arrive", Arriving = {}
  PROVE  S!Chosen(Left, on_core(sched))
<1> DEFINE ready   == {x \in S!Jobs(input) : S!Of(input, x).arrival_time <= time /\ Left[x] > 0}
           waiting == ready \ on_core(sched)
           K       == sched.core
           busy    == {c \in CoreIds : K[c] # -1}
<1>1. /\ Valid(input) /\ time \in Nat /\ Once(jobs)
      /\ Left \in [S!Jobs(input) -> Nat]
      /\ Cores(sched) = CoreIds
      /\ DOMAIN sched.job \subseteq S!Jobs(input)
      /\ ToSet(sched.queue) \cup on_core(sched) = DOMAIN sched.job
      /\ K \in [CoreIds -> S!Jobs(input) \cup {-1}]
  BY PlaceFacts
<1>2. ASSUME NEW k \in DOMAIN jobs
      PROVE  /\ jobs[k] \in SimJob /\ jobs[k].job_id \in S!Jobs(input)
             /\ Left[jobs[k].job_id] = jobs[k].run_time
             /\ jobs[k].arrived <=> jobs[k].job_id \in DOMAIN sched.job
             /\ JobAgrees(jobs[k], K, time, phase)
  <2>1. JobAgrees(jobs[k], K, time, phase)
    BY DEF Inv, JobsAgree, JobAgrees
  <2>2. QED BY <2>1, PlaceFacts
<1>3. ASSUME NEW x \in DOMAIN sched.job
      PROVE  /\ x \in ready /\ S!Of(input, x).arrival_time \in Nat
             /\ Left[x] \in Nat /\ Left[x] <= S!Of(input, x).run_time
             /\ S!Of(input, x).run_time \in Nat
  <2>1. PICK k \in DOMAIN jobs : jobs[k].job_id = x
    BY PlaceFacts
  <2>2. Left[x] \in Nat /\ Left[x] # 0 /\ Left[x] <= S!Of(input, x).run_time
    BY <1>1, <1>2, <2>1 DEF JobAgrees
  <2>3. S!Of(input, x).arrival_time <= time
    BY PlaceFacts
  <2>4. x \in S!Jobs(input)
    BY <1>1
  <2>5. S!Of(input, x).run_time \in Nat /\ S!Of(input, x).arrival_time \in Nat
    BY <1>1, <2>4, JobsFacts
  <2>6. QED BY <2>2, <2>3, <2>4, <2>5
<1>4. on_core(sched) \subseteq ready
  BY <1>1, <1>3
<1>5. ASSUME NEW y \in waiting PROVE y \in ToSet(sched.queue) /\ y \in DOMAIN sched.job
  <2>1. PICK k \in DOMAIN jobs : jobs[k].job_id = y
    <3>1. jobs \in Seq(SimJob)
      BY DEF Inv, TypeOK
    <3>2. (\A k \in DOMAIN jobs : jobs[k].job_id # y) => Left[y] = 0
      BY <1>1, <3>1, LeftFacts DEF Left
    <3>3. QED BY <3>2
  <2>2. jobs[k].arrival_time \in Nat /\ jobs[k].arrival_time = S!Of(input, y).arrival_time
    BY <1>2, <2>1 DEF JobAgrees, SimJob
  <2>3. jobs[k].arrived
    <3> SUFFICES ASSUME ~ jobs[k].arrived PROVE FALSE
      OBVIOUS
    <3>1. jobs[k].arrival_time >= time /\ jobs[k].arrival_time <= time
      BY <1>2, <2>2 DEF JobAgrees
    <3>2. jobs[k].arrival_time = time
      BY <1>1, <2>2, <3>1
    <3>3. QED BY <3>2 DEF Arriving
  <2>4. QED BY <1>1, <1>2, <2>1, <2>3
<1>6. IsFiniteSet(CoreIds) /\ Cardinality(CoreIds) = input.cores
  <2> DEFINE last == input.cores - 1
  <2>1. input.cores \in Nat /\ last \in Int /\ ~ 0 > last /\ last - 0 + 1 = input.cores
    BY <1>1, JobsFacts
  <2> HIDE DEF last
  <2>2. /\ IsFiniteSet(0 .. last)
        /\ Cardinality(0 .. last) = IF 0 > last THEN 0 ELSE last - 0 + 1
    <3>1. last \in Int /\ 0 \in Int
      BY <2>1
    <3>2. QED BY ONLY <3>1, FS_Interval
  <2>3. QED BY <2>1, <2>2 DEF CoreIds, last
<1>7. IsFiniteSet(busy) /\ Cardinality(busy) <= input.cores
  BY <1>6, FS_Subset
<1> DEFINE job == [c \in busy |-> K[c]]
<1>8. job \in Surjection(busy, on_core(sched))
  BY <1>1 DEF on_core, Surjection
<1>9. /\ IsFiniteSet(on_core(sched)) /\ Cardinality(on_core(sched)) <= Cardinality(busy)
      /\ job \in Injection(busy, on_core(sched)) => Cardinality(on_core(sched)) = Cardinality(busy)
  BY <1>7, <1>8, FS_Surjection
<1>10. Cardinality(on_core(sched)) <= input.cores
  <2>1. Cardinality(on_core(sched)) \in Nat /\ Cardinality(busy) \in Nat /\ input.cores \in Nat
    BY <1>1, <1>7, <1>9, FS_CardinalityType, JobsFacts
  <2>2. QED BY <1>7, <1>9, <2>1
<1>11. waiting # {} => Cardinality(on_core(sched)) = input.cores
  <2> SUFFICES ASSUME waiting # {} PROVE Cardinality(on_core(sched)) = input.cores
    OBVIOUS
  <2>1. InOnePlace(sched)
    BY DEF Inv, Library
  <2>2. sched.queue # <<>>
    BY <1>5 DEF ToSet
  <2>3. busy = CoreIds
    BY <1>1, <2>1, <2>2 DEF InOnePlace, Available
  <2>4. \A c, d \in busy : K[c] = K[d] => c = d
    BY <1>1, <2>1 DEF InOnePlace
  <2>5. job \in Injection(busy, on_core(sched))
    BY <1>8, <2>4 DEF Injection, Surjection, IsInjective
  <2>6. QED BY <1>6, <1>9, <2>3, <2>5
<1>12. ASSUME NEW x \in on_core(sched), NEW y \in waiting PROVE S!Goes(Left, x, y)
  <2>1. input.scheme # "RR" => Leads(input, Left, time, x, y)
    BY <1>5 DEF Inv, Library, InOrder
  <2>2. CASE input.scheme = "RR"
    BY <2>2 DEF S!Goes
  <2>3. CASE input.scheme \in {"PSJF", "PPRI"}
    BY <2>1, <2>3 DEF S!Goes, Leads
  <2>4. CASE input.scheme \notin {"RR", "PSJF", "PPRI"}
    <3>1. /\ Left[y] = S!Of(input, y).run_time
          /\ Left[x] = S!Of(input, x).run_time =>
               /\ S!Of(input, x).arrival_time < time
               /\ S!Of(input, y).arrival_time = time \/ S!Before(input, Left, x, y)
      BY <2>1, <2>4 DEF Leads
    <3>2. x \in DOMAIN sched.job /\ y \in DOMAIN sched.job
      BY <1>1, <1>5
    <3>3. /\ Left[x] \in Nat /\ S!Of(input, x).run_time \in Nat
          /\ Left[x] <= S!Of(input, x).run_time
          /\ S!Of(input, y).run_time \in Nat /\ S!Of(input, y).arrival_time \in Nat
      BY <1>3, <3>2
    <3>4. S!Rank(Left, y) = IF S!Of(input, y).arrival_time < time THEN 1 ELSE 2
      BY <3>1, <3>3 DEF S!Rank
    <3>5. CASE Left[x] < S!Of(input, x).run_time
      <4>1. S!Rank(Left, x) = 0
        BY <3>5 DEF S!Rank
      <4>2. S!Rank(Left, x) < S!Rank(Left, y)
        BY <3>4, <4>1
      <4>3. QED BY <2>4, <4>2 DEF S!Goes
    <3>6. CASE Left[x] = S!Of(input, x).run_time
      <4>1. S!Rank(Left, x) = 1
        BY <3>1, <3>3, <3>6 DEF S!Rank
      <4>2. CASE S!Of(input, y).arrival_time = time
        <5>1. S!Rank(Left, x) < S!Rank(Left, y)
          BY <1>1, <3>4, <4>1, <4>2
        <5>2. QED BY <2>4, <5>1 DEF S!Goes
      <4>3. CASE S!Before(input, Left, x, y)
        <5>1. \/ S!Rank(Left, x) < S!Rank(Left, y)
              \/ S!Rank(Left, x) = S!Rank(Left, y) /\ S!Rank(Left, y) # 0
          BY <3>4, <4>1
        <5>2. QED BY <2>4, <4>3, <5>1 DEF S!Goes
      <4>4. QED BY <3>1, <3>6, <4>2, <4>3
    <3>7. QED BY <3>3, <3>5, <3>6
  <2>5. QED BY <2>2, <2>3, <2>4
<1>13. \A x \in on_core(sched), y \in waiting : S!Goes(Left, x, y)
  BY <1>12
<1>14. S!Cardinality(on_core(sched)) = Cardinality(on_core(sched))
  BY DEF S!Cardinality, Cardinality
<1>15. QED BY <1>4, <1>10, <1>11, <1>13, <1>14 DEF S!Chosen

LEMMA InitLeft == Init => S!Init
<1> SUFFICES ASSUME Init PROVE S!Init
  OBVIOUS
<1>1. Inv
  BY InitInv
<1>2. Left \in [S!Jobs(input) -> Nat] /\ Valid(input)
  BY <1>1, PlaceFacts
<1>3. ASSUME NEW x \in S!Jobs(input) PROVE Left[x] = S!Of(input, x).run_time
  <2>1. PICK k \in DOMAIN input.file : input.file[k].job_id = x
    BY DEF S!Jobs
  <2>2. k \in DOMAIN jobs /\ jobs[k].job_id = x /\ jobs[k].run_time = input.file[k].run_time
    BY <2>1 DEF Init
  <2>3. Left[x] = jobs[k].run_time
    BY <1>1, <2>2, PlaceFacts
  <2>4. S!Of(input, x) = input.file[k]
    BY <1>2, <2>1, JobsFacts
  <2>5. QED BY <2>2, <2>3, <2>4
<1>4. Left = [x \in S!Jobs(input) |-> S!Of(input, x).run_time]
  BY <1>2, <1>3
<1>5. QED BY <1>4 DEF S!Init, Init

\* Whatever the library and the simulator do with queues, cores, clocks and
\* arrays, in every unit the jobs run that the scheme says, for all jobs, cores
\* and quanta (libpriqueue.c:71-105, libscheduler.c:65-343, doc/scheduler.html).
THEOREM ImplementsSchedule == Spec => FollowsSchedule
<1>1. Inv /\ [Next]_vars => [S!Unit]_S!vars
  <2> SUFFICES ASSUME Inv, [Next]_vars PROVE [S!Unit]_S!vars
    OBVIOUS
  <2>1. CASE RunUnit
    <3>1. /\ time' = time + 1 /\ input' = input /\ phase = "arrive" /\ Arriving = {}
          /\ Left' \in [S!Jobs(input) -> Nat]
          /\ \A x \in S!Jobs(input) :
               Left'[x] = IF x \in on_core(sched) THEN Left[x] - 1 ELSE Left[x]
      BY <2>1, RunUnitStep
    <3>2. S!Chosen(Left, on_core(sched))
      BY <3>1, ChosenFacts
    <3>3. on_core(sched) \in SUBSET S!Jobs(input)
      BY PlaceFacts
    <3>4. Left' = [x \in S!Jobs(input) |-> IF x \in on_core(sched) THEN Left[x] - 1 ELSE Left[x]]
      BY <3>1
    <3>5. S!Unit
      BY <3>1, <3>2, <3>3, <3>4 DEF S!Unit
    <3>6. QED BY <3>5
  <2>2. CASE JobFinished
    <3>1. Left' = Left
      BY <2>2, JobFinishedStep
    <3>2. QED BY <2>2, <3>1 DEF JobFinished, S!vars
  <2>3. CASE QuantumExpired
    <3>1. Left' = Left
      BY <2>3, QuantumExpiredStep
    <3>2. QED BY <2>3, <3>1 DEF QuantumExpired, S!vars
  <2>4. CASE Arrive
    <3>1. Left' = Left
      BY <2>4, ArriveStep
    <3>2. QED BY <2>4, <3>1 DEF Arrive, S!vars
  <2>5. CASE NoMoreFinished \/ NoMoreExpired \/ UNCHANGED vars
    BY <2>5, PhaseStep DEF S!vars
  <2>6. QED BY <2>1, <2>2, <2>3, <2>4, <2>5 DEF Next
<1>2. QED BY <1>1, InitLeft, BothSides, PTL DEF Spec, FollowsSchedule, S!Spec

-----------------------------------------------------------------------------
(* The statistics.                                                         *)

LibraryFields == {"schema", "core", "queue", "job", "wait", "turnaround", "response", "failed"}

JobFields == {"arrival_time", "running_time", "remaining_time", "priority",
              "first_time_on_core", "last_update_time_on_core"}

Shape(s) == DOMAIN s = LibraryFields /\ \A x \in DOMAIN s.job : DOMAIN s.job[x] = JobFields

\* What a function of the library that adds no times leaves of what they are about.
Kept(s, t, now) ==
  /\ Shape(t) /\ DOMAIN t.job = DOMAIN s.job
  /\ t.wait = s.wait /\ t.turnaround = s.turnaround /\ t.response = s.response
  /\ \A x \in DOMAIN s.job :
       /\ t.job[x].first_time_on_core = s.job[x].first_time_on_core
       /\ t.job[x].remaining_time = s.job[x].remaining_time
       /\ t.job[x].running_time = s.job[x].running_time
       /\ t.job[x].last_update_time_on_core \in {s.job[x].last_update_time_on_core, -1, now}

LEMMA KeptTransitive ==
  ASSUME NEW s, NEW t, NEW w, NEW now, Kept(s, t, now), Kept(t, w, now)
  PROVE  Kept(s, w, now)
<1>1. DOMAIN s.job = DOMAIN t.job /\ DOMAIN w.job = DOMAIN t.job /\ Shape(w)
  BY DEF Kept
<1>2. w.wait = s.wait /\ w.turnaround = s.turnaround /\ w.response = s.response
  BY DEF Kept
<1>3. ASSUME NEW x \in DOMAIN s.job
      PROVE  /\ w.job[x].first_time_on_core = s.job[x].first_time_on_core
             /\ w.job[x].remaining_time = s.job[x].remaining_time
             /\ w.job[x].running_time = s.job[x].running_time
             /\ w.job[x].last_update_time_on_core
                  \in {s.job[x].last_update_time_on_core, -1, now}
  BY <1>1 DEF Kept
<1>4. QED BY <1>1, <1>2, <1>3 DEF Kept

\* Jobs change places in the queue and on the cores (libpriqueue.c:71-205,
\* libscheduler.c:130-168).
LEMMA KeptFacts ==
  ASSUME NEW s, Shape(s), NEW now, NEW x, NEW c
  PROVE  /\ Kept(s, priqueue_offer(s, x), now)
         /\ Kept(s, priqueue_remove(s, x), now)
         /\ Kept(s, WithQueue(s, x), now)
         /\ Kept(s, core_assign_on_id(s, c, x, now), now)
         /\ Kept(s, Taken(s, c), now)
<1>1. ASSUME NEW q PROVE Kept(s, [s EXCEPT !.queue = q], now)
  BY DEF Kept, Shape, LibraryFields
<1>2. ASSUME NEW e, NEW y, NEW k, k \in {-1, now}
      PROVE  Kept(s, [s EXCEPT !.core[c] = e, !.job[y].last_update_time_on_core = k], now)
  <2> DEFINE t == [s EXCEPT !.core[c] = e, !.job[y].last_update_time_on_core = k]
  <2>1. /\ DOMAIN t = LibraryFields
        /\ t.wait = s.wait /\ t.turnaround = s.turnaround /\ t.response = s.response
        /\ t.job = [s.job EXCEPT ![y].last_update_time_on_core = k]
    BY DEF Shape, LibraryFields
  <2> HIDE DEF t
  <2>2. DOMAIN t.job = DOMAIN s.job
    BY <2>1
  <2>3. ASSUME NEW z \in DOMAIN s.job
        PROVE  /\ DOMAIN t.job[z] = JobFields
               /\ t.job[z].first_time_on_core = s.job[z].first_time_on_core
               /\ t.job[z].remaining_time = s.job[z].remaining_time
               /\ t.job[z].running_time = s.job[z].running_time
               /\ t.job[z].last_update_time_on_core
                    \in {s.job[z].last_update_time_on_core, -1, now}
    <3>1. DOMAIN s.job[z] = JobFields
      BY DEF Shape
    <3>2. t.job[z] = IF z = y THEN [s.job[z] EXCEPT !.last_update_time_on_core = k] ELSE s.job[z]
      BY <2>1
    <3>3. CASE z = y
      <4>1. t.job[z] = [s.job[z] EXCEPT !.last_update_time_on_core = k]
        BY <3>2, <3>3
      <4>2. t.job[z].last_update_time_on_core = k
        BY <3>1, <4>1 DEF JobFields
      <4>3. QED BY <1>2, <3>1, <4>1, <4>2 DEF JobFields
    <3>4. CASE z # y
      BY <3>1, <3>2, <3>4
    <3>5. QED BY <3>3, <3>4
  <2>4. Shape(t)
    BY <2>1, <2>2, <2>3 DEF Shape
  <2>5. QED BY <2>1, <2>2, <2>3, <2>4 DEF Kept, t
<1>3. Kept(s, priqueue_offer(s, x), now) /\ Kept(s, WithQueue(s, x), now)
  BY <1>1 DEF priqueue_offer, WithQueue
<1>4. Kept(s, priqueue_remove(s, x), now)
  BY <1>1 DEF priqueue_remove
<1>5. Kept(s, core_assign_on_id(s, c, x, now), now)
  <2>1. CASE s.core[c] # -1
    <3>1. Kept(s, [s EXCEPT !.failed = TRUE], now)
      BY DEF Kept, Shape, LibraryFields
    <3>2. QED BY <2>1, <3>1 DEF core_assign_on_id
  <2>2. CASE s.core[c] = -1
    <3>1. core_assign_on_id(s, c, x, now)
            = [s EXCEPT !.core[c] = x, !.job[x].last_update_time_on_core = now]
      BY <2>2 DEF core_assign_on_id
    <3>2. Kept(s, [s EXCEPT !.core[c] = x, !.job[x].last_update_time_on_core = now], now)
      BY <1>2
    <3>3. QED BY <3>1, <3>2
  <2>3. QED BY <2>1, <2>2
<1>6. Kept(s, Taken(s, c), now)
  BY <1>2 DEF Taken
<1>7. QED BY <1>3, <1>4, <1>5, <1>6

\* The same of what the calls do after update_time, but for the sums.
LEMMA KeptByCalls ==
  ASSUME NEW s, Shape(s), NEW now, NEW c
  PROVE  /\ Kept(s, core_job_remove_on_id(s, c), now)
         /\ Kept(s, next_on_core(s, c, now).s, now)
<1>1. Kept(s, core_job_remove_on_id(s, c), now)
  <2> DEFINE t == Taken(s, c)
  <2>1. Kept(s, t, now)
    BY KeptFacts
  <2>2. core_job_remove_on_id(s, c) = priqueue_offer(t, s.core[c])
    BY DEF core_job_remove_on_id, Taken
  <2> HIDE DEF t
  <2>3. Kept(t, priqueue_offer(t, s.core[c]), now)
    BY <2>1, KeptFacts, ZenonT(60) DEF Kept
  <2>4. QED BY <2>1, <2>2, <2>3, KeptTransitive
<1>2. Kept(s, next_on_core(s, c, now).s, now)
  <2>1. CASE s.queue = <<>>
    <3>1. next_on_core(s, c, now).s = s
      BY <2>1 DEF next_on_core
    <3>2. QED BY <3>1 DEF Kept
  <2>2. CASE s.queue # <<>>
    <3> DEFINE t == WithQueue(s, Tail(s.queue))
               h == Head(s.queue)
    <3>1. next_on_core(s, c, now).s = core_assign_on_id(t, c, h, now)
      BY <2>2 DEF next_on_core, WithQueue
    <3>2. Kept(s, t, now)
      BY KeptFacts
    <3> HIDE DEF t, h
    <3>3. Kept(t, core_assign_on_id(t, c, h, now), now)
      BY <3>2, KeptFacts DEF Kept
    <3>4. QED BY <3>1, <3>2, <3>3, KeptTransitive
  <2>3. QED BY <2>1, <2>2
<1>3. QED BY <1>1, <1>2

\* The jobs are as many as the file has.
LEMMA JobsCount ==
  ASSUME NEW in, Valid(in)
  PROVE  IsFiniteSet(S!Jobs(in)) /\ Cardinality(S!Jobs(in)) = Len(in.file)
<1> DEFINE n == Len(in.file)
           q == [i \in 1 .. n |-> in.file[i].job_id]
           F == [job_id : Nat, arrival_time : Nat, run_time : Nat \ {0}, priority : Int]
<1>1. n \in Nat /\ DOMAIN in.file = 1 .. n
  <2>1. in.file \in Seq(F)
    BY DEF Valid, Input
  <2> HIDE DEF F
  <2>2. QED BY <2>1
<1>2. S!Jobs(in) = {q[i] : i \in 1 .. n}
  BY <1>1 DEF S!Jobs
<1>3. \A i, j \in 1 .. n : q[i] = q[j] => i = j
  BY <1>1 DEF Valid
<1> HIDE DEF n
<1>4. q \in Surjection(1 .. n, S!Jobs(in))
  BY <1>2 DEF Surjection
<1>5. q \in Injection(1 .. n, S!Jobs(in))
  BY <1>3, <1>4 DEF Injection, Surjection, IsInjective
<1> HIDE DEF q
<1>6. IsFiniteSet(1 .. n) /\ Cardinality(1 .. n) = n
  BY <1>1, FS_Interval
<1>7. QED BY <1>4, <1>5, <1>6, FS_Surjection DEF n

\* What is summed are numbers, of jobs of the file.
LEMMA SummedFacts ==
  ASSUME NEW in, Valid(in), NEW now \in Nat, NEW l \in [S!Jobs(in) -> Nat], NEW st,
         DOMAIN st \subseteq S!Jobs(in), \A x \in DOMAIN st : st[x] \in Nat
  PROVE  /\ \A x \in S!Jobs(in) :
              /\ Waited(in, l, now)[x]
                   = now - S!Of(in, x).arrival_time - (S!Of(in, x).run_time - l[x])
              /\ Runs(in)[x] = S!Of(in, x).run_time
              /\ Waited(in, l, now)[x] \in Int /\ Runs(in)[x] \in Int
         /\ \A x \in DOMAIN st : /\ Responses(in, st)[x] = st[x] - S!Of(in, x).arrival_time
                                 /\ Responses(in, st)[x] \in Int
         /\ \A X : X \subseteq S!Jobs(in) => IsFiniteSet(X) /\ Cardinality(X) \in Nat
<1>1. \A x \in S!Jobs(in) :
        S!Of(in, x).arrival_time \in Nat /\ S!Of(in, x).run_time \in Nat /\ l[x] \in Nat
  BY JobsFacts
<1>2. \A X : X \subseteq S!Jobs(in) => IsFiniteSet(X) /\ Cardinality(X) \in Nat
  BY JobsCount, FS_Subset, FS_CardinalityType
<1>3. QED BY <1>1, <1>2 DEF Waited, Runs, Responses

\* After update_time: the jobs that have run have been seen to.
Seen(in, s, l, now) ==
  /\ Shape(s)
  /\ \A x \in DOMAIN s.job :
       LET j == s.job[x]
       IN  /\ x \in Unseen(s) <=> l[x] = S!Of(in, x).run_time
           /\ l[x] <= S!Of(in, x).run_time
           /\ j.remaining_time = l[x] /\ j.running_time = S!Of(in, x).run_time
           /\ j.last_update_time_on_core \in {-1, now}

\* The library's state has its fields.
LEMMA LibraryShape ==
  ASSUME NEW in, NEW s, LibraryTypes(in, s)
  PROVE  Shape(s)
BY DEF LibraryTypes, Shape, LibraryFields, JobRecord, JobFields

\* update_time adds the response times of the jobs that it sees to have run
\* (libscheduler.c:68-90).
LEMMA UpdateTimes ==
  ASSUME NEW in, Valid(in), NEW s, NEW now \in Nat, NEW l \in [S!Jobs(in) -> Nat],
         Library(in, s, l, now), NEW st, NEW idle, Times(in, s, l, now, st, idle)
  PROVE  LET u == update_time(s, now)
         IN  /\ Seen(in, u, l, now) /\ DOMAIN u.job = DOMAIN s.job
             /\ SumTypes(u) /\ Sums(in, u, l, now, st, idle)
<1> DEFINE u == update_time(s, now)
           ran(x)       == s.job[x].last_update_time_on_core # now
           responded    == {x \in on_core(s) : s.job[x].first_time_on_core = -1 /\ ran(x)}
           response(x)  == s.job[x].last_update_time_on_core - s.job[x].arrival_time
           times        == [x \in responded |-> response(x)]
           updated(x)   ==
             [s.job[x] EXCEPT
                !.first_time_on_core = IF x \in responded THEN s.job[x].last_update_time_on_core ELSE @,
                !.remaining_time = @ - (now - s.job[x].last_update_time_on_core),
                !.last_update_time_on_core = now]
<1>1. /\ u.wait = s.wait /\ u.turnaround = s.turnaround /\ u.response = adds(s.response, times)
      /\ u.job = [x \in DOMAIN s.job |-> IF x \in on_core(s) THEN updated(x) ELSE s.job[x]]
  BY DEF update_time, Library, LibraryTypes
<1>2. /\ DOMAIN u.job = DOMAIN s.job /\ Library(in, u, l, now) /\ Fresh(in, u, l, now)
      /\ DOMAIN s.job \subseteq S!Jobs(in) /\ on_core(s) \subseteq DOMAIN s.job
  <2>1. DOMAIN u.job = DOMAIN s.job /\ Library(in, u, l, now) /\ Fresh(in, u, l, now)
    BY UpdateFacts
  <2>2. QED BY <2>1 DEF Library, LibraryTypes, InOnePlace
<1> HIDE DEF u, times
<1>3. ASSUME NEW x \in DOMAIN s.job
      PROVE  /\ u.job[x].first_time_on_core
                  = IF x \in responded THEN s.job[x].last_update_time_on_core
                    ELSE s.job[x].first_time_on_core
             /\ x \in Unseen(s) <=> s.job[x].first_time_on_core = -1
             /\ x \in Unseen(u) <=> l[x] = S!Of(in, x).run_time
             /\ l[x] <= S!Of(in, x).run_time
             /\ x \in responded => x \in Unseen(s) /\ x \notin Unseen(u)
             /\ x \notin responded => (x \in Unseen(s) <=> x \in Unseen(u))
  <2> DEFINE j == s.job[x]
             r == S!Of(in, x).run_time
  <2>1. j \in JobRecord /\ l[x] \in Nat /\ r \in Nat
    BY <1>2, JobsFacts DEF Library, LibraryTypes
  <2>2. /\ j.running_time = r
        /\ x \in on_core(s) => /\ j.last_update_time_on_core \in 0 .. now
                               /\ l[x] = j.remaining_time - (now - j.last_update_time_on_core)
        /\ x \notin on_core(s) => l[x] = j.remaining_time
    BY DEF Library, Records
  <2>3. IF j.first_time_on_core = -1 THEN j.remaining_time = r ELSE j.remaining_time < r
    BY <2>2 DEF Times, FirstTimes, Unseen
  <2>4. u.job[x].first_time_on_core
          = IF x \in responded THEN j.last_update_time_on_core ELSE j.first_time_on_core
    <3> HIDE DEF responded
    <3>1. CASE x \in on_core(s)
      <4>1. u.job[x] = updated(x)
        BY <1>1, <3>1
      <4>2. QED BY <2>1, <4>1 DEF JobRecord
    <3>2. CASE x \notin on_core(s)
      <4>1. u.job[x] = s.job[x] /\ x \notin responded
        BY <1>1, <3>2 DEF responded
      <4>2. QED BY <4>1
    <3>3. QED BY <3>1, <3>2
  <2>5. /\ x \in Unseen(s) <=> j.first_time_on_core = -1
        /\ x \in Unseen(u) <=> u.job[x].first_time_on_core = -1
    BY <1>2 DEF Unseen
  <2>6. /\ j.remaining_time \in Int /\ j.last_update_time_on_core \in Int
        /\ j.first_time_on_core \in Int
    BY <2>1 DEF JobRecord
  <2>7. x \in responded <=> /\ x \in on_core(s) /\ j.first_time_on_core = -1
                            /\ j.last_update_time_on_core # now
    OBVIOUS
  <2> HIDE DEF j, r, responded
  <2>8. CASE x \in responded
    BY <2>1, <2>2, <2>3, <2>4, <2>5, <2>6, <2>7, <2>8 DEF j, r
  <2>9. CASE x \notin responded
    BY <2>1, <2>2, <2>3, <2>4, <2>5, <2>6, <2>7, <2>9 DEF j, r
  <2>10. QED BY <2>8, <2>9
<1>4. /\ DOMAIN st \subseteq S!Jobs(in) /\ \A x \in DOMAIN st : st[x] \in Nat
      /\ \A x \in S!Jobs(in) : x \in DOMAIN st <=> l[x] < S!Of(in, x).run_time
  BY DEF Times, FirstTimes
<1>5. Seen(in, u, l, now)
  <2>1. Shape(u)
    BY <1>2, LibraryShape DEF Library
  <2>2. ASSUME NEW x \in DOMAIN u.job
        PROVE  /\ u.job[x].remaining_time = l[x]
               /\ u.job[x].running_time = S!Of(in, x).run_time
               /\ u.job[x].last_update_time_on_core \in {-1, now}
    BY <1>2 DEF Fresh
  <2>3. QED BY <1>2, <1>3, <2>1, <2>2 DEF Seen
<1> DEFINE A == DOMAIN st \ Unseen(s)
           B == DOMAIN st \ Unseen(u)
<1>6. /\ responded \subseteq DOMAIN st /\ A \subseteq DOMAIN st
      /\ A \cap responded = {} /\ B = A \cup responded
  <2>1. responded \subseteq DOMAIN s.job
    BY <1>2
  <2>2. responded \subseteq DOMAIN st
    <3> SUFFICES ASSUME NEW x \in responded PROVE x \in DOMAIN st
      OBVIOUS
    <3>1. x \in DOMAIN s.job /\ x \in S!Jobs(in)
      BY <1>2, <2>1
    <3>2. l[x] <= S!Of(in, x).run_time /\ l[x] # S!Of(in, x).run_time
      BY <1>3, <3>1
    <3>3. l[x] \in Nat /\ S!Of(in, x).run_time \in Nat
      BY <3>1, JobsFacts
    <3> HIDE DEF responded
    <3>4. QED BY <1>4, <3>1, <3>2, <3>3
  <2>3. Unseen(s) \subseteq DOMAIN s.job /\ Unseen(u) \subseteq DOMAIN s.job
    BY <1>2 DEF Unseen
  <2> HIDE DEF responded
  <2>4. A \cap responded = {}
    BY <1>3, <2>1
  <2>5. \A x \in DOMAIN st : x \in Unseen(u) <=> x \in Unseen(s) /\ x \notin responded
    BY <1>3, <2>1, <2>3
  <2>6. B = A \cup responded
    BY <2>2, <2>5
  <2>7. QED BY <2>2, <2>4, <2>6
<1> DEFINE R == Responses(in, st)
<1>7. \A x \in responded : R[x] \in Int /\ times[x] = R[x]
  <2> SUFFICES ASSUME NEW x \in responded PROVE R[x] \in Int /\ times[x] = R[x]
    OBVIOUS
  <2>1. x \in DOMAIN st /\ x \in DOMAIN s.job /\ x \in Unseen(s)
    BY <1>2, <1>6 DEF Unseen
  <2>2. st[x] = s.job[x].last_update_time_on_core
    BY <2>1 DEF Times, FirstTimes
  <2>3. s.job[x].arrival_time = S!Of(in, x).arrival_time
    BY <2>1 DEF Library, Records
  <2>4. R[x] = st[x] - S!Of(in, x).arrival_time /\ R[x] \in Int
    BY <1>4, <2>1, SummedFacts
  <2>5. times[x] = s.job[x].last_update_time_on_core - s.job[x].arrival_time
    BY DEF times
  <2>6. QED BY <2>2, <2>3, <2>4, <2>5
<1>8. DOMAIN times = responded
  BY DEF times
<1>9. /\ IsFiniteSet(A) /\ IsFiniteSet(responded) /\ \A x \in A \cup responded : R[x] \in Int
      /\ Cardinality(A) \in Nat /\ Cardinality(responded) \in Nat
  BY <1>4, <1>6, SummedFacts
<1> HIDE DEF responded, A, B, R
<1>10. SumFunctionOnSet(times, responded) = SumFunctionOnSet(R, responded)
  BY <1>7, <1>9, SumSame
<1>11. SumFunctionOnSet(R, A \cup responded)
         = SumFunctionOnSet(R, A) + SumFunctionOnSet(R, responded)
  BY <1>6, <1>9, SumUnion
<1>12. Cardinality(A \cup responded) = Cardinality(A) + Cardinality(responded)
  <2>1. Cardinality(A \cup responded)
          = Cardinality(A) + Cardinality(responded) - Cardinality(A \cap responded)
    BY <1>9, FS_Union
  <2>2. Cardinality(A \cap responded) = 0
    BY <1>6, FS_EmptySet
  <2>3. QED BY <1>9, <2>1, <2>2
<1>13. SumFunctionOnSet(R, responded) \in Int
  BY <1>9, SumType
<1>14. /\ u.response = [total |-> u.response.total, num |-> u.response.num]
       /\ u.response.total = s.response.total + SumFunctionOnSet(R, responded)
       /\ u.response.num = s.response.num + Cardinality(responded)
  <2>1. u.response = [total |-> s.response.total + SumFunctionOnSet(times, responded),
                      num |-> s.response.num + Cardinality(responded)]
    BY <1>1, <1>8 DEF adds, SumFunction
  <2>2. QED BY <1>10, <2>1
<1>15. /\ s.response.total \in Int /\ s.response.num \in Nat
       /\ s.response.total = SumFunctionOnSet(R, A) /\ s.response.num = Cardinality(A)
  BY DEF Times, SumTypes, Sums, R, A
<1>16. SumTypes(u)
  <2>1. u.response.total \in Int /\ u.response.num \in Nat
    BY <1>9, <1>13, <1>14, <1>15
  <2>2. QED BY <1>1, <1>14, <2>1 DEF Times, SumTypes
<1>17. Sums(in, u, l, now, st, idle)
  <2>1. u.response.total = SumFunctionOnSet(R, B) /\ u.response.num = Cardinality(B)
    BY <1>6, <1>11, <1>12, <1>14, <1>15
  <2>2. Ended(in, u, l) = Ended(in, s, l)
    BY <1>2 DEF Ended
  <2>3. QED BY <1>1, <1>2, <2>1, <2>2 DEF Times, Sums, R, B
<1>18. QED BY <1>2, <1>5, <1>16, <1>17 DEF u

\* What is kept: the sums, and what has been seen.
LEMMA KeptSums ==
  ASSUME NEW in, NEW s, NEW t, NEW now, NEW l, NEW st, NEW idle, Kept(s, t, now)
  PROVE  /\ DOMAIN t.job = DOMAIN s.job /\ Unseen(t) = Unseen(s)
         /\ SumTypes(s) => SumTypes(t)
         /\ Sums(in, s, l, now, st, idle) => Sums(in, t, l, now, st, idle)
         /\ Seen(in, s, l, now) => Seen(in, t, l, now)
<1>1. /\ DOMAIN t.job = DOMAIN s.job
      /\ t.wait = s.wait /\ t.turnaround = s.turnaround /\ t.response = s.response
  BY DEF Kept
<1>2. Unseen(t) = Unseen(s)
  BY DEF Kept, Unseen
<1>3. Ended(in, t, l) = Ended(in, s, l)
  BY <1>1 DEF Ended
<1>4. SumTypes(s) => SumTypes(t)
  BY <1>1 DEF SumTypes
<1>5. Sums(in, s, l, now, st, idle) => Sums(in, t, l, now, st, idle)
  BY <1>1, <1>2, <1>3 DEF Sums
<1>6. ASSUME Seen(in, s, l, now) PROVE Seen(in, t, l, now)
  <2>1. ASSUME NEW x \in DOMAIN t.job
        PROVE  LET j == t.job[x]
               IN  /\ x \in Unseen(t) <=> l[x] = S!Of(in, x).run_time
                   /\ l[x] <= S!Of(in, x).run_time
                   /\ j.remaining_time = l[x] /\ j.running_time = S!Of(in, x).run_time
                   /\ j.last_update_time_on_core \in {-1, now}
    BY <1>1, <1>2, <1>6 DEF Seen, Kept
  <2>2. QED BY <2>1 DEF Seen, Kept
<1>7. QED BY <1>1, <1>2, <1>4, <1>5, <1>6

\* What a call leaves.
LEMMA SeenTimes ==
  ASSUME NEW in, Valid(in), NEW t, NEW now \in Nat, NEW l \in [S!Jobs(in) -> Nat],
         Library(in, t, l, now), Seen(in, t, l, now), SumTypes(t), NEW st, NEW idle,
         Sums(in, t, l, now, st, idle),
         DOMAIN st = {x \in S!Jobs(in) : l[x] < S!Of(in, x).run_time},
         \A x \in DOMAIN st : st[x] \in Nat
  PROVE  Times(in, t, l, now, st, idle)
<1>1. ASSUME NEW x \in DOMAIN t.job
      PROVE  LET j == t.job[x]
             IN  IF x \in Unseen(t)
                   THEN /\ j.remaining_time = j.running_time
                        /\ x \in on_core(t) /\ j.last_update_time_on_core # now
                             => st[x] = j.last_update_time_on_core
                   ELSE j.remaining_time < j.running_time
  <2> DEFINE j == t.job[x]
             r == S!Of(in, x).run_time
  <2>1. /\ x \in Unseen(t) <=> l[x] = r
        /\ l[x] <= r /\ j.remaining_time = l[x] /\ j.running_time = r
        /\ j.last_update_time_on_core \in {-1, now}
    BY DEF Seen
  <2>2. l[x] \in Nat /\ r \in Nat
    BY JobsFacts DEF Library, LibraryTypes
  <2>3. x \in on_core(t) => j.last_update_time_on_core \in 0 .. now
    BY DEF Library, Records
  <2>4. x \in on_core(t) => j.last_update_time_on_core = now
    BY <2>1, <2>3
  <2> HIDE DEF j, r
  <2>5. QED BY <2>1, <2>2, <2>4 DEF j
<1>2. QED BY <1>1 DEF Times, FirstTimes

\* A new job has not waited, and has not run.
LEMMA NewJobTimes ==
  ASSUME NEW in, Valid(in), NEW s, NEW now \in Nat, NEW l \in [S!Jobs(in) -> Nat],
         Library(in, s, l, now),
         NEW x \in S!Jobs(in), x \notin DOMAIN s.job,
         S!Of(in, x).arrival_time = now, l[x] = S!Of(in, x).run_time,
         NEW running_time, running_time = S!Of(in, x).run_time, NEW priority,
         NEW st, NEW idle, Times(in, s, l, now, st, idle),
         NEW t, t = scheduler_new_job(s, x, now, running_time, priority).s,
         Library(in, t, l, now)
  PROVE  Times(in, t, l, now, st, idle)
<1> DEFINE u == update_time(s, now)
           v == [u EXCEPT !.job = [y \in DOMAIN @ \cup {x} |->
                                     IF y = x THEN NewJob(now, running_time, priority) ELSE @[y]]]
           free == core_available(v)
           index == IF v.schema \in {"PSJF", "PPRI"} THEN core_to_preempt(v, x) ELSE -1
           r == core_job_remove_on_id(v, index)
<1>1. /\ t = core_assign_on_id(v, free, x, now)
      \/ t = core_assign_on_id(r, index, x, now)
      \/ t = priqueue_offer(v, x)
  BY DEF scheduler_new_job
<1>2. /\ Seen(in, u, l, now) /\ DOMAIN u.job = DOMAIN s.job
      /\ SumTypes(u) /\ Sums(in, u, l, now, st, idle)
  BY UpdateTimes
<1> HIDE DEF u, free, index
<1>3. /\ DOMAIN v = LibraryFields /\ DOMAIN v.job = DOMAIN u.job \cup {x}
      /\ v.wait = u.wait /\ v.turnaround = u.turnaround /\ v.response = u.response
      /\ \A y \in DOMAIN u.job : v.job[y] = u.job[y]
      /\ v.job[x] = NewJob(now, running_time, priority)
  BY <1>2 DEF Seen, Shape, LibraryFields
<1> HIDE DEF v
<1>4. Shape(v)
  <2>1. DOMAIN NewJob(now, running_time, priority) = JobFields
    BY DEF NewJob, JobFields
  <2>2. QED BY <1>2, <1>3, <2>1 DEF Seen, Shape
<1>5. Kept(v, t, now)
  <2>1. Kept(v, core_assign_on_id(v, free, x, now), now) /\ Kept(v, priqueue_offer(v, x), now)
    BY <1>4, KeptFacts
  <2>2. Kept(v, r, now)
    BY <1>4, KeptByCalls
  <2> HIDE DEF r
  <2>3. Kept(r, core_assign_on_id(r, index, x, now), now)
    BY <2>2, KeptFacts DEF Kept
  <2>4. QED BY <1>1, <2>1, <2>2, <2>3, KeptTransitive
<1>6. Unseen(v) = Unseen(u) \cup {x}
  <2>1. v.job[x].first_time_on_core = -1
    BY <1>3 DEF NewJob
  <2>2. QED BY <1>3, <2>1 DEF Unseen
<1>7. l[x] \in Nat \ {0} /\ x \notin DOMAIN u.job
  BY <1>2, JobsFacts
<1>8. Seen(in, v, l, now)
  <2>1. ASSUME NEW y \in DOMAIN v.job
        PROVE  LET j == v.job[y]
               IN  /\ y \in Unseen(v) <=> l[y] = S!Of(in, y).run_time
                   /\ l[y] <= S!Of(in, y).run_time
                   /\ j.remaining_time = l[y] /\ j.running_time = S!Of(in, y).run_time
                   /\ j.last_update_time_on_core \in {-1, now}
    <3>1. CASE y = x
      BY <1>3, <1>6, <1>7, <3>1 DEF NewJob
    <3>2. CASE y # x
      BY <1>2, <1>3, <1>6, <3>2 DEF Seen
    <3>3. QED BY <3>1, <3>2
  <2>2. QED BY <1>4, <2>1 DEF Seen
<1>9. /\ DOMAIN st = {y \in S!Jobs(in) : l[y] < S!Of(in, y).run_time}
      /\ DOMAIN st \subseteq S!Jobs(in) /\ \A y \in DOMAIN st : st[y] \in Nat
      /\ DOMAIN s.job \subseteq S!Jobs(in)
  BY DEF Times, FirstTimes, Library, LibraryTypes
<1>10. Sums(in, v, l, now, st, idle)
  <2> DEFINE W == Waited(in, l, now)
             D == DOMAIN u.job
  <2>1. W[x] = 0
    <3>1. W[x] = now - S!Of(in, x).arrival_time - (S!Of(in, x).run_time - l[x])
      BY <1>9, SummedFacts
    <3> HIDE DEF W
    <3>2. W[x] = now - now - (l[x] - l[x])
      BY <3>1
    <3>3. QED BY <1>7, <3>2
  <2>2. IsFiniteSet(D) /\ x \notin D /\ (\A y \in D \cup {x} : W[y] \in Int)
        /\ \A y \in D : W[y] \in Int
    <3>1. D \subseteq S!Jobs(in) /\ D \cup {x} \subseteq S!Jobs(in)
      BY <1>2, <1>9
    <3> HIDE DEF W, D
    <3>2. QED BY <1>7, <1>9, <3>1, SummedFacts DEF W, D
  <2> HIDE DEF W, D
  <2>3. SumFunctionOnSet(W, D \cup {x}) = W[x] + SumFunctionOnSet(W, D)
    BY <2>2, SumAdd
  <2>4. SumFunctionOnSet(W, D) \in Int
    BY <2>2, SumType
  <2>5. SumFunctionOnSet(W, DOMAIN v.job) = SumFunctionOnSet(W, DOMAIN u.job)
    BY <1>3, <2>1, <2>3, <2>4 DEF D
  <2>6. Ended(in, v, l) = Ended(in, u, l)
    BY <1>3, <1>7 DEF Ended
  <2>7. DOMAIN st \ Unseen(v) = DOMAIN st \ Unseen(u)
    <3>1. x \notin DOMAIN st
      BY <1>7, <1>9
    <3>2. QED BY <1>6, <3>1
  <2>8. QED BY <1>2, <1>3, <2>5, <2>6, <2>7 DEF Sums, W
<1>11. SumTypes(v)
  BY <1>2, <1>3 DEF SumTypes
<1>12. Seen(in, t, l, now) /\ SumTypes(t) /\ Sums(in, t, l, now, st, idle)
  BY <1>5, <1>8, <1>10, <1>11, KeptSums
<1>13. QED BY <1>9, <1>12, SeenTimes

\* A job that leaves has been on no core for as long as is added, and its response
\* time has been.
LEMMA JobFinishedTimes ==
  ASSUME NEW in, Valid(in), NEW s, NEW now \in Nat, NEW l \in [S!Jobs(in) -> Nat],
         Library(in, s, l, now), NEW c \in Cores(s), s.core[c] # -1, l[s.core[c]] = 0,
         NEW st, NEW idle, Times(in, s, l, now, st, idle),
         NEW t, t = scheduler_job_finished(s, c, s.core[c], now).s,
         Library(in, t, l, now)
  PROVE  Times(in, t, l, now, st, idle)
<1> DEFINE x == s.core[c]
           u == update_time(s, now)
           r == core_job_remove_on_id(u, c)
           v == priqueue_remove(r, x)
           took == now - u.job[x].arrival_time
           w == [v EXCEPT !.wait = add(@, took - u.job[x].running_time),
                          !.turnaround = add(@, took),
                          !.job = Restrict(@, DOMAIN @ \ {x})]
<1>1. u.core = s.core /\ Fresh(in, u, l, now)
  BY UpdateFacts
<1>2. t = next_on_core(w, c, now).s
  BY <1>1 DEF scheduler_job_finished
<1>3. /\ Seen(in, u, l, now) /\ DOMAIN u.job = DOMAIN s.job
      /\ SumTypes(u) /\ Sums(in, u, l, now, st, idle)
  BY UpdateTimes
<1> HIDE DEF u
<1>4. Kept(u, v, now)
  <2>1. Kept(u, r, now)
    BY <1>3, KeptByCalls DEF Seen
  <2> HIDE DEF r
  <2>2. Kept(r, priqueue_remove(r, x), now)
    BY <2>1, KeptFacts, ZenonT(60) DEF Kept
  <2>3. QED BY <2>1, <2>2, KeptTransitive
<1> HIDE DEF v
<1>5. /\ Seen(in, v, l, now) /\ SumTypes(v) /\ Sums(in, v, l, now, st, idle)
      /\ DOMAIN v.job = DOMAIN s.job
  BY <1>3, <1>4, KeptSums
<1>6. x \in on_core(s) /\ x \in DOMAIN s.job /\ DOMAIN s.job \subseteq S!Jobs(in) /\ x \in S!Jobs(in)
  BY DEF on_core, Library, LibraryTypes, InOnePlace
<1> HIDE DEF x
<1> DEFINE a == S!Of(in, x).arrival_time
           b == S!Of(in, x).run_time
<1>7. /\ u.job[x].arrival_time = a /\ u.job[x].running_time = b
      /\ a \in Nat /\ b \in Nat \ {0} /\ l[x] = 0
  BY <1>1, <1>3, <1>6, JobsFacts DEF Fresh, x
<1> HIDE DEF a, b
<1>8. /\ DOMAIN w = LibraryFields /\ DOMAIN w.job = DOMAIN v.job \ {x}
      /\ \A y \in DOMAIN w.job : w.job[y] = v.job[y]
      /\ w.wait = add(v.wait, now - a - b) /\ w.turnaround = add(v.turnaround, now - a)
      /\ w.response = v.response
  BY <1>5, <1>7 DEF Seen, Shape, LibraryFields, Restrict
<1> HIDE DEF w
<1>9. Unseen(w) = Unseen(v) /\ x \notin Unseen(v)
  <2>1. x \notin Unseen(v)
    BY <1>5, <1>6, <1>7 DEF Seen, b
  <2>2. QED BY <1>8, <2>1 DEF Unseen
<1>10. Seen(in, w, l, now)
  <2>1. Shape(w)
    BY <1>5, <1>8 DEF Seen, Shape
  <2>2. QED BY <1>5, <1>8, <1>9, <2>1 DEF Seen
<1>11. /\ v.wait.total \in Int /\ v.wait.num \in Nat
       /\ v.turnaround.total \in Int /\ v.turnaround.num \in Nat
  BY <1>5 DEF SumTypes
<1>12. /\ w.wait = [total |-> v.wait.total + (now - a - b), num |-> v.wait.num + 1]
       /\ w.turnaround = [total |-> v.turnaround.total + (now - a), num |-> v.turnaround.num + 1]
  BY <1>8 DEF add
<1>13. SumTypes(w)
  <2>1. /\ w.wait.total \in Int /\ w.wait.num \in Nat
        /\ w.turnaround.total \in Int /\ w.turnaround.num \in Nat
    BY <1>7, <1>11, <1>12
  <2>2. QED BY <1>5, <1>8, <1>12, <2>1 DEF SumTypes
<1>14. /\ DOMAIN st = {y \in S!Jobs(in) : l[y] < S!Of(in, y).run_time}
       /\ DOMAIN st \subseteq S!Jobs(in) /\ \A y \in DOMAIN st : st[y] \in Nat
  BY DEF Times, FirstTimes
<1> DEFINE W == Waited(in, l, now)
           R == Runs(in)
           D == DOMAIN v.job
           E == Ended(in, v, l)
<1>15. /\ W[x] = now - a - b /\ R[x] = b
       /\ IsFiniteSet(D) /\ x \in D /\ \A y \in D : W[y] \in Int
       /\ IsFiniteSet(D \ {x}) /\ \A y \in D \ {x} : W[y] \in Int
       /\ IsFiniteSet(E) /\ x \notin E /\ \A y \in E \cup {x} : R[y] \in Int
       /\ Cardinality(E) \in Nat
  <2>1. W[x] = now - a - (b - 0) /\ R[x] = b
    <3>1. W[x] = now - a - (b - l[x]) /\ R[x] = b
      BY <1>6, <1>14, SummedFacts, ZenonT(60) DEF a, b
    <3> HIDE DEF W, R
    <3>2. QED BY <1>7, <3>1
  <2>2. D \subseteq S!Jobs(in) /\ D \ {x} \subseteq S!Jobs(in) /\ x \in D
        /\ E \subseteq S!Jobs(in) /\ x \notin E
    BY <1>5, <1>6 DEF Ended
  <2> HIDE DEF W, R, D, E
  <2>3. IsFiniteSet(D) /\ IsFiniteSet(D \ {x}) /\ IsFiniteSet(E) /\ Cardinality(E) \in Nat
    BY <1>14, <2>2, SummedFacts
  <2>4. \A y \in S!Jobs(in) : W[y] \in Int /\ R[y] \in Int
    BY <1>14, SummedFacts DEF W, R
  <2>5. QED BY <1>6, <1>7, <2>1, <2>2, <2>3, <2>4
<1>16. /\ DOMAIN w.job = D \ {x} /\ Ended(in, w, l) = E \cup {x}
  BY <1>6, <1>7, <1>8 DEF Ended
<1>17. /\ v.wait.total + SumFunctionOnSet(W, D) = idle
       /\ v.turnaround.total = v.wait.total + SumFunctionOnSet(R, E)
       /\ v.wait.num = Cardinality(E) /\ v.turnaround.num = Cardinality(E)
  BY <1>5 DEF Sums
<1> HIDE DEF W, R, D, E
<1>18. SumFunctionOnSet(W, D) = W[x] + SumFunctionOnSet(W, D \ {x})
  BY <1>15, SumRemove
<1>19. SumFunctionOnSet(R, E \cup {x}) = R[x] + SumFunctionOnSet(R, E)
  BY <1>15, SumAdd
<1>20. SumFunctionOnSet(W, D \ {x}) \in Int /\ SumFunctionOnSet(R, E) \in Int
  BY <1>15, SumType
<1>21. Cardinality(E \cup {x}) = Cardinality(E) + 1
  BY <1>15, FS_AddElement
<1>22. /\ w.wait.total + SumFunctionOnSet(W, D \ {x}) = idle
       /\ w.turnaround.total = w.wait.total + SumFunctionOnSet(R, E \cup {x})
       /\ w.wait.num = Cardinality(E \cup {x}) /\ w.turnaround.num = Cardinality(E \cup {x})
  BY <1>7, <1>11, <1>12, <1>15, <1>17, <1>18, <1>19, <1>20, <1>21
<1>23. Sums(in, w, l, now, st, idle)
  BY <1>5, <1>8, <1>9, <1>16, <1>22 DEF Sums, W, R
<1>24. Kept(w, t, now)
  BY <1>2, <1>10, KeptByCalls DEF Seen
<1>25. Seen(in, t, l, now) /\ SumTypes(t) /\ Sums(in, t, l, now, st, idle)
  BY <1>10, <1>13, <1>23, <1>24, KeptSums
<1>26. QED BY <1>14, <1>25, SeenTimes

\* A job that gives its core to another keeps its times (libscheduler.c:357-377).
LEMMA QuantumExpiredTimes ==
  ASSUME NEW in, Valid(in), NEW s, NEW now \in Nat, NEW l \in [S!Jobs(in) -> Nat],
         Library(in, s, l, now), NEW c, NEW st, NEW idle, Times(in, s, l, now, st, idle),
         NEW t, t = scheduler_quantum_expired(s, c, now).s, Library(in, t, l, now)
  PROVE  Times(in, t, l, now, st, idle)
<1> DEFINE u == update_time(s, now)
           r == core_job_remove_on_id(u, c)
<1>1. /\ Seen(in, u, l, now) /\ SumTypes(u) /\ Sums(in, u, l, now, st, idle)
      /\ t = next_on_core(r, c, now).s
  BY UpdateTimes DEF scheduler_quantum_expired
<1> HIDE DEF u
<1>2. Kept(u, r, now)
  BY <1>1, KeptByCalls DEF Seen
<1> HIDE DEF r
<1>3. Kept(r, t, now)
  BY <1>1, <1>2, KeptByCalls DEF Kept
<1>4. Seen(in, t, l, now) /\ SumTypes(t) /\ Sums(in, t, l, now, st, idle)
  BY <1>1, <1>2, <1>3, KeptSums, KeptTransitive
<1>5. /\ DOMAIN st = {y \in S!Jobs(in) : l[y] < S!Of(in, y).run_time}
      /\ \A y \in DOMAIN st : st[y] \in Nat
  BY DEF Times, FirstTimes
<1>6. QED BY <1>4, <1>5, SeenTimes

\* How long a job has been on no core.
LEMMA WaitedFacts ==
  ASSUME NEW in, NEW l, NEW now, NEW x \in S!Jobs(in)
  PROVE  Waited(in, l, now)[x]
           = now - S!Of(in, x).arrival_time - (S!Of(in, x).run_time - l[x])
BY DEF Waited

\* A unit of time: the jobs that are known and on no core have waited for one more,
\* and those on a core that have not run yet have begun (simulator.c:383-469).
LEMMA UnitTimes ==
  ASSUME NEW in, Valid(in), NEW s, NEW now \in Nat, NEW l \in [S!Jobs(in) -> Nat],
         Library(in, s, l, now),
         \A x \in on_core(s) : l[x] > 0 /\ l[x] <= S!Of(in, x).run_time,
         NEW m \in [S!Jobs(in) -> Nat],
         \A x \in S!Jobs(in) : m[x] = IF x \in on_core(s) THEN l[x] - 1 ELSE l[x],
         NEW st, NEW idle, Times(in, s, l, now, st, idle),
         NEW new, DOMAIN new = DOMAIN st \cup on_core(s),
         \A x \in DOMAIN new : new[x] = IF x \in DOMAIN st THEN st[x] ELSE now
  PROVE  Times(in, s, m, now + 1, new, idle + Cardinality(DOMAIN s.job \ on_core(s)))
<1> DEFINE D == DOMAIN s.job
           K == D \ on_core(s)
<1>1. /\ D \subseteq S!Jobs(in) /\ on_core(s) \subseteq D
      /\ DOMAIN st = {x \in S!Jobs(in) : l[x] < S!Of(in, x).run_time}
      /\ DOMAIN st \subseteq S!Jobs(in) /\ \A x \in DOMAIN st : st[x] \in Nat
  BY DEF Library, LibraryTypes, InOnePlace, Times, FirstTimes
<1>2. ASSUME NEW x \in S!Jobs(in)
      PROVE  /\ l[x] \in Nat /\ m[x] \in Nat
             /\ S!Of(in, x).arrival_time \in Nat /\ S!Of(in, x).run_time \in Nat
  BY JobsFacts
<1>3. DOMAIN new = {x \in S!Jobs(in) : m[x] < S!Of(in, x).run_time}
  <2>1. ASSUME NEW x \in S!Jobs(in)
        PROVE  x \in DOMAIN new <=> m[x] < S!Of(in, x).run_time
    BY <1>1, <1>2
  <2>2. QED BY <1>1, <2>1
<1>4. DOMAIN new \subseteq S!Jobs(in) /\ \A x \in DOMAIN new : new[x] \in Nat
  BY <1>1
<1>5. ASSUME NEW x \in D
      PROVE  /\ IF x \in Unseen(s)
                  THEN /\ s.job[x].remaining_time = s.job[x].running_time
                       /\ x \in on_core(s) => new[x] = s.job[x].last_update_time_on_core
                  ELSE s.job[x].remaining_time < s.job[x].running_time
             /\ x \in on_core(s) /\ x \notin DOMAIN st => x \in Unseen(s)
  <2> DEFINE j == s.job[x]
             r == S!Of(in, x).run_time
  <2>1. /\ IF x \in Unseen(s)
             THEN /\ j.remaining_time = j.running_time
                  /\ x \in on_core(s) /\ j.last_update_time_on_core # now
                       => st[x] = j.last_update_time_on_core
             ELSE j.remaining_time < j.running_time
    BY DEF Times, FirstTimes
  <2>2. /\ j.running_time = r
        /\ x \in on_core(s) => /\ j.last_update_time_on_core \in 0 .. now
                               /\ l[x] = j.remaining_time - (now - j.last_update_time_on_core)
    BY DEF Library, Records
  <2>3. j \in JobRecord /\ l[x] \in Nat /\ r \in Nat
    BY <1>1, <1>2 DEF Library, LibraryTypes
  <2>4. j.remaining_time \in Int
    BY <2>3 DEF JobRecord
  <2>5. x \in DOMAIN st <=> l[x] < r
    BY <1>1
  <2>6. x \in on_core(s) => x \in DOMAIN new /\ new[x] = IF x \in DOMAIN st THEN st[x] ELSE now
    OBVIOUS
  <2> HIDE DEF j, r
  <2>7. ASSUME x \in on_core(s), x \in Unseen(s)
        PROVE  new[x] = j.last_update_time_on_core
    <3>1. CASE j.last_update_time_on_core = now
      BY <2>1, <2>2, <2>3, <2>4, <2>5, <2>6, <2>7, <3>1
    <3>2. CASE j.last_update_time_on_core # now
      BY <2>1, <2>2, <2>3, <2>4, <2>5, <2>6, <2>7, <3>2
    <3>3. QED BY <3>1, <3>2
  <2>8. x \in on_core(s) /\ x \notin DOMAIN st => x \in Unseen(s)
    BY <2>1, <2>2, <2>3, <2>4, <2>5
  <2>9. QED BY <2>1, <2>7, <2>8 DEF j
<1>6. FirstTimes(in, s, m, now + 1, new)
  BY <1>3, <1>4, <1>5 DEF FirstTimes
<1> DEFINE W == Waited(in, l, now)
           V == Waited(in, m, now + 1)
<1>7. ASSUME NEW x \in D
      PROVE  W[x] \in Int /\ V[x] = IF x \in K THEN W[x] + 1 ELSE W[x]
  <2>1. x \in S!Jobs(in)
    BY <1>1
  <2>2. W[x] = now - S!Of(in, x).arrival_time - (S!Of(in, x).run_time - l[x])
    BY <2>1, WaitedFacts
  <2>3. V[x] = (now + 1) - S!Of(in, x).arrival_time - (S!Of(in, x).run_time - m[x])
    <3> DEFINE next == now + 1
    <3> HIDE DEF next
    <3>1. Waited(in, m, next)[x]
            = next - S!Of(in, x).arrival_time - (S!Of(in, x).run_time - m[x])
      BY <2>1, WaitedFacts
    <3>2. QED BY <3>1 DEF next
  <2>4. m[x] = IF x \in K THEN l[x] ELSE l[x] - 1
    BY <1>1, <2>1
  <2> HIDE DEF K, W, V
  <2>5. QED BY <1>2, <2>1, <2>2, <2>3, <2>4
<1>8. IsFiniteSet(D) /\ IsFiniteSet(K) /\ Cardinality(K) \in Nat /\ D \cap K = K
  <2>1. K \subseteq S!Jobs(in) /\ D \cap K = K
    BY <1>1
  <2> HIDE DEF D, K
  <2>2. QED BY <1>1, <2>1, SummedFacts
<1>9. /\ SumTypes(s) /\ Sums(in, s, l, now, st, idle)
  BY DEF Times
<1>10. s.wait.total + SumFunctionOnSet(V, D) = idle + Cardinality(K)
  <2>1. s.wait.total + SumFunctionOnSet(W, D) = idle /\ s.wait.total \in Int
    BY <1>9 DEF Sums, SumTypes
  <2> HIDE DEF W, V, D, K
  <2>2. SumFunctionOnSet(V, D) = SumFunctionOnSet(W, D) + Cardinality(K)
    <3>1. \A x \in D : W[x] \in Int
      BY <1>7
    <3>2. \A x \in D : V[x] = IF x \in K THEN W[x] + 1 ELSE W[x]
      BY <1>7
    <3>3. IsFiniteSet(D)
      BY <1>8
    <3>4. SumFunctionOnSet(V, D) = SumFunctionOnSet(W, D) + Cardinality(D \cap K)
      BY ONLY <3>1, <3>2, <3>3, SumChange
    <3>5. QED BY <1>8, <3>4
  <2>3. SumFunctionOnSet(W, D) \in Int
    BY <1>7, <1>8, SumType
  <2>4. QED BY <1>8, <2>1, <2>2, <2>3
<1>11. Ended(in, s, m) = Ended(in, s, l)
  <2>1. \A x \in S!Jobs(in) \ D : m[x] = l[x]
    BY <1>1
  <2>2. QED BY <2>1 DEF Ended
<1> DEFINE A == DOMAIN st \ Unseen(s)
<1>12. DOMAIN new \ Unseen(s) = A
  BY <1>1, <1>5
<1>13. SumFunctionOnSet(Responses(in, new), A) = SumFunctionOnSet(Responses(in, st), A)
  <2>1. ASSUME NEW x \in A
        PROVE  Responses(in, st)[x] \in Int /\ Responses(in, new)[x] = Responses(in, st)[x]
    <3>1. x \in DOMAIN st /\ x \in DOMAIN new /\ new[x] = st[x]
      OBVIOUS
    <3>2. Responses(in, st)[x] = st[x] - S!Of(in, x).arrival_time /\ Responses(in, st)[x] \in Int
      BY <1>1, <3>1, SummedFacts
    <3>3. Responses(in, new)[x] = new[x] - S!Of(in, x).arrival_time
      BY <3>1 DEF Responses
    <3>4. QED BY <3>1, <3>2, <3>3
  <2>2. IsFiniteSet(A)
    <3>1. A \subseteq S!Jobs(in)
      BY <1>1
    <3> HIDE DEF A
    <3>2. QED BY <1>1, <3>1, SummedFacts
  <2> HIDE DEF A
  <2>3. QED BY <2>1, <2>2, SumSame
<1>14. Sums(in, s, m, now + 1, new, idle + Cardinality(K))
  BY <1>9, <1>10, <1>11, <1>12, <1>13 DEF Sums
<1>15. QED BY <1>6, <1>9, <1>14 DEF Times

TimesNow == Times(input, sched, Left, time, started, idled)

\* No job has run, and nothing has been added.
LEMMA InitTimes == Init => TimesNow
<1> SUFFICES ASSUME Init PROVE TimesNow
  OBVIOUS
<1>1. Inv
  BY InitInv
<1>2. /\ Valid(input) /\ time \in Nat /\ Left \in [S!Jobs(input) -> Nat]
      /\ \A k \in DOMAIN jobs : Left[jobs[k].job_id] = jobs[k].run_time
  BY <1>1, PlaceFacts
<1>3. /\ started = <<>> /\ idled = 0
      /\ sched.job = <<>> /\ sched.wait = NoSum /\ sched.turnaround = NoSum
      /\ sched.response = NoSum
  BY DEF Init, scheduler_start_up
<1>4. DOMAIN sched.job = {} /\ DOMAIN started = {}
  BY <1>3
<1>5. ASSUME NEW x \in S!Jobs(input)
      PROVE  Left[x] = S!Of(input, x).run_time /\ Left[x] \in Nat \ {0}
  <2>1. PICK i \in DOMAIN input.file : input.file[i].job_id = x
    BY DEF S!Jobs
  <2>2. i \in DOMAIN jobs /\ jobs[i].job_id = x /\ jobs[i].run_time = input.file[i].run_time
    BY <2>1 DEF Init
  <2>3. S!Of(input, x) = input.file[i] /\ S!Of(input, x).run_time \in Nat \ {0}
    BY <1>2, <2>1, JobsFacts
  <2>4. QED BY <1>2, <2>2, <2>3
<1>6. FirstTimes(input, sched, Left, time, started)
  <2>1. {x \in S!Jobs(input) : Left[x] < S!Of(input, x).run_time} = {}
    BY <1>5
  <2>2. QED BY <1>4, <2>1 DEF FirstTimes
<1>7. SumTypes(sched)
  BY <1>3 DEF SumTypes, NoSum
<1>8. Ended(input, sched, Left) = {} /\ DOMAIN started \ Unseen(sched) = {}
  BY <1>4, <1>5 DEF Ended
<1>9. Cardinality({}) = 0 /\ \A g : SumFunctionOnSet(g, {}) = 0
  BY FS_EmptySet, SumPick
<1>10. Sums(input, sched, Left, time, started, idled)
  <2>1. /\ sched.wait.total = 0 /\ sched.wait.num = 0
        /\ sched.turnaround.total = 0 /\ sched.turnaround.num = 0
        /\ sched.response.total = 0 /\ sched.response.num = 0
    BY <1>3 DEF NoSum
  <2>2. QED BY <1>3, <1>4, <1>8, <1>9, <2>1 DEF Sums
<1>11. QED BY <1>6, <1>7, <1>10 DEF Times, TimesNow

\* The steps of the simulator, by what the calls they make do.
LEMMA JobFinishedSums ==
  ASSUME Inv, TimesNow, JobFinished
  PROVE  TimesNow'
<1> DEFINE i == Min(Finished)
           c == jobs[i].core_id
           x == jobs[i].job_id
<1>1. /\ Valid(input) /\ time \in Nat /\ Left \in [S!Jobs(input) -> Nat]
      /\ Cores(sched) = CoreIds
  BY PlaceFacts
<1>2. /\ sched' = scheduler_job_finished(sched, c, x, time).s
      /\ input' = input /\ time' = time /\ started' = started /\ idled' = idled
      /\ Finished # {}
  BY DEF JobFinished
<1>3. i \in DOMAIN jobs /\ jobs[i].run_time = 0
  <2>1. Finished \in SUBSET Nat /\ Finished \subseteq DOMAIN jobs
    <3>1. jobs \in Seq(SimJob)
      BY DEF Inv, TypeOK
    <3> HIDE DEF SimJob
    <3>2. DOMAIN jobs \subseteq Nat
      BY <3>1
    <3>3. QED BY <3>2 DEF Finished
  <2>2. i \in Finished
    BY <1>2, <2>1, MinFacts
  <2>3. QED BY <2>1, <2>2 DEF Finished
<1> HIDE DEF i
<1>4. c \in CoreIds /\ sched.core[c] = x /\ x # -1 /\ Left[x] = 0
  <2>1. c # -1
    BY <1>3 DEF Inv, JobsAgree
  <2>2. c \in CoreIds /\ sched.core[c] = x /\ x \in S!Jobs(input) /\ Left[x] = 0
    BY <1>3, <2>1, PlaceFacts
  <2>3. QED BY <1>1, <2>2, JobsFacts
<1> HIDE DEF c, x
<1>5. Inv' /\ Left' = Left
  BY JobFinishedStep
<1>6. Library(input, sched, Left, time) /\ Library(input, sched', Left, time)
  BY <1>2, <1>5 DEF Inv
<1> DEFINE t == sched'
<1>7. t = scheduler_job_finished(sched, c, sched.core[c], time).s /\ Library(input, t, Left, time)
  BY <1>2, <1>4, <1>6
<1> HIDE DEF t
<1>8. Times(input, t, Left, time, started, idled)
  BY <1>1, <1>4, <1>6, <1>7, JobFinishedTimes DEF TimesNow
<1>9. QED BY <1>2, <1>5, <1>8 DEF TimesNow, t

LEMMA QuantumExpiredSums ==
  ASSUME Inv, TimesNow, QuantumExpired
  PROVE  TimesNow'
<1>1. Valid(input) /\ time \in Nat /\ Left \in [S!Jobs(input) -> Nat]
  BY PlaceFacts
<1>2. PICK c : /\ sched' = scheduler_quantum_expired(sched, c, time).s
               /\ input' = input /\ time' = time /\ started' = started /\ idled' = idled
  BY DEF QuantumExpired
<1>3. Inv' /\ Left' = Left
  BY QuantumExpiredStep
<1>4. Library(input, sched, Left, time) /\ Library(input, sched', Left, time)
  BY <1>2, <1>3 DEF Inv
<1> DEFINE t == sched'
<1>5. t = scheduler_quantum_expired(sched, c, time).s /\ Library(input, t, Left, time)
  BY <1>2, <1>4
<1> HIDE DEF t
<1>6. Times(input, t, Left, time, started, idled)
  BY <1>1, <1>4, <1>5, QuantumExpiredTimes DEF TimesNow
<1>7. QED BY <1>2, <1>3, <1>6 DEF TimesNow, t

LEMMA ArriveSums ==
  ASSUME Inv, TimesNow, Arrive
  PROVE  TimesNow'
<1> DEFINE i == Min(Arriving)
           x == jobs[i].job_id
<1>1. /\ Valid(input) /\ time \in Nat /\ Left \in [S!Jobs(input) -> Nat]
  BY PlaceFacts
<1>2. /\ sched' = scheduler_new_job(sched, x, time, jobs[i].run_time, jobs[i].priority).s
      /\ input' = input /\ time' = time /\ started' = started /\ idled' = idled
      /\ Arriving # {}
  BY DEF Arrive
<1>3. i \in DOMAIN jobs /\ jobs[i].arrival_time = time /\ ~ jobs[i].arrived
  <2>1. Arriving \in SUBSET Nat /\ Arriving \subseteq DOMAIN jobs
    <3>1. jobs \in Seq(SimJob)
      BY DEF Inv, TypeOK
    <3> HIDE DEF SimJob
    <3>2. DOMAIN jobs \subseteq Nat
      BY <3>1
    <3>3. QED BY <3>2 DEF Arriving
  <2>2. i \in Arriving
    BY <1>2, <2>1, MinFacts
  <2>3. QED BY <2>1, <2>2 DEF Arriving
<1> HIDE DEF i
<1>4. /\ x \in S!Jobs(input) /\ x \notin DOMAIN sched.job
      /\ S!Of(input, x).arrival_time = time
      /\ jobs[i].run_time = S!Of(input, x).run_time /\ Left[x] = S!Of(input, x).run_time
  <2>1. x \in S!Jobs(input) /\ x \notin DOMAIN sched.job /\ Left[x] = jobs[i].run_time
    BY <1>3, PlaceFacts
  <2>2. S!Of(input, x).arrival_time = time /\ jobs[i].run_time = S!Of(input, x).run_time
    BY <1>3 DEF Inv, JobsAgree
  <2>3. QED BY <2>1, <2>2
<1> HIDE DEF x
<1>5. Inv' /\ Left' = Left
  BY ArriveStep
<1>6. Library(input, sched, Left, time) /\ Library(input, sched', Left, time)
  BY <1>2, <1>5 DEF Inv
<1> DEFINE t == sched'
<1>7. /\ t = scheduler_new_job(sched, x, time, jobs[i].run_time, jobs[i].priority).s
      /\ Library(input, t, Left, time)
  BY <1>2, <1>6
<1> HIDE DEF t
<1>8. Times(input, t, Left, time, started, idled)
  BY <1>1, <1>4, <1>6, <1>7, NewJobTimes DEF TimesNow
<1>9. QED BY <1>2, <1>5, <1>8 DEF TimesNow, t

\* The jobs that wait are those that the library knows and that are on no core.
LEMMA RunUnitSums ==
  ASSUME Inv, TimesNow, RunUnit
  PROVE  TimesNow'
<1> DEFINE running == {i \in DOMAIN jobs : jobs[i].core_id # -1}
           alive   == {i \in DOMAIN jobs : jobs[i].arrived}
           fresh   == {jobs[i].job_id : i \in running} \ DOMAIN started
           K       == DOMAIN sched.job \ on_core(sched)
<1>1. /\ Valid(input) /\ time \in Nat /\ Once(jobs) /\ Left \in [S!Jobs(input) -> Nat]
      /\ on_core(sched) \subseteq DOMAIN sched.job /\ DOMAIN sched.job \subseteq S!Jobs(input)
      /\ \A k \in DOMAIN jobs :
           /\ Left[jobs[k].job_id] = jobs[k].run_time
           /\ jobs[k].arrived <=> jobs[k].job_id \in DOMAIN sched.job
           /\ jobs[k].core_id # -1 <=> jobs[k].job_id \in on_core(sched)
      /\ \A x \in DOMAIN sched.job : \E k \in DOMAIN jobs : jobs[k].job_id = x /\ jobs[k].arrived
  BY PlaceFacts
<1>2. /\ idled' = idled + Cardinality(alive \ running)
      /\ started' = [x \in DOMAIN started \cup fresh |-> IF x \in fresh THEN time ELSE started[x]]
      /\ phase = "arrive"
  BY DEF RunUnit
<1>3. /\ Inv' /\ sched' = sched /\ time' = time + 1 /\ input' = input
      /\ Left' \in [S!Jobs(input) -> Nat]
      /\ \A x \in S!Jobs(input) : Left'[x] = IF x \in on_core(sched) THEN Left[x] - 1 ELSE Left[x]
  BY RunUnitStep
<1>4. {jobs[i].job_id : i \in running} = on_core(sched)
  <2>1. \A x \in on_core(sched) : \E k \in running : jobs[k].job_id = x
    BY <1>1
  <2>2. QED BY <1>1, <2>1
<1>5. Cardinality(alive \ running) = Cardinality(K)
  <2> DEFINE A == alive \ running
             f == [k \in A |-> jobs[k].job_id]
  <2>1. \A x \in K : \E k \in A : jobs[k].job_id = x
    BY <1>1
  <2>2. \A k \in A : jobs[k].job_id \in K
    BY <1>1
  <2>3. \A j, k \in A : jobs[j].job_id = jobs[k].job_id => j = k
    BY <1>1 DEF Once
  <2>4. IsFiniteSet(A)
    <3>1. jobs \in Seq(SimJob)
      BY DEF Inv, TypeOK
    <3>2. IsFiniteSet(DOMAIN jobs)
      <4> HIDE DEF SimJob
      <4>1. DOMAIN jobs = 1 .. Len(jobs) /\ Len(jobs) \in Nat
        BY <3>1
      <4>2. QED BY <4>1, FS_Interval
    <3>3. A \subseteq DOMAIN jobs
      OBVIOUS
    <3> HIDE DEF A
    <3>4. QED BY <3>2, <3>3, FS_Subset
  <2> HIDE DEF A, K
  <2>5. f \in Surjection(A, K)
    BY <2>1, <2>2 DEF Surjection
  <2>6. f \in Injection(A, K)
    BY <2>3, <2>5 DEF Injection, Surjection, IsInjective
  <2> HIDE DEF f
  <2>7. Cardinality(K) = Cardinality(A)
    BY <2>4, <2>5, <2>6, FS_Surjection
  <2>8. QED BY <2>7 DEF A
<1>6. \A x \in on_core(sched) : Left[x] > 0 /\ Left[x] <= S!Of(input, x).run_time
  <2> SUFFICES ASSUME NEW x \in on_core(sched)
               PROVE  Left[x] > 0 /\ Left[x] <= S!Of(input, x).run_time
    OBVIOUS
  <2>1. PICK k \in DOMAIN jobs : jobs[k].job_id = x
    BY <1>1
  <2>2. Left[x] = jobs[k].run_time /\ Left[x] \in Nat
    BY <1>1, <2>1
  <2>3. jobs[k].run_time # 0 /\ jobs[k].run_time <= S!Of(input, x).run_time
    BY <1>2, <2>1 DEF Inv, JobsAgree
  <2>4. QED BY <2>2, <2>3
<1> DEFINE new == started'
           m == Left'
<1>7. /\ DOMAIN new = DOMAIN started \cup on_core(sched)
      /\ \A x \in DOMAIN new : new[x] = IF x \in DOMAIN started THEN started[x] ELSE time
  <2>1. DOMAIN started \cup fresh = DOMAIN started \cup on_core(sched)
    BY <1>4
  <2>2. \A x \in DOMAIN started \cup fresh : x \in fresh <=> x \notin DOMAIN started
    OBVIOUS
  <2> HIDE DEF fresh
  <2>3. QED BY <1>2, <2>1, <2>2
<1>8. /\ m \in [S!Jobs(input) -> Nat]
      /\ \A x \in S!Jobs(input) : m[x] = IF x \in on_core(sched) THEN Left[x] - 1 ELSE Left[x]
  BY <1>3
<1> HIDE DEF new, m
<1>9. Times(input, sched, Left, time, started, idled) /\ Library(input, sched, Left, time)
  BY DEF TimesNow, Inv
<1>10. Times(input, sched, m, time + 1, new, idled + Cardinality(K))
  BY <1>1, <1>6, <1>7, <1>8, <1>9, UnitTimes
<1> HIDE DEF K, alive, running
<1>11. idled' = idled + Cardinality(K)
  BY <1>2, <1>5
<1>12. QED BY <1>3, <1>10, <1>11 DEF TimesNow, m, new

LEMMA InitIInv == Init => IInv
<1> SUFFICES ASSUME Init PROVE IInv
  OBVIOUS
<1>1. phase # "end"
  BY DEF Init
<1>2. QED BY <1>1, InitInv, InitTimes DEF IInv, TimesNow

LEMMA StepIInv == IInv /\ [Next]_vars => IInv'
<1> SUFFICES ASSUME IInv, [Next]_vars PROVE IInv'
  OBVIOUS
<1>1. Inv /\ TimesNow /\ (phase = "end" => jobs = <<>>)
  BY DEF IInv, TimesNow
<1>2. Inv'
  BY <1>1, StepInv
<1>3. TimesNow'
  <2>1. CASE JobFinished
    BY <1>1, <2>1, JobFinishedSums
  <2>2. CASE QuantumExpired
    BY <1>1, <2>2, QuantumExpiredSums
  <2>3. CASE Arrive
    BY <1>1, <2>3, ArriveSums
  <2>4. CASE RunUnit
    BY <1>1, <2>4, RunUnitSums
  <2>5. CASE NoMoreFinished \/ NoMoreExpired \/ UNCHANGED vars
    <3>1. Left' = Left /\ UNCHANGED <<input, time, sched>>
      BY <1>1, <2>5, PhaseStep
    <3>2. started' = started /\ idled' = idled
      BY <2>5 DEF NoMoreFinished, NoMoreExpired, vars
    <3>3. QED BY <1>1, <3>1, <3>2 DEF TimesNow
  <2>6. QED BY <2>1, <2>2, <2>3, <2>4, <2>5 DEF Next
<1>4. (phase = "end" => jobs = <<>>)'
  <2>1. CASE JobFinished \/ QuantumExpired
    BY <2>1 DEF JobFinished, QuantumExpired, Named
  <2>2. CASE Arrive \/ RunUnit
    BY <2>2 DEF Arrive, RunUnit
  <2>3. CASE NoMoreFinished \/ NoMoreExpired \/ UNCHANGED vars
    BY <1>1, <2>3 DEF NoMoreFinished, NoMoreExpired, vars
  <2>4. QED BY <2>1, <2>2, <2>3 DEF Next
<1>5. QED BY <1>2, <1>3, <1>4 DEF IInv, TimesNow

\* No call of the simulator fails a check, the simulator and the library agree
\* where each job is, no core is idle while a job waits, and the sums of the
\* statistics are those of the jobs that have left or begun, however many jobs,
\* cores and quanta (simulator.c:246-374, libscheduler.c:35-90, 282-343).
THEOREM Invariance == Spec => []IInv
BY InitIInv, StepIInv, PTL DEF Spec

LEMMA IInvStatistics == IInv => Statistics
<1> SUFFICES ASSUME IInv, phase = "end" PROVE Statistics
  BY DEF Statistics
<1>1. Inv /\ jobs = <<>> /\ Times(input, sched, Left, time, started, idled)
  BY DEF IInv
<1>2. /\ Valid(input) /\ time \in Nat /\ Left \in [S!Jobs(input) -> Nat]
      /\ DOMAIN jobs = {} /\ DOMAIN sched.job = {}
  <2>1. DOMAIN jobs = {}
    BY <1>1
  <2>2. QED BY <1>1, <2>1, PlaceFacts
<1> DEFINE J == S!Jobs(input)
<1>3. ASSUME NEW x \in J PROVE Left[x] = 0
  <2>1. jobs \in Seq(SimJob) /\ Once(jobs)
    BY <1>1, PlaceFacts DEF Inv, TypeOK
  <2>2. QED BY <1>2, <2>1, LeftFacts DEF Left
<1>4. /\ Ended(input, sched, Left) = J /\ Unseen(sched) = {}
      /\ DOMAIN started = J /\ \A x \in J : started[x] \in Nat
  <2>1. \A x \in J : Left[x] < S!Of(input, x).run_time
    BY <1>2, <1>3, JobsFacts
  <2>2. DOMAIN started = {x \in J : Left[x] < S!Of(input, x).run_time}
        /\ \A x \in DOMAIN started : started[x] \in Nat
    BY <1>1 DEF Times, FirstTimes
  <2>3. QED BY <1>2, <1>3, <2>1, <2>2 DEF Ended, Unseen
<1>5. Cardinality(J) = Len(input.file) /\ IsFiniteSet(J)
  BY <1>2, JobsCount
<1>6. SumFunction(Runs(input)) = SumFunctionOnSet(Runs(input), J)
  BY DEF SumFunction, Runs
<1> DEFINE before(x) == started[x] - S!Of(input, x).arrival_time
           B == [x \in J |-> before(x)]
<1>7. SumFunction(B) = SumFunctionOnSet(Responses(input, started), DOMAIN started \ Unseen(sched))
  <2>1. Responses(input, started) = B
    BY <1>4 DEF Responses
  <2>2. DOMAIN started \ Unseen(sched) = J /\ DOMAIN B = J
    BY <1>4
  <2> HIDE DEF B
  <2>3. QED BY <2>1, <2>2 DEF SumFunction
<1>8. SumFunctionOnSet(Waited(input, Left, time), DOMAIN sched.job) = 0
  BY <1>2, FS_EmptySet, SumPick
<1> HIDE DEF B
<1>9. /\ sched.wait.total + 0 = idled
      /\ sched.turnaround.total = sched.wait.total + SumFunction(Runs(input))
      /\ sched.response.total = SumFunction(B)
      /\ sched.wait.num = Len(input.file) /\ sched.turnaround.num = Len(input.file)
      /\ sched.response.num = Len(input.file)
  <2>1. DOMAIN started \ Unseen(sched) = J
    BY <1>4
  <2>2. QED BY <1>1, <1>4, <1>5, <1>6, <1>7, <1>8, <2>1 DEF Times, Sums
<1>10. /\ sched.wait = [total |-> sched.wait.total, num |-> sched.wait.num]
       /\ sched.turnaround = [total |-> sched.turnaround.total, num |-> sched.turnaround.num]
       /\ sched.response = [total |-> sched.response.total, num |-> sched.response.num]
       /\ sched.wait.total \in Int
  BY <1>1 DEF Times, SumTypes
<1>11. idled = sched.wait.total
  BY <1>9, <1>10
<1>12. QED BY <1>9, <1>10, <1>11 DEF Statistics, B

\* The averages that the library returns are those of the run: it counts every
\* job once, the waiting times add up to the time that jobs have spent on no core,
\* and a job has responded when it first runs, not when it is given a core that
\* it may lose in the same unit (libscheduler.c:35-90, 282-343).
THEOREM ExactStatistics == Spec => []Statistics
BY Invariance, IInvStatistics, PTL
=============================================================================
