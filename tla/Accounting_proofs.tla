------------------------- MODULE Accounting_proofs -------------------------
(***************************************************************************)
(* Proofs about Accounting: for any workers, share multiplier, flush       *)
(* threshold and difficulties.                                             *)
(***************************************************************************)
EXTENDS Accounting, TLAPS, FiniteSetTheorems, WellFoundedInduction

-----------------------------------------------------------------------------
(* The inductive invariant, worker by worker. *)

\* A stratum difficulty that is a whole number of network units, so that converting it
\* loses nothing.
Whole(x) == \E n \in 0 .. x : x = Mult * n

\* A stored or queued row is exact and, when it does not exist, nothing.
GoodRow(f) == f \in Figures /\ Whole(f.work) /\ Whole(f.best) /\ (~f.here => f = Nothing)

\* A worker in memory exists or is nobody.
GoodWorker(m) ==
  m \in [figures : Figures, sessions : SUBSET Sessions] /\ (~m.figures.here => m = NoWorker)

\* Its work, and its counts, are those of the row stored, counting what is queued.
WorkOf(m, retired, stored, dbRet) == Mult * (m.figures.work + retired) = stored.work + dbRet
CountsOf(m, stored) ==
  /\ m.figures.acc = stored.acc /\ m.figures.rej = stored.rej
  /\ Mult * m.figures.best = stored.best /\ m.figures.here = stored.here

Shapes ==
  /\ db \in [Workers -> Figures] /\ pend \in [Workers -> Figures]
  /\ dbRetired \in [Workers -> Nat] /\ memRetired \in [Workers -> Nat]
  /\ mem \in [Workers -> [figures : Figures, sessions : SUBSET Sessions]]
  /\ shares \in Nat /\ restored \in BOOLEAN /\ intact \in BOOLEAN

WorkerInv(w) ==
  /\ GoodRow(db[w]) /\ GoodRow(pend[w]) /\ Whole(dbRetired[w]) /\ GoodWorker(mem[w])
  /\ restored => WorkOf(mem[w], memRetired[w], Plus(db[w], pend[w]), dbRetired[w])
  /\ restored /\ intact => CountsOf(mem[w], Plus(db[w], pend[w]))

AccountInv == Shapes /\ \A w \in Workers : WorkerInv(w)

-----------------------------------------------------------------------------
(* Arithmetic of the share multiplier. *)

\* DIFFICULTY_MULT, the ratio of the two units of work, is a positive number.
LEMMA MultType == Mult \in Nat /\ Mult > 0
  BY AccountingAssumption

\* A number of network units survives the way to share units and back.
LEMMA WholeIsExact ==
  ASSUME NEW n \in Nat
  PROVE  ToNetwork(Mult * n) = n /\ Mult * n \in Nat /\ Whole(Mult * n)
  <1>1. Mult * n \in Nat
    BY MultType
  <1>2. (Mult * n) \div Mult = n
    BY MultType
  <1>3. n \in 0 .. Mult * n
    BY MultType
  <1> QED
    BY <1>1, <1>2, <1>3 DEF ToNetwork, Whole

\* A whole number of network units, kept in share units, converts exactly.
LEMMA WholeToNetwork ==
  ASSUME NEW x, Whole(x)
  PROVE  ToNetwork(x) \in Nat /\ Mult * ToNetwork(x) = x /\ x \in Nat
  <1>1. PICK n \in Nat : x = Mult * n
    <2>1. PICK k \in 0 .. x : x = Mult * k
      BY DEF Whole
    <2> QED
      BY <2>1
  <1> QED
    BY <1>1, WholeIsExact

\* Scaling distributes over the sum of two works.
LEMMA ScaleSum ==
  ASSUME NEW a \in Nat, NEW b \in Nat
  PROVE  Mult * (a + b) = Mult * a + Mult * b
  BY MultType

\* Scaling keeps the larger of two bests the larger one.
LEMMA ScaleLarger ==
  ASSUME NEW a \in Nat, NEW b \in Nat
  PROVE  /\ Larger(a, b) \in Nat
         /\ Mult * Larger(a, b) = Larger(Mult * a, Mult * b)
  <1>1. a >= b <=> Mult * a >= Mult * b
    BY MultType
  <1> QED
    BY <1>1 DEF Larger

\* Sums and maxima of whole numbers of network units are whole.
LEMMA WholeCombines ==
  ASSUME NEW x, NEW y, Whole(x), Whole(y)
  PROVE  Whole(x + y) /\ Whole(Larger(x, y))
  <1>1. PICK m \in Nat : x = Mult * m
    BY WholeToNetwork
  <1>2. PICK n \in Nat : y = Mult * n
    BY WholeToNetwork
  <1>3. Whole(x + y)
    <2>1. x + y = Mult * (m + n) /\ m + n \in Nat
      BY <1>1, <1>2, ScaleSum
    <2> QED
      BY <2>1, WholeIsExact
  <1> QED
    BY <1>3 DEF Larger

\* No work is a whole number of network units.
LEMMA ZeroIsWhole == Whole(0) /\ Mult * 0 = 0
  <1>1. Mult * 0 = 0
    BY MultType
  <1> QED
    BY <1>1 DEF Whole

-----------------------------------------------------------------------------
(* Sums over the workers. *)

Below == {p \in Nat \X Nat : p[1] < p[2]}

LEMMA BelowIsWellFounded == IsWellFoundedOn(Below, Nat)
  BY NatLessThanWellFounded DEF OpToRel, Below

\* Every set of numbers has a least one: induction, in a form without an operator parameter.
LEMMA LeastNumber ==
  ASSUME NEW N, N \subseteq Nat, N # {}
  PROVE  \E x \in N : \A y \in N : x <= y
  <1>1. PICK x \in N : \A y \in N : ~ (<<y, x>> \in Below)
    <2>1. N \in SUBSET Nat
      OBVIOUS
    <2> QED
      BY <2>1, WFMin, BelowIsWellFounded
  <1>2. \A y \in N : ~ (y < x)
    BY <1>1 DEF Below
  <1> QED
    BY <1>2

\* The worker that MapThenSumSet takes next, and what it computes for every set of them.
Chosen(s) == CHOOSE x \in s : TRUE
Adds(g, sum) ==
  sum = [s \in SUBSET Workers |-> IF s = {} THEN 0 ELSE g[Chosen(s)] + sum[s \ {Chosen(s)}]]
IsSum(g, v) ==
  \E sum \in [SUBSET Workers -> Nat] : Adds(g, sum) /\ v = sum[Workers]

LEMMA ChosenSmaller ==
  ASSUME NEW s \in SUBSET Workers, s # {}
  PROVE  /\ Chosen(s) \in s /\ Chosen(s) \in Workers /\ s \ {Chosen(s)} \in SUBSET Workers
         /\ Cardinality(s) \in Nat /\ Cardinality(s \ {Chosen(s)}) \in Nat
         /\ Cardinality(s \ {Chosen(s)}) < Cardinality(s)
  <1>1. Chosen(s) \in s
    BY DEF Chosen
  <1>2. IsFiniteSet(s)
    BY AccountingAssumption, FS_Subset
  <1>3. Cardinality(s) \in Nat /\ Cardinality(s \ {Chosen(s)}) = Cardinality(s) - 1
    BY <1>1, <1>2, FS_CardinalityType, FS_RemoveElement
  <1>4. IsFiniteSet(s \ {Chosen(s)})
    BY <1>2, FS_Subset
  <1>5. Cardinality(s \ {Chosen(s)}) \in Nat
    BY <1>4, FS_CardinalityType
  <1> QED
    BY <1>1, <1>3, <1>5

\* What holds of the empty set, and of a set when it holds of the set without its chosen
\* element, holds of every set of workers.
LEMMA SetsByChosen ==
  ASSUME NEW Good \in SUBSET SUBSET Workers, {} \in Good,
         \A s \in SUBSET Workers : s # {} /\ s \ {Chosen(s)} \in Good => s \in Good
  PROVE  \A s \in SUBSET Workers : s \in Good
  <1> DEFINE Bad == {s \in SUBSET Workers : s \notin Good}
             Sizes == {Cardinality(s) : s \in Bad}
  <1> SUFFICES ASSUME Bad # {} PROVE FALSE
    OBVIOUS
  <1>1. Sizes \subseteq Nat /\ Sizes # {}
    <2>1. \A s \in Bad : Cardinality(s) \in Nat
      BY ChosenSmaller
    <2> QED
      BY <2>1
  <1>2. PICK n \in Sizes : \A m \in Sizes : n <= m
    <2> HIDE DEF Sizes
    <2> QED
      BY <1>1, LeastNumber
  <1>3. PICK s \in Bad : n = Cardinality(s)
    BY <1>2
  <1>4. s # {} /\ s \in SUBSET Workers
    BY <1>3
  <1>5. s \ {Chosen(s)} \in Bad
    BY <1>3, <1>4, ChosenSmaller
  <1>6. Cardinality(s) <= Cardinality(s \ {Chosen(s)})
    BY <1>2, <1>3, <1>5
  <1> QED
    BY <1>4, <1>6, ChosenSmaller

LEMMA SumOfSet ==
  ASSUME NEW g, NEW sum, Adds(g, sum), NEW s \in SUBSET Workers
  PROVE  sum[s] = IF s = {} THEN 0 ELSE g[Chosen(s)] + sum[s \ {Chosen(s)}]
  BY DEF Adds

\* Sums add up.
LEMMA SumsAdd ==
  ASSUME NEW g \in [Workers -> Nat], NEW h \in [Workers -> Nat], NEW k \in [Workers -> Nat],
         NEW a, NEW b, NEW c, IsSum(g, a), IsSum(h, b), IsSum(k, c),
         \A w \in Workers : k[w] = g[w] + h[w]
  PROVE  a \in Nat /\ b \in Nat /\ c = a + b
  <1>1. PICK f1 \in [SUBSET Workers -> Nat] : Adds(g, f1) /\ a = f1[Workers]
    BY DEF IsSum
  <1>2. PICK f2 \in [SUBSET Workers -> Nat] : Adds(h, f2) /\ b = f2[Workers]
    BY DEF IsSum
  <1>3. PICK f3 \in [SUBSET Workers -> Nat] : Adds(k, f3) /\ c = f3[Workers]
    BY DEF IsSum
  <1> DEFINE Good == {s \in SUBSET Workers : f3[s] = f1[s] + f2[s]}
  <1>4. {} \in Good
    <2>1. {} \in SUBSET Workers /\ f1[{}] = 0 /\ f2[{}] = 0 /\ f3[{}] = 0
      BY <1>1, <1>2, <1>3, SumOfSet
    <2> QED
      BY <2>1
  <1>5. ASSUME NEW s \in SUBSET Workers, s # {}, s \ {Chosen(s)} \in Good PROVE s \in Good
    <2> DEFINE x == Chosen(s)
               r == s \ {Chosen(s)}
    <2>1. x \in Workers /\ r \in SUBSET Workers
      BY <1>5, ChosenSmaller
    <2>2. f1[s] = g[x] + f1[r] /\ f2[s] = h[x] + f2[r] /\ f3[s] = k[x] + f3[r]
      BY <1>1, <1>2, <1>3, <1>5, SumOfSet
    <2>3. f3[r] = f1[r] + f2[r] /\ k[x] = g[x] + h[x]
      BY <1>5, <2>1
    <2>4. /\ f1[r] \in Nat /\ f2[r] \in Nat /\ g[x] \in Nat /\ h[x] \in Nat
      BY <2>1
    <2> HIDE DEF x, r
    <2>5. f3[s] = f1[s] + f2[s]
      BY <2>2, <2>3, <2>4
    <2> QED
      BY <2>5
  <1>6. Workers \in Good
    <2>1. Good \in SUBSET SUBSET Workers /\ Workers \in SUBSET Workers
      OBVIOUS
    <2> HIDE DEF Good
    <2> QED
      BY <1>4, <1>5, <2>1, SetsByChosen
  <1> QED
    BY <1>1, <1>2, <1>3, <1>6

\* One worker's figure is a sum, the others' being nothing.
Alone(w, v) == [x \in Workers |-> IF x = w THEN v ELSE 0]

LEMMA SumAlone ==
  ASSUME NEW w \in Workers, NEW v \in Nat
  PROVE  IsSum(Alone(w, v), v) /\ Alone(w, v) \in [Workers -> Nat]
  <1> DEFINE sum == [s \in SUBSET Workers |-> IF w \in s THEN v ELSE 0]
  <1>1. ASSUME NEW s \in SUBSET Workers, s # {}
        PROVE  sum[s] = Alone(w, v)[Chosen(s)] + sum[s \ {Chosen(s)}]
    <2>1. Chosen(s) \in s /\ Chosen(s) \in Workers /\ s \ {Chosen(s)} \in SUBSET Workers
      BY <1>1, ChosenSmaller
    <2>2. CASE Chosen(s) = w
      <3>1. sum[s] = v /\ sum[s \ {Chosen(s)}] = 0 /\ Alone(w, v)[Chosen(s)] = v
        BY <2>1, <2>2 DEF Alone
      <3> QED
        BY <3>1
    <2>3. CASE Chosen(s) # w
      <3>1. sum[s] = sum[s \ {Chosen(s)}] /\ Alone(w, v)[Chosen(s)] = 0 /\ sum[s] \in Nat
        BY <2>1, <2>3 DEF Alone
      <3> QED
        BY <3>1
    <2> QED
      BY <2>2, <2>3
  <1>2. Adds(Alone(w, v), sum)
    <2>1. sum[{}] = 0
      OBVIOUS
    <2> QED
      BY <1>1, <2>1 DEF Adds
  <1>3. sum \in [SUBSET Workers -> Nat] /\ v = sum[Workers]
    OBVIOUS
  <1> QED
    BY <1>2, <1>3 DEF IsSum, Alone

\* A sum of multiples is the multiple of the sum.
LEMMA SumsScale ==
  ASSUME NEW g \in [Workers -> Nat], NEW a, IsSum(g, a), NEW h,
         h = [w \in Workers |-> Mult * g[w]]
  PROVE  IsSum(h, Mult * a) /\ h \in [Workers -> Nat] /\ a \in Nat
  <1>1. PICK f \in [SUBSET Workers -> Nat] : Adds(g, f) /\ a = f[Workers]
    BY DEF IsSum
  <1> DEFINE sum == [s \in SUBSET Workers |-> Mult * f[s]]
  <1>2. ASSUME NEW s \in SUBSET Workers
        PROVE  sum[s] = IF s = {} THEN 0 ELSE h[Chosen(s)] + sum[s \ {Chosen(s)}]
    <2>1. CASE s = {}
      BY <1>1, <2>1, SumOfSet, ZeroIsWhole
    <2>2. CASE s # {}
      <3> DEFINE x == Chosen(s)
                 r == s \ {Chosen(s)}
      <3>1. x \in Workers /\ r \in SUBSET Workers
        BY <2>2, ChosenSmaller
      <3>2. f[s] = g[x] + f[r] /\ sum[s] = Mult * f[s] /\ sum[r] = Mult * f[r] /\ h[x] = Mult * g[x]
        BY <1>1, <2>2, <3>1, SumOfSet
      <3>3. f[r] \in Nat /\ g[x] \in Nat
        BY <3>1
      <3> HIDE DEF x, r, sum
      <3>4. sum[s] = h[x] + sum[r]
        BY <3>2, <3>3, ScaleSum
      <3> QED
        BY <2>2, <3>4 DEF x, r
    <2> QED
      BY <2>1, <2>2
  <1>3. /\ sum \in [SUBSET Workers -> Nat] /\ Mult * a = sum[Workers]
        /\ h \in [Workers -> Nat] /\ a \in Nat
    BY <1>1, MultType
  <1>4. Adds(h, sum)
    BY <1>2 DEF Adds
  <1> QED
    BY <1>3, <1>4 DEF IsSum

\* Every figure of the workers has a sum: one for all sets up to a size extends to the next.
LEMMA SumsExist == ASSUME NEW g \in [Workers -> Nat] PROVE \E v \in Nat : IsSum(g, v)
  <1> DEFINE Small(n) == {s \in SUBSET Workers : Cardinality(s) <= n}
             Right(sum, s) == sum[s] = IF s = {} THEN 0 ELSE g[Chosen(s)] + sum[s \ {Chosen(s)}]
             Solved(n) == \E sum \in [Small(n) -> Nat] : \A s \in Small(n) : Right(sum, s)
             Unsolved == {n \in Nat : ~ Solved(n)}
  <1>1. Solved(0)
    <2>1. \A s \in Small(0) : s = {}
      <3> SUFFICES ASSUME NEW s \in SUBSET Workers, Cardinality(s) <= 0, s # {} PROVE FALSE
        OBVIOUS
      <3>1. /\ Cardinality(s) \in Nat /\ Cardinality(s \ {Chosen(s)}) \in Nat
            /\ Cardinality(s \ {Chosen(s)}) < Cardinality(s)
        BY ChosenSmaller
      <3> QED
        BY <3>1
    <2>2. [s \in Small(0) |-> 0] \in [Small(0) -> Nat]
      OBVIOUS
    <2> QED
      BY <2>1, <2>2
  <1>2. ASSUME NEW n \in Nat, Solved(n) PROVE Solved(n + 1)
    <2>1. PICK old \in [Small(n) -> Nat] : \A s \in Small(n) : Right(old, s)
      BY <1>2
    <2> DEFINE sum == [s \in Small(n + 1) |->
                         IF s = {} THEN 0 ELSE g[Chosen(s)] + old[s \ {Chosen(s)}]]
    <2>2. \A s \in Small(n + 1) : s # {} => s \ {Chosen(s)} \in Small(n) /\ Chosen(s) \in Workers
      BY ChosenSmaller
    <2>3. \A s \in Small(n) : s \in Small(n + 1) /\ sum[s] = old[s]
      <3>1. \A s \in Small(n) : s \in Small(n + 1)
        <4>1. \A s \in SUBSET Workers : Cardinality(s) \in Nat
          BY AccountingAssumption, FS_Subset, FS_CardinalityType
        <4> QED
          BY <4>1
      <3> QED
        BY <2>1, <3>1
    <2>4. \A s \in Small(n + 1) : sum[s] \in Nat
      <3> TAKE s \in Small(n + 1)
      <3>1. s # {} => g[Chosen(s)] \in Nat /\ old[s \ {Chosen(s)}] \in Nat
        BY <2>2
      <3> QED
        BY <3>1
    <2>5. \A s \in Small(n + 1) : Right(sum, s)
      BY <2>2, <2>3
    <2>6. sum \in [Small(n + 1) -> Nat]
      BY <2>4
    <2> HIDE DEF sum
    <2> QED
      BY <2>5, <2>6
  <1>3. Unsolved = {}
    <2> SUFFICES ASSUME Unsolved # {} PROVE FALSE
      OBVIOUS
    <2>1. PICK n \in Unsolved : \A m \in Unsolved : n <= m
      <3>1. Unsolved \subseteq Nat
        OBVIOUS
      <3> HIDE DEF Unsolved
      <3> QED
        BY <3>1, LeastNumber
    <2> HIDE DEF Solved
    <2>2. n \in Nat /\ n # 0
      BY <1>1, <2>1
    <2>3. n - 1 \in Nat /\ (n - 1) + 1 = n /\ ~ (n <= n - 1)
      BY <2>2
    <2>4. Solved(n - 1)
      BY <2>1, <2>3
    <2>5. Solved((n - 1) + 1)
      BY <1>2, <2>3, <2>4
    <2> QED
      BY <2>1, <2>3, <2>5
  <1>4. /\ Cardinality(Workers) \in Nat
        /\ \A s \in SUBSET Workers : Cardinality(s) \in Nat /\ Cardinality(s) <= Cardinality(Workers)
    BY AccountingAssumption, FS_Subset, FS_CardinalityType
  <1>5. Small(Cardinality(Workers)) = SUBSET Workers
    BY <1>4
  <1>6. Solved(Cardinality(Workers))
    <2> HIDE DEF Solved
    <2> QED
      BY <1>3, <1>4
  <1>7. PICK sum \in [SUBSET Workers -> Nat] : \A s \in SUBSET Workers : Right(sum, s)
    <2> HIDE DEF Right
    <2> QED
      BY <1>5, <1>6
  <1>8. Adds(g, sum)
    BY <1>7 DEF Adds
  <1> QED
    BY <1>8 DEF IsSum

LEMMA AddsTyped ==
  ASSUME NEW g \in [Workers -> Nat], NEW sum, Adds(g, sum)
  PROVE  sum \in [SUBSET Workers -> Nat]
  <1> DEFINE Good == {s \in SUBSET Workers : sum[s] \in Nat}
  <1>1. {} \in Good
    BY SumOfSet
  <1>2. ASSUME NEW s \in SUBSET Workers, s # {}, s \ {Chosen(s)} \in Good PROVE s \in Good
    <2>1. Chosen(s) \in Workers /\ sum[s \ {Chosen(s)}] \in Nat
      BY <1>2, ChosenSmaller
    <2>2. sum[s] = g[Chosen(s)] + sum[s \ {Chosen(s)}] /\ g[Chosen(s)] \in Nat
      BY <1>2, <2>1, SumOfSet
    <2> QED
      BY <2>1, <2>2
  <1>3. \A s \in SUBSET Workers : s \in Good
    <2>1. Good \in SUBSET SUBSET Workers
      OBVIOUS
    <2> HIDE DEF Good
    <2> QED
      BY <1>1, <1>2, <2>1, SetsByChosen
  <1> QED
    BY <1>3 DEF Adds

\* SumFunction is that sum.
LEMMA SumIs ==
  ASSUME NEW g \in [Workers -> Nat]
  PROVE  IsSum(g, SumFunction(g)) /\ SumFunction(g) \in Nat
  <1> DEFINE Solves(sum) ==
        sum = [s \in SUBSET Workers |->
                 IF s = {} THEN 0
                 ELSE g[CHOOSE x \in s : TRUE] + sum[s \ {CHOOSE x \in s : TRUE}]]
  <1>1. SumFunction(g) = (CHOOSE sum : Solves(sum))[Workers]
    <2>1. DOMAIN g = Workers
      OBVIOUS
    <2>2. SumFunctionOnSet(g, Workers) = (CHOOSE sum : Solves(sum))[Workers]
      BY DEF SumFunctionOnSet, FoldFunctionOnSet, MapThenFoldSet
    <2> QED
      BY <2>1, <2>2 DEF SumFunction
  <1>2. \A sum : Solves(sum) <=> Adds(g, sum)
    BY DEF Adds, Chosen
  <1> HIDE DEF Solves
  <1>3. \E sum : Solves(sum)
    <2>1. \E sum : Adds(g, sum)
      BY SumsExist DEF IsSum
    <2> QED
      BY <1>2, <2>1
  <1>4. Adds(g, CHOOSE sum : Solves(sum))
    <2>1. Solves(CHOOSE sum : Solves(sum))
      BY <1>3
    <2> QED
      BY <1>2, <2>1
  <1> DEFINE sums == CHOOSE sum : Solves(sum)
  <1>5. sums \in [SUBSET Workers -> Nat] /\ Adds(g, sums)
    <2> HIDE DEF sums
    <2> QED
      BY <1>4, AddsTyped DEF sums
  <1>6. SumFunction(g) = sums[Workers] /\ Workers \in SUBSET Workers
    BY <1>1
  <1> HIDE DEF sums
  <1> QED
    BY <1>5, <1>6 DEF IsSum

\* The rules of arithmetic that the proofs below use.
LEMMA TotalAdds ==
  ASSUME NEW g \in [Workers -> Nat], NEW h \in [Workers -> Nat], NEW k \in [Workers -> Nat],
         \A w \in Workers : k[w] = g[w] + h[w]
  PROVE  SumFunction(k) = SumFunction(g) + SumFunction(h)
  BY SumIs, SumsAdd

LEMMA TotalZero == ASSUME NEW g, g = [w \in Workers |-> 0] PROVE SumFunction(g) = 0
  <1>1. g \in [Workers -> Nat] /\ \A w \in Workers : g[w] = g[w] + g[w]
    OBVIOUS
  <1>2. SumFunction(g) = SumFunction(g) + SumFunction(g)
    BY <1>1, TotalAdds
  <1>3. SumFunction(g) \in Nat
    BY <1>1, SumIs
  <1>4. \A n \in Nat : n = n + n => n = 0
    OBVIOUS
  <1> QED
    BY ONLY <1>2, <1>3, <1>4

LEMMA TotalEqual ==
  ASSUME NEW g \in [Workers -> Nat], NEW h \in [Workers -> Nat],
         \A w \in Workers : g[w] = h[w]
  PROVE  SumFunction(g) = SumFunction(h)
  <1>1. g = h
    OBVIOUS
  <1> QED
    BY <1>1

LEMMA TotalScales ==
  ASSUME NEW g \in [Workers -> Nat], NEW h \in [Workers -> Nat],
         \A w \in Workers : h[w] = Mult * g[w]
  PROVE  SumFunction(h) = Mult * SumFunction(g)
  <1>1. h = [w \in Workers |-> Mult * g[w]]
    OBVIOUS
  <1>2. IsSum(h, Mult * SumFunction(g)) /\ Mult * SumFunction(g) \in Nat
    BY <1>1, SumIs, SumsScale, MultType
  <1> DEFINE none == [w \in Workers |-> 0]
  <1>3. none \in [Workers -> Nat] /\ IsSum(none, 0)
    BY TotalZero, SumIs
  <1>4. \A w \in Workers : h[w] = h[w] + none[w]
    OBVIOUS
  <1>5. IsSum(h, SumFunction(h))
    BY SumIs
  <1> HIDE DEF none
  <1>6. SumFunction(h) = Mult * SumFunction(g) + 0
    BY <1>2, <1>3, <1>4, <1>5, SumsAdd
  <1> QED
    BY <1>2, <1>6

\* One worker's figure changes, and the total by as much.
LEMMA TotalChanges ==
  ASSUME NEW g \in [Workers -> Nat], NEW h \in [Workers -> Nat], NEW w \in Workers,
         \A x \in Workers \ {w} : h[x] = g[x]
  PROVE  /\ SumFunction(h) + g[w] = SumFunction(g) + h[w]
         /\ SumFunction(g) \in Nat /\ SumFunction(h) \in Nat
  <1> DEFINE old == Alone(w, g[w])
             new == Alone(w, h[w])
             k   == [x \in Workers |-> g[x] + new[x]]
  <1>1. /\ old \in [Workers -> Nat] /\ IsSum(old, g[w])
        /\ new \in [Workers -> Nat] /\ IsSum(new, h[w])
    BY SumAlone
  <1>2. \A x \in Workers : /\ old[x] = IF x = w THEN g[w] ELSE 0
                           /\ new[x] = IF x = w THEN h[w] ELSE 0
    BY DEF Alone
  <1> HIDE DEF old, new
  <1>3. k \in [Workers -> Nat] /\ \A x \in Workers : k[x] = g[x] + new[x]
    BY <1>1
  <1>4. \A x \in Workers : k[x] = h[x] + old[x]
    <2> TAKE x \in Workers
    <2>1. g[x] \in Nat /\ h[x] \in Nat /\ g[w] \in Nat /\ h[w] \in Nat
      OBVIOUS
    <2>2. CASE x = w
      BY <1>2, <1>3, <2>1, <2>2
    <2>3. CASE x # w
      BY <1>2, <1>3, <2>1, <2>3
    <2> QED
      BY <2>2, <2>3
  <1> HIDE DEF k
  <1>5. SumFunction(k) = SumFunction(g) + h[w]
    BY <1>1, <1>3, SumIs, SumsAdd
  <1>6. SumFunction(k) = SumFunction(h) + g[w]
    BY <1>1, <1>3, <1>4, SumIs, SumsAdd
  <1> QED
    BY <1>5, <1>6, SumIs

-----------------------------------------------------------------------------
(* Rows and their sums. *)

\* add_shares adds the figures of two rows field by field.
LEMMA PlusFields ==
  ASSUME NEW a \in Figures, NEW b \in Figures
  PROVE  /\ Plus(a, b) \in Figures
         /\ Plus(a, b).acc = a.acc + b.acc /\ Plus(a, b).rej = a.rej + b.rej
         /\ Plus(a, b).work = a.work + b.work /\ Plus(a, b).best = Larger(a.best, b.best)
         /\ Plus(a, b).here = (a.here \/ b.here)
  <1>1. Larger(a.best, b.best) \in Nat
    BY DEF Larger, Figures
  <1>2. a.acc + b.acc \in Nat /\ a.rej + b.rej \in Nat /\ a.work + b.work \in Nat
    BY DEF Figures
  <1>3. (a.here \/ b.here) \in BOOLEAN
    OBVIOUS
  <1> QED
    BY <1>1, <1>2, <1>3 DEF Plus, Figures

\* The figures of a worker without a row are all zero.
LEMMA NothingIsZero ==
  /\ Nothing \in Figures /\ Nothing.acc = 0 /\ Nothing.rej = 0 /\ Nothing.best = 0
  /\ Nothing.work = 0 /\ Nothing.here = FALSE
  BY DEF Nothing, Figures

\* Adding nothing changes nothing, and a row that exists exists after an addition.
LEMMA PlusNothing ==
  ASSUME NEW a \in Figures
  PROVE  Plus(a, Nothing) = a
  <1>1. a.acc + 0 = a.acc /\ a.rej + 0 = a.rej /\ a.work + 0 = a.work /\ Larger(a.best, 0) = a.best
    BY DEF Figures, Larger
  <1>2. (a.here \/ FALSE) = a.here
    BY DEF Figures
  <1>3. Plus(a, Nothing) = [acc |-> a.acc, rej |-> a.rej, best |-> a.best, work |-> a.work, here |-> a.here]
    BY <1>1, <1>2, NothingIsZero DEF Plus
  <1> QED
    BY <1>3 DEF Figures

\* A worker without a row has a good row: nothing in it is out of type or fractional.
LEMMA NothingIsGood == GoodRow(Nothing)
  BY NothingIsZero, ZeroIsWhole DEF GoodRow

\* The sum of two good rows, as a flush writes it, is a good row.
LEMMA PlusGood ==
  ASSUME NEW a, NEW b, GoodRow(a), GoodRow(b)
  PROVE  GoodRow(Plus(a, b))
  <1>1. Plus(a, b) \in Figures
    BY PlusFields DEF GoodRow
  <1>2. Whole(Plus(a, b).work) /\ Whole(Plus(a, b).best)
    BY PlusFields, WholeCombines DEF GoodRow
  <1>3. ~Plus(a, b).here => Plus(a, b) = Nothing
    BY PlusFields, PlusNothing, NothingIsZero DEF GoodRow
  <1> QED
    BY <1>1, <1>2, <1>3 DEF GoodRow

\* The invariant's row parts, by row.
LEMMA GoodRows ==
  ASSUME AccountInv, NEW w \in Workers
  PROVE  GoodRow(db[w]) /\ GoodRow(pend[w]) /\ Whole(dbRetired[w])
  BY DEF AccountInv, WorkerInv

\* What a flush of queue p, successful or not, makes of the rows.
Banked(p, ok) == IF ok THEN Written(p) ELSE db

\* A flush moves what is queued to the rows, or leaves it: nothing appears or disappears.
LEMMA FlushMoves ==
  ASSUME AccountInv, NEW ok \in BOOLEAN, NEW p \in [Workers -> Figures],
         \A w \in Workers : GoodRow(p[w])
  PROVE  /\ Banked(p, ok) \in [Workers -> Figures] /\ QueueAfter(p, ok) \in [Workers -> Figures]
         /\ \A w \in Workers :
              /\ GoodRow(Banked(p, ok)[w]) /\ GoodRow(QueueAfter(p, ok)[w])
              /\ Plus(Banked(p, ok)[w], QueueAfter(p, ok)[w]) = Plus(db[w], p[w])
  <1>1. \A w \in Workers : GoodRow(db[w]) /\ db[w] \in Figures
    BY GoodRows DEF GoodRow
  <1>2. CASE ok
    <2>1. Banked(p, ok) = [w \in Workers |-> Plus(db[w], p[w])]
          /\ QueueAfter(p, ok) = [w \in Workers |-> Nothing]
      BY <1>2 DEF Banked, Written, QueueAfter, EmptyQueue
    <2>2. \A w \in Workers : GoodRow(Plus(db[w], p[w])) /\ Plus(db[w], p[w]) \in Figures
      BY <1>1, PlusGood DEF GoodRow
    <2>3. \A w \in Workers : Plus(Plus(db[w], p[w]), Nothing) = Plus(db[w], p[w])
      BY <2>2, PlusNothing
    <2> QED
      BY <2>1, <2>2, <2>3, NothingIsGood, NothingIsZero
  <1>3. CASE ~ok
    <2>1. Banked(p, ok) = db /\ QueueAfter(p, ok) = p
      BY <1>3 DEF Banked, QueueAfter
    <2>2. db \in [Workers -> Figures]
      BY DEF AccountInv, Shapes
    <2> QED
      BY <1>1, <2>1, <2>2
  <1> QED
    BY <1>2, <1>3

\* A share adds the same to memory, in network units, as to the queue.
LEMMA ShareAddsSame ==
  ASSUME NEW m, NEW a, NEW b, GoodWorker(m), GoodRow(a), GoodRow(b),
         NEW ret \in Nat, NEW dbRet \in Nat,
         NEW row \in Figures, Whole(row.work), Whole(row.best), row.here = TRUE
  PROVE  LET m2 == [m EXCEPT !.figures = Plus(@, InNetwork(row))]
             b2 == Plus(b, row)
         IN  /\ GoodRow(b2) /\ GoodWorker(m2)
             /\ WorkOf(m, ret, Plus(a, b), dbRet) => WorkOf(m2, ret, Plus(a, b2), dbRet)
             /\ CountsOf(m, Plus(a, b)) => CountsOf(m2, Plus(a, b2))
  <1> DEFINE f == m.figures
             g == InNetwork(row)
             m2 == [m EXCEPT !.figures = Plus(@, g)]
             b2 == Plus(b, row)
  <1>1. a \in Figures /\ b \in Figures /\ f \in Figures
    BY DEF GoodRow, GoodWorker
  <1>2. /\ ToNetwork(row.work) \in Nat /\ Mult * ToNetwork(row.work) = row.work
        /\ ToNetwork(row.best) \in Nat /\ Mult * ToNetwork(row.best) = row.best
    BY WholeToNetwork
  <1>3. /\ g \in Figures /\ g.acc = row.acc /\ g.rej = row.rej /\ g.here = TRUE
        /\ g.work = ToNetwork(row.work) /\ g.best = ToNetwork(row.best)
    BY <1>2 DEF InNetwork, Figures
  <1>4. m2.figures = Plus(f, g) /\ m2 \in [figures : Figures, sessions : SUBSET Sessions]
    BY <1>1, <1>3, PlusFields DEF GoodWorker
  <1>5. GoodRow(row)
    BY DEF GoodRow
  <1>6. GoodRow(b2) /\ b2 \in Figures
    BY <1>5, PlusGood DEF GoodRow
  <1>7. /\ Plus(f, g) \in Figures
        /\ Plus(f, g).acc = f.acc + g.acc /\ Plus(f, g).rej = f.rej + g.rej
        /\ Plus(f, g).work = f.work + g.work /\ Plus(f, g).best = Larger(f.best, g.best)
        /\ Plus(f, g).here = TRUE
    BY <1>1, <1>3, PlusFields
  <1>8. /\ Plus(a, b).acc = a.acc + b.acc /\ Plus(a, b).rej = a.rej + b.rej
        /\ Plus(a, b).work = a.work + b.work /\ Plus(a, b).best = Larger(a.best, b.best)
    BY <1>1, PlusFields
  <1>9. /\ Plus(a, b2).acc = a.acc + (b.acc + row.acc) /\ Plus(a, b2).rej = a.rej + (b.rej + row.rej)
        /\ Plus(a, b2).work = a.work + (b.work + row.work)
        /\ Plus(a, b2).best = Larger(a.best, Larger(b.best, row.best))
        /\ Plus(a, b2).here = TRUE
    <2>1. /\ b2.acc = b.acc + row.acc /\ b2.rej = b.rej + row.rej /\ b2.work = b.work + row.work
          /\ b2.best = Larger(b.best, row.best)
      BY <1>1, PlusFields
    <2>2. b2.here = TRUE
      BY <1>1, PlusFields
    <2> HIDE DEF b2
    <2>3. /\ Plus(a, b2).acc = a.acc + b2.acc /\ Plus(a, b2).rej = a.rej + b2.rej
          /\ Plus(a, b2).work = a.work + b2.work /\ Plus(a, b2).best = Larger(a.best, b2.best)
      BY <1>1, <1>6, PlusFields
    <2>4. Plus(a, b2).here = TRUE
      BY <1>1, <1>6, <2>2, PlusFields
    <2> QED
      BY <2>1, <2>3, <2>4
  <1>10. GoodWorker(m2)
    BY <1>4, <1>7 DEF GoodWorker
  <1>11. ASSUME WorkOf(m, ret, Plus(a, b), dbRet)
         PROVE  WorkOf(m2, ret, Plus(a, b2), dbRet)
    <2>1. f.work \in Nat /\ g.work \in Nat /\ a.work \in Nat /\ b.work \in Nat /\ row.work \in Nat
      BY <1>1, <1>3 DEF Figures
    <2>2. Mult * (f.work + ret) = a.work + b.work + dbRet
      BY <1>8, <1>11 DEF WorkOf
    <2>3. f.work + ret \in Nat
      BY <2>1
    <2>4. Mult * ((f.work + ret) + g.work) = Mult * (f.work + ret) + Mult * g.work
      BY <2>1, <2>3, ScaleSum
    <2>5. Mult * g.work = row.work
      BY <1>2, <1>3
    <2>6. (f.work + g.work) + ret = (f.work + ret) + g.work
      BY <2>1
    <2>7. Mult * ((f.work + g.work) + ret) = (a.work + b.work + dbRet) + row.work
      BY <2>2, <2>4, <2>5, <2>6
    <2>8. (a.work + b.work + dbRet) + row.work = (a.work + (b.work + row.work)) + dbRet
      BY <2>1
    <2> QED
      BY <1>4, <1>7, <1>9, <2>7, <2>8 DEF WorkOf
  <1>12. ASSUME CountsOf(m, Plus(a, b))
         PROVE  CountsOf(m2, Plus(a, b2))
    <2>1. /\ f.acc \in Nat /\ a.acc \in Nat /\ b.acc \in Nat /\ row.acc \in Nat
          /\ f.rej \in Nat /\ a.rej \in Nat /\ b.rej \in Nat /\ row.rej \in Nat
          /\ f.best \in Nat /\ a.best \in Nat /\ b.best \in Nat /\ row.best \in Nat
      BY <1>1 DEF Figures
    <2>2. /\ f.acc = a.acc + b.acc /\ f.rej = a.rej + b.rej
          /\ Mult * f.best = Larger(a.best, b.best)
      BY <1>8, <1>12 DEF CountsOf
    <2>3. Mult * Larger(f.best, g.best) = Larger(Larger(a.best, b.best), row.best)
      <3>1. g.best \in Nat /\ Mult * g.best = row.best
        BY <1>2, <1>3
      <3>2. Mult * Larger(f.best, g.best) = Larger(Mult * f.best, Mult * g.best)
        BY <2>1, <3>1, ScaleLarger
      <3> QED
        BY <2>2, <3>1, <3>2
    <2>4. Larger(Larger(a.best, b.best), row.best) = Larger(a.best, Larger(b.best, row.best))
      BY <2>1 DEF Larger
    <2>5. /\ f.acc + g.acc = a.acc + (b.acc + row.acc)
          /\ f.rej + g.rej = a.rej + (b.rej + row.rej)
      BY <1>3, <2>1, <2>2
    <2> QED
      BY <1>4, <1>7, <1>9, <2>3, <2>4, <2>5 DEF CountsOf
  <1> QED
    BY <1>6, <1>10, <1>11, <1>12

-----------------------------------------------------------------------------
(* The steps. *)

\* An empty database, an empty queue and a pool just started satisfy the invariant.
LEMMA InitAccount == Init => AccountInv
  <1> SUFFICES ASSUME Init PROVE AccountInv
    OBVIOUS
  <1>1. NoWorker \in [figures : Figures, sessions : SUBSET Sessions] /\ NoWorker.figures = Nothing
    BY NothingIsZero DEF NoWorker, Offline
  <1>2. Shapes
    BY <1>1, NothingIsZero DEF Init, Shapes, EmptyQueue
  <1>3. ASSUME NEW w \in Workers PROVE WorkerInv(w)
    <2>1. /\ db[w] = Nothing /\ pend[w] = Nothing /\ dbRetired[w] = 0 /\ memRetired[w] = 0
          /\ mem[w] = NoWorker
      BY DEF Init, EmptyQueue
    <2>2. Plus(Nothing, Nothing) = Nothing
      BY PlusNothing, NothingIsZero
    <2>3. GoodWorker(NoWorker)
      BY <1>1 DEF GoodWorker
    <2>4. WorkOf(NoWorker, 0, Nothing, 0) /\ CountsOf(NoWorker, Nothing)
      BY <1>1, ZeroIsWhole, NothingIsZero DEF WorkOf, CountsOf
    <2> QED
      BY <2>1, <2>2, <2>3, <2>4, NothingIsGood, ZeroIsWhole DEF WorkerInv
  <1> QED
    BY <1>2, <1>3 DEF AccountInv

\* The rows and the queue after queue q was, or was not, written.
Moved(q) ==
  /\ db' \in [Workers -> Figures] /\ pend' \in [Workers -> Figures]
  /\ \A w \in Workers : /\ GoodRow(db'[w]) /\ GoodRow(pend'[w])
                        /\ Plus(db'[w], pend'[w]) = Plus(db[w], q[w])

\* A flush and its failed variant both only move queued figures to the rows.
LEMMA FlushedMoves ==
  ASSUME AccountInv, NEW ok \in BOOLEAN, NEW q \in [Workers -> Figures],
         \A w \in Workers : GoodRow(q[w]), Flushed(q, ok)
  PROVE  Moved(q)
  <1>1. db' = Banked(q, ok) /\ pend' = QueueAfter(q, ok)
    BY DEF Flushed, Banked
  <1> QED
    BY <1>1, FlushMoves DEF Moved

\* Counting one share, in memory and in the queue, keeps the invariant.
LEMMA CountKeeps ==
  ASSUME AccountInv, NEW w \in Workers, NEW row \in Figures, Whole(row.work), Whole(row.best),
         row.here = TRUE, Count(w, row)
  PROVE  AccountInv'
  <1> DEFINE q == [pend EXCEPT ![w] = Plus(@, row)]
  <1>1. Shapes /\ \A v \in Workers : WorkerInv(v)
    BY DEF AccountInv
  <1>2. GoodRow(pend[w]) /\ pend[w] \in Figures /\ GoodRow(row)
    BY <1>1 DEF WorkerInv, GoodRow
  <1>3. q \in [Workers -> Figures] /\ \A v \in Workers : GoodRow(q[v])
    BY <1>1, <1>2, PlusGood DEF Shapes, WorkerInv, GoodRow
  <1>4. q[w] = Plus(pend[w], row) /\ \A v \in Workers \ {w} : q[v] = pend[v]
    BY <1>1 DEF Shapes
  <1>5. Moved(q)
    <2>1. CASE \E ok \in BOOLEAN : Flushed(q, ok)
      BY <1>3, <2>1, FlushedMoves
    <2>2. CASE pend' = q /\ db' = db
      BY <1>1, <1>3, <2>2 DEF Moved, Shapes, WorkerInv
    <2> QED
      BY <2>1, <2>2 DEF Count
  <1>6. /\ shares' \in Nat /\ UNCHANGED <<dbRetired, memRetired, restored, intact>>
        /\ mem' = [mem EXCEPT ![w].figures = Plus(@, InNetwork(row))]
    BY <1>1 DEF Count, Shapes
  <1>7. /\ mem'[w] = [mem[w] EXCEPT !.figures = Plus(@, InNetwork(row))]
        /\ \A v \in Workers \ {w} : mem'[v] = mem[v]
    BY <1>1, <1>6 DEF Shapes
  <1>8. dbRetired[w] \in Nat /\ memRetired[w] \in Nat
    BY <1>1 DEF Shapes
  <1> HIDE DEF q
  <1>9. WorkerInv(w)'
    <2> DEFINE m2 == [mem[w] EXCEPT !.figures = Plus(@, InNetwork(row))]
               b2 == Plus(pend[w], row)
    <2>1. GoodWorker(mem[w]) /\ GoodRow(db[w]) /\ GoodRow(pend[w])
      BY <1>1 DEF WorkerInv
    <2>2. /\ GoodWorker(m2)
          /\ WorkOf(mem[w], memRetired[w], Plus(db[w], pend[w]), dbRetired[w])
               => WorkOf(m2, memRetired[w], Plus(db[w], b2), dbRetired[w])
          /\ CountsOf(mem[w], Plus(db[w], pend[w])) => CountsOf(m2, Plus(db[w], b2))
      BY <1>8, <2>1, ShareAddsSame
    <2>3. mem'[w] = m2 /\ Plus(db'[w], pend'[w]) = Plus(db[w], b2) /\ GoodRow(db'[w]) /\ GoodRow(pend'[w])
      BY <1>4, <1>5, <1>7 DEF Moved
    <2> HIDE DEF m2, b2
    <2> QED
      BY <1>1, <1>6, <2>2, <2>3 DEF WorkerInv
  <1>10. ASSUME NEW v \in Workers \ {w} PROVE WorkerInv(v)'
    BY <1>1, <1>4, <1>5, <1>6, <1>7 DEF WorkerInv, Moved
  <1>11. Shapes'
    <2>1. mem'[w] \in [figures : Figures, sessions : SUBSET Sessions]
      BY <1>9 DEF WorkerInv, GoodWorker
    <2>2. mem' \in [Workers -> [figures : Figures, sessions : SUBSET Sessions]]
      BY <1>1, <1>6, <1>7, <2>1 DEF Shapes
    <2> QED
      BY <1>1, <1>5, <1>6, <2>2 DEF Shapes, Moved
  <1> QED
    BY <1>9, <1>10, <1>11 DEF AccountInv

\* The row an authorization queues carries a name and nothing to count.
LEMMA AuthorizedFields ==
  /\ AuthorizedRow \in Figures /\ AuthorizedRow.work = 0 /\ AuthorizedRow.best = 0
  /\ AuthorizedRow.acc = 0 /\ AuthorizedRow.rej = 0 /\ AuthorizedRow.here = TRUE
  BY NothingIsZero DEF AuthorizedRow, Figures

\* The row of an accepted share, and that of a rejected one, is exact.
LEMMA AcceptedFields ==
  ASSUME NEW d \in JobDiffs, NEW best \in ShareDiffs
  PROVE  LET row == AcceptedRow(Mult * d, Mult * best)
         IN  row \in Figures /\ Whole(row.work) /\ Whole(row.best) /\ row.here = TRUE
  <1> DEFINE row == AcceptedRow(Mult * d, Mult * best)
  <1>1. d \in Nat /\ best \in Nat
    BY AccountingAssumption
  <1>2. /\ Mult * d \in Nat /\ Whole(Mult * d) /\ Mult * best \in Nat /\ Whole(Mult * best)
    BY <1>1, WholeIsExact
  <1>3. /\ row \in Figures /\ row.work = Mult * d /\ row.best = Mult * best
        /\ row.here = TRUE
    BY <1>2, AuthorizedFields DEF AcceptedRow, Figures
  <1> QED
    BY <1>2, <1>3

LEMMA RejectedFields ==
  RejectedRow \in Figures /\ Whole(RejectedRow.work) /\ Whole(RejectedRow.best)
    /\ RejectedRow.here = TRUE
  <1>1. /\ RejectedRow \in Figures /\ RejectedRow.work = 0 /\ RejectedRow.best = 0
        /\ RejectedRow.here = TRUE
    BY AuthorizedFields DEF RejectedRow, Figures
  <1> QED
    BY <1>1, ZeroIsWhole

\* The publisher's share events, accepted and rejected, keep the invariant.
LEMMA SharesKeep ==
  ASSUME AccountInv, ShareAccepted \/ ShareRejected
  PROVE  AccountInv'
  <1>1. ASSUME NEW w \in Workers, NEW d \in JobDiffs, NEW best \in ShareDiffs,
               Count(w, AcceptedRow(Mult * d, Mult * best))
        PROVE  AccountInv'
    <2> DEFINE row == AcceptedRow(Mult * d, Mult * best)
    <2>1. row \in Figures /\ Whole(row.work) /\ Whole(row.best) /\ row.here = TRUE
      BY AcceptedFields
    <2> HIDE DEF row
    <2> QED
      BY <1>1, <2>1, CountKeeps DEF row
  <1>2. ASSUME NEW w \in Workers, Count(w, RejectedRow) PROVE AccountInv'
    BY <1>2, RejectedFields, CountKeeps
  <1> QED
    BY <1>1, <1>2 DEF ShareAccepted, ShareRejected

\* The publisher's tick, its flush written or failed, keeps the invariant.
LEMMA TickKeeps ==
  ASSUME AccountInv, Tick PROVE AccountInv'
  <1>1. Shapes /\ \A w \in Workers : WorkerInv(w)
    BY DEF AccountInv
  <1>2. Moved(pend)
    <2>1. pend \in [Workers -> Figures] /\ \A w \in Workers : GoodRow(pend[w])
      BY <1>1 DEF Shapes, WorkerInv
    <2>2. PICK ok \in BOOLEAN : Flushed(pend, ok)
      BY DEF Tick
    <2> QED
      BY <2>1, <2>2, FlushedMoves
  <1>3. UNCHANGED <<dbRetired, mem, memRetired, shares, restored, intact>>
    BY DEF Tick, statVars
  <1>4. Shapes'
    BY <1>1, <1>2, <1>3 DEF Shapes, Moved
  <1>5. ASSUME NEW w \in Workers PROVE WorkerInv(w)'
    BY <1>1, <1>2, <1>3 DEF WorkerInv, Moved
  <1> QED
    BY <1>4, <1>5 DEF AccountInv

\* A disconnect, which flushes and forgets a session, keeps the invariant.
LEMMA DisconnectedKeeps ==
  ASSUME AccountInv, Disconnected PROVE AccountInv'
  <1>1. Shapes /\ \A w \in Workers : WorkerInv(w)
    BY DEF AccountInv
  <1>2. PICK s \in Sessions, ws \in SUBSET Workers :
          mem' = [w \in Workers |->
                    IF w \in ws THEN [mem[w] EXCEPT !.sessions = @ \ {s}] ELSE mem[w]]
    BY DEF Disconnected
  <1>3. UNCHANGED <<db, dbRetired, pend, memRetired, shares, restored, intact>>
    BY DEF Disconnected, storeVars
  <1>4. ASSUME NEW w \in Workers
        PROVE  mem'[w].figures = mem[w].figures /\ GoodWorker(mem'[w])
    <2>1. GoodWorker(mem[w])
      BY <1>1 DEF WorkerInv
    <2>2. CASE w \notin ws
      BY <1>2, <2>1, <2>2
    <2>3. CASE w \in ws
      <3>1. mem'[w] = [mem[w] EXCEPT !.sessions = @ \ {s}]
        BY <1>2, <2>3
      <3>2. mem'[w] \in [figures : Figures, sessions : SUBSET Sessions]
            /\ mem'[w].figures = mem[w].figures
        BY <2>1, <3>1 DEF GoodWorker
      <3>3. ASSUME ~mem[w].figures.here PROVE mem'[w] = NoWorker
        BY <2>1, <3>1, <3>3 DEF GoodWorker, NoWorker, Offline
      <3> QED
        BY <3>2, <3>3 DEF GoodWorker
    <2> QED
      BY <2>2, <2>3
  <1>5. Shapes'
    <2>1. mem' \in [Workers -> [figures : Figures, sessions : SUBSET Sessions]]
      BY <1>2, <1>4 DEF GoodWorker
    <2> QED
      BY <1>1, <1>3, <2>1 DEF Shapes
  <1>6. ASSUME NEW w \in Workers PROVE WorkerInv(w)'
    BY <1>1, <1>3, <1>4 DEF WorkerInv, WorkOf, CountsOf
  <1> QED
    BY <1>5, <1>6 DEF AccountInv

\* An authorize event keeps the invariant.
LEMMA AuthorizedKeeps ==
  ASSUME AccountInv, Authorized PROVE AccountInv'
  <1>1. Shapes /\ \A w \in Workers : WorkerInv(w)
    BY DEF AccountInv
  <1>2. PICK w \in Workers, s \in Sessions :
          /\ pend' = [pend EXCEPT ![w] = Plus(@, AuthorizedRow)]
          /\ mem' = [mem EXCEPT ![w].figures.here = TRUE, ![w].sessions = @ \cup {s}]
    BY DEF Authorized
  <1>3. UNCHANGED <<db, dbRetired, memRetired, shares, restored, intact>>
    BY DEF Authorized, storeVars
  <1> DEFINE m == mem[w]
             m2 == [m EXCEPT !.figures.here = TRUE, !.sessions = @ \cup {s}]
             b2 == Plus(pend[w], AuthorizedRow)
  <1>4. /\ GoodWorker(m) /\ GoodRow(db[w]) /\ GoodRow(pend[w])
        /\ m.figures \in Figures /\ db[w] \in Figures /\ pend[w] \in Figures
    BY <1>1 DEF WorkerInv, GoodRow, GoodWorker
  <1>5. /\ mem'[w] = m2 /\ pend'[w] = b2
        /\ \A v \in Workers \ {w} : mem'[v] = mem[v] /\ pend'[v] = pend[v]
    BY <1>1, <1>2 DEF Shapes
  <1>6. /\ m2 \in [figures : Figures, sessions : SUBSET Sessions] /\ m2.figures.here = TRUE
        /\ m2.figures.acc = m.figures.acc /\ m2.figures.rej = m.figures.rej
        /\ m2.figures.best = m.figures.best /\ m2.figures.work = m.figures.work
    BY <1>4 DEF GoodWorker, Figures
  <1>7. GoodRow(AuthorizedRow)
    BY AuthorizedFields, ZeroIsWhole DEF GoodRow
  <1>8. GoodRow(b2) /\ b2 \in Figures
    BY <1>4, <1>7, PlusGood DEF GoodRow
  <1>9. /\ b2.acc = pend[w].acc /\ b2.rej = pend[w].rej /\ b2.best = pend[w].best
        /\ b2.work = pend[w].work /\ b2.here = TRUE
    <2>1. /\ b2.acc = pend[w].acc + 0 /\ b2.rej = pend[w].rej + 0
          /\ b2.best = Larger(pend[w].best, 0) /\ b2.work = pend[w].work + 0
      BY <1>4, AuthorizedFields, PlusFields
    <2>2. b2.here = TRUE
      BY <1>4, AuthorizedFields, PlusFields
    <2> HIDE DEF b2
    <2> QED
      BY <1>4, <2>1, <2>2 DEF Figures, Larger
  <1> HIDE DEF m2, b2
  <1>10. /\ Plus(db[w], b2).acc = Plus(db[w], pend[w]).acc
         /\ Plus(db[w], b2).rej = Plus(db[w], pend[w]).rej
         /\ Plus(db[w], b2).best = Plus(db[w], pend[w]).best
         /\ Plus(db[w], b2).work = Plus(db[w], pend[w]).work
    BY <1>4, <1>8, <1>9, PlusFields
  <1>11. Plus(db[w], b2).here = TRUE
    BY <1>4, <1>8, <1>9, PlusFields
  <1>12. WorkerInv(w)'
    <2>1. GoodWorker(m2)
      BY <1>6 DEF GoodWorker
    <2>2. restored => WorkOf(m2, memRetired[w], Plus(db[w], b2), dbRetired[w])
      BY <1>1, <1>6, <1>10 DEF WorkerInv, WorkOf
    <2>3. restored /\ intact => CountsOf(m2, Plus(db[w], b2))
      BY <1>1, <1>6, <1>10, <1>11 DEF WorkerInv, CountsOf
    <2> QED
      BY <1>1, <1>3, <1>5, <1>8, <2>1, <2>2, <2>3 DEF WorkerInv
  <1>13. ASSUME NEW v \in Workers \ {w} PROVE WorkerInv(v)'
    BY <1>1, <1>3, <1>5 DEF WorkerInv
  <1>14. Shapes'
    <2>1. mem' \in [Workers -> [figures : Figures, sessions : SUBSET Sessions]]
      BY <1>1, <1>2, <1>5, <1>6 DEF Shapes
    <2>2. pend' \in [Workers -> Figures]
      BY <1>1, <1>2, <1>5, <1>8 DEF Shapes
    <2> QED
      BY <1>1, <1>3, <2>1, <2>2 DEF Shapes
  <1> QED
    BY <1>12, <1>13, <1>14 DEF AccountInv

\* What a flush, successful or not, leaves as rows and queue when a command goes on; after
\* a queue that was written, or was empty, nothing is queued.
LEMMA CommandFlush ==
  ASSUME AccountInv, NEW ok \in BOOLEAN
  PROVE  /\ Banked(pend, ok) \in [Workers -> Figures] /\ QueueAfter(pend, ok) \in [Workers -> Figures]
         /\ \A w \in Workers :
              /\ GoodRow(Banked(pend, ok)[w]) /\ GoodRow(QueueAfter(pend, ok)[w])
              /\ Plus(Banked(pend, ok)[w], QueueAfter(pend, ok)[w]) = Plus(db[w], pend[w])
              /\ FlushedFirst(ok) => QueueAfter(pend, ok)[w] = Nothing
  <1>1. pend \in [Workers -> Figures] /\ \A w \in Workers : GoodRow(pend[w])
    BY DEF AccountInv, Shapes, WorkerInv
  <1>2. \A w \in Workers : FlushedFirst(ok) => QueueAfter(pend, ok)[w] = Nothing
    BY DEF FlushedFirst, QueueAfter, EmptyQueue
  <1> QED
    BY <1>1, <1>2, FlushMoves

\* The command itself fails: only the flush happened.
LEMMA CommandFails ==
  ASSUME AccountInv, NEW ok \in BOOLEAN, db' = Banked(pend, ok), pend' = QueueAfter(pend, ok),
         UNCHANGED <<dbRetired, mem, memRetired, shares, restored, intact>>
  PROVE  AccountInv'
  <1>1. Shapes /\ \A w \in Workers : WorkerInv(w)
    BY DEF AccountInv
  <1>2. Shapes'
    BY <1>1, CommandFlush DEF Shapes
  <1>3. ASSUME NEW w \in Workers PROVE WorkerInv(w)'
    BY <1>1, CommandFlush DEF WorkerInv
  <1> QED
    BY <1>2, <1>3 DEF AccountInv

\* A reset zeroes counts and best and leaves work and the row's existence alone.
LEMMA ZeroedFields ==
  ASSUME NEW f \in Figures
  PROVE  /\ Zeroed(f) \in Figures
         /\ Zeroed(f).acc = 0 /\ Zeroed(f).rej = 0 /\ Zeroed(f).best = 0
         /\ Zeroed(f).work = f.work /\ Zeroed(f).here = f.here
         /\ f = Nothing => Zeroed(f) = Nothing
  <1>1. /\ Zeroed(f) \in Figures
        /\ Zeroed(f).acc = 0 /\ Zeroed(f).rej = 0 /\ Zeroed(f).best = 0
        /\ Zeroed(f).work = f.work /\ Zeroed(f).here = f.here
    BY DEF Zeroed, Figures
  <1>2. ASSUME f = Nothing PROVE Zeroed(f) = Nothing
    BY <1>1, <1>2, NothingIsZero DEF Figures
  <1> QED
    BY <1>1, <1>2

\* Resetting one worker or all of them keeps the invariant, whichever of its writes fails.
LEMMA ResetKeeps ==
  ASSUME AccountInv, ResetStats PROVE AccountInv'
  <1>1. Shapes /\ \A w \in Workers : WorkerInv(w)
    BY DEF AccountInv
  <1>2. PICK ok \in BOOLEAN, done \in BOOLEAN :
          LET rows == IF ok THEN Written(pend) ELSE db
          IN  /\ pend' = QueueAfter(pend, ok)
              /\ IF done
                 THEN /\ db' = [w \in Workers |-> Zeroed(rows[w])]
                      /\ mem' = [w \in Workers |-> [mem[w] EXCEPT !.figures = Zeroed(@)]]
                      /\ poolAcc' = 0 /\ poolRej' = 0
                      /\ intact' = (intact /\ FlushedFirst(ok))
                 ELSE db' = rows /\ UNCHANGED <<mem, poolAcc, poolRej, intact>>
              /\ UNCHANGED <<dbRetired, stamp, memRetired, shares, restored>>
    BY DEF ResetStats
  <1> DEFINE rows == Banked(pend, ok)
             queue == QueueAfter(pend, ok)
  <1>3. pend' = queue /\ UNCHANGED <<dbRetired, memRetired, shares, restored>>
    BY <1>2
  <1>4. /\ rows \in [Workers -> Figures] /\ queue \in [Workers -> Figures]
        /\ \A w \in Workers : /\ GoodRow(rows[w]) /\ GoodRow(queue[w])
                              /\ Plus(rows[w], queue[w]) = Plus(db[w], pend[w])
                              /\ FlushedFirst(ok) => queue[w] = Nothing
    BY CommandFlush
  <1>5. CASE ~done
    <2>1. db' = Banked(pend, ok) /\ UNCHANGED <<mem, intact>>
      BY <1>2, <1>5 DEF Banked
    <2> QED
      BY <1>3, <2>1, CommandFails
  <1>6. CASE done
    <2>1. db' = [w \in Workers |-> Zeroed(rows[w])]
      BY <1>2, <1>6 DEF Banked
    <2>2. /\ mem' = [w \in Workers |-> [mem[w] EXCEPT !.figures = Zeroed(@)]]
          /\ intact' = (intact /\ FlushedFirst(ok))
      BY <1>2, <1>6
    <2> HIDE DEF rows, queue
    <2>3. ASSUME NEW w \in Workers PROVE WorkerInv(w)' /\ mem'[w] \in [figures : Figures, sessions : SUBSET Sessions]
      <3> DEFINE m == mem[w]
                 m2 == [m EXCEPT !.figures = Zeroed(@)]
                 r2 == Zeroed(rows[w])
      <3>1. mem'[w] = m2 /\ db'[w] = r2 /\ pend'[w] = queue[w]
        BY <1>3, <2>1, <2>2
      <3>2. /\ GoodWorker(m) /\ m.figures \in Figures
            /\ rows[w] \in Figures /\ queue[w] \in Figures /\ GoodRow(queue[w])
        BY <1>1, <1>4 DEF WorkerInv, GoodWorker
      <3>3. m2.figures = Zeroed(m.figures) /\ m2.sessions = m.sessions
            /\ m2 \in [figures : Figures, sessions : SUBSET Sessions]
        BY <3>2, ZeroedFields DEF GoodWorker
      <3>4. GoodWorker(m2)
        <4>1. ASSUME ~m2.figures.here PROVE m2 = NoWorker
          <5>1. m = NoWorker /\ m2.figures = Nothing
            BY <3>2, <3>3, <4>1, ZeroedFields DEF GoodWorker, NoWorker
          <5> QED
            BY <3>3, <5>1 DEF NoWorker
        <4> QED
          BY <3>3, <4>1 DEF GoodWorker
      <3>5. r2 \in Figures /\ GoodRow(r2)
        BY <1>4, <3>2, ZeroedFields, ZeroIsWhole DEF GoodRow
      <3>6. restored => WorkOf(m2, memRetired[w], Plus(r2, queue[w]), dbRetired[w])
        <4>1. m2.figures.work = m.figures.work
          BY <3>2, <3>3, ZeroedFields
        <4>2. Plus(r2, queue[w]).work = Plus(rows[w], queue[w]).work
          BY <3>2, <3>5, PlusFields, ZeroedFields
        <4> QED
          BY <1>1, <1>4, <4>1, <4>2 DEF WorkerInv, WorkOf
      <3>7. restored /\ intact' => CountsOf(m2, Plus(r2, queue[w]))
        <4> SUFFICES ASSUME restored, intact, FlushedFirst(ok)
                     PROVE  CountsOf(m2, Plus(r2, queue[w]))
          BY <2>2
        <4>1. queue[w] = Nothing /\ Plus(r2, queue[w]) = r2 /\ Plus(rows[w], queue[w]) = rows[w]
          BY <1>4, <3>2, <3>5, PlusNothing
        <4>2. m.figures.here = rows[w].here
          BY <1>1, <1>4, <4>1 DEF WorkerInv, CountsOf
        <4>3. /\ r2.acc = 0 /\ r2.rej = 0 /\ r2.best = 0 /\ r2.here = rows[w].here
              /\ m2.figures.acc = 0 /\ m2.figures.rej = 0 /\ m2.figures.best = 0
              /\ m2.figures.here = m.figures.here
          BY <3>2, <3>3, ZeroedFields
        <4> QED
          BY <4>1, <4>2, <4>3, ZeroIsWhole DEF CountsOf
      <3> QED
        BY <1>1, <1>3, <3>1, <3>2, <3>3, <3>4, <3>5, <3>6, <3>7 DEF WorkerInv
    <2>4. Shapes'
      <3>1. mem' \in [Workers -> [figures : Figures, sessions : SUBSET Sessions]]
        BY <2>2, <2>3
      <3>2. db' \in [Workers -> Figures]
        BY <1>4, <2>1, ZeroedFields
      <3>3. intact' \in BOOLEAN
        BY <1>1, <2>2 DEF Shapes
      <3> QED
        BY <1>1, <1>3, <1>4, <3>1, <3>2, <3>3 DEF Shapes
    <2> QED
      BY <2>3, <2>4 DEF AccountInv
  <1> QED
    BY <1>5, <1>6

\* A worker memory does not know has nothing to account for.
LEMMA NobodyIsZero ==
  /\ NoWorker \in [figures : Figures, sessions : SUBSET Sessions]
  /\ NoWorker.figures = Nothing /\ GoodWorker(NoWorker)
  /\ CountsOf(NoWorker, Nothing)
  <1>1. NoWorker \in [figures : Figures, sessions : SUBSET Sessions] /\ NoWorker.figures = Nothing
    BY NothingIsZero DEF NoWorker, Offline
  <1> QED
    BY <1>1, NothingIsZero, ZeroIsWhole DEF GoodWorker, CountsOf

\* Removing a worker, which retires its work, keeps the invariant.
LEMMA RemoveKeeps ==
  ASSUME AccountInv, RemoveWorker PROVE AccountInv'
  <1>1. Shapes /\ \A v \in Workers : WorkerInv(v)
    BY DEF AccountInv
  <1>2. PICK w \in Workers, ok \in BOOLEAN, done \in BOOLEAN :
          /\ LET rows == IF ok THEN Written(pend) ELSE db
             IN  /\ pend' = QueueAfter(pend, ok)
                 /\ IF done
                    THEN /\ dbRetired' = [dbRetired EXCEPT ![w] = Retired(@, rows[w].work)]
                         /\ db' = [rows EXCEPT ![w] = Nothing]
                         /\ memRetired' = [memRetired EXCEPT ![w] = Retired(@, mem[w].figures.work)]
                         /\ mem' = [mem EXCEPT ![w] = NoWorker]
                         /\ poolAcc' = poolAcc - mem[w].figures.acc
                         /\ poolRej' = poolRej - mem[w].figures.rej
                         /\ intact' = (intact /\ FlushedFirst(ok))
                    ELSE db' = rows /\ UNCHANGED <<dbRetired, statVars, intact>>
          /\ UNCHANGED <<stamp, shares, restored>>
    BY DEF RemoveWorker
  <1> DEFINE rows == Banked(pend, ok)
             queue == QueueAfter(pend, ok)
  <1>3. pend' = queue /\ UNCHANGED <<shares, restored>>
    BY <1>2
  <1>4. /\ rows \in [Workers -> Figures] /\ queue \in [Workers -> Figures]
        /\ \A v \in Workers : /\ GoodRow(rows[v]) /\ GoodRow(queue[v])
                              /\ Plus(rows[v], queue[v]) = Plus(db[v], pend[v])
                              /\ FlushedFirst(ok) => queue[v] = Nothing
    BY CommandFlush
  <1>5. CASE ~done
    <2>1. db' = Banked(pend, ok) /\ UNCHANGED <<dbRetired, mem, memRetired, intact>>
      BY <1>2, <1>5 DEF Banked, statVars
    <2> QED
      BY <1>3, <2>1, CommandFails
  <1>6. CASE done
    <2>1. /\ dbRetired' = [dbRetired EXCEPT ![w] = @ + rows[w].work]
          /\ db' = [rows EXCEPT ![w] = Nothing]
      BY <1>2, <1>6 DEF Banked, Retired
    <2>2. /\ memRetired' = [memRetired EXCEPT ![w] = @ + mem[w].figures.work]
          /\ mem' = [mem EXCEPT ![w] = NoWorker]
          /\ intact' = (intact /\ FlushedFirst(ok))
      BY <1>2, <1>6 DEF Retired
    <2> HIDE DEF rows, queue
    <2>3. /\ db'[w] = Nothing /\ dbRetired'[w] = dbRetired[w] + rows[w].work
          /\ mem'[w] = NoWorker /\ memRetired'[w] = memRetired[w] + mem[w].figures.work
          /\ \A v \in Workers \ {w} : /\ db'[v] = rows[v] /\ dbRetired'[v] = dbRetired[v]
                                      /\ mem'[v] = mem[v] /\ memRetired'[v] = memRetired[v]
      BY <1>1, <1>4, <2>1, <2>2 DEF Shapes
    <2>4. /\ rows[w] \in Figures /\ queue[w] \in Figures /\ mem[w].figures \in Figures
          /\ dbRetired[w] \in Nat /\ memRetired[w] \in Nat
          /\ rows[w].work \in Nat /\ queue[w].work \in Nat /\ mem[w].figures.work \in Nat
      BY <1>1, <1>4 DEF Shapes, WorkerInv, GoodWorker, Figures
    <2>5. intact' => intact /\ FlushedFirst(ok)
      BY <2>2
    <2>6. WorkerInv(w)'
      <3>1. Whole(dbRetired'[w])
        BY <1>1, <1>4, <2>3, WholeCombines DEF WorkerInv, GoodRow
      <3>2. ASSUME restored
            PROVE  WorkOf(NoWorker, memRetired'[w], Plus(Nothing, queue[w]), dbRetired'[w])
        <4>1. Mult * (mem[w].figures.work + memRetired[w]) = (rows[w].work + queue[w].work) + dbRetired[w]
          <5>1. WorkOf(mem[w], memRetired[w], Plus(rows[w], queue[w]), dbRetired[w])
            BY <1>1, <1>4, <3>2 DEF WorkerInv
          <5> QED
            BY <2>4, <5>1, PlusFields DEF WorkOf
        <4>2. Plus(Nothing, queue[w]).work = 0 + queue[w].work
          BY <2>4, NothingIsZero, PlusFields
        <4>3. 0 + (memRetired[w] + mem[w].figures.work) = mem[w].figures.work + memRetired[w]
          BY <2>4
        <4>4. (rows[w].work + queue[w].work) + dbRetired[w]
                = (0 + queue[w].work) + (dbRetired[w] + rows[w].work)
          BY <2>4
        <4> QED
          BY <2>3, <4>1, <4>2, <4>3, <4>4, NobodyIsZero, NothingIsZero DEF WorkOf
      <3>3. ASSUME FlushedFirst(ok)
            PROVE  CountsOf(NoWorker, Plus(Nothing, queue[w]))
        <4>1. Plus(Nothing, queue[w]) = Nothing
          BY <1>4, <3>3, NothingIsZero, PlusNothing
        <4> QED
          BY <4>1, NobodyIsZero
      <3>4. GoodRow(queue[w])
        BY <1>4
      <3> QED
        BY <1>3, <2>3, <2>5, <3>1, <3>2, <3>3, <3>4, NobodyIsZero, NothingIsGood DEF WorkerInv
    <2>7. ASSUME NEW v \in Workers \ {w} PROVE WorkerInv(v)'
      BY <1>1, <1>3, <1>4, <2>3, <2>5 DEF WorkerInv
    <2>8. Shapes'
      <3>1. mem' \in [Workers -> [figures : Figures, sessions : SUBSET Sessions]]
        BY <1>1, <2>2, NobodyIsZero DEF Shapes
      <3>2. db' \in [Workers -> Figures]
        BY <1>4, <2>1, NothingIsZero
      <3>3. dbRetired' \in [Workers -> Nat] /\ memRetired' \in [Workers -> Nat]
        BY <1>1, <2>1, <2>2, <2>4 DEF Shapes
      <3>4. intact' \in BOOLEAN
        BY <1>1, <2>2 DEF Shapes
      <3> QED
        BY <1>1, <1>3, <1>4, <3>1, <3>2, <3>3, <3>4 DEF Shapes
    <2> QED
      BY <2>6, <2>7, <2>8 DEF AccountInv
  <1> QED
    BY <1>5, <1>6

\* Loading a good row at start converts its work and best exactly and keeps its counts.
LEMMA LoadedFields ==
  ASSUME NEW f, GoodRow(f)
  PROVE  /\ Loaded(f) \in Figures /\ Loaded(f).acc = f.acc /\ Loaded(f).rej = f.rej
         /\ Mult * Loaded(f).best = f.best /\ Mult * Loaded(f).work = f.work
         /\ Loaded(f).here = f.here
  <1>1. /\ ToNetwork(f.work) \in Nat /\ Mult * ToNetwork(f.work) = f.work
        /\ ToNetwork(f.best) \in Nat /\ Mult * ToNetwork(f.best) = f.best
    BY WholeToNetwork DEF GoodRow
  <1>2. f \in Figures
    BY DEF GoodRow
  <1>3. /\ Loaded(f) \in Figures /\ Loaded(f).acc = f.acc /\ Loaded(f).rej = f.rej
        /\ Loaded(f).best = ToNetwork(f.best) /\ Loaded(f).work = ToNetwork(f.work)
        /\ Loaded(f).here = f.here
    BY <1>1, <1>2 DEF Loaded, InNetwork, Figures
  <1> QED
    BY <1>1, <1>3

\* A restart, whose queue is gone and whose memory is what it could load, keeps the invariant.
LEMMA RestartKeeps ==
  ASSUME AccountInv, Restart PROVE AccountInv'
  <1>1. Shapes /\ \A w \in Workers : WorkerInv(w)
    BY DEF AccountInv
  <1>2. PICK ok \in BOOLEAN :
          /\ mem' = [w \in Workers |->
                       IF ok /\ db[w].here THEN [figures |-> Loaded(db[w]), sessions |-> {}] ELSE NoWorker]
          /\ memRetired' = [w \in Workers |-> IF ok THEN ToNetwork(dbRetired[w]) ELSE 0]
          /\ pend' = EmptyQueue
          /\ restored' = ok /\ intact' = TRUE
    BY DEF Restart
  <1>3. UNCHANGED <<db, dbRetired, shares>>
    BY DEF Restart, storeVars
  <1>4. ASSUME NEW w \in Workers
        PROVE  /\ WorkerInv(w)' /\ memRetired'[w] \in Nat
               /\ mem'[w] \in [figures : Figures, sessions : SUBSET Sessions]
    <2>1. GoodRow(db[w]) /\ db[w] \in Figures /\ Whole(dbRetired[w]) /\ pend'[w] = Nothing
      BY <1>1, <1>2 DEF WorkerInv, GoodRow, EmptyQueue
    <2>2. Plus(db[w], Nothing) = db[w]
      BY <2>1, PlusNothing
    <2>3. ToNetwork(dbRetired[w]) \in Nat /\ Mult * ToNetwork(dbRetired[w]) = dbRetired[w]
          /\ dbRetired[w] \in Nat
      BY <2>1, WholeToNetwork
    <2>4. CASE ~ok
      <3>1. mem'[w] = NoWorker /\ memRetired'[w] = 0 /\ restored' = FALSE
        BY <1>2, <2>4
      <3> QED
        BY <1>3, <2>1, <3>1, NobodyIsZero, NothingIsGood DEF WorkerInv
    <2>5. CASE ok /\ ~db[w].here
      <3>1. mem'[w] = NoWorker /\ memRetired'[w] = ToNetwork(dbRetired[w]) /\ db[w] = Nothing
        BY <1>2, <2>1, <2>5 DEF GoodRow
      <3>2. WorkOf(NoWorker, memRetired'[w], Nothing, dbRetired[w])
        BY <2>3, <3>1, NobodyIsZero, NothingIsZero DEF WorkOf
      <3> QED
        BY <1>3, <2>1, <2>2, <2>3, <3>1, <3>2, NobodyIsZero, NothingIsGood DEF WorkerInv
    <2>6. CASE ok /\ db[w].here
      <3> DEFINE m == [figures |-> Loaded(db[w]), sessions |-> {}]
      <3>1. mem'[w] = m /\ memRetired'[w] = ToNetwork(dbRetired[w])
        BY <1>2, <2>6
      <3>2. /\ Loaded(db[w]) \in Figures /\ Loaded(db[w]).acc = db[w].acc
            /\ Loaded(db[w]).rej = db[w].rej /\ Mult * Loaded(db[w]).best = db[w].best
            /\ Mult * Loaded(db[w]).work = db[w].work /\ Loaded(db[w]).here = db[w].here
        BY <2>1, LoadedFields
      <3>3. m.figures = Loaded(db[w]) /\ m \in [figures : Figures, sessions : SUBSET Sessions]
        BY <3>2
      <3> HIDE DEF m
      <3>4. GoodWorker(m)
        BY <2>6, <3>2, <3>3 DEF GoodWorker
      <3>5. WorkOf(m, memRetired'[w], db[w], dbRetired[w])
        <4>1. m.figures.work \in Nat /\ Mult * m.figures.work = db[w].work
          BY <3>2, <3>3 DEF Figures
        <4>2. Mult * (m.figures.work + ToNetwork(dbRetired[w])) = db[w].work + dbRetired[w]
          BY <2>3, <4>1, ScaleSum
        <4> QED
          BY <3>1, <4>2 DEF WorkOf
      <3>6. CountsOf(m, db[w])
        BY <3>2, <3>3 DEF CountsOf
      <3> QED
        BY <1>3, <2>1, <2>2, <2>3, <3>1, <3>3, <3>4, <3>5, <3>6, NothingIsGood DEF WorkerInv
    <2> QED
      BY <2>4, <2>5, <2>6
  <1>5. Shapes'
    <2>1. mem' \in [Workers -> [figures : Figures, sessions : SUBSET Sessions]]
          /\ memRetired' \in [Workers -> Nat]
      BY <1>2, <1>4
    <2>2. pend' \in [Workers -> Figures]
      BY <1>2, NothingIsZero DEF EmptyQueue
    <2> QED
      BY <1>1, <1>2, <1>3, <2>1, <2>2 DEF Shapes
  <1> QED
    BY <1>4, <1>5 DEF AccountInv

\* Steps that change no figures.
LEMMA IdleKeeps ==
  ASSUME AccountInv, UNCHANGED <<db, dbRetired, pend, mem, memRetired, shares, restored, intact>>
  PROVE  AccountInv'
  <1>1. Shapes'
    BY DEF AccountInv, Shapes
  <1>2. \A w \in Workers : WorkerInv(w)'
    BY DEF AccountInv, WorkerInv
  <1> QED
    BY <1>1, <1>2 DEF AccountInv

\* Every step of the publisher, the operator and the store keeps the invariant.
LEMMA NextAccount == AccountInv /\ [Next]_vars => AccountInv'
  <1> SUFFICES ASSUME AccountInv, [Next]_vars PROVE AccountInv'
    OBVIOUS
  <1>1. CASE ShareAccepted \/ ShareRejected
    BY <1>1, SharesKeep
  <1>2. CASE Authorized \/ Disconnected \/ Tick
    BY <1>2, AuthorizedKeeps, DisconnectedKeeps, TickKeeps
  <1>3. CASE ResetStats \/ RemoveWorker \/ Restart
    BY <1>3, ResetKeeps, RemoveKeeps, RestartKeeps
  <1>4. CASE BlockRecorded
    BY <1>4, IdleKeeps DEF BlockRecorded, statVars
  <1>5. CASE UNCHANGED vars
    BY <1>5, IdleKeeps DEF vars, storeVars, statVars
  <1> QED
    BY <1>1, <1>2, <1>3, <1>4, <1>5 DEF Next

-----------------------------------------------------------------------------
(* The totals. *)

WorkIn(rows, retired) == SumFunction([w \in Workers |-> rows[w].work + retired[w]])
WorkQueued(q) == SumFunction([w \in Workers |-> q[w].work])

\* What the last block was stamped with is in the database and stays there.
StampBanked == stamp \in Nat /\ stamp <= DbTotal

TotalsInv == AccountInv /\ StampBanked /\ PoolCountsAreSums

\* The totals over the workers are sums of numbers.
LEMMA TotalsTyped ==
  ASSUME AccountInv
  PROVE  /\ [w \in Workers |-> db[w].work + dbRetired[w]] \in [Workers -> Nat]
         /\ [w \in Workers |-> pend[w].work] \in [Workers -> Nat]
         /\ [w \in Workers |-> mem[w].figures.work + memRetired[w]] \in [Workers -> Nat]
         /\ [w \in Workers |-> mem[w].figures.acc] \in [Workers -> Nat]
         /\ [w \in Workers |-> mem[w].figures.rej] \in [Workers -> Nat]
         /\ DbTotal \in Nat /\ PendTotal \in Nat /\ MemTotal \in Nat
  <1>1. ASSUME NEW w \in Workers
        PROVE  /\ db[w].work + dbRetired[w] \in Nat /\ pend[w].work \in Nat
               /\ mem[w].figures.work + memRetired[w] \in Nat
               /\ mem[w].figures.acc \in Nat /\ mem[w].figures.rej \in Nat
    <2>1. /\ db[w] \in Figures /\ pend[w] \in Figures /\ mem[w].figures \in Figures
          /\ dbRetired[w] \in Nat /\ memRetired[w] \in Nat
      BY DEF AccountInv, Shapes
    <2> QED
      BY <2>1 DEF Figures
  <1>2. /\ [w \in Workers |-> db[w].work + dbRetired[w]] \in [Workers -> Nat]
        /\ [w \in Workers |-> pend[w].work] \in [Workers -> Nat]
        /\ [w \in Workers |-> mem[w].figures.work + memRetired[w]] \in [Workers -> Nat]
        /\ [w \in Workers |-> mem[w].figures.acc] \in [Workers -> Nat]
        /\ [w \in Workers |-> mem[w].figures.rej] \in [Workers -> Nat]
    BY <1>1
  <1> QED
    BY <1>2, SumIs DEF DbTotal, PendTotal, MemTotal

\* A flush banks all of the queue's work, or none of it.
LEMMA FlushBanks ==
  ASSUME AccountInv, NEW ok \in BOOLEAN, NEW q \in [Workers -> Figures],
         \A w \in Workers : GoodRow(q[w])
  PROVE  /\ ok => /\ WorkIn(Banked(q, ok), dbRetired) = DbTotal + WorkQueued(q)
                  /\ WorkQueued(QueueAfter(q, ok)) = 0
         /\ ~ok => /\ WorkIn(Banked(q, ok), dbRetired) = DbTotal
                   /\ WorkQueued(QueueAfter(q, ok)) = WorkQueued(q)
         /\ WorkQueued(q) \in Nat
  <1> DEFINE stored == [w \in Workers |-> db[w].work + dbRetired[w]]
             queued == [w \in Workers |-> q[w].work]
  <1>1. stored \in [Workers -> Nat] /\ DbTotal = SumFunction(stored)
    BY TotalsTyped DEF DbTotal
  <1>2. queued \in [Workers -> Nat] /\ WorkQueued(q) = SumFunction(queued)
    BY DEF WorkQueued, Figures
  <1>3. WorkQueued(q) \in Nat
    BY <1>2, SumIs
  <1>4. CASE ok
    <2> DEFINE both == [w \in Workers |-> Banked(q, ok)[w].work + dbRetired[w]]
    <2>1. \A w \in Workers : both[w] = stored[w] + queued[w] /\ both[w] \in Nat
      <3> TAKE w \in Workers
      <3>1. db[w] \in Figures /\ q[w] \in Figures /\ dbRetired[w] \in Nat
        BY DEF AccountInv, Shapes
      <3>2. Banked(q, ok)[w].work = db[w].work + q[w].work
        BY <1>4, <3>1, PlusFields DEF Banked, Written
      <3>3. db[w].work \in Nat /\ q[w].work \in Nat
        BY <3>1 DEF Figures
      <3> QED
        BY <3>1, <3>2, <3>3
    <2>2. both \in [Workers -> Nat] /\ WorkIn(Banked(q, ok), dbRetired) = SumFunction(both)
      BY <2>1 DEF WorkIn
    <2>3. WorkQueued(QueueAfter(q, ok)) = 0
      <3>1. [w \in Workers |-> QueueAfter(q, ok)[w].work] = [w \in Workers |-> 0]
        BY <1>4, NothingIsZero DEF QueueAfter, EmptyQueue
      <3> QED
        BY <3>1, TotalZero DEF WorkQueued
    <2> HIDE DEF both, stored, queued
    <2>4. SumFunction(both) = SumFunction(stored) + SumFunction(queued)
      BY <1>1, <1>2, <2>1, <2>2, TotalAdds
    <2> QED
      BY <1>1, <1>2, <1>3, <1>4, <2>2, <2>3, <2>4
  <1>5. CASE ~ok
    BY <1>3, <1>5 DEF Banked, QueueAfter, WorkIn, DbTotal
  <1> QED
    BY <1>4, <1>5

\* What the ledger allows in a step.
Settles == [Books!Earn \/ Books!Bank \/ Books!Lose]_<<DbTotal, PendTotal>>

LEMMA TotalsNow ==
  /\ DbTotal = WorkIn(db, dbRetired) /\ DbTotal' = WorkIn(db', dbRetired')
  /\ PendTotal = WorkQueued(pend) /\ PendTotal' = WorkQueued(pend')
  BY DEF DbTotal, PendTotal, WorkIn, WorkQueued

\* A flush of the whole queue is a Bank of the ledger, or nothing.
LEMMA BankSettles ==
  ASSUME AccountInv, NEW ok \in BOOLEAN,
         DbTotal' = WorkIn(Banked(pend, ok), dbRetired), pend' = QueueAfter(pend, ok)
  PROVE  Settles
  <1>1. pend \in [Workers -> Figures] /\ \A w \in Workers : GoodRow(pend[w])
    BY DEF AccountInv, Shapes, WorkerInv
  <1>2. CASE ok
    BY <1>1, <1>2, FlushBanks, TotalsNow DEF Settles, Books!Bank
  <1>3. CASE ~ok
    BY <1>1, <1>3, FlushBanks, TotalsNow DEF Settles
  <1> QED
    BY <1>2, <1>3

\* Counting a share earns its work, in the queue or, when the queue is flushed, in the rows.
LEMMA CountSettles ==
  ASSUME AccountInv, NEW w \in Workers, NEW row \in Figures, Whole(row.work), Whole(row.best),
         row.here = TRUE, Count(w, row)
  PROVE  Settles
  <1> DEFINE q == [pend EXCEPT ![w] = Plus(@, row)]
  <1>1. pend \in [Workers -> Figures] /\ \A v \in Workers : GoodRow(pend[v])
    BY DEF AccountInv, Shapes, WorkerInv
  <1>2. GoodRow(row) /\ pend[w] \in Figures
    BY <1>1 DEF GoodRow
  <1>3. q \in [Workers -> Figures] /\ \A v \in Workers : GoodRow(q[v])
    BY <1>1, <1>2, PlusGood, PlusFields
  <1>4. WorkQueued(q) = PendTotal + row.work /\ row.work \in Nat
    <2> DEFINE old == [v \in Workers |-> pend[v].work]
               new == [v \in Workers |-> q[v].work]
    <2>1. old \in [Workers -> Nat] /\ new \in [Workers -> Nat]
      BY <1>1, <1>3 DEF Figures
    <2>2. new[w] = old[w] + row.work /\ \A v \in Workers \ {w} : new[v] = old[v]
      BY <1>1, <1>2, PlusFields
    <2>3. old[w] \in Nat /\ row.work \in Nat
      BY <1>2 DEF Figures
    <2>4. PendTotal = SumFunction(old) /\ WorkQueued(q) = SumFunction(new)
      BY DEF PendTotal, WorkQueued
    <2> HIDE DEF q, old, new
    <2>5. /\ SumFunction(new) + old[w] = SumFunction(old) + new[w]
          /\ SumFunction(new) \in Nat /\ SumFunction(old) \in Nat
      BY <2>1, <2>2, TotalChanges
    <2> QED
      BY ONLY <2>2, <2>3, <2>4, <2>5
  <1>5. DbTotal \in Nat /\ PendTotal \in Nat
    BY TotalsTyped
  <1>6. dbRetired' = dbRetired
    BY DEF Count
  <1>7. CASE pend' = q /\ db' = db
    <2>1. DbTotal' = DbTotal /\ PendTotal' = PendTotal + row.work
      BY <1>4, <1>6, <1>7, TotalsNow
    <2> QED
      BY <1>4, <1>5, <2>1 DEF Settles, Books!Earn
  <1>8. ASSUME NEW ok \in BOOLEAN, Flushed(q, ok) PROVE Settles
    <2>1. db' = Banked(q, ok) /\ pend' = QueueAfter(q, ok)
      BY <1>8 DEF Flushed, Banked
    <2> HIDE DEF q
    <2>2. CASE ok
      <3>1. DbTotal' = DbTotal + PendTotal + row.work /\ PendTotal' = 0
        <4>1. DbTotal' = DbTotal + WorkQueued(q) /\ PendTotal' = 0
          BY <1>3, <1>6, <2>1, <2>2, FlushBanks, TotalsNow
        <4> QED
          BY <1>4, <1>5, <4>1
      <3>2. CASE row.work = 0
        BY <1>5, <3>1, <3>2 DEF Settles, Books!Bank
      <3>3. CASE row.work # 0
        BY <1>4, <1>5, <3>1, <3>3 DEF Settles, Books!Earn
      <3> QED
        BY <3>2, <3>3
    <2>3. CASE ~ok
      <3>1. DbTotal' = DbTotal /\ PendTotal' = PendTotal + row.work
        BY <1>3, <1>4, <1>6, <2>1, <2>3, FlushBanks, TotalsNow
      <3> QED
        BY <1>4, <1>5, <3>1 DEF Settles, Books!Earn
    <2> QED
      BY <2>2, <2>3
  <1> QED
    BY <1>7, <1>8 DEF Count

\* A reset keeps the work of the rows it zeroes, a removal retires it.
LEMMA CommandsSettle == ASSUME AccountInv, ResetStats \/ RemoveWorker PROVE Settles
  <1>1. Shapes /\ dbRetired \in [Workers -> Nat]
    BY DEF AccountInv, Shapes
  <1>2. ASSUME ResetStats PROVE Settles
    <2>1. PICK ok \in BOOLEAN, done \in BOOLEAN :
            LET rows == IF ok THEN Written(pend) ELSE db
            IN  /\ pend' = QueueAfter(pend, ok)
                /\ IF done
                   THEN /\ db' = [w \in Workers |-> Zeroed(rows[w])]
                        /\ mem' = [w \in Workers |-> [mem[w] EXCEPT !.figures = Zeroed(@)]]
                        /\ poolAcc' = 0 /\ poolRej' = 0
                        /\ intact' = (intact /\ FlushedFirst(ok))
                   ELSE db' = rows /\ UNCHANGED <<mem, poolAcc, poolRej, intact>>
                /\ UNCHANGED <<dbRetired, stamp, memRetired, shares, restored>>
      BY <1>2 DEF ResetStats
    <2> DEFINE rows == Banked(pend, ok)
    <2>2. /\ pend' = QueueAfter(pend, ok) /\ dbRetired' = dbRetired
          /\ db' = [w \in Workers |-> Zeroed(rows[w])] \/ db' = rows
      BY <2>1 DEF Banked
    <2>3. rows \in [Workers -> Figures]
      BY CommandFlush
    <2> HIDE DEF rows
    <2>4. ASSUME db' = [w \in Workers |-> Zeroed(rows[w])]
          PROVE  WorkIn(db', dbRetired) = WorkIn(rows, dbRetired)
      <3>1. \A w \in Workers : db'[w].work + dbRetired[w] = rows[w].work + dbRetired[w]
        BY <2>3, <2>4, ZeroedFields
      <3> QED
        BY <3>1 DEF WorkIn
    <2>5. DbTotal' = WorkIn(rows, dbRetired)
      BY <2>2, <2>4, TotalsNow
    <2> QED
      BY <2>2, <2>5, BankSettles DEF rows
  <1>3. ASSUME RemoveWorker PROVE Settles
    <2>1. PICK w \in Workers, ok \in BOOLEAN, done \in BOOLEAN :
            LET rows == IF ok THEN Written(pend) ELSE db
            IN  /\ pend' = QueueAfter(pend, ok)
                /\ IF done
                   THEN /\ dbRetired' = [dbRetired EXCEPT ![w] = Retired(@, rows[w].work)]
                        /\ db' = [rows EXCEPT ![w] = Nothing]
                        /\ memRetired' = [memRetired EXCEPT ![w] = Retired(@, mem[w].figures.work)]
                        /\ mem' = [mem EXCEPT ![w] = NoWorker]
                        /\ poolAcc' = poolAcc - mem[w].figures.acc
                        /\ poolRej' = poolRej - mem[w].figures.rej
                        /\ intact' = (intact /\ FlushedFirst(ok))
                   ELSE db' = rows /\ UNCHANGED <<dbRetired, statVars, intact>>
      BY <1>3 DEF RemoveWorker
    <2> DEFINE rows == Banked(pend, ok)
    <2>2. /\ pend' = QueueAfter(pend, ok)
          /\ \/ /\ dbRetired' = [dbRetired EXCEPT ![w] = @ + rows[w].work]
                /\ db' = [rows EXCEPT ![w] = Nothing]
             \/ dbRetired' = dbRetired /\ db' = rows
      BY <2>1 DEF Banked, Retired
    <2>3. rows \in [Workers -> Figures]
      BY CommandFlush
    <2> HIDE DEF rows
    <2>4. ASSUME dbRetired' = [dbRetired EXCEPT ![w] = @ + rows[w].work], db' = [rows EXCEPT ![w] = Nothing]
          PROVE  WorkIn(db', dbRetired') = WorkIn(rows, dbRetired)
      <3>1. ASSUME NEW v \in Workers
            PROVE  db'[v].work + dbRetired'[v] = rows[v].work + dbRetired[v]
        <4>1. rows[v].work \in Nat /\ dbRetired[v] \in Nat
          BY <1>1, <2>3 DEF Figures
        <4>2. CASE v = w
          BY <1>1, <2>3, <2>4, <4>1, <4>2, NothingIsZero
        <4>3. CASE v # w
          BY <1>1, <2>3, <2>4, <4>3
        <4> QED
          BY <4>2, <4>3
      <3> QED
        BY <3>1 DEF WorkIn
    <2>5. DbTotal' = WorkIn(rows, dbRetired)
      BY <2>2, <2>4, TotalsNow
    <2> QED
      BY <2>2, <2>5, BankSettles DEF rows
  <1> QED
    BY <1>2, <1>3

\* Every step of the publisher, the operator and the store is one the ledger allows.
LEMMA NextSettles == AccountInv /\ [Next]_vars => Settles
  <1> SUFFICES ASSUME AccountInv, [Next]_vars PROVE Settles
    OBVIOUS
  <1>1. CASE ShareAccepted
    <2>1. PICK w \in Workers, d \in JobDiffs, best \in ShareDiffs :
                 Count(w, AcceptedRow(Mult * d, Mult * best))
      BY <1>1 DEF ShareAccepted
    <2> DEFINE row == AcceptedRow(Mult * d, Mult * best)
    <2>2. row \in Figures /\ Whole(row.work) /\ Whole(row.best) /\ row.here = TRUE
      BY AcceptedFields
    <2> HIDE DEF row
    <2> QED
      BY <2>1, <2>2, CountSettles DEF row
  <1>2. CASE ShareRejected
    BY <1>2, RejectedFields, CountSettles DEF ShareRejected
  <1>3. CASE Authorized
    <2>1. PICK w \in Workers : pend' = [pend EXCEPT ![w] = Plus(@, AuthorizedRow)]
      BY <1>3 DEF Authorized
    <2>2. db' = db /\ dbRetired' = dbRetired
      BY <1>3 DEF Authorized, storeVars
    <2>3. \A v \in Workers : pend'[v].work = pend[v].work
      <3> TAKE v \in Workers
      <3>1. pend \in [Workers -> Figures] /\ pend[v] \in Figures
        BY DEF AccountInv, Shapes
      <3>2. CASE v = w
        <4>1. pend'[v].work = pend[v].work + 0
          BY <2>1, <3>1, <3>2, AuthorizedFields, PlusFields
        <4> QED
          BY <3>1, <4>1 DEF Figures
      <3>3. CASE v # w
        BY <2>1, <3>1, <3>3
      <3> QED
        BY <3>2, <3>3
    <2>4. WorkQueued(pend') = WorkQueued(pend)
      BY <2>3 DEF WorkQueued
    <2> QED
      BY <2>2, <2>4, TotalsNow DEF Settles
  <1>4. CASE Tick
    <2>1. PICK ok \in BOOLEAN : db' = Banked(pend, ok) /\ pend' = QueueAfter(pend, ok)
      BY <1>4 DEF Tick, Flushed, Banked
    <2>2. dbRetired' = dbRetired
      BY <1>4 DEF Tick
    <2> QED
      BY <2>1, <2>2, BankSettles, TotalsNow
  <1>5. CASE Restart
    <2>1. pend' = EmptyQueue /\ db' = db /\ dbRetired' = dbRetired
      BY <1>5 DEF Restart, storeVars
    <2>2. [w \in Workers |-> EmptyQueue[w].work] = [w \in Workers |-> 0]
      BY NothingIsZero DEF EmptyQueue
    <2>3. PendTotal' = 0 /\ DbTotal' = DbTotal
      BY <2>1, <2>2, TotalZero, TotalsNow DEF WorkQueued
    <2> QED
      BY <2>3 DEF Settles, Books!Lose
  <1>6. CASE Disconnected \/ BlockRecorded \/ UNCHANGED vars
    <2>1. db' = db /\ dbRetired' = dbRetired /\ pend' = pend
      BY <1>6 DEF Disconnected, BlockRecorded, vars, storeVars
    <2> QED
      BY <2>1, TotalsNow DEF Settles
  <1> QED
    BY <1>1, <1>2, <1>3, <1>4, <1>5, <1>6, CommandsSettle DEF Next

\* The pool's counts, as sums over a memory.
AccsOf(m) == SumFunction([w \in Workers |-> m[w].figures.acc])
RejsOf(m) == SumFunction([w \in Workers |-> m[w].figures.rej])

\* When one worker's counts change, the sums change by as much.
LEMMA CountsChange ==
  ASSUME AccountInv, AccountInv', NEW w \in Workers,
         \A v \in Workers \ {w} : mem'[v].figures = mem[v].figures
  PROVE  /\ AccsOf(mem') + mem[w].figures.acc = AccsOf(mem) + mem'[w].figures.acc
         /\ RejsOf(mem') + mem[w].figures.rej = RejsOf(mem) + mem'[w].figures.rej
         /\ AccsOf(mem) \in Nat /\ RejsOf(mem) \in Nat /\ AccsOf(mem') \in Nat /\ RejsOf(mem') \in Nat
         /\ mem[w].figures.acc \in Nat /\ mem[w].figures.rej \in Nat
         /\ mem'[w].figures.acc \in Nat /\ mem'[w].figures.rej \in Nat
  <1> DEFINE a1 == [v \in Workers |-> mem[v].figures.acc]
             a2 == [v \in Workers |-> mem'[v].figures.acc]
             r1 == [v \in Workers |-> mem[v].figures.rej]
             r2 == [v \in Workers |-> mem'[v].figures.rej]
  <1>1. a1 \in [Workers -> Nat] /\ r1 \in [Workers -> Nat]
    BY TotalsTyped
  <1>2. a2 \in [Workers -> Nat] /\ r2 \in [Workers -> Nat]
    <2>1. \A v \in Workers : mem'[v].figures \in Figures
      BY DEF AccountInv, Shapes
    <2> QED
      BY <2>1 DEF Figures
  <1>3. \A v \in Workers \ {w} : a2[v] = a1[v] /\ r2[v] = r1[v]
    OBVIOUS
  <1>4. /\ a1[w] = mem[w].figures.acc /\ a2[w] = mem'[w].figures.acc
        /\ r1[w] = mem[w].figures.rej /\ r2[w] = mem'[w].figures.rej
    OBVIOUS
  <1>5. /\ AccsOf(mem) = SumFunction(a1) /\ AccsOf(mem') = SumFunction(a2)
        /\ RejsOf(mem) = SumFunction(r1) /\ RejsOf(mem') = SumFunction(r2)
    BY DEF AccsOf, RejsOf
  <1> HIDE DEF a1, a2, r1, r2
  <1>6. a1[w] \in Nat /\ a2[w] \in Nat /\ r1[w] \in Nat /\ r2[w] \in Nat
    BY <1>1, <1>2
  <1>7. /\ SumFunction(a2) + a1[w] = SumFunction(a1) + a2[w]
        /\ SumFunction(a1) \in Nat /\ SumFunction(a2) \in Nat
    BY <1>1, <1>2, <1>3, TotalChanges
  <1>8. /\ SumFunction(r2) + r1[w] = SumFunction(r1) + r2[w]
        /\ SumFunction(r1) \in Nat /\ SumFunction(r2) \in Nat
    BY <1>1, <1>2, <1>3, TotalChanges
  <1> QED
    BY <1>4, <1>5, <1>6, <1>7, <1>8

LEMMA PoolCountsNow ==
  /\ PoolCountsAreSums <=> poolAcc = AccsOf(mem) /\ poolRej = RejsOf(mem)
  /\ PoolCountsAreSums' <=> poolAcc' = AccsOf(mem') /\ poolRej' = RejsOf(mem')
  BY DEF PoolCountsAreSums, AccsOf, RejsOf

\* Where no worker's counts change, neither do the sums.
LEMMA CountsStay ==
  ASSUME \A w \in Workers : /\ mem'[w].figures.acc = mem[w].figures.acc
                            /\ mem'[w].figures.rej = mem[w].figures.rej
  PROVE  AccsOf(mem') = AccsOf(mem) /\ RejsOf(mem') = RejsOf(mem)
  BY DEF AccsOf, RejsOf

\* Where every worker's counts are zero, so are the sums.
LEMMA CountsGone ==
  ASSUME \A w \in Workers : mem'[w].figures.acc = 0 /\ mem'[w].figures.rej = 0
  PROVE  AccsOf(mem') = 0 /\ RejsOf(mem') = 0
  <1>1. /\ [w \in Workers |-> mem'[w].figures.acc] = [w \in Workers |-> 0]
        /\ [w \in Workers |-> mem'[w].figures.rej] = [w \in Workers |-> 0]
    OBVIOUS
  <1> QED
    BY <1>1, TotalZero DEF AccsOf, RejsOf

\* Counting a share adds the same to the pool's counts as to its worker's.
LEMMA CountSums ==
  ASSUME AccountInv, AccountInv', PoolCountsAreSums,
         NEW w \in Workers, NEW row \in Figures, Whole(row.work), Whole(row.best),
         row.here = TRUE, Count(w, row)
  PROVE  PoolCountsAreSums'
  <1>1. /\ mem' = [mem EXCEPT ![w].figures = Plus(@, InNetwork(row))]
        /\ poolAcc' = poolAcc + row.acc /\ poolRej' = poolRej + row.rej
    BY DEF Count
  <1>2. mem[w].figures \in Figures /\ mem \in [Workers -> [figures : Figures, sessions : SUBSET Sessions]]
    BY DEF AccountInv, Shapes
  <1>3. /\ mem'[w].figures = Plus(mem[w].figures, InNetwork(row))
        /\ \A v \in Workers \ {w} : mem'[v].figures = mem[v].figures
    BY <1>1, <1>2
  <1>4. InNetwork(row) \in Figures /\ InNetwork(row).acc = row.acc /\ InNetwork(row).rej = row.rej
    <2>1. ToNetwork(row.work) \in Nat /\ ToNetwork(row.best) \in Nat
      BY WholeToNetwork
    <2> QED
      BY <2>1 DEF InNetwork, Figures
  <1>5. /\ mem'[w].figures.acc = mem[w].figures.acc + row.acc
        /\ mem'[w].figures.rej = mem[w].figures.rej + row.rej
    BY <1>2, <1>3, <1>4, PlusFields
  <1>6. row.acc \in Nat /\ row.rej \in Nat
    BY DEF Figures
  <1>7. /\ AccsOf(mem') + mem[w].figures.acc = AccsOf(mem) + mem'[w].figures.acc
        /\ RejsOf(mem') + mem[w].figures.rej = RejsOf(mem) + mem'[w].figures.rej
        /\ AccsOf(mem) \in Nat /\ RejsOf(mem) \in Nat /\ AccsOf(mem') \in Nat /\ RejsOf(mem') \in Nat
        /\ mem[w].figures.acc \in Nat /\ mem[w].figures.rej \in Nat
    BY <1>3, CountsChange
  <1>8. AccsOf(mem') = AccsOf(mem) + row.acc
    <2>1. AccsOf(mem') + mem[w].figures.acc = AccsOf(mem) + (mem[w].figures.acc + row.acc)
      BY <1>5, <1>7
    <2> QED
      BY ONLY <1>6, <1>7, <2>1
  <1>9. RejsOf(mem') = RejsOf(mem) + row.rej
    <2>1. RejsOf(mem') + mem[w].figures.rej = RejsOf(mem) + (mem[w].figures.rej + row.rej)
      BY <1>5, <1>7
    <2> QED
      BY ONLY <1>6, <1>7, <2>1
  <1> QED
    BY <1>1, <1>8, <1>9, PoolCountsNow

\* A removal takes from the pool's counts what its worker had added.
LEMMA RemoveSums ==
  ASSUME AccountInv, AccountInv', PoolCountsAreSums, RemoveWorker
  PROVE  PoolCountsAreSums'
  <1>1. PICK w \in Workers, ok \in BOOLEAN, done \in BOOLEAN :
          IF done
          THEN /\ mem' = [mem EXCEPT ![w] = NoWorker]
               /\ poolAcc' = poolAcc - mem[w].figures.acc
               /\ poolRej' = poolRej - mem[w].figures.rej
          ELSE UNCHANGED statVars
    BY DEF RemoveWorker
  <1>2. CASE ~done
    BY <1>1, <1>2, PoolCountsNow DEF statVars
  <1>3. CASE done
    <2>1. mem \in [Workers -> [figures : Figures, sessions : SUBSET Sessions]]
      BY DEF AccountInv, Shapes
    <2>2. /\ mem'[w].figures.acc = 0 /\ mem'[w].figures.rej = 0
          /\ \A v \in Workers \ {w} : mem'[v].figures = mem[v].figures
      BY <1>1, <1>3, <2>1, NobodyIsZero, NothingIsZero
    <2>3. /\ AccsOf(mem') + mem[w].figures.acc = AccsOf(mem) + mem'[w].figures.acc
          /\ RejsOf(mem') + mem[w].figures.rej = RejsOf(mem) + mem'[w].figures.rej
          /\ AccsOf(mem) \in Nat /\ RejsOf(mem) \in Nat /\ AccsOf(mem') \in Nat /\ RejsOf(mem') \in Nat
          /\ mem[w].figures.acc \in Nat /\ mem[w].figures.rej \in Nat
      BY <2>2, CountsChange
    <2>4. /\ AccsOf(mem') = AccsOf(mem) - mem[w].figures.acc
          /\ RejsOf(mem') = RejsOf(mem) - mem[w].figures.rej
      BY ONLY <2>2, <2>3
    <2> QED
      BY <1>1, <1>3, <2>4, PoolCountsNow
  <1> QED
    BY <1>2, <1>3

\* Every step keeps the pool's counts the sums of the workers'.
LEMMA NextSums == AccountInv /\ AccountInv' /\ PoolCountsAreSums /\ [Next]_vars => PoolCountsAreSums'
  <1> SUFFICES ASSUME AccountInv, AccountInv', PoolCountsAreSums, [Next]_vars
               PROVE  PoolCountsAreSums'
    OBVIOUS
  <1>1. CASE ShareAccepted
    <2>1. PICK w \in Workers, d \in JobDiffs, best \in ShareDiffs :
                 Count(w, AcceptedRow(Mult * d, Mult * best))
      BY <1>1 DEF ShareAccepted
    <2> DEFINE row == AcceptedRow(Mult * d, Mult * best)
    <2>2. row \in Figures /\ Whole(row.work) /\ Whole(row.best) /\ row.here = TRUE
      BY AcceptedFields
    <2> HIDE DEF row
    <2> QED
      BY <2>1, <2>2, CountSums DEF row
  <1>2. CASE ShareRejected
    BY <1>2, RejectedFields, CountSums DEF ShareRejected
  <1>3. CASE Authorized \/ Disconnected
    <2>1. mem \in [Workers -> [figures : Figures, sessions : SUBSET Sessions]]
      BY DEF AccountInv, Shapes
    <2>2. UNCHANGED <<poolAcc, poolRej>>
      BY <1>3 DEF Authorized, Disconnected
    <2>3. \A v \in Workers : /\ mem'[v].figures.acc = mem[v].figures.acc
                             /\ mem'[v].figures.rej = mem[v].figures.rej
      <3> TAKE v \in Workers
      <3>1. mem[v] \in [figures : Figures, sessions : SUBSET Sessions] /\ mem[v].figures \in Figures
        BY <2>1
      <3>2. CASE Authorized
        BY <2>1, <3>1, <3>2 DEF Authorized, Figures
      <3>3. CASE Disconnected
        BY <2>1, <3>1, <3>3 DEF Disconnected
      <3> QED
        BY <1>3, <3>2, <3>3
    <2> QED
      BY <2>2, <2>3, CountsStay, PoolCountsNow
  <1>4. CASE Tick \/ BlockRecorded \/ UNCHANGED vars
    <2>1. mem' = mem /\ poolAcc' = poolAcc /\ poolRej' = poolRej
      BY <1>4 DEF Tick, BlockRecorded, vars, statVars
    <2> QED
      BY <2>1, PoolCountsNow
  <1>5. CASE ResetStats
    <2>1. \/ UNCHANGED <<mem, poolAcc, poolRej>>
          \/ /\ mem' = [w \in Workers |-> [mem[w] EXCEPT !.figures = Zeroed(@)]]
             /\ poolAcc' = 0 /\ poolRej' = 0
      BY <1>5 DEF ResetStats
    <2>2. ASSUME mem' = [w \in Workers |-> [mem[w] EXCEPT !.figures = Zeroed(@)]]
          PROVE  \A w \in Workers : mem'[w].figures.acc = 0 /\ mem'[w].figures.rej = 0
      <3> TAKE w \in Workers
      <3>1. mem[w] \in [figures : Figures, sessions : SUBSET Sessions] /\ mem[w].figures \in Figures
        BY DEF AccountInv, Shapes
      <3> QED
        BY <2>2, <3>1, ZeroedFields
    <2> QED
      BY <2>1, <2>2, CountsGone, PoolCountsNow
  <1>6. CASE Restart
    <2>1. PICK ok \in BOOLEAN :
            /\ mem' = [w \in Workers |->
                         IF ok /\ db[w].here THEN [figures |-> Loaded(db[w]), sessions |-> {}] ELSE NoWorker]
            /\ poolAcc' = IF ok THEN SumFunction([w \in Workers |-> db[w].acc]) ELSE 0
            /\ poolRej' = IF ok THEN SumFunction([w \in Workers |-> db[w].rej]) ELSE 0
      BY <1>6 DEF Restart
    <2>2. CASE ok
      <3>1. ASSUME NEW w \in Workers
            PROVE  mem'[w].figures.acc = db[w].acc /\ mem'[w].figures.rej = db[w].rej
        <4>1. GoodRow(db[w])
          BY GoodRows
        <4>2. CASE db[w].here
          BY <2>1, <2>2, <4>1, <4>2, LoadedFields
        <4>3. CASE ~db[w].here
          BY <2>1, <2>2, <4>1, <4>3, NobodyIsZero, NothingIsZero DEF GoodRow
        <4> QED
          BY <4>2, <4>3
      <3>2. /\ AccsOf(mem') = SumFunction([w \in Workers |-> db[w].acc])
            /\ RejsOf(mem') = SumFunction([w \in Workers |-> db[w].rej])
        BY <3>1 DEF AccsOf, RejsOf
      <3> QED
        BY <2>1, <2>2, <3>2, PoolCountsNow
    <2>3. CASE ~ok
      <3>1. \A w \in Workers : mem'[w].figures.acc = 0 /\ mem'[w].figures.rej = 0
        BY <2>1, <2>3, NobodyIsZero, NothingIsZero
      <3> QED
        BY <2>1, <2>3, <3>1, CountsGone, PoolCountsNow
    <2> QED
      BY <2>2, <2>3
  <1> QED
    BY <1>1, <1>2, <1>3, <1>4, <1>5, <1>6, RemoveSums DEF Next

\* A ledger's step never takes from what is banked, so the last block's stamp stays in it.
LEMMA NextStamp == AccountInv /\ AccountInv' /\ StampBanked /\ [Next]_vars => StampBanked'
  <1> SUFFICES ASSUME AccountInv, AccountInv', StampBanked, [Next]_vars PROVE StampBanked'
    OBVIOUS
  <1>1. DbTotal \in Nat /\ PendTotal \in Nat
    BY TotalsTyped
  <1>2. DbTotal <= DbTotal' /\ DbTotal' \in Nat
    <2>1. Settles
      BY NextSettles
    <2>2. CASE Books!Earn
      <3>1. PICK d \in 1 .. (PendTotal' + DbTotal') :
              \/ PendTotal' = PendTotal + d /\ DbTotal' = DbTotal
              \/ DbTotal' = DbTotal + PendTotal + d /\ PendTotal' = 0
        BY <2>2 DEF Books!Earn
      <3>2. d \in Nat
        BY <3>1
      <3> QED
        BY <1>1, <3>1, <3>2
    <2>3. CASE Books!Bank
      BY <1>1, <2>3 DEF Books!Bank
    <2>4. CASE Books!Lose \/ UNCHANGED <<DbTotal, PendTotal>>
      BY <1>1, <2>4 DEF Books!Lose
    <2> QED
      BY <2>1, <2>2, <2>3, <2>4 DEF Settles
  <1>3. stamp' = stamp \/ stamp' = DbTotal
    BY DEF Next, vars, ShareAccepted, ShareRejected, Count, Authorized, Disconnected, Tick, ResetStats,
           RemoveWorker, BlockRecorded, Restart, storeVars
  <1> QED
    BY <1>1, <1>2, <1>3 DEF StampBanked

LEMMA InitTotals == Init => TotalsInv /\ Books!LedgerInit
  <1> SUFFICES ASSUME Init PROVE TotalsInv /\ Books!LedgerInit
    OBVIOUS
  <1>1. AccountInv
    BY InitAccount
  <1>2. \A w \in Workers : /\ mem[w].figures.acc = 0 /\ mem[w].figures.rej = 0
                           /\ db[w].work + dbRetired[w] = 0 /\ pend[w].work = 0
    BY NobodyIsZero, NothingIsZero DEF Init, EmptyQueue
  <1>3. PoolCountsAreSums
    <2>1. /\ [w \in Workers |-> mem[w].figures.acc] = [w \in Workers |-> 0]
          /\ [w \in Workers |-> mem[w].figures.rej] = [w \in Workers |-> 0]
      BY <1>2
    <2> QED
      BY <2>1, TotalZero DEF PoolCountsAreSums, Init
  <1>4. DbTotal = 0 /\ PendTotal = 0
    <2>1. /\ [w \in Workers |-> db[w].work + dbRetired[w]] = [w \in Workers |-> 0]
          /\ [w \in Workers |-> pend[w].work] = [w \in Workers |-> 0]
      BY <1>2
    <2> QED
      BY <2>1, TotalZero DEF DbTotal, PendTotal
  <1> QED
    BY <1>1, <1>3, <1>4 DEF TotalsInv, StampBanked, Books!LedgerInit, Init

LEMMA NextTotals == TotalsInv /\ [Next]_vars => TotalsInv'
  BY NextAccount, NextSums, NextStamp DEF TotalsInv

\* The work that memory shows in total is what is banked and queued in total.
LEMMA WorkAddsUp ==
  ASSUME AccountInv, restored
  PROVE  Mult * MemTotal = DbTotal + PendTotal
  <1> DEFINE stored == [w \in Workers |-> db[w].work + dbRetired[w]]
             queued == [w \in Workers |-> pend[w].work]
             kept   == [w \in Workers |-> mem[w].figures.work + memRetired[w]]
             scaled == [w \in Workers |-> Mult * kept[w]]
  <1>1. /\ stored \in [Workers -> Nat] /\ DbTotal = SumFunction(stored)
        /\ queued \in [Workers -> Nat] /\ PendTotal = SumFunction(queued)
        /\ kept \in [Workers -> Nat] /\ MemTotal = SumFunction(kept)
    BY TotalsTyped DEF DbTotal, PendTotal, MemTotal
  <1>2. ASSUME NEW w \in Workers PROVE scaled[w] = stored[w] + queued[w]
    <2>1. /\ db[w] \in Figures /\ pend[w] \in Figures /\ dbRetired[w] \in Nat
          /\ WorkOf(mem[w], memRetired[w], Plus(db[w], pend[w]), dbRetired[w])
      BY DEF AccountInv, Shapes, WorkerInv
    <2>2. db[w].work \in Nat /\ pend[w].work \in Nat
      BY <2>1 DEF Figures
    <2>3. scaled[w] = (db[w].work + pend[w].work) + dbRetired[w]
      BY <2>1, PlusFields DEF WorkOf
    <2> QED
      BY <2>1, <2>2, <2>3
  <1>3. \A w \in Workers : scaled[w] = Mult * kept[w] /\ scaled[w] \in Nat
    BY <1>1, <1>2
  <1>4. scaled \in [Workers -> Nat]
    BY <1>3
  <1> HIDE DEF stored, queued, kept, scaled
  <1>5. SumFunction(scaled) = Mult * SumFunction(kept)
    BY <1>1, <1>3, <1>4, TotalScales
  <1>6. SumFunction(scaled) = SumFunction(stored) + SumFunction(queued)
    BY <1>1, <1>2, <1>4, TotalAdds
  <1> QED
    BY <1>1, <1>5, <1>6

-----------------------------------------------------------------------------
(* The theorems. *)

\* The inductive invariant holds in every behaviour of publisher, queue and database.
THEOREM AccountInvariant == Spec => []AccountInv
  BY InitAccount, NextAccount, PTL DEF Spec

\* However flushes, commands and restarts follow one another, the work shown for a worker
\* is what the database and the queue (Persistence) hold of it, removed work included.
THEOREM WorkIsAccountedFor == Spec => []WorkAccountedFor
  <1>1. AccountInv => WorkAccountedFor
    <2> SUFFICES ASSUME AccountInv, restored, NEW w \in Workers
                 PROVE  Mult * (mem[w].figures.work + memRetired[w])
                          = db[w].work + dbRetired[w] + pend[w].work
      BY DEF WorkAccountedFor
    <2>1. /\ db[w] \in Figures /\ pend[w] \in Figures /\ dbRetired[w] \in Nat
          /\ WorkOf(mem[w], memRetired[w], Plus(db[w], pend[w]), dbRetired[w])
      BY DEF AccountInv, Shapes, WorkerInv
    <2>2. db[w].work \in Nat /\ pend[w].work \in Nat
      BY <2>1 DEF Figures
    <2> QED
      BY <2>1, <2>2, PlusFields DEF WorkOf
  <1> QED
    BY <1>1, AccountInvariant, PTL

\* Memory and database agree on a worker's counts and best share unless a command went
\* ahead after a failed flush.
THEOREM CountsDoAgree == Spec => []CountsAgree
  <1>1. AccountInv => CountsAgree
    BY DEF AccountInv, WorkerInv, CountsOf, CountsAgree
  <1> QED
    BY <1>1, AccountInvariant, PTL
\* What the database holds, the stamp of the last block and the pool's counts fit together.
THEOREM TotalsFit == Spec => []TotalsInv
  BY InitTotals, NextTotals, PTL DEF Spec

\* Rows, queue and memory keep their types, a row that does not exist is all zero, and the
\* pool's counts are never below zero.
THEOREM TypesKept == Spec => []TypeOK
  <1>1. AccountInv => RowTypes
    BY DEF AccountInv, Shapes, WorkerInv, GoodRow, GoodWorker, RowTypes
  <1>2. TotalsInv => poolAcc \in Nat /\ poolRej \in Nat
    BY TotalsTyped, SumIs DEF TotalsInv, PoolCountsAreSums
  <1>3. TotalsInv => TypeOK
    BY <1>1, <1>2 DEF TotalsInv, StampBanked, TypeOK
  <1> QED
    BY <1>3, TotalsFit, PTL

\* No removal takes more from the pool's unsigned counts than they hold, and the work total
\* that round_status subtracts the last block's stamp from is never below it.
THEOREM NeverUnderflows == Spec => []NothingUnderflows
  <1>1. TotalsInv => NothingUnderflows
    <2> SUFFICES ASSUME TotalsInv, restored PROVE stamp <= Mult * MemTotal
      BY DEF TotalsInv, NothingUnderflows, RoundWorkNotNegative
    <2>1. Mult * MemTotal = DbTotal + PendTotal
      BY WorkAddsUp DEF TotalsInv
    <2>2. DbTotal \in Nat /\ PendTotal \in Nat
      BY TotalsTyped DEF TotalsInv
    <2> QED
      BY <2>1, <2>2 DEF TotalsInv, StampBanked
  <1> QED
    BY <1>1, TotalsFit, PTL

\* Database, queue and memory implement the ledger: every share, flush, command and restart
\* earns, banks or, at the end of the process, loses what was only queued.
THEOREM KeepsTheLedger == Spec => ImplementsLedger
  <1>1. AccountInv /\ [Next]_vars
          => [Books!Earn \/ Books!Bank \/ Books!Lose]_<<DbTotal, PendTotal>>
    BY NextSettles DEF Settles
  <1> QED
    BY <1>1, InitTotals, AccountInvariant, PTL DEF Spec, ImplementsLedger, Books!LedgerSpec
=============================================================================
