---------------------------- MODULE Totals_proofs ----------------------------
(***************************************************************************)
(* Proofs about numbers that add up, for all constants: the payments of an *)
(* invoice, and the stock that deliveries, orders and commands leave.      *)
(***************************************************************************)
EXTENDS Components_proofs

-----------------------------------------------------------------------------
(* Sums over finite sets *)

\* A set of numbers that has 0 and the successor of each of its elements has all of them:
\* otherwise the successor would map the elements below a missing one into themselves, one
\* to one, but nothing to 0.
LEMMA Induction ==
  ASSUME NEW N \in SUBSET Nat, 0 \in N, \A n \in N : n + 1 \in N
  PROVE  N = Nat
<1> SUFFICES ASSUME NEW n \in Nat, n \notin N PROVE FALSE
  OBVIOUS
<1> DEFINE Y == {i \in 0..n : i \in N}
           f == [i \in Y |-> i + 1]
<1>1. IsFiniteSet(Y)
  <2>1. IsFiniteSet(0..n) /\ Y \subseteq 0..n
    BY FS_Interval
  <2> QED
    BY <2>1, FS_Subset
<1>2. 0 \in Y /\ \A i \in Y : i \in Nat /\ i + 1 \in Y
  OBVIOUS
<1> HIDE DEF Y
<1>3. f \in Injection(Y, Y)
  <2>1. f \in [Y -> Y] /\ \A i, j \in Y : f[i] = f[j] => i = j
    BY <1>2
  <2> HIDE DEF f
  <2> QED
    BY <2>1, Fun_IsInj
<1>4. f \in Surjection(Y, Y)
  BY <1>1, <1>3, FS_Injection
<1>5. \E i \in Y : f[i] = 0
  BY <1>2, <1>4 DEF Surjection
<1> QED
  BY <1>2, <1>5

\* The recursive function by which MapThenSumSet adds f up over the subsets of X.
Any(s) == CHOOSE x \in s : TRUE
Adds(g, f, X) ==
  g = [s \in SUBSET X |-> IF s = {} THEN 0 ELSE f[Any(s)] + g[s \ {Any(s)}]]

\* What comes out in the end.
Sum(f, X) == (CHOOSE g : Adds(g, f, X))[X]

LEMMA AnyOf == \A s : s # {} => Any(s) \in s
BY DEF Any

\* The subsets of X that have at most n elements.
Small(X, n) == {s \in SUBSET X : Cardinality(s) <= n}

LEMMA SmallSets ==
  ASSUME NEW X, IsFiniteSet(X)
  PROVE  /\ \A s \in SUBSET X : IsFiniteSet(s) /\ Cardinality(s) \in Nat
         /\ \A s \in SUBSET X : s \in Small(X, Cardinality(X))
         /\ \A s \in SUBSET X : s # {} <=> Cardinality(s) >= 1
         /\ \A s \in SUBSET X : \A x \in s :
              s \ {x} \in SUBSET X /\ Cardinality(s \ {x}) = Cardinality(s) - 1
<1>1. ASSUME NEW s \in SUBSET X
      PROVE  /\ IsFiniteSet(s) /\ Cardinality(s) \in Nat /\ Cardinality(s) <= Cardinality(X)
             /\ (s # {} <=> Cardinality(s) >= 1)
             /\ \A x \in s : Cardinality(s \ {x}) = Cardinality(s) - 1
  <2>1. IsFiniteSet(s) /\ Cardinality(s) <= Cardinality(X)
    BY FS_Subset
  <2>2. Cardinality(s) \in Nat
    BY <2>1, FS_CardinalityType
  <2>3. s = {} <=> Cardinality(s) = 0
    BY <2>1, FS_EmptySet
  <2>4. \A x \in s : Cardinality(s \ {x}) = Cardinality(s) - 1
    BY <2>1, FS_RemoveElement
  <2> QED
    BY <2>1, <2>2, <2>3, <2>4
<1> QED
  BY <1>1 DEF Small

\* There is such a function.
LEMMA SumExists ==
  ASSUME NEW X, IsFiniteSet(X), NEW f \in [X -> Int]
  PROVE  \E g \in [SUBSET X -> Int] : Adds(g, f, X)
<1> DEFINE Value(g, s) == IF s = {} THEN 0 ELSE f[Any(s)] + g[s \ {Any(s)}]
           Upto(n) == \E g \in [Small(X, n) -> Int] : \A s \in Small(X, n) : g[s] = Value(g, s)
           N == {n \in Nat : Upto(n)}
<1>1. 0 \in N
  <2> DEFINE g == [s \in Small(X, 0) |-> 0]
  <2>1. \A s \in Small(X, 0) : s = {}
    <3>1. \A s \in Small(X, 0) : s \in SUBSET X /\ Cardinality(s) <= 0
      BY DEF Small
    <3> QED
      BY <3>1, SmallSets
  <2>2. g \in [Small(X, 0) -> Int] /\ \A s \in Small(X, 0) : g[s] = Value(g, s)
    BY <2>1
  <2> QED
    BY <2>2
<1>2. ASSUME NEW n \in N PROVE n + 1 \in N
  <2>1. PICK g \in [Small(X, n) -> Int] : \A s \in Small(X, n) : g[s] = Value(g, s)
    OBVIOUS
  <2> DEFINE h == [s \in Small(X, n + 1) |-> Value(g, s)]
  <2>2. ASSUME NEW s \in Small(X, n + 1), s # {}
        PROVE  Any(s) \in s /\ s \ {Any(s)} \in Small(X, n) /\ Any(s) \in X
    <3>1. s \in SUBSET X /\ Cardinality(s) <= n + 1
      BY <2>2 DEF Small
    <3>2. Any(s) \in s
      BY <2>2, AnyOf
    <3>3. s \ {Any(s)} \in SUBSET X /\ Cardinality(s \ {Any(s)}) = Cardinality(s) - 1
          /\ Cardinality(s) \in Nat
      BY <3>1, <3>2, SmallSets
    <3> QED
      BY <3>1, <3>2, <3>3 DEF Small
  <2>3. Small(X, n) \subseteq Small(X, n + 1)
    <3>1. \A s \in SUBSET X : Cardinality(s) \in Nat
      BY SmallSets
    <3> QED
      BY <3>1 DEF Small
  <2> HIDE DEF Upto
  <2>4. \A s \in Small(X, n + 1) : Value(g, s) \in Int
    BY <2>1, <2>2
  <2>5. \A s \in Small(X, n) : h[s] = g[s]
    BY <2>1, <2>3
  <2>6. \A s \in Small(X, n + 1) : h[s] = Value(h, s)
    BY <2>2, <2>5
  <2>7. h \in [Small(X, n + 1) -> Int]
    BY <2>4
  <2> HIDE DEF h
  <2>8. Upto(n + 1)
    BY <2>6, <2>7 DEF Upto
  <2> QED
    BY <2>8
<1>3. N = Nat
  <2> HIDE DEF Upto
  <2>1. N \in SUBSET Nat
    OBVIOUS
  <2> HIDE DEF N
  <2> QED
    BY <1>1, <1>2, <2>1, Induction
<1>4. Cardinality(X) \in Nat /\ Small(X, Cardinality(X)) = SUBSET X
  <2>1. \A s \in SUBSET X : s \in Small(X, Cardinality(X))
    BY SmallSets
  <2>2. X \in SUBSET X
    OBVIOUS
  <2> QED
    BY <2>1, <2>2, SmallSets DEF Small
<1>5. PICK g \in [SUBSET X -> Int] : \A s \in SUBSET X : g[s] = Value(g, s)
  <2>1. Upto(Cardinality(X))
    <3> HIDE DEF Upto
    <3> QED
      BY <1>3, <1>4
  <2> QED
    BY <1>4, <2>1
<1>6. g = [s \in SUBSET X |-> Value(g, s)]
  BY <1>5
<1> QED
  BY <1>5, <1>6 DEF Adds

\* Functions that add up over two sets agree on the subsets of both.
LEMMA SumsAgree ==
  ASSUME NEW X, IsFiniteSet(X), NEW f \in [X -> Int], NEW Y \in SUBSET X, NEW g, NEW h,
         NEW e, Adds(g, e, Y), Adds(h, f, X), \A x \in Y : e[x] = f[x]
  PROVE  \A s \in SUBSET Y : g[s] = h[s] /\ h[s] \in Int
<1> DEFINE Agree(n) == \A s \in Small(Y, n) : g[s] = h[s] /\ h[s] \in Int
           N == {n \in Nat : Agree(n)}
<1>1. IsFiniteSet(Y)
  BY FS_Subset
<1>2. /\ g[{}] = 0 /\ h[{}] = 0
      /\ \A s \in SUBSET Y : s # {} => g[s] = e[Any(s)] + g[s \ {Any(s)}]
      /\ \A s \in SUBSET X : s # {} => h[s] = f[Any(s)] + h[s \ {Any(s)}]
  <2>1. {} \in SUBSET Y /\ {} \in SUBSET X
    OBVIOUS
  <2>2. \A s \in SUBSET Y : g[s] = IF s = {} THEN 0 ELSE e[Any(s)] + g[s \ {Any(s)}]
    BY DEF Adds
  <2>3. \A s \in SUBSET X : h[s] = IF s = {} THEN 0 ELSE f[Any(s)] + h[s \ {Any(s)}]
    BY DEF Adds
  <2> QED
    BY <2>1, <2>2, <2>3
<1>3. 0 \in N
  <2>1. \A s \in Small(Y, 0) : s = {} /\ s \in SUBSET Y /\ s \in SUBSET X
    <3>1. \A s \in Small(Y, 0) : s \in SUBSET Y /\ Cardinality(s) <= 0
      BY DEF Small
    <3> QED
      BY <1>1, <3>1, SmallSets
  <2>2. ASSUME NEW s \in Small(Y, 0) PROVE g[s] = h[s] /\ h[s] \in Int
    <3>1. s = {}
      BY <2>1
    <3>2. g[s] = g[{}] /\ h[s] = h[{}]
      BY <3>1
    <3> QED
      BY <1>2, <3>2
  <2>3. Agree(0)
    BY <2>2
  <2> QED
    BY <2>3
<1>4. ASSUME NEW n \in N PROVE n + 1 \in N
  <2>1. ASSUME NEW s \in Small(Y, n + 1) PROVE g[s] = h[s] /\ h[s] \in Int
    <3>1. s \in SUBSET Y /\ s \in SUBSET X /\ Cardinality(s) <= n + 1
      BY DEF Small
    <3>2. CASE s = {}
      BY <1>2, <3>1, <3>2
    <3>3. CASE s # {}
      <4>1. Any(s) \in s
        BY <3>3, AnyOf
      <4>2. s \ {Any(s)} \in SUBSET Y /\ Cardinality(s \ {Any(s)}) = Cardinality(s) - 1
            /\ Cardinality(s) \in Nat
        BY <1>1, <3>1, <4>1, SmallSets
      <4>3. s \ {Any(s)} \in Small(Y, n)
        BY <3>1, <4>2 DEF Small
      <4>4. g[s \ {Any(s)}] = h[s \ {Any(s)}] /\ h[s \ {Any(s)}] \in Int
        BY <4>3
      <4>5. g[s] = e[Any(s)] + g[s \ {Any(s)}] /\ h[s] = f[Any(s)] + h[s \ {Any(s)}]
        BY <1>2, <3>1, <3>3
      <4>6. e[Any(s)] = f[Any(s)] /\ f[Any(s)] \in Int
        BY <3>1, <4>1
      <4> QED
        BY <4>4, <4>5, <4>6
    <3> QED
      BY <3>2, <3>3
  <2> QED
    BY <2>1
<1>5. N = Nat
  <2>1. N \in SUBSET Nat
    OBVIOUS
  <2> HIDE DEF N
  <2> QED
    BY <1>3, <1>4, <2>1, Induction
<1>6. Agree(Cardinality(Y))
  <2>1. Cardinality(Y) \in Nat
    BY <1>1, FS_CardinalityType
  <2> QED
    BY <1>5, <2>1
<1> QED
  BY <1>1, <1>6, SmallSets

\* The set without an element.
Less(X, x) == X \ {x}

\* The sum does not depend on the order in which it is taken.
LEMMA SumInAnyOrder ==
  ASSUME NEW X, IsFiniteSet(X), NEW f \in [X -> Int], NEW g \in [SUBSET X -> Int], Adds(g, f, X),
         NEW x \in X
  PROVE  g[X] = f[x] + g[Less(X, x)]
<1> DEFINE Free(n) == \A s \in Small(X, n) : \A z \in s : g[s] = f[z] + g[s \ {z}]
           N == {n \in Nat : Free(n)}
<1>1. \A s \in SUBSET X : s # {} => g[s] = f[Any(s)] + g[s \ {Any(s)}]
  BY DEF Adds
<1>2. 0 \in N
  <2>1. \A s \in Small(X, 0) : s \in SUBSET X /\ Cardinality(s) <= 0
    BY DEF Small
  <2>2. \A s \in Small(X, 0) : s = {}
    BY <2>1, SmallSets
  <2>3. Free(0)
    BY <2>2
  <2> QED
    BY <2>3
<1>3. ASSUME NEW n \in N PROVE n + 1 \in N
  <2>1. ASSUME NEW s \in Small(X, n + 1), NEW z \in s PROVE g[s] = f[z] + g[s \ {z}]
    <3> DEFINE y == Any(s)
    <3>1. s \in SUBSET X /\ Cardinality(s) <= n + 1 /\ y \in s
      BY AnyOf DEF Small
    <3>2. g[s] = f[y] + g[s \ {y}]
      BY <1>1, <3>1
    <3> HIDE DEF y
    <3>3. CASE z = y
      BY <3>2, <3>3
    <3>4. CASE z # y
      <4>1. \A w \in s : s \ {w} \in SUBSET X /\ s \ {w} \in Small(X, n)
        <5>1. \A w \in s : s \ {w} \in SUBSET X /\ Cardinality(s \ {w}) = Cardinality(s) - 1
          BY <3>1, SmallSets
        <5>2. Cardinality(s) \in Nat
          BY <3>1, SmallSets
        <5> QED
          BY <3>1, <5>1, <5>2 DEF Small
      <4>2. z \in s \ {y} /\ y \in s \ {z} /\ (s \ {y}) \ {z} = (s \ {z}) \ {y}
        BY <3>1, <3>4
      <4>3. g[s \ {y}] = f[z] + g[(s \ {y}) \ {z}]
        BY <3>1, <4>1, <4>2
      <4>4. g[s \ {z}] = f[y] + g[(s \ {z}) \ {y}]
        BY <4>1, <4>2
      <4>5. f[z] \in Int /\ f[y] \in Int /\ g[(s \ {z}) \ {y}] \in Int
        BY <3>1
      <4> DEFINE rest == g[(s \ {z}) \ {y}]
      <4>6. g[s \ {y}] = f[z] + rest /\ g[s \ {z}] = f[y] + rest /\ rest \in Int
        BY <4>2, <4>3, <4>4, <4>5
      <4> HIDE DEF rest
      <4> QED
        BY <3>2, <4>5, <4>6
    <3> QED
      BY <3>3, <3>4
  <2>2. Free(n + 1)
    BY <2>1
  <2> HIDE DEF Free
  <2> QED
    BY <2>2
<1>4. N = Nat
  <2>1. N \in SUBSET Nat
    OBVIOUS
  <2> HIDE DEF N
  <2> QED
    BY <1>2, <1>3, <2>1, Induction
<1>5. Free(Cardinality(X))
  <2>1. Cardinality(X) \in Nat
    BY FS_CardinalityType
  <2> HIDE DEF Free
  <2> QED
    BY <1>4, <2>1
<1>6. X \in Small(X, Cardinality(X))
  <2>1. X \in SUBSET X
    OBVIOUS
  <2> QED
    BY <2>1, SmallSets
<1> QED
  <2>1. \A z \in X : g[X] = f[z] + g[X \ {z}]
    BY <1>5, <1>6
  <2> QED
    BY <2>1 DEF Less

\* What sums are needed for: they are integers, nothing adds up to nothing, an element more
\* adds its number, and only the numbers matter.
LEMMA SumIs ==
  ASSUME NEW X, IsFiniteSet(X), NEW f \in [X -> Int], NEW Y \in SUBSET X, NEW e,
         \A x \in Y : e[x] = f[x], NEW h \in [SUBSET X -> Int], Adds(h, f, X)
  PROVE  Sum(e, Y) = h[Y]
<1>1. IsFiniteSet(Y)
  BY FS_Subset
<1>2. \E g : Adds(g, e, Y)
  <2> DEFINE d == [x \in Y |-> f[x]]
  <2>1. d \in [Y -> Int]
    OBVIOUS
  <2>2. PICK g : Adds(g, d, Y)
    <3> HIDE DEF d
    <3> QED
      BY <1>1, <2>1, SumExists
  <2>3. Adds(g, e, Y)
    <3>1. \A s \in SUBSET Y : s # {} => d[Any(s)] = e[Any(s)]
      BY AnyOf
    <3> HIDE DEF d
    <3>2. g = [s \in SUBSET Y |-> IF s = {} THEN 0 ELSE d[Any(s)] + g[s \ {Any(s)}]]
      BY <2>2 DEF Adds
    <3>3. \A s \in SUBSET Y : (IF s = {} THEN 0 ELSE d[Any(s)] + g[s \ {Any(s)}])
                              = (IF s = {} THEN 0 ELSE e[Any(s)] + g[s \ {Any(s)}])
      BY <3>1
    <3>4. g = [s \in SUBSET Y |-> IF s = {} THEN 0 ELSE e[Any(s)] + g[s \ {Any(s)}]]
      BY <3>2, <3>3, Zenon
    <3> QED
      BY <3>4 DEF Adds
  <2> QED
    BY <2>3
<1> DEFINE g == CHOOSE g : Adds(g, e, Y)
<1>3. Adds(g, e, Y)
  BY <1>2
<1> HIDE DEF g
<1>4. g[Y] = h[Y]
  <2>1. Y \in SUBSET Y
    OBVIOUS
  <2>2. \A s \in SUBSET Y : g[s] = h[s] /\ h[s] \in Int
    BY <1>3, SumsAgree
  <2> QED
    BY <2>1, <2>2
<1> QED
  BY <1>4 DEF Sum, g

LEMMA SumOfNone ==
  ASSUME NEW e
  PROVE  Sum(e, {}) = 0
<1> DEFINE f == [x \in {} |-> 0]
<1>1. IsFiniteSet({}) /\ f \in [{} -> Int]
  BY FS_EmptySet
<1> HIDE DEF f
<1>2. PICK h \in [SUBSET {} -> Int] : Adds(h, f, {})
  BY <1>1, SumExists
<1>3. Sum(e, {}) = h[{}]
  <2> DEFINE X == {}
  <2>1. IsFiniteSet(X) /\ f \in [X -> Int] /\ h \in [SUBSET X -> Int] /\ Adds(h, f, X)
        /\ X \in SUBSET X /\ \A x \in X : e[x] = f[x]
    BY <1>1, <1>2
  <2> HIDE DEF X
  <2>2. Sum(e, X) = h[X]
    BY <2>1, SumIs
  <2> QED
    BY <2>2 DEF X
<1>4. h[{}] = 0
  BY <1>2 DEF Adds
<1> QED
  BY <1>3, <1>4

LEMMA SumOfMore ==
  ASSUME NEW X, IsFiniteSet(X), NEW f \in [X -> Int], NEW x \in X
  PROVE  /\ Sum(f, X) = f[x] + Sum(f, Less(X, x))
         /\ Sum(f, X) \in Int /\ Sum(f, Less(X, x)) \in Int
<1>1. PICK h \in [SUBSET X -> Int] : Adds(h, f, X)
  BY SumExists
<1>2. Less(X, x) \in SUBSET X
  BY DEF Less
<1>3. Sum(f, X) = h[X] /\ Sum(f, Less(X, x)) = h[Less(X, x)]
  BY <1>1, <1>2, SumIs
<1>4. h[X] = f[x] + h[Less(X, x)]
  <2>1. IsFiniteSet(X) /\ f \in [X -> Int] /\ h \in [SUBSET X -> Int] /\ Adds(h, f, X)
        /\ x \in X /\ f[x] \in Int /\ h[X] \in Int /\ h[Less(X, x)] \in Int
    BY <1>1, <1>2
  <2> QED
    BY <2>1, SumInAnyOrder
<1> QED
  BY <1>2, <1>3, <1>4

LEMMA SameSum ==
  ASSUME NEW X, IsFiniteSet(X), NEW f \in [X -> Int], NEW e, \A x \in X : e[x] = f[x]
  PROVE  Sum(e, X) = Sum(f, X) /\ Sum(f, X) \in Int
<1>1. PICK h \in [SUBSET X -> Int] : Adds(h, f, X)
  BY SumExists
<1>2. Sum(f, X) = h[X] /\ Sum(e, X) = h[X]
  BY <1>1, SumIs
<1> QED
  BY <1>2

-----------------------------------------------------------------------------
(* The sum of the payments of an invoice *)

LEMMA TotalIsSum == \A payments : I!Total(payments) = Sum(AmountOf, payments)
BY DEF I!Total, I!MapThenSumSet, I!MapThenFoldSet, Sum, Adds, Any

LEMMA TotalOfNone == I!Total({}) = 0
BY TotalIsSum, SumOfNone

LEMMA TotalOfMore ==
  ASSUME PaymentInputs, IsFiniteSet(Payments), NEW X \in SUBSET Payments,
         NEW p \in Payments, p \notin X
  PROVE  I!Total(X \cup {p}) = I!Total(X) + AmountOf[p]
<1> DEFINE U == X \cup {p}
           f == [x \in U |-> AmountOf[x]]
<1>1. IsFiniteSet(U) /\ p \in U /\ Less(U, p) = X /\ \A x \in U : AmountOf[x] \in Int
  <2>1. U \subseteq Payments
    OBVIOUS
  <2> QED
    BY <2>1, FS_Subset DEF Less, PaymentInputs
<1>2. f \in [U -> Int] /\ f[p] = AmountOf[p] /\ \A x \in U : AmountOf[x] = f[x]
  BY <1>1
<1> DEFINE d == [x \in X |-> AmountOf[x]]
<1>3. d \in [X -> Int] /\ (\A x \in X : AmountOf[x] = d[x]) /\ (\A x \in X : f[x] = d[x])
      /\ IsFiniteSet(X)
  BY <1>1, FS_Subset
<1> HIDE DEF U, f, d
<1>4. Sum(AmountOf, U) = Sum(f, U)
  BY <1>1, <1>2, SameSum
<1>5. Sum(f, U) = f[p] + Sum(f, Less(U, p)) /\ Sum(f, Less(U, p)) \in Int
  BY <1>1, <1>2, SumOfMore
<1>6. Sum(AmountOf, X) = Sum(f, X)
  BY <1>3, SameSum
<1>7. Sum(AmountOf, U) = AmountOf[p] + Sum(AmountOf, X) /\ Sum(AmountOf, X) \in Int
      /\ AmountOf[p] \in Int
  BY <1>1, <1>2, <1>4, <1>5, <1>6
<1> QED
  BY <1>7, TotalIsSum DEF U

\* The invariant behind InvoiceMatchesEvents: until two handlers overlap, one is at work,
\* and its copy is the invoice with what its event adds; an invoice that was not issued
\* shows nothing, and its void event waits.
MatchInv ==
  ~raced =>
    /\ \A g, h \in I!Handlers : I!Busy(g) /\ I!Busy(h) => g = h
    /\ IF I!Busy("OnInvoicePaymentReceived")
       THEN /\ proc["OnInvoicePaymentReceived"].copy.paid = I!Total(payedInvoices)
            /\ proc["OnInvoicePaymentReceived"].copy.voided = invoice.voided
            /\ proc["OnInvoicePaymentReceived"].copy.exists /\ invoice.exists
       ELSE invoice.paid = I!Total(payedInvoices)
    /\ I!Busy("OnInvoiceVoided") =>
         /\ proc["OnInvoiceVoided"].copy = [invoice EXCEPT !.voided = TRUE]
         /\ invoice.exists
    /\ I!Busy("OnInvoiceIssued") =>
         /\ proc["OnInvoiceIssued"].copy = [I!NoInvoice EXCEPT !.exists = TRUE]
         /\ ~invoice.exists
    /\ ~invoice.exists =>
         /\ invoice = I!NoInvoice /\ payedInvoices = {}
         /\ invoiceInbox["OnInvoiceVoided"] = happened["OnInvoiceVoided"]
    /\ happened["OnInvoiceVoided"] # {} /\ invoiceInbox["OnInvoiceVoided"] = {} => invoice.voided

LEMMA MatchInit == I!Init => MatchInv
<1> SUFFICES ASSUME I!Init PROVE MatchInv
  OBVIOUS
<1>1. \A h \in I!Handlers : ~I!Busy(h) /\ happened[h] = {} /\ invoiceInbox[h] = {}
  BY DEF I!Init, I!Busy, I!Idle
<1>2. invoice = I!NoInvoice /\ payedInvoices = {} /\ invoice.paid = 0
  BY DEF I!Init, I!NoInvoice
<1> QED
  BY <1>1, <1>2, TotalOfNone DEF MatchInv, I!Handlers

\* Of a handler that has none at work beside it, when it begins.
LEMMA BeginAlone ==
  ASSUME InvoiceInv, NEW h \in I!Handlers, NEW e, NEW copy, I!Begin(h, e, copy), ~raced'
  PROVE  /\ ~raced /\ \A g \in I!Handlers : ~I!Busy(g) /\ (I!Busy(g)' <=> g = h)
         /\ proc'[h].copy = copy
<1> DEFINE work == [pc |-> "busy", event |-> e, copy |-> copy]
<1>1. /\ ~raced /\ \A g \in I!Handlers : ~I!Busy(g)
      /\ proc' = [proc EXCEPT ![h] = work]
  BY DEF I!Begin
<1>2. work.pc = "busy" /\ work.copy = copy
  OBVIOUS
<1> HIDE DEF work
<1>3. proc'[h] = work /\ \A g \in I!Handlers : g # h => proc'[g] = proc[g]
  BY <1>1 DEF InvoiceInv
<1> QED
  BY <1>1, <1>2, <1>3 DEF I!Busy

\* An ack takes at most its own event from its own handler.
LEMMA AckTakes ==
  ASSUME InvoiceInv, NEW h \in I!Handlers, NEW e, I!Ack(h, e)
  PROVE  \A g \in I!Handlers : g # h => invoiceInbox'[g] = invoiceInbox[g]
BY DEF I!Ack, InvoiceInv

LEMMA MatchStep ==
  Bounds /\ PaymentInputs /\ IsFiniteSet(Payments) /\ InvoiceInv /\ MatchInv /\ [Next]_vars
    => MatchInv'
<1> SUFFICES ASSUME Bounds, PaymentInputs, IsFiniteSet(Payments), InvoiceInv, MatchInv,
                    [I!Next]_I!vars, ~raced'
             PROVE  MatchInv'
  BY InvoiceSteps DEF MatchInv
<1> USE DEF I!Handlers
<1> DEFINE issued == "OnInvoiceIssued"
           payment == "OnInvoicePaymentReceived"
           voided == "OnInvoiceVoided"
<1>a. /\ invoice = [exists |-> invoice.exists, paid |-> invoice.paid, voided |-> invoice.voided]
      /\ invoice.exists \in BOOLEAN /\ invoice.paid \in Nat /\ invoice.voided \in BOOLEAN
  BY DEF InvoiceInv, I!InvoiceReadModel
<1>1. ASSUME NEW h \in I!Handlers, NEW e \in I!EventsOf(h), I!Publish(h, e)
      PROVE  MatchInv'
  <2>1. /\ happened' = [happened EXCEPT ![h] = @ \cup {e}]
        /\ invoiceInbox' = [invoiceInbox EXCEPT ![h] = @ \cup {e}]
        /\ UNCHANGED <<invoice, payedInvoices, proc, raced>>
    BY <1>1 DEF I!Publish
  <2>2. /\ happened'[voided] = happened[voided] /\ invoiceInbox'[voided] = invoiceInbox[voided]
        \/ /\ happened'[voided] = happened[voided] \cup {e}
           /\ invoiceInbox'[voided] = invoiceInbox[voided] \cup {e}
    BY <2>1 DEF InvoiceInv
  <2> QED
    BY <2>1, <2>2 DEF MatchInv, I!Busy
<1>2. ASSUME NEW h \in I!Handlers, NEW e \in I!EventsOf(h), I!Skip(h, e) PROVE MatchInv'
  <2>1. h # voided /\ I!Ack(h, e) /\ UNCHANGED <<happened, invoice, payedInvoices, proc, raced>>
    BY <1>2 DEF I!Skip, I!Repeated
  <2>2. invoiceInbox'[voided] = invoiceInbox[voided]
    BY <2>1, AckTakes
  <2> QED
    BY <2>1, <2>2 DEF MatchInv, I!Busy
<1>3. ASSUME NEW e, I!OnInvoiceIssued(e) PROVE MatchInv'
  <2> DEFINE copy == [I!NoInvoice EXCEPT !.exists = TRUE]
  <2>1. /\ I!Begin(issued, e, copy) /\ ~invoice.exists
        /\ UNCHANGED <<happened, invoiceInbox, invoice, payedInvoices>>
    BY <1>3 DEF I!OnInvoiceIssued, I!Repeated
  <2> HIDE DEF copy
  <2>2. /\ ~raced /\ proc'[issued].copy = copy
        /\ \A g \in I!Handlers : ~I!Busy(g) /\ (I!Busy(g)' <=> g = issued)
    BY <2>1, BeginAlone
  <2> QED
    BY <2>1, <2>2 DEF MatchInv, copy
<1>4. ASSUME NEW e \in Payments, I!OnInvoicePaymentReceived(e) PROVE MatchInv'
  <2> DEFINE copy == [invoice EXCEPT !.paid = @ + AmountOf[e]]
  <2>1. /\ I!Begin(payment, e, copy) /\ invoice.exists /\ e \notin payedInvoices
        /\ payedInvoices' = payedInvoices \cup {e}
        /\ UNCHANGED <<happened, invoiceInbox, invoice>>
    BY <1>4 DEF I!OnInvoicePaymentReceived, I!Repeated
  <2>2. copy.paid = invoice.paid + AmountOf[e] /\ copy.voided = invoice.voided
        /\ copy.exists = invoice.exists
    BY <1>a
  <2> HIDE DEF copy
  <2>3. /\ ~raced /\ proc'[payment].copy = copy
        /\ \A g \in I!Handlers : ~I!Busy(g) /\ (I!Busy(g)' <=> g = payment)
    BY <2>1, BeginAlone
  <2>4. I!Total(payedInvoices') = I!Total(payedInvoices) + AmountOf[e]
    BY <2>1, TotalOfMore DEF InvoiceInv
  <2>5. copy.paid = I!Total(payedInvoices')
    BY <2>2, <2>3, <2>4 DEF MatchInv
  <2> QED
    BY <2>1, <2>2, <2>3, <2>5 DEF MatchInv
<1>5. ASSUME NEW e, I!OnInvoiceVoided(e) PROVE MatchInv'
  <2> DEFINE copy == [invoice EXCEPT !.voided = TRUE]
  <2>1. /\ I!Begin(voided, e, copy) /\ invoice.exists
        /\ UNCHANGED <<happened, invoiceInbox, invoice, payedInvoices>>
    BY <1>5 DEF I!OnInvoiceVoided
  <2> HIDE DEF copy
  <2>2. /\ ~raced /\ proc'[voided].copy = copy
        /\ \A g \in I!Handlers : ~I!Busy(g) /\ (I!Busy(g)' <=> g = voided)
    BY <2>1, BeginAlone
  <2> QED
    BY <2>1, <2>2 DEF MatchInv, copy
<1>6. ASSUME NEW h \in I!Handlers, I!Write(h) PROVE MatchInv'
  <2> DEFINE copy == proc[h].copy
  <2>1. /\ I!Busy(h) /\ invoice' = copy /\ proc' = [proc EXCEPT ![h] = I!Idle]
        /\ I!Ack(h, proc[h].event)
        /\ UNCHANGED <<happened, payedInvoices, raced>>
    BY <1>6 DEF I!Write
  <2> HIDE DEF copy
  <2>2. /\ proc'[h] = I!Idle /\ ~I!Busy(h)'
        /\ \A g \in I!Handlers : g # h => proc'[g] = proc[g] /\ ~I!Busy(g) /\ ~I!Busy(g)'
    BY <2>1 DEF InvoiceInv, MatchInv, I!Busy, I!Idle
  <2>3. \A g \in I!Handlers : ~I!Busy(g)'
    BY <2>2
  <2>4. \A g \in I!Handlers : g # h => invoiceInbox'[g] = invoiceInbox[g]
    BY <2>1, AckTakes
  <2>5. invoice'.exists /\ invoice'.paid = I!Total(payedInvoices)
    <3>1. CASE h = issued
      <4>1. copy = [exists |-> TRUE, paid |-> 0, voided |-> FALSE] /\ payedInvoices = {}
        BY <2>1, <3>1 DEF MatchInv, I!NoInvoice, copy
      <4> QED
        BY <2>1, <4>1, TotalOfNone
    <3>2. CASE h = payment
      BY <2>1, <3>2 DEF MatchInv, copy
    <3>3. CASE h = voided
      <4>1. copy = [invoice EXCEPT !.voided = TRUE] /\ invoice.exists
            /\ invoice.paid = I!Total(payedInvoices)
        BY <2>1, <2>2, <3>3 DEF MatchInv, copy
      <4> QED
        BY <1>a, <2>1, <4>1
    <3> QED
      BY <3>1, <3>2, <3>3
  <2>6. happened'[voided] # {} /\ invoiceInbox'[voided] = {} => invoice'.voided
    <3>1. CASE h = issued
      BY <2>1, <2>4, <3>1 DEF MatchInv, copy
    <3>2. CASE h = payment
      BY <2>1, <2>4, <3>2 DEF MatchInv, copy
    <3>3. CASE h = voided
      <4>1. copy = [invoice EXCEPT !.voided = TRUE]
        BY <2>1, <3>3 DEF MatchInv, copy
      <4> QED
        BY <1>a, <2>1, <4>1
    <3> QED
      BY <3>1, <3>2, <3>3
  <2> QED
    BY <2>1, <2>3, <2>5, <2>6 DEF MatchInv
<1>7. CASE I!ConcurrentMapWrites \/ UNCHANGED I!vars
  <2>1. UNCHANGED <<happened, invoiceInbox, invoice, payedInvoices, proc, raced>>
    BY <1>7 DEF I!ConcurrentMapWrites, I!vars
  <2> QED
    BY <2>1 DEF MatchInv, I!Busy
<1> QED
  BY <1>1, <1>2, <1>3, <1>4, <1>5, <1>6, <1>7 DEF I!Next, I!Handle, I!EventsOf

\* While no two handlers of the invoice overlap, it shows the sum of the payments that were
\* counted, whatever their number and amounts, and that it was voided.
THEOREM InvoiceMatchesEventsHolds ==
  Bounds /\ PaymentInputs /\ IsFiniteSet(Payments) => (Spec => []InvoiceMatchesEvents)
<1> SUFFICES ASSUME Bounds, PaymentInputs, IsFiniteSet(Payments)
             PROVE  Spec => []InvoiceMatchesEvents
  OBVIOUS
<1> DEFINE Inv == InvoiceInv /\ MatchInv
<1>1. Init => Inv
  BY InvoiceInit, MatchInit DEF Init
<1>2. Inv /\ [Next]_vars => Inv'
  BY InvoiceStep, MatchStep
<1>3. Inv => InvoiceMatchesEvents
  BY DEF MatchInv, InvoiceMatchesEvents, I!InvoiceMatchesEvents
<1> QED
  BY <1>1, <1>2, <1>3, PTL DEF Spec

-----------------------------------------------------------------------------
(* The stock *)

\* A function that adds up gives the sum.
LEMMA AddsGivesSum ==
  ASSUME NEW X, IsFiniteSet(X), NEW f \in [X -> Int], NEW g, Adds(g, f, X)
  PROVE  g[X] = Sum(f, X)
<1>1. PICK h \in [SUBSET X -> Int] : Adds(h, f, X)
  BY SumExists
<1> DEFINE Y == X
<1>2. Y \in SUBSET X /\ (\A x \in Y : f[x] = f[x]) /\ Adds(g, f, Y)
  OBVIOUS
<1> HIDE DEF Y
<1>3. \A s \in SUBSET Y : g[s] = h[s]
  BY <1>1, <1>2, SumsAgree
<1>4. Sum(f, X) = h[X]
  <2>1. X \in SUBSET X /\ \A x \in X : f[x] = f[x]
    OBVIOUS
  <2> QED
    BY <1>1, <2>1, SumIs
<1> QED
  BY <1>3, <1>4 DEF Y

LEMMA SumOfZeros ==
  ASSUME NEW X, IsFiniteSet(X), NEW f \in [X -> Int], \A x \in X : f[x] = 0
  PROVE  Sum(f, X) = 0
<1> DEFINE g == [s \in SUBSET X |-> 0]
<1>1. \A s \in SUBSET X : 0 = IF s = {} THEN 0 ELSE f[Any(s)] + g[s \ {Any(s)}]
  <2>1. \A s \in SUBSET X : s # {} => Any(s) \in X /\ s \ {Any(s)} \in SUBSET X
    BY AnyOf
  <2> QED
    BY <2>1
<1>2. Adds(g, f, X)
  BY <1>1 DEF Adds
<1>3. g[X] = 0
  OBVIOUS
<1> HIDE DEF g
<1> QED
  BY <1>2, <1>3, AddsGivesSum

\* The quantities of deliveries or of rows, together.
Quantities(X) == O!MapThenSumSet(LAMBDA d : d.quantity, X)
QuantityIn(X) == [d \in X |-> d.quantity]

LEMMA QuantitiesAreSum ==
  ASSUME NEW X, IsFiniteSet(X), \A d \in X : d.quantity \in Int
  PROVE  Quantities(X) = Sum(QuantityIn(X), X)
<1> DEFINE Adding(g) ==
             g = [s \in SUBSET X |-> IF s = {} THEN 0 ELSE Any(s).quantity + g[s \ {Any(s)}]]
           f == QuantityIn(X)
<1>1. Quantities(X) = (CHOOSE g : Adding(g))[X]
  BY DEF Quantities, O!MapThenSumSet, O!MapThenFoldSet, Any
<1>2. f \in [X -> Int] /\ \A s \in SUBSET X : s # {} => f[Any(s)] = Any(s).quantity
  BY AnyOf DEF QuantityIn
<1> HIDE DEF f
<1>3. ASSUME NEW g PROVE Adds(g, f, X) <=> Adding(g)
  <2>1. \A s \in SUBSET X :
          (IF s = {} THEN 0 ELSE f[Any(s)] + g[s \ {Any(s)}])
            = (IF s = {} THEN 0 ELSE Any(s).quantity + g[s \ {Any(s)}])
    BY <1>2
  <2>2. [s \in SUBSET X |-> IF s = {} THEN 0 ELSE f[Any(s)] + g[s \ {Any(s)}]]
          = [s \in SUBSET X |-> IF s = {} THEN 0 ELSE Any(s).quantity + g[s \ {Any(s)}]]
    BY <2>1, Zenon
  <2> QED
    BY <2>2 DEF Adds
<1>4. \E g : Adding(g)
  <2>1. PICK g \in [SUBSET X -> Int] : Adds(g, f, X)
    BY <1>2, SumExists
  <2> HIDE DEF Adding
  <2> QED
    BY <1>3, <2>1
<1> DEFINE total == CHOOSE g : Adding(g)
<1>5. Adding(total)
  <2> HIDE DEF Adding
  <2> QED
    BY <1>4
<1> HIDE DEF Adding
<1>6. Adds(total, f, X)
  BY <1>3, <1>5
<1> HIDE DEF total
<1>7. total[X] = Sum(f, X)
  BY <1>2, <1>6, AddsGivesSum
<1> QED
  BY <1>1, <1>7 DEF total, f

LEMMA QuantitiesOfNone == Quantities({}) = 0
<1>1. IsFiniteSet({})
  BY FS_EmptySet
<1> DEFINE X == {}
<1>2. IsFiniteSet(X) /\ \A d \in X : d.quantity \in Int
  BY <1>1
<1> HIDE DEF X
<1>3. Quantities(X) = Sum(QuantityIn(X), X)
  BY <1>2, QuantitiesAreSum
<1> QED
  BY <1>3, SumOfNone DEF X

LEMMA QuantitiesOfMore ==
  ASSUME NEW X, IsFiniteSet(X), NEW d, d \notin X, \A x \in X \cup {d} : x.quantity \in Int
  PROVE  Quantities(X \cup {d}) = Quantities(X) + d.quantity /\ Quantities(X) \in Int
<1> DEFINE U == X \cup {d}
           f == QuantityIn(U)
           e == QuantityIn(X)
<1>1. IsFiniteSet(U) /\ d \in U /\ Less(U, d) = X /\ \A x \in U : x.quantity \in Int
  BY FS_AddElement DEF Less
<1>2. f \in [U -> Int] /\ f[d] = d.quantity /\ e \in [X -> Int] /\ \A x \in X : f[x] = e[x]
  BY <1>1 DEF QuantityIn
<1>3. Quantities(U) = Sum(f, U) /\ Quantities(X) = Sum(e, X)
  BY <1>1, QuantitiesAreSum
<1> HIDE DEF U, f, e
<1>4. Sum(f, U) = f[d] + Sum(f, Less(U, d)) /\ Sum(f, Less(U, d)) \in Int
  BY <1>1, <1>2, SumOfMore
<1>5. Sum(f, X) = Sum(e, X)
  BY <1>2, SameSum
<1>6. Quantities(U) = d.quantity + Quantities(X) /\ Quantities(X) \in Int /\ d.quantity \in Int
  BY <1>1, <1>2, <1>3, <1>4, <1>5
<1> QED
  BY <1>6 DEF U

\* What the commands have removed of a product, when each was applied so often.
Takings(times, p) == O!MapThenSumSet(LAMBDA c : times[c] * O!TakenBy(c, p), Commands)
TakingsIn(times, p) == [c \in Commands |-> times[c] * O!TakenBy(c, p)]

LEMMA TakingsType ==
  ASSUME OrderInputs, NEW p \in Products, NEW times \in [Commands -> Nat]
  PROVE  TakingsIn(times, p) \in [Commands -> Int]
<1>1. ASSUME NEW c \in Commands PROVE times[c] * O!TakenBy(c, p) \in Int
  <2>1. times[c] \in Nat /\ O!TakenBy(c, p) \in Int
    BY TakenByType
  <2> QED
    BY <2>1
<1> QED
  BY <1>1 DEF TakingsIn

LEMMA TakingsAreSum ==
  ASSUME OrderInputs, IsFiniteSet(Commands), NEW p \in Products, NEW times \in [Commands -> Nat]
  PROVE  Takings(times, p) = Sum(TakingsIn(times, p), Commands)
<1> DEFINE Of(c) == times[c] * O!TakenBy(c, p)
           Adding(g) ==
             g = [s \in SUBSET Commands |->
                    IF s = {} THEN 0 ELSE Of(Any(s)) + g[s \ {Any(s)}]]
           f == TakingsIn(times, p)
<1>1. Takings(times, p) = (CHOOSE g : Adding(g))[Commands]
  BY DEF Takings, O!MapThenSumSet, O!MapThenFoldSet, Any
<1>2. f \in [Commands -> Int] /\ \A c \in Commands : f[c] = Of(c)
  BY TakingsType DEF TakingsIn
<1> HIDE DEF f, Of
<1>3. ASSUME NEW g PROVE Adds(g, f, Commands) <=> Adding(g)
  <2>1. \A s \in SUBSET Commands :
          (IF s = {} THEN 0 ELSE f[Any(s)] + g[s \ {Any(s)}])
            = (IF s = {} THEN 0 ELSE Of(Any(s)) + g[s \ {Any(s)}])
    BY <1>2, AnyOf
  <2>2. [s \in SUBSET Commands |-> IF s = {} THEN 0 ELSE f[Any(s)] + g[s \ {Any(s)}]]
          = [s \in SUBSET Commands |-> IF s = {} THEN 0 ELSE Of(Any(s)) + g[s \ {Any(s)}]]
    BY <2>1, Zenon
  <2> QED
    BY <2>2 DEF Adds
<1>4. \E g : Adding(g)
  <2>1. PICK g \in [SUBSET Commands -> Int] : Adds(g, f, Commands)
    BY <1>2, SumExists
  <2> HIDE DEF Adding
  <2> QED
    BY <1>3, <2>1
<1> DEFINE total == CHOOSE g : Adding(g)
<1> HIDE DEF Adding
<1>5. Adding(total)
  BY <1>4
<1>6. Adds(total, f, Commands)
  BY <1>3, <1>5
<1> HIDE DEF total
<1>7. total[Commands] = Sum(f, Commands)
  BY <1>2, <1>6, AddsGivesSum
<1> QED
  BY <1>1, <1>7 DEF total, f

LEMMA TakingsOfNone ==
  ASSUME OrderInputs, IsFiniteSet(Commands), NEW p \in Products,
         NEW times \in [Commands -> Nat], \A c \in Commands : times[c] = 0
  PROVE  Takings(times, p) = 0
<1> DEFINE f == TakingsIn(times, p)
<1>1. f \in [Commands -> Int]
  BY TakingsType
<1>2. \A c \in Commands : f[c] = 0
  <2>1. \A c \in Commands : O!TakenBy(c, p) \in Int
    BY TakenByType
  <2> QED
    BY <2>1 DEF TakingsIn
<1> HIDE DEF f
<1>3. Sum(f, Commands) = 0
  BY <1>1, <1>2, SumOfZeros
<1> QED
  BY <1>3, TakingsAreSum DEF f

\* A command that is applied once more takes its quantity once more.
LEMMA TakingsOfMore ==
  ASSUME OrderInputs, IsFiniteSet(Commands), NEW p \in Products, NEW c \in Commands,
         NEW times \in [Commands -> Nat]
  PROVE  /\ Takings([times EXCEPT ![c] = @ + 1], p) = Takings(times, p) + O!TakenBy(c, p)
         /\ Takings(times, p) \in Int
<1> DEFINE more == [times EXCEPT ![c] = @ + 1]
           f == TakingsIn(times, p)
           e == TakingsIn(more, p)
           R == Less(Commands, c)
           rest == [x \in R |-> f[x]]
<1>1. more \in [Commands -> Nat] /\ more[c] = times[c] + 1 /\ times[c] \in Nat
      /\ \A x \in Commands : x # c => more[x] = times[x]
  OBVIOUS
<1>2. f \in [Commands -> Int] /\ e \in [Commands -> Int]
  BY <1>1, TakingsType
<1>3. e[c] = f[c] + O!TakenBy(c, p) /\ O!TakenBy(c, p) \in Int
  <2>1. O!TakenBy(c, p) \in Int
    BY TakenByType
  <2>2. e[c] = (times[c] + 1) * O!TakenBy(c, p) /\ f[c] = times[c] * O!TakenBy(c, p)
    BY <1>1 DEF TakingsIn
  <2> DEFINE q == O!TakenBy(c, p)
             t == times[c]
  <2>3. (t + 1) * q = t * q + q
    <3>1. t \in Nat /\ q \in Int
      BY <1>1, <2>1
    <3> HIDE DEF t, q
    <3> QED
      BY <3>1
  <2> QED
    BY <2>1, <2>2, <2>3
<1>4. IsFiniteSet(R) /\ R \subseteq Commands /\ c \notin R
  <2>1. R \subseteq Commands /\ c \notin R
    BY DEF Less
  <2> QED
    BY <2>1, FS_Subset
<1>5. rest \in [R -> Int] /\ (\A x \in R : f[x] = rest[x]) /\ (\A x \in R : e[x] = rest[x])
  <2>1. \A x \in R : e[x] = f[x]
    BY <1>1, <1>4 DEF TakingsIn
  <2> QED
    BY <1>2, <1>4, <2>1
<1>6. Takings(times, p) = Sum(f, Commands) /\ Takings(more, p) = Sum(e, Commands)
  BY <1>1, TakingsAreSum
<1> HIDE DEF more, f, e, R, rest
<1>7. /\ Sum(f, Commands) = f[c] + Sum(f, Less(Commands, c)) /\ Sum(f, Commands) \in Int
      /\ Sum(e, Commands) = e[c] + Sum(e, Less(Commands, c))
      /\ Sum(f, Less(Commands, c)) \in Int
  BY <1>2, SumOfMore
<1>8. Sum(f, R) = Sum(rest, R) /\ Sum(e, R) = Sum(rest, R)
  BY <1>4, <1>5, SameSum
<1>9. f[c] \in Int
  BY <1>2
<1>10. Sum(e, Commands) = Sum(f, Commands) + O!TakenBy(c, p)
  BY <1>3, <1>7, <1>8, <1>9 DEF R
<1> QED
  BY <1>6, <1>7, <1>10 DEF more

RowsOf(p) == {row \in orderProducts : row.product = p}
DeliveriesOf(p) == {d \in delivered : d.product = p}

\* A product without a row of stock has nothing.
Level(p) == IF p \in DOMAIN stock THEN stock[p] ELSE 0
Balance(p) ==
  O!Initially(p) + Quantities(DeliveriesOf(p)) - Quantities(RowsOf(p)) - Takings(removed, p)

\* What the rest of a transaction relies on being in stock.
Needs(t) == t.taken \cup (IF t.pc = "take" THEN {t.product} ELSE {})

\* The accounts balance, product by product; a transaction needs what has a row.
BooksInv ==
  /\ \A p \in Products : /\ IsFiniteSet(DeliveriesOf(p)) /\ IsFiniteSet(RowsOf(p))
                         /\ Level(p) = Balance(p)
  /\ \A r \in Requests : Needs(tx[r]) \subseteq DOMAIN stock

\* Until two transactions overlap, one is open, and what it read is still there.
SoldInv ==
  ~overlapped =>
    /\ \A r, s \in Requests : O!Open(r) /\ O!Open(s) => r = s
    /\ \A p \in DOMAIN stock : stock[p] >= 0
    /\ \A r \in Requests : O!Open(r) => \A p \in Needs(tx[r]) : stock[p] >= Quantity[r][p]

\* Stock does not start below zero.
StockInputs == \A p \in DOMAIN InitialStock : InitialStock[p] >= 0

\* A transaction needs products that its request asks for.
LEMMA NeedsAreAsked ==
  ASSUME OrderInputs, OrdersInv, NEW r \in Requests, NEW p \in Needs(tx[r])
  PROVE  Quantity[r][p] \in Int
<1>1. Progress(tx[r], O!ProductsOf(r))
  BY DEF OrdersInv
<1>2. p \in O!ProductsOf(r)
  BY <1>1 DEF Progress, Needs
<1> QED
  BY <1>2 DEF OrderInputs

LEMMA Accounts ==
  \A p : O!Initially(p) + O!Delivered(p) - O!Ordered(p) - O!Removed(p) = Balance(p)
BY
DEF Balance, DeliveriesOf, RowsOf, Quantities, Takings, O!Delivered, O!Ordered, O!Removed

LEMMA NumbersType ==
  ASSUME OrderInputs, IsFiniteSet(Commands), OrdersInv, StockTypes, BooksInv, NEW p \in Products
  PROVE  /\ O!Initially(p) \in Int /\ Quantities(DeliveriesOf(p)) \in Int
         /\ Quantities(RowsOf(p)) \in Int /\ Takings(removed, p) \in Int
         /\ \A d \in DeliveriesOf(p) : d.quantity \in Int
         /\ \A row \in RowsOf(p) : row.quantity \in Int
<1>1. O!Initially(p) \in Int
  BY DEF O!Initially, OrderInputs
<1>2. \A d \in DeliveriesOf(p) : d.quantity \in Int
  BY DEF DeliveriesOf, StockTypes, OrderInputs
<1>3. \A row \in RowsOf(p) : row.quantity \in Int
  BY DEF RowsOf, OrdersInv
<1>4. ASSUME NEW X, IsFiniteSet(X), \A d \in X : d.quantity \in Int
      PROVE  Quantities(X) \in Int
  <2>1. Quantities(X) = Sum(QuantityIn(X), X)
    BY <1>4, QuantitiesAreSum
  <2>2. QuantityIn(X) \in [X -> Int]
    BY <1>4 DEF QuantityIn
  <2>3. \A x \in X : QuantityIn(X)[x] = QuantityIn(X)[x]
    OBVIOUS
  <2> QED
    BY <1>4, <2>1, <2>2, <2>3, SameSum
<1>5. Takings(removed, p) \in Int
  <2>1. removed \in [Commands -> Nat]
    BY DEF StockTypes
  <2>2. TakingsIn(removed, p) \in [Commands -> Int]
    BY <2>1, TakingsType
  <2>3. Takings(removed, p) = Sum(TakingsIn(removed, p), Commands)
    BY <2>1, TakingsAreSum
  <2> DEFINE f == TakingsIn(removed, p)
  <2>4. f \in [Commands -> Int] /\ \A c \in Commands : f[c] = f[c]
    BY <2>2
  <2> HIDE DEF f
  <2>5. Sum(f, Commands) \in Int
    BY <2>4, SameSum
  <2> QED
    BY <2>3, <2>5 DEF f
<1> QED
  BY <1>1, <1>2, <1>3, <1>4, <1>5 DEF BooksInv

LEMMA BooksInit == OrderInputs /\ IsFiniteSet(Commands) /\ O!Init => BooksInv
<1> SUFFICES ASSUME OrderInputs, IsFiniteSet(Commands), O!Init PROVE BooksInv
  OBVIOUS
<1>1. /\ stock = InitialStock /\ orderProducts = {} /\ delivered = {}
      /\ tx = [r \in Requests |-> O!Idle] /\ removed = [c \in Commands |-> 0]
  BY DEF O!Init
<1>2. ASSUME NEW p \in Products
      PROVE  /\ IsFiniteSet(DeliveriesOf(p)) /\ IsFiniteSet(RowsOf(p))
             /\ Level(p) = Balance(p)
  <2>1. DeliveriesOf(p) = {} /\ RowsOf(p) = {}
    BY <1>1 DEF DeliveriesOf, RowsOf
  <2>2. Takings(removed, p) = 0
    BY <1>1, TakingsOfNone
  <2>3. Level(p) = O!Initially(p) /\ O!Initially(p) \in Int
    BY <1>1 DEF Level, O!Initially, OrderInputs
  <2>4. IsFiniteSet({})
    BY FS_EmptySet
  <2> QED
    BY <2>1, <2>2, <2>3, <2>4, QuantitiesOfNone DEF Balance
<1>3. Needs(O!Idle) = {}
  BY DEF Needs, O!Idle
<1> QED
  BY <1>1, <1>2, <1>3 DEF BooksInv

LEMMA SoldInit == StockInputs /\ O!Init => SoldInv
<1> SUFFICES ASSUME StockInputs, O!Init PROVE SoldInv
  OBVIOUS
<1>1. \A r \in Requests : ~O!Open(r)
  BY DEF O!Init, O!Open, O!Idle
<1> QED
  BY <1>1 DEF O!Init, SoldInv, StockInputs

\* A step of one transaction needs nothing more than it did, but what it reads.
Moves(r) ==
  /\ \A s \in Requests : s # r => tx'[s] = tx[s]
  /\ \A p \in Needs(tx'[r]) :
       p \in Needs(tx[r]) \/ (p \in DOMAIN stock /\ stock[p] >= Quantity[r][p])

LEMMA RollbackMoves == ASSUME OrdersInv, NEW r \in Requests, O!Rollback(r) PROVE Moves(r)
<1> DEFINE done == [O!Idle EXCEPT !.pc = "done"]
<1>1. tx' = [tx EXCEPT ![r] = done] /\ Needs(done) = {}
  BY DEF O!Rollback, Needs, O!Idle
<1> HIDE DEF done
<1> QED
  BY <1>1 DEF OrdersInv, Moves

LEMMA BeginMoves ==
  ASSUME OrdersInv, NEW r \in Requests, O!Begin(r) PROVE Moves(r)
<1>1. tx[r].pc = "idle" /\ tx' = [tx EXCEPT ![r].pc = "loop", ![r].left = O!ProductsOf(r)]
  BY DEF O!Begin
<1>2. tx[r] \in Transaction
  BY DEF OrdersInv
<1>3. tx'[r] = [tx[r] EXCEPT !.pc = "loop", !.left = O!ProductsOf(r)]
      /\ \A s \in Requests : s # r => tx'[s] = tx[s]
  BY <1>1 DEF OrdersInv
<1>4. tx'[r].pc = "loop" /\ tx'[r].taken = tx[r].taken
  BY <1>2, <1>3 DEF Transaction
<1> QED
  BY <1>3, <1>4 DEF Moves, Needs

LEMMA ReadStockMoves ==
  ASSUME OrderInputs, StockTypes, OrdersInv, NEW r \in Requests, O!ReadStock(r) PROVE Moves(r)
<1>1. tx[r].pc = "loop" /\ tx[r] \in Transaction
  BY DEF O!ReadStock, OrdersInv
<1>2. ASSUME NEW p \in tx[r].left, p \in DOMAIN stock,
             tx' = [tx EXCEPT ![r].pc = IF O!Enough(r, p) THEN "take" ELSE "cancel",
                              ![r].product = p]
      PROVE  Moves(r)
  <2> DEFINE next == IF O!Enough(r, p) THEN "take" ELSE "cancel"
  <2>1. tx'[r] = [tx[r] EXCEPT !.pc = next, !.product = p]
        /\ \A s \in Requests : s # r => tx'[s] = tx[s]
    BY <1>2 DEF OrdersInv
  <2>2. tx'[r].pc = next /\ tx'[r].taken = tx[r].taken /\ tx'[r].product = p
    BY <1>1, <2>1 DEF Transaction
  <2>3. stock[p] \in Int /\ Quantity[r][p] \in Int
    BY <1>1, <1>2 DEF StockTypes, OrderInputs, OrdersInv, Progress
  <2>4. next = "take" => stock[p] >= Quantity[r][p]
    BY <2>3 DEF O!Enough
  <2> HIDE DEF next
  <2> QED
    BY <1>2, <2>1, <2>2, <2>4 DEF Moves, Needs
<1> QED
  BY <1>2, RollbackMoves DEF O!ReadStock

LEMMA AllTakenMoves ==
  ASSUME OrdersInv, NEW r \in Requests, O!AllTaken(r) PROVE Moves(r)
<1>1. tx[r] \in Transaction /\ tx' = [tx EXCEPT ![r].pc = "ship"]
  BY DEF O!AllTaken, OrdersInv
<1>2. tx'[r] = [tx[r] EXCEPT !.pc = "ship"] /\ \A s \in Requests : s # r => tx'[s] = tx[s]
  BY <1>1 DEF OrdersInv
<1>3. tx'[r].pc = "ship" /\ tx'[r].taken = tx[r].taken
  BY <1>1, <1>2 DEF Transaction
<1> QED
  BY <1>2, <1>3 DEF Moves, Needs

LEMMA SnapshotMoves ==
  ASSUME OrdersInv, NEW r \in Requests, O!Snapshot(r) PROVE Moves(r)
<1>1. tx[r] \in Transaction /\ tx' = [tx EXCEPT ![r].snapshot = TRUE]
  BY DEF O!Snapshot, OrdersInv
<1>2. tx'[r] = [tx[r] EXCEPT !.snapshot = TRUE] /\ \A s \in Requests : s # r => tx'[s] = tx[s]
  BY <1>1 DEF OrdersInv
<1>3. tx'[r].pc = tx[r].pc /\ tx'[r].taken = tx[r].taken /\ tx'[r].product = tx[r].product
  BY <1>1, <1>2, SnapshotTaken
<1> QED
  BY <1>2, <1>3 DEF Moves, Needs

LEMMA TakeMoves == ASSUME OrdersInv, NEW r \in Requests, O!Take(r) PROVE Moves(r)
<1> DEFINE p == tx[r].product
<1>1. tx[r].pc = "take" /\ tx[r] \in Transaction
  BY DEF O!Take, OrdersInv
<1>2. ASSUME tx' = [tx EXCEPT ![r].pc = "loop", ![r].product = O!NoProduct,
                              ![r].taken = @ \cup {p}, ![r].left = @ \ {p}]
      PROVE  Moves(r)
  <2>1. tx'[r] = [tx[r] EXCEPT !.pc = "loop", !.product = O!NoProduct,
                               !.taken = @ \cup {p}, !.left = @ \ {p}]
        /\ \A s \in Requests : s # r => tx'[s] = tx[s]
    BY <1>2 DEF OrdersInv
  <2>2. tx'[r].pc = "loop" /\ tx'[r].taken = tx[r].taken \cup {p}
    <3> DEFINE t == tx[r]
               u == tx'[r]
    <3>1. u = [t EXCEPT !.pc = "loop", !.product = O!NoProduct,
                        !.taken = @ \cup {p}, !.left = @ \ {p}]
      BY <2>1
    <3>2. t \in Transaction
      BY <1>1
    <3> HIDE DEF p, t, u
    <3>3. u.pc = "loop" /\ u.taken = t.taken \cup {p}
      BY <3>1, <3>2 DEF Transaction
    <3> QED
      BY <3>3 DEF t, u
  <2>3. Needs(tx'[r]) = Needs(tx[r])
    BY <1>1, <2>2 DEF Needs
  <2> QED
    BY <2>1, <2>3 DEF Moves
<1> QED
  BY <1>2, RollbackMoves DEF O!Take

LEMMA InsertOrderMoves == ASSUME OrdersInv, NEW r \in Requests, O!InsertOrder(r) PROVE Moves(r)
<1>1. tx[r].pc \in {"cancel", "ship"} /\ tx[r] \in Transaction
  BY DEF O!InsertOrder, OrdersInv
<1>2. ASSUME tx' = [tx EXCEPT ![r].pc = IF @ = "ship" THEN "commit_ship" ELSE "commit_cancel"]
      PROVE  Moves(r)
  <2> DEFINE next == IF tx[r].pc = "ship" THEN "commit_ship" ELSE "commit_cancel"
  <2>1. tx'[r] = [tx[r] EXCEPT !.pc = next] /\ \A s \in Requests : s # r => tx'[s] = tx[s]
    BY <1>2 DEF OrdersInv
  <2>2. tx'[r].pc = next /\ tx'[r].taken = tx[r].taken
    BY <1>1, <2>1 DEF Transaction, CommitPcs
  <2>3. next # "take"
    OBVIOUS
  <2> HIDE DEF next
  <2> QED
    BY <2>1, <2>2, <2>3 DEF Moves, Needs
<1> QED
  BY <1>2, RollbackMoves DEF O!InsertOrder

\* A step that leaves the stock and the accounts as they are.
LEMMA BooksKept ==
  ASSUME BooksInv, UNCHANGED <<stock, orderProducts, delivered, removed>>,
         \A r \in Requests : Needs(tx'[r]) \subseteq DOMAIN stock
  PROVE  BooksInv'
<1>1. ASSUME NEW p \in Products
      PROVE  DeliveriesOf(p)' = DeliveriesOf(p) /\ RowsOf(p)' = RowsOf(p)
             /\ Level(p)' = Level(p) /\ Balance(p)' = Balance(p)
  BY DEF DeliveriesOf, RowsOf, Level, Balance, O!Initially
<1> QED
  BY <1>1 DEF BooksInv, Needs

LEMMA MoveKeepsBooks ==
  ASSUME BooksInv, NEW r \in Requests, Moves(r),
         UNCHANGED <<stock, orderProducts, delivered, removed>>
  PROVE  BooksInv'
<1>1. \A s \in Requests : Needs(tx'[s]) \subseteq DOMAIN stock
  BY DEF Moves, BooksInv
<1> QED
  BY <1>1, BooksKept

LEMMA MoveKeepsSold ==
  ASSUME SoldInv, NEW r \in Requests, Moves(r), UNCHANGED stock,
         \/ O!Open(r) /\ UNCHANGED overlapped
         \/ Needs(tx[r]) = {} /\ overlapped' = (overlapped \/ \E s \in Requests : O!Open(s))
  PROVE  SoldInv'
<1> SUFFICES ASSUME ~overlapped' PROVE SoldInv'
  BY DEF SoldInv
<1>1. /\ ~overlapped /\ \A s \in Requests : s # r => ~O!Open(s)
      /\ \A p \in Needs(tx[r]) : stock[p] >= Quantity[r][p]
  <2>1. CASE O!Open(r) /\ UNCHANGED overlapped
    BY <2>1 DEF SoldInv
  <2>2. CASE /\ Needs(tx[r]) = {}
             /\ overlapped' = (overlapped \/ \E s \in Requests : O!Open(s))
    <3>1. ~(overlapped \/ \E s \in Requests : O!Open(s))
      BY <2>2
    <3> QED
      BY <2>2, <3>1
  <2> QED
    BY <2>1, <2>2
<1>2. \A s \in Requests : s # r => ~O!Open(s)'
  BY <1>1 DEF Moves, O!Open
<1>3. \A p \in Needs(tx[r])' : stock'[p] >= Quantity[r][p]
  BY <1>1 DEF Moves, Needs
<1>4. \A p \in DOMAIN stock' : stock'[p] >= 0
  BY <1>1 DEF SoldInv
<1> QED
  BY <1>2, <1>3, <1>4 DEF SoldInv

\* A step of the stock beside the transactions.
LEMMA ChangedNeeds ==
  ASSUME OrdersInv, NEW products \in SUBSET Products, tx' = O!Changed(tx, products)
  PROVE  \A r \in Requests : /\ Needs(tx'[r]) = Needs(tx[r]) /\ tx'[r].pc = tx[r].pc
                             /\ O!Open(r)' = O!Open(r)
<1>1. \A r \in Requests : /\ tx'[r].pc = tx[r].pc /\ tx'[r].taken = tx[r].taken
                          /\ tx'[r].product = tx[r].product
  BY ChangedStays DEF OrdersInv
<1> QED
  BY <1>1 DEF Needs, O!Open

LEMMA AddStockBooks ==
  ASSUME OrderInputs, IsFiniteSet(Commands), OrdersInv, StockTypes, BooksInv, SoldInv,
         NEW d \in Deliveries, O!AddStock(d)
  PROVE  BooksInv' /\ SoldInv'
<1> DEFINE q == d.product
<1>1. /\ d \notin delivered /\ delivered' = delivered \cup {d}
      /\ stock' = [p \in DOMAIN stock \cup {q} |->
                    IF p # q THEN stock[p]
                    ELSE IF p \in DOMAIN stock THEN stock[p] + d.quantity ELSE d.quantity]
      /\ tx' = O!Changed(tx, {q})
      /\ UNCHANGED <<orderProducts, removed, overlapped>>
  BY DEF O!AddStock, O!saga
<1>2. q \in Products /\ d.quantity \in Nat
  BY DEF OrderInputs
<1>3. \A r \in Requests : /\ Needs(tx'[r]) = Needs(tx[r]) /\ O!Open(r)' = O!Open(r)
  BY <1>1, <1>2, ChangedNeeds
<1> HIDE DEF q
<1>4. /\ DOMAIN stock' = DOMAIN stock \cup {q}
      /\ \A p \in DOMAIN stock : stock[p] \in Int /\ stock'[p] \in Int /\ stock'[p] >= stock[p]
      /\ Level(q)' = Level(q) + d.quantity
      /\ \A p : p # q => Level(p)' = Level(p)
  BY <1>1, <1>2 DEF StockTypes, Level
<1>5. ASSUME NEW p \in Products
      PROVE  IsFiniteSet(DeliveriesOf(p)') /\ RowsOf(p)' = RowsOf(p) /\ Level(p)' = Balance(p)'
  <2>1. RowsOf(p)' = RowsOf(p) /\ O!Initially(p)' = O!Initially(p)
    BY <1>1 DEF RowsOf, O!Initially
  <2>2. IsFiniteSet(DeliveriesOf(p)) /\ Level(p) = Balance(p)
    BY DEF BooksInv
  <2>3. CASE p # q
    <3>1. DeliveriesOf(p)' = DeliveriesOf(p)
      BY <1>1, <2>3 DEF DeliveriesOf, q
    <3> QED
      BY <1>1, <1>4, <2>1, <2>2, <2>3, <3>1 DEF Balance
  <2>4. CASE p = q
    <3>1. DeliveriesOf(p)' = DeliveriesOf(p) \cup {d} /\ d \notin DeliveriesOf(p)
      BY <1>1, <2>4 DEF DeliveriesOf, q
    <3>2. \A x \in DeliveriesOf(p) \cup {d} : x.quantity \in Int
      BY <1>2, NumbersType
    <3> DEFINE X == DeliveriesOf(p)
    <3>3. IsFiniteSet(X) /\ d \notin X /\ \A x \in X \cup {d} : x.quantity \in Int
      BY <2>2, <3>1, <3>2
    <3> HIDE DEF X
    <3>4. IsFiniteSet(X \cup {d}) /\ Quantities(X \cup {d}) = Quantities(X) + d.quantity
      BY <3>3, FS_AddElement, QuantitiesOfMore
    <3>5. Quantities(DeliveriesOf(p)') = Quantities(DeliveriesOf(p)) + d.quantity
          /\ IsFiniteSet(DeliveriesOf(p)')
      BY <3>1, <3>4 DEF X
    <3>6. Balance(p)' = O!Initially(p) + Quantities(DeliveriesOf(p)') - Quantities(RowsOf(p))
                          - Takings(removed, p)
      BY <1>1, <2>1 DEF Balance
    <3>7. Balance(p)' = Balance(p) + d.quantity
      BY <1>2, <3>5, <3>6, NumbersType DEF Balance
    <3> QED
      BY <1>4, <2>1, <2>2, <2>4, <3>5, <3>7
  <2> QED
    BY <2>3, <2>4
<1>6. BooksInv'
  <2>1. \A r \in Requests : Needs(tx[r])' \subseteq DOMAIN stock'
    BY <1>3, <1>4 DEF BooksInv, Needs
  <2>2. \A p \in Products : IsFiniteSet(RowsOf(p)')
    BY <1>5 DEF BooksInv
  <2> QED
    BY <1>5, <2>1, <2>2 DEF BooksInv
<1>7. SoldInv'
  <2> SUFFICES ASSUME ~overlapped PROVE SoldInv'
    BY <1>1 DEF SoldInv
  <2>1. ASSUME NEW p \in DOMAIN stock' PROVE stock'[p] >= 0
    <3>1. CASE p \in DOMAIN stock
      BY <1>4, <3>1 DEF SoldInv
    <3>2. CASE p \notin DOMAIN stock
      BY <1>1, <1>2, <1>4, <3>2
    <3> QED
      BY <3>1, <3>2
  <2>2. ASSUME NEW r \in Requests, O!Open(r), NEW p \in Needs(tx[r])
        PROVE  stock'[p] >= Quantity[r][p]
    <3>1. p \in DOMAIN stock /\ p \in Products /\ stock[p] >= Quantity[r][p]
      BY <2>2 DEF BooksInv, SoldInv, StockTypes
    <3>2. Quantity[r][p] \in Int
      BY <2>2, NeedsAreAsked
    <3> QED
      BY <1>4, <3>1, <3>2
  <2>3. \A r \in Requests : Needs(tx[r])' = Needs(tx[r])
    BY <1>3 DEF Needs
  <2>4. \A r, s \in Requests : O!Open(r)' /\ O!Open(s)' => r = s
    BY <1>3 DEF SoldInv
  <2> QED
    BY <1>3, <2>1, <2>2, <2>3, <2>4 DEF SoldInv
<1> QED
  BY <1>6, <1>7

LEMMA RemoveBooks ==
  ASSUME OrderInputs, IsFiniteSet(Commands), OrdersInv, StockTypes, BooksInv, SoldInv,
         NEW c \in Commands, O!RemoveProductsFromStock(c)
  PROVE  BooksInv' /\ SoldInv'
<1>1. /\ O!CommandProducts(c) \subseteq DOMAIN stock /\ O!InStock(c)
      /\ stock' = [p \in DOMAIN stock |-> stock[p] - O!TakenBy(c, p)]
      /\ tx' = O!Changed(tx, O!CommandProducts(c))
      /\ removed' = [removed EXCEPT ![c] = @ + 1]
      /\ overlapped' = (overlapped \/ \E r \in Requests : O!Open(r))
      /\ UNCHANGED <<orderProducts, delivered>>
  BY DEF O!RemoveProductsFromStock
<1>2. \A p \in Products : O!TakenBy(c, p) \in Int
  BY TakenByType
<1>3. \A r \in Requests : Needs(tx'[r]) = Needs(tx[r]) /\ O!Open(r)' = O!Open(r)
  <2>1. O!CommandProducts(c) \in SUBSET Products
    BY DEF OrderInputs
  <2> QED
    BY <1>1, <2>1, ChangedNeeds
<1>4. \A p \in Products : p \notin DOMAIN stock => O!TakenBy(c, p) = 0
  BY <1>1 DEF O!TakenBy
<1>5. ASSUME NEW p \in Products PROVE Level(p)' = Level(p) - O!TakenBy(c, p)
  BY <1>1, <1>2, <1>4 DEF Level, StockTypes
<1>6. ASSUME NEW p \in Products
      PROVE  RowsOf(p)' = RowsOf(p) /\ DeliveriesOf(p)' = DeliveriesOf(p)
             /\ Level(p)' = Balance(p)'
  <2>1. /\ RowsOf(p)' = RowsOf(p) /\ DeliveriesOf(p)' = DeliveriesOf(p)
        /\ O!Initially(p)' = O!Initially(p)
    BY <1>1 DEF RowsOf, DeliveriesOf, O!Initially
  <2>2. removed \in [Commands -> Nat]
    BY DEF StockTypes
  <2>3. Takings(removed', p) = Takings(removed, p) + O!TakenBy(c, p)
    BY <1>1, <2>2, TakingsOfMore
  <2>4. Balance(p)' = O!Initially(p) + Quantities(DeliveriesOf(p)) - Quantities(RowsOf(p))
                        - Takings(removed', p)
    <3>1. Takings(removed, p)' = Takings(removed', p)
      BY DEF Takings, O!MapThenSumSet, O!MapThenFoldSet
    <3> QED
      BY <2>1, <3>1 DEF Balance
  <2>5. Balance(p)' = Balance(p) - O!TakenBy(c, p)
    BY <1>2, <2>3, <2>4, NumbersType DEF Balance
  <2> QED
    BY <1>5, <2>1, <2>5 DEF BooksInv
<1>7. BooksInv'
  <2>1. \A r \in Requests : Needs(tx[r])' \subseteq DOMAIN stock'
    BY <1>1, <1>3 DEF BooksInv, Needs
  <2> QED
    BY <1>6, <2>1 DEF BooksInv
<1>8. SoldInv'
  <2> SUFFICES ASSUME ~overlapped' PROVE SoldInv'
    BY DEF SoldInv
  <2>1. \A r \in Requests : ~O!Open(r)'
    BY <1>1, <1>3
  <2>2. ASSUME NEW p \in DOMAIN stock' PROVE stock'[p] >= 0
    <3>1. p \in DOMAIN stock /\ p \in Products /\ stock[p] \in Int /\ O!TakenBy(c, p) \in Int
          /\ stock[p] >= 0 /\ stock'[p] = stock[p] - O!TakenBy(c, p)
      BY <1>1, <1>2 DEF StockTypes, SoldInv
    <3>2. stock[p] >= O!TakenBy(c, p)
      BY <1>1, <3>1 DEF O!InStock, O!TakenBy
    <3> QED
      BY <3>1, <3>2
  <2> QED
    BY <2>1, <2>2 DEF SoldInv
<1> QED
  BY <1>7, <1>8

LEMMA CommitBooks ==
  ASSUME OrderInputs, IsFiniteSet(Commands), OrdersInv, StockTypes, BooksInv, SoldInv,
         NEW r \in Requests, O!Commit(r)
  PROVE  BooksInv' /\ SoldInv'
<1> DEFINE o == OrderOf[r]
           done == [O!Idle EXCEPT !.pc = "done"]
           Row(p) == [order |-> o, product |-> p, quantity |-> Quantity[r][p]]
           taken == tx[r].taken
           ended == [tx EXCEPT ![r] = done]
<1>1. /\ tx[r].pc \in CommitPcs /\ tx[r] \in Transaction /\ o \in Orders
      /\ orderProducts' = orderProducts \cup {Row(p) : p \in taken}
      /\ stock' = [p \in DOMAIN stock |->
                    IF p \in taken THEN stock[p] - Quantity[r][p] ELSE stock[p]]
      /\ tx' = O!Changed(ended, taken)
      /\ UNCHANGED <<overlapped, delivered, removed>>
  BY DEF O!Commit, O!Taken, O!saga, OrdersInv, OrderInputs, CommitPcs
<1>2. taken \subseteq Products /\ taken \subseteq DOMAIN stock
      /\ \A p \in taken : Quantity[r][p] \in Int
  <2>1. taken \subseteq Needs(tx[r])
    BY DEF Needs
  <2> QED
    BY <1>1, <2>1, NeedsAreAsked DEF Transaction, BooksInv
<1>3. /\ ended \in [Requests -> Transaction] /\ Needs(ended[r]) = {} /\ ended[r].pc = "done"
      /\ \A s \in Requests : s # r => ended[s] = tx[s]
  <2>1. done \in Transaction /\ done.pc = "done" /\ Needs(done) = {}
    BY DEF O!Idle, Transaction, O!NoProduct, Needs
  <2> HIDE DEF done
  <2> QED
    BY <2>1 DEF OrdersInv
<1> HIDE DEF ended
<1>4. \A s \in Requests : Needs(tx'[s]) = Needs(ended[s]) /\ tx'[s].pc = ended[s].pc
  <2>1. \A s \in Requests : /\ tx'[s].pc = ended[s].pc /\ tx'[s].taken = ended[s].taken
                            /\ tx'[s].product = ended[s].product
    BY <1>1, <1>2, <1>3, ChangedStays
  <2> QED
    BY <2>1 DEF Needs
<1>5. \A p \in taken : Row(p) \notin orderProducts
  <2>1. ~\E row \in orderProducts : row.order = o
    BY <1>1 DEF OrdersInv, O!OrdersMatchProducts
  <2>2. \A p : Row(p).order = o
    OBVIOUS
  <2> QED
    BY <2>1, <2>2
<1>6. \A p : Row(p).product = p /\ Row(p).quantity = Quantity[r][p]
  OBVIOUS
<1> HIDE DEF Row
<1>7. ASSUME NEW p \in Products
      PROVE  DeliveriesOf(p)' = DeliveriesOf(p) /\ IsFiniteSet(RowsOf(p)')
             /\ Level(p)' = Balance(p)'
  <2>1. /\ DeliveriesOf(p)' = DeliveriesOf(p) /\ O!Initially(p)' = O!Initially(p)
        /\ IsFiniteSet(RowsOf(p)) /\ Level(p) = Balance(p)
    BY <1>1 DEF DeliveriesOf, O!Initially, BooksInv
  <2>2. CASE p \notin taken
    <3>1. RowsOf(p)' = RowsOf(p)
      BY <1>1, <1>6, <2>2 DEF RowsOf
    <3>2. Level(p)' = Level(p)
      BY <1>1, <2>2 DEF Level
    <3> QED
      BY <1>1, <2>1, <3>1, <3>2 DEF Balance
  <2>3. CASE p \in taken
    <3>1. RowsOf(p)' = RowsOf(p) \cup {Row(p)} /\ Row(p) \notin RowsOf(p)
      BY <1>1, <1>5, <1>6, <2>3 DEF RowsOf
    <3>2. Level(p)' = Level(p) - Quantity[r][p]
      BY <1>1, <1>2, <2>3 DEF Level
    <3>3. \A row \in RowsOf(p) \cup {Row(p)} : row.quantity \in Int
      BY <1>2, <1>6, <2>3, NumbersType
    <3> DEFINE X == RowsOf(p)
    <3>4. IsFiniteSet(X) /\ Row(p) \notin X /\ \A x \in X \cup {Row(p)} : x.quantity \in Int
      BY <2>1, <3>1, <3>3
    <3> HIDE DEF X
    <3>5. IsFiniteSet(X \cup {Row(p)})
          /\ Quantities(X \cup {Row(p)}) = Quantities(X) + Row(p).quantity
      BY <3>4, FS_AddElement, QuantitiesOfMore
    <3>6. Quantities(RowsOf(p)') = Quantities(RowsOf(p)) + Quantity[r][p]
          /\ IsFiniteSet(RowsOf(p)')
      BY <1>6, <3>1, <3>5 DEF X
    <3>7. Balance(p)' = O!Initially(p) + Quantities(DeliveriesOf(p)) - Quantities(RowsOf(p)')
                          - Takings(removed, p)
      BY <1>1, <2>1 DEF Balance
    <3>8. Balance(p)' = Balance(p) - Quantity[r][p]
      BY <1>2, <2>3, <3>6, <3>7, NumbersType DEF Balance
    <3> QED
      BY <2>1, <3>2, <3>6, <3>8
  <2> QED
    BY <2>2, <2>3
<1>8. BooksInv'
  <2>1. \A s \in Requests : Needs(tx[s])' \subseteq DOMAIN stock'
    BY <1>1, <1>3, <1>4 DEF BooksInv, Needs
  <2> QED
    BY <1>7, <2>1 DEF BooksInv
<1>9. SoldInv'
  <2> SUFFICES ASSUME ~overlapped PROVE SoldInv'
    BY <1>1 DEF SoldInv
  <2>1. O!Open(r) /\ \A s \in Requests : s # r => ~O!Open(s)
    BY <1>1 DEF SoldInv, O!Open, CommitPcs
  <2>2. \A s \in Requests : ~O!Open(s)'
    BY <1>3, <1>4, <2>1 DEF O!Open
  <2>3. ASSUME NEW p \in DOMAIN stock' PROVE stock'[p] >= 0
    <3>1. stock[p] \in Int /\ stock[p] >= 0
      BY <1>1 DEF StockTypes, SoldInv
    <3>2. p \in taken => stock[p] >= Quantity[r][p] /\ Quantity[r][p] \in Int
      BY <1>2, <2>1 DEF SoldInv, Needs
    <3> QED
      BY <1>1, <3>1, <3>2
  <2> QED
    BY <2>2, <2>3 DEF SoldInv
<1> QED
  BY <1>8, <1>9

LEMMA BooksStep ==
  OrderInputs /\ IsFiniteSet(Commands) /\ OrdersInv /\ StockTypes /\ BooksInv /\ SoldInv
    /\ [O!Next]_O!vars => BooksInv' /\ SoldInv'
<1> SUFFICES ASSUME OrderInputs, IsFiniteSet(Commands), OrdersInv, StockTypes, BooksInv, SoldInv,
                    [O!Next]_O!vars
             PROVE  BooksInv' /\ SoldInv'
  OBVIOUS
<1>1. ASSUME NEW r \in Requests, O!Begin(r) PROVE BooksInv' /\ SoldInv'
  <2>1. /\ UNCHANGED <<stock, orderProducts, delivered, removed>>
        /\ overlapped' = (overlapped \/ \E s \in Requests : O!Open(s))
        /\ tx[r].pc = "idle"
    BY <1>1 DEF O!Begin, O!saga
  <2>2. Needs(tx[r]) = {}
    BY <2>1 DEF OrdersInv, Progress, Needs
  <2>3. Moves(r)
    BY <1>1, BeginMoves
  <2> QED
    BY <2>1, <2>2, <2>3, MoveKeepsBooks, MoveKeepsSold
<1>2. ASSUME NEW r \in Requests,
             O!ReadStock(r) \/ O!AllTaken(r) \/ O!Snapshot(r) \/ O!Take(r) \/ O!InsertOrder(r)
               \/ O!Refused(r)
      PROVE  BooksInv' /\ SoldInv'
  <2>1. /\ UNCHANGED <<stock, orderProducts, delivered, removed, overlapped>>
        /\ O!Open(r)
    BY <1>2
    DEF O!ReadStock, O!AllTaken, O!Snapshot, O!Take, O!InsertOrder, O!Refused, O!saga,
        O!Open
  <2>2. Moves(r)
    BY <1>2, ReadStockMoves, AllTakenMoves, SnapshotMoves, TakeMoves, InsertOrderMoves,
       RollbackMoves DEF O!Refused
  <2> QED
    BY <2>1, <2>2, MoveKeepsBooks, MoveKeepsSold
<1>3. ASSUME UNCHANGED <<stock, orderProducts, delivered, removed, tx, overlapped>>
      PROVE  BooksInv' /\ SoldInv'
  <2>1. \A r \in Requests : Needs(tx'[r]) \subseteq DOMAIN stock /\ Needs(tx[r])' = Needs(tx[r])
                            /\ O!Open(r)' = O!Open(r)
    BY <1>3 DEF BooksInv, Needs, O!Open
  <2>2. BooksInv'
    BY <1>3, <2>1, BooksKept
  <2>3. SoldInv'
    BY <1>3, <2>1 DEF SoldInv
  <2> QED
    BY <2>2, <2>3
<1>4. ASSUME NEW c \in Commands, O!PublishRemoved(c) \/ O!PublishOutOfStock(c)
      PROVE  BooksInv' /\ SoldInv'
  BY <1>3, <1>4 DEF O!PublishRemoved, O!PublishOutOfStock, O!requests
<1>5. CASE UNCHANGED O!vars
  BY <1>3, <1>5 DEF O!vars, O!requests, O!saga
<1> QED
  BY <1>1, <1>2, <1>4, <1>5, AddStockBooks, RemoveBooks, CommitBooks
  DEF O!Next, O!Continue

\* Whatever is delivered, ordered, refused and removed, in whatever order, the stock is what
\* the deliveries, the orders and the commands leave of it; until two transactions overlap,
\* it is not negative.
THEOREM StockIsAccountedHolds ==
  Bounds /\ OrderInputs /\ StockInputs /\ IsFiniteSet(Commands) => (Spec => []StockIsAccounted)
<1> SUFFICES ASSUME Bounds, OrderInputs, StockInputs, IsFiniteSet(Commands)
             PROVE  Spec => []StockIsAccounted
  OBVIOUS
<1> DEFINE Inv == OrdersInv /\ StockTypes /\ BooksInv /\ SoldInv
<1>1. Init => Inv
  BY OrdersInit, StockTypesInit, BooksInit, SoldInit DEF Init
<1>2. Inv /\ [Next]_vars => Inv'
  BY OrdersSteps, OrdersStep, StockTypesStep, BooksStep
<1>3. Inv => StockIsAccounted
  <2> SUFFICES ASSUME Inv, NEW p \in DOMAIN stock
               PROVE  /\ stock[p] = O!Initially(p) + O!Delivered(p) - O!Ordered(p) - O!Removed(p)
                      /\ ~overlapped => stock[p] >= 0
    BY DEF StockIsAccounted, O!StockIsAccounted
  <2>1. stock[p] = Balance(p)
    BY DEF StockTypes, BooksInv, Level
  <2> QED
    BY <2>1, Accounts DEF SoldInv
<1> QED
  BY <1>1, <1>2, <1>3, PTL DEF Spec

=============================================================================
