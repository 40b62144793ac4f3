--------------------------- MODULE AccountsProofs ---------------------------
(***************************************************************************)
(* The page over the storage of its group: whatever arrives in whichever   *)
(* order, the balances cancel, the payments the page proposes are those of *)
(* the members' stretches of the two lines and settle them, and marking    *)
(* one as paid brings its two members closer to zero.                      *)
(***************************************************************************)
EXTENDS Accounts, LedgerProofs, SequenceTheorems

-----------------------------------------------------------------------------
(* The lines of debtors and creditors.                                     *)

LEMMA Ranked ==
  /\ Rank \in [Member -> 1 .. Cardinality(Member)]
  /\ \A x, y \in Member : Rank[x] = Rank[y] => x = y
  /\ \A k \in 1 .. Cardinality(Member) : \E m \in Member : Rank[m] = k
  <1> DEFINE n == Cardinality(Member)
  <1>1. IsFiniteSet(Member) /\ n \in Nat
    BY LedgerAssumption, FS_CardinalityType
  <1>2. IsFiniteSet(1 .. n) /\ Cardinality(1 .. n) = n
    BY <1>1, FS_Interval
  <1>3. ExistsBijection(Member, 1 .. n)
    BY <1>1, <1>2, FS_SameCardinalityBij
  <1>4. \E f \in [Member -> 1 .. n] : IsInjective(f)
    BY <1>3 DEF ExistsBijection, Bijection, Injection
  <1>5. Rank \in [Member -> 1 .. n] /\ IsInjective(Rank)
    BY <1>4 DEF Rank
  <1>6. Rank \in Injection(Member, 1 .. n)
    BY <1>5 DEF Injection
  <1>7. Rank \in Surjection(Member, 1 .. n)
    BY <1>1, <1>2, <1>6, FS_Injection
  <1>8. \A k \in 1 .. n : \E m \in Member : Rank[m] = k
    BY <1>7 DEF Surjection
  <1> QED BY <1>5, <1>8 DEF IsInjective

Balances == [Member -> Int]

LEMMA SizeTyped ==
  ASSUME NEW b \in Balances, NEW m \in Member
  PROVE  Size(b, m) \in Nat /\ (b[m] # 0 => Size(b, m) > 0)
  BY DEF Balances, Size

LEMMA AheadOrders ==
  ASSUME NEW b \in Balances, NEW Q \in SUBSET Member
  PROVE  /\ \A x \in Q : x \notin Ahead(b, Q, x)
         /\ \A x, y \in Q : x # y => x \in Ahead(b, Q, y) \/ y \in Ahead(b, Q, x)
         /\ \A x, y, z \in Q : x \in Ahead(b, Q, y) /\ y \in Ahead(b, Q, z) => x \in Ahead(b, Q, z)
  <1>1. \A x \in Q : Size(b, x) \in Nat /\ Rank[x] \in Nat
    <2>1. \A x \in Q : x \in Member /\ Size(b, x) \in Nat
      BY SizeTyped
    <2>2. \A k \in 1 .. Cardinality(Member) : k \in Nat
      OBVIOUS
    <2> QED BY <2>1, <2>2, Ranked
  <1>2. \A x, y \in Q : x # y => Rank[x] # Rank[y]
    BY Ranked
  <1>3. \A x \in Q : x \notin Ahead(b, Q, x)
    BY <1>1 DEF Ahead
  <1>4. ASSUME NEW x \in Q, NEW y \in Q, x # y
        PROVE  x \in Ahead(b, Q, y) \/ y \in Ahead(b, Q, x)
    BY <1>1, <1>2, <1>4 DEF Ahead
  <1>5. ASSUME NEW x \in Q, NEW y \in Q, NEW z \in Q, x \in Ahead(b, Q, y), y \in Ahead(b, Q, z)
        PROVE  x \in Ahead(b, Q, z)
    BY <1>1, <1>5 DEF Ahead
  <1> QED BY <1>3, <1>4, <1>5

\* Where a member stands in its line.
Place(b, Q, m) == Cardinality(Ahead(b, Q, m)) + 1

LEMMA Placed ==
  ASSUME NEW b \in Balances, NEW Q \in SUBSET Member
  PROVE  /\ IsFiniteSet(Q) /\ Cardinality(Q) \in Nat
         /\ \A x \in Q : Place(b, Q, x) \in 1 .. Cardinality(Q)
         /\ \A x, y \in Q : x \in Ahead(b, Q, y) <=> Place(b, Q, x) < Place(b, Q, y)
         /\ \A x, y \in Q : Place(b, Q, x) = Place(b, Q, y) => x = y
         /\ \A n \in 1 .. Cardinality(Q) : \E x \in Q : Place(b, Q, x) = n
  <1> DEFINE A(x) == Ahead(b, Q, x)
             P(x) == Place(b, Q, x)
             n == Cardinality(Q)
  <1>1. IsFiniteSet(Q) /\ n \in Nat
    BY LedgerAssumption, FS_Subset, FS_CardinalityType
  <1>2. ASSUME NEW x \in Q PROVE IsFiniteSet(A(x)) /\ Cardinality(A(x)) \in 0 .. n - 1
    <2>1. A(x) \in SUBSET Q /\ x \notin A(x)
      BY AheadOrders DEF Ahead
    <2>2. IsFiniteSet(A(x)) /\ Cardinality(A(x)) <= n /\ Cardinality(A(x)) # n
      BY <1>1, <2>1, FS_Subset
    <2>3. Cardinality(A(x)) \in Nat
      BY <2>2, FS_CardinalityType
    <2> QED BY <1>1, <2>2, <2>3
  <1>3. \A x \in Q : P(x) \in 1 .. n
    BY <1>1, <1>2 DEF Place
  <1>4. ASSUME NEW x \in Q, NEW y \in Q, x \in A(y) PROVE P(x) < P(y)
    <2>1. A(x) \in SUBSET A(y) /\ A(x) # A(y)
      <3>1. \A z \in A(x) : z \in Q
        BY DEF Ahead
      <3> QED BY <1>4, <3>1, AheadOrders
    <2>2. Cardinality(A(x)) <= Cardinality(A(y)) /\ Cardinality(A(x)) # Cardinality(A(y))
      BY <1>2, <2>1, FS_Subset
    <2> QED BY <1>2, <2>2 DEF Place
  <1>5. \A x, y \in Q : x \in A(y) <=> P(x) < P(y)
    <2> SUFFICES ASSUME NEW x \in Q, NEW y \in Q, P(x) < P(y) PROVE x \in A(y)
      BY <1>4
    <2>1. x # y /\ ~ (P(y) < P(x))
      BY <1>3
    <2> QED BY <1>4, <2>1, AheadOrders
  <1>6. \A x, y \in Q : P(x) = P(y) => x = y
    <2> SUFFICES ASSUME NEW x \in Q, NEW y \in Q, P(x) = P(y), x # y PROVE FALSE
      OBVIOUS
    <2>1. x \in A(y) \/ y \in A(x)
      BY AheadOrders
    <2>2. P(x) < P(y) \/ P(y) < P(x)
      BY <1>4, <2>1
    <2> QED BY <1>3, <2>2
  <1>7. \A k \in 1 .. n : \E x \in Q : P(x) = k
    <2> DEFINE f == [x \in Q |-> P(x)]
    <2>1. f \in [Q -> 1 .. n]
      BY <1>3
    <2>2. \A x, y \in Q : f[x] = f[y] => x = y
      BY <1>6
    <2>3. f \in Injection(Q, 1 .. n)
      <3> HIDE DEF f
      <3> QED BY <2>1, <2>2 DEF Injection, IsInjective
    <2>4. IsFiniteSet(1 .. n) /\ Cardinality(1 .. n) = n
      BY <1>1, FS_Interval
    <2>5. f \in Surjection(Q, 1 .. n)
      <3> HIDE DEF f
      <3> QED BY <1>1, <2>3, <2>4, FS_Injection
    <2>6. \A k \in 1 .. n : \E x \in Q : f[x] = k
      <3> HIDE DEF f
      <3> QED BY <2>5 DEF Surjection
    <2> QED BY <2>6
  <1> QED BY <1>1, <1>3, <1>5, <1>6, <1>7

\* What a member of the line Q has left.
Part(Q) == [pubkey : Q, amount : Nat]

\* The line has each member once, at its place.
LEMMA LineOf ==
  ASSUME NEW b \in Balances, NEW Q \in SUBSET Member
  PROVE  /\ Line(b, Q) \in Seq(Part(Q))
         /\ Len(Line(b, Q)) = Cardinality(Q)
         /\ \A n \in 1 .. Cardinality(Q) :
              /\ Place(b, Q, Line(b, Q)[n].pubkey) = n
              /\ Line(b, Q)[n].amount = Size(b, Line(b, Q)[n].pubkey)
  <1> DEFINE at(n) == CHOOSE x \in Q : Cardinality(Ahead(b, Q, x)) = n - 1
             N == Cardinality(Q)
  <1>1. N \in Nat
    BY Placed
  <1>2. ASSUME NEW n \in 1 .. N PROVE at(n) \in Q /\ Place(b, Q, at(n)) = n
    <2>1. PICK x \in Q : Place(b, Q, x) = n
      BY Placed
    <2>2. \A y \in Q : Cardinality(Ahead(b, Q, y)) \in Int
      <3>1. \A y \in Q : Ahead(b, Q, y) \in SUBSET Q
        BY DEF Ahead
      <3> QED BY <3>1, Placed, FS_Subset, FS_CardinalityType
    <2>3. Cardinality(Ahead(b, Q, x)) = n - 1
      BY <2>1, <2>2 DEF Place
    <2>4. at(n) \in Q /\ Cardinality(Ahead(b, Q, at(n))) = n - 1
      BY <2>3
    <2> HIDE DEF at
    <2> QED BY <2>4 DEF Place
  <1>3. Line(b, Q) = [n \in 1 .. N |-> [pubkey |-> at(n), amount |-> Size(b, at(n))]]
    BY DEF Line
  <1>4. \A n \in 1 .. N : [pubkey |-> at(n), amount |-> Size(b, at(n))] \in [pubkey : Q, amount : Nat]
    <2> HIDE DEF at
    <2> QED BY <1>2, SizeTyped
  <1> HIDE DEF at
  <1>5. Line(b, Q) \in [1 .. N -> [pubkey : Q, amount : Nat]]
    BY <1>3, <1>4
  <1>6. Line(b, Q) \in Seq(Part(Q)) /\ Len(Line(b, Q)) = N
    <2> DEFINE line == Line(b, Q)
    <2>1. line \in [1 .. N -> Part(Q)]
      BY <1>5 DEF Part
    <2> HIDE DEF line, N
    <2>2. line \in Seq(Part(Q)) /\ Len(line) = N
      BY <1>1, <2>1
    <2> QED BY <2>2 DEF line
  <1>7. ASSUME NEW n \in 1 .. N
        PROVE  /\ Place(b, Q, Line(b, Q)[n].pubkey) = n
               /\ Line(b, Q)[n].amount = Size(b, Line(b, Q)[n].pubkey)
    <2>1. Line(b, Q)[n] = [pubkey |-> at(n), amount |-> Size(b, at(n))]
      BY <1>3
    <2> QED BY <1>2, <2>1
  <1> QED BY <1>6, <1>7

\* The stretches of a line follow each other.
LEMMA Stretches ==
  ASSUME NEW b \in Balances, NEW Q \in SUBSET Member
  PROVE  /\ \A x \in Q : Start(b, Q, x) \in Nat /\ End(b, Q, x) = Start(b, Q, x) + Size(b, x)
         /\ \A x \in Q : Place(b, Q, x) = 1 => Start(b, Q, x) = 0
         /\ \A x, y \in Q : Place(b, Q, y) = Place(b, Q, x) + 1 => Start(b, Q, y) = End(b, Q, x)
         /\ \A x, y \in Q : Place(b, Q, x) < Place(b, Q, y) => End(b, Q, x) <= Start(b, Q, y)
  <1> DEFINE f == [x \in Member |-> Size(b, x)]
             A(x) == Ahead(b, Q, x)
             P(x) == Place(b, Q, x)
             Sum(s) == SumFunctionOnSet(f, s)
  <1>1. \A x \in Q : f[x] \in Nat /\ f[x] = Size(b, x)
    BY SizeTyped
  <1>2. \A x \in Q : /\ A(x) \in SUBSET Q /\ IsFiniteSet(A(x)) /\ x \notin A(x)
                     /\ Cardinality(A(x)) \in Nat /\ Start(b, Q, x) = Sum(A(x))
                     /\ End(b, Q, x) = Sum(A(x)) + f[x]
    <2> TAKE x \in Q
    <2>1. A(x) \in SUBSET Q /\ x \notin A(x)
      BY AheadOrders DEF Ahead
    <2>2. IsFiniteSet(A(x)) /\ Cardinality(A(x)) \in Nat
      BY <2>1, Placed, FS_Subset, FS_CardinalityType
    <2>3. Start(b, Q, x) = Sum(A(x)) /\ End(b, Q, x) = Sum(A(x)) + f[x]
      BY <1>1 DEF Start, End
    <2> QED BY <2>1, <2>2, <2>3
  <1> HIDE DEF f
  <1>3. \A x \in Q : Sum(A(x)) \in Nat
    BY <1>1, <1>2, Placed, SumGrows
  <1>4. \A x \in Q : Start(b, Q, x) \in Nat /\ End(b, Q, x) = Start(b, Q, x) + Size(b, x)
    BY <1>1, <1>2, <1>3
  <1>5. ASSUME NEW x \in Q, P(x) = 1 PROVE Start(b, Q, x) = 0
    <2>1. A(x) = {}
      <3>1. Cardinality(A(x)) = 0
        BY <1>2, <1>5 DEF Place
      <3> QED BY <1>2, <3>1, FS_EmptySet
    <2>2. Sum(A(x)) = 0
      <3>1. IsFiniteSet(A(x)) /\ Numbers(f, A(x))
        BY <1>2, <2>1 DEF Numbers
      <3> QED BY <2>1, <3>1, SumStep
    <2> QED BY <1>2, <2>2
  <1>6. ASSUME NEW x \in Q, NEW y \in Q, P(x) < P(y)
        PROVE  /\ A(x) \cup {x} \in SUBSET A(y)
               /\ Sum(A(x) \cup {x}) = End(b, Q, x)
    <2>1. x \in A(y)
      BY <1>6, Placed
    <2>2. A(x) \cup {x} \in SUBSET A(y)
      <3>1. \A z \in A(x) : z \in A(y)
        BY <1>2, <2>1, AheadOrders
      <3> QED BY <2>1, <3>1
    <2>3. Sum(A(x) \cup {x}) = f[x] + Sum(A(x))
      <3> DEFINE T == A(x) \cup {x}
      <3>1. IsFiniteSet(T) /\ x \in T /\ Numbers(f, T) /\ T \ {x} = A(x)
        <4>1. \A z \in T : z \in Q
          BY <1>2
        <4>2. IsFiniteSet(T)
          BY <1>2, FS_AddElement
        <4> QED BY <1>1, <1>2, <4>1, <4>2 DEF Numbers
      <3>2. Sum(T) = f[x] + Sum(T \ {x})
        <4> HIDE DEF T
        <4> QED BY <3>1, SumRemove
      <3> QED BY <3>1, <3>2
    <2> QED BY <1>1, <1>2, <1>3, <2>2, <2>3
  <1>7. ASSUME NEW x \in Q, NEW y \in Q, P(x) < P(y) PROVE End(b, Q, x) <= Start(b, Q, y)
    <2>1. \A z \in A(y) : f[z] \in Nat
      BY <1>1, <1>2
    <2>2. Sum(A(x) \cup {x}) <= Sum(A(y))
      BY <1>2, <1>6, <1>7, <2>1, SumGrows
    <2> QED BY <1>2, <1>6, <1>7, <2>2
  <1>8. ASSUME NEW x \in Q, NEW y \in Q, P(y) = P(x) + 1 PROVE Start(b, Q, y) = End(b, Q, x)
    <2>1. P(x) < P(y) /\ Cardinality(A(y)) = Cardinality(A(x)) + 1
      <3>1. Cardinality(A(x)) \in Nat /\ Cardinality(A(y)) \in Nat
        BY <1>2
      <3>2. P(x) = Cardinality(A(x)) + 1 /\ P(y) = Cardinality(A(y)) + 1
        BY DEF Place
      <3> HIDE DEF A, P
      <3> QED BY <1>8, <3>1, <3>2
    <2>2. Cardinality(A(x) \cup {x}) = Cardinality(A(y))
      <3>1. IsFiniteSet(A(x)) /\ x \notin A(x)
        BY <1>2
      <3> HIDE DEF A
      <3> QED BY <2>1, <3>1, FS_AddElement
    <2>3. A(x) \cup {x} = A(y)
      <3>1. A(x) \cup {x} \in SUBSET A(y)
        BY <1>6, <2>1
      <3>2. IsFiniteSet(A(y))
        BY <1>2
      <3> HIDE DEF A
      <3> QED BY <2>2, <3>1, <3>2, FS_Subset
    <2> QED BY <1>2, <1>6, <2>1, <2>3
  <1> QED BY <1>4, <1>5, <1>7, <1>8

LEMMA SidesApart ==
  ASSUME NEW b \in Balances
  PROVE  /\ Debtors(b) \in SUBSET Member /\ Creditors(b) \in SUBSET Member
         /\ Debtors(b) \cap Creditors(b) = {}
         /\ \A m \in Debtors(b) : b[m] \in Int /\ Size(b, m) = -b[m] /\ Size(b, m) \in Nat \ {0}
         /\ \A m \in Creditors(b) : b[m] \in Int /\ Size(b, m) = b[m] /\ Size(b, m) \in Nat \ {0}
         /\ \A m \in Member : m \notin Debtors(b) \cup Creditors(b) => b[m] = 0
  BY DEF Debtors, Creditors, Size, Balances

-----------------------------------------------------------------------------
(* The invariant of the loop.                                              *)

InDebt  == Debtors(balances)
InCredit == Creditors(balances)

\* The line of Q, paid up to its i-th member, where the balances were b.
PaidUpTo(b, line, i, Q) ==
  /\ line \in Seq(Part(Q)) /\ Len(line) = Cardinality(Q)
  /\ i \in 1 .. Len(line) + 1
  /\ \A n \in 1 .. Len(line) :
       /\ Place(b, Q, line[n].pubkey) = n
       /\ n < i => line[n].amount = 0
       /\ n = i => line[n].amount > 0
       /\ n > i => line[n].amount = Size(b, line[n].pubkey)

\* How far both lines are paid: up to where the later of the two members at the
\* front begins.
Reached(f, t) ==
  LET x == Start(balances, InDebt, f)
      y == Start(balances, InCredit, t)
  IN  IF x < y THEN y ELSE x

BothPaidUpTo ==
  ~Done =>
    LET f == debtors[di].pubkey
        t == creditors[ci].pubkey
    IN  /\ debtors[di].amount = End(balances, InDebt, f) - Reached(f, t)
        /\ creditors[ci].amount = End(balances, InCredit, t) - Reached(f, t)

Common(f, t) ==
  Overlap(Start(balances, InDebt, f), End(balances, InDebt, f),
          Start(balances, InCredit, t), End(balances, InCredit, t))

\* The pair has had its turn.
Past(f, t) == Place(balances, InDebt, f) < di \/ Place(balances, InCredit, t) < ci

Payment(D, C) == [from : D, to : C, amount : Nat \ {0}]

PaidSoFar ==
  /\ settlements \in Seq(Payment(InDebt, InCredit))
  /\ \A k \in DOMAIN settlements :
       /\ Past(settlements[k].from, settlements[k].to)
       /\ settlements[k].amount = Common(settlements[k].from, settlements[k].to)
  /\ \A k, l \in DOMAIN settlements :
       settlements[k].from = settlements[l].from /\ settlements[k].to = settlements[l].to => k = l
  /\ \A f \in InDebt, t \in InCredit : Past(f, t) /\ Common(f, t) > 0 =>
       \E k \in DOMAIN settlements : settlements[k].from = f /\ settlements[k].to = t

\* What is left of a member's balance is what its line still has.
WhatIsLeft ==
  /\ \A n \in DOMAIN debtors :
       balances[debtors[n].pubkey] + Entered(debtors[n].pubkey) = -debtors[n].amount
  /\ \A n \in DOMAIN creditors :
       balances[creditors[n].pubkey] + Entered(creditors[n].pubkey) = creditors[n].amount

\* With each payment one line advances, with the last one both.
FewPayments ==
  /\ Len(settlements) <= di + ci - 2
  /\ settlements # <<>> /\ di > Len(debtors) /\ ci > Len(creditors) =>
       Len(settlements) < di + ci - 2

LoopCore ==
  /\ balances \in Balances /\ SumFunction(balances) = 0
  /\ PaidUpTo(balances, debtors, di, InDebt)
  /\ PaidUpTo(balances, creditors, ci, InCredit)
  /\ BothPaidUpTo /\ PaidSoFar /\ WhatIsLeft

LoopInv == LoopCore /\ FewPayments

\* The page shows the balances of entries it has read.
PageInv ==
  /\ Accounted(entries, 1 .. Cardinality(entries))
  /\ shown \subseteq entries
  /\ balances = computeBalances(shown)

AccountsInv == PageInv /\ LoopInv

-----------------------------------------------------------------------------
(* The loop keeps its invariant.                                           *)

LEMMA LineStarts ==
  ASSUME NEW b \in Balances, NEW Q \in SUBSET Member, \A q \in Q : Size(b, q) > 0
  PROVE  PaidUpTo(b, Line(b, Q), 1, Q)
  <1> DEFINE line == Line(b, Q)
  <1>1. /\ line \in Seq(Part(Q)) /\ Len(line) = Cardinality(Q)
        /\ Cardinality(Q) \in Nat
    BY LineOf, Placed
  <1>2. ASSUME NEW n \in 1 .. Len(line)
        PROVE  /\ Place(b, Q, line[n].pubkey) = n
               /\ line[n].amount = Size(b, line[n].pubkey)
               /\ line[n].pubkey \in Q
    <2>1. line[n].pubkey \in Q
      <3>1. line[n] \in Part(Q)
        <4> HIDE DEF line
        <4> QED BY <1>1, ElementOfSeq
      <3> QED BY <3>1 DEF Part
    <2> QED BY <1>1, <2>1, LineOf
  <1> HIDE DEF line
  <1> QED BY <1>1, <1>2 DEF PaidUpTo, line

\* What the line says of the members on it.
LEMMA LineFields ==
  ASSUME NEW b \in Balances, NEW Q \in SUBSET Member, NEW line, NEW i, PaidUpTo(b, line, i, Q)
  PROVE  /\ Len(line) \in Nat /\ i \in Nat \ {0} /\ DOMAIN line = 1 .. Len(line)
         /\ Len(line) = Cardinality(Q)
         /\ \A n \in 1 .. Len(line) : /\ line[n].pubkey \in Q /\ line[n].amount \in Nat
                                      /\ line[n] = [pubkey |-> line[n].pubkey,
                                                    amount |-> line[n].amount]
                                      /\ Place(b, Q, line[n].pubkey) = n
         /\ \A q \in Q : /\ Place(b, Q, q) \in 1 .. Len(line)
                         /\ line[Place(b, Q, q)].pubkey = q
  <1>1. /\ line \in Seq(Part(Q)) /\ Len(line) = Cardinality(Q)
        /\ i \in 1 .. Len(line) + 1
    BY DEF PaidUpTo
  <1>2. /\ Len(line) \in Nat /\ i \in Nat \ {0} /\ DOMAIN line = 1 .. Len(line)
        /\ \A n \in 1 .. Len(line) : line[n] \in Part(Q)
    <2>1. Len(line) \in Nat /\ DOMAIN line = 1 .. Len(line)
      BY <1>1
    <2>2. i \in Nat \ {0}
      BY <1>1, <2>1
    <2>3. \A n \in 1 .. Len(line) : line[n] \in Part(Q)
      BY <1>1, ElementOfSeq
    <2> QED BY <2>1, <2>2, <2>3
  <1>3. \A n \in 1 .. Len(line) : Place(b, Q, line[n].pubkey) = n
    BY DEF PaidUpTo
  <1>4. ASSUME NEW q \in Q
        PROVE  Place(b, Q, q) \in 1 .. Len(line) /\ line[Place(b, Q, q)].pubkey = q
    <2> DEFINE n == Place(b, Q, q)
    <2>1. n \in 1 .. Len(line)
      BY <1>1, Placed
    <2>2. Place(b, Q, line[n].pubkey) = n /\ line[n].pubkey \in Q
      BY <1>2, <1>3, <2>1 DEF Part
    <2>3. \A x, y \in Q : Place(b, Q, x) = Place(b, Q, y) => x = y
      BY Placed
    <2>4. line[n].pubkey = q
      <3> DEFINE x == line[n].pubkey
      <3>1. x \in Q /\ Place(b, Q, x) = Place(b, Q, q)
        BY <2>2
      <3> HIDE DEF x, n
      <3>2. x = q
        BY <2>3, <3>1
      <3> QED BY <3>2 DEF x
    <2> QED BY <2>1, <2>4
  <1> QED BY <1>1, <1>2, <1>3, <1>4 DEF Part

LEMMA LinePlaces ==
  ASSUME NEW b \in Balances, NEW Q \in SUBSET Member, NEW line, NEW i, PaidUpTo(b, line, i, Q)
  PROVE  /\ DOMAIN line = 1 .. Len(line)
         /\ \A n \in 1 .. Len(line) : line[n].pubkey \in Q /\ Place(b, Q, line[n].pubkey) = n
         /\ \A q \in Q : Place(b, Q, q) \in 1 .. Len(line) /\ line[Place(b, Q, q)].pubkey = q
  <1>1. DOMAIN line = 1 .. Len(line)
    BY LineFields
  <1>2. \A n \in 1 .. Len(line) : line[n].pubkey \in Q /\ Place(b, Q, line[n].pubkey) = n
    <2>1. \A n \in 1 .. Len(line) : line[n].pubkey \in Q
      BY LineFields
    <2>2. \A n \in 1 .. Len(line) : Place(b, Q, line[n].pubkey) = n
      BY DEF PaidUpTo
    <2> QED BY <2>1, <2>2
  <1>3. \A q \in Q : Place(b, Q, q) \in 1 .. Len(line) /\ line[Place(b, Q, q)].pubkey = q
    BY LineFields
  <1> QED BY <1>1, <1>2, <1>3

\* Paying a part of what the member at the front has left.
Lowered(line, i, a) == [line EXCEPT ![i].amount = @ - a]

\* A payment of a by the i-th member of the line leads to line l, paid up to its
\* j-th member.
Advances(b, Q, line, i, a, l, j) ==
  /\ PaidUpTo(b, l, j, Q)
  /\ j = IF line[i].amount = a THEN i + 1 ELSE i
  /\ Len(l) = Len(line)
  /\ \A n \in 1 .. Len(line) :
       /\ l[n].pubkey = line[n].pubkey
       /\ l[n].amount = IF n = i THEN line[n].amount - a ELSE line[n].amount

LEMMA LineAdvances ==
  ASSUME NEW b \in Balances, NEW Q \in SUBSET Member, \A q \in Q : Size(b, q) > 0,
         NEW line, NEW i, PaidUpTo(b, line, i, Q), i <= Len(line), NEW a \in 1 .. line[i].amount,
         NEW l, l = Lowered(line, i, a), NEW j, j = Advanced(l, i)
  PROVE  Advances(b, Q, line, i, a, l, j)
  <1> DEFINE T == Part(Q)
  <1>1. /\ line \in Seq(T) /\ i \in 1 .. Len(line) /\ Len(line) = Cardinality(Q)
        /\ Len(line) \in Nat
    BY DEF PaidUpTo
  <1>2. \A n \in 1 .. Len(line) : line[n] \in [pubkey : Q, amount : Nat]
    <2>1. \A n \in 1 .. Len(line) : line[n] \in T
      BY <1>1, ElementOfSeq
    <2> QED BY <2>1 DEF Part
  <1>3. \A n \in 1 .. Len(line) :
          l[n] = IF n = i THEN [pubkey |-> line[n].pubkey, amount |-> line[n].amount - a]
                 ELSE line[n]
    <2>1. \A n \in 1 .. Len(line) :
            l[n] = IF n = i THEN [line[n] EXCEPT !.amount = @ - a] ELSE line[n]
      BY <1>1 DEF Lowered
    <2>2. [line[i] EXCEPT !.amount = @ - a] = [pubkey |-> line[i].pubkey, amount |-> line[i].amount - a]
      BY <1>1, <1>2
    <2> QED BY <2>1, <2>2
  <1>4. ASSUME NEW n \in 1 .. Len(line) PROVE l[n] \in T
    <2> DEFINE p == line[n].pubkey
               x == line[n].amount
    <2>1. p \in Q /\ x \in Nat /\ line[n] = [pubkey |-> p, amount |-> x] /\ (n = i => x - a \in Nat)
      BY <1>1, <1>2
    <2>2. l[n] = IF n = i THEN [pubkey |-> p, amount |-> x - a] ELSE line[n]
      BY <1>3
    <2> HIDE DEF p, x
    <2> QED BY <2>1, <2>2 DEF Part
  <1>5. l \in Seq(T) /\ Len(l) = Len(line)
    <2>1. l \in [1 .. Len(line) -> T]
      <3>1. DOMAIN l = DOMAIN line /\ l = [n \in DOMAIN line |-> l[n]]
        BY DEF Lowered
      <3>2. DOMAIN line = 1 .. Len(line)
        BY <1>1
      <3> HIDE DEF T
      <3> QED BY <1>4, <3>1, <3>2
    <2> HIDE DEF T
    <2> QED BY <1>1, <2>1
  <1>6. \A n \in 1 .. Len(line) :
          /\ l[n].pubkey = line[n].pubkey
          /\ l[n].amount = IF n = i THEN line[n].amount - a ELSE line[n].amount
    <2> TAKE n \in 1 .. Len(line)
    <2> DEFINE p == line[n].pubkey
               x == line[n].amount
    <2>1. l[n] = IF n = i THEN [pubkey |-> p, amount |-> x - a] ELSE line[n]
      BY <1>3
    <2>2. CASE n = i
      BY <2>1, <2>2
    <2>3. CASE n # i
      BY <2>1, <2>3
    <2> QED BY <2>2, <2>3
  <1>7. j = IF line[i].amount = a THEN i + 1 ELSE i
    <2>1. l[i].amount = line[i].amount - a /\ line[i].amount \in Nat
      BY <1>1, <1>2, <1>6
    <2> QED BY <2>1 DEF Advanced
  <1>8. ASSUME NEW n \in 1 .. Len(line)
        PROVE  /\ Place(b, Q, l[n].pubkey) = n
               /\ n < j => l[n].amount = 0
               /\ n = j => l[n].amount > 0
               /\ n > j => l[n].amount = Size(b, l[n].pubkey)
    <2>1. /\ Place(b, Q, line[n].pubkey) = n
          /\ n < i => line[n].amount = 0
          /\ n = i => line[n].amount > 0
          /\ n > i => line[n].amount = Size(b, line[n].pubkey)
      BY DEF PaidUpTo
    <2>2. Size(b, line[n].pubkey) > 0 /\ line[n].amount \in Nat
      BY <1>2
    <2>3. /\ l[n].pubkey = line[n].pubkey
          /\ l[n].amount = IF n = i THEN line[n].amount - a ELSE line[n].amount
      BY <1>6
    <2> QED BY <1>1, <1>7, <2>1, <2>2, <2>3
  <1>9. PaidUpTo(b, l, j, Q)
    <2>1. j \in 1 .. Len(l) + 1
      <3> QED BY <1>1, <1>5, <1>7
    <2> QED BY <1>1, <1>5, <1>8, <2>1 DEF PaidUpTo
  <1> QED BY <1>5, <1>6, <1>7, <1>9 DEF Advances

-----------------------------------------------------------------------------
(* What the payments are to the members.                                   *)

\* What a member gets or gives with each of the payments p.
Effect(p, m) == [i \in DOMAIN p |-> Credit(Settlement(p[i].from, p[i].to, p[i].amount), m)]

LEMMA EnteredIs ==
  ASSUME NEW m
  PROVE  Entered(m) = SumFunctionOnSet(Effect(settlements, m), DOMAIN settlements)
  BY DEF Entered, Effect, SumFunction

LEMMA PaymentCredit ==
  ASSUME NEW f, NEW t, f # t, NEW a \in Int, NEW m
  PROVE  Credit(Settlement(f, t, a), m) = IF m = f THEN a ELSE IF m = t THEN -a ELSE 0
  <1>1. /\ Settlement(f, t, a).payer = f /\ Settlement(f, t, a).amount = a
        /\ DOMAIN Settlement(f, t, a).splits = {t}
        /\ m = t => Settlement(f, t, a).splits[m] = a
    BY DEF Settlement
  <1> QED BY <1>1 DEF Credit

LEMMA PaymentFields ==
  ASSUME NEW D, NEW C, NEW p \in Seq(Payment(D, C))
  PROVE  /\ Len(p) \in Nat /\ DOMAIN p = 1 .. Len(p) /\ IsFiniteSet(DOMAIN p)
         /\ \A i \in DOMAIN p : /\ p[i].from \in D /\ p[i].to \in C /\ p[i].amount \in Nat \ {0}
                                /\ p[i] = [from |-> p[i].from, to |-> p[i].to,
                                           amount |-> p[i].amount]
  <1>1. Len(p) \in Nat /\ DOMAIN p = 1 .. Len(p)
    OBVIOUS
  <1>2. IsFiniteSet(DOMAIN p)
    BY <1>1, FS_Interval
  <1>3. \A i \in 1 .. Len(p) : p[i] \in Payment(D, C)
    BY ElementOfSeq
  <1> QED BY <1>1, <1>2, <1>3 DEF Payment

LEMMA EffectTyped ==
  ASSUME NEW D, NEW C, D \cap C = {}, NEW p \in Seq(Payment(D, C)), NEW m
  PROVE  /\ \A i \in DOMAIN p :
              Effect(p, m)[i] = IF m = p[i].from THEN p[i].amount
                                ELSE IF m = p[i].to THEN -p[i].amount ELSE 0
         /\ Numbers(Effect(p, m), DOMAIN p)
  <1>1. ASSUME NEW i \in DOMAIN p
        PROVE  /\ Effect(p, m)[i] = IF m = p[i].from THEN p[i].amount
                                    ELSE IF m = p[i].to THEN -p[i].amount ELSE 0
               /\ Effect(p, m)[i] \in Int
    <2> DEFINE f == p[i].from
               t == p[i].to
               a == p[i].amount
    <2>1. f \in D /\ t \in C /\ a \in Nat \ {0}
      BY PaymentFields
    <2>2. Effect(p, m)[i] = Credit(Settlement(f, t, a), m)
      BY DEF Effect
    <2> HIDE DEF f, t, a
    <2>3. Credit(Settlement(f, t, a), m) = IF m = f THEN a ELSE IF m = t THEN -a ELSE 0
      BY <2>1, PaymentCredit
    <2>4. Effect(p, m)[i] \in Int
      BY <2>1, <2>2, <2>3
    <2>5. Effect(p, m)[i] = IF m = f THEN a ELSE IF m = t THEN -a ELSE 0
      BY <2>2, <2>3
    <2> QED BY <2>4, <2>5 DEF f, t, a
  <1> QED BY <1>1 DEF Numbers

\* One more payment.
LEMMA EffectAppended ==
  ASSUME NEW D, NEW C, D \cap C = {}, NEW p \in Seq(Payment(D, C)),
         NEW f \in D, NEW t \in C, NEW a \in Nat \ {0}, NEW m
  PROVE  LET q == Append(p, [from |-> f, to |-> t, amount |-> a])
         IN  /\ q \in Seq(Payment(D, C)) /\ Len(q) = Len(p) + 1
             /\ \A i \in DOMAIN p : q[i] = p[i]
             /\ q[Len(p) + 1] = [from |-> f, to |-> t, amount |-> a]
             /\ SumFunctionOnSet(Effect(q, m), DOMAIN q)
                  = SumFunctionOnSet(Effect(p, m), DOMAIN p)
                      + (IF m = f THEN a ELSE IF m = t THEN -a ELSE 0)
  <1> DEFINE s == [from |-> f, to |-> t, amount |-> a]
             q == Append(p, s)
             n == Len(p) + 1
             g == Effect(q, m)
             h == Effect(p, m)
  <1>1. s \in Payment(D, C)
    BY DEF Payment
  <1>2. Len(p) \in Nat /\ DOMAIN p = 1 .. Len(p)
    BY PaymentFields
  <1>3. q \in Seq(Payment(D, C)) /\ Len(q) = n /\ q[n] = s /\ \A i \in 1 .. Len(p) : q[i] = p[i]
    <2> HIDE DEF s
    <2> QED BY <1>1, <1>2
  <1> HIDE DEF q
  <1>4. DOMAIN q = 1 .. n /\ DOMAIN q \ {n} = DOMAIN p /\ n \in DOMAIN q
    <2>1. DOMAIN q = 1 .. n
      BY <1>3, PaymentFields
    <2> QED BY <1>2, <2>1
  <1>5. /\ g[n] = IF m = f THEN a ELSE IF m = t THEN -a ELSE 0
        /\ Numbers(g, DOMAIN q) /\ IsFiniteSet(DOMAIN q)
        /\ Numbers(h, DOMAIN p) /\ IsFiniteSet(DOMAIN p)
    <2>1. /\ g[n] = IF m = q[n].from THEN q[n].amount
                    ELSE IF m = q[n].to THEN -q[n].amount ELSE 0
          /\ Numbers(g, DOMAIN q)
      BY <1>3, <1>4, EffectTyped
    <2>2. Numbers(h, DOMAIN p)
      BY EffectTyped
    <2>3. IsFiniteSet(DOMAIN q) /\ IsFiniteSet(DOMAIN p)
      BY <1>3, PaymentFields
    <2>4. q[n].from = f /\ q[n].to = t /\ q[n].amount = a
      BY <1>3
    <2> HIDE DEF g, h, n
    <2> QED BY <2>1, <2>2, <2>3, <2>4
  <1>6. \A i \in DOMAIN p : h[i] = g[i]
    BY <1>2, <1>3, <1>4 DEF Effect
  <1> HIDE DEF g, h, n
  <1>7. SumFunctionOnSet(g, DOMAIN q) = g[n] + SumFunctionOnSet(g, DOMAIN p)
    BY <1>4, <1>5, SumRemove
  <1>8. SumFunctionOnSet(g, DOMAIN p) = SumFunctionOnSet(h, DOMAIN p)
    BY <1>5, <1>6, SumEqual
  <1>9. SumFunctionOnSet(h, DOMAIN p) \in Int /\ g[n] \in Int
    BY <1>4, <1>5, SumStep DEF Numbers
  <1>10. SumFunctionOnSet(g, DOMAIN q)
           = SumFunctionOnSet(h, DOMAIN p) + (IF m = f THEN a ELSE IF m = t THEN -a ELSE 0)
    BY <1>5, <1>7, <1>8, <1>9
  <1> QED BY <1>2, <1>3, <1>10 DEF q, g, h, n

-----------------------------------------------------------------------------
(* The loop, from its beginning to its end.                                *)

LEMMA SidesOfBalances ==
  ASSUME balances \in Balances
  PROVE  /\ InDebt \in SUBSET Member /\ InCredit \in SUBSET Member
         /\ InDebt \cap InCredit = {}
         /\ \A m \in InDebt : /\ balances[m] \in Int /\ Size(balances, m) = -balances[m]
                              /\ Size(balances, m) \in Nat \ {0}
         /\ \A m \in InCredit : /\ balances[m] \in Int /\ Size(balances, m) = balances[m]
                                /\ Size(balances, m) \in Nat \ {0}
         /\ \A m \in Member : m \notin InDebt \cup InCredit => balances[m] = 0
  BY SidesApart DEF InDebt, InCredit

LoopBegins ==
  /\ balances \in Balances /\ SumFunction(balances) = 0
  /\ debtors = Line(balances, InDebt) /\ creditors = Line(balances, InCredit)
  /\ di = 1 /\ ci = 1 /\ settlements = <<>>

LEMMA LoopStarts == LoopBegins => LoopInv
  <1> SUFFICES ASSUME LoopBegins PROVE LoopInv
    OBVIOUS
  <1> DEFINE D == InDebt
             C == InCredit
             b == balances
  <1>1. /\ b \in Balances /\ D \in SUBSET Member /\ C \in SUBSET Member
        /\ \A m \in D : Size(b, m) > 0 /\ Size(b, m) = -b[m]
        /\ \A m \in C : Size(b, m) > 0 /\ Size(b, m) = b[m]
    BY SidesOfBalances DEF LoopBegins
  <1>2. /\ PaidUpTo(b, debtors, di, D) /\ PaidUpTo(b, creditors, ci, C)
    BY <1>1, LineStarts DEF LoopBegins
  <1>3. /\ \A n \in DOMAIN debtors : /\ debtors[n].pubkey \in D
                                     /\ Place(b, D, debtors[n].pubkey) = n
                                     /\ debtors[n].amount = Size(b, debtors[n].pubkey)
        /\ \A n \in DOMAIN creditors : /\ creditors[n].pubkey \in C
                                       /\ Place(b, C, creditors[n].pubkey) = n
                                       /\ creditors[n].amount = Size(b, creditors[n].pubkey)
    <2>1. /\ \A n \in 1 .. Len(debtors) : debtors[n].amount = Size(b, debtors[n].pubkey)
          /\ \A n \in 1 .. Len(creditors) : creditors[n].amount = Size(b, creditors[n].pubkey)
      BY <1>1, LineOf DEF LoopBegins
    <2>2. /\ DOMAIN debtors = 1 .. Len(debtors)
          /\ \A n \in 1 .. Len(debtors) : /\ debtors[n].pubkey \in D
                                          /\ Place(b, D, debtors[n].pubkey) = n
      <3> HIDE DEF b, D
      <3> QED BY <1>1, <1>2, LinePlaces
    <2>3. /\ DOMAIN creditors = 1 .. Len(creditors)
          /\ \A n \in 1 .. Len(creditors) : /\ creditors[n].pubkey \in C
                                            /\ Place(b, C, creditors[n].pubkey) = n
      <3> HIDE DEF b, C
      <3> QED BY <1>1, <1>2, LinePlaces
    <2> HIDE DEF b, C, D
    <2> QED BY <2>1, <2>2, <2>3
  <1>4. BothPaidUpTo
    <2> SUFFICES ASSUME ~Done
                 PROVE  LET f == debtors[di].pubkey
                            t == creditors[ci].pubkey
                        IN  /\ debtors[di].amount = End(b, D, f) - Reached(f, t)
                            /\ creditors[ci].amount = End(b, C, t) - Reached(f, t)
      BY DEF BothPaidUpTo
    <2> DEFINE f == debtors[1].pubkey
               t == creditors[1].pubkey
    <2>1. 1 \in DOMAIN debtors /\ 1 \in DOMAIN creditors
      <3>1. /\ Len(debtors) \in Nat /\ Len(creditors) \in Nat
            /\ DOMAIN debtors = 1 .. Len(debtors) /\ DOMAIN creditors = 1 .. Len(creditors)
        BY <1>1, <1>2, LineFields
      <3> QED BY <3>1 DEF Done, LoopBegins
    <2>2. f \in D /\ t \in C /\ Place(b, D, f) = 1 /\ Place(b, C, t) = 1
      BY <1>3, <2>1
    <2> HIDE DEF f, t
    <2>3. Start(b, D, f) = 0 /\ Start(b, C, t) = 0
      BY <1>1, <2>2, Stretches
    <2>4. Reached(f, t) = 0
      BY <2>3 DEF Reached
    <2>5. /\ End(b, D, f) = Size(b, f) /\ Size(b, f) \in Nat
          /\ End(b, C, t) = Size(b, t) /\ Size(b, t) \in Nat
      <3> HIDE DEF b, C, D
      <3>1. End(b, D, f) = 0 + Size(b, f) /\ End(b, C, t) = 0 + Size(b, t)
        BY <1>1, <2>2, <2>3, Stretches
      <3>2. f \in Member /\ t \in Member
        BY <1>1, <2>2
      <3>3. Size(b, f) \in Nat /\ Size(b, t) \in Nat
        BY <1>1, <3>2, SizeTyped
      <3> QED BY <3>1, <3>3
    <2>6. debtors[1].amount = Size(b, f) /\ creditors[1].amount = Size(b, t)
      BY <1>3, <2>1 DEF f, t
    <2>7. /\ debtors[1].amount = End(b, D, f) - Reached(f, t)
          /\ creditors[1].amount = End(b, C, t) - Reached(f, t)
      BY <2>4, <2>5, <2>6
    <2> QED BY <2>7 DEF LoopBegins, f, t
  <1>5. PaidSoFar
    <2>1. settlements \in Seq(Payment(D, C)) /\ DOMAIN settlements = {}
      BY DEF LoopBegins
    <2>2. \A f \in D, t \in C : ~Past(f, t)
      <3> SUFFICES ASSUME NEW f \in D, NEW t \in C, Past(f, t) PROVE FALSE
        OBVIOUS
      <3>1. /\ Place(b, D, f) \in 1 .. Cardinality(D) /\ Cardinality(D) \in Nat
            /\ Place(b, C, t) \in 1 .. Cardinality(C) /\ Cardinality(C) \in Nat
        BY <1>1, Placed
      <3> QED BY <3>1 DEF Past, LoopBegins
    <2> QED BY <2>1, <2>2 DEF PaidSoFar
  <1>6. WhatIsLeft
    <2>1. \A m \in Member : Entered(m) = 0
      <3> TAKE m \in Member
      <3>1. DOMAIN settlements = {} /\ Numbers(Effect(settlements, m), {})
        BY DEF LoopBegins, Numbers
      <3>2. SumFunctionOnSet(Effect(settlements, m), {}) = 0
        BY <3>1, FS_EmptySet, SumStep
      <3> QED BY <3>1, <3>2, EnteredIs
    <2>2. ASSUME NEW n \in DOMAIN debtors
          PROVE  b[debtors[n].pubkey] + Entered(debtors[n].pubkey) = -debtors[n].amount
      <3> DEFINE m == debtors[n].pubkey
      <3>1. m \in D /\ debtors[n].amount = Size(b, m)
        BY <1>3
      <3> HIDE DEF m
      <3>2. Entered(m) = 0 /\ Size(b, m) = -b[m] /\ b[m] \in Int
        BY <1>1, <2>1, <3>1 DEF Balances
      <3>3. b[m] + Entered(m) = -debtors[n].amount
        BY <3>1, <3>2
      <3> QED BY <3>3 DEF m
    <2>3. ASSUME NEW n \in DOMAIN creditors
          PROVE  b[creditors[n].pubkey] + Entered(creditors[n].pubkey) = creditors[n].amount
      <3> DEFINE m == creditors[n].pubkey
      <3>1. m \in C /\ creditors[n].amount = Size(b, m)
        BY <1>3
      <3> HIDE DEF m
      <3>2. Entered(m) = 0 /\ Size(b, m) = b[m] /\ b[m] \in Int
        BY <1>1, <2>1, <3>1 DEF Balances
      <3>3. b[m] + Entered(m) = creditors[n].amount
        BY <3>1, <3>2
      <3> QED BY <3>3 DEF m
    <2> QED BY <2>2, <2>3 DEF WhatIsLeft
  <1>7. FewPayments
    BY DEF FewPayments, LoopBegins
  <1> QED BY <1>2, <1>4, <1>5, <1>6, <1>7 DEF LoopBegins, LoopCore, LoopInv

\* What is left of the balances cancels at every time, so when one line is paid
\* up, there is nothing left on the other.
LEMMA LoopEnds ==
  LoopCore /\ Done => /\ di = Len(debtors) + 1 /\ ci = Len(creditors) + 1
                      /\ \A m \in Member : balances[m] + Entered(m) = 0
  <1> SUFFICES ASSUME LoopCore, Done
               PROVE  /\ di = Len(debtors) + 1 /\ ci = Len(creditors) + 1
                      /\ \A m \in Member : balances[m] + Entered(m) = 0
    OBVIOUS
  <1> DEFINE D == InDebt
             C == InCredit
             b == balances
             e == [m \in Member |-> Entered(m)]
             left == [m \in Member |-> b[m] + Entered(m)]
             owed == [m \in Member |-> -left[m]]
             Sum(f) == SumFunctionOnSet(f, Member)
  <1>1. /\ b \in Balances /\ D \in SUBSET Member /\ C \in SUBSET Member /\ D \cap C = {}
        /\ PaidUpTo(b, debtors, di, D) /\ PaidUpTo(b, creditors, ci, C)
        /\ settlements \in Seq(Payment(D, C)) /\ IsFiniteSet(Member)
    BY SidesOfBalances, LedgerAssumption DEF LoopCore, PaidSoFar
  <1>2. Numbers(e, Member) /\ Sum(e) = 0
    <2> DEFINE S == DOMAIN settlements
               x(i) == Settlement(settlements[i].from, settlements[i].to, settlements[i].amount)
               a == [i \in S |-> Credits(x(i))]
    <2>1. IsFiniteSet(S)
      BY <1>1, PaymentFields
    <2>2. \A i \in S : x(i) \in BalancedExpense
      <3> TAKE i \in S
      <3>1. /\ settlements[i].from \in Member /\ settlements[i].to \in Member
            /\ settlements[i].amount \in Int
        BY <1>1, PaymentFields
      <3> QED BY <3>1, SettlementBalanced
    <2>3. \A i \in S : Numbers(a[i], Member) /\ SumFunctionOnSet(a[i], Member) = 0
      <3> HIDE DEF x
      <3> QED BY <2>2, CreditsCancel
    <2>4. \A m \in Member : Column(a, S, m) = Effect(settlements, m)
      BY DEF Column, Credits, Effect
    <2>5. \A m \in Member : e[m] = SumFunctionOnSet(Column(a, S, m), S)
      BY <2>4, EnteredIs
    <2>6. Numbers(e, Member)
      <3>1. \A m \in Member : SumFunctionOnSet(Effect(settlements, m), S) \in Int
        BY <1>1, <2>1, EffectTyped, SumStep
      <3> QED BY <3>1, EnteredIs DEF Numbers
    <2>7. Sum(e) = 0
      <3> HIDE DEF e, a, S
      <3> QED BY <1>1, <2>1, <2>3, <2>5, RowsCancel
    <2> QED BY <2>6, <2>7
  <1>3. Numbers(b, Member) /\ Sum(b) = 0
    <2>1. DOMAIN b = Member /\ Numbers(b, Member)
      BY <1>1 DEF Balances, Numbers
    <2> QED BY <2>1 DEF SumFunction, LoopCore
  <1>4. Numbers(left, Member) /\ Sum(left) = 0 /\ Numbers(owed, Member) /\ Sum(owed) = 0
    <2>1. \A m \in Member : left[m] = b[m] + e[m]
      OBVIOUS
    <2>2. Numbers(left, Member)
      BY <1>2, <1>3 DEF Numbers
    <2>3. \A m \in Member : owed[m] = -left[m]
      OBVIOUS
    <2> HIDE DEF left, owed, e
    <2>4. Sum(left) = 0
      BY <1>1, <1>2, <1>3, <2>1, SumAdded
    <2>5. Sum(owed) = 0
      BY <1>1, <2>2, <2>3, <2>4, SumNegated
    <2> QED BY <2>2, <2>3, <2>4, <2>5 DEF Numbers
  <1>5. /\ \A m \in D : /\ Place(b, D, m) \in 1 .. Len(debtors)
                        /\ debtors[Place(b, D, m)].amount \in Nat
                        /\ left[m] = -debtors[Place(b, D, m)].amount
        /\ \A m \in C : /\ Place(b, C, m) \in 1 .. Len(creditors)
                        /\ creditors[Place(b, C, m)].amount \in Nat
                        /\ left[m] = creditors[Place(b, C, m)].amount
    <2>1. ASSUME NEW m \in D
          PROVE  /\ Place(b, D, m) \in 1 .. Len(debtors)
                 /\ debtors[Place(b, D, m)].amount \in Nat
                 /\ left[m] = -debtors[Place(b, D, m)].amount
      <3> DEFINE n == Place(b, D, m)
      <3>1. n \in 1 .. Len(debtors) /\ debtors[n].pubkey = m
        <4>1. \A q \in D : Place(b, D, q) \in 1 .. Len(debtors) /\ debtors[Place(b, D, q)].pubkey = q
          <5> HIDE DEF b, D, C
          <5> QED BY <1>1, LinePlaces
        <4> QED BY <4>1
      <3>2. n \in DOMAIN debtors /\ debtors[n].amount \in Nat
        <4>1. /\ DOMAIN debtors = 1 .. Len(debtors)
              /\ \A k \in 1 .. Len(debtors) : debtors[k].amount \in Nat
          <5> HIDE DEF b, D, C
          <5> QED BY <1>1, LineFields
        <4> HIDE DEF n
        <4> QED BY <3>1, <4>1
      <3>3. b[m] + Entered(m) = -debtors[n].amount
        BY <3>1, <3>2 DEF LoopCore, WhatIsLeft
      <3> QED BY <1>1, <3>1, <3>2, <3>3
    <2>2. ASSUME NEW m \in C
          PROVE  /\ Place(b, C, m) \in 1 .. Len(creditors)
                 /\ creditors[Place(b, C, m)].amount \in Nat
                 /\ left[m] = creditors[Place(b, C, m)].amount
      <3> DEFINE n == Place(b, C, m)
      <3>1. n \in 1 .. Len(creditors) /\ creditors[n].pubkey = m
        <4>1. \A q \in C : Place(b, C, q) \in 1 .. Len(creditors) /\ creditors[Place(b, C, q)].pubkey = q
          <5> HIDE DEF b, D, C
          <5> QED BY <1>1, LinePlaces
        <4> QED BY <4>1
      <3>2. n \in DOMAIN creditors /\ creditors[n].amount \in Nat
        <4>1. /\ DOMAIN creditors = 1 .. Len(creditors)
              /\ \A k \in 1 .. Len(creditors) : creditors[k].amount \in Nat
          <5> HIDE DEF b, D, C
          <5> QED BY <1>1, LineFields
        <4> HIDE DEF n
        <4> QED BY <3>1, <4>1
      <3>3. b[m] + Entered(m) = creditors[n].amount
        BY <3>1, <3>2 DEF LoopCore, WhatIsLeft
      <3> QED BY <1>1, <3>1, <3>2, <3>3
    <2> QED BY <2>1, <2>2
  <1>6. \A m \in Member : m \notin D \cup C => left[m] = 0
    <2> SUFFICES ASSUME NEW m \in Member, m \notin D \cup C PROVE left[m] = 0
      OBVIOUS
    <2>1. b[m] = 0
      BY <1>1, SidesOfBalances
    <2>2. \A i \in DOMAIN settlements : Effect(settlements, m)[i] = 0
      BY <1>1, PaymentFields, EffectTyped
    <2>3. SumFunctionOnSet(Effect(settlements, m), DOMAIN settlements)
            = Cardinality(DOMAIN settlements) * 0
      <3>1. IsFiniteSet(DOMAIN settlements) /\ 0 \in Int
        BY <1>1, PaymentFields
      <3> QED BY <2>2, <3>1, SumOfSame
    <2>4. Cardinality(DOMAIN settlements) \in Nat
      BY <1>1, PaymentFields, FS_CardinalityType
    <2>5. Entered(m) = 0
      BY <2>3, <2>4, EnteredIs
    <2> QED BY <2>1, <2>5
  <1>7. \A m \in Member : left[m] = 0
    <2>1. CASE di > Len(debtors)
      <3>1. \A n \in 1 .. Len(debtors) : debtors[n].amount = 0
        <4>1. Len(debtors) \in Nat /\ di \in Nat
          BY <1>1, LineFields
        <4> QED BY <1>1, <2>1, <4>1 DEF PaidUpTo
      <3>2. \A m \in Member : left[m] \in Nat
        <4> HIDE DEF left
        <4> QED BY <1>5, <1>6, <3>1
      <3> HIDE DEF left
      <3> QED BY <1>1, <1>4, <3>2, SumZero
    <2>2. CASE ci > Len(creditors)
      <3>1. \A n \in 1 .. Len(creditors) : creditors[n].amount = 0
        <4>1. Len(creditors) \in Nat /\ ci \in Nat
          BY <1>1, LineFields
        <4> QED BY <1>1, <2>2, <4>1 DEF PaidUpTo
      <3>2. \A m \in Member : owed[m] = -left[m]
        OBVIOUS
      <3>3. \A m \in Member : left[m] = 0 \/ -left[m] \in Nat
        <4> HIDE DEF left
        <4> QED BY <1>5, <1>6, <3>1
      <3>4. \A m \in Member : owed[m] \in Nat /\ left[m] \in Int
        <4>1. \A m \in Member : left[m] \in Int
          BY <1>4 DEF Numbers
        <4> HIDE DEF left, owed
        <4> QED BY <3>2, <3>3, <4>1
      <3> HIDE DEF left, owed
      <3>5. \A m \in Member : owed[m] = 0
        BY <1>1, <1>4, <3>4, SumZero
      <3> QED BY <3>2, <3>4, <3>5
    <2> QED BY <2>1, <2>2 DEF Done
  <1>8. di = Len(debtors) + 1
    <2> SUFFICES ASSUME di # Len(debtors) + 1 PROVE FALSE
      OBVIOUS
    <2>1. di \in 1 .. Len(debtors) /\ debtors[di].amount > 0
      <3>1. Len(debtors) \in Nat /\ di \in 1 .. Len(debtors) + 1
        BY <1>1, LineFields DEF PaidUpTo
      <3>2. di \in 1 .. Len(debtors)
        BY <3>1
      <3> QED BY <1>1, <3>2 DEF PaidUpTo
    <2> DEFINE m == debtors[di].pubkey
    <2>2. m \in D /\ Place(b, D, m) = di
      <3>1. \A n \in 1 .. Len(debtors) : debtors[n].pubkey \in D /\ Place(b, D, debtors[n].pubkey) = n
        <4> HIDE DEF b, D, C
        <4> QED BY <1>1, LinePlaces
      <3> QED BY <2>1, <3>1
    <2>3. left[m] = -debtors[di].amount /\ debtors[di].amount \in Nat /\ left[m] = 0
      <3> HIDE DEF left, m
      <3> QED BY <1>1, <1>5, <1>7, <2>2
    <2> HIDE DEF left, m
    <2> QED BY <2>1, <2>3
  <1>9. ci = Len(creditors) + 1
    <2> SUFFICES ASSUME ci # Len(creditors) + 1 PROVE FALSE
      OBVIOUS
    <2>1. ci \in 1 .. Len(creditors) /\ creditors[ci].amount > 0
      <3>1. Len(creditors) \in Nat /\ ci \in 1 .. Len(creditors) + 1
        BY <1>1, LineFields DEF PaidUpTo
      <3>2. ci \in 1 .. Len(creditors)
        BY <3>1
      <3> QED BY <1>1, <3>2 DEF PaidUpTo
    <2> DEFINE m == creditors[ci].pubkey
    <2>2. m \in C /\ Place(b, C, m) = ci
      <3>1. \A n \in 1 .. Len(creditors) : creditors[n].pubkey \in C /\ Place(b, C, creditors[n].pubkey) = n
        <4> HIDE DEF b, D, C
        <4> QED BY <1>1, LinePlaces
      <3> QED BY <2>1, <3>1
    <2>3. left[m] = creditors[ci].amount /\ left[m] = 0
      <3> HIDE DEF left, m
      <3> QED BY <1>1, <1>5, <1>7, <2>2
    <2> HIDE DEF left, m
    <2> QED BY <2>1, <2>3
  <1> QED BY <1>7, <1>8, <1>9

-----------------------------------------------------------------------------
(* A payment.                                                              *)

\* The two members whose turn it is, and what the one pays the other.
Owing == debtors[di].pubkey
Owed  == creditors[ci].pubkey
Due == IF debtors[di].amount < creditors[ci].amount THEN debtors[di].amount
          ELSE creditors[ci].amount

LEMMA Turn ==
  ASSUME LoopCore, ~Done
  PROVE  /\ di \in 1 .. Len(debtors) /\ ci \in 1 .. Len(creditors)
         /\ Owing \in InDebt /\ Place(balances, InDebt, Owing) = di
         /\ Owed \in InCredit /\ Place(balances, InCredit, Owed) = ci
         /\ debtors[di].amount \in Nat \ {0} /\ creditors[ci].amount \in Nat \ {0}
  <1> DEFINE D == InDebt
             C == InCredit
             b == balances
  <1>1. /\ b \in Balances /\ D \in SUBSET Member /\ C \in SUBSET Member
        /\ PaidUpTo(b, debtors, di, D) /\ PaidUpTo(b, creditors, ci, C)
    BY SidesOfBalances DEF LoopCore
  <1>2. /\ Len(debtors) \in Nat /\ di \in Nat \ {0}
        /\ \A n \in 1 .. Len(debtors) : debtors[n].amount \in Nat
    <2> HIDE DEF b, D
    <2> QED BY <1>1, LineFields
  <1>3. /\ Len(creditors) \in Nat /\ ci \in Nat \ {0}
        /\ \A n \in 1 .. Len(creditors) : creditors[n].amount \in Nat
    <2> HIDE DEF b, C
    <2> QED BY <1>1, LineFields
  <1>4. di \in 1 .. Len(debtors) /\ ci \in 1 .. Len(creditors)
    BY <1>2, <1>3 DEF Done
  <1>5. Owing \in D /\ Place(b, D, Owing) = di
    <2>1. \A n \in 1 .. Len(debtors) : debtors[n].pubkey \in D /\ Place(b, D, debtors[n].pubkey) = n
      <3> HIDE DEF b, D
      <3> QED BY <1>1, LinePlaces
    <2> QED BY <1>4, <2>1 DEF Owing
  <1>6. Owed \in C /\ Place(b, C, Owed) = ci
    <2>1. \A n \in 1 .. Len(creditors) :
            creditors[n].pubkey \in C /\ Place(b, C, creditors[n].pubkey) = n
      <3> HIDE DEF b, C
      <3> QED BY <1>1, LinePlaces
    <2> QED BY <1>4, <2>1 DEF Owed
  <1>7. debtors[di].amount \in Nat /\ debtors[di].amount > 0
    BY <1>1, <1>2, <1>4 DEF PaidUpTo
  <1>8. creditors[ci].amount \in Nat /\ creditors[ci].amount > 0
    BY <1>1, <1>3, <1>4 DEF PaidUpTo
  <1> QED BY <1>4, <1>5, <1>6, <1>7, <1>8

\* It is the overlap of the two stretches.
LEMMA TurnPays ==
  ASSUME LoopCore, ~Done
  PROVE  LET f == Owing
             t == Owed
         IN  /\ Due \in 1 .. debtors[di].amount /\ Due \in 1 .. creditors[ci].amount
             /\ Due = Common(f, t)
             /\ debtors[di].amount = End(balances, InDebt, f) - Reached(f, t)
             /\ creditors[ci].amount = End(balances, InCredit, t) - Reached(f, t)
             /\ Start(balances, InDebt, f) \in Nat /\ End(balances, InDebt, f) \in Nat
             /\ Start(balances, InCredit, t) \in Nat /\ End(balances, InCredit, t) \in Nat
  <1> DEFINE f == Owing
             t == Owed
             p == Start(balances, InDebt, f)
             q == End(balances, InDebt, f)
             r == Start(balances, InCredit, t)
             s == End(balances, InCredit, t)
             x == debtors[di].amount
             y == creditors[ci].amount
  <1>1. /\ balances \in Balances /\ InDebt \in SUBSET Member /\ InCredit \in SUBSET Member
        /\ f \in InDebt /\ t \in InCredit
        /\ x \in Nat \ {0} /\ y \in Nat \ {0}
    BY SidesOfBalances, Turn DEF LoopCore
  <1>2. p \in Nat /\ q \in Nat
    <2>1. p \in Nat /\ q = p + Size(balances, f) /\ Size(balances, f) \in Nat
      <3> HIDE DEF f
      <3> QED BY <1>1, Stretches, SizeTyped
    <2> QED BY <2>1
  <1>3. r \in Nat /\ s \in Nat
    <2>1. r \in Nat /\ s = r + Size(balances, t) /\ Size(balances, t) \in Nat
      <3> HIDE DEF t
      <3> QED BY <1>1, Stretches, SizeTyped
    <2> QED BY <2>1
  <1>4. x = q - Reached(f, t) /\ y = s - Reached(f, t)
    BY DEF LoopCore, BothPaidUpTo, Owing, Owed
  <1>5. Reached(f, t) = IF p < r THEN r ELSE p
    BY DEF Reached
  <1>6. Common(f, t) = (IF q < s THEN q ELSE s) - (IF p > r THEN p ELSE r)
    BY DEF Common, Overlap
  <1>7. Due = IF x < y THEN x ELSE y
    BY DEF Due
  <1> HIDE DEF f, t, p, q, r, s, x, y
  <1>8. Due \in 1 .. x /\ Due \in 1 .. y
    BY <1>1, <1>7
  <1>9. Due = Common(f, t)
    BY <1>1, <1>2, <1>3, <1>4, <1>5, <1>6, <1>7
  <1> QED BY <1>2, <1>3, <1>4, <1>8, <1>9 DEF f, t, p, q, r, s, x, y

\* What the step does.
LEMMA PayDoes ==
  ASSUME LoopCore, pay
  PROVE  /\ ~Done
         /\ balances' = balances /\ InDebt' = InDebt /\ InCredit' = InCredit
         /\ debtors' = Lowered(debtors, di, Due) /\ di' = Advanced(debtors', di)
         /\ creditors' = Lowered(creditors, ci, Due) /\ ci' = Advanced(creditors', ci)
         /\ settlements' = Append(settlements, [from |-> Owing, to |-> Owed, amount |-> Due])
  <1>1. ~Done /\ balances' = balances
    BY DEF pay
  <1>2. InDebt' = InDebt /\ InCredit' = InCredit
    BY <1>1 DEF InDebt, InCredit
  <1>3. Due > 0
    <2>1. Due \in 1 .. debtors[di].amount /\ debtors[di].amount \in Nat
      BY <1>1, Turn, TurnPays
    <2> QED BY <2>1
  <1>4. /\ debtors' = Lowered(debtors, di, Due) /\ di' = Advanced(debtors', di)
        /\ creditors' = Lowered(creditors, ci, Due) /\ ci' = Advanced(creditors', ci)
    BY DEF pay, Lowered, Due
  <1>5. settlements' = Append(settlements, [from |-> Owing, to |-> Owed, amount |-> Due])
    BY <1>3 DEF pay, Due, Owing, Owed
  <1> QED BY <1>1, <1>2, <1>4, <1>5

LEMMA PayAdvances ==
  ASSUME LoopCore, pay
  PROVE  /\ Advances(balances, InDebt, debtors, di, Due, debtors', di')
         /\ Advances(balances, InCredit, creditors, ci, Due, creditors', ci')
  <1> DEFINE b == balances
             D == InDebt
             C == InCredit
  <1>1. /\ b \in Balances /\ D \in SUBSET Member /\ C \in SUBSET Member
        /\ \A m \in D : Size(b, m) > 0
        /\ \A m \in C : Size(b, m) > 0
        /\ PaidUpTo(b, debtors, di, D) /\ PaidUpTo(b, creditors, ci, C)
    BY SidesOfBalances DEF LoopCore
  <1>2. ~Done
    BY PayDoes
  <1>3. /\ di <= Len(debtors) /\ Due \in 1 .. debtors[di].amount
        /\ ci <= Len(creditors) /\ Due \in 1 .. creditors[ci].amount
    BY <1>2, Turn, TurnPays
  <1>4. Advances(b, D, debtors, di, Due, debtors', di')
    <2>1. debtors' = Lowered(debtors, di, Due) /\ di' = Advanced(debtors', di)
      BY PayDoes
    <2> HIDE DEF b, D
    <2> QED BY <1>1, <1>3, <2>1, LineAdvances
  <1>5. Advances(b, C, creditors, ci, Due, creditors', ci')
    <2>1. creditors' = Lowered(creditors, ci, Due) /\ ci' = Advanced(creditors', ci)
      BY PayDoes
    <2> HIDE DEF b, C
    <2> QED BY <1>1, <1>3, <2>1, LineAdvances
  <1> QED BY <1>4, <1>5

\* Where the two members' turns leave the lines.
LEMMA PayTurns ==
  ASSUME LoopCore, pay
  PROVE  /\ di \in Nat /\ ci \in Nat /\ di' \in Nat /\ ci' \in Nat
         /\ di' = (IF End(balances, InDebt, Owing) <= End(balances, InCredit, Owed)
                   THEN di + 1 ELSE di)
         /\ ci' = (IF End(balances, InCredit, Owed) <= End(balances, InDebt, Owing)
                   THEN ci + 1 ELSE ci)
  <1> DEFINE q == End(balances, InDebt, Owing)
             s == End(balances, InCredit, Owed)
             r == Reached(Owing, Owed)
             x == debtors[di].amount
             y == creditors[ci].amount
  <1>1. ~Done
    BY PayDoes
  <1>2. di \in Nat /\ ci \in Nat /\ x \in Nat \ {0} /\ y \in Nat \ {0}
    <2>1. di \in 1 .. Len(debtors) /\ ci \in 1 .. Len(creditors)
          /\ x \in Nat \ {0} /\ y \in Nat \ {0}
      BY <1>1, Turn
    <2> QED BY <2>1
  <1>3. x = q - r /\ y = s - r /\ q \in Nat /\ s \in Nat
    BY <1>1, TurnPays
  <1>4. r \in Int
    <2>1. Start(balances, InDebt, Owing) \in Nat /\ Start(balances, InCredit, Owed) \in Nat
      BY <1>1, TurnPays
    <2> QED BY <2>1 DEF Reached
  <1>5. di' = IF x = Due THEN di + 1 ELSE di
    BY PayAdvances DEF Advances
  <1>6. ci' = IF y = Due THEN ci + 1 ELSE ci
    BY PayAdvances DEF Advances
  <1>7. Due = IF x < y THEN x ELSE y
    BY DEF Due
  <1> HIDE DEF q, s, r, x, y
  <1>8. /\ x = Due <=> q <= s
        /\ y = Due <=> s <= q
    BY <1>2, <1>3, <1>4, <1>7
  <1>9. /\ di' = (IF q <= s THEN di + 1 ELSE di)
        /\ ci' = (IF s <= q THEN ci + 1 ELSE ci)
    BY <1>5, <1>6, <1>8
  <1>10. di' \in Nat /\ ci' \in Nat
    BY <1>2, <1>9
  <1> QED BY <1>2, <1>9, <1>10 DEF q, s

LEMMA PayEffect ==
  ASSUME LoopCore, pay
  PROVE  /\ settlements' \in Seq(Payment(InDebt, InCredit))
         /\ DOMAIN settlements' = DOMAIN settlements \cup {Len(settlements) + 1}
         /\ Len(settlements) + 1 \notin DOMAIN settlements
         /\ Len(settlements') = Len(settlements) + 1 /\ Len(settlements) \in Nat
         /\ \A k \in DOMAIN settlements : settlements'[k] = settlements[k]
         /\ settlements'[Len(settlements) + 1] = [from |-> Owing, to |-> Owed, amount |-> Due]
         /\ \A m : Entered(m)' = Entered(m) + (IF m = Owing THEN Due
                                               ELSE IF m = Owed THEN -Due ELSE 0)
  <1> DEFINE D == InDebt
             C == InCredit
             p == settlements
             f == Owing
             t == Owed
             a == Due
             x == [from |-> f, to |-> t, amount |-> a]
             q == Append(p, x)
  <1>1. p \in Seq(Payment(D, C)) /\ D \cap C = {}
    BY SidesOfBalances DEF LoopCore, PaidSoFar
  <1>2. ~Done /\ settlements' = q
    BY PayDoes
  <1>3. f \in D /\ t \in C /\ a \in Nat \ {0}
    <2>1. f \in D /\ t \in C /\ a \in 1 .. debtors[di].amount /\ debtors[di].amount \in Nat
      BY <1>2, Turn, TurnPays
    <2> HIDE DEF a
    <2> QED BY <2>1
  <1> HIDE DEF D, C, f, t, a
  <1>4. /\ q \in Seq(Payment(D, C)) /\ Len(q) = Len(p) + 1
        /\ \A i \in DOMAIN p : q[i] = p[i]
        /\ q[Len(p) + 1] = x
    <2>1. x \in Payment(D, C)
      BY <1>3 DEF Payment
    <2> HIDE DEF x
    <2> QED BY <1>1, <2>1
  <1>5. \A m : SumFunctionOnSet(Effect(q, m), DOMAIN q)
                 = SumFunctionOnSet(Effect(p, m), DOMAIN p)
                     + (IF m = f THEN a ELSE IF m = t THEN -a ELSE 0)
    BY <1>1, <1>3, EffectAppended
  <1>6. /\ DOMAIN p = 1 .. Len(p) /\ Len(p) \in Nat
        /\ DOMAIN q = 1 .. Len(q)
    <2>1. DOMAIN p = 1 .. Len(p) /\ Len(p) \in Nat
      BY <1>1, PaymentFields
    <2> HIDE DEF q
    <2>2. DOMAIN q = 1 .. Len(q)
      BY <1>4, PaymentFields
    <2> QED BY <2>1, <2>2
  <1>7. DOMAIN q = DOMAIN p \cup {Len(p) + 1} /\ Len(p) + 1 \notin DOMAIN p
    <2> HIDE DEF q
    <2> QED BY <1>4, <1>6
  <1>8. \A m : Entered(m)' = SumFunctionOnSet(Effect(q, m), DOMAIN q)
    <2>1. \A m : Entered(m)' = SumFunctionOnSet(Effect(settlements', m), DOMAIN settlements')
      BY DEF Entered, Effect, SumFunction
    <2> QED BY <1>2, <2>1
  <1>9. \A m : Entered(m)' = Entered(m) + (IF m = f THEN a ELSE IF m = t THEN -a ELSE 0)
    BY <1>5, <1>8, EnteredIs
  <1> HIDE DEF q
  <1> QED BY <1>2, <1>4, <1>6, <1>7, <1>9 DEF D, C, f, t, a

\* The member whose turn comes next on a line, Q, of which the front, f, was left
\* with x, at the end e of its stretch or before.
LEMMA NextOnLine ==
  ASSUME NEW b \in Balances, NEW Q \in SUBSET Member,
         NEW line, NEW i \in 1 .. Len(line), PaidUpTo(b, line, i, Q),
         NEW a, NEW l, NEW j, Advances(b, Q, line, i, a, l, j), j <= Len(l)
  PROVE  /\ l[j].pubkey \in Q
         /\ j = i => l[j].pubkey = line[i].pubkey /\ l[j].amount = line[i].amount - a
         /\ j = i + 1 => /\ Start(b, Q, l[j].pubkey) = End(b, Q, line[i].pubkey)
                         /\ l[j].amount = Size(b, l[j].pubkey)
         /\ j \in {i, i + 1}
  <1>1. j \in {i, i + 1} /\ Len(l) = Len(line) /\ PaidUpTo(b, l, j, Q)
    BY DEF Advances
  <1>2. /\ \A n \in 1 .. Len(l) : l[n].pubkey \in Q /\ Place(b, Q, l[n].pubkey) = n
        /\ \A n \in 1 .. Len(line) : line[n].pubkey \in Q /\ Place(b, Q, line[n].pubkey) = n
    BY <1>1, LinePlaces
  <1>3. Len(line) \in Nat
    BY LineFields
  <1>4. j \in 1 .. Len(l) /\ j \in 1 .. Len(line)
    BY <1>1, <1>3
  <1>5. /\ l[j].pubkey = line[j].pubkey
        /\ l[j].amount = IF j = i THEN line[j].amount - a ELSE line[j].amount
    BY <1>4 DEF Advances
  <1>6. ASSUME j = i + 1
        PROVE  /\ Start(b, Q, l[j].pubkey) = End(b, Q, line[i].pubkey)
               /\ l[j].amount = Size(b, l[j].pubkey)
    <2>1. line[j].amount = Size(b, line[j].pubkey) /\ j # i
      <3>1. j > i /\ j # i
        BY <1>6
      <3> QED BY <1>4, <3>1 DEF PaidUpTo
    <2> DEFINE x == line[i].pubkey
               y == l[j].pubkey
    <2>2. x \in Q /\ y \in Q /\ Place(b, Q, y) = Place(b, Q, x) + 1
      BY <1>2, <1>4, <1>6
    <2>3. Start(b, Q, y) = End(b, Q, x)
      <3> HIDE DEF x, y
      <3> QED BY <2>2, Stretches
    <2>4. l[j].amount = Size(b, l[j].pubkey)
      BY <1>5, <2>1
    <2> QED BY <2>3, <2>4
  <1>7. l[j].pubkey \in Q
    BY <1>2, <1>4
  <1>8. ASSUME j = i PROVE l[j].pubkey = line[i].pubkey /\ l[j].amount = line[i].amount - a
    BY <1>5, <1>8
  <1> QED BY <1>1, <1>6, <1>7, <1>8

LEMMA PayEvens ==
  ASSUME LoopCore, pay
  PROVE  BothPaidUpTo'
  <1> DEFINE b == balances
             D == InDebt
             C == InCredit
             f == Owing
             t == Owed
             p == Start(b, D, f)
             q == End(b, D, f)
             r == Start(b, C, t)
             s == End(b, C, t)
             x == debtors[di].amount
             y == creditors[ci].amount
             fn == debtors'[di'].pubkey
             tn == creditors'[ci'].pubkey
             dn == debtors'[di'].amount
             cn == creditors'[ci'].amount
             pn == Start(b, D, fn)
             rn == Start(b, C, tn)
             least == IF q <= s THEN q ELSE s
  <1>1. /\ b \in Balances /\ D \in SUBSET Member /\ C \in SUBSET Member
        /\ PaidUpTo(b, debtors, di, D) /\ PaidUpTo(b, creditors, ci, C)
    BY SidesOfBalances DEF LoopCore
  <1>2. ~Done /\ b' = b /\ D' = D /\ C' = C
    BY PayDoes
  <1>3. di \in 1 .. Len(debtors) /\ ci \in 1 .. Len(creditors)
    BY <1>2, Turn
  <1>4. /\ Advances(b, D, debtors, di, Due, debtors', di')
        /\ Advances(b, C, creditors, ci, Due, creditors', ci')
    BY PayAdvances
  <1> SUFFICES ASSUME ~Done'
               PROVE  /\ debtors'[di'].amount = End(b, D, fn) - Reached(fn, tn)
                      /\ creditors'[ci'].amount = End(b, C, tn) - Reached(fn, tn)
    <2>1. \A m, n : Reached(m, n)' = Reached(m, n)
      BY <1>2 DEF Reached
    <2>2. Reached(debtors[di].pubkey, creditors[ci].pubkey)' = Reached(fn, tn)
      BY <1>2 DEF Reached
    <2> QED BY <1>2, <2>2 DEF BothPaidUpTo
  <1>5. di' <= Len(debtors') /\ ci' <= Len(creditors')
    <2>1. Len(debtors') \in Nat /\ Len(creditors') \in Nat
      <3>1. PaidUpTo(b, debtors', di', D) /\ PaidUpTo(b, creditors', ci', C)
        BY <1>4 DEF Advances
      <3> QED BY <1>1, <3>1, LineFields
    <2>2. di' \in Nat /\ ci' \in Nat
      BY PayTurns
    <2> QED BY <2>1, <2>2 DEF Done
  <1>6. /\ fn \in D
        /\ di' = di => fn = f /\ dn = x - Due
        /\ di' = di + 1 => pn = q /\ dn = Size(b, fn)
    <2> HIDE DEF b, D
    <2> QED BY <1>1, <1>3, <1>4, <1>5, NextOnLine DEF Owing
  <1>7. /\ tn \in C
        /\ ci' = ci => tn = t /\ cn = y - Due
        /\ ci' = ci + 1 => rn = s /\ cn = Size(b, tn)
    <2> HIDE DEF b, C
    <2> QED BY <1>1, <1>3, <1>4, <1>5, NextOnLine DEF Owed
  <1>8. /\ End(b, D, fn) = pn + Size(b, fn) /\ Size(b, fn) \in Nat
        /\ End(b, C, tn) = rn + Size(b, tn) /\ Size(b, tn) \in Nat
    <2>1. fn \in Member /\ tn \in Member
      BY <1>1, <1>6, <1>7
    <2> HIDE DEF b, C, D, fn, tn
    <2> QED BY <1>1, <1>6, <1>7, <2>1, Stretches, SizeTyped
  <1>9. /\ x = q - Reached(f, t) /\ y = s - Reached(f, t)
        /\ p \in Nat /\ q \in Nat /\ r \in Nat /\ s \in Nat
        /\ x \in Nat \ {0} /\ y \in Nat \ {0}
    BY <1>2, Turn, TurnPays
  <1>10. /\ di \in Nat /\ ci \in Nat
         /\ di' = (IF q <= s THEN di + 1 ELSE di)
         /\ ci' = (IF s <= q THEN ci + 1 ELSE ci)
    BY PayTurns
  <1>11. /\ Reached(f, t) = IF p < r THEN r ELSE p
         /\ Reached(fn, tn) = IF pn < rn THEN rn ELSE pn
    BY DEF Reached
  <1>12. Due = IF x < y THEN x ELSE y
    BY DEF Due
  <1>13. /\ q <= s => pn = q /\ dn = Size(b, fn)
         /\ q > s => fn = f /\ pn = p /\ dn = x - Due
    <2>1. fn = f => pn = p
      OBVIOUS
    <2> HIDE DEF f, p, pn, q, s, fn, x, dn, b, D
    <2> QED BY <1>6, <1>9, <1>10, <2>1
  <1>14. /\ s <= q => rn = s /\ cn = Size(b, tn)
         /\ s > q => tn = t /\ rn = r /\ cn = y - Due
    <2>1. tn = t => rn = r
      OBVIOUS
    <2> HIDE DEF t, r, rn, q, s, tn, y, cn, b, C
    <2> QED BY <1>7, <1>9, <1>10, <2>1
  <1>15. q > p /\ s > r /\ q > r /\ s > p
    <2> HIDE DEF p, q, r, s, x, y
    <2> QED BY <1>9, <1>11
  <1>16. Reached(fn, tn) = least
    <2> HIDE DEF p, q, r, s, pn, rn, fn, tn, dn, cn
    <2> QED BY <1>9, <1>11, <1>13, <1>14, <1>15
  <1>17. dn = End(b, D, fn) - least
    <2>1. CASE q <= s
      <3> HIDE DEF q, s, fn, dn, pn, b, D
      <3> QED BY <1>8, <1>9, <1>13, <2>1
    <2>2. CASE q > s
      <3>1. End(b, D, fn) = q
        BY <1>13, <2>2
      <3>2. dn = q - s
        <4> HIDE DEF p, q, r, s, x, y, dn, fn
        <4> QED BY <1>9, <1>11, <1>12, <1>13, <2>2
      <3> HIDE DEF q, s, fn, dn, b, D
      <3> QED BY <1>9, <2>2, <3>1, <3>2
    <2> HIDE DEF q, s, dn
    <2> QED BY <1>9, <2>1, <2>2
  <1>18. cn = End(b, C, tn) - least
    <2>1. CASE s <= q
      <3> HIDE DEF q, s, tn, cn, rn, b, C
      <3> QED BY <1>8, <1>9, <1>14, <2>1
    <2>2. CASE s > q
      <3>1. End(b, C, tn) = s
        BY <1>14, <2>2
      <3>2. cn = s - q
        <4> HIDE DEF p, q, r, s, x, y, cn, tn
        <4> QED BY <1>9, <1>11, <1>12, <1>14, <2>2
      <3> HIDE DEF q, s, tn, cn, b, C
      <3> QED BY <1>9, <2>2, <3>1, <3>2
    <2> HIDE DEF q, s, cn
    <2> QED BY <1>9, <2>1, <2>2
  <1> QED BY <1>16, <1>17, <1>18

LEMMA PayPast ==
  ASSUME LoopCore, pay, NEW f \in InDebt, NEW t \in InCredit
  PROVE  /\ Past(f, t)' <=> Place(balances, InDebt, f) < di' \/ Place(balances, InCredit, t) < ci'
         /\ Past(f, t) => Past(f, t)'
         /\ f = Owing /\ t = Owed => Past(f, t)' /\ ~Past(f, t)
         /\ Past(f, t)' /\ ~Past(f, t) /\ Common(f, t) > 0 => f = Owing /\ t = Owed
  <1> DEFINE b == balances
             D == InDebt
             C == InCredit
             m == Owing
             n == Owed
             P(x) == Place(b, D, x)
             Q(x) == Place(b, C, x)
             q == End(b, D, m)
             s == End(b, C, n)
  <1>1. /\ b \in Balances /\ D \in SUBSET Member /\ C \in SUBSET Member /\ ~Done
        /\ b' = b /\ D' = D /\ C' = C
    BY SidesOfBalances, PayDoes DEF LoopCore
  <1>2. m \in D /\ P(m) = di /\ n \in C /\ Q(n) = ci /\ di \in Nat /\ ci \in Nat
    BY <1>1, Turn, PayTurns
  <1>3. di' = (IF q <= s THEN di + 1 ELSE di) /\ ci' = (IF s <= q THEN ci + 1 ELSE ci)
    BY PayTurns
  <1>4. q \in Nat /\ s \in Nat
    BY <1>1, TurnPays
  <1>5. \A x \in D : P(x) \in Nat
    <2>1. \A x \in D : P(x) \in 1 .. Cardinality(D) /\ Cardinality(D) \in Nat
      BY <1>1, Placed
    <2> HIDE DEF P, D
    <2> QED BY <2>1
  <1>6. \A x \in C : Q(x) \in Nat
    <2>1. \A x \in C : Q(x) \in 1 .. Cardinality(C) /\ Cardinality(C) \in Nat
      BY <1>1, Placed
    <2> HIDE DEF Q, C
    <2> QED BY <2>1
  <1>7. \A x, y : Past(x, y)' <=> P(x) < di' \/ Q(y) < ci'
    <2>1. \A x, y : Past(x, y)' <=> Place(b', D', x) < di' \/ Place(b', C', y) < ci'
      BY DEF Past, Place
    <2> QED BY <1>1, <2>1
  <1>8. \A x, y : Past(x, y) <=> P(x) < di \/ Q(y) < ci
    BY DEF Past
  <1>9. Past(f, t) => Past(f, t)'
    <2> HIDE DEF P, Q, q, s
    <2> QED BY <1>2, <1>3, <1>4, <1>5, <1>6, <1>7, <1>8
  <1>10. f = m /\ t = n => Past(f, t)' /\ ~Past(f, t)
    <2> HIDE DEF P, Q, q, s, m, n
    <2> QED BY <1>2, <1>3, <1>4, <1>7, <1>8
  <1>11. ASSUME Past(f, t)', ~Past(f, t), Common(f, t) > 0
         PROVE  f = m /\ t = n
    <2> DEFINE fp == Start(b, D, f)
               fq == End(b, D, f)
               tr == Start(b, C, t)
               ts == End(b, C, t)
    <2>1. fp \in Nat /\ fq \in Nat /\ tr \in Nat /\ ts \in Nat
      <3>1. fp \in Nat /\ fq = fp + Size(b, f) /\ Size(b, f) \in Nat
        BY <1>1, Stretches, SizeTyped
      <3>2. tr \in Nat /\ ts = tr + Size(b, t) /\ Size(b, t) \in Nat
        BY <1>1, Stretches, SizeTyped
      <3> HIDE DEF fp, fq, tr, ts
      <3> QED BY <3>1, <3>2
    <2>2. Common(f, t) = (IF fq < ts THEN fq ELSE ts) - (IF fp > tr THEN fp ELSE tr)
      BY DEF Common, Overlap
    <2>3. fq > tr /\ ts > fp
      <3> HIDE DEF fp, fq, tr, ts
      <3> QED BY <1>11, <2>1, <2>2
    <2>4. /\ P(f) >= di /\ Q(t) >= ci
          /\ (q <= s /\ P(f) = di) \/ (s <= q /\ Q(t) = ci)
      <3>1. P(f) \in Nat /\ Q(t) \in Nat
        BY <1>5, <1>6
      <3>2. ~ (P(f) < di) /\ ~ (Q(t) < ci)
        BY <1>8, <1>11
      <3>3. P(f) < di' \/ Q(t) < ci'
        BY <1>7, <1>11
      <3> HIDE DEF P, Q, q, s
      <3> QED BY <1>2, <1>3, <1>4, <3>1, <3>2, <3>3
    <2>5. /\ \A x, y \in D : P(x) = P(y) => x = y
          /\ \A x, y \in D : P(x) < P(y) => End(b, D, x) <= Start(b, D, y)
      BY <1>1, Placed, Stretches
    <2>6. /\ \A x, y \in C : Q(x) = Q(y) => x = y
          /\ \A x, y \in C : Q(x) < Q(y) => End(b, C, x) <= Start(b, C, y)
      BY <1>1, Placed, Stretches
    <2>7. CASE q <= s /\ P(f) = di
      <3>1. f = m
        <4> HIDE DEF P, m
        <4> QED BY <1>2, <2>5, <2>7
      <3>2. t = n
        <4> SUFFICES ASSUME t # n PROVE FALSE
          OBVIOUS
        <4>1. Q(n) < Q(t)
          <5>1. Q(n) # Q(t)
            <6> HIDE DEF Q, n
            <6> QED BY <1>2, <2>6
          <5> HIDE DEF Q, n
          <5> QED BY <1>2, <1>6, <2>4, <5>1
        <4>2. s <= tr /\ fq = q
          <5>1. s <= tr
            BY <1>2, <2>6, <4>1
          <5> QED BY <3>1, <5>1
        <4> HIDE DEF q, s, fp, fq, tr, ts
        <4> QED BY <1>4, <2>1, <2>3, <2>7, <4>2
      <3> QED BY <3>1, <3>2
    <2>8. CASE s <= q /\ Q(t) = ci
      <3>1. t = n
        <4> HIDE DEF Q, n
        <4> QED BY <1>2, <2>6, <2>8
      <3>2. f = m
        <4> SUFFICES ASSUME f # m PROVE FALSE
          OBVIOUS
        <4>1. P(m) < P(f)
          <5>1. P(m) # P(f)
            <6> HIDE DEF P, m
            <6> QED BY <1>2, <2>5
          <5> HIDE DEF P, m
          <5> QED BY <1>2, <1>5, <2>4, <5>1
        <4>2. q <= fp /\ ts = s
          <5>1. q <= fp
            BY <1>2, <2>5, <4>1
          <5> QED BY <3>1, <5>1
        <4> HIDE DEF q, s, fp, fq, tr, ts
        <4> QED BY <1>4, <2>1, <2>3, <2>8, <4>2
      <3> QED BY <3>1, <3>2
    <2> QED BY <2>4, <2>7, <2>8
  <1> QED BY <1>7, <1>9, <1>10, <1>11

LEMMA PayRecords ==
  ASSUME LoopCore, pay
  PROVE  PaidSoFar'
  <1> DEFINE D == InDebt
             C == InCredit
             p == settlements
             q == settlements'
             n == Len(p) + 1
             m == Owing
             o == Owed
             a == Due
  <1>1. /\ ~Done /\ D' = D /\ C' = C
        /\ m \in D /\ o \in C /\ a = Common(m, o)
    BY PayDoes, Turn, TurnPays
  <1>2. /\ q \in Seq(Payment(D, C))
        /\ DOMAIN q = DOMAIN p \cup {n} /\ n \notin DOMAIN p
        /\ \A k \in DOMAIN p : q[k] = p[k]
        /\ q[n].from = m /\ q[n].to = o /\ q[n].amount = a
    BY PayEffect
  <1>3. /\ \A k \in DOMAIN p : /\ p[k].from \in D /\ p[k].to \in C
                               /\ Past(p[k].from, p[k].to)
                               /\ p[k].amount = Common(p[k].from, p[k].to)
        /\ \A k, l \in DOMAIN p : p[k].from = p[l].from /\ p[k].to = p[l].to => k = l
        /\ \A f \in D, t \in C : Past(f, t) /\ Common(f, t) > 0 =>
             \E k \in DOMAIN p : p[k].from = f /\ p[k].to = t
    <2>1. p \in Seq(Payment(D, C))
      BY DEF LoopCore, PaidSoFar
    <2>2. \A k \in DOMAIN p : p[k].from \in D /\ p[k].to \in C
      BY <2>1, PaymentFields
    <2> QED BY <2>2 DEF LoopCore, PaidSoFar
  <1>4. \A f \in D, t \in C :
          /\ Past(f, t) => Past(f, t)'
          /\ f = m /\ t = o => Past(f, t)' /\ ~Past(f, t)
          /\ Past(f, t)' /\ ~Past(f, t) /\ Common(f, t) > 0 => f = m /\ t = o
    BY PayPast
  <1>5. \A f, t : Common(f, t)' = Common(f, t)
    BY PayDoes DEF Common
  <1> HIDE DEF D, C, p, q, n, m, o, a
  <1>6. ASSUME NEW k \in DOMAIN q
        PROVE  /\ q[k].from \in D /\ q[k].to \in C
               /\ \A f, t : q[k].from = f /\ q[k].to = t => Past(f, t)'
               /\ q[k].amount = Common(q[k].from, q[k].to)
    <2>1. CASE k \in DOMAIN p
      <3>1. q[k] = p[k]
        BY <1>2, <2>1
      <3> QED BY <1>3, <1>4, <2>1, <3>1
    <2>2. CASE k = n
      BY <1>1, <1>2, <1>4, <2>2
    <2> QED BY <1>2, <2>1, <2>2
  <1>7. ASSUME NEW k \in DOMAIN q, NEW l \in DOMAIN q, q[k].from = q[l].from, q[k].to = q[l].to
        PROVE  k = l
    <2>1. CASE k \in DOMAIN p /\ l \in DOMAIN p
      BY <1>2, <1>3, <1>7, <2>1
    <2>2. \A i \in DOMAIN p : ~ (q[i].from = m /\ q[i].to = o)
      <3> SUFFICES ASSUME NEW i \in DOMAIN p, q[i].from = m, q[i].to = o PROVE FALSE
        OBVIOUS
      <3>1. Past(m, o)
        BY <1>2, <1>3
      <3> QED BY <1>1, <1>4, <3>1
    <2> QED BY <1>2, <1>7, <2>1, <2>2
  <1>8. ASSUME NEW f \in D, NEW t \in C, Past(f, t)', Common(f, t) > 0
        PROVE  \E k \in DOMAIN q : q[k].from = f /\ q[k].to = t
    <2>1. CASE Past(f, t)
      <3>1. PICK k \in DOMAIN p : p[k].from = f /\ p[k].to = t
        BY <1>3, <1>8, <2>1
      <3> QED BY <1>2, <3>1
    <2>2. CASE ~Past(f, t)
      BY <1>2, <1>4, <1>8, <2>2
    <2> QED BY <2>1, <2>2
  <1>9. /\ \A k \in DOMAIN settlements' : /\ Past(settlements[k].from, settlements[k].to)'
                                          /\ settlements'[k].amount
                                               = Common(settlements[k].from, settlements[k].to)'
    <2>1. \A f, t : Past(f, t)' <=> Place(balances', InDebt', f) < di' \/ Place(balances', InCredit', t) < ci'
      BY DEF Past, Place
    <2>2. \A f, t : Common(f, t)' = Overlap(Start(balances', InDebt', f), End(balances', InDebt', f),
                                            Start(balances', InCredit', t), End(balances', InCredit', t))
      BY DEF Common
    <2>3. ASSUME NEW k \in DOMAIN q
          PROVE  /\ Place(balances', InDebt', q[k].from) < di' \/ Place(balances', InCredit', q[k].to) < ci'
                 /\ q[k].amount = Overlap(Start(balances', InDebt', q[k].from), End(balances', InDebt', q[k].from),
                                          Start(balances', InCredit', q[k].to), End(balances', InCredit', q[k].to))
      BY <1>5, <1>6, <2>1, <2>2
    <2> QED BY <2>3 DEF Past, Common, q
  <1>10. settlements' \in Seq(Payment(InDebt', InCredit'))
    BY <1>1, <1>2 DEF D, C, q
  <1>11. \A k, l \in DOMAIN settlements' :
           settlements'[k].from = settlements'[l].from /\ settlements'[k].to = settlements'[l].to => k = l
    BY <1>7 DEF q
  <1>12. \A f \in InDebt', t \in InCredit' : Past(f, t)' /\ Common(f, t)' > 0 =>
           \E k \in DOMAIN settlements' : settlements'[k].from = f /\ settlements'[k].to = t
    BY <1>1, <1>5, <1>8 DEF D, C, q
  <1>13. settlements' \in Seq(Payment(InDebt, InCredit)')
    BY <1>10 DEF Payment
  <1> QED BY <1>9, <1>11, <1>12, <1>13 DEF PaidSoFar

LEMMA EnteredTyped ==
  ASSUME LoopCore
  PROVE  \A m : Entered(m) \in Int
  <1> TAKE m
  <1>1. settlements \in Seq(Payment(InDebt, InCredit)) /\ InDebt \cap InCredit = {}
    BY SidesOfBalances DEF LoopCore, PaidSoFar
  <1>2. Numbers(Effect(settlements, m), DOMAIN settlements) /\ IsFiniteSet(DOMAIN settlements)
    BY <1>1, EffectTyped, PaymentFields
  <1> QED BY <1>2, SumStep, EnteredIs

LEMMA PayLeaves ==
  ASSUME LoopCore, pay
  PROVE  WhatIsLeft'
  <1> DEFINE b == balances
             D == InDebt
             C == InCredit
             a == Due
  <1>1. /\ b \in Balances /\ D \in SUBSET Member /\ C \in SUBSET Member /\ D \cap C = {}
        /\ PaidUpTo(b, debtors, di, D) /\ PaidUpTo(b, creditors, ci, C)
    BY SidesOfBalances DEF LoopCore
  <1>2. /\ ~Done /\ b' = b
        /\ di \in 1 .. Len(debtors) /\ Owing \in D /\ Place(b, D, Owing) = di
        /\ ci \in 1 .. Len(creditors) /\ Owed \in C /\ Place(b, C, Owed) = ci
    BY PayDoes, Turn
  <1>3. \A m : Entered(m)' = Entered(m) + (IF m = Owing THEN a ELSE IF m = Owed THEN -a ELSE 0)
    BY PayEffect
  <1>4. \A m : Entered(m) \in Int
    BY EnteredTyped
  <1>5. /\ \A n \in 1 .. Len(debtors) :
             /\ debtors'[n].pubkey = debtors[n].pubkey
             /\ debtors'[n].amount = IF n = di THEN debtors[n].amount - a ELSE debtors[n].amount
        /\ Len(debtors') = Len(debtors) /\ PaidUpTo(b, debtors', di', D)
    BY PayAdvances DEF Advances
  <1>6. /\ \A n \in 1 .. Len(creditors) :
             /\ creditors'[n].pubkey = creditors[n].pubkey
             /\ creditors'[n].amount = IF n = ci THEN creditors[n].amount - a ELSE creditors[n].amount
        /\ Len(creditors') = Len(creditors) /\ PaidUpTo(b, creditors', ci', C)
    BY PayAdvances DEF Advances
  <1>7. /\ DOMAIN debtors = 1 .. Len(debtors) /\ DOMAIN debtors' = 1 .. Len(debtors')
        /\ DOMAIN creditors = 1 .. Len(creditors) /\ DOMAIN creditors' = 1 .. Len(creditors')
    BY <1>1, <1>5, <1>6, LineFields
  <1>8. /\ \A n \in 1 .. Len(debtors) : debtors[n].pubkey \in D /\ Place(b, D, debtors[n].pubkey) = n
        /\ \A n \in 1 .. Len(creditors) :
             creditors[n].pubkey \in C /\ Place(b, C, creditors[n].pubkey) = n
    BY <1>1, LinePlaces
  <1>9. /\ \A n \in 1 .. Len(debtors) : debtors[n].amount \in Nat
        /\ \A n \in 1 .. Len(creditors) : creditors[n].amount \in Nat
    BY <1>1, LineFields
  <1>10. a \in Nat
    <2>1. a \in 1 .. debtors[di].amount /\ debtors[di].amount \in Nat
      BY <1>2, Turn, TurnPays
    <2> HIDE DEF a
    <2> QED BY <2>1
  <1>11. ASSUME NEW n \in 1 .. Len(debtors), NEW m, m = debtors[n].pubkey
         PROVE  b[m] + Entered(m)' = -debtors'[n].amount
    <2> DEFINE x == debtors[n].amount
    <2>1. b[m] + Entered(m) = -x /\ x \in Nat /\ b[m] \in Int /\ Entered(m) \in Int
      BY <1>1, <1>4, <1>7, <1>8, <1>9, <1>11 DEF LoopCore, WhatIsLeft, Balances
    <2>2. m # Owed /\ (n = di <=> m = Owing)
      <3>1. m \in D /\ Place(b, D, m) = n
        BY <1>8, <1>11
      <3>2. \A x1, y1 \in D : Place(b, D, x1) = Place(b, D, y1) => x1 = y1
        BY <1>1, Placed
      <3> HIDE DEF D, C
      <3> QED BY <1>1, <1>2, <3>1, <3>2
    <2>3. Entered(m)' = Entered(m) + (IF m = Owing THEN a ELSE IF m = Owed THEN -a ELSE 0)
      <3> HIDE DEF a
      <3> QED BY <1>3
    <2>4. debtors'[n].amount = IF n = di THEN x - a ELSE x
      BY <1>5
    <2> DEFINE z == Entered(m)'
               y == debtors'[n].amount
    <2>5. z = Entered(m) + (IF n = di THEN a ELSE 0)
      <3> HIDE DEF a
      <3> QED BY <2>2, <2>3
    <2>6. b[m] + z = -y
      <3>1. y = IF n = di THEN x - a ELSE x
        BY <2>4
      <3> HIDE DEF a, x, z, y
      <3> QED BY <1>10, <2>1, <2>5, <3>1
    <2> QED BY <2>6
  <1>12. ASSUME NEW n \in 1 .. Len(creditors), NEW m, m = creditors[n].pubkey
         PROVE  b[m] + Entered(m)' = creditors'[n].amount
    <2> DEFINE x == creditors[n].amount
    <2>1. b[m] + Entered(m) = x /\ x \in Nat /\ b[m] \in Int /\ Entered(m) \in Int
      BY <1>1, <1>4, <1>7, <1>8, <1>9, <1>12 DEF LoopCore, WhatIsLeft, Balances
    <2>2. m # Owing /\ (n = ci <=> m = Owed)
      <3>1. m \in C /\ Place(b, C, m) = n
        BY <1>8, <1>12
      <3>2. \A x1, y1 \in C : Place(b, C, x1) = Place(b, C, y1) => x1 = y1
        BY <1>1, Placed
      <3> HIDE DEF D, C
      <3> QED BY <1>1, <1>2, <3>1, <3>2
    <2>3. Entered(m)' = Entered(m) + (IF m = Owing THEN a ELSE IF m = Owed THEN -a ELSE 0)
      <3> HIDE DEF a
      <3> QED BY <1>3
    <2>4. creditors'[n].amount = IF n = ci THEN x - a ELSE x
      BY <1>6
    <2> DEFINE z == Entered(m)'
               y == creditors'[n].amount
    <2>5. z = Entered(m) + (IF n = ci THEN -a ELSE 0)
      <3> HIDE DEF a
      <3> QED BY <2>2, <2>3
    <2>6. b[m] + z = y
      <3>1. y = IF n = ci THEN x - a ELSE x
        BY <2>4
      <3> HIDE DEF a, x, z, y
      <3> QED BY <1>10, <2>1, <2>5, <3>1
    <2> QED BY <2>6
  <1>13. \A n \in DOMAIN debtors' :
           balances'[debtors'[n].pubkey] + Entered(debtors[n].pubkey)' = -debtors'[n].amount
    <2>1. \A n \in 1 .. Len(debtors) : \A m : m = debtors'[n].pubkey =>
            b[m] + Entered(m)' = -debtors'[n].amount
      BY <1>5, <1>11
    <2> QED BY <1>2, <1>5, <1>7, <2>1
  <1>14. \A n \in DOMAIN creditors' :
           balances'[creditors'[n].pubkey] + Entered(creditors[n].pubkey)' = creditors'[n].amount
    <2>1. \A n \in 1 .. Len(creditors) : \A m : m = creditors'[n].pubkey =>
            b[m] + Entered(m)' = creditors'[n].amount
      BY <1>6, <1>12
    <2> QED BY <1>2, <1>6, <1>7, <2>1
  <1> QED BY <1>13, <1>14 DEF WhatIsLeft

LEMMA PayKeeps ==
  ASSUME LoopInv, pay
  PROVE  LoopInv'
  <1>1. LoopCore
    BY DEF LoopInv
  <1>2. balances' \in Balances /\ SumFunction(balances') = 0
    BY <1>1, PayDoes DEF LoopCore
  <1>3. PaidUpTo(balances', debtors', di', InDebt') /\ PaidUpTo(balances', creditors', ci', InCredit')
    BY <1>1, PayAdvances, PayDoes DEF Advances
  <1>4. BothPaidUpTo' /\ PaidSoFar' /\ WhatIsLeft'
    BY <1>1, PayEvens, PayRecords, PayLeaves
  <1>5. LoopCore'
    BY <1>2, <1>3, <1>4 DEF LoopCore
  <1>6. FewPayments'
    <2>1. /\ Len(settlements') = Len(settlements) + 1 /\ Len(settlements) \in Nat
          /\ Len(settlements) <= di + ci - 2
      BY <1>1, PayEffect DEF LoopInv, FewPayments
    <2>2. /\ di \in Nat /\ ci \in Nat /\ di' \in {di, di + 1} /\ ci' \in {ci, ci + 1}
          /\ ~ (di' = di /\ ci' = ci)
      <3>1. /\ di \in Nat /\ ci \in Nat
            /\ di' = (IF End(balances, InDebt, Owing) <= End(balances, InCredit, Owed)
                      THEN di + 1 ELSE di)
            /\ ci' = (IF End(balances, InCredit, Owed) <= End(balances, InDebt, Owing)
                      THEN ci + 1 ELSE ci)
        BY <1>1, PayTurns
      <3>2. End(balances, InDebt, Owing) \in Nat /\ End(balances, InCredit, Owed) \in Nat
        BY <1>1, PayDoes, TurnPays
      <3> QED BY <3>1, <3>2
    <2>3. /\ Len(debtors') = Len(debtors) /\ Len(creditors') = Len(creditors)
          /\ di \in 1 .. Len(debtors) /\ ci \in 1 .. Len(creditors)
      BY <1>1, PayAdvances, PayDoes, Turn DEF Advances
    <2>4. Len(debtors) \in Nat /\ Len(creditors) \in Nat
      BY <1>1, LineFields, SidesOfBalances DEF LoopCore
    <2>5. Len(settlements') <= di' + ci' - 2
      BY <2>1, <2>2
    <2>6. di' > Len(debtors') /\ ci' > Len(creditors') => Len(settlements') < di' + ci' - 2
      BY <2>1, <2>2, <2>3, <2>4
    <2> QED BY <2>5, <2>6 DEF FewPayments
  <1> QED BY <1>5, <1>6 DEF LoopInv

-----------------------------------------------------------------------------
(* The page reads entries whose balances cancel.                           *)

Ids(S) == 1 .. Cardinality(S)

LEMMA NothingOwed == computeBalances({}) = [m \in Member |-> 0]
  <1>1. Sortable({}) /\ Said({}, {}, {}) /\ IsFiniteSet({})
    BY FS_EmptySet DEF Sortable, Said
  <1>2. getEffectiveExpenses({}) = <<>>
    <2>1. EffectOf({}) = NoEffects
      BY <1>1, EffectOfStep
    <2>2. getEffectiveExpenses({}) = EffectOf({}).expenses
      BY <1>1, EffectiveTyped
    <2> QED BY <2>1, <2>2 DEF NoEffects
  <1>3. ASSUME NEW m \in Member PROVE computeBalances({})[m] = 0
    <2>1. DOMAIN getEffectiveExpenses({}) = {}
      BY <1>2
    <2>2. Numbers(Share(getEffectiveExpenses({}), m), {})
      BY DEF Numbers
    <2>3. SumFunctionOnSet(Share(getEffectiveExpenses({}), m), {}) = 0
      BY <1>1, <2>2, SumStep
    <2> QED BY <2>1, <2>3, BalanceIsSum
  <1> QED BY <1>3 DEF computeBalances

LEMMA BeginsAgain ==
  ASSUME NEW S, NEW K, Accounted(S, K), begin(computeBalances(S))
  PROVE  balances' = computeBalances(S) /\ LoopBegins'
  <1>1. balances' = computeBalances(S)
    BY DEF begin
  <1>2. balances' \in Balances /\ SumFunction(balances') = 0
    BY <1>1, BalancesTyped, BalancesCancelAlways DEF Balances
  <1>3. /\ debtors' = Line(balances', InDebt') /\ creditors' = Line(balances', InCredit')
        /\ di' = 1 /\ ci' = 1 /\ settlements' = <<>>
    BY <1>1 DEF begin, InDebt, InCredit
  <1> QED BY <1>1, <1>2, <1>3 DEF LoopBegins

LEMMA LoopStartsNext == LoopBegins' => LoopInv'
  BY LoopStarts, PTL

LEMMA LoopInitStarts == LoopInit => LoopInv
  <1> SUFFICES ASSUME LoopInit PROVE LoopInv
    OBVIOUS
  <1>1. balances = [m \in Member |-> 0] /\ balances \in Balances
    BY DEF LoopInit, Balances
  <1>2. DOMAIN balances = Member /\ IsFiniteSet(Member)
    BY <1>1, LedgerAssumption
  <1>3. SumFunction(balances) = 0
    <2>1. IsFiniteSet(Member) /\ 0 \in Int /\ \A m \in Member : balances[m] = 0
      BY <1>1, <1>2
    <2>2. SumFunctionOnSet(balances, Member) = Cardinality(Member) * 0
      BY <2>1, SumOfSame
    <2>3. Cardinality(Member) \in Nat
      BY <1>2, FS_CardinalityType
    <2> QED BY <1>2, <2>2, <2>3 DEF SumFunction
  <1>4. InDebt = {} /\ InCredit = {}
    BY <1>1 DEF InDebt, InCredit, Debtors, Creditors
  <1>5. Line(balances, {}) = <<>>
    BY FS_EmptySet DEF Line
  <1>6. LoopBegins
    BY <1>1, <1>3, <1>4, <1>5 DEF LoopBegins, LoopInit
  <1> QED BY <1>6, LoopStarts

\* One more entry.
LEMMA AccountedAfter ==
  ASSUME NEW S, Accounted(S, Ids(S)), NEW e, e.id = Cardinality(S) + 1,
         e.clock \in Nat, e.ts \in Nat, e.dev \in Nat,
         e.type = "ExpenseCreated" => e.payload \in BalancedExpense,
         e.type = "ExpenseCorrection" => e.payload.ref \in Ids(S) /\ e.payload.corrected \in BalancedExpense,
         e.type = "ExpenseVoided" => e.payload.ref \in Ids(S)
  PROVE  /\ Accounted(S \cup {e}, Ids(S \cup {e}))
         /\ Sortable(S \cup {e}) /\ e.id \notin Ids(S) /\ e \notin S
  <1> DEFINE n == Cardinality(S)
             T == S \cup {e}
  <1>1. IsFiniteSet(S) /\ n \in Nat
    BY FS_CardinalityType DEF Accounted, Sortable
  <1>2. \A f \in S : f.id \in 1 .. n
    BY DEF Accounted, Said, Ids
  <1>3. e.id \notin 1 .. n /\ e \notin S
    BY <1>1, <1>2
  <1>4. IsFiniteSet(T) /\ Cardinality(T) = n + 1
    BY <1>1, <1>3, FS_AddElement
  <1>5. Sortable(T)
    <2>1. \A f, g \in T : f.id = g.id => f = g
      BY <1>2, <1>3 DEF Accounted, Sortable
    <2>2. \A f \in T : f.clock \in Nat /\ f.ts \in Nat /\ f.dev \in Nat /\ f.id \in Nat
      BY <1>1 DEF Accounted, Sortable
    <2> QED BY <1>4, <2>1, <2>2 DEF Sortable
  <1>6. 1 .. n \subseteq 1 .. n + 1 /\ e.id \in 1 .. n + 1
    BY <1>1
  <1>7. Said(T, 1 .. n + 1, BalancedExpense)
    BY <1>6 DEF Accounted, Said, Ids
  <1>8. IsFiniteSet(1 .. n + 1)
    <2>1. 1 \in Int /\ n + 1 \in Int
      BY <1>1
    <2> QED BY <2>1, FS_Interval
  <1> QED BY <1>3, <1>4, <1>5, <1>7, <1>8 DEF Accounted, Ids

LEMMA SharedBalanced ==
  ASSUME Accounted(entries, Ids(entries)), NEW m \in Payer
  PROVE  Shared(m) \in BalancedExpense
  <1> DEFINE n == Cardinality(Sharer)
             k == NextId
             x == [s \in Sharer |-> k]
  <1>1. IsFiniteSet(Sharer) /\ Sharer \in SUBSET Member /\ m \in Member /\ n \in Nat
    BY LedgerAssumption, CorrectionsAssumption, FS_Subset, FS_CardinalityType
  <1>2. k \in Int
    BY FS_CardinalityType DEF NextId, Accounted, Sortable
  <1>3. x \in [Sharer -> Int] /\ DOMAIN x = Sharer
    BY <1>2
  <1>4. SumFunction(x) = n * k
    <2>1. \A s \in Sharer : x[s] = k
      OBVIOUS
    <2> HIDE DEF x
    <2>2. SumFunctionOnSet(x, Sharer) = n * k
      BY <1>1, <1>2, <2>1, SumOfSame
    <2> QED BY <1>3, <2>2 DEF SumFunction
  <1>5. n * k \in Int
    BY <1>1, <1>2
  <1>6. Shared(m) = [amount |-> n * k, payer |-> m, splits |-> x]
    BY DEF Shared
  <1> HIDE DEF x, n, k
  <1> QED BY <1>1, <1>3, <1>4, <1>5, <1>6 DEF BalancedExpense

LEMMA ArrivalKeeps ==
  ASSUME Accounted(entries, Ids(entries)), Arrival
  PROVE  Accounted(entries', Ids(entries')) /\ entries \subseteq entries'
  <1> DEFINE New(type, payload, clock, dev) ==
               [id |-> NextId, prev |-> NoHash, clock |-> clock, ts |-> 1,
                type |-> type, dev |-> dev, payload |-> payload]
  <1>1. \A id \in Referable : id \in Ids(entries) /\ ClockOf(id) \in Nat
    <2> TAKE id \in Referable
    <2>1. PICK f \in entries : f.id = id
      BY DEF Referable
    <2>2. id \in Ids(entries)
      BY <2>1 DEF Accounted, Said
    <2>3. ClockOf(id) \in Nat
      BY <2>1 DEF ClockOf, Accounted, Sortable
    <2> QED BY <2>2, <2>3
  <1>2. ASSUME NEW type, NEW payload, NEW after \in Nat \cup {-1}, arrive(type, payload, after),
               type = "ExpenseCreated" => payload \in BalancedExpense,
               type = "ExpenseCorrection" => payload.ref \in Ids(entries) /\ payload.corrected \in BalancedExpense,
               type = "ExpenseVoided" => payload.ref \in Ids(entries)
        PROVE  Accounted(entries', Ids(entries')) /\ entries \subseteq entries'
    <2>1. PICK clock \in after + 1 .. MaxClock, dev \in Device :
            entries' = entries \cup {New(type, payload, clock, dev)}
      BY <1>2 DEF arrive
    <2> DEFINE e == New(type, payload, clock, dev)
    <2>2. clock \in Nat /\ dev \in Nat
      <3>1. after + 1 \in Nat /\ MaxClock \in Nat
        BY CorrectionsAssumption
      <3>2. clock \in Nat
        BY <3>1
      <3> QED BY <3>2, LedgerAssumption
    <2>3. /\ e.id = Cardinality(entries) + 1 /\ e.clock = clock /\ e.ts = 1 /\ e.dev = dev
          /\ e.type = type /\ e.payload = payload
      BY DEF NextId
    <2> HIDE DEF e
    <2>4. Accounted(entries \cup {e}, Ids(entries \cup {e}))
      BY <1>2, <2>2, <2>3, AccountedAfter
    <2> QED BY <2>1, <2>4 DEF e
  <1>3. CASE expenseArrives
    <2>1. PICK m \in Payer : arrive("ExpenseCreated", Shared(m), -1)
      BY <1>3 DEF expenseArrives
    <2>2. Shared(m) \in BalancedExpense
      BY SharedBalanced
    <2> QED BY <1>2, <2>1, <2>2
  <1>4. CASE correctionArrives
    <2>1. PICK m \in Payer, ref \in Referable :
            arrive("ExpenseCorrection", [ref |-> ref, corrected |-> Shared(m)], ClockOf(ref))
      BY <1>4 DEF correctionArrives
    <2> DEFINE p == [ref |-> ref, corrected |-> Shared(m)]
    <2>2. p.ref \in Ids(entries) /\ p.corrected \in BalancedExpense /\ ClockOf(ref) \in Nat \cup {-1}
      BY <1>1, SharedBalanced
    <2> HIDE DEF p
    <2> QED BY <1>2, <2>1, <2>2 DEF p
  <1>5. CASE voidingArrives
    <2>1. PICK ref \in Referable : arrive("ExpenseVoided", [ref |-> ref], ClockOf(ref))
      BY <1>5 DEF voidingArrives
    <2> DEFINE p == [ref |-> ref]
    <2>2. p.ref \in Ids(entries) /\ ClockOf(ref) \in Nat \cup {-1}
      BY <1>1
    <2>3. arrive("ExpenseVoided", p, ClockOf(ref))
      BY <2>1
    <2> HIDE DEF p
    <2> QED BY <1>2, <2>2, <2>3
  <1> QED BY <1>3, <1>4, <1>5 DEF Arrival

\* The expenses a group may start with.
LEMMA OpeningAccounted ==
  ASSUME NEW b \in Balances
  PROVE  Accounted(Opening(b), Ids(Opening(b)))
  <1> DEFINE O == { m \in Member \ {First} : b[m] # 0 }
             R(m) == { x \in O : Rank[x] <= Rank[m] }
             Id(m) == Cardinality(R(m))
             Paid(m) == IF b[m] > 0 THEN Settlement(m, First, b[m])
                        ELSE Settlement(First, m, -b[m])
             E(m) == [id |-> Id(m), prev |-> NoHash, clock |-> Id(m) - 1, ts |-> 1,
                      type |-> "ExpenseCreated", dev |-> 1, payload |-> Paid(m)]
             S == Opening(b)
             n == Cardinality(O)
  <1>1. S = { E(m) : m \in O }
    BY DEF Opening
  <1>2. IsFiniteSet(O) /\ O \in SUBSET Member /\ n \in Nat
    <2>1. O \in SUBSET Member
      OBVIOUS
    <2> HIDE DEF O
    <2> QED BY <2>1, LedgerAssumption, FS_Subset, FS_CardinalityType
  <1>3. \A m \in Member : Rank[m] \in Nat
    <2>1. \A m \in Member : Rank[m] \in 1 .. Cardinality(Member) /\ Cardinality(Member) \in Nat
      BY Ranked, LedgerAssumption, FS_CardinalityType
    <2> QED BY <2>1
  <1>4. ASSUME NEW m \in O
        PROVE  R(m) \in SUBSET O /\ IsFiniteSet(R(m)) /\ Id(m) \in 1 .. n
    <2>1. R(m) \in SUBSET O /\ m \in R(m)
      BY <1>2, <1>3
    <2> HIDE DEF R, O
    <2>2. IsFiniteSet(R(m)) /\ Id(m) \in Nat /\ Id(m) <= n
      BY <1>2, <2>1, FS_Subset, FS_CardinalityType
    <2>3. Id(m) # 0
      BY <2>1, <2>2, FS_EmptySet
    <2>4. Id(m) \in 1 .. n
      <3> HIDE DEF Id, n
      <3> QED BY <1>2, <2>2, <2>3
    <2> QED BY <2>1, <2>2, <2>4
  <1>5. ASSUME NEW x \in O, NEW y \in O, Rank[x] < Rank[y] PROVE Id(x) # Id(y)
    <2>1. R(x) \in SUBSET R(y) /\ R(x) # R(y)
      <3>1. \A z \in R(x) : z \in R(y)
        BY <1>2, <1>3, <1>5
      <3>2. y \in R(y) /\ y \notin R(x)
        BY <1>2, <1>3, <1>5
      <3> HIDE DEF R
      <3> QED BY <3>1, <3>2
    <2>2. IsFiniteSet(R(y))
      BY <1>4
    <2> HIDE DEF R
    <2> QED BY <2>1, <2>2, FS_Subset
  <1>6. \A x, y \in O : Id(x) = Id(y) => x = y
    <2> SUFFICES ASSUME NEW x \in O, NEW y \in O, Id(x) = Id(y), x # y PROVE FALSE
      OBVIOUS
    <2>1. x \in Member /\ y \in Member
      BY <1>2
    <2>2. Rank[x] # Rank[y] /\ Rank[x] \in Nat /\ Rank[y] \in Nat
      BY <1>3, <2>1, Ranked
    <2>3. Rank[x] < Rank[y] \/ Rank[y] < Rank[x]
      BY <2>2
    <2> HIDE DEF Id, O
    <2> QED BY <1>5, <2>3
  <1>7. ASSUME NEW m \in O PROVE Paid(m) \in BalancedExpense
    <2>1. m \in Member /\ First \in Member /\ b[m] \in Int /\ -b[m] \in Int
      <3>1. m \in Member
        BY <1>2
      <3>2. First \in Member
        <4>1. \E k \in Member : Rank[k] = 1
          <5>1. Cardinality(Member) \in Nat /\ Rank[m] \in 1 .. Cardinality(Member)
            BY <3>1, Ranked, LedgerAssumption, FS_CardinalityType
          <5>2. 1 \in 1 .. Cardinality(Member)
            BY <5>1
          <5> QED BY <5>2, Ranked
        <4> QED BY <4>1 DEF First
      <3> QED BY <3>1, <3>2 DEF Balances
    <2>2. Settlement(m, First, b[m]) \in BalancedExpense /\ Settlement(First, m, -b[m]) \in BalancedExpense
      BY <2>1, SettlementBalanced
    <2> QED BY <2>2
  <1>8. /\ \A m \in O : /\ E(m).id = Id(m) /\ E(m).clock = Id(m) - 1 /\ E(m).ts = 1 /\ E(m).dev = 1
                        /\ E(m).type = "ExpenseCreated" /\ E(m).payload = Paid(m)
    OBVIOUS
  <1> HIDE DEF E, Paid, Id, R, O, n
  <1>9. IsFiniteSet(S) /\ Cardinality(S) = n
    <2> DEFINE f == [m \in O |-> E(m)]
    <2>1. f \in [O -> S] /\ (\A t \in S : \E m \in O : f[m] = t)
      BY <1>1
    <2>2. \A x, y \in O : f[x] = f[y] => x = y
      BY <1>6, <1>8
    <2> HIDE DEF f, S
    <2>3. f \in Bijection(O, S)
      BY <2>1, <2>2 DEF Bijection, Injection, Surjection, IsInjective
    <2>4. ExistsBijection(O, S)
      BY <2>3 DEF ExistsBijection
    <2> QED BY <1>2, <2>4, FS_Bijection DEF n
  <1>10. \A e \in S : /\ e.id \in 1 .. n /\ e.clock \in Nat /\ e.ts \in Nat /\ e.dev \in Nat /\ e.id \in Nat
                      /\ e.type = "ExpenseCreated" /\ e.payload \in BalancedExpense
    <2> TAKE e \in S
    <2>1. PICK m \in O : e = E(m)
      BY <1>1
    <2>2. Id(m) \in 1 .. n
      BY <1>4
    <2>3. Id(m) \in Nat /\ Id(m) - 1 \in Nat
      BY <1>2, <2>2
    <2> QED BY <1>7, <1>8, <2>1, <2>2, <2>3
  <1>11. \A e, f \in S : e.id = f.id => e = f
    BY <1>1, <1>6, <1>8
  <1>12. Sortable(S)
    BY <1>9, <1>10, <1>11 DEF Sortable
  <1>13. Said(S, 1 .. n, BalancedExpense)
    BY <1>10 DEF Said
  <1>14. IsFiniteSet(1 .. n)
    BY <1>2, FS_Interval
  <1> QED BY <1>9, <1>12, <1>13, <1>14 DEF Accounted, Ids

\* The entries the page has read are among those of the storage.
LEMMA SubsetAccounted ==
  ASSUME NEW S, NEW K, Accounted(S, K), NEW T \in SUBSET S
  PROVE  Accounted(T, K)
  BY SubsetSortable DEF Accounted, Said

LEMMA InitReads == Init => AccountsInv
  <1> SUFFICES ASSUME Init PROVE AccountsInv
    OBVIOUS
  <1>1. Accounted(entries, 1 .. Cardinality(entries))
    <2>1. PICK b \in [Member -> -MaxBalance .. MaxBalance] : entries = Opening(b)
      BY DEF Init
    <2>2. b \in Balances
      <3>1. \A k \in -MaxBalance .. MaxBalance : k \in Int
        BY AccountsAssumption
      <3> QED BY <2>1, <3>1 DEF Balances
    <2> QED BY <2>1, <2>2, OpeningAccounted DEF Ids
  <1>2. balances = computeBalances(shown) /\ shown = {}
    BY NothingOwed DEF Init, LoopInit
  <1>3. LoopInv
    BY LoopInitStarts DEF Init
  <1> QED BY <1>1, <1>2, <1>3 DEF AccountsInv, PageInv

\* A page that shows nothing proposes nothing.
LEMMA Proposed ==
  ASSUME AccountsInv, NEW s \in ToSet(settlements)
  PROVE  /\ s.from \in InDebt /\ s.to \in InCredit /\ s.from # s.to
         /\ s.from \in Member /\ s.to \in Member
         /\ s.amount \in Nat \ {0} /\ s.amount = Common(s.from, s.to)
         /\ entries # {}
  <1>1. PICK k \in DOMAIN settlements : s = settlements[k]
    BY DEF ToSet
  <1>2. /\ settlements \in Seq(Payment(InDebt, InCredit))
        /\ s.amount = Common(s.from, s.to)
        /\ InDebt \in SUBSET Member /\ InCredit \in SUBSET Member /\ InDebt \cap InCredit = {}
    BY <1>1, SidesOfBalances DEF AccountsInv, LoopInv, LoopCore, PaidSoFar
  <1>3. s.from \in InDebt /\ s.to \in InCredit /\ s.amount \in Nat \ {0}
    BY <1>1, <1>2, PaymentFields
  <1>4. entries # {}
    <2> SUFFICES ASSUME entries = {} PROVE FALSE
      OBVIOUS
    <2>1. balances = [m \in Member |-> 0]
      BY NothingOwed DEF AccountsInv, PageInv
    <2>2. InDebt = {}
      BY <2>1 DEF InDebt, Debtors
    <2> QED BY <1>3, <2>2
  <1> QED BY <1>2, <1>3, <1>4

LEMMA SettleUpAppends ==
  ASSUME AccountsInv, NEW s \in ToSet(settlements), handleSettleUp(s)
  PROVE  \E e : /\ entries' = entries \cup {e} /\ e \notin entries
                /\ e.type = "ExpenseCreated" /\ e.payload = Settlement(s.from, s.to, s.amount)
                /\ e.payload \in BalancedExpense /\ e.id \notin Ids(entries)
                /\ \A f \in entries : Before(f, e)
                /\ Sortable(entries \cup {e}) /\ Accounted(entries \cup {e}, Ids(entries \cup {e}))
                /\ shown' = entries' /\ begin(computeBalances(entries'))
  <1> DEFINE e == [id |-> NextId, prev |-> Latest.id, clock |-> Latest.clock + 1, ts |-> 1,
                   type |-> "ExpenseCreated", dev |-> 1,
                   payload |-> Settlement(s.from, s.to, s.amount)]
  <1>1. Accounted(entries, Ids(entries)) /\ Sortable(entries)
    BY DEF AccountsInv, PageInv, Ids, Accounted
  <1>2. IsLatest(Latest, entries) /\ Latest \in entries
    BY <1>1, Proposed, LatestExists DEF Latest, IsLatest
  <1>3. Latest.clock \in Nat /\ \A f \in entries : f.clock \in Nat /\ f.clock <= Latest.clock
    BY <1>1, <1>2 DEF Sortable, IsLatest, Before
  <1>4. /\ e.id = Cardinality(entries) + 1 /\ e.clock = Latest.clock + 1 /\ e.ts = 1 /\ e.dev = 1
        /\ e.type = "ExpenseCreated" /\ e.payload = Settlement(s.from, s.to, s.amount)
    BY DEF NextId
  <1>5. /\ entries' = entries \cup {e} /\ shown' = entries'
        /\ begin(computeBalances(entries'))
    BY DEF handleSettleUp, show
  <1> HIDE DEF e
  <1>6. e.payload \in BalancedExpense
    BY <1>4, Proposed, SettlementBalanced
  <1>7. /\ e.clock \in Nat /\ \A f \in entries : Before(f, e)
    BY <1>3, <1>4 DEF Before
  <1>8. /\ Accounted(entries \cup {e}, Ids(entries \cup {e}))
        /\ Sortable(entries \cup {e}) /\ e.id \notin Ids(entries) /\ e \notin entries
    <2>1. /\ e.ts \in Nat /\ e.dev \in Nat /\ e.type = "ExpenseCreated"
          /\ e.type # "ExpenseCorrection" /\ e.type # "ExpenseVoided"
      BY <1>4
    <2> QED BY <1>1, <1>4, <1>6, <1>7, <2>1, AccountedAfter
  <1> QED BY <1>4, <1>5, <1>6, <1>7, <1>8

LEMMA NextReads == AccountsInv /\ [Next]_vars => AccountsInv'
  <1> SUFFICES ASSUME AccountsInv, [Next]_vars PROVE AccountsInv'
    OBVIOUS
  <1>1. /\ Accounted(entries, Ids(entries)) /\ shown \subseteq entries
        /\ balances = computeBalances(shown) /\ LoopInv
    BY DEF AccountsInv, PageInv, Ids
  <1>2. CASE arrival
    <2>1. Accounted(entries', Ids(entries')) /\ entries \subseteq entries'
      BY <1>1, <1>2, ArrivalKeeps DEF arrival
    <2>2. shown' = shown /\ loop' = loop
      BY <1>2 DEF arrival
    <2>3. LoopInv'
      BY <1>1, <2>2 DEF loop, LoopInv, LoopCore, FewPayments, BothPaidUpTo, PaidSoFar, WhatIsLeft,
                        InDebt, InCredit, Done, Reached, Common, Past, Entered
    <2> QED BY <1>1, <2>1, <2>2, <2>3 DEF AccountsInv, PageInv, Ids, loop
  <1>3. CASE refresh
    <2>1. shown' = entries /\ entries' = entries /\ begin(computeBalances(entries))
      BY <1>3 DEF refresh, show
    <2>2. balances' = computeBalances(entries) /\ LoopInv'
      BY <1>1, <2>1, BeginsAgain, LoopStartsNext
    <2> QED BY <1>1, <2>1, <2>2 DEF AccountsInv, PageInv, Ids
  <1>4. CASE render
    <2>1. entries' = entries /\ shown' = shown /\ pay /\ balances' = balances
      BY <1>4 DEF render, pay
    <2>2. LoopInv'
      BY <1>1, <2>1, PayKeeps
    <2> QED BY <1>1, <2>1, <2>2 DEF AccountsInv, PageInv, Ids
  <1>5. ASSUME NEW s \in ToSet(settlements), handleSettleUp(s) PROVE AccountsInv'
    <2>1. PICK e : /\ entries' = entries \cup {e}
                   /\ Accounted(entries \cup {e}, Ids(entries \cup {e}))
                   /\ shown' = entries' /\ begin(computeBalances(entries'))
      BY <1>5, SettleUpAppends
    <2>2. Accounted(entries', Ids(entries'))
      BY <2>1
    <2>3. balances' = computeBalances(entries') /\ LoopBegins'
      BY <2>1, <2>2, BeginsAgain
    <2>4. LoopInv'
      BY <2>3, LoopStartsNext
    <2> QED BY <2>1, <2>2, <2>3, <2>4 DEF AccountsInv, PageInv, Ids
  <1>6. CASE UNCHANGED vars
    BY <1>1, <1>6 DEF vars, loop, AccountsInv, PageInv, LoopInv, LoopCore, FewPayments, BothPaidUpTo,
                      PaidSoFar, WhatIsLeft, InDebt, InCredit, Done, Reached, Common, Past, Entered
  <1> QED BY <1>2, <1>3, <1>4, <1>5, <1>6 DEF Next

LEMMA AccountsHolds == Spec => []AccountsInv
  BY InitReads, NextReads, PTL DEF Spec

-----------------------------------------------------------------------------
(* What the page can rely on.                                              *)

\* The balances cancel, whatever expenses, corrections and voidings have arrived
\* in whichever order: what computeBalances gives to one member it takes from
\* others, expense by expense.
THEOREM BalancesAlwaysCancel == Spec => []BalancesCancel
  <1>1. AccountsInv => BalancesCancel
    BY BalancesCancelAlways DEF AccountsInv, PageInv, BalancesCancel
  <1> QED BY <1>1, AccountsHolds, PTL

\* When the loop of computeSettlements ends, its payments are the overlaps of
\* the members' stretches, each once.
THEOREM PaymentsOverlap == Spec => []PaysOverlaps
  <1>1. AccountsInv => PaysOverlaps
    <2> SUFFICES ASSUME AccountsInv, Done
                 PROVE  /\ ToSet(settlements) = computeSettlements(balances)
                        /\ Len(settlements) = Cardinality(computeSettlements(balances))
      BY DEF PaysOverlaps
    <2> DEFINE D == InDebt
               C == InCredit
               p == settlements
               S == DOMAIN p
    <2>1. /\ LoopCore /\ p \in Seq(Payment(D, C))
          /\ balances \in Balances /\ D \in SUBSET Member /\ C \in SUBSET Member
          /\ PaidUpTo(balances, debtors, di, D)
      BY SidesOfBalances DEF AccountsInv, LoopInv, LoopCore, PaidSoFar
    <2>2. /\ \A k \in S : /\ p[k].from \in D /\ p[k].to \in C /\ p[k].amount \in Nat \ {0}
                          /\ p[k] = [from |-> p[k].from, to |-> p[k].to, amount |-> p[k].amount]
          /\ Len(p) \in Nat /\ S = 1 .. Len(p) /\ IsFiniteSet(S)
      <3> HIDE DEF D, C
      <3> QED BY <2>1, PaymentFields
    <2>3. /\ \A k \in S : p[k].amount = Common(p[k].from, p[k].to)
          /\ \A k, l \in S : p[k].from = p[l].from /\ p[k].to = p[l].to => k = l
          /\ \A f \in D, t \in C : Past(f, t) /\ Common(f, t) > 0 =>
               \E k \in S : p[k].from = f /\ p[k].to = t
      BY <2>1 DEF LoopCore, PaidSoFar
    <2>4. \A f \in D, t \in C : Past(f, t)
      <3>1. di = Len(debtors) + 1 /\ Len(debtors) = Cardinality(D) /\ Cardinality(D) \in Nat
        BY <2>1, LoopEnds, Placed DEF PaidUpTo
      <3>2. \A f \in D : Place(balances, D, f) \in 1 .. Cardinality(D)
        BY <2>1, Placed
      <3>3. \A f \in D : Place(balances, D, f) < di
        <4> HIDE DEF D
        <4> QED BY <3>1, <3>2
      <3> QED BY <3>3 DEF Past
    <2> DEFINE Of(f, t) == [from |-> f, to |-> t, amount |-> Common(f, t)]
    <2>5. computeSettlements(balances) = { s \in { Of(f, t) : f \in D, t \in C } : s.amount > 0 }
      BY DEF computeSettlements, Common, InDebt, InCredit
    <2>6. ASSUME NEW k \in S PROVE p[k] \in computeSettlements(balances)
      <3>1. p[k] = Of(p[k].from, p[k].to) /\ p[k].amount > 0
        BY <2>2, <2>3
      <3> QED BY <2>2, <2>5, <3>1
    <2>7. ASSUME NEW s \in computeSettlements(balances) PROVE \E k \in S : p[k] = s
      <3>1. PICK f \in D, t \in C : s = Of(f, t) /\ s.amount > 0
        BY <2>5
      <3>2. PICK k \in S : p[k].from = f /\ p[k].to = t
        BY <2>3, <2>4, <3>1
      <3> QED BY <2>2, <2>3, <3>1, <3>2
    <2>8. ToSet(p) = computeSettlements(balances)
      BY <2>6, <2>7 DEF ToSet
    <2>9. Len(p) = Cardinality(ToSet(p))
      <3> DEFINE f == [k \in S |-> p[k]]
                 T == ToSet(p)
      <3>1. f \in [S -> T] /\ (\A t \in T : \E k \in S : f[k] = t)
        BY DEF ToSet
      <3>2. \A k, l \in S : f[k] = f[l] => k = l
        BY <2>3
      <3> HIDE DEF f, T, S
      <3>3. f \in Bijection(S, T)
        BY <3>1, <3>2 DEF Bijection, Injection, Surjection, IsInjective
      <3>4. ExistsBijection(S, T)
        BY <3>3 DEF ExistsBijection
      <3>5. Cardinality(T) = Cardinality(S)
        BY <2>2, <3>4, FS_Bijection
      <3>6. Cardinality(S) = Len(p)
        <4>1. Cardinality(1 .. Len(p)) = IF 1 > Len(p) THEN 0 ELSE Len(p) - 1 + 1
          BY <2>2, FS_Interval
        <4> QED BY <2>2, <4>1
      <3> QED BY <3>5, <3>6 DEF T
    <2> QED BY <2>8, <2>9
  <1> QED BY <1>1, AccountsHolds, PTL

\* When the loop of computeSettlements ends, its payments as handleSettleUp
\* enters them bring everyone to zero, and they are fewer than the members.
THEOREM PaymentsSettle == Spec => []SettlesAll
  <1>1. AccountsInv => SettlesAll
    <2> SUFFICES ASSUME AccountsInv, Done
                 PROVE  /\ \A m \in Member : balances[m] + Entered(m) = 0
                        /\ settlements # <<>> => Len(settlements) < Cardinality(Member)
      BY DEF SettlesAll
    <2>1. LoopCore /\ FewPayments
      BY DEF AccountsInv, LoopInv
    <2>2. /\ di = Len(debtors) + 1 /\ ci = Len(creditors) + 1
          /\ \A m \in Member : balances[m] + Entered(m) = 0
      BY <2>1, LoopEnds
    <2>3. /\ InDebt \in SUBSET Member /\ InCredit \in SUBSET Member /\ InDebt \cap InCredit = {}
          /\ Len(debtors) = Cardinality(InDebt) /\ Len(creditors) = Cardinality(InCredit)
      BY <2>1, SidesOfBalances DEF LoopCore, PaidUpTo
    <2>4. Cardinality(InDebt) + Cardinality(InCredit) <= Cardinality(Member)
      <3> DEFINE D == InDebt
                 C == InCredit
      <3>1. IsFiniteSet(Member) /\ IsFiniteSet(D) /\ IsFiniteSet(C)
        BY <2>3, LedgerAssumption, FS_Subset
      <3>2. Cardinality(D \cup C) = Cardinality(D) + Cardinality(C) - Cardinality(D \cap C)
        BY <3>1, FS_Union
      <3>3. Cardinality(D \cap C) = 0
        BY <2>3, FS_EmptySet
      <3>4. Cardinality(D \cup C) <= Cardinality(Member)
        <4>1. D \cup C \in SUBSET Member
          BY <2>3
        <4> HIDE DEF D, C
        <4> QED BY <3>1, <4>1, FS_Subset
      <3>5. Cardinality(D) \in Nat /\ Cardinality(C) \in Nat
        BY <3>1, FS_CardinalityType
      <3> HIDE DEF D, C
      <3>6. Cardinality(D) + Cardinality(C) <= Cardinality(Member)
        BY <3>2, <3>3, <3>4, <3>5
      <3> QED BY <3>6 DEF D, C
    <2>5. settlements # <<>> => Len(settlements) < Cardinality(Member)
      <3>1. IsFiniteSet(InDebt) /\ IsFiniteSet(InCredit) /\ IsFiniteSet(Member)
        BY <2>3, LedgerAssumption, FS_Subset
      <3>2. /\ Cardinality(InDebt) \in Nat /\ Cardinality(InCredit) \in Nat
            /\ Cardinality(Member) \in Nat
        BY <3>1, FS_CardinalityType
      <3>3. di > Len(debtors) /\ ci > Len(creditors)
        BY <2>2, <2>3, <3>2
      <3>4. Len(settlements) \in Nat
        BY <2>1 DEF LoopCore, PaidSoFar
      <3>5. settlements # <<>> => Len(settlements) < di + ci - 2
        BY <2>1, <3>3 DEF FewPayments
      <3> QED BY <2>2, <2>3, <2>4, <3>2, <3>4, <3>5
    <2> QED BY <2>2, <2>5
  <1> QED BY <1>1, AccountsHolds, PTL

\* Marking a payment as paid on a page that is up to date brings its two members
\* closer to zero, not past it, and moves nobody else (handleSettleUp).
THEOREM MarkingApproaches == Spec => PaidApproaches
  <1> DEFINE Approaches(s) ==
               LET b == computeBalances(entries)
                   c == computeBalances(entries')
               IN  /\ b[s.from] < c[s.from] /\ c[s.from] <= 0
                   /\ b[s.to] > c[s.to] /\ c[s.to] >= 0
                   /\ \A m \in Member \ {s.from, s.to} : c[m] = b[m]
  <1>1. ASSUME AccountsInv, NEW s \in ToSet(settlements), handleSettleUp(s), shown = entries
        PROVE  Approaches(s)
    <2> DEFINE b == computeBalances(entries)
               c == computeBalances(entries')
               f == s.from
               t == s.to
               a == s.amount
    <2>1. PICK e : /\ entries' = entries \cup {e} /\ e.type = "ExpenseCreated"
                   /\ e.payload = Settlement(f, t, a) /\ e.payload \in BalancedExpense
                   /\ e.id \notin Ids(entries) /\ Sortable(entries \cup {e})
                   /\ \A g \in entries : Before(g, e)
      BY <1>1, SettleUpAppends
    <2>2. /\ f \in InDebt /\ t \in InCredit /\ f # t /\ f \in Member /\ t \in Member
          /\ a \in Nat \ {0} /\ a = Common(f, t)
      BY <1>1, Proposed
    <2>3. /\ b = balances /\ b \in Balances /\ Accounted(entries, Ids(entries))
          /\ InDebt \in SUBSET Member /\ InCredit \in SUBSET Member
      BY <1>1, SidesOfBalances DEF AccountsInv, PageInv, LoopInv, LoopCore, Ids
    <2> HIDE DEF f, t, a
    <2>4. \A m \in Member : c[m] = b[m] + (IF m = f THEN a ELSE IF m = t THEN -a ELSE 0)
      <3> TAKE m \in Member
      <3>1. c[m] = b[m] + Credit(e.payload, m)
        BY <2>1, <2>3, BalancesMove
      <3>2. Credit(Settlement(f, t, a), m) = IF m = f THEN a ELSE IF m = t THEN -a ELSE 0
        BY <2>2, PaymentCredit
      <3> QED BY <2>1, <3>1, <3>2
    <2>5. /\ \A m \in Member : b[m] \in Int
          /\ b[f] = -Size(balances, f) /\ Size(balances, f) \in Nat
          /\ b[t] = Size(balances, t) /\ Size(balances, t) \in Nat
      <3>1. \A m \in Member : b[m] \in Int
        BY <2>3 DEF Balances
      <3>2. balances[f] \in Int /\ Size(balances, f) = -balances[f] /\ Size(balances, f) \in Nat \ {0}
        BY <2>2, <2>3, SidesOfBalances
      <3>3. balances[t] \in Int /\ Size(balances, t) = balances[t] /\ Size(balances, t) \in Nat \ {0}
        BY <2>2, <2>3, SidesOfBalances
      <3> HIDE DEF b
      <3> QED BY <2>3, <3>1, <3>2, <3>3
    <2>6. a <= Size(balances, f) /\ a <= Size(balances, t)
      <3> DEFINE p == Start(balances, InDebt, f)
                 q == End(balances, InDebt, f)
                 r == Start(balances, InCredit, t)
                 u == End(balances, InCredit, t)
      <3>1. p \in Nat /\ q = p + Size(balances, f)
        BY <2>2, <2>3, Stretches
      <3>2. r \in Nat /\ u = r + Size(balances, t)
        BY <2>2, <2>3, Stretches
      <3>3. a = (IF q < u THEN q ELSE u) - (IF p > r THEN p ELSE r)
        BY <2>2 DEF Common, Overlap
      <3> HIDE DEF p, q, r, u
      <3> QED BY <2>5, <3>1, <3>2, <3>3
    <2> HIDE DEF b, c
    <2>7. c[f] = b[f] + a /\ c[t] = b[t] - a
      BY <2>2, <2>4, <2>5
    <2>8. \A m \in Member \ {f, t} : c[m] = b[m]
      BY <2>4, <2>5
    <2>9. /\ b[f] < c[f] /\ c[f] <= 0
          /\ b[t] > c[t] /\ c[t] >= 0
      BY <2>2, <2>5, <2>6, <2>7
    <2> QED BY <2>8, <2>9 DEF b, c, f, t
  <1>2. AccountsInv => \A s \in ToSet(settlements) : handleSettleUp(s) /\ shown = entries => Approaches(s)
    BY <1>1
  <1> QED BY <1>2, AccountsHolds, PTL DEF PaidApproaches

-----------------------------------------------------------------------------
(* The last word on an expense.                                            *)

\* What corrects or voids an expense refers to an earlier entry that states one.
Referred(e, S) ==
  /\ e.type \in Stating \cup {"ExpenseVoided"}
  /\ e.type # "ExpenseCreated" =>
       \E f \in S : /\ f.id = e.payload.ref /\ f.type \in Stating
                    /\ f.id < e.id /\ f.clock < e.clock

RefersBack(S) == \A e \in S : Referred(e, S)

LEMMA RefersBackAfter ==
  ASSUME NEW S, RefersBack(S), NEW e, Referred(e, S)
  PROVE  RefersBack(S \cup {e})
  BY DEF RefersBack, Referred

LEMMA ArrivalRefers ==
  ASSUME Accounted(entries, Ids(entries)), RefersBack(entries), Arrival
  PROVE  RefersBack(entries')
  <1>1. Cardinality(entries) \in Nat /\ \A f \in entries : f.id \in 1 .. Cardinality(entries)
    BY FS_CardinalityType DEF Accounted, Sortable, Said, Ids
  <1>2. ASSUME NEW id \in Referable
        PROVE  \E f \in entries : /\ f.id = id /\ f.type \in Stating /\ f.clock = ClockOf(id)
                                  /\ f.id < NextId /\ f.clock \in Nat
    <2>1. PICK f \in entries : f.id = id /\ f.type \in Stating
      BY DEF Referable, RefersToExpense, Stating
    <2>2. (CHOOSE g \in entries : g.id = id) = f
      BY <2>1 DEF Accounted, Sortable
    <2>3. f.id < NextId
      BY <1>1 DEF NextId
    <2>4. f.clock \in Nat
      BY DEF Accounted, Sortable
    <2> QED BY <2>1, <2>2, <2>3, <2>4 DEF ClockOf
  <1>3. ASSUME NEW type, NEW payload, NEW after, arrive(type, payload, after)
        PROVE  \E e : /\ entries' = entries \cup {e} /\ e.id = NextId /\ e.type = type
                      /\ e.payload = payload /\ e.clock \in after + 1 .. MaxClock
    <2>1. PICK clock \in after + 1 .. MaxClock, dev \in Device :
            entries' = entries \cup {[id |-> NextId, prev |-> NoHash, clock |-> clock, ts |-> 1,
                                      type |-> type, dev |-> dev, payload |-> payload]}
      BY <1>3 DEF arrive
    <2> DEFINE e == [id |-> NextId, prev |-> NoHash, clock |-> clock, ts |-> 1,
                     type |-> type, dev |-> dev, payload |-> payload]
    <2>2. /\ e.id = NextId /\ e.type = type /\ e.payload = payload
          /\ e.clock \in after + 1 .. MaxClock /\ entries' = entries \cup {e}
      BY <2>1
    <2> HIDE DEF e
    <2> QED BY <2>2
  <1>4. ASSUME NEW type \in {"ExpenseCorrection", "ExpenseVoided"}, NEW payload,
               payload.ref \in Referable, arrive(type, payload, ClockOf(payload.ref))
        PROVE  RefersBack(entries')
    <2> DEFINE ref == payload.ref
    <2>1. PICK e : /\ entries' = entries \cup {e} /\ e.id = NextId /\ e.type = type
                   /\ e.payload = payload /\ e.clock \in ClockOf(ref) + 1 .. MaxClock
      BY <1>3, <1>4
    <2>2. PICK f \in entries : /\ f.id = ref /\ f.type \in Stating /\ f.clock = ClockOf(ref)
                               /\ f.id < NextId /\ f.clock \in Nat
      BY <1>2, <1>4
    <2>3. f.clock < e.clock
      BY <2>1, <2>2, CorrectionsAssumption
    <2>4. Referred(e, entries)
      BY <2>1, <2>2, <2>3 DEF Referred, Stating
    <2> QED BY <2>1, <2>4, RefersBackAfter
  <1>5. CASE expenseArrives
    <2>1. PICK m \in Payer : arrive("ExpenseCreated", Shared(m), -1)
      BY <1>5 DEF expenseArrives
    <2>2. PICK e : entries' = entries \cup {e} /\ e.type = "ExpenseCreated"
      BY <1>3, <2>1
    <2>3. Referred(e, entries)
      BY <2>2 DEF Referred, Stating
    <2> QED BY <2>2, <2>3, RefersBackAfter
  <1>6. CASE correctionArrives
    <2>1. PICK m \in Payer, ref \in Referable :
            arrive("ExpenseCorrection", [ref |-> ref, corrected |-> Shared(m)], ClockOf(ref))
      BY <1>6 DEF correctionArrives
    <2> DEFINE p == [ref |-> ref, corrected |-> Shared(m)]
    <2>2. p.ref \in Referable /\ arrive("ExpenseCorrection", p, ClockOf(p.ref))
      BY <2>1
    <2> HIDE DEF p
    <2> QED BY <1>4, <2>2
  <1>7. CASE voidingArrives
    <2>1. PICK ref \in Referable : arrive("ExpenseVoided", [ref |-> ref], ClockOf(ref))
      BY <1>7 DEF voidingArrives
    <2> DEFINE p == [ref |-> ref]
    <2>2. p.ref \in Referable /\ arrive("ExpenseVoided", p, ClockOf(p.ref))
      BY <2>1
    <2> HIDE DEF p
    <2> QED BY <1>4, <2>2
  <1> QED BY <1>5, <1>6, <1>7 DEF Arrival

LEMMA NextRefers == AccountsInv /\ RefersBack(entries) /\ [Next]_vars => RefersBack(entries')
  <1> SUFFICES ASSUME AccountsInv, RefersBack(entries), [Next]_vars PROVE RefersBack(entries')
    OBVIOUS
  <1>1. CASE arrival
    BY <1>1, ArrivalRefers DEF arrival, AccountsInv, PageInv, Ids
  <1>2. ASSUME NEW s \in ToSet(settlements), handleSettleUp(s) PROVE RefersBack(entries')
    <2>1. PICK e : entries' = entries \cup {e} /\ e.type = "ExpenseCreated"
      BY <1>2, SettleUpAppends
    <2>2. Referred(e, entries)
      BY <2>1 DEF Referred, Stating
    <2> QED BY <2>1, <2>2, RefersBackAfter
  <1>3. CASE entries' = entries
    BY <1>3
  <1> QED BY <1>1, <1>2, <1>3 DEF Next, refresh, render, vars

Referring == RefersBack(entries)

LEMMA ReferringHolds == Spec => []Referring
  <1>1. Init => Referring
    <2>1. ASSUME NEW b, NEW e \in Opening(b) PROVE e.type = "ExpenseCreated"
      <3> DEFINE O == { m \in Member \ {First} : b[m] # 0 }
                 Id(m) == Cardinality({ x \in O : Rank[x] <= Rank[m] })
                 Paid(m) == IF b[m] > 0 THEN Settlement(m, First, b[m])
                            ELSE Settlement(First, m, -b[m])
      <3>1. Opening(b) = { [id |-> Id(m), prev |-> NoHash, clock |-> Id(m) - 1, ts |-> 1,
                            type |-> "ExpenseCreated", dev |-> 1, payload |-> Paid(m)] : m \in O }
        BY DEF Opening
      <3> HIDE DEF O, Id, Paid
      <3> QED BY <2>1, <3>1
    <2>2. Init => \A e \in entries : e.type = "ExpenseCreated"
      BY <2>1 DEF Init
    <2> QED BY <2>2 DEF Referring, RefersBack, Referred, Stating
  <1>2. AccountsInv /\ Referring /\ [Next]_vars => Referring'
    BY NextRefers DEF Referring
  <1> QED BY <1>1, <1>2, AccountsHolds, PTL DEF Spec

\* Every id up to the last is that of an entry.
LEMMA EntryHasId ==
  ASSUME NEW S, Accounted(S, Ids(S)), NEW i \in Ids(S)
  PROVE  \E e \in S : e.id = i
  <1> DEFINE n == Cardinality(S)
             f == [e \in S |-> e.id]
  <1>1. n \in Nat
    BY FS_CardinalityType DEF Accounted, Sortable
  <1>2. IsFiniteSet(Ids(S)) /\ Cardinality(Ids(S)) = n
    BY <1>1, FS_Interval DEF Ids
  <1>3. f \in Injection(S, Ids(S))
    BY DEF Accounted, Sortable, Said, Injection, IsInjective
  <1>4. f \in Surjection(S, Ids(S))
    <2> HIDE DEF f
    <2> QED BY <1>2, <1>3, FS_Injection
  <1> QED BY <1>4 DEF Surjection

\* Root follows what entries refer to down to the expense.
LEMMA RootIs ==
  ASSUME Accounted(entries, Ids(entries)), RefersBack(entries)
  PROVE  \A e \in entries :
           Root[e.id] = IF e.type = "ExpenseCreated" THEN e.id ELSE Root[e.payload.ref]
  <1> DEFINE n == Cardinality(entries)
             Ref(i) == (CHOOSE e \in entries : e.id = i).payload.ref
             Value(g, i) == IF i \in Expenses THEN i ELSE g[Ref(i)]
             G == { k \in Nat : k <= n => \E g \in [1 .. k -> Nat] :
                                            \A i \in 1 .. k : g[i] = Value(g, i) }
             root == CHOOSE g : g = [i \in 1 .. n |-> Value(g, i)]
  <1>1. n \in Nat /\ \A e, f \in entries : e.id = f.id => e = f
    BY FS_CardinalityType DEF Accounted, Sortable
  <1>2. \A e \in entries : e.id \in 1 .. n /\ (e.id \in Expenses <=> e.type = "ExpenseCreated")
    <2> TAKE e \in entries
    <2>1. e.id \in 1 .. n
      BY DEF Accounted, Said, Ids
    <2>2. e.id \in Expenses <=> e.type = "ExpenseCreated"
      BY <1>1 DEF Expenses
    <2> QED BY <2>1, <2>2
  <1>3. \A e \in entries : Ref(e.id) = e.payload.ref
    <2> TAKE e \in entries
    <2>1. (CHOOSE f \in entries : f.id = e.id) = e
      BY <1>1
    <2> QED BY <2>1
  <1>4. ASSUME NEW i \in 1 .. n, i \notin Expenses
        PROVE  Ref(i) \in 1 .. n /\ Ref(i) < i
    <2>1. PICK e \in entries : e.id = i
      BY EntryHasId DEF Ids
    <2>2. PICK f \in entries : f.id = e.payload.ref /\ f.id < e.id
      BY <1>2, <1>4, <2>1 DEF RefersBack, Referred
    <2>3. Ref(i) = f.id
      BY <1>3, <2>1, <2>2
    <2> HIDE DEF Ref, n
    <2> QED BY <1>2, <2>1, <2>2, <2>3
  <1> HIDE DEF Ref, n
  <1>5. 0 \in G
    <2> DEFINE g == [i \in 1 .. 0 |-> 0]
    <2>1. g \in [1 .. 0 -> Nat] /\ \A i \in 1 .. 0 : g[i] = Value(g, i)
      OBVIOUS
    <2> HIDE DEF g, Value
    <2> QED BY <2>1
  <1>6. ASSUME NEW k \in Nat, k \in G PROVE k + 1 \in G
    <2> SUFFICES ASSUME k + 1 <= n
                 PROVE  \E g \in [1 .. k + 1 -> Nat] : \A i \in 1 .. k + 1 : g[i] = Value(g, i)
      OBVIOUS
    <2>1. PICK g \in [1 .. k -> Nat] : \A i \in 1 .. k : g[i] = Value(g, i)
      BY <1>1, <1>6
    <2> DEFINE f == [i \in 1 .. k + 1 |-> IF i = k + 1 THEN Value(g, i) ELSE g[i]]
    <2>2. ASSUME NEW i \in 1 .. k + 1, i \notin Expenses PROVE Ref(i) \in 1 .. k /\ Ref(i) < i
      <3>1. i \in 1 .. n
        BY <1>1
      <3>2. Ref(i) \in 1 .. n /\ Ref(i) < i
        BY <1>4, <2>2, <3>1
      <3> QED BY <3>2
    <2>3. \A i \in 1 .. k : i \in 1 .. k + 1 /\ i # k + 1
      OBVIOUS
    <2>4. Value(g, k + 1) \in Nat
      <3>1. k + 1 \in 1 .. k + 1
        OBVIOUS
      <3> QED BY <2>2, <3>1
    <2>5. f \in [1 .. k + 1 -> Nat]
      <3>1. \A i \in 1 .. k + 1 : i # k + 1 => i \in 1 .. k
        OBVIOUS
      <3> HIDE DEF Value
      <3> QED BY <2>4, <3>1
    <2>6. \A i \in 1 .. k : f[i] = g[i]
      <3> HIDE DEF Value
      <3> QED BY <2>3
    <2>7. ASSUME NEW i \in 1 .. k + 1 PROVE f[i] = Value(f, i)
      <3>1. f[i] = Value(g, i)
        <4>1. CASE i = k + 1
          <5> HIDE DEF Value
          <5> QED BY <4>1
        <4>2. CASE i # k + 1
          <5>1. i \in 1 .. k
            BY <4>2
          <5> HIDE DEF f, Value
          <5> QED BY <2>1, <2>6, <5>1
        <4> QED BY <4>1, <4>2
      <3>2. Value(f, i) = Value(g, i)
        <4> HIDE DEF f
        <4> QED BY <2>2, <2>6
      <3> QED BY <3>1, <3>2
    <2> HIDE DEF f, Value
    <2> QED BY <2>5, <2>7
  <1>7. n \in G
    <2> HIDE DEF G
    <2> QED BY <1>1, <1>5, <1>6, NumberInduction
  <1>8. root = [i \in 1 .. n |-> Value(root, i)]
    <2>1. PICK g \in [1 .. n -> Nat] : \A i \in 1 .. n : g[i] = Value(g, i)
      BY <1>1, <1>7
    <2>2. g = [i \in 1 .. n |-> Value(g, i)]
      <3> HIDE DEF Value
      <3> QED BY <2>1
    <2> HIDE DEF Value
    <2> QED BY <2>2
  <1>9. Root = root
    BY DEF Root, Ref, n
  <1>10. ASSUME NEW e \in entries
         PROVE  root[e.id] = IF e.type = "ExpenseCreated" THEN e.id ELSE root[e.payload.ref]
    <2>1. root[e.id] = Value(root, e.id)
      <3> HIDE DEF root, Value
      <3> QED BY <1>2, <1>8
    <2> HIDE DEF root
    <2> QED BY <1>2, <1>3, <2>1
  <1> HIDE DEF root
  <1> QED BY <1>9, <1>10

LEMMA RootTracks ==
  ASSUME Accounted(entries, Ids(entries)), RefersBack(entries)
  PROVE  Tracks(entries, Root)
  <1> DEFINE rho == Root
             Known(e) == \E g \in entries : g.id = rho[e.id] /\ g.type = "ExpenseCreated"
             A == { k \in Nat : \A e \in entries : e.id <= k => Known(e) }
  <1>1. /\ Cardinality(entries) \in Nat
        /\ \A e \in entries : e.id \in Nat \ {0} /\ e.id <= Cardinality(entries)
    BY FS_CardinalityType DEF Accounted, Sortable, Said, Ids
  <1>2. \A e \in entries : rho[e.id] = IF e.type = "ExpenseCreated" THEN e.id ELSE rho[e.payload.ref]
    BY RootIs
  <1> HIDE DEF rho
  <1>3. \A e \in entries : e.type # "ExpenseCreated" =>
          \E f \in entries : /\ f.id = e.payload.ref /\ f.type \in Stating
                             /\ Before(f, e) /\ f.id < e.id /\ rho[f.id] = rho[e.id]
    BY <1>2 DEF RefersBack, Referred, Before
  <1>4. 0 \in A
    BY <1>1
  <1>5. ASSUME NEW k \in Nat, k \in A PROVE k + 1 \in A
    <2> SUFFICES ASSUME NEW e \in entries, e.id <= k + 1 PROVE Known(e)
      OBVIOUS
    <2>1. CASE e.type = "ExpenseCreated"
      BY <1>2, <2>1
    <2>2. CASE e.type # "ExpenseCreated"
      <3>1. PICK f \in entries : f.id < e.id /\ rho[f.id] = rho[e.id]
        BY <1>3, <2>2
      <3>2. f.id <= k
        BY <1>1, <3>1
      <3> QED BY <1>5, <3>1, <3>2
    <2> QED BY <2>1, <2>2
  <1>6. Cardinality(entries) \in A
    <2> HIDE DEF A
    <2> QED BY <1>1, <1>4, <1>5, NumberInduction
  <1>7. \A e \in entries : Known(e)
    BY <1>1, <1>6
  <1>8. Tracks(entries, rho)
    <2>1. \A e \in entries : e.type \in Stating \cup {"ExpenseVoided"}
      BY DEF RefersBack, Referred
    <2> QED BY <1>2, <1>3, <1>7, <2>1 DEF Tracks, Stating
  <1> QED BY <1>8 DEF rho

\* In whatever order expenses, corrections and voidings arrive, what
\* getEffectiveExpenses makes of each expense is the last word on it in the total
\* order, through corrections of corrections as well.
THEOREM LastWordHolds == Spec => []LastWordCounts
  <1>1. AccountsInv /\ Referring => LastWordCounts
    <2> SUFFICES ASSUME AccountsInv, Referring PROVE LastWordCounts
      OBVIOUS
    <2> DEFINE rho == Root
               x == getEffectiveExpenses(entries)
               K == Ids(entries)
    <2>1. Accounted(entries, K) /\ RefersBack(entries) /\ Sortable(entries)
      BY DEF AccountsInv, PageInv, Ids, Referring, Accounted
    <2>2. Tracks(entries, rho)
      BY <2>1, RootTracks
    <2>3. InEffect(x, entries, rho)
      BY <2>1, <2>2, LastWordKept DEF Accounted
    <2>4. ASSUME NEW id \in Expenses
          PROVE  /\ LastWord(id) \in entries /\ LastSaid(entries, rho, LastWord(id))
                 /\ rho[LastWord(id).id] = id
      <3> DEFINE B == GoesBackTo(id)
      <3>1. B = { e \in entries : rho[e.id] = id }
        BY DEF GoesBackTo
      <3>2. B # {} /\ B \in SUBSET entries
        <4>1. PICK e \in entries : e.id = id /\ e.type = "ExpenseCreated"
          BY <2>4 DEF Expenses
        <4>2. rho[e.id] = id
          BY <2>2, <4>1 DEF Tracks
        <4> QED BY <3>1, <4>2
      <3> HIDE DEF B, rho
      <3>3. \E e \in B : IsLatest(e, B)
        BY <2>1, <3>2, SubsetSortable, LatestExists
      <3>4. IsLatest(LastWord(id), B) /\ LastWord(id) \in B
        BY <3>3 DEF LastWord, B
      <3> QED BY <3>1, <3>4 DEF IsLatest, LastSaid
    <2> HIDE DEF rho, x, K
    <2>5. ASSUME NEW w \in entries, LastSaid(entries, rho, w)
          PROVE  rho[w.id] \in Expenses /\ LastWord(rho[w.id]) = w
      <3>1. rho[w.id] \in Expenses
        <4>1. \E g \in entries : g.id = rho[w.id] /\ g.type = "ExpenseCreated"
          BY <2>2 DEF Tracks
        <4> QED BY <4>1 DEF Expenses
      <3> DEFINE v == LastWord(rho[w.id])
      <3>2. v \in entries /\ LastSaid(entries, rho, v) /\ rho[v.id] = rho[w.id]
        BY <2>4, <3>1
      <3> HIDE DEF v
      <3>3. v # w => Before(v, w) /\ Before(w, v)
        BY <2>5, <3>2 DEF LastSaid
      <3>4. v = w
        BY <2>1, <3>2, <3>3, BeforeOrders
      <3> QED BY <3>1, <3>4 DEF v
    <2>6. \A id \in DOMAIN x : id \in Expenses /\ LastWord(id).type # "ExpenseVoided"
      BY <2>3, <2>5 DEF InEffect
    <2>7. ASSUME NEW id \in Expenses, LastWord(id).type # "ExpenseVoided"
          PROVE  id \in DOMAIN x /\ x[id] = Stated(LastWord(id))
      BY <2>3, <2>4, <2>7 DEF InEffect
    <2>8. DOMAIN x = { id \in Expenses : LastWord(id).type # "ExpenseVoided" }
      BY <2>6, <2>7
    <2>9. \A id \in DOMAIN x : x[id] = Stated(LastWord(id))
      BY <2>6, <2>7
    <2> QED BY <2>8, <2>9 DEF LastWordCounts, Stated, x
  <1> QED BY <1>1, AccountsHolds, ReferringHolds, PTL
=============================================================================
