---------------------------- MODULE Arithmetic ----------------------------
(***************************************************************************)
(* Lemmas about numbers that the other proofs rest on: the remainder       *)
(* operator, as the ring buffer uses it (size_t counters that wrap modulo  *)
(* m, differences of two such counters, and the slot of a wrapped counter  *)
(* in a ring whose size divides m); least elements and induction for sets  *)
(* of naturals; powers of two; and sums over finite sets.                  *)
(***************************************************************************)
EXTENDS Integers, FiniteSets, FiniteSetTheorems, WellFoundedInduction, TLAPS

(* Quotient and remainder of n by m. *)
LEMMA DivisionDef ==
  ASSUME NEW n \in Int, NEW m \in Nat \ {0}
  PROVE  /\ n \div m \in Int
         /\ n % m \in 0 .. m - 1
         /\ n = (n \div m) * m + (n % m)
BY SMT

(* The remainder is the only number of 0 .. m - 1 congruent to n. *)
LEMMA DivisionUnique ==
  ASSUME NEW m \in Nat \ {0}, NEW q \in Int, NEW r \in 0 .. m - 1
  PROVE  (q * m + r) % m = r
BY SMT

(* A number smaller than m is its own remainder. *)
LEMMA SmallRemainder ==
  ASSUME NEW m \in Nat \ {0}, NEW r \in 0 .. m - 1
  PROVE  r % m = r
BY SMT

(* Incrementing a wrapped counter is wrapping the incremented counter. *)
LEMMA WrapSucc ==
  ASSUME NEW n \in Nat, NEW m \in Nat \ {0}
  PROVE  ((n % m) + 1) % m = (n + 1) % m
<1> DEFINE q == n \div m
           r == n % m
<1>1. q \in Int /\ r \in 0 .. m - 1 /\ n = q * m + r
  BY DivisionDef
<1> HIDE DEF q, r
<1>2. CASE r + 1 < m
  <2>1. r + 1 \in 0 .. m - 1  BY <1>1, <1>2
  <2>2. (q * m + (r + 1)) % m = r + 1  BY <1>1, <2>1, DivisionUnique
  <2>3. q * m + (r + 1) = n + 1  BY <1>1
  <2>4. (r + 1) % m = r + 1  BY <2>1, SmallRemainder
  <2> QED  BY <2>2, <2>3, <2>4 DEF r
<1>3. CASE r + 1 = m
  <2>1. 0 \in 0 .. m - 1 /\ 1 \in Int /\ q + 1 \in Int  BY <1>1
  <2>2. (1 * m + 0) % m = 0  BY <2>1, DivisionUnique
  <2>3. ((q + 1) * m + 0) % m = 0  BY <2>1, DivisionUnique
  <2>4. (q + 1) * m + 0 = n + 1  BY <1>1, <1>3
  <2>5. (r + 1) % m = 0  BY <1>3, <2>2
  <2> QED  BY <2>3, <2>4, <2>5 DEF r
<1> QED  BY <1>1, <1>2, <1>3

(* The difference of two wrapped counters, itself wrapped, is the real     *)
(* difference as long as that is smaller than m: the reason why the        *)
(* queue's `h - tail' needs no special case when the counters overflow.    *)
LEMMA WrapDiff ==
  ASSUME NEW a \in Nat, NEW b \in Nat, NEW m \in Nat \ {0}, a - b \in 0 .. m - 1
  PROVE  ((a % m) - (b % m)) % m = a - b
<1> DEFINE qa == a \div m
           ra == a % m
           qb == b \div m
           rb == b % m
<1>1. qa \in Int /\ ra \in 0 .. m - 1 /\ a = qa * m + ra
  BY DivisionDef
<1>2. qb \in Int /\ rb \in 0 .. m - 1 /\ b = qb * m + rb
  BY DivisionDef
<1> HIDE DEF qa, ra, qb, rb
<1>3. ra - rb = (qb - qa) * m + (a - b)
  BY <1>1, <1>2
<1>4. qb - qa \in Int  BY <1>1, <1>2
<1>5. ((qb - qa) * m + (a - b)) % m = a - b
  BY <1>4, DivisionUnique
<1> QED  BY <1>3, <1>5 DEF ra, rb

(* Two numbers less than m apart with the same remainder are equal. *)
LEMMA SameRemainder ==
  ASSUME NEW a \in Nat, NEW b \in Nat, NEW m \in Nat \ {0},
         a - b \in 0 .. m - 1, a % m = b % m
  PROVE  a = b
<1>1. ((a % m) - (b % m)) % m = a - b  BY WrapDiff
<1>2. a % m \in Int  BY DivisionDef
<1>3. (a % m) - (b % m) = 0  BY <1>2
<1>4. 0 % m = 0  BY SmallRemainder
<1> QED  BY <1>1, <1>3, <1>4

(* The slot of a wrapped counter is the slot of the counter. *)
LEMMA WrapSlot ==
  ASSUME NEW n \in Nat, NEW c \in Nat \ {0}, NEW k \in Nat \ {0}
  PROVE  (n % (k * c)) % c = n % c
<1> DEFINE m  == k * c
           q  == n \div m
           r  == n % m
           qc == r \div c
           rc == r % c
<1>1. m \in Nat \ {0}  BY SMT
<1>2. q \in Int /\ r \in 0 .. m - 1 /\ n = q * m + r
  <2> HIDE DEF m
  <2> QED  BY <1>1, DivisionDef
<1>3. r \in Int  BY <1>1, <1>2
<1>4. qc \in Int /\ rc \in 0 .. c - 1 /\ r = qc * c + rc
  <2> HIDE DEF r
  <2> QED  BY <1>3, DivisionDef
<1> HIDE DEF q, r, qc, rc
<1>5. n = (q * k + qc) * c + rc
  BY <1>2, <1>4
<1>6. q * k + qc \in Int  BY <1>2, <1>4
<1>7. ((q * k + qc) * c + rc) % c = rc
  BY <1>4, <1>6, DivisionUnique
<1> QED  BY <1>5, <1>7 DEF rc, r

LEMMA ScaledBound ==
  ASSUME NEW N \in Nat, NEW a \in Int, NEW b \in Int, NEW c \in Int, a <= b, N * b < c
  PROVE  N * a < c
<1>1. N * b = N * a + N * (b - a) /\ N * a \in Int /\ N * b \in Int /\ N * (b - a) \in Int
  OBVIOUS
<1>2. b - a \in Nat
  OBVIOUS
<1>3. N * (b - a) \in Nat
  BY <1>2
<1> QED  BY <1>1, <1>3

(* Every set of naturals that is not empty has a least element. *)
LEMMA Smallest ==
  ASSUME NEW S \in SUBSET Nat, S # {}
  PROVE  \E m \in S : \A k \in S : m <= k
<1>1. PICK m \in S : \A k \in S : <<k, m>> \notin OpToRel(<, Nat)
  BY NatLessThanWellFounded, WFMin
<1>2. \A k \in S : ~(k < m)
  BY <1>1 DEF OpToRel
<1> QED  BY <1>2

(* What holds of 0 and, with a number, of the next holds of all. *)
LEMMA ByInduction ==
  ASSUME NEW P \in SUBSET Nat, 0 \in P, \A k \in P : k + 1 \in P
  PROVE  P = Nat
<1> SUFFICES ASSUME P # Nat PROVE FALSE
  OBVIOUS
<1> DEFINE Q == Nat \ P
<1>1. PICK m \in Q : \A k \in Q : m <= k
  <2>1. Q \in SUBSET Nat /\ Q # {}
    OBVIOUS
  <2> HIDE DEF Q
  <2> QED  BY <2>1, Smallest
<1>2. m \in Nat /\ m # 0 /\ m \notin P
  OBVIOUS
<1>3. m - 1 \in Nat /\ m - 1 + 1 = m /\ ~(m <= m - 1)
  BY <1>2
<1>4. m - 1 \in P
  BY <1>1, <1>3
<1> QED  BY <1>2, <1>3, <1>4

(* A set of positions has a first and a last one. *)
LEMMA Ends ==
  ASSUME NEW m \in Nat, NEW P \in SUBSET (1 .. m), P # {}
  PROVE  \E f, l \in P : \A i \in P : f <= i /\ i <= l
<1>1. P \in SUBSET Nat
  OBVIOUS
<1>2. PICK f \in P : \A i \in P : f <= i
  BY <1>1, Smallest
<1> DEFINE Q == {m - i : i \in P}
<1>3. Q \in SUBSET Nat /\ Q # {}
  OBVIOUS
<1>4. PICK q \in Q : \A j \in Q : q <= j
  <2> HIDE DEF Q
  <2> QED  BY <1>3, Smallest
<1>5. PICK l \in P : q = m - l
  OBVIOUS
<1>6. \A i \in P : m - l <= m - i
  BY <1>4, <1>5
<1>7. \A i \in P : i <= l
  <2> SUFFICES ASSUME NEW i \in P PROVE i <= l
    OBVIOUS
  <2>1. m - l <= m - i /\ i \in Int /\ l \in Int
    BY <1>6
  <2> QED  BY <2>1
<1> QED  BY <1>2, <1>7

(* Powers of two, as the numbers of the subsets of a set. *)
LEMMA PowersOfTwoStep ==
  ASSUME NEW k \in Nat
  PROVE  2 ^ k \in Nat \ {0} /\ 2 ^ (k + 1) \in Nat \ {0} /\ 2 ^ (k + 1) = 2 * 2 ^ k
<1> DEFINE S == 1 .. k
           x == k + 1
           A == SUBSET S
           B == {T \cup {x} : T \in A}
<1>1. IsFiniteSet(S) /\ Cardinality(S) = k /\ x \notin S
  <2>1. IsFiniteSet(1 .. k) /\ Cardinality(1 .. k) = IF 1 > k THEN 0 ELSE k - 1 + 1
    BY FS_Interval
  <2> QED  BY <2>1
<1>2. IsFiniteSet(S \cup {x}) /\ Cardinality(S \cup {x}) = k + 1
  <2> HIDE DEF S, x
  <2> QED  BY <1>1, FS_AddElement
<1> HIDE DEF S, x
<1>3. IsFiniteSet(A) /\ Cardinality(A) = 2 ^ k /\ Cardinality(SUBSET (S \cup {x})) = 2 ^ (k + 1)
  BY <1>1, <1>2, FS_SUBSET
<1>4. IsFiniteSet(B) /\ Cardinality(B) = Cardinality(A)
  <2> DEFINE f == [T \in A |-> T \cup {x}]
  <2>1. f \in [A -> B] /\ (\A T, U \in A : f[T] = f[U] => T = U) /\ (\A V \in B : \E T \in A : f[T] = V)
    BY <1>1
  <2> HIDE DEF f, A, B
  <2>2. f \in Bijection(A, B)
    BY <2>1 DEF Bijection, Injection, Surjection, IsInjective
  <2> QED  BY <1>3, <2>2, FS_Bijection DEF ExistsBijection
<1>5. SUBSET (S \cup {x}) = A \cup B /\ A \cap B = {}
  <2>1. ASSUME NEW V \in SUBSET (S \cup {x}), x \in V PROVE V \in B
    <3>1. V \ {x} \in A /\ V = (V \ {x}) \cup {x}
      BY <2>1
    <3> QED  BY <3>1
  <2>2. ASSUME NEW V \in SUBSET (S \cup {x}), x \notin V PROVE V \in A
    BY <2>2
  <2>3. A \cap B = {}
    BY <1>1
  <2>4. A \cup B \subseteq SUBSET (S \cup {x})
    OBVIOUS
  <2>5. SUBSET (S \cup {x}) \subseteq A \cup B
    BY <2>1, <2>2
  <2> QED  BY <2>3, <2>4, <2>5
<1>6. Cardinality(A \cup B) = Cardinality(A) + Cardinality(B) - Cardinality(A \cap B)
  <2> HIDE DEF A, B
  <2> QED  BY <1>3, <1>4, FS_Union
<1>7. Cardinality(A) \in Nat /\ Cardinality({}) = 0 /\ Cardinality(A) # 0
  <2>1. A # {}
    OBVIOUS
  <2> HIDE DEF A
  <2> QED  BY <1>3, <2>1, FS_CardinalityType, FS_EmptySet
<1> HIDE DEF A, B
<1>8. 2 ^ (k + 1) = Cardinality(A) + Cardinality(A) - 0
  BY <1>3, <1>4, <1>5, <1>6, <1>7
<1> DEFINE p == 2 ^ k
           q == 2 ^ (k + 1)
<1>9. p = Cardinality(A) /\ q = Cardinality(A) + Cardinality(A) - 0
  BY <1>3, <1>8
<1> HIDE DEF p, q
<1>10. p \in Nat \ {0} /\ q \in Nat \ {0} /\ q = 2 * p
  BY <1>7, <1>9
<1> QED  BY <1>10 DEF p, q

(* A larger exponent has a larger power. *)
LEMMA PowersGrow ==
  ASSUME NEW j \in Nat, NEW k \in Nat, j <= k
  PROVE  2 ^ j <= 2 ^ k
<1> DEFINE P == {d \in Nat : 2 ^ j <= 2 ^ (j + d)}
<1>1. 0 \in P
  <2>1. j + 0 = j /\ 2 ^ j \in Nat
    BY PowersOfTwoStep
  <2> QED  BY <2>1
<1>2. ASSUME NEW d \in P PROVE d + 1 \in P
  <2> DEFINE a == 2 ^ j
             b == 2 ^ (j + d)
             c == 2 ^ (j + d + 1)
  <2>1. a \in Nat /\ b \in Nat /\ c = 2 * b
    BY PowersOfTwoStep
  <2>2. a <= b /\ j + (d + 1) = j + d + 1 /\ d + 1 \in Nat
    OBVIOUS
  <2> HIDE DEF a, b, c
  <2>3. a <= c
    BY <2>1, <2>2
  <2> QED  BY <2>2, <2>3 DEF a, c
<1>3. P = Nat
  <2>1. P \in SUBSET Nat
    OBVIOUS
  <2> HIDE DEF P
  <2> QED  BY <1>1, <1>2, <2>1, ByInduction
<1>4. k - j \in P
  <2> HIDE DEF P
  <2>1. k - j \in Nat
    OBVIOUS
  <2> QED  BY <1>3, <2>1
<1>5. 2 ^ j <= 2 ^ (j + (k - j))
  BY <1>4
<1>6. j + (k - j) = k
  OBVIOUS
<1> QED  BY <1>5, <1>6

(* A smaller power has a smaller exponent. *)
LEMMA Exponents ==
  ASSUME NEW j \in Nat, NEW k \in Nat, 2 ^ j < 2 ^ k
  PROVE  j < k
<1>1. 2 ^ j \in Nat /\ 2 ^ k \in Nat
  BY PowersOfTwoStep
<1>2. k <= j => 2 ^ k <= 2 ^ j
  BY PowersGrow
<1>3. ~(k <= j)
  <2> DEFINE a == 2 ^ j
             b == 2 ^ k
  <2>1. a \in Nat /\ b \in Nat /\ a < b /\ (k <= j => b <= a)
    BY <1>1, <1>2
  <2> HIDE DEF a, b
  <2> QED  BY <2>1
<1> QED  BY <1>3

---------------------------------------------------------------------------
(* Sums over finite sets, as the folds of the community modules compute    *)
(* them: one element is chosen and added to the sum of the others.         *)

SumBody(f, sums, s) ==
  IF s = {} THEN 0 ELSE LET x == CHOOSE x \in s : TRUE IN f[x] + sums[s \ {x}]

SumOver(f, S) == LET sums[s \in SUBSET S] == SumBody(f, sums, s) IN sums[S]

IsTable(f, D, t) == t = [s \in D |-> SumBody(f, t, s)]

(* Taking the chosen element away leaves one element less. *)
LEMMA OneLess ==
  ASSUME NEW s, IsFiniteSet(s), s # {}, NEW x \in s
  PROVE  /\ IsFiniteSet(s \ {x}) /\ Cardinality(s \ {x}) \in Nat
         /\ Cardinality(s) = Cardinality(s \ {x}) + 1
<1>1. IsFiniteSet(s \ {x}) /\ Cardinality(s \ {x}) = Cardinality(s) - 1
  BY FS_RemoveElement
<1>2. Cardinality(s) \in Nat /\ Cardinality(s \ {x}) \in Nat
  BY <1>1, FS_CardinalityType
<1> QED  BY <1>1, <1>2

LEMMA TableExists ==
  ASSUME NEW f, NEW S, IsFiniteSet(S)
  PROVE  \E t : IsTable(f, SUBSET S, t)
<1> DEFINE Level(k) == {s \in SUBSET S : Cardinality(s) <= k}
           P == {k \in Nat : \E t : IsTable(f, Level(k), t)}
<1>1. \A s \in SUBSET S : IsFiniteSet(s) /\ Cardinality(s) \in Nat
  BY FS_Subset, FS_CardinalityType
<1>2. 0 \in P
  <2> DEFINE t == [s \in Level(0) |-> 0]
  <2>1. \A s \in Level(0) : s = {}
    <3> TAKE s \in Level(0)
    <3>1. Cardinality(s) = 0 /\ IsFiniteSet(s)
      BY <1>1
    <3> QED  BY <3>1, FS_EmptySet
  <2> HIDE DEF Level
  <2>2. IsTable(f, Level(0), t)
    BY <2>1 DEF IsTable, SumBody
  <2> QED  BY <2>2
<1>3. ASSUME NEW k \in P PROVE k + 1 \in P
  <2>1. PICK g : IsTable(f, Level(k), g)
    OBVIOUS
  <2> DEFINE t == [s \in Level(k + 1) |-> SumBody(f, g, s)]
  <2>2. \A s \in Level(k) : s \in Level(k + 1)
    BY <1>1
  <2>3. \A s \in Level(k + 1) : s # {} => \A x \in s : s \ {x} \in Level(k)
    <3> SUFFICES ASSUME NEW s \in Level(k + 1), NEW x \in s PROVE s \ {x} \in Level(k)
      OBVIOUS
    <3>1. IsFiniteSet(s) /\ Cardinality(s) \in Nat /\ Cardinality(s) <= k + 1 /\ s \ {x} \in SUBSET S
      BY <1>1
    <3>2. Cardinality(s) = Cardinality(s \ {x}) + 1 /\ Cardinality(s \ {x}) \in Nat
      BY <3>1, OneLess
    <3> QED  BY <3>1, <3>2
  <2> HIDE DEF Level
  <2>4. \A s \in Level(k) : t[s] = g[s]
    BY <2>1, <2>2 DEF IsTable
  <2>5. \A s \in Level(k + 1) : SumBody(f, t, s) = SumBody(f, g, s)
    <3> HIDE DEF t
    <3> SUFFICES ASSUME NEW s \in Level(k + 1), s # {} PROVE SumBody(f, t, s) = SumBody(f, g, s)
      BY DEF SumBody
    <3>1. PICK x \in s : x = CHOOSE y \in s : TRUE
      OBVIOUS
    <3>2. t[s \ {x}] = g[s \ {x}]
      BY <2>3, <2>4
    <3> QED  BY <3>1, <3>2 DEF SumBody
  <2>6. IsTable(f, Level(k + 1), t)
    BY <2>5 DEF IsTable
  <2> HIDE DEF t
  <2> QED  BY <2>6
<1>4. P = Nat
  <2> HIDE DEF P
  <2>1. P \in SUBSET Nat
    BY DEF P
  <2> QED  BY <1>2, <1>3, <2>1, ByInduction
<1>5. Cardinality(S) \in P
  BY <1>1, <1>4
<1>6. \A s \in SUBSET S : Cardinality(s) <= Cardinality(S)
  BY FS_Subset
<1>7. Level(Cardinality(S)) = SUBSET S
  BY <1>6
<1> HIDE DEF Level
<1> QED  BY <1>5, <1>7

LEMMA SumIsInTable ==
  ASSUME NEW f, NEW S, IsFiniteSet(S)
  PROVE  \E t : IsTable(f, SUBSET S, t) /\ SumOver(f, S) = t[S]
BY TableExists DEF SumOver, IsTable

LEMMA TablesAgree ==
  ASSUME NEW f, NEW S, NEW T, NEW t, NEW u, IsFiniteSet(S), T \subseteq S,
         IsTable(f, SUBSET S, t), IsTable(f, SUBSET T, u)
  PROVE  \A s \in SUBSET T : t[s] = u[s]
<1> DEFINE P == {k \in Nat : \A s \in SUBSET T : Cardinality(s) = k => t[s] = u[s]}
<1>1. \A s \in SUBSET T : IsFiniteSet(s) /\ Cardinality(s) \in Nat
  BY FS_Subset, FS_CardinalityType
<1>2. \A s \in SUBSET T : t[s] = SumBody(f, t, s) /\ u[s] = SumBody(f, u, s)
  BY DEF IsTable
<1>3. 0 \in P
  <2>1. \A s \in SUBSET T : Cardinality(s) = 0 => s = {}
    BY <1>1, FS_EmptySet
  <2> QED  BY <1>2, <2>1 DEF SumBody
<1>4. ASSUME NEW k \in P PROVE k + 1 \in P
  <2> SUFFICES ASSUME NEW s \in SUBSET T, Cardinality(s) = k + 1 PROVE t[s] = u[s]
    OBVIOUS
  <2>1. s # {}
    <3>1. k \in Nat /\ k + 1 # 0
      OBVIOUS
    <3> QED  BY <3>1, FS_EmptySet
  <2>2. PICK x \in s : x = CHOOSE y \in s : TRUE
    BY <2>1
  <2>3. Cardinality(s \ {x}) = k
    <3>1. Cardinality(s) = Cardinality(s \ {x}) + 1 /\ Cardinality(s \ {x}) \in Nat
      BY <1>1, <2>1, OneLess
    <3> QED  BY <3>1
  <2>4. t[s \ {x}] = u[s \ {x}]
    BY <2>3
  <2> QED  BY <1>2, <2>1, <2>2, <2>4 DEF SumBody
<1>5. P = Nat
  <2> HIDE DEF P
  <2>1. P \in SUBSET Nat
    BY DEF P
  <2> QED  BY <1>3, <1>4, <2>1, ByInduction
<1> QED  BY <1>1, <1>5

LEMMA SumOfSubset ==
  ASSUME NEW f, NEW S, NEW T, NEW t, IsFiniteSet(S), T \subseteq S, IsTable(f, SUBSET S, t)
  PROVE  SumOver(f, T) = t[T]
<1>1. IsFiniteSet(T)
  BY FS_Subset
<1>2. PICK u : IsTable(f, SUBSET T, u) /\ SumOver(f, T) = u[T]
  BY <1>1, SumIsInTable
<1>3. t[T] = u[T]
  BY <1>2, TablesAgree
<1> QED  BY <1>2, <1>3

LEMMA SumOfNone ==
  ASSUME NEW f PROVE SumOver(f, {}) = 0
<1>1. PICK t : IsTable(f, SUBSET {}, t) /\ SumOver(f, {}) = t[{}]
  BY FS_EmptySet, SumIsInTable
<1> QED  BY <1>1 DEF IsTable, SumBody

LEMMA SumUnfolds ==
  ASSUME NEW f, NEW S, IsFiniteSet(S), S # {}
  PROVE  \E x \in S : SumOver(f, S) = f[x] + SumOver(f, S \ {x})
<1>1. PICK t : IsTable(f, SUBSET S, t) /\ SumOver(f, S) = t[S]
  BY SumIsInTable
<1>2. PICK x \in S : x = CHOOSE y \in S : TRUE
  OBVIOUS
<1>3. t[S] = f[x] + t[S \ {x}]
  BY <1>1, <1>2 DEF IsTable, SumBody
<1>4. SumOver(f, S \ {x}) = t[S \ {x}]
  BY <1>1, SumOfSubset
<1> QED  BY <1>1, <1>3, <1>4

(* A sum is in every set that has 0 and the summands and is closed under   *)
(* addition.                                                               *)
LEMMA SumStays ==
  ASSUME NEW f, NEW S, IsFiniteSet(S),
         NEW D, 0 \in D, \A a, b \in D : a + b \in D, \A x \in S : f[x] \in D
  PROVE  SumOver(f, S) \in D
<1> DEFINE P == {k \in Nat : \A s \in SUBSET S : Cardinality(s) = k => SumOver(f, s) \in D}
<1>1. \A s \in SUBSET S : IsFiniteSet(s) /\ Cardinality(s) \in Nat
  BY FS_Subset, FS_CardinalityType
<1>2. 0 \in P
  BY <1>1, FS_EmptySet, SumOfNone
<1>3. ASSUME NEW k \in P PROVE k + 1 \in P
  <2> SUFFICES ASSUME NEW s \in SUBSET S, Cardinality(s) = k + 1 PROVE SumOver(f, s) \in D
    OBVIOUS
  <2>1. k \in Nat /\ k + 1 # 0 /\ s # {}
    BY FS_EmptySet
  <2>2. PICK x \in s : SumOver(f, s) = f[x] + SumOver(f, s \ {x})
    BY <1>1, <2>1, SumUnfolds
  <2>3. Cardinality(s \ {x}) = k
    <3>1. Cardinality(s) = Cardinality(s \ {x}) + 1 /\ Cardinality(s \ {x}) \in Nat
      BY <1>1, <2>1, OneLess
    <3> QED  BY <2>1, <3>1
  <2>4. SumOver(f, s \ {x}) \in D
    BY <2>3
  <2> QED  BY <2>2, <2>4
<1>4. P = Nat
  <2> HIDE DEF P
  <2>1. P \in SUBSET Nat
    BY DEF P
  <2> QED  BY <1>2, <1>3, <2>1, ByInduction
<1> QED  BY <1>1, <1>4

(* It does not matter which element is taken out. *)
LEMMA SumSplits ==
  ASSUME NEW f, NEW S, IsFiniteSet(S), \A x \in S : f[x] \in Int, NEW y \in S
  PROVE  SumOver(f, S) = f[y] + SumOver(f, S \ {y})
<1> DEFINE Splits(s) == \A z \in s : SumOver(f, s) = f[z] + SumOver(f, s \ {z})
           P == {k \in Nat : \A s \in SUBSET S : Cardinality(s) = k => Splits(s)}
<1>1. \A s \in SUBSET S : IsFiniteSet(s) /\ Cardinality(s) \in Nat
  BY FS_Subset, FS_CardinalityType
<1>2. \A s \in SUBSET S : SumOver(f, s) \in Int
  BY <1>1, SumStays
<1>3. 0 \in P
  BY <1>1, FS_EmptySet
<1>4. ASSUME NEW k \in P PROVE k + 1 \in P
  <2> SUFFICES ASSUME NEW s \in SUBSET S, Cardinality(s) = k + 1, NEW z \in s
               PROVE  SumOver(f, s) = f[z] + SumOver(f, s \ {z})
    OBVIOUS
  <2>1. k \in Nat
    OBVIOUS
  <2>2. \A x \in s : Cardinality(s \ {x}) = k
    <3>1. \A x \in s : Cardinality(s) = Cardinality(s \ {x}) + 1 /\ Cardinality(s \ {x}) \in Nat
      BY <1>1, OneLess
    <3> QED  BY <2>1, <3>1
  <2>3. PICK x \in s : SumOver(f, s) = f[x] + SumOver(f, s \ {x})
    BY <1>1, SumUnfolds
  <2>4. CASE x = z
    BY <2>3, <2>4
  <2>5. CASE x # z
    <3> DEFINE r == (s \ {x}) \ {z}
    <3>1. Splits(s \ {x}) /\ Splits(s \ {z})
      BY <2>2
    <3>2. r = (s \ {z}) \ {x} /\ r \in SUBSET S
      OBVIOUS
    <3>3. SumOver(f, s \ {x}) = f[z] + SumOver(f, r) /\ SumOver(f, s \ {z}) = f[x] + SumOver(f, r)
      BY <2>5, <3>1, <3>2
    <3>4. f[x] \in Int /\ f[z] \in Int /\ SumOver(f, r) \in Int
      BY <1>2, <3>2
    <3> HIDE DEF r
    <3> QED  BY <2>3, <3>3, <3>4
  <2> QED  BY <2>4, <2>5
<1>5. P = Nat
  <2> HIDE DEF P
  <2>1. P \in SUBSET Nat
    BY DEF P
  <2> QED  BY <1>3, <1>4, <2>1, ByInduction
<1> QED  BY <1>1, <1>5

LEMMA SumExtends ==
  ASSUME NEW f, NEW S, IsFiniteSet(S), NEW y, y \notin S, \A x \in S \cup {y} : f[x] \in Int
  PROVE  SumOver(f, S \cup {y}) = SumOver(f, S) + f[y]
<1>1. IsFiniteSet(S \cup {y}) /\ (S \cup {y}) \ {y} = S
  BY FS_AddElement
<1>2. SumOver(f, S \cup {y}) = f[y] + SumOver(f, S)
  <2> DEFINE T == S \cup {y}
  <2>1. y \in T /\ IsFiniteSet(T) /\ T \ {y} = S /\ \A x \in T : f[x] \in Int
    BY <1>1
  <2> HIDE DEF T
  <2>2. SumOver(f, T) = f[y] + SumOver(f, S)
    BY <2>1, SumSplits
  <2> QED  BY <2>2 DEF T
<1>3. f[y] \in Int /\ SumOver(f, S) \in Int
  BY SumStays
<1> QED  BY <1>2, <1>3

(* The sum over two sets that have nothing in common. *)
LEMMA SumUnites ==
  ASSUME NEW f, NEW S, IsFiniteSet(S), NEW T, IsFiniteSet(T), S \cap T = {},
         \A x \in S \cup T : f[x] \in Int
  PROVE  SumOver(f, S \cup T) = SumOver(f, S) + SumOver(f, T)
<1> DEFINE Adds(t) == SumOver(f, S \cup t) = SumOver(f, S) + SumOver(f, t)
           P == {k \in Nat : \A t \in SUBSET T : Cardinality(t) = k => Adds(t)}
<1>1. \A t \in SUBSET T : IsFiniteSet(t) /\ Cardinality(t) \in Nat /\ IsFiniteSet(S \cup t)
  BY FS_Subset, FS_CardinalityType, FS_Union
<1>2. \A t \in SUBSET T : SumOver(f, S) \in Int /\ SumOver(f, t) \in Int
  <2>1. \A t \in SUBSET (S \cup T) : IsFiniteSet(t) => SumOver(f, t) \in Int
    <3> SUFFICES ASSUME NEW t \in SUBSET (S \cup T), IsFiniteSet(t) PROVE SumOver(f, t) \in Int
      OBVIOUS
    <3> QED  BY SumStays
  <2> QED  BY <1>1, <2>1
<1>3. 0 \in P
  <2>1. Adds({})
    BY <1>2, SumOfNone
  <2> HIDE DEF Adds
  <2> QED  BY <1>1, <2>1, FS_EmptySet
<1>4. ASSUME NEW k \in P PROVE k + 1 \in P
  <2> SUFFICES ASSUME NEW t \in SUBSET T, Cardinality(t) = k + 1 PROVE Adds(t)
    OBVIOUS
  <2>1. k \in Nat /\ k + 1 # 0 /\ t # {}
    BY FS_EmptySet
  <2>2. PICK x \in t : TRUE
    BY <2>1
  <2> DEFINE r == t \ {x}
  <2>3. r \in SUBSET T /\ Cardinality(r) = k
    <3>1. Cardinality(t) = Cardinality(t \ {x}) + 1 /\ Cardinality(t \ {x}) \in Nat
      BY <1>1, OneLess
    <3> QED  BY <2>1, <3>1
  <2>4. Adds(r)
    BY <2>3
  <2>5. SumOver(f, t) = SumOver(f, r) + f[x]
    <3>1. r \cup {x} = t /\ IsFiniteSet(r)
      BY <1>1, <2>3
    <3>2. x \notin r /\ \A z \in r \cup {x} : f[z] \in Int
      BY <3>1
    <3> HIDE DEF r
    <3>3. SumOver(f, r \cup {x}) = SumOver(f, r) + f[x]
      BY <3>1, <3>2, SumExtends
    <3> QED  BY <3>1, <3>3
  <2>6. SumOver(f, S \cup t) = SumOver(f, S \cup r) + f[x]
    <3> DEFINE Q == S \cup r
    <3>1. Q \cup {x} = S \cup t /\ IsFiniteSet(Q) /\ x \notin Q /\ \A z \in Q \cup {x} : f[z] \in Int
      BY <1>1, <2>3
    <3> HIDE DEF Q, r
    <3>2. SumOver(f, Q \cup {x}) = SumOver(f, Q) + f[x]
      BY <3>1, SumExtends
    <3> QED  BY <3>1, <3>2 DEF Q
  <2>7. f[x] \in Int
    OBVIOUS
  <2> HIDE DEF r
  <2> QED  BY <1>2, <2>3, <2>4, <2>5, <2>6, <2>7
<1>5. P = Nat
  <2> HIDE DEF P
  <2>1. P \in SUBSET Nat
    BY DEF P
  <2> QED  BY <1>3, <1>4, <2>1, ByInduction
<1> QED  BY <1>1, <1>5
===========================================================================
