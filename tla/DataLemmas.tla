----------------------------- MODULE DataLemmas -----------------------------
(***************************************************************************)
(* What the operations on vectors, lists and deques do to sequences, and   *)
(* what sums over finite sets do when one of their terms, or the set,      *)
(* changes, and that folds over sequences exist: the facts the proofs of   *)
(* several components need.                                                *)
(***************************************************************************)
EXTENDS Integers, Sequences, SequencesExt, FiniteSetTheorems, WellFoundedInduction, TLAPS

-----------------------------------------------------------------------------
(* Sequences without duplicates.                                           *)

\* Appending an element.
LEMMA AppendSet ==
    ASSUME NEW S, NEW q \in Seq(S), NEW e \in S
    PROVE  ToSet(Append(q, e)) = ToSet(q) \cup {e}
<1>1. /\ DOMAIN Append(q, e) = 1 .. Len(q) + 1 /\ DOMAIN q = 1 .. Len(q) /\ Len(q) \in Nat
      /\ \A i \in 1 .. Len(q) : Append(q, e)[i] = q[i]
      /\ Append(q, e)[Len(q) + 1] = e
  OBVIOUS
<1>2. ToSet(Append(q, e)) \subseteq ToSet(q) \cup {e}
  BY <1>1 DEF ToSet
<1>3. \A i \in DOMAIN q : i \in DOMAIN Append(q, e) /\ Append(q, e)[i] = q[i]
  BY <1>1
<1>4. ToSet(q) \cup {e} \subseteq ToSet(Append(q, e))
  BY <1>1, <1>3 DEF ToSet
<1>. QED BY <1>2, <1>4

\* Appending a new element.
LEMMA AppendNew ==
    ASSUME NEW S, NEW q \in Seq(S), NEW e \in S, IsInjective(q), e \notin ToSet(q)
    PROVE  /\ Append(q, e) \in Seq(S) /\ IsInjective(Append(q, e))
           /\ ToSet(Append(q, e)) = ToSet(q) \cup {e}
<1>. DEFINE r == Append(q, e)
<1>1. /\ r \in Seq(S) /\ Len(r) = Len(q) + 1 /\ Len(q) \in Nat
      /\ DOMAIN r = 1 .. Len(q) + 1 /\ DOMAIN q = 1 .. Len(q)
      /\ \A i \in 1 .. Len(q) : r[i] = q[i]
      /\ r[Len(q) + 1] = e
  OBVIOUS
<1>2. \A i \in DOMAIN q : q[i] # e
  BY DEF ToSet
<1>. HIDE DEF r
<1>3. IsInjective(r)
  BY <1>1, <1>2 DEF IsInjective
<1>. QED BY <1>1, <1>3, AppendSet DEF r

\* Taking the head.
LEMMA TailSet ==
    ASSUME NEW S, NEW q \in Seq(S), IsInjective(q), q # <<>>
    PROVE  /\ Tail(q) \in Seq(S) /\ IsInjective(Tail(q))
           /\ Head(q) \in ToSet(q) /\ ToSet(Tail(q)) = ToSet(q) \ {Head(q)}
<1>. DEFINE r == Tail(q)
<1>1. /\ r \in Seq(S) /\ Len(q) \in Nat /\ Len(q) > 0 /\ Head(q) = q[1]
      /\ DOMAIN r = 1 .. Len(q) - 1 /\ DOMAIN q = 1 .. Len(q)
      /\ \A i \in 1 .. Len(q) - 1 : r[i] = q[i + 1]
  OBVIOUS
<1>. HIDE DEF r
<1>2. IsInjective(r)
  <2>. SUFFICES ASSUME NEW i \in DOMAIN r, NEW j \in DOMAIN r, r[i] = r[j] PROVE i = j
    BY DEF IsInjective
  <2>1. i + 1 \in DOMAIN q /\ j + 1 \in DOMAIN q /\ q[i + 1] = q[j + 1]
    BY <1>1
  <2>2. i + 1 = j + 1
    BY <2>1 DEF IsInjective
  <2>. QED BY <1>1, <2>2
<1>3. ASSUME NEW i \in DOMAIN r PROVE r[i] \in ToSet(q) /\ r[i] # q[1]
  <2>1. i + 1 \in DOMAIN q /\ r[i] = q[i + 1] /\ 1 \in DOMAIN q /\ i + 1 # 1
    BY <1>1
  <2>. QED BY <2>1 DEF ToSet, IsInjective
<1>4. ASSUME NEW i \in DOMAIN q, q[i] # q[1] PROVE q[i] \in ToSet(r)
  <2>1. i - 1 \in DOMAIN r /\ r[i - 1] = q[i]
    BY <1>1, <1>4
  <2>. QED BY <2>1 DEF ToSet
<1>5. ToSet(r) \subseteq ToSet(q) \ {q[1]}
  BY <1>3 DEF ToSet
<1>6. ToSet(q) \ {q[1]} \subseteq ToSet(r)
  BY <1>4 DEF ToSet
<1>7. Head(q) \in ToSet(q)
  BY <1>1 DEF ToSet
<1>. QED BY <1>1, <1>2, <1>5, <1>6, <1>7 DEF r

\* Erasing the element at a position: the others keep their order.
LEMMA RemoveAtSeq ==
    ASSUME NEW S, NEW q \in Seq(S), NEW k \in DOMAIN q
    PROVE  LET r == RemoveAt(q, k)
           IN  /\ r \in Seq(S) /\ Len(r) = Len(q) - 1 /\ DOMAIN r = 1 .. Len(q) - 1
               /\ \A i \in 1 .. Len(q) - 1 : r[i] = IF i < k THEN q[i] ELSE q[i + 1]
<1>. DEFINE r == RemoveAt(q, k)
            a == SubSeq(q, 1, k - 1)
            b == SubSeq(q, k + 1, Len(q))
<1>1. Len(q) \in Nat /\ k \in 1 .. Len(q) /\ DOMAIN q = 1 .. Len(q)
  OBVIOUS
<1>2. a \in Seq(S) /\ Len(a) = k - 1 /\ \A i \in 1 .. k - 1 : a[i] = q[i]
  BY <1>1
<1>3. /\ b \in Seq(S) /\ Len(b) = Len(q) - k
      /\ \A i \in 1 .. Len(q) - k : b[i] = q[k + i]
  BY <1>1
<1>4. r = a \o b
  BY DEF RemoveAt
<1>. HIDE DEF a, b, r
<1>5. /\ r \in Seq(S) /\ Len(r) = Len(q) - 1 /\ DOMAIN r = 1 .. Len(q) - 1
      /\ \A i \in 1 .. Len(q) - 1 : r[i] = IF i < k THEN q[i] ELSE q[i + 1]
  <2>1. r \in Seq(S) /\ Len(r) = Len(q) - 1
    <3>1. a \in Seq(S) /\ b \in Seq(S)
      BY <1>2, <1>3
    <3>2. (a \o b) \in Seq(S)
      BY <3>1
    <3>3. Len(a \o b) = Len(a) + Len(b)
      BY <3>1
    <3>4. r \in Seq(S) /\ Len(r) = Len(a) + Len(b)
      BY <3>2, <3>3, <1>4
    <3>5. k \in Int /\ Len(a) + Len(b) = Len(q) - 1
      BY <1>1, <1>2, <1>3
    <3>. QED BY <3>4, <3>5
  <2>2. ASSUME NEW i \in 1 .. Len(q) - 1, i < k PROVE r[i] = q[i]
    BY <1>1, <1>2, <1>3, <1>4, <2>2
  <2>3. ASSUME NEW i \in 1 .. Len(q) - 1, ~(i < k) PROVE r[i] = q[i + 1]
    <3>1. r[i] = b[i - (k - 1)]
      BY <1>1, <1>2, <1>3, <1>4, <2>3
    <3>2. i - (k - 1) \in 1 .. Len(q) - k /\ k + (i - (k - 1)) = i + 1
      BY <1>1, <2>3
    <3>. QED BY <3>1, <3>2, <1>3
  <2>. QED BY <2>1, <2>2, <2>3
<1>. QED BY <1>5 DEF r

\* Erasing the only occurrence of an element.
LEMMA RemoveAtSet ==
    ASSUME NEW S, NEW q \in Seq(S), IsInjective(q), NEW k \in DOMAIN q
    PROVE  /\ RemoveAt(q, k) \in Seq(S) /\ IsInjective(RemoveAt(q, k))
           /\ ToSet(RemoveAt(q, k)) = ToSet(q) \ {q[k]}
<1>. DEFINE r == RemoveAt(q, k)
<1>1. Len(q) \in Nat /\ k \in 1 .. Len(q) /\ DOMAIN q = 1 .. Len(q)
  OBVIOUS
<1>2. /\ r \in Seq(S) /\ DOMAIN r = 1 .. Len(q) - 1
      /\ \A i \in 1 .. Len(q) - 1 : r[i] = IF i < k THEN q[i] ELSE q[i + 1]
  BY RemoveAtSeq
<1>. HIDE DEF r
<1>3. IsInjective(r)
  <2>. SUFFICES ASSUME NEW i \in DOMAIN r, NEW j \in DOMAIN r, r[i] = r[j] PROVE i = j
    BY DEF IsInjective
  <2>. DEFINE at(n) == IF n < k THEN n ELSE n + 1
  <2>1. at(i) \in DOMAIN q /\ at(j) \in DOMAIN q /\ q[at(i)] = q[at(j)]
    BY <1>1, <1>2
  <2>2. at(i) = at(j)
    BY <2>1 DEF IsInjective
  <2>. QED BY <1>1, <1>2, <2>2
<1>4. ASSUME NEW i \in DOMAIN r PROVE r[i] \in ToSet(q) /\ r[i] # q[k]
  <2>. DEFINE n == IF i < k THEN i ELSE i + 1
  <2>1. n \in DOMAIN q /\ r[i] = q[n] /\ n # k
    BY <1>1, <1>2
  <2>. QED BY <2>1 DEF ToSet, IsInjective
<1>5. ASSUME NEW i \in DOMAIN q, q[i] # q[k] PROVE q[i] \in ToSet(r)
  <2>. DEFINE n == IF i < k THEN i ELSE i - 1
  <2>1. n \in DOMAIN r /\ r[n] = q[i]
    BY <1>1, <1>2, <1>5
  <2>. QED BY <2>1 DEF ToSet
<1>6. ToSet(r) = ToSet(q) \ {q[k]}
  <2>1. ToSet(r) \subseteq ToSet(q) \ {q[k]}
    BY <1>4 DEF ToSet
  <2>2. ToSet(q) \ {q[k]} \subseteq ToSet(r)
    BY <1>5 DEF ToSet
  <2>. QED BY <2>1, <2>2
<1>. QED BY <1>2, <1>3, <1>6 DEF r

\* A sequence without duplicates is as long as its set of elements is large.
LEMMA LenIsCardinality ==
    ASSUME NEW S, NEW q \in Seq(S), IsInjective(q)
    PROVE  IsFiniteSet(ToSet(q)) /\ Cardinality(ToSet(q)) = Len(q)
<1>1. Len(q) \in Nat /\ DOMAIN q = 1 .. Len(q) /\ q \in [1 .. Len(q) -> S]
  OBVIOUS
<1>2. q \in [1 .. Len(q) -> ToSet(q)]
  BY <1>1 DEF ToSet
<1>3. q \in Bijection(1 .. Len(q), ToSet(q))
  <2>1. q \in Injection(1 .. Len(q), ToSet(q))
    BY <1>1, <1>2 DEF Injection, IsInjective
  <2>2. q \in Surjection(1 .. Len(q), ToSet(q))
    BY <1>1, <1>2 DEF Surjection, ToSet
  <2>. QED BY <2>1, <2>2 DEF Bijection
<1>4. ExistsBijection(1 .. Len(q), ToSet(q))
  BY <1>3 DEF ExistsBijection
<1>. QED BY <1>1, <1>4, FS_CountingElements, FS_NatBijection

\* Contains() of the library is membership.
LEMMA ContainsIsMember ==
    ASSUME NEW q, NEW e
    PROVE  Contains(q, e) <=> e \in ToSet(q)
BY DEF Contains, ToSet
-----------------------------------------------------------------------------
(* Induction, stated for sets: the provers cannot instantiate an operator.  *)

\* A set of naturals has a least element.
LEMMA LeastNatural ==
    ASSUME NEW T \in SUBSET Nat, T # {}
    PROVE  \E n \in T : \A m \in T : n <= m
<1>. DEFINE R == OpToRel(<, Nat)
<1>1. IsWellFoundedOn(R, Nat)
  BY NatLessThanWellFounded
<1>2. \A x, y \in Nat : x < y => <<x, y>> \in R
  BY DEF OpToRel
<1>. HIDE DEF R
<1>3. PICK n \in T : \A m \in T : ~(<<m, n>> \in R)
  BY <1>1, WFMin
<1>4. ASSUME NEW m \in T PROVE n <= m
  <2>1. m \in Nat /\ n \in Nat /\ ~(m < n)
    BY <1>2, <1>3
  <2>. QED BY <2>1
<1>. QED BY <1>4

\* Induction on the naturals, for a set.
LEMMA Induction ==
    ASSUME NEW S, 0 \in S, \A n \in Nat : n \in S => n + 1 \in S
    PROVE  Nat \subseteq S
<1>. SUFFICES ASSUME Nat \ S # {} PROVE FALSE
  OBVIOUS
<1>1. PICK n \in Nat \ S : \A m \in Nat \ S : n <= m
  BY LeastNatural
<1>2. n # 0 /\ n - 1 \in Nat /\ n - 1 \in S
  BY <1>1
<1>. QED BY <1>1, <1>2

\* Induction over the subsets of a finite set.
LEMMA SetInduction ==
    ASSUME NEW S, IsFiniteSet(S), NEW P, {} \in P,
           \A s \in SUBSET S : \A x \in S : s \in P /\ x \notin s => s \cup {x} \in P
    PROVE  S \in P
<1>. DEFINE N == {n \in Nat : \A s \in SUBSET S : Cardinality(s) = n => s \in P}
<1>1. \A s \in SUBSET S : IsFiniteSet(s) /\ Cardinality(s) \in Nat
  BY FS_Subset, FS_CardinalityType
<1>2. 0 \in N
  BY <1>1, FS_EmptySet
<1>3. ASSUME NEW n \in Nat, n \in N PROVE n + 1 \in N
  <2>. SUFFICES ASSUME NEW s \in SUBSET S, Cardinality(s) = n + 1 PROVE s \in P
    OBVIOUS
  <2>0. s # {}
    BY FS_EmptySet
  <2>1. PICK x \in s : TRUE
    BY <2>0
  <2>2. Cardinality(s \ {x}) = n
    <3>1. IsFiniteSet(s)
      BY <1>1
    <3>2. Cardinality(s \ {x}) = Cardinality(s) - 1
      BY <2>1, <3>1, FS_RemoveElement
    <3>. QED BY <3>2
  <2>3. s \ {x} \in P
    BY <1>3, <2>2
  <2>4. (s \ {x}) \cup {x} = s
    BY <2>1
  <2>5. s \ {x} \in SUBSET S /\ x \in S /\ x \notin s \ {x}
    BY <2>1
  <2>. QED BY <2>3, <2>4, <2>5
<1>. HIDE DEF N
<1>4. Nat \subseteq N
  BY <1>2, <1>3, Induction
<1>5. Cardinality(S) \in N
  BY <1>1, <1>4
<1>. QED BY <1>5 DEF N
-----------------------------------------------------------------------------
(* Sums.                                                                   *)

\* h gives the sum of f over each subset of S.
IsSum(h, f, S) ==
    /\ h \in [SUBSET S -> Int] /\ h[{}] = 0
    /\ \A s \in SUBSET S : \A x \in S : x \notin s => h[s \cup {x}] = h[s] + f[x]

Total(f, S) == (CHOOSE h : IsSum(h, f, S))[S]

LEMMA SumExtends ==
    ASSUME NEW S, NEW f, NEW h, IsSum(h, f, S), NEW x, x \notin S, f[x] \in Int, \A y \in S : f[y] \in Int
    PROVE  \E k : IsSum(k, f, S \cup {x}) /\ k[S] = h[S]
<1>. DEFINE X == S \cup {x}
            k == [u \in SUBSET X |-> IF x \in u THEN h[u \ {x}] + f[x] ELSE h[u]]
<1>1. \A u \in SUBSET X : u \ {x} \in SUBSET S /\ (x \notin u => u \in SUBSET S)
  OBVIOUS
<1>2. k \in [SUBSET X -> Int] /\ k[{}] = 0 /\ k[S] = h[S]
  BY <1>1 DEF IsSum
<1>4. \A u \in SUBSET X : k[u] = IF x \in u THEN h[u \ {x}] + f[x] ELSE h[u]
  OBVIOUS
<1>. HIDE DEF k
<1>3. ASSUME NEW u \in SUBSET X, NEW y \in X, y \notin u
      PROVE  k[u \cup {y}] = k[u] + f[y]
  <2>0. u \cup {y} \in SUBSET X
    OBVIOUS
  <2>1. CASE y = x
    <3>1. (u \cup {y}) \ {x} = u /\ u \in SUBSET S
      BY <1>3, <2>1
    <3>2. k[u \cup {y}] = h[(u \cup {y}) \ {x}] + f[x] /\ k[u] = h[u]
      BY <1>3, <1>4, <2>0, <2>1
    <3>. QED BY <2>1, <3>1, <3>2
  <2>2. CASE y # x /\ x \notin u
    <3>1. k[u \cup {y}] = h[u \cup {y}] /\ k[u] = h[u] /\ u \in SUBSET S /\ y \in S
      BY <1>4, <2>0, <2>2
    <3>. QED BY <1>3, <3>1 DEF IsSum
  <2>3. CASE y # x /\ x \in u
    <3>1. (u \cup {y}) \ {x} = (u \ {x}) \cup {y} /\ u \ {x} \in SUBSET S /\ y \in S
      BY <2>3
    <3>2. k[u \cup {y}] = h[(u \cup {y}) \ {x}] + f[x] /\ k[u] = h[u \ {x}] + f[x]
      BY <1>4, <2>0, <2>3
    <3>3. h[(u \ {x}) \cup {y}] = h[u \ {x}] + f[y] /\ h[u \ {x}] \in Int
      BY <1>3, <3>1 DEF IsSum
    <3>4. h[(u \ {x}) \cup {y}] \in Int
      BY <3>1 DEF IsSum
    <3>5. f[y] \in Int
      BY <3>1
    <3>6. k[u \cup {y}] = (h[u \ {x}] + f[y]) + f[x]
      BY <3>1, <3>2, <3>3
    <3>. QED BY <3>2, <3>3, <3>5, <3>6
  <2>. QED BY <2>1, <2>2, <2>3
<1>. QED BY <1>2, <1>3 DEF IsSum

Ints(f, S) == \A x \in S : f[x] \in Int

LEMMA SumExists ==
    ASSUME NEW S, IsFiniteSet(S), NEW f, Ints(f, S)
    PROVE  \E h : IsSum(h, f, S)
<1>. DEFINE P == {s \in SUBSET S : \E h : IsSum(h, f, s)}
<1>1. {} \in P
  <2>. DEFINE z == [s \in SUBSET {} |-> 0]
  <2>1. IsSum(z, f, {})
    BY DEF IsSum
  <2>. QED BY <2>1
<1>2. ASSUME NEW s \in SUBSET S, NEW x \in S, s \in P, x \notin s PROVE s \cup {x} \in P
  <2>1. PICK h : IsSum(h, f, s)
    BY <1>2
  <2>2. f[x] \in Int /\ \A y \in s : f[y] \in Int
    BY DEF Ints
  <2>3. \E k : IsSum(k, f, s \cup {x})
    BY <1>2, <2>1, <2>2, SumExtends
  <2>. QED BY <2>3
<1>. HIDE DEF P
<1>3. S \in P
  BY <1>1, <1>2, SetInduction
<1>. QED BY <1>3 DEF P

Agree(f, g, S) == \A x \in S : f[x] = g[x]

LEMMA SumUnique ==
    ASSUME NEW S, NEW R, NEW T, T \subseteq S, T \subseteq R, IsFiniteSet(T),
           NEW f, NEW h, IsSum(h, f, S), NEW g, NEW k, IsSum(k, g, R), Agree(f, g, T)
    PROVE  h[T] = k[T]
<1>. DEFINE P == {s \in SUBSET T : h[s] = k[s]}
<1>1. {} \in P
  BY DEF IsSum
<1>2. ASSUME NEW s \in SUBSET T, NEW x \in T, s \in P, x \notin s PROVE s \cup {x} \in P
  <2>1. h[s \cup {x}] = h[s] + f[x]
    BY <1>2 DEF IsSum
  <2>2. k[s \cup {x}] = k[s] + g[x]
    BY <1>2 DEF IsSum
  <2>. QED BY <1>2, <2>1, <2>2 DEF Agree
<1>. HIDE DEF P
<1>3. T \in P
  BY <1>1, <1>2, SetInduction
<1>. QED BY <1>3 DEF P

LEMMA TotalIs ==
    ASSUME NEW S, IsFiniteSet(S), NEW f, Ints(f, S)
    PROVE  \E h : IsSum(h, f, S) /\ Total(f, S) = h[S]
<1>1. \E h : IsSum(h, f, S)
  BY SumExists
<1>2. IsSum(CHOOSE h : IsSum(h, f, S), f, S)
  BY <1>1
<1>. QED BY <1>2 DEF Total

\* The sum of the empty set, of one element more, and of equal functions.
LEMMA TotalEmpty == ASSUME NEW f PROVE Total(f, {}) = 0
<1>1. IsFiniteSet({}) /\ Ints(f, {})
  BY FS_EmptySet DEF Ints
<1>2. PICK h : IsSum(h, f, {}) /\ Total(f, {}) = h[{}]
  BY <1>1, TotalIs
<1>. QED BY <1>2 DEF IsSum

LEMMA TotalInt ==
    ASSUME NEW S, IsFiniteSet(S), NEW f, Ints(f, S)
    PROVE  Total(f, S) \in Int
<1>1. PICK h : IsSum(h, f, S) /\ Total(f, S) = h[S]
  BY TotalIs
<1>2. S \in SUBSET S
  OBVIOUS
<1>. QED BY <1>1, <1>2 DEF IsSum

LEMMA TotalSame ==
    ASSUME NEW S, IsFiniteSet(S), NEW f, NEW g, Ints(f, S), \A x \in S : f[x] = g[x]
    PROVE  Total(f, S) = Total(g, S)
<1>1. Ints(g, S)
  BY DEF Ints
<1>2. PICK h : IsSum(h, f, S) /\ Total(f, S) = h[S]
  BY TotalIs
<1>3. PICK k : IsSum(k, g, S) /\ Total(g, S) = k[S]
  BY <1>1, TotalIs
<1>4. h[S] = k[S]
  <2>1. S \subseteq S /\ Agree(f, g, S)
    BY DEF Agree
  <2>. QED BY <1>2, <1>3, <2>1, SumUnique
<1>. QED BY <1>2, <1>3, <1>4

LEMMA TotalAdd ==
    ASSUME NEW S, IsFiniteSet(S), NEW x, x \notin S, NEW f, Ints(f, S \cup {x})
    PROVE  Total(f, S \cup {x}) = Total(f, S) + f[x]
<1>. DEFINE X == S \cup {x}
<1>1. IsFiniteSet(X) /\ Ints(f, S)
  BY FS_AddElement DEF Ints
<1>2. PICK k : IsSum(k, f, X) /\ Total(f, X) = k[X]
  BY <1>1, TotalIs
<1>3. PICK h : IsSum(h, f, S) /\ Total(f, S) = h[S]
  BY <1>1, TotalIs
<1>4. h[S] = k[S]
  <2>1. S \subseteq S /\ S \subseteq X /\ Agree(f, f, S)
    BY DEF Agree
  <2>. HIDE DEF X
  <2>. QED BY <1>2, <1>3, <2>1, SumUnique
<1>5. S \in SUBSET X /\ x \in X
  OBVIOUS
<1>6. k[X] = k[S] + f[x]
  BY <1>2, <1>5 DEF IsSum
<1>. QED BY <1>2, <1>3, <1>4, <1>6

LEMMA TotalRemove ==
    ASSUME NEW S, IsFiniteSet(S), NEW x \in S, NEW f, Ints(f, S)
    PROVE  Total(f, S) = Total(f, S \ {x}) + f[x]
<1>. DEFINE R == S \ {x}
<1>1. R \cup {x} = S /\ x \notin R
  OBVIOUS
<1>2. IsFiniteSet(R)
  BY FS_RemoveElement
<1>. HIDE DEF R
<1>3. Ints(f, R \cup {x})
  BY <1>1
<1>4. Total(f, R \cup {x}) = Total(f, R) + f[x]
  BY <1>1, <1>2, <1>3, TotalAdd
<1>. QED BY <1>1, <1>4 DEF R

\* One element of the sum changes.
LEMMA TotalChange ==
    ASSUME NEW S, IsFiniteSet(S), NEW x \in S, NEW f, NEW g, Ints(f, S), Ints(g, S),
           \A y \in S : y # x => g[y] = f[y]
    PROVE  Total(g, S) = Total(f, S) + (g[x] - f[x])
<1>. DEFINE R == S \ {x}
<1>1. IsFiniteSet(R) /\ Ints(f, R) /\ \A y \in R : f[y] = g[y]
  BY FS_RemoveElement DEF Ints
<1>2. Total(f, S) = Total(f, R) + f[x] /\ Total(g, S) = Total(g, R) + g[x]
  BY TotalRemove
<1>. HIDE DEF R
<1>3. Total(f, R) = Total(g, R) /\ Total(f, R) \in Int
  BY <1>1, TotalSame, TotalInt
<1>4. f[x] \in Int /\ g[x] \in Int
  BY DEF Ints
<1>. QED BY <1>2, <1>3, <1>4

\* A sum of equal numbers, of numbers that are not negative, and of an element beside.
LEMMA TotalConstant ==
    ASSUME NEW S, IsFiniteSet(S), NEW c \in Int, NEW f, \A x \in S : f[x] = c
    PROVE  Total(f, S) = c * Cardinality(S)
<1>1. Ints(f, S)
  BY DEF Ints
<1>. DEFINE P == {s \in SUBSET S : Total(f, s) = c * Cardinality(s)}
<1>2. {} \in P
  BY TotalEmpty, FS_EmptySet
<1>3. ASSUME NEW s \in SUBSET S, NEW x \in S, s \in P, x \notin s PROVE s \cup {x} \in P
  <2>1. IsFiniteSet(s) /\ Ints(f, s \cup {x}) /\ Cardinality(s) \in Nat
    BY <1>1, FS_Subset, FS_CardinalityType DEF Ints
  <2>2. Total(f, s \cup {x}) = Total(f, s) + f[x]
    BY <1>3, <2>1, TotalAdd
  <2>3. Cardinality(s \cup {x}) = Cardinality(s) + 1
    BY <1>3, <2>1, FS_AddElement
  <2>4. c * (Cardinality(s) + 1) = c * Cardinality(s) + c
    BY <2>1
  <2>5. Total(f, s \cup {x}) = c * Cardinality(s \cup {x})
    BY <1>3, <2>2, <2>3, <2>4
  <2>. QED BY <2>5
<1>. HIDE DEF P
<1>4. S \in P
  BY <1>2, <1>3, SetInduction
<1>. QED BY <1>4 DEF P

LEMMA TotalNat ==
    ASSUME NEW S, IsFiniteSet(S), NEW f, \A x \in S : f[x] \in Nat
    PROVE  Total(f, S) \in Nat
<1>1. Ints(f, S)
  BY DEF Ints
<1>. DEFINE P == {s \in SUBSET S : Total(f, s) \in Nat}
<1>2. {} \in P
  BY TotalEmpty
<1>3. ASSUME NEW s \in SUBSET S, NEW x \in S, s \in P, x \notin s PROVE s \cup {x} \in P
  <2>1. IsFiniteSet(s) /\ Ints(f, s \cup {x})
    BY <1>1, FS_Subset DEF Ints
  <2>2. Total(f, s \cup {x}) = Total(f, s) + f[x]
    BY <1>3, <2>1, TotalAdd
  <2>. QED BY <1>3, <2>2
<1>. HIDE DEF P
<1>4. S \in P
  BY <1>2, <1>3, SetInduction
<1>. QED BY <1>4 DEF P

Pick(s) == CHOOSE x \in s : TRUE

\* h is the function by which MapThenSumSet() adds up f over S.
FoldsUp(h, f, S) ==
    h = [s \in SUBSET S |-> IF s = {} THEN 0 ELSE f[Pick(s)] + h[s \ {Pick(s)}]]

LEMMA FoldExists ==
    ASSUME NEW S, IsFiniteSet(S), NEW f, Ints(f, S)
    PROVE  \E h : FoldsUp(h, f, S)
<1>1. PICK h : IsSum(h, f, S)
  BY SumExists
<1>2. ASSUME NEW s \in SUBSET S, s # {} PROVE h[s] = f[Pick(s)] + h[s \ {Pick(s)}]
  <2>. DEFINE x == Pick(s)
  <2>1. x \in s
    BY <1>2 DEF Pick
  <2>. HIDE DEF x
  <2>2. (s \ {x}) \cup {x} = s /\ s \ {x} \in SUBSET S /\ x \in S /\ x \notin s \ {x}
    BY <2>1
  <2>3. h[s] = h[s \ {x}] + f[x] /\ h[s \ {x}] \in Int /\ f[x] \in Int
    BY <1>1, <2>2 DEF IsSum, Ints
  <2>4. h[s] = f[x] + h[s \ {x}]
    BY <2>3
  <2>. QED BY <2>4 DEF x
<1>3. h = [s \in SUBSET S |-> IF s = {} THEN 0 ELSE f[Pick(s)] + h[s \ {Pick(s)}]]
  BY <1>1, <1>2 DEF IsSum
<1>. QED BY <1>3 DEF FoldsUp

LEMMA FoldIsTotal ==
    ASSUME NEW S, IsFiniteSet(S), NEW f, Ints(f, S), NEW h, FoldsUp(h, f, S)
    PROVE  h[S] = Total(f, S)
<1>1. PICK k : IsSum(k, f, S) /\ Total(f, S) = k[S]
  BY TotalIs
<1>. DEFINE N == {n \in Nat : \A s \in SUBSET S : Cardinality(s) = n => h[s] = k[s]}
<1>2. \A s \in SUBSET S : IsFiniteSet(s) /\ Cardinality(s) \in Nat
  BY FS_Subset, FS_CardinalityType
<1>3. h[{}] = 0 /\ \A s \in SUBSET S : s # {} => h[s] = f[Pick(s)] + h[s \ {Pick(s)}]
  BY DEF FoldsUp
<1>4. 0 \in N
  <2>1. \A s \in SUBSET S : Cardinality(s) = 0 => s = {}
    BY <1>2, FS_EmptySet
  <2>2. k[{}] = 0
    BY <1>1 DEF IsSum
  <2>. QED BY <1>3, <2>1, <2>2
<1>5. ASSUME NEW n \in Nat, n \in N PROVE n + 1 \in N
  <2>. SUFFICES ASSUME NEW s \in SUBSET S, Cardinality(s) = n + 1 PROVE h[s] = k[s]
    OBVIOUS
  <2>0. s # {}
    BY FS_EmptySet
  <2>. DEFINE x == Pick(s)
  <2>1. x \in s
    BY <2>0 DEF Pick
  <2>2. h[s] = f[x] + h[s \ {x}]
    BY <1>3, <2>0
  <2>. HIDE DEF x
  <2>3. Cardinality(s \ {x}) = n
    <3>1. IsFiniteSet(s)
      BY <1>2
    <3>2. Cardinality(s \ {x}) = Cardinality(s) - 1
      BY <2>1, <3>1, FS_RemoveElement
    <3>. QED BY <3>2
  <2>4. (s \ {x}) \cup {x} = s /\ s \ {x} \in SUBSET S /\ x \in S /\ x \notin s \ {x}
    BY <2>1
  <2>5. h[s \ {x}] = k[s \ {x}]
    BY <1>5, <2>3, <2>4
  <2>6. k[s] = k[s \ {x}] + f[x] /\ k[s \ {x}] \in Int /\ f[x] \in Int
    BY <1>1, <2>4 DEF IsSum, Ints
  <2>. QED BY <2>2, <2>5, <2>6
<1>. HIDE DEF N
<1>6. Cardinality(S) \in N
  <2>1. Nat \subseteq N
    BY <1>4, <1>5, Induction
  <2>2. S \in SUBSET S
    OBVIOUS
  <2>. QED BY <1>2, <2>1, <2>2
<1>7. h[S] = k[S]
  BY <1>6 DEF N
<1>. QED BY <1>1, <1>7

\* What is 0 outside R adds nothing.
LEMMA TotalSupport ==
    ASSUME NEW S, IsFiniteSet(S), NEW R \in SUBSET S, NEW f, Ints(f, R), NEW g,
           \A x \in S : g[x] = IF x \in R THEN f[x] ELSE 0
    PROVE  Total(g, S) = Total(f, R)
<1>0. Ints(g, S)
  BY DEF Ints
<1>. DEFINE P == {s \in SUBSET S : Total(g, s) = Total(f, R \cap s)}
<1>1. {} \in P
  <2>1. R \cap {} = {}
    OBVIOUS
  <2>. QED BY <2>1, TotalEmpty
<1>2. ASSUME NEW s \in SUBSET S, NEW x \in S, s \in P, x \notin s PROVE s \cup {x} \in P
  <2>. SUFFICES Total(g, s \cup {x}) = Total(f, R \cap (s \cup {x}))
    OBVIOUS
  <2>1. IsFiniteSet(s) /\ IsFiniteSet(R \cap s) /\ Ints(g, s \cup {x}) /\ Ints(f, R \cap s)
    BY <1>0, FS_Subset DEF Ints
  <2>2. Total(g, s \cup {x}) = Total(g, s) + g[x]
    BY <1>2, <2>1, TotalAdd
  <2>3. Total(g, s) = Total(f, R \cap s) /\ Total(f, R \cap s) \in Int
    BY <1>2, <2>1, TotalInt
  <2>4. CASE x \in R
    <3>1. R \cap (s \cup {x}) = (R \cap s) \cup {x} /\ x \notin R \cap s
      BY <1>2, <2>4
    <3>2. Ints(f, (R \cap s) \cup {x})
      BY <2>1, <2>4 DEF Ints
    <3>3. Total(f, (R \cap s) \cup {x}) = Total(f, R \cap s) + f[x]
      BY <2>1, <3>1, <3>2, TotalAdd
    <3>. QED BY <2>2, <2>3, <2>4, <3>1, <3>3
  <2>5. CASE x \notin R
    <3>1. R \cap (s \cup {x}) = R \cap s /\ g[x] = 0
      BY <2>5
    <3>2. Total(g, s \cup {x}) = Total(g, s)
      BY <2>2, <2>3, <3>1
    <3>3. Total(f, R \cap (s \cup {x})) = Total(f, R \cap s)
      BY <3>1
    <3>. QED BY <2>3, <3>2, <3>3
  <2>. QED BY <2>4, <2>5
<1>. HIDE DEF P
<1>3. S \in P
  BY <1>1, <1>2, SetInduction
<1>4. R \cap S = R
  OBVIOUS
<1>. QED BY <1>3, <1>4 DEF P

\* A larger set of larger numbers has a larger sum.
LEMMA TotalLe ==
    ASSUME NEW S, IsFiniteSet(S), NEW R \in SUBSET S, NEW f, NEW g, Ints(f, R), Ints(g, S),
           \A x \in R : f[x] <= g[x], \A x \in S \ R : g[x] >= 0
    PROVE  Total(f, R) <= Total(g, S)
<1>. DEFINE P == {s \in SUBSET S : Total(f, R \cap s) <= Total(g, s)}
<1>1. {} \in P
  <2>1. R \cap {} = {}
    OBVIOUS
  <2>. QED BY <2>1, TotalEmpty
<1>2. ASSUME NEW s \in SUBSET S, NEW x \in S, s \in P, x \notin s PROVE s \cup {x} \in P
  <2>. SUFFICES Total(f, R \cap (s \cup {x})) <= Total(g, s \cup {x})
    OBVIOUS
  <2>1. IsFiniteSet(s) /\ IsFiniteSet(R \cap s) /\ Ints(f, R \cap s)
        /\ Ints(g, s \cup {x}) /\ Ints(g, s) /\ g[x] \in Int
    BY FS_Subset DEF Ints
  <2>2. Total(g, s \cup {x}) = Total(g, s) + g[x] /\ Total(g, s) \in Int
    BY <1>2, <2>1, TotalAdd, TotalInt
  <2>3. Total(f, R \cap s) <= Total(g, s) /\ Total(f, R \cap s) \in Int
    BY <1>2, <2>1, TotalInt
  <2>4. CASE x \in R
    <3>1. R \cap (s \cup {x}) = (R \cap s) \cup {x} /\ x \notin R \cap s
      BY <1>2, <2>4
    <3>2. Ints(f, (R \cap s) \cup {x}) /\ f[x] \in Int /\ f[x] <= g[x]
      BY <2>1, <2>4 DEF Ints
    <3>3. Total(f, (R \cap s) \cup {x}) = Total(f, R \cap s) + f[x]
      BY <2>1, <3>1, <3>2, TotalAdd
    <3>4. Total(f, R \cap s) + f[x] <= Total(g, s) + g[x]
      BY <2>1, <2>2, <2>3, <3>2
    <3>. QED BY <2>2, <3>1, <3>3, <3>4
  <2>5. CASE x \notin R
    <3>1. R \cap (s \cup {x}) = R \cap s /\ g[x] >= 0
      BY <2>5
    <3>2. Total(g, s \cup {x}) >= Total(g, s) /\ Total(g, s \cup {x}) \in Int
      BY <2>1, <2>2, <3>1
    <3>3. Total(f, R \cap (s \cup {x})) = Total(f, R \cap s)
      BY <3>1
    <3>. QED BY <2>2, <2>3, <3>2, <3>3
  <2>. QED BY <2>4, <2>5
<1>. HIDE DEF P
<1>3. S \in P
  BY <1>1, <1>2, SetInduction
<1>4. R \cap S = R
  OBVIOUS
<1>. QED BY <1>3, <1>4 DEF P

\* The sum of f over S joined by the values of g, numbered by h beyond S.
LEMMA TotalJoin ==
    ASSUME NEW S, IsFiniteSet(S), NEW T, IsFiniteSet(T), NEW h,
           \A t \in T : h[t] \notin S, \A t, u \in T : h[t] = h[u] => t = u,
           NEW f, Ints(f, S), NEW g, Ints(g, T), NEW k,
           \A x \in S : k[x] = f[x], \A t \in T : k[h[t]] = g[t]
    PROVE  Total(k, S \cup {h[t] : t \in T}) = Total(f, S) + Total(g, T)
<1>. DEFINE Im(s) == {h[t] : t \in s}
            P == {s \in SUBSET T : /\ IsFiniteSet(S \cup Im(s))
                                   /\ Total(k, S \cup Im(s)) = Total(f, S) + Total(g, s)}
<1>0. Total(f, S) \in Int
  BY TotalInt
<1>3. \A V, y : IsFiniteSet(V) /\ y \notin V /\ Ints(k, V \cup {y}) =>
        Total(k, V \cup {y}) = Total(k, V) + k[y]
  BY TotalAdd
<1>1. {} \in P
  <2>1. S \cup Im({}) = S
    OBVIOUS
  <2>2. Total(k, S) = Total(f, S)
    BY TotalSame
  <2>3. Total(k, S) = Total(f, S) + Total(g, {})
    BY <1>0, <2>2, TotalEmpty
  <2>. HIDE DEF Im
  <2>. QED BY <2>1, <2>3
<1>2. ASSUME NEW s \in SUBSET T, NEW x \in T, s \in P, x \notin s PROVE s \cup {x} \in P
  <2>1. IsFiniteSet(s) /\ Ints(g, s \cup {x}) /\ Ints(g, s) /\ g[x] \in Int
    BY FS_Subset DEF Ints
  <2>2. Total(g, s \cup {x}) = Total(g, s) + g[x] /\ Total(g, s) \in Int
    BY <1>2, <2>1, TotalAdd, TotalInt
  <2>3. S \cup Im(s \cup {x}) = (S \cup Im(s)) \cup {h[x]} /\ h[x] \notin S \cup Im(s)
    BY <1>2
  <2>4. Ints(k, (S \cup Im(s)) \cup {h[x]}) /\ k[h[x]] = g[x]
    BY DEF Ints
  <2>5. IsFiniteSet(S \cup Im(s)) /\ Total(k, S \cup Im(s)) = Total(f, S) + Total(g, s)
    BY <1>2
  <2>. DEFINE U == S \cup Im(s)
  <2>. HIDE DEF Im, U
  <2>6. Total(k, U \cup {h[x]}) = Total(k, U) + k[h[x]]
    <3>. DEFINE y == h[x]
    <3>1. IsFiniteSet(U) /\ y \notin U /\ Ints(k, U \cup {y})
      BY <2>3, <2>4, <2>5 DEF U
    <3>. HIDE DEF y
    <3>2. Total(k, U \cup {y}) = Total(k, U) + k[y]
      BY <1>3, <3>1
    <3>. QED BY <3>2 DEF y
  <2>7. IsFiniteSet(U \cup {h[x]})
    BY <2>5, FS_AddElement DEF U
  <2>8. Total(k, S \cup Im(s \cup {x})) = Total(f, S) + Total(g, s \cup {x})
    <3>1. Total(k, S \cup Im(s \cup {x})) = (Total(f, S) + Total(g, s)) + g[x]
      BY <2>3, <2>4, <2>5, <2>6 DEF U
    <3>. QED BY <1>0, <2>1, <2>2, <3>1
  <2>. QED BY <2>3, <2>7, <2>8 DEF U
<1>. HIDE DEF P
<1>4. T \in P
  BY <1>1, <1>2, SetInduction
<1>. QED BY <1>4 DEF P

\* Two shares change, and the others do not grow.
LEMMA TotalShares ==
    ASSUME NEW S, IsFiniteSet(S), NEW f, NEW g, Ints(f, S), Ints(g, S),
           NEW x \in S, NEW c \in Int, NEW y \in S, NEW d \in Int,
           \A z \in S : g[z] <= f[z] + (IF z = x THEN c ELSE 0) + (IF z = y THEN d ELSE 0)
    PROVE  Total(g, S) <= Total(f, S) + c + d
<1>. DEFINE k == [z \in S |-> f[z] + (IF z = x THEN c ELSE 0)]
            l == [z \in S |-> k[z] + (IF z = y THEN d ELSE 0)]
<1>1. /\ \A z \in S : k[z] \in Int /\ k[z] = f[z] + (IF z = x THEN c ELSE 0)
      /\ \A z \in S : l[z] \in Int /\ l[z] = k[z] + (IF z = y THEN d ELSE 0)
      /\ \A z \in S : f[z] \in Int /\ g[z] \in Int
  BY DEF Ints
<1>. HIDE DEF k, l
<1>2. Ints(k, S) /\ Ints(l, S)
  BY <1>1 DEF Ints
<1>3. Total(k, S) = Total(f, S) + (k[x] - f[x])
  BY <1>1, <1>2, TotalChange
<1>4. Total(l, S) = Total(k, S) + (l[y] - k[y])
  <2>1. \A z \in S : z # y => l[z] = k[z]
    BY <1>1
  <2>. QED BY <1>2, <2>1, TotalChange
<1>5. Total(g, S) <= Total(l, S)
  <2>1. S \in SUBSET S /\ S \ S = {}
    OBVIOUS
  <2>2. \A z \in S : g[z] <= l[z]
    BY <1>1
  <2>. QED BY <1>2, <2>1, <2>2, TotalLe
<1>6. Total(f, S) \in Int /\ Total(k, S) \in Int /\ Total(l, S) \in Int /\ Total(g, S) \in Int
  BY <1>2, TotalInt
<1>7. k[x] - f[x] = c /\ l[y] - k[y] = d
  BY <1>1
<1>. QED BY <1>3, <1>4, <1>5, <1>6, <1>7
-----------------------------------------------------------------------------
(* Folds over sequences.  FoldLeft() folds over sets of indices.           *)

\* The greatest of some naturals.
LEMMA MaxIs ==
    ASSUME NEW n \in Nat, NEW s \in SUBSET (1 .. n), s # {}
    PROVE  Max(s) \in s /\ \A y \in s : y <= Max(s)
<1>. DEFINE T == {k \in Nat : n - k \in s}
<1>1. \A y \in s : y \in Nat /\ n - y \in Nat /\ n - (n - y) = y
  OBVIOUS
<1>2. T \in SUBSET Nat /\ T # {}
  <2>1. PICK y \in s : TRUE
    OBVIOUS
  <2>2. n - y \in T
    BY <1>1, <2>1
  <2>. QED BY <2>2
<1>3. PICK k \in T : \A j \in T : k <= j
  BY <1>2, LeastNatural
<1>4. n - k \in s /\ \A y \in s : n - k >= y
  <2>1. \A y \in s : n - y \in T
    BY <1>1
  <2>2. k \in Nat /\ n - k \in s
    BY <1>3
  <2>3. \A y \in s : k <= n - y
    BY <1>3, <2>1
  <2>. QED BY <1>1, <2>2, <2>3
<1>5. \E x \in s : \A y \in s : x >= y
  BY <1>4
<1>6. Max(s) \in s /\ \A y \in s : Max(s) >= y
  BY <1>5 DEF Max
<1>7. Max(s) \in Nat
  BY <1>1, <1>6
<1>. QED BY <1>1, <1>6, <1>7

\* h folds F up from b, over each subset of 1 .. n in ascending order.
FoldsSeq(h, F, b, n) ==
    \A s \in SUBSET (1 .. n) : h[s] = IF s = {} THEN b ELSE F[<<h[s \ {Max(s)}], Max(s)>>]

\* F, of a value and an index, can be folded up with values in V.
HasFold(V, F, b, n) == \E h \in [SUBSET (1 .. n) -> V] : FoldsSeq(h, F, b, n)

LEMMA SeqFoldExists ==
    ASSUME NEW V, NEW b \in V, NEW m \in Nat, NEW F \in [V \X (1 .. m) -> V]
    PROVE  HasFold(V, F, b, m)
<1>. DEFINE N == {n \in Nat : n <= m => HasFold(V, F, b, n)}
<1>1. 0 \in N
  <2>. DEFINE h == [s \in SUBSET (1 .. 0) |-> b]
  <2>1. h \in [SUBSET (1 .. 0) -> V]
    OBVIOUS
  <2>2. \A s \in SUBSET (1 .. 0) : s = {}
    OBVIOUS
  <2>3. FoldsSeq(h, F, b, 0)
    BY <2>2 DEF FoldsSeq
  <2>. HIDE DEF h
  <2>. QED BY <2>1, <2>3 DEF HasFold
<1>2. ASSUME NEW n \in Nat, n \in N PROVE n + 1 \in N
  <2>. SUFFICES ASSUME n + 1 <= m
                PROVE  HasFold(V, F, b, n + 1)
    OBVIOUS
  <2>1. PICK h \in [SUBSET (1 .. n) -> V] : FoldsSeq(h, F, b, n)
    <3>1. n <= m
      OBVIOUS
    <3>. QED BY <1>2, <3>1 DEF HasFold
  <2>. DEFINE g == [s \in SUBSET (1 .. n + 1) |->
                      IF n + 1 \in s THEN F[<<h[s \ {n + 1}], n + 1>>] ELSE h[s]]
  <2>2. ASSUME NEW s \in SUBSET (1 .. n + 1)
        PROVE  /\ s \ {n + 1} \in SUBSET (1 .. n)
               /\ n + 1 \notin s => s \in SUBSET (1 .. n)
    OBVIOUS
  <2>3. g \in [SUBSET (1 .. n + 1) -> V]
    <3>. SUFFICES ASSUME NEW s \in SUBSET (1 .. n + 1) PROVE g[s] \in V
      OBVIOUS
    <3>1. n + 1 \in 1 .. m
      OBVIOUS
    <3>2. CASE n + 1 \in s
      <4>1. h[s \ {n + 1}] \in V
        BY <2>2
      <4>2. <<h[s \ {n + 1}], n + 1>> \in V \X (1 .. m)
        BY <3>1, <4>1
      <4>. QED BY <3>2, <4>2
    <3>3. CASE n + 1 \notin s
      BY <2>2, <3>3
    <3>. QED BY <3>2, <3>3
  <2>4. ASSUME NEW s \in SUBSET (1 .. n + 1), s # {}
        PROVE  g[s] = F[<<g[s \ {Max(s)}], Max(s)>>]
    <3>0. n + 1 \in Nat
      OBVIOUS
    <3>1. Max(s) \in s /\ \A y \in s : y <= Max(s)
      BY <2>4, <3>0, MaxIs
    <3>2. s \ {Max(s)} \in SUBSET (1 .. n + 1)
      OBVIOUS
    <3>3. CASE n + 1 \in s
      <4>1. Max(s) = n + 1
        <5>1. Max(s) \in 1 .. n + 1 /\ n + 1 <= Max(s)
          BY <3>1, <3>3
        <5>. QED BY <5>1
      <4>2. n + 1 \notin s \ {n + 1}
        OBVIOUS
      <4>3. g[s \ {n + 1}] = h[s \ {n + 1}]
        BY <2>2, <4>2
      <4>. QED BY <3>3, <4>1, <4>3
    <3>4. CASE n + 1 \notin s
      <4>1. s \in SUBSET (1 .. n) /\ n + 1 \notin s \ {Max(s)}
        BY <2>2, <3>4
      <4>2. g[s] = h[s] /\ g[s \ {Max(s)}] = h[s \ {Max(s)}]
        BY <3>2, <3>4, <4>1
      <4>3. h[s] = F[<<h[s \ {Max(s)}], Max(s)>>]
        BY <2>1, <2>4, <4>1 DEF FoldsSeq
      <4>. QED BY <4>2, <4>3
    <3>. QED BY <3>3, <3>4
  <2>5. g[{}] = b
    <3>1. h[{}] = b
      BY <2>1 DEF FoldsSeq
    <3>. QED BY <3>1
  <2>. HIDE DEF g
  <2>6. FoldsSeq(g, F, b, n + 1)
    BY <2>4, <2>5 DEF FoldsSeq
  <2>. QED BY <2>3, <2>6 DEF HasFold
<1>. HIDE DEF N
<1>3. m \in N
  BY <1>1, <1>2, Induction
<1>4. m <= m
  OBVIOUS
<1>. QED BY <1>3, <1>4 DEF N

\* Which members a set from 1 on has, and what is left without the greatest.
LEMMA UpTo ==
    ASSUME NEW k \in Nat
    PROVE  1 .. k + 1 # {} /\ Max(1 .. k + 1) = k + 1 /\ (1 .. k + 1) \ {k + 1} = 1 .. k
<1>1. k + 1 \in Nat /\ k + 1 \in 1 .. k + 1
  OBVIOUS
<1>2. Max(1 .. k + 1) \in 1 .. k + 1 /\ k + 1 <= Max(1 .. k + 1)
  BY <1>1, MaxIs
<1>. QED BY <1>1, <1>2
=============================================================================
