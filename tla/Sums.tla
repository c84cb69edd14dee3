-------------------------------- MODULE Sums --------------------------------
(***************************************************************************)
(* Sums over finite sets, as MapThenSumSet computes them: it takes the     *)
(* elements of a set away one at a time, whichever CHOOSE names.  Here is  *)
(* what does not depend on that order.  The number of elements carries     *)
(* every induction, through the least set that would be an exception.      *)
(* At the end, the sequences that list a finite set in a given order.      *)
(***************************************************************************)
EXTENDS Integers, FiniteSets, FiniteSetsExt, FiniteSetTheorems, WellFoundedInduction, TLAPS

\* What the elements of S add up to by f.
SumOver(f, S) == MapThenSumSet(LAMBDA x : f[x], S)

Chosen(s) == CHOOSE x \in s : TRUE

\* k is the table of the sums of all subsets of S that the fold builds.
IsTable(f, S, k) ==
  k = [s \in SUBSET S |-> IF s = {} THEN 0 ELSE f[Chosen(s)] + k[s \ {Chosen(s)}]]

-----------------------------------------------------------------------------
\* What holds of 0 and of the successor of each number it holds of.
LEMMA EveryNatural ==
  ASSUME NEW T, 0 \in T, \A n \in Nat : n \in T => n + 1 \in T
  PROVE  \A n \in Nat : n \in T
<1> SUFFICES ASSUME NEW m \in Nat, m \notin T PROVE FALSE
  OBVIOUS
<1> DEFINE R == OpToRel(<, Nat)
           U == Nat \ T
<1>1. IsWellFoundedOn(R, Nat)
  BY NatLessThanWellFounded
<1>2. U \subseteq Nat /\ U # {}
  OBVIOUS
<1>3. \A y \in U, x \in U : y < x => <<y, x>> \in R
  BY DEF OpToRel
<1> HIDE DEF R
<1>4. PICK x \in U : \A y \in U : ~ (<<y, x>> \in R)
  <2> HIDE DEF U
  <2> QED BY <1>1, <1>2, WFMin
<1>5. x # 0 /\ x - 1 \in Nat /\ x \in Nat /\ x \notin T
  BY <1>4
<1>6. x - 1 \in T
  <2>1. x - 1 \in U => <<x - 1, x>> \in R
    BY <1>3, <1>5
  <2>2. x - 1 \notin U
    BY <2>1, <1>4
  <2> QED BY <2>2, <1>5
<1>7. (x - 1) + 1 = x
  BY <1>5
<1> QED BY <1>5, <1>6, <1>7

LEMMA ChosenIn == ASSUME NEW s, s # {} PROVE Chosen(s) \in s
BY DEF Chosen

\* One element less.
LEMMA OneLess ==
  ASSUME NEW s, IsFiniteSet(s), NEW a \in s
  PROVE  /\ IsFiniteSet(s \ {a})
         /\ Cardinality(s \ {a}) \in Nat
         /\ Cardinality(s) = Cardinality(s \ {a}) + 1
BY FS_RemoveElement, FS_CardinalityType

LEMMA TableExists ==
  ASSUME NEW S, IsFiniteSet(S), NEW f
  PROVE  \E k : IsTable(f, S, k)
<1> DEFINE Row(k, s) == IF s = {} THEN 0 ELSE f[Chosen(s)] + k[s \ {Chosen(s)}]
           Upto(n, k) == \A s \in SUBSET S : Cardinality(s) <= n => k[s] = Row(k, s)
           T == {n \in Nat : \E k : Upto(n, k)}
<1>1. \A s \in SUBSET S : IsFiniteSet(s) /\ Cardinality(s) \in Nat /\ Cardinality(s) <= Cardinality(S)
  BY FS_Subset, FS_CardinalityType
<1>2. 0 \in T
  <2> DEFINE k == [s \in SUBSET S |-> 0]
  <2>1. ASSUME NEW s \in SUBSET S, Cardinality(s) <= 0
        PROVE  k[s] = Row(k, s)
    <3>1. Cardinality(s) = 0
      BY <1>1, <2>1
    <3> QED BY <1>1, <3>1, FS_EmptySet
  <2>2. Upto(0, k)
    BY <2>1
  <2> QED BY <2>2
<1>3. ASSUME NEW n \in Nat, n \in T
      PROVE  n + 1 \in T
  <2>1. PICK k : Upto(n, k)
    BY <1>3
  <2> DEFINE m == [s \in SUBSET S |-> Row(k, s)]
  <2>2. \A s \in SUBSET S : Cardinality(s) <= n => m[s] = k[s]
    BY <2>1
  <2>3. ASSUME NEW s \in SUBSET S, Cardinality(s) <= n + 1
        PROVE  m[s] = Row(m, s)
    <3>1. CASE s = {}
      BY <3>1
    <3>2. CASE s # {}
      <4> DEFINE x == Chosen(s)
      <4>1. x \in s
        BY <3>2, ChosenIn
      <4>2. s \ {x} \in SUBSET S /\ Cardinality(s \ {x}) <= n
        BY <4>1, <2>3, <1>1, OneLess
      <4>3. m[s \ {x}] = k[s \ {x}]
        BY <4>2, <2>2
      <4>4. m[s] = f[x] + k[s \ {x}]
        BY <3>2
      <4>5. Row(m, s) = f[x] + m[s \ {x}]
        BY <3>2
      <4> QED BY <4>3, <4>4, <4>5
    <3> QED BY <3>1, <3>2
  <2>4. Upto(n + 1, m)
    BY <2>3
  <2> HIDE DEF Upto
  <2> QED BY <2>4
<1>4. Cardinality(S) \in T
  <2>1. Cardinality(S) \in Nat
    BY FS_CardinalityType
  <2> HIDE DEF T
  <2> QED BY <1>2, <1>3, <2>1, EveryNatural
<1>5. PICK k : Upto(Cardinality(S), k)
  BY <1>4
<1> DEFINE m == [s \in SUBSET S |-> k[s]]
<1>6. \A s \in SUBSET S : m[s] = Row(m, s)
  <2> SUFFICES ASSUME NEW s \in SUBSET S PROVE m[s] = Row(m, s)
    OBVIOUS
  <2>1. k[s] = Row(k, s)
    BY <1>1, <1>5
  <2>2. s # {} => s \ {Chosen(s)} \in SUBSET S
    OBVIOUS
  <2> QED BY <2>1, <2>2
<1>7. m = [s \in SUBSET S |-> Row(m, s)]
  BY <1>6
<1> QED BY <1>7 DEF IsTable

\* Two tables agree on a set on which their summands do.
LEMMA TablesAgree ==
  ASSUME NEW S, NEW f, NEW k, IsTable(f, S, k), NEW T, NEW g, NEW m, IsTable(g, T, m),
         NEW s, IsFiniteSet(s), s \subseteq S, s \subseteq T, \A x \in s : f[x] = g[x]
  PROVE  k[s] = m[s]
<1> DEFINE U == {n \in Nat : \A t \in SUBSET s : Cardinality(t) = n => k[t] = m[t]}
<1>1. \A t \in SUBSET s : IsFiniteSet(t) /\ Cardinality(t) \in Nat
  BY FS_Subset, FS_CardinalityType
<1>2. \A t \in SUBSET s : k[t] = IF t = {} THEN 0 ELSE f[Chosen(t)] + k[t \ {Chosen(t)}]
  BY DEF IsTable
<1>3. \A t \in SUBSET s : m[t] = IF t = {} THEN 0 ELSE g[Chosen(t)] + m[t \ {Chosen(t)}]
  BY DEF IsTable
<1>4. 0 \in U
  <2> SUFFICES ASSUME NEW t \in SUBSET s, Cardinality(t) = 0 PROVE k[t] = m[t]
    OBVIOUS
  <2>1. t = {}
    BY <1>1, FS_EmptySet
  <2> QED BY <2>1, <1>2, <1>3
<1>5. ASSUME NEW n \in Nat, n \in U
      PROVE  n + 1 \in U
  <2> SUFFICES ASSUME NEW t \in SUBSET s, Cardinality(t) = n + 1 PROVE k[t] = m[t]
    OBVIOUS
  <2>1. t # {}
    BY FS_EmptySet
  <2> DEFINE x == Chosen(t)
  <2>2. x \in t
    BY <2>1, ChosenIn
  <2>3. t \ {x} \in SUBSET s /\ Cardinality(t \ {x}) = n
    BY <2>2, <1>1, OneLess
  <2>4. k[t \ {x}] = m[t \ {x}]
    BY <2>3, <1>5
  <2>5. f[x] = g[x]
    BY <2>2
  <2>6. k[t] = f[x] + k[t \ {x}]
    BY <2>1, <1>2
  <2>7. m[t] = g[x] + m[t \ {x}]
    BY <2>1, <1>3
  <2> QED BY <2>4, <2>5, <2>6, <2>7
<1>6. Cardinality(s) \in U
  <2>1. Cardinality(s) \in Nat
    BY <1>1
  <2> HIDE DEF U
  <2> QED BY <1>4, <1>5, <2>1, EveryNatural
<1> QED BY <1>6

\* The entries of a table are integers, natural numbers when the summands are.
LEMMA TableType ==
  ASSUME NEW S, IsFiniteSet(S), NEW f, NEW k, IsTable(f, S, k),
         NEW N, 0 \in N, \A x \in S : f[x] \in N, \A i, j \in N : i + j \in N
  PROVE  \A s \in SUBSET S : k[s] \in N
<1> DEFINE U == {n \in Nat : \A s \in SUBSET S : Cardinality(s) = n => k[s] \in N}
<1>1. \A s \in SUBSET S : IsFiniteSet(s) /\ Cardinality(s) \in Nat
  BY FS_Subset, FS_CardinalityType
<1>2. \A s \in SUBSET S : k[s] = IF s = {} THEN 0 ELSE f[Chosen(s)] + k[s \ {Chosen(s)}]
  BY DEF IsTable
<1>3. 0 \in U
  <2> SUFFICES ASSUME NEW s \in SUBSET S, Cardinality(s) = 0 PROVE k[s] \in N
    OBVIOUS
  <2>1. s = {}
    BY <1>1, FS_EmptySet
  <2> QED BY <2>1, <1>2
<1>4. ASSUME NEW n \in Nat, n \in U
      PROVE  n + 1 \in U
  <2> SUFFICES ASSUME NEW s \in SUBSET S, Cardinality(s) = n + 1 PROVE k[s] \in N
    OBVIOUS
  <2>1. s # {}
    BY FS_EmptySet
  <2> DEFINE x == Chosen(s)
  <2>2. x \in s /\ k[s] = f[x] + k[s \ {x}]
    BY <2>1, <1>2, ChosenIn
  <2> HIDE DEF x
  <2>3. s \ {x} \in SUBSET S /\ Cardinality(s \ {x}) = n
    BY <1>1, <2>2, OneLess
  <2>4. k[s \ {x}] \in N /\ f[x] \in N
    BY <1>4, <2>2, <2>3
  <2> QED BY <2>2, <2>4
<1>5. \A n \in Nat : n \in U
  <2> HIDE DEF U
  <2> QED BY <1>3, <1>4, EveryNatural
<1> QED BY <1>1, <1>5

LEMMA TableOfIntegers ==
  ASSUME NEW S, IsFiniteSet(S), NEW f, NEW k, IsTable(f, S, k), \A x \in S : f[x] \in Int
  PROVE  \A s \in SUBSET S : k[s] \in Int
<1>1. 0 \in Int /\ \A i, j \in Int : i + j \in Int
  OBVIOUS
<1> DEFINE N == Int
<1>2. 0 \in N /\ (\A x \in S : f[x] \in N) /\ \A i, j \in N : i + j \in N
  BY <1>1
<1> HIDE DEF N
<1>3. \A s \in SUBSET S : k[s] \in N
  BY <1>2, TableType
<1> QED BY <1>3 DEF N

LEMMA TableOfNaturals ==
  ASSUME NEW S, IsFiniteSet(S), NEW f, NEW k, IsTable(f, S, k), \A x \in S : f[x] \in Nat
  PROVE  \A s \in SUBSET S : k[s] \in Nat
<1>1. 0 \in Nat /\ \A i, j \in Nat : i + j \in Nat
  OBVIOUS
<1> DEFINE N == Nat
<1>2. 0 \in N /\ (\A x \in S : f[x] \in N) /\ \A i, j \in N : i + j \in N
  BY <1>1
<1> HIDE DEF N
<1>3. \A s \in SUBSET S : k[s] \in N
  BY <1>2, TableType
<1> QED BY <1>3 DEF N

\* Any element may be taken away first.
LEMMA AnyFirst ==
  ASSUME NEW S, IsFiniteSet(S), NEW f, \A x \in S : f[x] \in Int, NEW k, IsTable(f, S, k)
  PROVE  \A s \in SUBSET S : \A a \in s : k[s] = f[a] + k[s \ {a}]
<1> DEFINE Holds(s) == \A a \in s : k[s] = f[a] + k[s \ {a}]
           U == {n \in Nat : \A s \in SUBSET S : Cardinality(s) = n => Holds(s)}
<1>1. \A s \in SUBSET S : IsFiniteSet(s) /\ Cardinality(s) \in Nat
  BY FS_Subset, FS_CardinalityType
<1>2. \A s \in SUBSET S : s # {} => k[s] = f[Chosen(s)] + k[s \ {Chosen(s)}]
  BY DEF IsTable
<1>3. \A s \in SUBSET S : k[s] \in Int
  BY TableOfIntegers
<1>4. 0 \in U
  <2> SUFFICES ASSUME NEW s \in SUBSET S, Cardinality(s) = 0 PROVE Holds(s)
    OBVIOUS
  <2>1. s = {}
    BY <1>1, FS_EmptySet
  <2> QED BY <2>1
<1>5. ASSUME NEW n \in Nat, n \in U
      PROVE  n + 1 \in U
  <2> SUFFICES ASSUME NEW s \in SUBSET S, Cardinality(s) = n + 1, NEW a \in s
               PROVE  k[s] = f[a] + k[s \ {a}]
    OBVIOUS
  <2> DEFINE x == Chosen(s)
  <2>1. x \in s /\ k[s] = f[x] + k[s \ {x}]
    BY <1>2, ChosenIn
  <2> HIDE DEF x
  <2>2. CASE a = x
    BY <2>1, <2>2
  <2>3. CASE a # x
    <3>1. /\ s \ {a} \in SUBSET S /\ Cardinality(s \ {a}) = n /\ x \in s \ {a}
          /\ s \ {x} \in SUBSET S /\ Cardinality(s \ {x}) = n /\ a \in s \ {x}
      BY <1>1, <2>1, <2>3, OneLess
    <3>2. k[s \ {x}] = f[a] + k[(s \ {x}) \ {a}] /\ k[s \ {a}] = f[x] + k[(s \ {a}) \ {x}]
      BY <3>1, <1>5
    <3>3. (s \ {a}) \ {x} = (s \ {x}) \ {a}
      OBVIOUS
    <3>4. f[a] \in Int /\ f[x] \in Int /\ k[(s \ {x}) \ {a}] \in Int
      BY <1>3, <2>1
    <3> DEFINE rest == k[(s \ {x}) \ {a}]
    <3>5. k[s] = f[x] + (f[a] + rest) /\ k[s \ {a}] = f[x] + rest /\ rest \in Int
      BY <2>1, <3>2, <3>3, <3>4
    <3> HIDE DEF rest
    <3> QED BY <3>4, <3>5
  <2> QED BY <2>2, <2>3
<1>6. \A n \in Nat : n \in U
  <2> HIDE DEF U
  <2> QED BY <1>4, <1>5, EveryNatural
<1> QED BY <1>1, <1>6

-----------------------------------------------------------------------------
\* The sum is what any table says of its set.
LEMMA SumInTable ==
  ASSUME NEW T, NEW f, NEW k, IsTable(f, T, k), NEW S, S \subseteq T, IsFiniteSet(S)
  PROVE  SumOver(f, S) = k[S]
<1> DEFINE m == CHOOSE m : IsTable(f, S, m)
<1>1. IsTable(f, S, m)
  BY TableExists
<1>2. SumOver(f, S) = m[S]
  BY DEF SumOver, MapThenSumSet, MapThenFoldSet, IsTable, Chosen
<1> HIDE DEF m
<1>3. m[S] = k[S]
  BY <1>1, TablesAgree
<1> QED BY <1>2, <1>3

LEMMA SumOfNone == ASSUME NEW f PROVE SumOver(f, {}) = 0
<1>1. PICK k : IsTable(f, {}, k)
  BY TableExists, FS_EmptySet
<1>2. k[{}] = 0
  BY <1>1 DEF IsTable
<1> QED BY <1>1, <1>2, SumInTable, FS_EmptySet

\* An element more adds its own summand.
LEMMA SumOfOneMore ==
  ASSUME NEW S, IsFiniteSet(S), NEW a, a \notin S, NEW f, \A x \in S \cup {a} : f[x] \in Int
  PROVE  SumOver(f, S \cup {a}) = f[a] + SumOver(f, S)
<1> DEFINE T == S \cup {a}
<1>1. IsFiniteSet(T) /\ T \ {a} = S /\ S \subseteq T /\ a \in T /\ T \in SUBSET T
  BY FS_AddElement
<1> HIDE DEF T
<1>2. PICK k : IsTable(f, T, k)
  BY <1>1, TableExists
<1>3. k[T] = f[a] + k[T \ {a}]
  <2>1. \A x \in T : f[x] \in Int
    BY DEF T
  <2> QED BY <1>1, <1>2, <2>1, AnyFirst
<1>4. SumOver(f, T) = k[T] /\ SumOver(f, S) = k[S]
  BY <1>1, <1>2, SumInTable
<1> QED BY <1>1, <1>3, <1>4 DEF T

LEMMA SumType ==
  ASSUME NEW S, IsFiniteSet(S), NEW f, \A x \in S : f[x] \in Int
  PROVE  SumOver(f, S) \in Int
<1>1. PICK k : IsTable(f, S, k)
  BY TableExists
<1>2. \A s \in SUBSET S : k[s] \in Int
  BY <1>1, TableOfIntegers
<1> QED BY <1>1, <1>2, SumInTable

LEMMA SumIsNatural ==
  ASSUME NEW S, IsFiniteSet(S), NEW f, \A x \in S : f[x] \in Nat
  PROVE  SumOver(f, S) \in Nat
<1>1. PICK k : IsTable(f, S, k)
  BY TableExists
<1>2. \A s \in SUBSET S : k[s] \in Nat
  BY <1>1, TableOfNaturals
<1> QED BY <1>1, <1>2, SumInTable

\* Only the summands of its own elements count.
LEMMA SumsAgree ==
  ASSUME NEW S, IsFiniteSet(S), NEW f, NEW g, \A x \in S : f[x] = g[x]
  PROVE  SumOver(f, S) = SumOver(g, S)
<1>1. PICK k, m : IsTable(f, S, k) /\ IsTable(g, S, m)
  BY TableExists
<1>2. k[S] = m[S]
  BY <1>1, TablesAgree
<1> QED BY <1>1, <1>2, SumInTable

\* One summand changed.
LEMMA SumOfOneChanged ==
  ASSUME NEW S, IsFiniteSet(S), NEW a \in S, NEW f, NEW g,
         \A x \in S : f[x] \in Int /\ g[x] \in Int, \A x \in S \ {a} : f[x] = g[x]
  PROVE  SumOver(f, S) = SumOver(g, S) + f[a] - g[a]
<1> DEFINE T == S \ {a}
<1>1. IsFiniteSet(T) /\ S = T \cup {a} /\ a \notin T /\ T \subseteq S
  BY FS_RemoveElement
<1> HIDE DEF T
<1>2. SumOver(f, S) = f[a] + SumOver(f, T) /\ SumOver(g, S) = g[a] + SumOver(g, T)
  BY <1>1, SumOfOneMore
<1>3. SumOver(f, T) = SumOver(g, T)
  BY <1>1, SumsAgree DEF T
<1>4. SumOver(f, T) \in Int /\ SumOver(g, T) \in Int
  BY <1>1, SumType
<1> QED BY <1>2, <1>3, <1>4

-----------------------------------------------------------------------------
\* What holds of no elements, and with each element more, holds of them all.
LEMMA EveryElement ==
  ASSUME NEW S, IsFiniteSet(S), NEW P, {} \in P,
         \A s \in SUBSET S : \A a \in S \ s : s \in P => s \cup {a} \in P
  PROVE  S \in P
<1> DEFINE T == {n \in Nat : \A s \in SUBSET S : Cardinality(s) = n => s \in P}
<1>1. \A s \in SUBSET S : IsFiniteSet(s) /\ Cardinality(s) \in Nat
  BY FS_Subset, FS_CardinalityType
<1>2. 0 \in T
  BY <1>1, FS_EmptySet
<1>3. ASSUME NEW n \in Nat, n \in T
      PROVE  n + 1 \in T
  <2> SUFFICES ASSUME NEW s \in SUBSET S, Cardinality(s) = n + 1 PROVE s \in P
    OBVIOUS
  <2>1. s # {}
    <3>1. Cardinality({}) = 0 /\ n + 1 # 0
      BY FS_EmptySet
    <3> QED BY <3>1
  <2>2. PICK a \in s : TRUE
    BY <2>1
  <2>3. s \ {a} \in SUBSET S /\ Cardinality(s \ {a}) = n /\ a \in S \ (s \ {a})
    BY <1>1, <2>2, OneLess
  <2>4. s \ {a} \in P
    BY <1>3, <2>3
  <2>5. s = (s \ {a}) \cup {a}
    OBVIOUS
  <2> QED BY <2>3, <2>4, <2>5
<1>4. \A n \in Nat : n \in T
  <2> HIDE DEF T
  <2> QED BY <1>2, <1>3, EveryNatural
<1> QED BY <1>1, <1>4

\* Of sets with nothing in common the sums add up.
LEMMA SumOfDisjoint ==
  ASSUME NEW A, IsFiniteSet(A), NEW B, IsFiniteSet(B), A \cap B = {}, NEW f,
         \A x \in A \cup B : f[x] \in Int
  PROVE  SumOver(f, A \cup B) = SumOver(f, A) + SumOver(f, B)
<1> DEFINE P == {t \in SUBSET B : SumOver(f, A \cup t) = SumOver(f, A) + SumOver(f, t)}
<1>1. SumOver(f, A) \in Int
  BY SumType
<1>2. {} \in P
  <2>1. A \cup {} = A
    OBVIOUS
  <2> QED BY <1>1, <2>1, SumOfNone
<1>3. ASSUME NEW t \in SUBSET B, NEW a \in B \ t, t \in P
      PROVE  t \cup {a} \in P
  <2>1. IsFiniteSet(t) /\ IsFiniteSet(A \cup t)
    BY FS_Subset, FS_Union
  <2>2. SumOver(f, t) \in Int /\ f[a] \in Int /\ a \notin A \cup t
    BY <2>1, SumType
  <2>3. SumOver(f, t \cup {a}) = f[a] + SumOver(f, t)
    BY <2>1, <2>2, SumOfOneMore
  <2>4. SumOver(f, (A \cup t) \cup {a}) = f[a] + SumOver(f, A \cup t)
    BY <2>1, <2>2, SumOfOneMore
  <2>5. (A \cup t) \cup {a} = A \cup (t \cup {a})
    OBVIOUS
  <2>6. SumOver(f, A \cup t) = SumOver(f, A) + SumOver(f, t)
    BY <1>3
  <2>7. SumOver(f, A \cup (t \cup {a})) = f[a] + SumOver(f, A \cup t)
    BY <2>4, <2>5, Zenon
  <2>8. SumOver(f, A \cup (t \cup {a})) = SumOver(f, A) + SumOver(f, t \cup {a})
    BY <1>1, <2>2, <2>3, <2>6, <2>7
  <2> QED BY <2>8
<1>4. B \in P
  <2> HIDE DEF P
  <2> QED BY <1>2, <1>3, EveryElement
<1> QED BY <1>4

\* The sum of differences.
LEMMA SumOfDifferences ==
  ASSUME NEW S, IsFiniteSet(S), NEW f, NEW g, NEW h,
         \A x \in S : f[x] \in Int /\ g[x] \in Int /\ h[x] = f[x] - g[x]
  PROVE  SumOver(h, S) = SumOver(f, S) - SumOver(g, S)
<1> DEFINE P == {t \in SUBSET S : SumOver(h, t) = SumOver(f, t) - SumOver(g, t)}
<1>1. {} \in P
  <2>1. SumOver(f, {}) = 0 /\ SumOver(g, {}) = 0 /\ SumOver(h, {}) = 0
    BY SumOfNone
  <2>2. SumOver(h, {}) = SumOver(f, {}) - SumOver(g, {})
    BY <2>1
  <2> QED BY <2>2
<1>2. ASSUME NEW t \in SUBSET S, NEW a \in S \ t, t \in P
      PROVE  t \cup {a} \in P
  <2>1. IsFiniteSet(t) /\ \A x \in S : h[x] \in Int
    BY FS_Subset
  <2>2. SumOver(f, t) \in Int /\ SumOver(g, t) \in Int
    BY <2>1, SumType
  <2>3. /\ SumOver(f, t \cup {a}) = f[a] + SumOver(f, t) /\ SumOver(g, t \cup {a}) = g[a] + SumOver(g, t)
        /\ SumOver(h, t \cup {a}) = h[a] + SumOver(h, t)
    BY <2>1, SumOfOneMore
  <2>4. SumOver(h, t) = SumOver(f, t) - SumOver(g, t) /\ h[a] = f[a] - g[a] /\ f[a] \in Int /\ g[a] \in Int
    BY <1>2
  <2>5. SumOver(h, t \cup {a}) = SumOver(f, t \cup {a}) - SumOver(g, t \cup {a})
    BY <2>2, <2>3, <2>4
  <2> QED BY <2>5
<1>3. S \in P
  <2> HIDE DEF P
  <2> QED BY <1>1, <1>2, EveryElement
<1> QED BY <1>3

\* total names, for each class, what the elements of that class add up to.
TotalsByClass(total, f, S, class, C) ==
  /\ \A x \in S : class[x] \in C
  /\ \A c \in C : total[c] = SumOver(f, {x \in S : class[x] = c})

\* Elements in classes: the sum of the sums of the classes is that of the elements.
LEMMA SumByClass ==
  ASSUME NEW S, IsFiniteSet(S), NEW C, IsFiniteSet(C), NEW f, \A x \in S : f[x] \in Int,
         NEW class, NEW total, TotalsByClass(total, f, S, class, C)
  PROVE  SumOver(total, C) = SumOver(f, S)
<1>a. \A x \in S : class[x] \in C
  BY DEF TotalsByClass
<1>b. \A c \in C : total[c] = SumOver(f, {x \in S : class[x] = c})
  BY DEF TotalsByClass
<1> DEFINE In(t, c) == {x \in t : class[x] = c}
           Totals(t) == [c \in C |-> SumOver(f, In(t, c))]
           P == {t \in SUBSET S : SumOver(Totals(t), C) = SumOver(f, t)}
<1>1. ASSUME NEW t \in SUBSET S
      PROVE  IsFiniteSet(t) /\ \A c \in C : IsFiniteSet(In(t, c)) /\ Totals(t)[c] \in Int
  <2>1. IsFiniteSet(t) /\ \A c \in C : IsFiniteSet(In(t, c)) /\ In(t, c) \subseteq S
    BY FS_Subset
  <2> QED BY <2>1, SumType
<1>2. {} \in P
  <2> DEFINE zero == [c \in C |-> 0]
  <2>1. \A c \in C : In({}, c) = {}
    OBVIOUS
  <2>2. Totals({}) = zero
    BY <2>1, SumOfNone
  <2>3. SumOver(zero, C) = 0
    <3> DEFINE Q == {t \in SUBSET C : SumOver(zero, t) = 0}
    <3>1. {} \in Q
      BY SumOfNone
    <3>2. ASSUME NEW t \in SUBSET C, NEW a \in C \ t, t \in Q
          PROVE  t \cup {a} \in Q
      <4>1. IsFiniteSet(t) /\ (\A x \in t \cup {a} : zero[x] \in Int) /\ zero[a] = 0
        BY FS_Subset
      <4> HIDE DEF zero
      <4>2. SumOver(zero, t \cup {a}) = zero[a] + SumOver(zero, t)
        BY <4>1, SumOfOneMore
      <4> QED BY <3>2, <4>1, <4>2
    <3>3. C \in Q
      <4> HIDE DEF Q
      <4> QED BY <3>1, <3>2, EveryElement
    <3> QED BY <3>3
  <2> HIDE DEF zero
  <2> QED BY <2>2, <2>3, SumOfNone
<1>3. ASSUME NEW t \in SUBSET S, NEW a \in S \ t, t \in P
      PROVE  t \cup {a} \in P
  <2> DEFINE d == class[a]
             old == Totals(t)
             new == Totals(t \cup {a})
  <2>1. d \in C /\ f[a] \in Int /\ IsFiniteSet(t) /\ t \cup {a} \in SUBSET S
    BY <1>a, <1>1
  <2>2. \A c \in C : old[c] \in Int /\ new[c] \in Int
    BY <1>1, <2>1
  <2>3. \A c \in C \ {d} : new[c] = old[c]
    <3>1. \A c \in C \ {d} : In(t \cup {a}, c) = In(t, c)
      OBVIOUS
    <3> QED BY <3>1
  <2>4. new[d] = f[a] + old[d]
    <3> DEFINE k == In(t, d)
    <3>1. In(t \cup {a}, d) = k \cup {a} /\ a \notin k /\ IsFiniteSet(k) /\ \A x \in k \cup {a} : f[x] \in Int
      BY <1>1, <2>1
    <3> HIDE DEF k
    <3>2. SumOver(f, k \cup {a}) = f[a] + SumOver(f, k)
      BY <3>1, SumOfOneMore
    <3> QED BY <2>1, <3>1, <3>2 DEF k
  <2> HIDE DEF old, new, d
  <2>5. SumOver(new, C) = SumOver(old, C) + new[d] - old[d]
    BY <2>1, <2>2, <2>3, SumOfOneChanged
  <2>6. SumOver(old, C) = SumOver(f, t) /\ SumOver(f, t) \in Int
    <3>1. SumOver(old, C) = SumOver(f, t)
      BY <1>3 DEF old
    <3> QED BY <2>1, <3>1, SumType
  <2>7. SumOver(f, t \cup {a}) = f[a] + SumOver(f, t)
    BY <2>1, SumOfOneMore
  <2>8. SumOver(new, C) = SumOver(f, t \cup {a})
    <3>1. old[d] \in Int
      BY <2>1, <2>2
    <3> QED BY <2>1, <2>4, <2>5, <2>6, <2>7, <3>1
  <2> QED BY <2>1, <2>8 DEF new
<1>4. S \in P
  <2> HIDE DEF P
  <2> QED BY <1>2, <1>3, EveryElement
<1>5. SumOver(total, C) = SumOver(Totals(S), C)
  <2>1. \A c \in C : total[c] = Totals(S)[c]
    BY <1>b
  <2> HIDE DEF Totals
  <2> QED BY <2>1, SumsAgree
<1> QED BY <1>4, <1>5

\* The sum of a field of rows, as MapThenSumSet is written with it, is the sum of a function.
LEMMA FieldSum ==
  ASSUME NEW rows, NEW S, IsFiniteSet(S), NEW f, \A x \in S : f[x] = rows[x].amount
  PROVE  MapThenSumSet(LAMBDA x : rows[x].amount, S) = SumOver(f, S)
<1>1. PICK k : IsTable(f, S, k)
  BY TableExists
<1> DEFINE m == CHOOSE m : m = [s \in SUBSET S |->
                  IF s = {} THEN 0 ELSE rows[Chosen(s)].amount + m[s \ {Chosen(s)}]]
<1>2. \A x : IsTable(f, S, x) <=>
        x = [s \in SUBSET S |-> IF s = {} THEN 0 ELSE rows[Chosen(s)].amount + x[s \ {Chosen(s)}]]
  BY ChosenIn DEF IsTable
<1>3. IsTable(f, S, m)
  BY <1>1, <1>2
<1>4. MapThenSumSet(LAMBDA x : rows[x].amount, S) = m[S]
  BY DEF MapThenSumSet, MapThenFoldSet, Chosen
<1> HIDE DEF m
<1> QED BY <1>3, <1>4, SumInTable

\* Terms that are zero add nothing.
LEMMA SumOfZeros ==
  ASSUME NEW S, IsFiniteSet(S), NEW f, \A x \in S : f[x] = 0
  PROVE  SumOver(f, S) = 0
<1> DEFINE P == {t \in SUBSET S : SumOver(f, t) = 0}
<1>1. {} \in P
  BY SumOfNone
<1>2. ASSUME NEW t \in SUBSET S, NEW a \in S \ t, t \in P
      PROVE  t \cup {a} \in P
  <2>1. IsFiniteSet(t) /\ f[a] = 0 /\ \A x \in t \cup {a} : f[x] \in Int
    BY FS_Subset
  <2>2. SumOver(f, t \cup {a}) = f[a] + SumOver(f, t)
    BY <2>1, SumOfOneMore
  <2> QED BY <1>2, <2>1, <2>2
<1>3. S \in P
  <2> HIDE DEF P
  <2> QED BY <1>1, <1>2, EveryElement
<1> QED BY <1>3

\* A table of numbers g by its rows and h by its columns, and what each of them adds up to.
RowsAndColumns(A, B, g, h, rows, columns) ==
  /\ \A a \in A : \A b \in B : g[a][b] \in Int /\ h[b][a] = g[a][b]
  /\ \A a \in A : rows[a] = SumOver(g[a], B)
  /\ \A b \in B : columns[b] = SumOver(h[b], A)

\* Adding up by rows or by columns is the same.
LEMMA SumOfSums ==
  ASSUME NEW A, IsFiniteSet(A), NEW B, IsFiniteSet(B), NEW g, NEW h, NEW rows, NEW columns,
         RowsAndColumns(A, B, g, h, rows, columns)
  PROVE  SumOver(rows, A) = SumOver(columns, B)
<1>a. /\ \A a \in A : \A b \in B : g[a][b] \in Int /\ h[b][a] = g[a][b]
      /\ \A a \in A : rows[a] = SumOver(g[a], B)
      /\ \A b \in B : columns[b] = SumOver(h[b], A)
  BY DEF RowsAndColumns
<1> DEFINE Upto(s) == [b \in B |-> SumOver(h[b], s)]
           P == {s \in SUBSET A : SumOver(rows, s) = SumOver(Upto(s), B)}
<1>1. \A s : \A b \in B : Upto(s)[b] = SumOver(h[b], s)
  OBVIOUS
<1>2. {} \in P
  <2>1. \A b \in B : Upto({})[b] = 0
    BY <1>1, SumOfNone
  <2> HIDE DEF Upto
  <2>2. SumOver(Upto({}), B) = 0
    BY <2>1, SumOfZeros
  <2> QED BY <2>2, SumOfNone
<1>3. ASSUME NEW s \in SUBSET A, NEW a \in A \ s, s \in P
      PROVE  s \cup {a} \in P
  <2>1. IsFiniteSet(s)
    BY FS_Subset
  <2>2. ASSUME NEW x \in A
        PROVE  rows[x] \in Int /\ SumOver(g[x], B) \in Int
    <3> DEFINE w == g[x]
    <3>1. \A b \in B : w[b] \in Int
      BY <1>a, <2>2
    <3>2. rows[x] = SumOver(w, B)
      BY <1>a, <2>2
    <3> HIDE DEF w
    <3>3. SumOver(w, B) \in Int
      BY <3>1, SumType
    <3> QED BY <3>2, <3>3 DEF w
  <2>3. SumOver(rows, s \cup {a}) = rows[a] + SumOver(rows, s)
    <3>1. \A x \in s \cup {a} : rows[x] \in Int
      BY <1>3, <2>2
    <3> QED BY <1>3, <2>1, <3>1, SumOfOneMore
  <2>4. ASSUME NEW b \in B
        PROVE  /\ Upto(s \cup {a})[b] \in Int /\ g[a][b] \in Int
               /\ Upto(s)[b] = Upto(s \cup {a})[b] - g[a][b]
    <3> DEFINE k == h[b]
    <3>1. \A x \in s \cup {a} : k[x] \in Int
      BY <1>a, <1>3
    <3>2. k[a] = g[a][b] /\ g[a][b] \in Int
      BY <1>a, <1>3
    <3>3. Upto(s \cup {a})[b] = SumOver(k, s \cup {a}) /\ Upto(s)[b] = SumOver(k, s)
      BY <1>1
    <3> HIDE DEF k, Upto
    <3>4. SumOver(k, s \cup {a}) = k[a] + SumOver(k, s)
      BY <1>3, <2>1, <3>1, SumOfOneMore
    <3>5. SumOver(k, s) \in Int
      BY <2>1, <3>1, SumType
    <3> QED BY <3>2, <3>3, <3>4, <3>5
  <2> HIDE DEF Upto
  <2>5. SumOver(Upto(s), B) = SumOver(Upto(s \cup {a}), B) - SumOver(g[a], B)
    <3> DEFINE u == Upto(s)
               v == Upto(s \cup {a})
               w == g[a]
    <3>1. \A b \in B : v[b] \in Int /\ w[b] \in Int /\ u[b] = v[b] - w[b]
      BY <2>4
    <3> HIDE DEF u, v, w
    <3>2. SumOver(u, B) = SumOver(v, B) - SumOver(w, B)
      BY <3>1, SumOfDifferences
    <3> QED BY <3>2 DEF u, v, w
  <2>6. SumOver(Upto(s \cup {a}), B) \in Int /\ SumOver(g[a], B) \in Int /\ rows[a] = SumOver(g[a], B)
    <3> DEFINE v == Upto(s \cup {a})
    <3>1. \A b \in B : v[b] \in Int
      BY <2>4
    <3> HIDE DEF v
    <3>2. SumOver(v, B) \in Int
      BY <3>1, SumType
    <3>3. SumOver(g[a], B) \in Int /\ rows[a] = SumOver(g[a], B)
      BY <1>a, <1>3, <2>2
    <3> QED BY <3>2, <3>3 DEF v
  <2>7. SumOver(rows, s) = SumOver(Upto(s), B)
    BY <1>3
  <2>8. SumOver(rows, s \cup {a}) = SumOver(Upto(s \cup {a}), B)
    BY <2>3, <2>5, <2>6, <2>7
  <2>9. s \cup {a} \in SUBSET A
    BY <1>3
  <2> QED BY <2>8, <2>9
<1>4. A \in P
  <2> HIDE DEF P
  <2> QED BY <1>2, <1>3, EveryElement
<1>5. \A b \in B : Upto(A)[b] = columns[b]
  BY <1>a, <1>1
<1>6. SumOver(rows, A) = SumOver(Upto(A), B)
  BY <1>4
<1> HIDE DEF Upto, P
<1>7. SumOver(Upto(A), B) = SumOver(columns, B)
  BY <1>5, SumsAgree
<1> QED BY <1>6, <1>7

\* Terms that are zero can be left out.
LEMMA SumWithin ==
  ASSUME NEW S, IsFiniteSet(S), NEW T \in SUBSET S, NEW f, \A x \in T : f[x] \in Int,
         \A x \in S \ T : f[x] = 0
  PROVE  SumOver(f, S) = SumOver(f, T)
<1> DEFINE rest == S \ T
<1>1. IsFiniteSet(T) /\ IsFiniteSet(rest) /\ T \cap rest = {} /\ S = T \cup rest
  BY FS_Subset
<1>2. \A x \in T \cup rest : f[x] \in Int
  OBVIOUS
<1>3. SumOver(f, rest) = 0
  <2>1. \A x \in rest : f[x] = 0
    OBVIOUS
  <2> HIDE DEF rest
  <2> QED BY <1>1, <2>1, SumOfZeros
<1> HIDE DEF rest
<1>4. SumOver(f, T \cup rest) = SumOver(f, T) + SumOver(f, rest)
  BY <1>1, <1>2, SumOfDisjoint
<1>5. SumOver(f, T) \in Int
  BY <1>1, SumType
<1> QED BY <1>1, <1>3, <1>4, <1>5

-----------------------------------------------------------------------------
(* Finite sets in order.                                                    *)

\* less orders the elements of S strictly, each two of them one way or the other.
IsOrderOf(less, S) ==
  /\ \A x \in S : <<x, x>> \notin less
  /\ \A x, y \in S : x = y \/ <<x, y>> \in less \/ <<y, x>> \in less
  /\ \A x, y, z \in S : <<x, y>> \in less /\ <<y, z>> \in less => <<x, z>> \in less

IsInOrder(ks, n, less) == \A i, j \in 1 .. n : i < j => <<ks[i], ks[j]>> \in less

LEMMA LastExists ==
  ASSUME NEW S, IsFiniteSet(S), S # {}, NEW less, IsOrderOf(less, S)
  PROVE  \E m \in S : \A x \in S \ {m} : <<x, m>> \in less
<1> DEFINE IsLast(s, m) == \A x \in s \ {m} : <<x, m>> \in less
           P == {s \in SUBSET S : s = {} \/ \E m \in s : IsLast(s, m)}
<1>1. {} \in P
  OBVIOUS
<1>2. ASSUME NEW s \in SUBSET S, NEW a \in S \ s, s \in P
      PROVE  s \cup {a} \in P
  <2>1. CASE s = {}
    <3>1. IsLast(s \cup {a}, a)
      BY <2>1
    <3> QED BY <3>1
  <2>2. ASSUME NEW m \in s, IsLast(s, m), <<a, m>> \in less
        PROVE  IsLast(s \cup {a}, m)
    BY <2>2
  <2>3. ASSUME NEW m \in s, IsLast(s, m), <<a, m>> \notin less
        PROVE  IsLast(s \cup {a}, a)
    <3>1. m \in S /\ a \in S /\ m # a
      OBVIOUS
    <3>2. <<m, a>> \in less
      BY <2>3, <3>1 DEF IsOrderOf
    <3>3. ASSUME NEW x \in s PROVE <<x, a>> \in less
      <4>1. x \in S
        OBVIOUS
      <4> QED BY <2>3, <3>1, <3>2, <4>1 DEF IsOrderOf
    <3> QED BY <3>3
  <2>4. CASE \E m \in s : IsLast(s, m)
    <3>1. PICK m \in s : IsLast(s, m)
      BY <2>4
    <3>2. \E q \in s \cup {a} : IsLast(s \cup {a}, q)
      <4> HIDE DEF IsLast
      <4>1. CASE <<a, m>> \in less
        BY <2>2, <3>1, <4>1
      <4>2. CASE <<a, m>> \notin less
        BY <2>3, <3>1, <4>2
      <4> QED BY <4>1, <4>2
    <3> QED BY <3>2
  <2> QED BY <1>2, <2>1, <2>4
<1>3. S \in P
  <2> HIDE DEF P
  <2> QED BY <1>1, <1>2, EveryElement
<1> QED BY <1>3

\* A finite set can be written down in its order.
LEMMA Enumerated ==
  ASSUME NEW S, IsFiniteSet(S), NEW less, IsOrderOf(less, S)
  PROVE  \E ks \in [1 .. Cardinality(S) -> S] : IsInOrder(ks, Cardinality(S), less)
<1> DEFINE Written(s, n) == \E ks \in [1 .. n -> s] : IsInOrder(ks, n, less)
           T == {n \in Nat : \A s \in SUBSET S : Cardinality(s) = n => Written(s, n)}
<1>1. \A s \in SUBSET S : IsFiniteSet(s) /\ Cardinality(s) \in Nat /\ IsOrderOf(less, s)
  <2>1. \A s \in SUBSET S : IsFiniteSet(s) /\ Cardinality(s) \in Nat
    BY FS_Subset, FS_CardinalityType
  <2>2. \A s \in SUBSET S : IsOrderOf(less, s)
    BY DEF IsOrderOf
  <2> QED BY <2>1, <2>2
<1>2. 0 \in T
  <2> SUFFICES ASSUME NEW s \in SUBSET S PROVE Written(s, 0)
    OBVIOUS
  <2> DEFINE none == [i \in 1 .. 0 |-> i]
  <2>1. none \in [1 .. 0 -> s] /\ IsInOrder(none, 0, less)
    BY DEF IsInOrder
  <2> QED BY <2>1
<1>3. ASSUME NEW n \in Nat, n \in T
      PROVE  n + 1 \in T
  <2> SUFFICES ASSUME NEW s \in SUBSET S, Cardinality(s) = n + 1 PROVE Written(s, n + 1)
    OBVIOUS
  <2>1. s # {}
    <3>1. Cardinality({}) = 0 /\ n + 1 # 0
      BY FS_EmptySet
    <3> QED BY <3>1
  <2>2. PICK m \in s : \A x \in s \ {m} : <<x, m>> \in less
    BY <1>1, <2>1, LastExists
  <2>3. s \ {m} \in SUBSET S /\ Cardinality(s \ {m}) = n
    BY <1>1, OneLess
  <2>4. PICK ks \in [1 .. n -> s \ {m}] : IsInOrder(ks, n, less)
    BY <1>3, <2>3
  <2> DEFINE longer == [i \in 1 .. n + 1 |-> IF i = n + 1 THEN m ELSE ks[i]]
  <2>5. longer \in [1 .. n + 1 -> s]
    OBVIOUS
  <2>6. IsInOrder(longer, n + 1, less)
    <3> SUFFICES ASSUME NEW i \in 1 .. n + 1, NEW j \in 1 .. n + 1, i < j
                 PROVE  <<longer[i], longer[j]>> \in less
      BY DEF IsInOrder
    <3>1. i \in 1 .. n /\ longer[i] = ks[i]
      OBVIOUS
    <3>2. CASE j = n + 1
      BY <2>2, <3>1, <3>2
    <3>3. CASE j # n + 1
      <4>1. j \in 1 .. n /\ longer[j] = ks[j]
        BY <3>3
      <4> QED BY <2>4, <3>1, <4>1 DEF IsInOrder
    <3> QED BY <3>2, <3>3
  <2> QED BY <2>5, <2>6
<1>4. Cardinality(S) \in T
  <2>1. Cardinality(S) \in Nat
    BY <1>1
  <2> HIDE DEF T
  <2> QED BY <1>2, <1>3, <2>1, EveryNatural
<1> QED BY <1>4

\* What is written down in order is each element, once.
LEMMA EachOnce ==
  ASSUME NEW S, IsFiniteSet(S), NEW less, IsOrderOf(less, S),
         NEW ks \in [1 .. Cardinality(S) -> S], IsInOrder(ks, Cardinality(S), less)
  PROVE  /\ \A i, j \in 1 .. Cardinality(S) : ks[i] = ks[j] => i = j
         /\ \A x \in S : \E i \in 1 .. Cardinality(S) : ks[i] = x
         /\ \A i, j \in 1 .. Cardinality(S) : <<ks[i], ks[j]>> \in less => i < j
<1> DEFINE n == Cardinality(S)
<1>1. n \in Nat
  BY FS_CardinalityType
<1> HIDE DEF n
<1>2. ASSUME NEW i \in 1 .. n, NEW j \in 1 .. n, ks[i] = ks[j]
      PROVE  i = j
  <2>1. ks[i] \in S /\ <<ks[i], ks[i]>> \notin less
    BY DEF IsOrderOf, n
  <2>2. ~(i < j) /\ ~(j < i)
    BY <1>2, <2>1 DEF IsInOrder, n
  <2> QED BY <1>1, <2>2
<1>3. ASSUME NEW i \in 1 .. n, NEW j \in 1 .. n, <<ks[i], ks[j]>> \in less
      PROVE  i < j
  <2>1. ks[i] \in S /\ ks[j] \in S /\ <<ks[i], ks[i]>> \notin less
    BY DEF IsOrderOf, n
  <2>2. <<ks[j], ks[i]>> \notin less /\ ks[i] # ks[j]
    BY <1>3, <2>1 DEF IsOrderOf
  <2>3. i # j /\ ~(j < i)
    BY <2>2 DEF IsInOrder, n
  <2> QED BY <1>1, <2>3
<1>4. ks \in Injection(1 .. n, S)
  BY <1>2 DEF Injection, IsInjective, n
<1>5. Cardinality(1 .. n) = n
  BY <1>1, FS_Interval
<1>6. ks \in Surjection(1 .. n, S)
  BY <1>4, <1>5, FS_Injection DEF n
<1>7. \A x \in S : \E i \in 1 .. n : ks[i] = x
  BY <1>6 DEF Surjection
<1> QED BY <1>2, <1>3, <1>7 DEF n
=============================================================================
