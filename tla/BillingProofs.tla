--------------------------- MODULE BillingProofs ---------------------------
(***************************************************************************)
(* Theorems about Billing, for any file, calendar, tariffs and prices.      *)
(***************************************************************************)
EXTENDS Billing, FiniteSetTheorems, SequenceTheorems, WellFoundedInduction, TLAPS

----------------------------------------------------------------------------
(* Induction over numbers and over the elements of a finite set.           *)

\* A set of numbers that has 0, and with each number the next, has them all.
LEMMA Induct ==
    ASSUME NEW S, 0 \in S, \A n \in Nat : n \in S => n + 1 \in S
    PROVE  \A n \in Nat : n \in S
<1> SUFFICES ASSUME NEW n \in Nat, n \notin S PROVE FALSE
  OBVIOUS
<1> DEFINE R == {ss \in Nat \X Nat : ss[1] < ss[2]}
           Out == {m \in Nat : m \notin S}
<1>1. IsWellFoundedOn(R, Nat)
  <2>1. R = OpToRel(<, Nat)
    BY Zenon DEF OpToRel
  <2> QED BY <2>1, NatLessThanWellFounded
<1>2. Out \subseteq Nat /\ n \in Out
  OBVIOUS
<1>3. PICK m \in Out : \A k \in Out : ~(<<k, m>> \in R)
  <2> HIDE DEF R, Out
  <2> QED BY <1>1, <1>2, WFMin
<1>4. \A k \in Nat : k < m => k \in S
  BY <1>3
<1>5. m # 0 /\ m - 1 \in Nat /\ m - 1 < m /\ (m - 1) + 1 = m
  OBVIOUS
<1> QED BY <1>4, <1>5

\* The same by the size of the parts of a finite set: a part is in C when all smaller
\* parts of it are.
LEMMA InductByPart ==
    ASSUME NEW S, IsFiniteSet(S), NEW C,
           \A T \in SUBSET S : (\A U \in SUBSET T : U # T => U \in C) => T \in C
    PROVE  \A T \in SUBSET S : T \in C
<1> DEFINE N == {n \in Nat : \A T \in SUBSET S : Cardinality(T) <= n => T \in C}
<1>1. \A T \in SUBSET S : IsFiniteSet(T) /\ Cardinality(T) \in Nat
  BY FS_Subset, FS_CardinalityType
<1>2. ASSUME NEW n \in Nat, NEW T \in SUBSET S, Cardinality(T) <= n,
             \A U \in SUBSET S : Cardinality(U) < n => U \in C
      PROVE  T \in C
  <2>1. ASSUME NEW U \in SUBSET T, U # T PROVE U \in C
    <3>1. IsFiniteSet(T) /\ U \in SUBSET S /\ Cardinality(T) \in Nat /\ Cardinality(U) \in Nat
      BY <1>1
    <3>2. Cardinality(U) <= Cardinality(T) /\ (Cardinality(T) = Cardinality(U) => T = U)
      BY <3>1, FS_Subset
    <3>3. Cardinality(U) < n
      BY <1>2, <2>1, <3>1, <3>2
    <3> QED BY <1>2, <3>1, <3>3
  <2> QED BY <2>1
<1>3. 0 \in N
  BY <1>1, <1>2
<1>4. ASSUME NEW n \in Nat, n \in N PROVE n + 1 \in N
  <2>1. \A U \in SUBSET S : Cardinality(U) < n + 1 => U \in C
    <3> SUFFICES ASSUME NEW U \in SUBSET S, Cardinality(U) < n + 1 PROVE U \in C
      OBVIOUS
    <3>1. Cardinality(U) <= n
      BY <1>1
    <3> QED BY <1>4, <3>1
  <2> QED BY <1>2, <2>1
<1>5. \A n \in Nat : n \in N
  <2> HIDE DEF N
  <2> QED BY <1>3, <1>4, Induct
<1> QED BY <1>1, <1>5

\* A set of parts that has the empty one, and with each part that with one element
\* more, has the whole.
LEMMA InductByElement ==
    ASSUME NEW S, IsFiniteSet(S), NEW C, {} \in C,
           \A T \in SUBSET S, x \in S : T \in C /\ x \notin T => T \cup {x} \in C
    PROVE  S \in C
<1>1. ASSUME NEW T \in SUBSET S, \A U \in SUBSET T : U # T => U \in C PROVE T \in C
  <2>1. CASE T = {}
    BY <2>1
  <2>2. CASE T # {}
    <3>1. PICK x \in T : TRUE
      BY <2>2
    <3>2. T \ {x} \in SUBSET T /\ T \ {x} # T /\ (T \ {x}) \cup {x} = T
      BY <3>1
    <3>3. x \in S /\ T \ {x} \in SUBSET S /\ T \ {x} \in C /\ x \notin T \ {x}
      BY <1>1, <3>1, <3>2
    <3>4. (T \ {x}) \cup {x} \in C
      BY <3>3
    <3> QED BY <3>2, <3>4
  <2> QED BY <2>1, <2>2
<1>2. \A T \in SUBSET S : T \in C
  BY <1>1, InductByPart
<1> QED BY <1>2

----------------------------------------------------------------------------
(* Sums. The sum of a function is computed by a recursive function that    *)
(* takes an element of each set; it does not depend on which.              *)

Taken(s) == CHOOSE x \in s : TRUE
Sums(F, f, D) == [s \in SUBSET D |-> IF s = {} THEN 0 ELSE f[Taken(s)] + F[s \ {Taken(s)}]]
SumsOf(F, f, D) ==
    /\ F \in [SUBSET D -> Int] /\ F[{}] = 0
    /\ \A s \in SUBSET D : s # {} => F[s] = f[Taken(s)] + F[s \ {Taken(s)}]

LEMMA SumsExist ==
    ASSUME NEW D, IsFiniteSet(D), NEW f, \A x \in D : f[x] \in Int
    PROVE  \E F : F = Sums(F, f, D)
<1> DEFINE Value(F, s) == IF s = {} THEN 0 ELSE f[Taken(s)] + F[s \ {Taken(s)}]
           Small(n) == {s \in SUBSET D : Cardinality(s) <= n}
           HasSums(n) == \E F \in [SUBSET D -> Int] : \A s \in Small(n) : F[s] = Value(F, s)
           N == {n \in Nat : HasSums(n)}
<1>1. \A s \in SUBSET D :
          /\ IsFiniteSet(s) /\ Cardinality(s) \in Nat /\ (Cardinality(s) = 0 <=> s = {})
          /\ Cardinality(s) <= Cardinality(D)
          /\ s # {} => /\ Taken(s) \in s /\ f[Taken(s)] \in Int /\ s \ {Taken(s)} \in SUBSET D
                       /\ Cardinality(s \ {Taken(s)}) = Cardinality(s) - 1
  <2> SUFFICES ASSUME NEW s \in SUBSET D
               PROVE  /\ IsFiniteSet(s) /\ Cardinality(s) \in Nat /\ (Cardinality(s) = 0 <=> s = {})
                      /\ Cardinality(s) <= Cardinality(D)
                      /\ s # {} => /\ Taken(s) \in s /\ f[Taken(s)] \in Int
                                   /\ s \ {Taken(s)} \in SUBSET D
                                   /\ Cardinality(s \ {Taken(s)}) = Cardinality(s) - 1
    OBVIOUS
  <2>1. IsFiniteSet(s) /\ Cardinality(s) \in Nat /\ Cardinality(s) <= Cardinality(D)
    BY FS_Subset, FS_CardinalityType
  <2>2. Cardinality(s) = 0 <=> s = {}
    BY <2>1, FS_EmptySet
  <2>3. s # {} => Taken(s) \in s
    BY DEF Taken
  <2>4. s # {} => Cardinality(s \ {Taken(s)}) = Cardinality(s) - 1
    BY <2>1, <2>3, FS_RemoveElement
  <2> QED BY <2>1, <2>2, <2>3, <2>4
<1>2. 0 \in N
  <2> DEFINE F == [s \in SUBSET D |-> 0]
  <2>1. F \in [SUBSET D -> Int]
    OBVIOUS
  <2>2. ASSUME NEW s \in Small(0) PROVE s = {}
    <3>1. s \in SUBSET D /\ Cardinality(s) <= 0
      OBVIOUS
    <3>2. Cardinality(s) \in Nat /\ (Cardinality(s) = 0 => s = {})
      BY <1>1, <3>1
    <3> QED BY <3>1, <3>2
  <2>3. \A s \in Small(0) : F[s] = Value(F, s)
    BY <2>2
  <2> QED BY <2>1, <2>3
<1>3. ASSUME NEW n \in Nat, n \in N PROVE n + 1 \in N
  <2>1. PICK F \in [SUBSET D -> Int] : \A s \in Small(n) : F[s] = Value(F, s)
    BY <1>3
  <2> DEFINE G == [s \in SUBSET D |-> IF Cardinality(s) <= n THEN F[s] ELSE Value(F, s)]
  <2>2. ASSUME NEW s \in SUBSET D PROVE Value(F, s) \in Int
    <3>1. s # {} => f[Taken(s)] \in Int /\ F[s \ {Taken(s)}] \in Int
      BY <1>1, <2>1
    <3> QED BY <3>1
  <2>3. G \in [SUBSET D -> Int]
    BY <2>2
  <2>4. ASSUME NEW s \in Small(n + 1) PROVE G[s] = Value(G, s)
    <3>1. G[s] = Value(F, s)
      BY <2>1
    <3>2. ASSUME s # {} PROVE G[s \ {Taken(s)}] = F[s \ {Taken(s)}]
      <4>1. /\ s \ {Taken(s)} \in SUBSET D /\ Cardinality(s) \in Nat
            /\ Cardinality(s \ {Taken(s)}) = Cardinality(s) - 1 /\ Cardinality(s) <= n + 1
        BY <1>1, <3>2
      <4> QED BY <4>1
    <3> HIDE DEF G
    <3> QED BY <3>1, <3>2
  <2>5. HasSums(n + 1)
    <3> HIDE DEF G, Small, Value
    <3> QED BY <2>3, <2>4
  <2> HIDE DEF HasSums
  <2> QED BY <2>5
<1>4. \A n \in Nat : n \in N
  <2> HIDE DEF N
  <2> QED BY <1>2, <1>3, Induct
<1>5. Cardinality(D) \in Nat /\ Small(Cardinality(D)) = SUBSET D
  BY <1>1
<1>6. PICK F \in [SUBSET D -> Int] : \A s \in SUBSET D : F[s] = Value(F, s)
  <2>1. Cardinality(D) \in N
    BY <1>4, <1>5
  <2> QED BY <1>5, <2>1
<1>7. F = [s \in SUBSET D |-> Value(F, s)]
  BY <1>6
<1> QED BY <1>7 DEF Sums

\* The sum of a function is that of its whole domain.
LEMMA SumIs ==
    ASSUME NEW D, IsFiniteSet(D), NEW f, DOMAIN f = D, \A x \in D : f[x] \in Int
    PROVE  \E F : SumsOf(F, f, D) /\ SumFunction(f) = F[D]
<1> DEFINE G == CHOOSE F : F = Sums(F, f, D)
<1>1. SumFunction(f) = G[D]
  BY DEF SumFunction, SumFunctionOnSet, FoldFunctionOnSet, MapThenFoldSet, Sums, Taken
<1>2. \E F : F = Sums(F, f, D)
  BY SumsExist
<1>3. G = Sums(G, f, D)
  BY <1>2
<1> HIDE DEF G
<1>4. /\ G = [s \in SUBSET D |-> G[s]] /\ G[{}] = 0
      /\ \A s \in SUBSET D : s # {} => G[s] = f[Taken(s)] + G[s \ {Taken(s)}]
  BY <1>3 DEF Sums
<1> DEFINE C == {s \in SUBSET D : G[s] \in Int}
<1>5. \A s \in SUBSET D : s \in C
  <2>1. ASSUME NEW s \in SUBSET D, \A u \in SUBSET s : u # s => u \in C PROVE s \in C
    <3>1. CASE s = {}
      BY <1>4, <3>1
    <3>2. CASE s # {}
      <4>1. Taken(s) \in s
        BY <3>2 DEF Taken
      <4>2. s \ {Taken(s)} \in C /\ f[Taken(s)] \in Int
        BY <2>1, <4>1
      <4>3. G[s] = f[Taken(s)] + G[s \ {Taken(s)}]
        BY <1>4, <3>2
      <4> QED BY <4>2, <4>3
    <3> QED BY <3>1, <3>2
  <2> HIDE DEF C
  <2> QED BY <2>1, InductByPart
<1> QED BY <1>1, <1>4, <1>5 DEF SumsOf

\* Any element may be taken first.
FirstIsAny(F, f, D) == \A s \in SUBSET D : \A x \in s : F[s] = f[x] + F[s \ {x}]

LEMMA AnyFirst ==
    ASSUME NEW D, IsFiniteSet(D), NEW f, \A x \in D : f[x] \in Int, NEW F, SumsOf(F, f, D)
    PROVE  FirstIsAny(F, f, D)
<1> DEFINE AnyOf(s) == \A x \in s : F[s] = f[x] + F[s \ {x}]
           C == {s \in SUBSET D : AnyOf(s)}
<1>1. F \in [SUBSET D -> Int]
  BY DEF SumsOf
<1>2. ASSUME NEW s \in SUBSET D, \A u \in SUBSET s : u # s => u \in C PROVE s \in C
  <2> SUFFICES ASSUME NEW x \in s PROVE F[s] = f[x] + F[s \ {x}]
    OBVIOUS
  <2>1. PICK y \in s : y = Taken(s) /\ F[s] = f[y] + F[s \ {y}]
    BY DEF SumsOf, Taken
  <2>2. CASE x # y
    <3>1. /\ y \in s \ {x} /\ s \ {x} \in C /\ x \in s \ {y} /\ s \ {y} \in C
          /\ (s \ {x}) \ {y} = (s \ {y}) \ {x}
      BY <1>2, <2>2
    <3>2. /\ F[s \ {x}] = f[y] + F[(s \ {y}) \ {x}]
          /\ F[s \ {y}] = f[x] + F[(s \ {y}) \ {x}]
      BY <3>1
    <3>3. f[x] \in Int /\ f[y] \in Int /\ F[(s \ {y}) \ {x}] \in Int
      BY <1>1
    <3> QED BY <2>1, <3>2, <3>3
  <2> QED BY <2>1, <2>2
<1>3. \A s \in SUBSET D : s \in C
  <2> HIDE DEF C
  <2> QED BY <1>2, InductByPart
<1> QED BY <1>3 DEF FirstIsAny

\* The sum of f over a set.
SumOver(f, T) == SumFunction([x \in T |-> f[x]])

LEMMA SumOfNone == ASSUME NEW f PROVE SumOver(f, {}) = 0
<1> DEFINE g == [x \in {} |-> f[x]]
<1>1. IsFiniteSet({}) /\ DOMAIN g = {} /\ \A x \in {} : g[x] \in Int
  BY FS_EmptySet
<1> HIDE DEF g
<1>2. PICK F : SumsOf(F, g, {}) /\ SumFunction(g) = F[{}]
  BY <1>1, SumIs
<1> QED BY <1>2 DEF SumsOf, SumOver, g

LEMMA SumIsNumber ==
    ASSUME NEW T, IsFiniteSet(T), NEW f, \A x \in T : f[x] \in Int
    PROVE  SumOver(f, T) \in Int
<1> DEFINE g == [x \in T |-> f[x]]
<1>1. DOMAIN g = T /\ \A x \in T : g[x] \in Int
  OBVIOUS
<1> HIDE DEF g
<1>2. PICK F : SumsOf(F, g, T) /\ SumFunction(g) = F[T]
  BY <1>1, SumIs
<1> QED BY <1>2 DEF SumsOf, SumOver, g

LEMMA SumWith ==
    ASSUME NEW T, IsFiniteSet(T), NEW f, NEW x, x \notin T, \A y \in T \cup {x} : f[y] \in Int
    PROVE  SumOver(f, T \cup {x}) = SumOver(f, T) + f[x]
<1> DEFINE D == T \cup {x}
           g == [y \in D |-> f[y]]
           h == [y \in T |-> f[y]]
<1>1. /\ DOMAIN g = D /\ DOMAIN h = T /\ IsFiniteSet(D) /\ T \in SUBSET D /\ D \ {x} = T /\ x \in D
      /\ \A y \in D : g[y] = f[y] /\ g[y] \in Int
      /\ \A y \in T : h[y] = f[y] /\ h[y] \in Int
  BY FS_AddElement
<1>2. SumOver(f, D) = SumFunction(g) /\ SumOver(f, T) = SumFunction(h)
  BY DEF SumOver
<1> HIDE DEF D, g, h
<1>3. PICK G : SumsOf(G, g, D) /\ SumFunction(g) = G[D]
  BY <1>1, SumIs
<1>4. PICK H : SumsOf(H, h, T) /\ SumFunction(h) = H[T]
  BY <1>1, SumIs
<1>5. FirstIsAny(G, g, D)
  <2>1. IsFiniteSet(D) /\ \A y \in D : g[y] \in Int
    BY <1>1
  <2> QED BY <1>3, <2>1, AnyFirst
<1>6. FirstIsAny(H, h, T)
  <2>1. IsFiniteSet(T) /\ \A y \in T : h[y] \in Int
    BY <1>1
  <2> QED BY <1>4, <2>1, AnyFirst
<1> DEFINE C == {s \in SUBSET T : G[s] = H[s]}
<1>7. T \in C
  <2>1. {} \in C
    BY <1>3, <1>4 DEF SumsOf
  <2>2. ASSUME NEW s \in SUBSET T, NEW y \in T, s \in C, y \notin s PROVE s \cup {y} \in C
    <3>1. s \cup {y} \in SUBSET T /\ s \cup {y} \in SUBSET D /\ (s \cup {y}) \ {y} = s
          /\ y \in s \cup {y}
      BY <1>1, <2>2
    <3>2. /\ G[s \cup {y}] = g[y] + G[(s \cup {y}) \ {y}]
          /\ H[s \cup {y}] = h[y] + H[(s \cup {y}) \ {y}]
      BY <1>5, <1>6, <3>1 DEF FirstIsAny
    <3>3. g[y] = h[y] /\ G[s] = H[s]
      BY <1>1, <2>2
    <3> QED BY <3>1, <3>2, <3>3
  <2> HIDE DEF C
  <2> QED BY <2>1, <2>2, InductByElement
<1>8. G[D] = g[x] + G[T] /\ g[x] \in Int /\ G[T] \in Int
  <2>1. D \in SUBSET D
    OBVIOUS
  <2> QED BY <1>1, <1>3, <1>5, <2>1 DEF SumsOf, FirstIsAny
<1>9. SumOver(f, D) = SumOver(f, T) + f[x]
  BY <1>1, <1>2, <1>3, <1>4, <1>7, <1>8
<1> QED BY <1>9 DEF D

Numbers(f, T) == \A x \in T : f[x] \in Int

LEMMA SumStep ==
    ASSUME NEW T, IsFiniteSet(T), NEW f, NEW x, x \notin T, Numbers(f, T \cup {x})
    PROVE  SumOver(f, T \cup {x}) = SumOver(f, T) + f[x] /\ SumOver(f, T) \in Int
<1>1. (\A y \in T \cup {x} : f[y] \in Int) /\ (\A y \in T : f[y] \in Int)
  BY DEF Numbers
<1>2. SumOver(f, T \cup {x}) = SumOver(f, T) + f[x]
  BY <1>1, SumWith
<1> QED BY <1>1, <1>2, SumIsNumber

\* Equal functions have equal sums; a function without values sums to nothing.
LEMMA SumOfSame ==
    ASSUME NEW T, NEW f, NEW g, \A x \in T : f[x] = g[x]
    PROVE  SumOver(f, T) = SumOver(g, T)
<1>1. [x \in T |-> f[x]] = [x \in T |-> g[x]]
  OBVIOUS
<1> QED BY <1>1 DEF SumOver

LEMMA SumOfZeros ==
    ASSUME NEW T, IsFiniteSet(T), NEW f, \A x \in T : f[x] = 0
    PROVE  SumOver(f, T) = 0
<1> DEFINE C == {s \in SUBSET T : SumOver(f, s) = 0}
<1>1. {} \in C
  BY SumOfNone
<1>2. ASSUME NEW s \in SUBSET T, NEW x \in T, s \in C, x \notin s PROVE s \cup {x} \in C
  <2>1. IsFiniteSet(s) /\ \A y \in s \cup {x} : f[y] \in Int
    <3>1. \A y \in s \cup {x} : f[y] = 0
      OBVIOUS
    <3> QED BY <3>1, FS_Subset
  <2>2. SumOver(f, s \cup {x}) = SumOver(f, s) + f[x]
    <3>1. x \notin s
      BY <1>2
    <3> HIDE DEF C
    <3> QED BY <2>1, <3>1, SumWith
  <2> QED BY <1>2, <2>2
<1>3. T \in C
  <2> HIDE DEF C
  <2> QED BY <1>1, <1>2, InductByElement
<1> QED BY <1>3

LEMMA SumIsPositive ==
    ASSUME NEW T, IsFiniteSet(T), NEW f, \A x \in T : f[x] \in Int /\ f[x] >= 0
    PROVE  SumOver(f, T) >= 0
<1> DEFINE C == {s \in SUBSET T : SumOver(f, s) \in Int /\ SumOver(f, s) >= 0}
<1>1. {} \in C
  BY SumOfNone
<1>2. ASSUME NEW s \in SUBSET T, NEW x \in T, s \in C, x \notin s PROVE s \cup {x} \in C
  <2>1. IsFiniteSet(s) /\ \A y \in s \cup {x} : f[y] \in Int
    BY FS_Subset
  <2>2. SumOver(f, s \cup {x}) = SumOver(f, s) + f[x]
    BY <1>2, <2>1, SumWith
  <2> QED BY <1>2, <2>2
<1>3. T \in C
  <2> HIDE DEF C
  <2> QED BY <1>1, <1>2, InductByElement
<1> QED BY <1>3

\* The sum over two sets apart.
LEMMA SumOfUnion ==
    ASSUME NEW S, NEW T, IsFiniteSet(S), IsFiniteSet(T), S \cap T = {}, NEW f,
           \A x \in S \cup T : f[x] \in Int
    PROVE  SumOver(f, S \cup T) = SumOver(f, S) + SumOver(f, T)
<1> DEFINE C == {s \in SUBSET T : SumOver(f, S \cup s) = SumOver(f, S) + SumOver(f, s)}
<1>1. {} \in C
  <2>1. S \cup {} = S /\ SumOver(f, {}) = 0 /\ SumOver(f, S) \in Int
    BY SumOfNone, SumIsNumber
  <2> QED BY <2>1
<1>2. ASSUME NEW s \in SUBSET T, NEW x \in T, s \in C, x \notin s PROVE s \cup {x} \in C
  <2>1. /\ IsFiniteSet(s) /\ \A y \in s \cup {x} : f[y] \in Int
        /\ IsFiniteSet(S \cup s) /\ \A y \in (S \cup s) \cup {x} : f[y] \in Int
        /\ x \notin S \cup s /\ S \cup (s \cup {x}) = (S \cup s) \cup {x} /\ f[x] \in Int
    BY <1>2, FS_Subset, FS_Union
  <2>2. SumOver(f, s \cup {x}) = SumOver(f, s) + f[x]
    BY <1>2, <2>1, SumWith
  <2>3. SumOver(f, (S \cup s) \cup {x}) = SumOver(f, S \cup s) + f[x]
    BY <2>1, SumWith
  <2>4. SumOver(f, s) \in Int /\ SumOver(f, S) \in Int
    BY <2>1, SumIsNumber
  <2>5. SumOver(f, S \cup s) = SumOver(f, S) + SumOver(f, s)
    BY <1>2
  <2>6. SumOver(f, S \cup (s \cup {x})) = SumOver(f, S) + SumOver(f, s \cup {x})
    <3>1. S \cup (s \cup {x}) = (S \cup s) \cup {x} /\ f[x] \in Int
      BY <2>1
    <3>2. SumOver(f, (S \cup s) \cup {x}) = SumOver(f, S) + SumOver(f, s \cup {x})
      BY <2>2, <2>3, <2>4, <2>5, <3>1
    <3> QED BY <3>1, <3>2
  <2> QED BY <2>6
<1>3. T \in C
  <2> HIDE DEF C
  <2> QED BY <1>1, <1>2, InductByElement
<1> QED BY <1>3

\* The sum of sums of two functions.
LEMMA SumOfTwo ==
    ASSUME NEW T, IsFiniteSet(T), NEW f, NEW g, NEW h,
           \A x \in T : f[x] \in Int /\ g[x] \in Int /\ h[x] = f[x] + g[x]
    PROVE  SumOver(h, T) = SumOver(f, T) + SumOver(g, T)
<1> DEFINE C == {s \in SUBSET T : SumOver(h, s) = SumOver(f, s) + SumOver(g, s)}
<1>1. {} \in C
  BY SumOfNone
<1>2. ASSUME NEW s \in SUBSET T, NEW x \in T, s \in C, x \notin s PROVE s \cup {x} \in C
  <2>1. /\ IsFiniteSet(s) /\ Numbers(f, s \cup {x}) /\ Numbers(g, s \cup {x}) /\ Numbers(h, s \cup {x})
        /\ x \notin s /\ h[x] = f[x] + g[x] /\ f[x] \in Int /\ g[x] \in Int
        /\ SumOver(h, s) = SumOver(f, s) + SumOver(g, s)
    BY <1>2, FS_Subset DEF Numbers
  <2> HIDE DEF C
  <2>2. SumOver(f, s \cup {x}) = SumOver(f, s) + f[x] /\ SumOver(f, s) \in Int
    BY <2>1, SumStep
  <2>3. SumOver(g, s \cup {x}) = SumOver(g, s) + g[x] /\ SumOver(g, s) \in Int
    BY <2>1, SumStep
  <2>4. SumOver(h, s \cup {x}) = SumOver(h, s) + h[x] /\ SumOver(h, s) \in Int
    BY <2>1, SumStep
  <2>5. SumOver(h, s \cup {x}) = SumOver(f, s \cup {x}) + SumOver(g, s \cup {x})
    BY <2>1, <2>2, <2>3, <2>4
  <2> QED BY <2>5 DEF C
<1>3. T \in C
  <2> HIDE DEF C
  <2> QED BY <1>1, <1>2, InductByElement
<1> QED BY <1>3

\* A sum over the elements that h gives is the sum of the values at them.
LEMMA SumAt ==
    ASSUME NEW A, IsFiniteSet(A), NEW h, \A x, y \in A : h[x] = h[y] => x = y,
           NEW f, \A x \in A : f[h[x]] \in Int,
           NEW g, \A x \in A : g[x] = f[h[x]]
    PROVE  SumOver(g, A) = SumOver(f, {h[x] : x \in A})
<1> DEFINE image(s) == {h[x] : x \in s}
           C == {s \in SUBSET A : IsFiniteSet(image(s)) /\ SumOver(g, s) = SumOver(f, image(s))}
<1>1. {} \in C
  <2>1. image({}) = {}
    OBVIOUS
  <2> HIDE DEF image
  <2> QED BY <2>1, SumOfNone, FS_EmptySet
<1>2. ASSUME NEW s \in SUBSET A, NEW x \in A, s \in C, x \notin s PROVE s \cup {x} \in C
  <2>1. /\ IsFiniteSet(image(s)) /\ SumOver(g, s) = SumOver(f, image(s))
        /\ Numbers(f, image(s) \cup {h[x]})
        /\ h[x] \notin image(s) /\ image(s \cup {x}) = image(s) \cup {h[x]}
    BY <1>2 DEF Numbers
  <2>2. IsFiniteSet(s) /\ x \notin s /\ Numbers(g, s \cup {x}) /\ g[x] = f[h[x]]
    BY <1>2, FS_Subset DEF Numbers
  <2> HIDE DEF C, image
  <2>3. SumOver(g, s \cup {x}) = SumOver(g, s) + g[x] /\ SumOver(g, s) \in Int
    BY <2>2, SumStep
  <2>4. PICK U : U = image(s)
    OBVIOUS
  <2>5. PICK v : v = h[x]
    OBVIOUS
  <2>6. SumOver(f, U \cup {v}) = SumOver(f, U) + f[v] /\ SumOver(f, U) \in Int
    <3>1. IsFiniteSet(U) /\ v \notin U /\ Numbers(f, U \cup {v})
      BY <2>1, <2>4, <2>5
    <3> QED BY <3>1, SumStep
  <2>7. IsFiniteSet(U \cup {v})
    BY <2>1, <2>4, FS_AddElement
  <2> QED BY <2>1, <2>2, <2>3, <2>4, <2>5, <2>6, <2>7 DEF C
<1>3. A \in C
  <2> HIDE DEF C
  <2> QED BY <1>1, <1>2, InductByElement
<1> QED BY <1>3

LEMMA ImageIsFinite ==
    ASSUME NEW S, IsFiniteSet(S), NEW f
    PROVE  IsFiniteSet({f[x] : x \in S})
<1> DEFINE g == [x \in S |-> f[x]]
           image == {f[x] : x \in S}
<1>1. g \in Surjection(S, image)
  BY DEF Surjection
<1> QED BY <1>1, FS_Surjection

\* The sum of a function that is not 0 at one place.
LEMMA SumAtOnePlace ==
    ASSUME NEW K, IsFiniteSet(K), NEW k \in K, NEW d, d[k] \in Int, \A t \in K \ {k} : d[t] = 0
    PROVE  SumOver(d, K) = d[k]
<1>1. PICK rest : rest = K \ {k}
  OBVIOUS
<1>2. IsFiniteSet(rest) /\ k \notin rest /\ rest \cup {k} = K
  BY <1>1, FS_Subset
<1>3. \A t \in rest \cup {k} : d[t] \in Int
  BY <1>1
<1>4. SumOver(d, rest \cup {k}) = SumOver(d, rest) + d[k]
  BY <1>2, <1>3, SumWith
<1>5. SumOver(d, rest) = 0
  <2>1. \A t \in rest : d[t] = 0
    BY <1>1
  <2> QED BY <1>2, <2>1, SumOfZeros
<1>6. SumOver(d, rest \cup {k}) = SumOver(d, K)
  BY <1>2
<1> QED BY <1>4, <1>5, <1>6

\* A sum by the values of a key.
LEMMA SumByKey ==
    ASSUME NEW A, IsFiniteSet(A), NEW K, IsFiniteSet(K), NEW key, \A x \in A : key[x] \in K,
           NEW f, \A x \in A : f[x] \in Int
    PROVE  SumOver(f, A) = SumOver([t \in K |-> SumOver(f, {x \in A : key[x] = t})], K)
<1> DEFINE at(s, t) == {x \in s : key[x] = t}
           by(s) == [t \in K |-> SumOver(f, at(s, t))]
           C == {s \in SUBSET A : SumOver(f, s) = SumOver(by(s), K)}
<1>1. {} \in C
  <2>1. \A t \in K : by({})[t] = 0
    BY SumOfNone
  <2> HIDE DEF by
  <2>2. SumOver(by({}), K) = 0
    BY <2>1, SumOfZeros
  <2> QED BY <2>2, SumOfNone
<1>2. ASSUME NEW s \in SUBSET A, NEW x \in A, s \in C, x \notin s PROVE s \cup {x} \in C
  <2> DEFINE d == [t \in K |-> IF t = key[x] THEN f[x] ELSE 0]
  <2>1. SumOver(f, s) = SumOver(by(s), K) /\ IsFiniteSet(s)
    BY <1>2, FS_Subset
  <2>2. Numbers(f, s \cup {x})
    BY DEF Numbers
  <2>3. SumOver(f, s \cup {x}) = SumOver(f, s) + f[x]
    <3>1. x \notin s
      BY <1>2
    <3>2. IsFiniteSet(s)
      BY <2>1
    <3> HIDE DEF C, d
    <3> QED BY <2>2, <3>1, <3>2, SumStep
  <2>4. ASSUME NEW t \in K
        PROVE  SumOver(f, at(s, t)) \in Int /\ SumOver(f, at(s \cup {x}, t)) = SumOver(f, at(s, t)) + d[t]
    <3>1. PICK u : u = at(s, t)
      OBVIOUS
    <3>2. IsFiniteSet(u) /\ u \subseteq s
      BY <2>1, <3>1, FS_Subset
    <3>3. Numbers(f, u \cup {x}) /\ (\A y \in u : f[y] \in Int)
      BY <3>2 DEF Numbers
    <3>4. SumOver(f, u) \in Int
      BY <3>2, <3>3, SumIsNumber
    <3>5. CASE key[x] = t
      <4>1. at(s \cup {x}, t) = u \cup {x} /\ d[t] = f[x] /\ x \notin u
        BY <1>2, <3>1, <3>2, <3>5
      <4>2. SumOver(f, u \cup {x}) = SumOver(f, u) + f[x]
        BY <3>2, <3>3, <4>1, SumStep
      <4> QED BY <3>1, <3>4, <4>1, <4>2
    <3>6. CASE key[x] # t
      <4>1. at(s \cup {x}, t) = u /\ d[t] = 0
        BY <3>1, <3>6
      <4> QED BY <3>1, <3>4, <4>1
    <3> QED BY <3>5, <3>6
  <2>5. \A t \in K : /\ by(s)[t] \in Int /\ d[t] \in Int
                     /\ by(s \cup {x})[t] = by(s)[t] + d[t]
    BY <2>4
  <2>6. key[x] \in K /\ d[key[x]] = f[x] /\ f[x] \in Int /\ \A t \in K \ {key[x]} : d[t] = 0
    OBVIOUS
  <2> HIDE DEF by, d
  <2>7. SumOver(by(s \cup {x}), K) = SumOver(by(s), K) + SumOver(d, K)
    BY <2>5, SumOfTwo
  <2>8. SumOver(d, K) = f[x]
    <3>1. PICK k : k = key[x]
      OBVIOUS
    <3>2. k \in K /\ d[k] = f[x] /\ d[k] \in Int /\ \A t \in K \ {k} : d[t] = 0
      BY <2>6, <3>1
    <3>3. SumOver(d, K) = d[k]
      BY <3>2, SumAtOnePlace
    <3> QED BY <3>2, <3>3
  <2>9. SumOver(f, s \cup {x}) = SumOver(by(s \cup {x}), K)
    BY <2>1, <2>3, <2>7, <2>8
  <2> QED BY <1>2, <2>9
<1>3. A \in C
  <2> HIDE DEF C
  <2> QED BY <1>1, <1>2, InductByElement
<1> QED BY <1>3

LEMMA SumScaled ==
    ASSUME NEW T, IsFiniteSet(T), NEW c \in Int, NEW f, NEW g,
           \A x \in T : f[x] \in Int /\ g[x] = f[x] * c
    PROVE  SumOver(g, T) = SumOver(f, T) * c
<1> DEFINE C == {s \in SUBSET T : SumOver(g, s) = SumOver(f, s) * c}
<1>1. \A x \in T : f[x] * c \in Int
  OBVIOUS
<1>2. {} \in C
  BY SumOfNone
<1>3. ASSUME NEW s \in SUBSET T, NEW x \in T, s \in C, x \notin s PROVE s \cup {x} \in C
  <2>1. /\ IsFiniteSet(s) /\ Numbers(f, s \cup {x}) /\ Numbers(g, s \cup {x})
        /\ x \notin s /\ f[x] \in Int /\ g[x] = f[x] * c /\ SumOver(g, s) = SumOver(f, s) * c
    BY <1>1, <1>3, FS_Subset DEF Numbers
  <2> HIDE DEF C
  <2>2. SumOver(f, s \cup {x}) = SumOver(f, s) + f[x] /\ SumOver(f, s) \in Int
    BY <2>1, SumStep
  <2>3. SumOver(g, s \cup {x}) = SumOver(g, s) + g[x] /\ SumOver(g, s) \in Int
    BY <2>1, SumStep
  <2>4. \A a, b \in Int : (a + b) * c = a * c + b * c
    OBVIOUS
  <2>5. SumOver(g, s \cup {x}) = SumOver(f, s \cup {x}) * c
    BY <2>1, <2>2, <2>3, <2>4
  <2> QED BY <2>5 DEF C
<1>4. T \in C
  <2> HIDE DEF C
  <2> QED BY <1>2, <1>3, InductByElement
<1> QED BY <1>4

LEMMA SumOfConstant ==
    ASSUME NEW T, IsFiniteSet(T), NEW c \in Int, NEW f, \A x \in T : f[x] = c
    PROVE  SumOver(f, T) = Cardinality(T) * c
<1> DEFINE C == {s \in SUBSET T : SumOver(f, s) = Cardinality(s) * c}
<1>1. {} \in C
  BY SumOfNone, FS_EmptySet
<1>2. ASSUME NEW s \in SUBSET T, NEW x \in T, s \in C, x \notin s PROVE s \cup {x} \in C
  <2>1. /\ IsFiniteSet(s) /\ Numbers(f, s \cup {x})
        /\ x \notin s /\ f[x] = c /\ SumOver(f, s) = Cardinality(s) * c
    BY <1>2, FS_Subset DEF Numbers
  <2> HIDE DEF C
  <2>2. SumOver(f, s \cup {x}) = SumOver(f, s) + f[x] /\ SumOver(f, s) \in Int
    BY <2>1, SumStep
  <2>3. Cardinality(s \cup {x}) = Cardinality(s) + 1 /\ Cardinality(s) \in Nat
    BY <2>1, FS_AddElement, FS_CardinalityType
  <2>4. \A a \in Int : (a + 1) * c = a * c + c
    OBVIOUS
  <2>5. SumOver(f, s \cup {x}) = Cardinality(s \cup {x}) * c
    BY <2>1, <2>2, <2>3, <2>4
  <2> QED BY <2>5 DEF C
<1>3. T \in C
  <2> HIDE DEF C
  <2> QED BY <1>1, <1>2, InductByElement
<1> QED BY <1>3

\* A number times a positive one, divided by it.
LEMMA DivisionUndoes == ASSUME NEW c \in Int, NEW n \in Nat, n > 0 PROVE (c * n) \div n = c
<1>1. c * n \in Int
  OBVIOUS
<1> QED BY <1>1

\* Elements without value may be left out of a sum.
LEMMA SumOfPart ==
    ASSUME NEW T, IsFiniteSet(T), NEW S \in SUBSET T, NEW f, \A x \in T : f[x] \in Int,
           \A x \in T \ S : f[x] = 0
    PROVE  SumOver(f, S) = SumOver(f, T)
<1> DEFINE U == T \ S
<1>1. /\ IsFiniteSet(S) /\ IsFiniteSet(U) /\ S \cap U = {} /\ T = S \cup U
      /\ (\A x \in S \cup U : f[x] \in Int) /\ (\A x \in U : f[x] = 0) /\ (\A x \in S : f[x] \in Int)
  BY FS_Subset
<1> HIDE DEF U
<1>2. SumOver(f, S \cup U) = SumOver(f, S) + SumOver(f, U)
  BY <1>1, SumOfUnion
<1>3. SumOver(f, U) = 0
  BY <1>1, SumOfZeros
<1>4. SumOver(f, S) \in Int
  BY <1>1, SumIsNumber
<1> QED BY <1>1, <1>2, <1>3, <1>4

\* The greatest and the least number of a set.
LEMMA GreatestExists ==
    ASSUME NEW S, IsFiniteSet(S), S # {}, S \subseteq Int
    PROVE  Max(S) \in S /\ \A x \in S : x <= Max(S)
<1> DEFINE Has(s) == s # {} => \E m \in s : \A x \in s : m >= x
           C == {s \in SUBSET S : Has(s)}
<1>1. {} \in C
  OBVIOUS
<1>2. ASSUME NEW s \in SUBSET S, NEW y \in S, s \in C, y \notin s PROVE s \cup {y} \in C
  <2>1. CASE s = {}
    <3>1. \E m \in s \cup {y} : \A x \in s \cup {y} : m >= x
      BY <2>1
    <3> QED BY <3>1
  <2>2. CASE s # {}
    <3>1. PICK m \in s : \A x \in s : m >= x
      BY <1>2, <2>2
    <3>2. CASE m >= y
      BY <3>1, <3>2
    <3>3. CASE ~(m >= y)
      <4>1. \A x \in s \cup {y} : y >= x
        BY <3>1, <3>3
      <4> QED BY <4>1
    <3> QED BY <3>2, <3>3
  <2> QED BY <2>1, <2>2
<1>3. S \in C
  <2> HIDE DEF C
  <2> QED BY <1>1, <1>2, InductByElement
<1>4. \E m \in S : \A x \in S : m >= x
  BY <1>3
<1>5. Max(S) \in S /\ \A x \in S : Max(S) >= x
  BY <1>4 DEF Max
<1> QED BY <1>5

LEMMA LeastExists ==
    ASSUME NEW S, IsFiniteSet(S), S # {}, S \subseteq Int
    PROVE  Min(S) \in S /\ \A x \in S : Min(S) <= x
<1> DEFINE Has(s) == s # {} => \E m \in s : \A x \in s : m <= x
           C == {s \in SUBSET S : Has(s)}
<1>1. {} \in C
  OBVIOUS
<1>2. ASSUME NEW s \in SUBSET S, NEW y \in S, s \in C, y \notin s PROVE s \cup {y} \in C
  <2>1. CASE s = {}
    <3>1. \E m \in s \cup {y} : \A x \in s \cup {y} : m <= x
      BY <2>1
    <3> QED BY <3>1
  <2>2. CASE s # {}
    <3>1. PICK m \in s : \A x \in s : m <= x
      BY <1>2, <2>2
    <3>2. CASE m <= y
      BY <3>1, <3>2
    <3>3. CASE ~(m <= y)
      <4>1. \A x \in s \cup {y} : y <= x
        BY <3>1, <3>3
      <4> QED BY <4>1
    <3> QED BY <3>2, <3>3
  <2> QED BY <2>1, <2>2
<1>3. S \in C
  <2> HIDE DEF C
  <2> QED BY <1>1, <1>2, InductByElement
<1>4. \E m \in S : \A x \in S : m <= x
  BY <1>3
<1>5. Min(S) \in S /\ \A x \in S : Min(S) <= x
  BY <1>4 DEF Min
<1> QED BY <1>5

LEMMA MaxIs ==
    ASSUME NEW S, S \subseteq Int, NEW m \in S, \A x \in S : x <= m
    PROVE  Max(S) = m
<1>1. \E x \in S : \A y \in S : x >= y
  OBVIOUS
<1>2. Max(S) \in S /\ \A y \in S : Max(S) >= y
  BY <1>1 DEF Max
<1>3. PICK n \in S : n = Max(S) /\ n >= m
  BY <1>2
<1>4. n <= m /\ m <= n /\ n \in Int /\ m \in Int
  BY <1>3
<1> QED BY <1>3, <1>4

LEMMA MinIs ==
    ASSUME NEW S, S \subseteq Int, NEW m \in S, \A x \in S : m <= x
    PROVE  Min(S) = m
<1>1. \E x \in S : \A y \in S : x =< y
  OBVIOUS
<1>2. Min(S) \in S /\ \A y \in S : Min(S) =< y
  BY <1>1 DEF Min
<1>3. PICK n \in S : n = Min(S) /\ n =< m
  BY <1>2
<1>4. n <= m /\ m <= n /\ n \in Int /\ m \in Int
  BY <1>3
<1> QED BY <1>3, <1>4

----------------------------------------------------------------------------
(* The members of a set of numbers in order.                               *)

Increasing(s) == \A i, j \in DOMAIN s : i < j => s[i] < s[j]
\* s lists the members of S.
Lists(s, S) ==
    /\ DOMAIN s = 1..Cardinality(S)
    /\ \A i \in DOMAIN s : s[i] \in S
    /\ \A x \in S : \E i \in DOMAIN s : s[i] = x
    /\ Increasing(s)

LEMMA InOrderLists ==
    ASSUME NEW S, IsFiniteSet(S), S \subseteq Int
    PROVE  Lists(InOrder(S), S)
<1> DEFINE below(x) == {y \in S : y < x}
           n == Cardinality(S)
           rank == [x \in S |-> Cardinality(below(x))]
           s == InOrder(S)
<1>1. n \in Nat
  BY FS_CardinalityType
<1>2. ASSUME NEW x \in S
      PROVE  IsFiniteSet(below(x)) /\ Cardinality(below(x)) \in 0..(n - 1)
  <2>1. IsFiniteSet(below(x))
    BY FS_Subset
  <2>2. below(x) \in SUBSET (S \ {x})
    OBVIOUS
  <2>3. IsFiniteSet(S \ {x}) /\ Cardinality(S \ {x}) = n - 1
    BY FS_RemoveElement
  <2>4. Cardinality(below(x)) <= Cardinality(S \ {x})
    BY <2>2, <2>3, FS_Subset
  <2>5. Cardinality(below(x)) \in Nat
    BY <2>1, FS_CardinalityType
  <2> QED BY <1>1, <2>1, <2>3, <2>4, <2>5
<1>3. ASSUME NEW x \in S, NEW z \in S, x < z PROVE rank[x] < rank[z]
  <2>1. below(x) \cup {x} \in SUBSET below(z) /\ x \notin below(x)
    <3>1. x \in Int /\ z \in Int /\ \A y \in S : y \in Int
      OBVIOUS
    <3>2. ASSUME NEW y \in S, y < x PROVE y < z
      <4>1. y \in Int /\ x < z
        BY <1>3
      <4> QED BY <3>1, <3>2, <4>1
    <3>3. \A y \in below(x) \cup {x} : y \in below(z)
      BY <1>3, <3>2
    <3>4. x \notin below(x)
      BY <3>1
    <3> QED BY <3>3, <3>4, Zenon
  <2>2. Cardinality(below(x) \cup {x}) = Cardinality(below(x)) + 1
    BY <1>2, <2>1, FS_AddElement
  <2>3. Cardinality(below(x) \cup {x}) <= Cardinality(below(z))
    BY <1>2, <2>1, FS_Subset
  <2>4. Cardinality(below(x)) \in Nat /\ Cardinality(below(z)) \in Nat
    BY <1>2
  <2> QED BY <2>2, <2>3, <2>4
<1>4. \A x \in S : rank[x] \in 0..(n - 1)
  BY <1>2
<1>5. \A x, z \in S : rank[x] = rank[z] => x = z
  <2> SUFFICES ASSUME NEW x \in S, NEW z \in S, x # z PROVE rank[x] # rank[z]
    OBVIOUS
  <2>1. rank[x] \in Int /\ rank[z] \in Int
    BY <1>4
  <2>2. x < z \/ z < x
    OBVIOUS
  <2> HIDE DEF rank
  <2> QED BY <1>3, <2>1, <2>2
<1>6. \A k \in 0..(n - 1) : \E x \in S : rank[x] = k
  <2>1. rank \in Injection(S, 0..(n - 1))
    BY <1>4, <1>5 DEF Injection, IsInjective
  <2>2. IsFiniteSet(0..(n - 1)) /\ Cardinality(0..(n - 1)) = n
    BY <1>1, FS_Interval
  <2>3. rank \in Surjection(S, 0..(n - 1))
    <3> HIDE DEF rank
    <3> QED BY <2>1, <2>2, FS_Injection
  <2> QED BY <2>3 DEF Surjection
<1>7. s = [i \in 1..n |-> CHOOSE x \in S : Cardinality(below(x)) = i - 1]
  BY DEF InOrder
<1>13. \A x \in S : rank[x] = Cardinality(below(x))
  OBVIOUS
<1> HIDE DEF rank, s, below
<1>8. \A i \in 1..n : s[i] \in S /\ rank[s[i]] = i - 1
  <2> SUFFICES ASSUME NEW i \in 1..n PROVE s[i] \in S /\ rank[s[i]] = i - 1
    OBVIOUS
  <2>1. i - 1 \in 0..(n - 1)
    BY <1>1
  <2>2. \E x \in S : rank[x] = i - 1
    BY <1>6, <2>1
  <2>3. s[i] = CHOOSE x \in S : Cardinality(below(x)) = i - 1
    BY <1>7
  <2>4. \E x \in S : Cardinality(below(x)) = i - 1
    BY <1>13, <2>2
  <2> QED BY <1>13, <2>3, <2>4
<1>9. DOMAIN s = 1..n
  BY <1>7
<1>10. \A x \in S : \E i \in DOMAIN s : s[i] = x
  <2> SUFFICES ASSUME NEW x \in S PROVE \E i \in DOMAIN s : s[i] = x
    OBVIOUS
  <2>1. PICK i \in 1..n : i = rank[x] + 1
    BY <1>1, <1>4
  <2>2. rank[s[i]] = rank[x] /\ s[i] \in S
    BY <1>1, <1>4, <1>8, <2>1
  <2> QED BY <1>5, <1>9, <2>2
<1>11. Increasing(s)
  <2> SUFFICES ASSUME NEW i \in 1..n, NEW j \in 1..n, i < j PROVE s[i] < s[j]
    BY <1>9 DEF Increasing
  <2>1. s[i] \in S /\ s[j] \in S /\ rank[s[i]] = i - 1 /\ rank[s[j]] = j - 1
    BY <1>8
  <2>2. ~(s[j] < s[i]) /\ s[i] # s[j]
    <3>1. i \in Int /\ j \in Int /\ i - 1 < j - 1 /\ i - 1 # j - 1 /\ ~(j - 1 < i - 1)
      BY <1>1
    <3>2. s[j] < s[i] => rank[s[j]] < rank[s[i]]
      BY <1>3, <2>1
    <3> QED BY <2>1, <3>1, <3>2
  <2>3. s[i] \in Int /\ s[j] \in Int
    BY <2>1
  <2> QED BY <2>2, <2>3
<1>12. \A i \in DOMAIN s : s[i] \in S
  BY <1>8, <1>9
<1> QED BY <1>9, <1>10, <1>11, <1>12 DEF Lists, s

----------------------------------------------------------------------------
(* The calendar.                                                           *)

Months == DOMAIN MonthLengths

LEMMA MonthsAre ==
    /\ Months = 1..Len(MonthLengths) /\ Len(MonthLengths) \in Nat
    /\ \A m \in Months : MonthLengths[m] \in Nat /\ MonthLengths[m] > 0
    /\ CycleMonths \in Nat /\ CycleMonths > 0 /\ ValidityMonths \in Nat
    /\ BillingStart.m \in Months /\ BillingStart.d \in Nat /\ BillingStart.d > 0
  BY BillingAssumption DEF Months

\* A month begins after the month before.
LEMMA MonthsFollow ==
    /\ MonthStart[1] = 1
    /\ \A m \in 1..(Len(MonthLengths) + 1) : MonthStart[m] \in Int
    /\ \A m \in Months : MonthStart[m + 1] = MonthStart[m] + MonthLengths[m]
<1> DEFINE N == 1..(Len(MonthLengths) + 1)
           days == [i \in Months |-> {i} \X (1..MonthLengths[i])]
<1>1. \A m \in N : MonthStart[m] = 1 + Cardinality(DaysBefore(m))
  BY DEF MonthStart
<1>2. ASSUME NEW i \in Months PROVE IsFiniteSet(days[i]) /\ Cardinality(days[i]) = MonthLengths[i]
  <2>1. PICK n \in Nat : n = MonthLengths[i]
    BY MonthsAre
  <2>2. IsFiniteSet(1..n) /\ Cardinality(1..n) = n
    BY FS_Interval
  <2>3. IsFiniteSet({i}) /\ Cardinality({i}) = 1
    BY FS_Singleton
  <2>4. IsFiniteSet({i} \X (1..n)) /\ Cardinality({i} \X (1..n)) = 1 * n
    BY <2>2, <2>3, FS_Product
  <2>5. days[i] = {i} \X (1..n)
    BY <2>1
  <2> QED BY <2>1, <2>4, <2>5
<1>3. ASSUME NEW m \in N PROVE IsFiniteSet(DaysBefore(m)) /\ Cardinality(DaysBefore(m)) \in Nat
  <2>1. m - 1 \in Int /\ 1..(m - 1) \subseteq Months
    BY MonthsAre
  <2>2. DaysBefore(m) = UNION {days[i] : i \in 1..(m - 1)}
    <3>1. \A i \in 1..(m - 1) : days[i] = {i} \X (1..MonthLengths[i])
      BY <2>1
    <3> HIDE DEF days
    <3> QED BY <3>1 DEF DaysBefore
  <2> HIDE DEF days
  <2>3. IsFiniteSet({days[i] : i \in 1..(m - 1)})
    <3>1. PICK I : I = 1..(m - 1)
      OBVIOUS
    <3>2. IsFiniteSet(I)
      BY <2>1, <3>1, FS_Interval
    <3>3. IsFiniteSet({days[i] : i \in I})
      BY <3>2, ImageIsFinite
    <3> QED BY <3>1, <3>3
  <2>4. \A T \in {days[i] : i \in 1..(m - 1)} : IsFiniteSet(T)
    BY <1>2, <2>1
  <2> QED BY <2>2, <2>3, <2>4, FS_UNION, FS_CardinalityType
<1>4. MonthStart[1] = 1
  <2>1. DaysBefore(1) = {}
    BY DEF DaysBefore
  <2>2. 1 \in N
    BY MonthsAre
  <2>3. Cardinality(DaysBefore(1)) = 0
    <3>1. Cardinality({}) = 0
      BY FS_EmptySet
    <3> QED BY <2>1, <3>1
  <2>4. MonthStart[1] = 1 + Cardinality(DaysBefore(1))
    <3> HIDE DEF N
    <3> QED BY <1>1, <2>2
  <2> QED BY <2>3, <2>4
<1>5. ASSUME NEW m \in Months PROVE MonthStart[m + 1] = MonthStart[m] + MonthLengths[m]
  <2>1. m \in N /\ m + 1 \in N /\ m \in Int /\ \A i : i \in 1..m <=> i \in 1..(m - 1) \/ i = m
    BY MonthsAre
  <2>2. PICK B, D : B = DaysBefore(m) /\ D = days[m]
    OBVIOUS
  <2>3. DaysBefore(m + 1) = B \cup D
    <3>1. (m + 1) - 1 = m
      BY <2>1
    <3>2. D = {m} \X (1..MonthLengths[m])
      BY <2>2
    <3> HIDE DEF days
    <3> QED BY <2>1, <2>2, <3>1, <3>2 DEF DaysBefore
  <2>4. B \cap D = {}
    <3>1. \A x \in D : x[1] = m
      BY <2>2
    <3>2. \A x \in B : x[1] \in 1..(m - 1)
      <4> HIDE DEF days
      <4> QED BY <2>2 DEF DaysBefore
    <3> QED BY <2>1, <3>1, <3>2
  <2>5. IsFiniteSet(B) /\ IsFiniteSet(D) /\ Cardinality(B) \in Nat /\ Cardinality(D) = MonthLengths[m]
    BY <1>2, <1>3, <2>1, <2>2
  <2>6. Cardinality(B \cup D) = Cardinality(B) + Cardinality(D)
    <3>1. Cardinality(B \cup D) = Cardinality(B) + Cardinality(D) - Cardinality(B \cap D)
      BY <2>5, FS_Union
    <3>2. Cardinality(B \cap D) = 0
      BY <2>4, FS_EmptySet
    <3>3. Cardinality(D) \in Nat
      BY <2>5, MonthsAre
    <3> QED BY <2>5, <3>1, <3>2, <3>3
  <2>7. MonthStart[m + 1] = 1 + Cardinality(DaysBefore(m + 1)) /\ MonthStart[m] = 1 + Cardinality(B)
    <3> HIDE DEF N
    <3> QED BY <1>1, <2>1, <2>2
  <2>8. Cardinality(DaysBefore(m + 1)) = Cardinality(B \cup D)
    BY <2>3, Zenon
  <2>9. Cardinality(D) = MonthLengths[m] /\ MonthLengths[m] \in Nat /\ Cardinality(B) \in Nat
    BY <2>5, MonthsAre
  <2> HIDE DEF days, N
  <2> QED BY <2>6, <2>7, <2>8, <2>9
<1>6. \A m \in N : MonthStart[m] \in Int
  BY <1>1, <1>3
<1> QED BY <1>4, <1>5, <1>6

LEMMA MonthsIncrease ==
    ASSUME NEW m \in Months, NEW k \in 1..(Len(MonthLengths) + 1), m < k
    PROVE  MonthStart[m] + MonthLengths[m] <= MonthStart[k]
<1> DEFINE C == {j \in Nat : m + 1 + j <= Len(MonthLengths) + 1 =>
                                 MonthStart[m] + MonthLengths[m] <= MonthStart[m + 1 + j]}
<1>1. 0 \in C
  BY MonthsAre, MonthsFollow
<1>2. ASSUME NEW j \in Nat, j \in C PROVE j + 1 \in C
  <2> SUFFICES ASSUME m + 1 + (j + 1) <= Len(MonthLengths) + 1
               PROVE  MonthStart[m] + MonthLengths[m] <= MonthStart[m + 1 + (j + 1)]
    OBVIOUS
  <2>1. PICK i : i = m + 1 + j
    OBVIOUS
  <2>2. i \in Months /\ i + 1 = m + 1 + (j + 1) /\ m \in 1..(Len(MonthLengths) + 1)
        /\ i \in 1..(Len(MonthLengths) + 1) /\ i + 1 \in 1..(Len(MonthLengths) + 1)
    BY <2>1, MonthsAre
  <2>3. MonthStart[m] + MonthLengths[m] <= MonthStart[i]
    BY <1>2, <2>1, <2>2, MonthsAre
  <2>4. MonthStart[i + 1] = MonthStart[i] + MonthLengths[i]
    BY <2>2, MonthsFollow
  <2>5. /\ MonthStart[m] \in Int /\ MonthLengths[m] \in Int /\ MonthStart[i] \in Int
        /\ MonthLengths[i] \in Nat
    BY <2>2, MonthsFollow, MonthsAre
  <2> QED BY SMTT(40), <2>2, <2>3, <2>4, <2>5
<1>3. \A j \in Nat : j \in C
  <2> HIDE DEF C
  <2> QED BY <1>1, <1>2, Induct
<1>4. k - m - 1 \in Nat /\ m + 1 + (k - m - 1) = k /\ k <= Len(MonthLengths) + 1
  BY MonthsAre
<1> QED BY <1>3, <1>4

\* A date of the calendar.
InMonth(date) == /\ date.m \in Months /\ date.d \in Int
                 /\ 1 <= date.d /\ date.d <= MonthLengths[date.m]

LEMMA DayNoIsNumber ==
    ASSUME NEW date, InMonth(date)
    PROVE  DayNo(date) \in Int /\ MonthStart[date.m] \in Int /\ MonthLengths[date.m] \in Nat
<1>1. date.m \in 1..(Len(MonthLengths) + 1)
  BY MonthsAre DEF InMonth
<1> QED BY <1>1, MonthsFollow, MonthsAre DEF InMonth, DayNo

\* Days increase with months, and in a month with days.
LEMMA DaysIncrease ==
    ASSUME NEW a, InMonth(a), NEW b, InMonth(b)
    PROVE  /\ a.m < b.m => DayNo(a) < DayNo(b)
           /\ a.m = b.m /\ a.d <= b.d => DayNo(a) <= DayNo(b)
<1>1. /\ MonthStart[a.m] \in Int /\ MonthLengths[a.m] \in Nat
      /\ MonthStart[b.m] \in Int /\ MonthLengths[b.m] \in Nat
  BY DayNoIsNumber
<1>2. a.m < b.m => MonthStart[a.m] + MonthLengths[a.m] <= MonthStart[b.m]
  <2>1. a.m \in Months /\ b.m \in 1..(Len(MonthLengths) + 1)
    BY MonthsAre DEF InMonth
  <2> QED BY <2>1, MonthsIncrease
<1> QED BY <1>1, <1>2 DEF InMonth, DayNo

LEMMA MonthOfDay ==
    ASSUME NEW n \in Int, n >= 1
    PROVE  /\ DateOf(n).m \in Months /\ MonthStart[DateOf(n).m] <= n
           /\ DateOf(n).d = n - MonthStart[DateOf(n).m] + 1
           /\ DateOf(n).m < Len(MonthLengths) => n < MonthStart[DateOf(n).m + 1]
<1> DEFINE S == {i \in Months : MonthStart[i] <= n}
           m == Max(S)
<1>1. IsFiniteSet(S) /\ S \subseteq Int
  <2>1. IsFiniteSet(Months) /\ Months \subseteq Int
    <3>1. 1 \in Int /\ Len(MonthLengths) \in Int
      BY MonthsAre
    <3> QED BY <3>1, MonthsAre, FS_Interval
  <2> QED BY <2>1, FS_Subset
<1>2. S # {}
  <2>1. 1 \in Months
    BY MonthsAre
  <2> QED BY <2>1, MonthsFollow
<1>3. m \in S /\ \A i \in S : i <= m
  <2> HIDE DEF S
  <2> QED BY <1>1, <1>2, GreatestExists
<1>4. DateOf(n) = [m |-> m, d |-> n - MonthStart[m] + 1]
  BY DEF DateOf, Months
<1> HIDE DEF m
<1>5. ASSUME m < Len(MonthLengths) PROVE n < MonthStart[m + 1]
  <2>1. m \in Int /\ m + 1 \in Months /\ m + 1 \notin S
    <3>1. m \in 1..Len(MonthLengths)
      BY <1>3, MonthsAre
    <3>2. m + 1 \in Months /\ ~(m + 1 <= m) /\ m \in Int
      BY <1>5, <3>1, MonthsAre
    <3> QED BY <1>3, <3>2
  <2>2. MonthStart[m + 1] \in Int
    BY <2>1, MonthsFollow, MonthsAre
  <2> QED BY <2>1, <2>2
<1> QED BY <1>3, <1>4, <1>5

LEMMA DateOfDayNo ==
    ASSUME NEW date, InMonth(date)
    PROVE  DateOf(DayNo(date)) = [m |-> date.m, d |-> date.d]
<1> DEFINE n == DayNo(date)
           S == {i \in Months : MonthStart[i] <= n}
<1>1. n \in Int /\ MonthStart[date.m] \in Int /\ MonthLengths[date.m] \in Nat
  BY DayNoIsNumber
<1>2. n = MonthStart[date.m] + date.d - 1 /\ date.d \in Int /\ date.m \in Months
      /\ 1 <= date.d /\ date.d <= MonthLengths[date.m]
  BY DEF DayNo, InMonth
<1> HIDE DEF n
<1>3. \A i \in S : i <= date.m
  <2> SUFFICES ASSUME NEW i \in S, ~(i <= date.m) PROVE FALSE
    OBVIOUS
  <2>1. i \in 1..(Len(MonthLengths) + 1) /\ date.m < i /\ MonthStart[i] <= n
    BY <1>2, MonthsAre
  <2>2. MonthStart[date.m] + MonthLengths[date.m] <= MonthStart[i] /\ MonthStart[i] \in Int
    BY <1>2, <2>1, MonthsIncrease, MonthsFollow
  <2> QED BY <1>1, <1>2, <2>1, <2>2
<1>4. Max(S) = date.m
  <2>1. S \subseteq Int /\ date.m \in S
    BY <1>1, <1>2, MonthsAre
  <2> HIDE DEF S
  <2> QED BY <1>3, <2>1, MaxIs
<1>5. DateOf(n) = [m |-> Max(S), d |-> n - MonthStart[Max(S)] + 1]
  BY DEF DateOf, Months
<1>6. n - MonthStart[date.m] + 1 = date.d
  BY <1>1, <1>2
<1> HIDE DEF S
<1>7. DateOf(n) = [m |-> date.m, d |-> date.d]
  BY <1>4, <1>5, <1>6
<1> QED BY <1>7 DEF n

LEMMA MinOfTwo ==
    ASSUME NEW a \in Int, NEW b \in Int
    PROVE  Min({a, b}) = (IF a <= b THEN a ELSE b) /\ Max({a, b}) = (IF a <= b THEN b ELSE a)
<1>1. CASE a <= b
  <2>1. {a, b} \subseteq Int /\ a \in {a, b} /\ b \in {a, b} /\ (\A x \in {a, b} : a <= x)
        /\ (\A x \in {a, b} : x <= b)
    BY <1>1
  <2>2. PICK S : S = {a, b}
    OBVIOUS
  <2>3. Min(S) = a /\ Max(S) = b
    BY <2>1, <2>2, MinIs, MaxIs
  <2> QED BY <1>1, <2>2, <2>3
<1>2. CASE ~(a <= b)
  <2>1. {a, b} \subseteq Int /\ a \in {a, b} /\ b \in {a, b} /\ (\A x \in {a, b} : b <= x)
        /\ (\A x \in {a, b} : x <= a)
    BY <1>2
  <2>2. PICK S : S = {a, b}
    OBVIOUS
  <2>3. Min(S) = b /\ Max(S) = a
    BY <2>1, <2>2, MinIs, MaxIs
  <2> QED BY <1>2, <2>2, <2>3
<1> QED BY <1>1, <1>2

LEMMA AddMonthsIs ==
    ASSUME NEW date, date.m \in Int, date.d \in Int, 1 <= date.d,
           NEW k \in Int, date.m + k \in Months
    PROVE  /\ InMonth(AddMonths(date, k)) /\ AddMonths(date, k).m = date.m + k
           /\ AddMonths(date, k).d <= date.d
           /\ AddMonths(date, k).d = IF date.d <= MonthLengths[date.m + k]
                                     THEN date.d ELSE MonthLengths[date.m + k]
<1>1. PICK l \in Nat : l = MonthLengths[date.m + k] /\ l > 0
  BY MonthsAre
<1>2. AddMonths(date, k) = [m |-> date.m + k, d |-> Min({date.d, l})]
  BY <1>1 DEF AddMonths
<1>3. Min({date.d, l}) = IF date.d <= l THEN date.d ELSE l
  BY <1>1, MinOfTwo
<1> QED BY <1>1, <1>2, <1>3 DEF InMonth

----------------------------------------------------------------------------
(* Billing cycles.                                                         *)

LEMMA WholePart ==
    ASSUME NEW a \in Int, NEW c \in Nat, c > 0
    PROVE  /\ a \div c \in Int /\ (a \div c) * c \in Int
           /\ (a \div c) * c <= a /\ a < (a \div c) * c + c
  OBVIOUS

LEMMA MultiplesApart ==
    ASSUME NEW a \in Int, NEW b \in Int, a < b, NEW c \in Nat
    PROVE  a * c + c <= b * c /\ a * c \in Int /\ b * c \in Int
<1>1. PICK e \in Nat : b = a + 1 + e
  <2>1. b - a - 1 \in Nat /\ b = a + 1 + (b - a - 1)
    OBVIOUS
  <2> QED BY <2>1
<1>2. e * c \in Nat /\ a * c \in Int /\ (a + 1 + e) * c = a * c + c + e * c
  OBVIOUS
<1> QED BY <1>1, <1>2

\* The date of the candidate in _cycle_start, and that of the cycle.
Candidate(day) ==
    AddMonths(BillingStart, ((DateOf(day).m - BillingStart.m) \div CycleMonths) * CycleMonths)
DateOfCycle(day) ==
    IF DayNo(Candidate(day)) > day THEN AddMonths(Candidate(day), -CycleMonths) ELSE Candidate(day)

LEMMA CycleStartIs == \A day : CycleStart(day) = DayNo(DateOfCycle(day))
  BY DEF CycleStart, Candidate, DateOfCycle

LEMMA CandidateIs ==
    ASSUME NEW day \in FileDays
    PROVE  /\ InMonth(Candidate(day))
           /\ Candidate(day).m <= DateOf(day).m /\ DateOf(day).m < Candidate(day).m + CycleMonths
           /\ \E k \in Int : Candidate(day).m = BillingStart.m + k * CycleMonths
           /\ BillingDayInEveryMonth => Candidate(day).d = BillingStart.d
           /\ Candidate(day).d <= BillingStart.d
<1>1. PICK C : C = CycleMonths
  OBVIOUS
<1>2. PICK B : B = BillingStart.m
  OBVIOUS
<1>3. PICK M : M = DateOf(day).m
  OBVIOUS
<1>4. day \in Int /\ day >= 1
  BY DataAssumption
<1>5. M \in Months /\ B \in Months /\ M \in Int /\ B \in Int /\ C \in Nat /\ C > 0
      /\ M >= 2 * C /\ M <= Len(MonthLengths)
  <2>1. M \in Months
    BY <1>3, <1>4, MonthOfDay
  <2>2. M >= 2 * C
    BY <1>1, <1>3, CalendarAssumption
  <2> QED BY <1>1, <1>2, <2>1, <2>2, MonthsAre
<1>6. PICK k \in Int : k = (M - B) \div C /\ k * C \in Int /\ k * C <= M - B /\ M - B < k * C + C
  <2>1. M - B \in Int
    BY <1>5
  <2>2. \A a \in Int : /\ a \div C \in Int /\ (a \div C) * C \in Int
                       /\ (a \div C) * C <= a /\ a < (a \div C) * C + C
    BY <1>5, WholePart
  <2> QED BY <2>1, <2>2
<1>7. Candidate(day) = AddMonths(BillingStart, k * C)
  BY <1>1, <1>2, <1>3, <1>6 DEF Candidate
<1>8. B + k * C \in Months
  BY <1>5, <1>6, MonthsAre
<1>9. PICK j \in Int : j = k * C
  BY <1>6
<1>10. BillingStart.m \in Int /\ BillingStart.d \in Int /\ 1 <= BillingStart.d
       /\ BillingStart.m + j \in Months
  BY <1>2, <1>5, <1>8, <1>9, MonthsAre
<1>11. /\ InMonth(AddMonths(BillingStart, j)) /\ AddMonths(BillingStart, j).m = BillingStart.m + j
       /\ AddMonths(BillingStart, j).d <= BillingStart.d
       /\ AddMonths(BillingStart, j).d = IF BillingStart.d <= MonthLengths[BillingStart.m + j]
                                         THEN BillingStart.d ELSE MonthLengths[BillingStart.m + j]
  BY <1>10, AddMonthsIs
<1>12. BillingDayInEveryMonth => BillingStart.d <= MonthLengths[BillingStart.m + j]
  BY <1>10 DEF BillingDayInEveryMonth, Months
<1>13. Candidate(day) = AddMonths(BillingStart, j)
  BY <1>7, <1>9
<1>14. B + j <= M /\ M < B + j + C /\ j \in Int
  BY <1>5, <1>6, <1>9
<1>15. BillingStart.m + j = BillingStart.m + k * CycleMonths
  BY <1>1, <1>9
<1>16. PICK c : c = Candidate(day)
  OBVIOUS
<1>17. InMonth(c) /\ c.m = BillingStart.m + j /\ c.d <= BillingStart.d
       /\ (BillingDayInEveryMonth => c.d = BillingStart.d)
  BY <1>11, <1>12, <1>13, <1>16
<1>18. c.m <= DateOf(day).m /\ DateOf(day).m < c.m + CycleMonths
  BY <1>1, <1>2, <1>3, <1>14, <1>17
<1>19. \E i \in Int : c.m = BillingStart.m + i * CycleMonths
  BY <1>15, <1>17
<1> QED BY <1>16, <1>17, <1>18, <1>19

\* The date of a cycle: c, its months inside the calendar.
IsCycleDate(c) ==
    /\ InMonth(c) /\ c = [m |-> c.m, d |-> c.d]
    /\ c.m + CycleMonths + ValidityMonths \in Months /\ c.m + CycleMonths \in Months
IsRegular(c) ==
    BillingDayInEveryMonth => /\ c.d = BillingStart.d
                              /\ \E k \in Int : c.m = BillingStart.m + k * CycleMonths

LEMMA NextDate ==
    ASSUME NEW c, IsCycleDate(c)
    PROVE  /\ DayNo(c) \in Int /\ DateOf(DayNo(c)) = c
           /\ InMonth(AddMonths(c, CycleMonths)) /\ AddMonths(c, CycleMonths).m = c.m + CycleMonths
           /\ CycleEnd(DayNo(c)) = DayNo(AddMonths(c, CycleMonths)) - 1
           /\ CycleEnd(DayNo(c)) \in Int
           /\ BillingDayInEveryMonth /\ c.d = BillingStart.d
                  => AddMonths(c, CycleMonths).d = BillingStart.d
<1>1. DayNo(c) \in Int /\ DateOf(DayNo(c)) = c
  BY DayNoIsNumber, DateOfDayNo DEF IsCycleDate
<1>2. /\ c.m \in Int /\ c.d \in Int /\ 1 <= c.d /\ CycleMonths \in Int /\ c.m + CycleMonths \in Months
  BY MonthsAre DEF IsCycleDate, InMonth
<1>3. PICK k : k = CycleMonths
  OBVIOUS
<1>4. k \in Int /\ c.m + k \in Months
  BY <1>2, <1>3
<1>5. /\ InMonth(AddMonths(c, k)) /\ AddMonths(c, k).m = c.m + k
      /\ AddMonths(c, k).d = IF c.d <= MonthLengths[c.m + k] THEN c.d ELSE MonthLengths[c.m + k]
  BY <1>2, <1>4, AddMonthsIs
<1>6. BillingDayInEveryMonth => BillingStart.d <= MonthLengths[c.m + k]
  BY <1>4 DEF BillingDayInEveryMonth, Months
<1>7. CycleEnd(DayNo(c)) = DayNo(AddMonths(c, k)) - 1
  BY <1>1, <1>3 DEF CycleEnd
<1>8. DayNo(AddMonths(c, k)) \in Int
  BY <1>5, DayNoIsNumber
<1>9. BillingDayInEveryMonth /\ c.d = BillingStart.d => AddMonths(c, k).d = BillingStart.d
  BY <1>5, <1>6
<1> QED BY <1>1, <1>3, <1>5, <1>7, <1>8, <1>9

LEMMA CycleOfDay ==
    ASSUME NEW day \in FileDays
    PROVE  /\ IsCycleDate(DateOfCycle(day)) /\ IsRegular(DateOfCycle(day))
           /\ BillingDayInEveryMonth => DayNo(DateOfCycle(day)) <= day
           /\ BillingDayInEveryMonth => day <= CycleEnd(DayNo(DateOfCycle(day)))
<1>1. PICK b : b = Candidate(day)
  OBVIOUS
<1>2. PICK M : M = DateOf(day).m
  OBVIOUS
<1>3. day \in Int /\ day >= 1
  BY DataAssumption
<1>4. /\ InMonth(b) /\ b.m <= M /\ M < b.m + CycleMonths
      /\ \E k \in Int : b.m = BillingStart.m + k * CycleMonths
      /\ BillingDayInEveryMonth => b.d = BillingStart.d
  BY <1>1, <1>2, CandidateIs
<1>5. /\ M \in Months /\ M \in Int /\ MonthStart[M] <= day /\ MonthStart[M] \in Int
      /\ M < Len(MonthLengths) => day < MonthStart[M + 1]
  BY <1>2, <1>3, MonthOfDay, MonthsAre, MonthsFollow
<1>6. /\ CycleMonths \in Nat /\ CycleMonths > 0 /\ ValidityMonths \in Nat
      /\ M >= 2 * CycleMonths /\ M + CycleMonths + ValidityMonths <= Len(MonthLengths)
  BY <1>2, MonthsAre, CalendarAssumption
<1>7. DayNo(b) \in Int /\ b.m \in Int /\ b.d \in Int /\ 1 <= b.d
  BY <1>4, DayNoIsNumber, MonthsAre DEF InMonth
<1>8. ASSUME NEW c, InMonth(c), c = [m |-> c.m, d |-> c.d], c.m <= b.m PROVE IsCycleDate(c)
  <2>1. c.m \in Int /\ 1 <= c.m
    BY <1>8, MonthsAre DEF InMonth
  <2>2. c.m + CycleMonths + ValidityMonths \in Months /\ c.m + CycleMonths \in Months
    <3>1. c.m <= M
      BY <1>4, <1>5, <1>7, <1>8, <2>1
    <3>2. /\ 1 <= c.m + CycleMonths + ValidityMonths /\ 1 <= c.m + CycleMonths
          /\ c.m + CycleMonths + ValidityMonths <= Len(MonthLengths)
          /\ c.m + CycleMonths <= Len(MonthLengths)
          /\ c.m + CycleMonths + ValidityMonths \in Int /\ c.m + CycleMonths \in Int
      <4>1. \A x, y, u, v, l \in Int :
                1 <= x /\ x <= y /\ 0 <= u /\ 0 <= v /\ y + u + v <= l
                    => /\ 1 <= x + u + v /\ 1 <= x + u /\ x + u + v <= l /\ x + u <= l
                       /\ x + u + v \in Int /\ x + u \in Int
        OBVIOUS
      <4>2. /\ CycleMonths \in Int /\ ValidityMonths \in Int /\ Len(MonthLengths) \in Int
            /\ 0 <= CycleMonths /\ 0 <= ValidityMonths
        BY <1>6, MonthsAre
      <4> QED BY <1>5, <1>6, <2>1, <3>1, <4>1, <4>2
    <3> QED BY <3>2, MonthsAre
  <2> QED BY <1>8, <2>2 DEF IsCycleDate
<1>9. CASE DayNo(b) > day
  <2>1. PICK k : k = -CycleMonths
    OBVIOUS
  <2>2. k \in Int /\ b.m + k \in Months
    BY SMTT(40), <1>4, <1>5, <1>6, <1>7, <2>1, MonthsAre
  <2>3. PICK c : c = AddMonths(b, k)
    OBVIOUS
  <2>4. /\ InMonth(c) /\ c.m = b.m + k
        /\ c.d = IF b.d <= MonthLengths[b.m + k] THEN b.d ELSE MonthLengths[b.m + k]
    BY <1>7, <2>2, <2>3, AddMonthsIs
  <2>5. c = [m |-> c.m, d |-> c.d]
    BY <2>3 DEF AddMonths
  <2>6. DateOfCycle(day) = c
    BY <1>1, <1>9, <2>1, <2>3 DEF DateOfCycle
  <2>7. c.m + CycleMonths = b.m /\ c.m < M /\ c.m <= b.m
    BY <1>4, <1>5, <1>6, <1>7, <2>1, <2>4
  <2>8. BillingDayInEveryMonth => c.d = BillingStart.d
    BY <1>4, <2>2, <2>4 DEF BillingDayInEveryMonth, Months
  <2>9. IsRegular(c)
    <3>1. ASSUME BillingDayInEveryMonth
          PROVE  \E i \in Int : c.m = BillingStart.m + i * CycleMonths
      <4>1. PICK i \in Int : b.m = BillingStart.m + i * CycleMonths
        BY <1>4
      <4>2. (i - 1) * CycleMonths = i * CycleMonths - CycleMonths /\ i * CycleMonths \in Int
        BY <1>6
      <4>3. PICK p \in Int, q \in Int : p = i * CycleMonths /\ q = (i - 1) * CycleMonths
        BY <1>6
      <4>4. BillingStart.m \in Int
        BY MonthsAre
      <4>5. c.m = BillingStart.m + q
        BY <1>6, <2>1, <2>4, <4>1, <4>2, <4>3, <4>4
      <4>6. i - 1 \in Int
        OBVIOUS
      <4> QED BY <4>3, <4>5, <4>6
    <3> QED BY <2>8, <3>1 DEF IsRegular
  <2>10. IsCycleDate(c)
    BY <1>8, <2>4, <2>5, <2>7
  <2>11. DayNo(c) <= day
    <3>1. MonthStart[c.m] + MonthLengths[c.m] <= MonthStart[M]
      <4>1. c.m \in Months /\ M \in 1..(Len(MonthLengths) + 1) /\ c.m < M
        BY <1>5, <2>4, <2>7, MonthsAre DEF InMonth
      <4> QED BY <4>1, MonthsIncrease
    <3>2. MonthStart[c.m] \in Int /\ MonthLengths[c.m] \in Nat
      BY <2>4, DayNoIsNumber
    <3> QED BY <1>3, <1>5, <2>4, <3>1, <3>2 DEF DayNo, InMonth
  <2>12. ASSUME BillingDayInEveryMonth PROVE day <= CycleEnd(DayNo(c))
    <3>1. /\ AddMonths(c, CycleMonths).m = b.m /\ AddMonths(c, CycleMonths).d = b.d
          /\ CycleEnd(DayNo(c)) = DayNo(AddMonths(c, CycleMonths)) - 1
      BY <1>4, <2>7, <2>8, <2>10, <2>12, NextDate
    <3>2. DayNo(AddMonths(c, CycleMonths)) = DayNo(b)
      BY <3>1 DEF DayNo
    <3> QED BY <1>3, <1>7, <1>9, <3>1, <3>2
  <2> QED BY <2>6, <2>9, <2>10, <2>11, <2>12
<1>10. CASE ~(DayNo(b) > day)
  <2>1. DateOfCycle(day) = b
    BY <1>1, <1>10 DEF DateOfCycle
  <2>2. IsRegular(b)
    BY <1>4 DEF IsRegular
  <2>3. IsCycleDate(b)
    <3>1. b = [m |-> b.m, d |-> b.d]
      BY <1>1 DEF Candidate, AddMonths
    <3> QED BY <1>4, <1>7, <1>8, <3>1
  <2>4. DayNo(b) <= day
    BY <1>3, <1>7, <1>10
  <2>5. day <= CycleEnd(DayNo(b))
    <3>1. PICK n : n = AddMonths(b, CycleMonths)
      OBVIOUS
    <3>2. InMonth(n) /\ n.m = b.m + CycleMonths /\ CycleEnd(DayNo(b)) = DayNo(n) - 1
      BY <2>3, <3>1, NextDate
    <3>3. MonthStart[M] + MonthLengths[M] <= MonthStart[n.m]
      <4>1. M \in Months /\ n.m \in 1..(Len(MonthLengths) + 1) /\ M < n.m
        BY <1>4, <1>5, <3>2, MonthsAre DEF InMonth
      <4> QED BY <4>1, MonthsIncrease
    <3>4. day < MonthStart[M] + MonthLengths[M]
      BY <1>5, <1>6, MonthsFollow
    <3>5. /\ MonthStart[n.m] \in Int /\ DayNo(n) \in Int /\ MonthLengths[M] \in Nat
          /\ n.d \in Int /\ 1 <= n.d
      BY <1>5, <3>2, DayNoIsNumber, MonthsAre DEF InMonth
    <3>6. DayNo(n) = MonthStart[n.m] + n.d - 1
      BY DEF DayNo
    <3> QED BY SMTT(40), <1>3, <1>5, <3>2, <3>3, <3>4, <3>5, <3>6
  <2> QED BY <2>1, <2>2, <2>3, <2>4, <2>5
<1> QED BY <1>9, <1>10

\* The start of a cycle: s.
IsStart(s) == \E c : IsCycleDate(c) /\ IsRegular(c) /\ s = DayNo(c)

LEMMA StartsAre ==
    ASSUME NEW day \in FileDays
    PROVE  /\ IsStart(CycleStart(day)) /\ CycleStart(day) \in Int
           /\ BillingDayInEveryMonth => /\ CycleStart(day) <= day
                                        /\ day <= CycleEnd(CycleStart(day))
<1>1. PICK c : c = DateOfCycle(day)
  OBVIOUS
<1>2. CycleStart(day) = DayNo(c)
  BY <1>1, CycleStartIs
<1>3. /\ IsCycleDate(c) /\ IsRegular(c)
      /\ BillingDayInEveryMonth => DayNo(c) <= day
      /\ BillingDayInEveryMonth => day <= CycleEnd(DayNo(c))
  BY <1>1, CycleOfDay
<1>4. DayNo(c) \in Int
  BY <1>3, NextDate
<1> QED BY <1>2, <1>3, <1>4 DEF IsStart

\* A cycle ends before the next one.
LEMMA CyclesApart ==
    ASSUME BillingDayInEveryMonth, NEW s, IsStart(s), NEW t, IsStart(t), s < t
    PROVE  CycleEnd(s) < t
<1>1. PICK a : IsCycleDate(a) /\ IsRegular(a) /\ s = DayNo(a)
  BY DEF IsStart
<1>2. PICK b : IsCycleDate(b) /\ IsRegular(b) /\ t = DayNo(b)
  BY DEF IsStart
<1>3. PICK i \in Int : a.m = BillingStart.m + i * CycleMonths
  BY <1>1 DEF IsRegular
<1>4. PICK j \in Int : b.m = BillingStart.m + j * CycleMonths
  BY <1>2 DEF IsRegular
<1>5. a.d = BillingStart.d /\ b.d = BillingStart.d /\ InMonth(a) /\ InMonth(b)
      /\ a.m \in Int /\ b.m \in Int /\ BillingStart.m \in Int /\ BillingStart.d \in Int
  <2>1. a.d = BillingStart.d /\ b.d = BillingStart.d
    BY <1>1, <1>2 DEF IsRegular
  <2>2. InMonth(a) /\ InMonth(b)
    BY <1>1, <1>2 DEF IsCycleDate
  <2>3. a.m \in Int /\ b.m \in Int
    BY <2>2, MonthsAre DEF InMonth
  <2> QED BY <2>1, <2>2, <2>3, MonthsAre
<1>6. DayNo(a) \in Int /\ DayNo(b) \in Int
  BY <1>5, DayNoIsNumber
<1>7. a.m < b.m
  <2>1. b.m < a.m => DayNo(b) < DayNo(a)
    BY <1>5, DaysIncrease
  <2>2. b.m = a.m => DayNo(b) <= DayNo(a)
    BY <1>5, DaysIncrease
  <2> QED BY <1>1, <1>2, <1>5, <1>6, <2>1, <2>2
<1>8. PICK k : k = CycleMonths
  OBVIOUS
<1>9. k \in Nat /\ k > 0
  BY <1>8, MonthsAre
<1>10. i * k \in Int /\ j * k \in Int /\ a.m = BillingStart.m + i * k /\ b.m = BillingStart.m + j * k
  BY <1>3, <1>4, <1>8, <1>9
<1>11. i < j
  <2>1. j < i => j * k + k <= i * k
    BY <1>9, MultiplesApart
  <2>2. i = j => i * k = j * k
    OBVIOUS
  <2> QED BY <1>5, <1>7, <1>9, <1>10, <2>1, <2>2
<1>12. a.m + k <= b.m
  <2>1. i * k + k <= j * k
    BY <1>9, <1>11, MultiplesApart
  <2> QED BY <1>5, <1>9, <1>10, <2>1
<1>13. PICK n : n = AddMonths(a, k)
  OBVIOUS
<1>14. InMonth(n) /\ n.m = a.m + k /\ n.d = BillingStart.d /\ CycleEnd(s) = DayNo(n) - 1
       /\ DayNo(n) \in Int
  BY <1>1, <1>5, <1>8, <1>13, NextDate, DayNoIsNumber
<1>15. DayNo(n) <= DayNo(b)
  <2>1. n.m < b.m => DayNo(n) < DayNo(b)
    BY <1>5, <1>14, DaysIncrease
  <2>2. n.m = b.m => DayNo(n) <= DayNo(b)
    BY <1>5, <1>14, DaysIncrease
  <2> QED BY <1>5, <1>6, <1>9, <1>12, <1>14, <2>1, <2>2
<1> QED BY <1>2, <1>6, <1>14, <1>15

\* A later cycle has a later deadline.
LEMMA DeadlinesIncrease ==
    ASSUME NEW s, IsStart(s), NEW t, IsStart(t), s <= t
    PROVE  Deadline(s) \in Int /\ Deadline(t) \in Int /\ Deadline(s) <= Deadline(t)
<1> DEFINE k == CycleMonths + ValidityMonths
<1>1. PICK a : IsCycleDate(a) /\ s = DayNo(a)
  BY DEF IsStart
<1>2. PICK b : IsCycleDate(b) /\ t = DayNo(b)
  BY DEF IsStart
<1>3. /\ InMonth(a) /\ InMonth(b) /\ a.m \in Int /\ b.m \in Int /\ a.d \in Int /\ b.d \in Int
      /\ 1 <= a.d /\ 1 <= b.d /\ k \in Int /\ a.m + k \in Months /\ b.m + k \in Months
  <2>1. /\ a.m + CycleMonths + ValidityMonths \in Months /\ InMonth(a)
        /\ b.m + CycleMonths + ValidityMonths \in Months /\ InMonth(b)
    BY <1>1, <1>2 DEF IsCycleDate
  <2>2. /\ a.m \in Int /\ b.m \in Int /\ a.d \in Int /\ b.d \in Int
        /\ 1 <= a.d /\ 1 <= b.d /\ CycleMonths \in Int /\ ValidityMonths \in Int
    BY <2>1, MonthsAre DEF InMonth
  <2>3. /\ a.m + CycleMonths + ValidityMonths = a.m + k
        /\ b.m + CycleMonths + ValidityMonths = b.m + k
    BY <2>2
  <2> QED BY <2>1, <2>2, <2>3
<1>4. Deadline(s) = DayNo(AddMonths(a, k)) /\ Deadline(t) = DayNo(AddMonths(b, k))
  BY <1>1, <1>2, NextDate DEF Deadline
<1> HIDE DEF k
<1>5. PICK e : e = AddMonths(a, k)
  OBVIOUS
<1>6. PICK f : f = AddMonths(b, k)
  OBVIOUS
<1>7. InMonth(e) /\ e.m = a.m + k
      /\ e.d = IF a.d <= MonthLengths[a.m + k] THEN a.d ELSE MonthLengths[a.m + k]
  BY <1>3, <1>5, AddMonthsIs
<1>8. InMonth(f) /\ f.m = b.m + k
      /\ f.d = IF b.d <= MonthLengths[b.m + k] THEN b.d ELSE MonthLengths[b.m + k]
  BY <1>3, <1>6, AddMonthsIs
<1>9. DayNo(a) \in Int /\ DayNo(b) \in Int /\ DayNo(e) \in Int /\ DayNo(f) \in Int
  BY <1>3, <1>7, <1>8, DayNoIsNumber
<1>10. a.m <= b.m
  <2>1. b.m < a.m => DayNo(b) < DayNo(a)
    BY <1>3, DaysIncrease
  <2> QED BY <1>1, <1>2, <1>3, <1>9, <2>1
<1>11. a.m < b.m => DayNo(e) < DayNo(f)
  <2>1. e.m < f.m => DayNo(e) < DayNo(f)
    BY <1>7, <1>8, DaysIncrease
  <2> QED BY <1>3, <1>7, <1>8, <2>1
<1>12. ASSUME a.m = b.m PROVE DayNo(e) <= DayNo(f)
  <2>1. a.d <= b.d
    <3>1. MonthStart[a.m] \in Int
      BY <1>3, DayNoIsNumber
    <3> QED BY <1>1, <1>2, <1>3, <1>12, <3>1 DEF DayNo
  <2>2. e.d <= f.d /\ e.m = f.m
    <3>1. MonthLengths[a.m + k] \in Int
      BY <1>3, MonthsAre
    <3> QED BY <1>3, <1>7, <1>8, <1>12, <2>1, <3>1
  <2> QED BY <1>7, <1>8, <2>2, DaysIncrease
<1> QED BY <1>3, <1>4, <1>5, <1>6, <1>9, <1>10, <1>11, <1>12

----------------------------------------------------------------------------
(* The readings, and the work on one tariff.                               *)

Count == Len(CycleStarts)

Input ==
    /\ readings \in [FileDays -> Patterns]
    /\ pv \in {"none", "net_metering", "net_billing"}
    /\ prices \in PriceTables

\* What is left of the records of a cycle in net billing.
NetUse(x) == Used(x) - Exported(x)
NetOf(s) ==
    [kind |-> "records",
     by |-> [x \in {x \in Moments(s) : Used(x) + Exported(x) > 0 /\ NetUse(x) >= 0} |-> NetUse(x)]]

Balanced(j) ==
    /\ pv = "none" => details[j] = UsedRecords(CycleStarts[j])
    /\ pv = "net_billing" => details[j] = NetOf(CycleStarts[j])
    /\ pv = "net_metering" => details[j].kind = "zones"

\* What charging cycle j adds to the bill.
DaysOf(j) == BilledDays(CycleStarts[j])
SegmentsOf(j) == Segments(Tariff, DaysOf(j))
WholeOf(j) == [s \in SegmentsOf(j) |-> [z \in Zones(Tariff) |-> 1]]
Charged(j) ==
    [start |-> CycleStarts[j], days |-> DaysOf(j),
     energy |-> SplitEnergy(details[j], SegmentsOf(j), CycleStarts[j], WholeOf(j)),
     active |-> ActiveEnergyGross(details[j], SegmentsOf(j), CycleStarts[j])]
CanCharge(j) == ~CannotCharge(Tariff, details[j], CycleStarts[j])
Billed(k) == {Charged(j) : j \in {i \in 1..k : DaysOf(i) # {}}}

Prepared ==
    /\ ReadDays # {}
    /\ \A d \in FirstDay..LastDay : CoveringIndexes(Periods, d) # {}

Balancing ==
    /\ pv # "none" /\ cyc \in 1..Count /\ bill = << >>
    /\ \A j \in 1..(cyc - 1) : Balanced(j)
    /\ \A j \in cyc..Count : details[j] = UsedRecords(CycleStarts[j])

Charging ==
    /\ cyc \in 1..(Count + 1) /\ bill \in Seq(Billed(cyc - 1))
    /\ \A j \in 1..Count : Balanced(j)
    /\ \A j \in 1..(cyc - 1) : CanCharge(j)

Work ==
    /\ Input
    /\ phase \in {"details", "next", "balance", "charge", "answered", "refused"}
    /\ turn \in Nat \ {0}
    /\ DOMAIN results = Range(Tariffs)
    /\ phase \in {"next", "balance", "charge", "answered"} => Prepared
    /\ phase \in {"balance", "charge"} => turn \in DOMAIN Offered /\ DOMAIN details = 1..Count
    /\ phase = "balance" => Balancing
    /\ phase = "charge" => Charging

LEMMA CountIs ==
    ASSUME Input
    PROVE  /\ IsFiniteSet(ReadDays) /\ ReadDays \subseteq FileDays /\ ReadDays \subseteq Int
           /\ Lists(CycleStarts, {CycleStart(d) : d \in ReadDays})
           /\ DOMAIN CycleStarts = 1..Count /\ Count \in Nat
           /\ ReadDays # {} => Count > 0
<1>1. IsFiniteSet(ReadDays) /\ ReadDays \subseteq FileDays /\ ReadDays \subseteq Int
  <2>1. ReadDays \subseteq FileDays
    BY DEF ReadDays
  <2>2. IsFiniteSet(FileDays) /\ FileDays \subseteq Int
    BY DataAssumption
  <2>3. IsFiniteSet(ReadDays)
    BY <2>1, <2>2, FS_Subset
  <2> QED BY <2>1, <2>2, <2>3
<1> DEFINE S == {CycleStart(d) : d \in ReadDays}
           f == [d \in ReadDays |-> CycleStart(d)]
<1>2. S = {f[d] : d \in ReadDays}
  OBVIOUS
<1>3. IsFiniteSet(S)
  <2> HIDE DEF f
  <2>1. IsFiniteSet({f[d] : d \in ReadDays})
    BY <1>1, ImageIsFinite
  <2> QED BY <1>2, <2>1
<1>4. S \subseteq Int
  BY <1>1, StartsAre
<1>5. Lists(CycleStarts, S)
  <2> HIDE DEF S
  <2>1. Lists(InOrder(S), S)
    BY <1>3, <1>4, InOrderLists
  <2> QED BY <2>1 DEF CycleStarts, S
<1>6. Cardinality(S) \in Nat
  BY <1>3, FS_CardinalityType
<1>7. DOMAIN CycleStarts = 1..Count /\ Count \in Nat
  <2>1. CycleStarts = [i \in 1..Cardinality(S) |-> CycleStarts[i]]
    <3> DEFINE nth(i) == CHOOSE x \in S : Cardinality({y \in S : y < x}) = i - 1
    <3>1. CycleStarts = [i \in 1..Cardinality(S) |-> nth(i)]
      BY DEF CycleStarts, InOrder
    <3> HIDE DEF nth, S
    <3> QED BY <3>1
  <2>2. CycleStarts \in Seq(S)
    <3>1. \A i \in 1..Cardinality(S) : CycleStarts[i] \in S
      BY <1>5 DEF Lists
    <3> HIDE DEF S
    <3>2. CycleStarts \in [1..Cardinality(S) -> S]
      BY <2>1, <3>1
    <3> QED BY <1>6, <3>2
  <2> HIDE DEF S
  <2> QED BY <2>2 DEF Count
<1>8. ReadDays # {} => Count > 0
  <2>1. ReadDays # {} => Cardinality(S) # 0
    <3>1. ReadDays # {} => S # {}
      OBVIOUS
    <3> HIDE DEF S
    <3> QED BY <1>3, <3>1, FS_EmptySet
  <2>2. 1..Count = 1..Cardinality(S)
    BY <1>5, <1>7 DEF Lists
  <2>3. Count = 0 => Cardinality(S) = 0
    <3> HIDE DEF S
    <3>1. Count = 0 => 1 \notin 1..Cardinality(S)
      BY <2>2
    <3> QED BY <1>6, <3>1
  <2> HIDE DEF S
  <2> QED BY <1>7, <2>1, <2>3
<1> QED BY <1>1, <1>5, <1>7, <1>8

LEMMA StartOfCycle ==
    ASSUME Input, NEW j \in 1..Count
    PROVE  /\ CycleStarts[j] \in Int /\ IsStart(CycleStarts[j])
           /\ \E d \in ReadDays : CycleStart(d) = CycleStarts[j]
<1>1. PICK d \in ReadDays : CycleStart(d) = CycleStarts[j]
  <2>1. j \in DOMAIN CycleStarts
    BY CountIs
  <2>2. CycleStarts[j] \in {CycleStart(d) : d \in ReadDays}
    BY <2>1, CountIs DEF Lists
  <2> QED BY <2>2
<1>2. d \in FileDays
  BY CountIs
<1> QED BY <1>1, <1>2, StartsAre

LEMMA StartsIncrease ==
    ASSUME Input, NEW i \in 1..Count, NEW j \in 1..Count
    PROVE  (i < j => CycleStarts[i] < CycleStarts[j]) /\ (CycleStarts[i] = CycleStarts[j] => i = j)
<1>1. Increasing(CycleStarts) /\ i \in DOMAIN CycleStarts /\ j \in DOMAIN CycleStarts
  BY CountIs DEF Lists
<1>2. (i < j => CycleStarts[i] < CycleStarts[j]) /\ (j < i => CycleStarts[j] < CycleStarts[i])
  BY <1>1 DEF Increasing
<1>3. CycleStarts[i] \in Int /\ CycleStarts[j] \in Int /\ i \in Int /\ j \in Int
  BY StartOfCycle
<1> QED BY <1>2, <1>3

LEMMA CycleOfReadDay ==
    ASSUME Input, NEW d \in ReadDays
    PROVE  \E j \in 1..Count : CycleStarts[j] = CycleStart(d)
  BY CountIs DEF Lists

LEMMA ReadingsAre ==
    ASSUME Input, NEW x \in ReadDays \X Intervals
    PROVE  /\ x = <<x[1], x[2]>> /\ x[1] \in ReadDays /\ x[2] \in Intervals
           /\ Used(x) \in Nat /\ Exported(x) \in Nat /\ NetUse(x) \in Int
           /\ Price(x) \in Int \cup {NoPrice}
<1>1. x[1] \in ReadDays /\ x[2] \in Intervals /\ x = <<x[1], x[2]>>
  OBVIOUS
<1>2. readings[x[1]] \in Patterns /\ readings[x[1]] # << >>
  BY <1>1, CountIs DEF Input, ReadDays
<1>3. readings[x[1]] \in [Intervals -> [used : Nat, exported : Nat]]
  BY <1>2, DataAssumption
<1>4. readings[x[1]][x[2]].used \in Nat /\ readings[x[1]][x[2]].exported \in Nat
  BY <1>1, <1>3
<1>5. Used(x) \in Nat /\ Exported(x) \in Nat
  BY <1>4 DEF Used, Exported
<1>6. Price(x) \in Int \cup {NoPrice}
  BY <1>1, DataAssumption DEF Input, Price, Hour
<1>7. NetUse(x) \in Int
  BY <1>5 DEF NetUse
<1> QED BY <1>1, <1>5, <1>6, <1>7

LEMMA MomentsAre ==
    ASSUME Input, NEW s
    PROVE  /\ IsFiniteSet(Moments(s)) /\ Moments(s) \subseteq ReadDays \X Intervals
           /\ \A x \in ReadDays \X Intervals : x \in Moments(s) <=> CycleStart(x[1]) = s
<1>1. DaysOfCycle(s) \subseteq ReadDays
  BY DEF DaysOfCycle
<1>2. IsFiniteSet(DaysOfCycle(s)) /\ IsFiniteSet(Intervals)
  BY <1>1, CountIs, FS_Subset, DataAssumption
<1>3. IsFiniteSet(Moments(s))
  BY <1>2, FS_Product DEF Moments
<1> QED BY <1>1, <1>3 DEF Moments, DaysOfCycle

\* What depends on the readings, the mode and the prices only stays.
Inputs == <<readings, pv, prices>>

LEMMA FileIsSame ==
    ASSUME readings' = readings
    PROVE  /\ ReadDays' = ReadDays /\ FirstDay' = FirstDay /\ LastDay' = LastDay
           /\ CycleStarts' = CycleStarts /\ Count' = Count /\ Offered' = Offered
           /\ \A s : /\ UsedRecords(s)' = UsedRecords(s) /\ NetOf(s)' = NetOf(s)
                     /\ BilledDays(s)' = BilledDays(s) /\ Moments(s)' = Moments(s)
           /\ \A t : ListForPeriod(t)' = ListForPeriod(t)
<1>1. ReadDays' = ReadDays
  BY DEF ReadDays
<1>2. FirstDay' = FirstDay /\ LastDay' = LastDay /\ CycleStarts' = CycleStarts
  BY <1>1 DEF FirstDay, LastDay, CycleStarts
<1>3. Count' = Count
  BY <1>2 DEF Count
<1>4. \A s : Moments(s)' = Moments(s)
  BY <1>1 DEF Moments, DaysOfCycle
<1>5. \A s : UsedRecords(s)' = UsedRecords(s) /\ NetOf(s)' = NetOf(s)
  BY DEF UsedRecords, NetOf, NetUse, Used, Exported, Moments, DaysOfCycle, ReadDays
<1>6. \A s : BilledDays(s)' = BilledDays(s)
  BY <1>2 DEF BilledDays
<1>7. \A t : ListForPeriod(t)' = ListForPeriod(t)
  BY <1>2 DEF ListForPeriod
<1>8. Offered' = Offered
  BY DEF Offered, ListForPeriod, FirstDay, LastDay, ReadDays
<1> QED BY <1>1, <1>2, <1>3, <1>4, <1>5, <1>6, <1>7, <1>8

LEMMA InputIsSame == UNCHANGED Inputs => (Input' <=> Input) /\ (Prepared' <=> Prepared)
<1> SUFFICES ASSUME UNCHANGED Inputs PROVE (Input' <=> Input) /\ (Prepared' <=> Prepared)
  OBVIOUS
<1>1. readings' = readings /\ pv' = pv /\ prices' = prices
  BY DEF Inputs
<1>2. Input' <=> Input
  BY <1>1 DEF Input
<1>3. Prepared' <=> Prepared
  BY <1>1, FileIsSame DEF Prepared
<1> QED BY <1>2, <1>3

LEMMA BalancedIsSame ==
    ASSUME UNCHANGED Inputs, NEW j, details'[j] = details[j]
    PROVE  Balanced(j)' <=> Balanced(j)
<1>1. readings' = readings /\ pv' = pv
  BY DEF Inputs
<1>2. CycleStarts' = CycleStarts /\ \A s : /\ UsedRecords(s)' = UsedRecords(s)
                                           /\ NetOf(s)' = NetOf(s)
  BY <1>1, FileIsSame
<1> QED BY <1>1, <1>2 DEF Balanced

LEMMA ChargedIsSame ==
    ASSUME UNCHANGED Inputs, UNCHANGED <<turn, details>>
    PROVE  \A j : Charged(j)' = Charged(j) /\ (CanCharge(j)' <=> CanCharge(j)) /\ DaysOf(j)' = DaysOf(j)
<1>1. readings' = readings /\ pv' = pv /\ prices' = prices /\ turn' = turn /\ details' = details
  BY DEF Inputs
<1>2. \A e, g, s : ActiveEnergyGross(e, g, s)' = ActiveEnergyGross(e, g, s)
  BY <1>1 DEF ActiveEnergyGross, SplitEnergy, ReadDays, Used, Tariff, Offered, ListForPeriod, Hour,
              Sum, FirstDay, LastDay, Moments, DaysOfCycle, Price
<1>3. \A e, g, s, w : SplitEnergy(e, g, s, w)' = SplitEnergy(e, g, s, w)
  BY <1>1 DEF SplitEnergy, ReadDays, Used, Tariff, Offered, ListForPeriod, Hour,
              Sum, FirstDay, LastDay, Moments, DaysOfCycle
<1>4. \A j : DaysOf(j)' = DaysOf(j) /\ CycleStarts'[j] = CycleStarts[j]
  BY <1>1, FileIsSame DEF DaysOf
<1>5. Tariff' = Tariff
  BY <1>1, FileIsSame DEF Tariff
<1>6. \A t, days : Segments(t, days)' = Segments(t, days)
  BY <1>1 DEF Segments, ListForPeriod, FirstDay, LastDay, ReadDays, CoveringIndexes
<1>7. \A j : SegmentsOf(j)' = SegmentsOf(j)
  BY <1>4, <1>5, <1>6 DEF SegmentsOf
<1>8. ASSUME NEW j PROVE Charged(j)' = Charged(j)
  <2>1. SegmentsOf(j)' = SegmentsOf(j) /\ details'[j] = details[j] /\ CycleStarts'[j] = CycleStarts[j]
    BY <1>1, <1>4, <1>7
  <2>2. WholeOf(j)' = WholeOf(j)
    BY <1>5, <2>1 DEF WholeOf, Zones
  <2> QED BY <1>2, <1>3, <1>4, <2>1, <2>2 DEF Charged
<1>9. \A t, e, s : CannotCharge(t, e, s)' <=> CannotCharge(t, e, s)
  BY <1>1 DEF CannotCharge, ListForPeriod, FirstDay, LastDay, ReadDays, CoveringIndexes, BilledDays, Price
<1>10. \A j : CanCharge(j)' <=> CanCharge(j)
  BY <1>1, <1>4, <1>5, <1>9 DEF CanCharge
<1> QED BY <1>4, <1>8, <1>10

LEMMA WorkInit == Init => Work
  BY DEF Init, Work, Input

LEMMA PrepareKeepsWork == Work /\ Prepare => Work'
<1> SUFFICES ASSUME Work, Prepare PROVE Work'
  OBVIOUS
<1>1. UNCHANGED Inputs /\ phase' \in {"refused", "next"} /\ turn' = turn /\ results' = results
      /\ (phase' = "next" => Prepared)
  BY DEF Prepare, Inputs, Prepared
<1>2. Input' /\ (phase' = "next" => Prepared')
  BY <1>1, InputIsSame DEF Work
<1> QED BY <1>1, <1>2 DEF Work

LEMMA NextTariffKeepsWork == Work /\ NextTariff => Work'
<1> SUFFICES ASSUME Work, NextTariff PROVE Work'
  OBVIOUS
<1>1. /\ UNCHANGED Inputs /\ readings' = readings /\ pv' = pv /\ turn' = turn /\ results' = results
      /\ phase = "next" /\ turn \in DOMAIN Offered
      /\ phase' = (IF pv = "none" THEN "charge" ELSE "balance")
      /\ cyc' = 1 /\ bill' = << >> /\ details' = CopyOfDetails
  BY DEF NextTariff, Inputs
<1>2. Input /\ Prepared /\ Input' /\ Prepared'
  BY <1>1, InputIsSame DEF Work
<1>3. /\ CycleStarts' = CycleStarts /\ Count' = Count /\ Offered' = Offered
      /\ \A s : UsedRecords(s)' = UsedRecords(s)
  BY <1>1, FileIsSame
<1>4. DOMAIN CycleStarts = 1..Count /\ Count \in Nat /\ Count > 0
  BY <1>2, CountIs DEF Prepared
<1>5. DOMAIN details' = 1..Count /\ \A j \in 1..Count : details'[j] = UsedRecords(CycleStarts[j])
  BY <1>1, <1>4 DEF CopyOfDetails
<1>6. phase' = "balance" => Balancing'
  BY <1>1, <1>3, <1>4, <1>5 DEF Balancing
<1>7. ASSUME phase' = "charge" PROVE Charging'
  <2>1. pv' = "none"
    BY <1>1, <1>7 DEF Work, Input
  <2>2. \A j \in 1..Count' : Balanced(j)'
    BY <1>3, <1>5, <2>1 DEF Balanced
  <2> QED BY <1>1, <1>3, <1>4, <2>2 DEF Charging
<1>8. DOMAIN details' = 1..Count' /\ turn' \in DOMAIN Offered'
  BY <1>1, <1>3, <1>5
<1>9. phase' \in {"charge", "balance"}
  BY <1>1
<1> QED BY <1>1, <1>2, <1>6, <1>7, <1>8, <1>9 DEF Work

LEMMA FailKeepsWork ==
    ASSUME Work, phase \in {"balance", "charge"}, Fail PROVE Work'
<1>1. /\ UNCHANGED Inputs /\ phase' = "next" /\ turn' = turn + 1
      /\ DOMAIN results' = DOMAIN results
  BY DEF Fail, Inputs
<1>2. Input' /\ Prepared'
  BY <1>1, InputIsSame DEF Work
<1> QED BY <1>1, <1>2 DEF Work

LEMMA SettleKeepsWork == Work /\ Settle => Work'
<1> SUFFICES ASSUME Work, Settle PROVE Work'
  OBVIOUS
<1>1. /\ UNCHANGED Inputs /\ phase = "charge" /\ phase' = "next" /\ turn' = turn + 1
      /\ DOMAIN results' = DOMAIN results
  BY DEF Settle, Inputs
<1>2. Input' /\ Prepared'
  BY <1>1, InputIsSame DEF Work
<1> QED BY <1>1, <1>2 DEF Work

LEMMA AnswerKeepsWork == Work /\ Answer => Work'
<1> SUFFICES ASSUME Work, Answer PROVE Work'
  OBVIOUS
<1>1. /\ UNCHANGED Inputs /\ phase = "next" /\ phase' \in {"refused", "answered"} /\ turn' = turn
      /\ results' = results
  BY DEF Answer, Inputs
<1>2. Input' /\ Prepared'
  BY <1>1, InputIsSame DEF Work
<1> QED BY <1>1, <1>2 DEF Work

\* A cycle that is balanced: e are its details then.
LEMMA BalanceKeepsWork ==
    ASSUME Work, phase = "balance", UNCHANGED Inputs, UNCHANGED <<turn, bill, results>>,
           AdvanceBalancing, NEW e, details' = [details EXCEPT ![cyc] = e],
           (pv = "net_billing" => e = NetOf(CycleStarts[cyc])),
           (pv = "net_metering" => e.kind = "zones")
    PROVE  Work'
<1>1. Balancing /\ Input /\ Prepared /\ turn \in DOMAIN Offered /\ DOMAIN details = 1..Count
  BY DEF Work
<1>2. Input' /\ Prepared'
  BY <1>1, InputIsSame
<1>3. readings' = readings /\ pv' = pv
  BY DEF Inputs
<1>4. /\ CycleStarts' = CycleStarts /\ Count' = Count /\ Offered' = Offered
      /\ \A s : UsedRecords(s)' = UsedRecords(s) /\ NetOf(s)' = NetOf(s)
  BY <1>3, FileIsSame
<1>5. Count \in Nat /\ cyc \in 1..Count /\ pv # "none"
  BY <1>1, CountIs DEF Balancing
<1>6. DOMAIN details' = 1..Count /\ details'[cyc] = e
      /\ \A j \in 1..Count : j # cyc => details'[j] = details[j]
  BY <1>1, <1>5
<1>7. \A j \in 1..cyc : Balanced(j)'
  <2>1. ASSUME NEW j, j = cyc PROVE Balanced(j)'
    <3>1. details'[j] = e /\ pv' # "none"
      BY <1>3, <1>5, <1>6, <2>1
    <3> QED BY <1>3, <1>4, <2>1, <3>1 DEF Balanced
  <2>2. ASSUME NEW j \in 1..(cyc - 1) PROVE Balanced(j)'
    <3>1. details'[j] = details[j] /\ Balanced(j)
      BY <1>1, <1>5, <1>6 DEF Balancing
    <3> QED BY <3>1, BalancedIsSame
  <2>3. \A j \in 1..cyc : j = cyc \/ j \in 1..(cyc - 1)
    BY <1>5
  <2> QED BY <2>1, <2>2, <2>3
<1>8. CASE cyc = Count
  <2>1. phase' = "charge" /\ cyc' = 1 /\ bill' = << >>
    BY <1>1, <1>8 DEF AdvanceBalancing, Balancing, Count
  <2>2. Charging'
    <3>1. \A j \in 1..Count' : Balanced(j)'
      BY <1>4, <1>7, <1>8
    <3>2. cyc' \in 1..(Count' + 1) /\ \A j \in 1..(cyc' - 1) : CanCharge(j)'
      BY <1>4, <1>5, <2>1
    <3> QED BY <2>1, <3>1, <3>2 DEF Charging
  <2> QED BY <1>1, <1>2, <1>4, <1>6, <2>1, <2>2 DEF Work
<1>9. CASE cyc # Count
  <2>1. phase' = "balance" /\ cyc' = cyc + 1 /\ bill' = << >>
    BY <1>1, <1>9 DEF AdvanceBalancing, Balancing, Count
  <2>2. Balancing'
    <3>1. cyc' \in 1..Count /\ 1..(cyc' - 1) = 1..cyc
      BY <1>5, <1>9, <2>1
    <3>2. \A j \in cyc'..Count : details'[j] = UsedRecords(CycleStarts[j])
      <4>1. \A j \in cyc'..Count : j \in 1..Count /\ j # cyc /\ j \in cyc..Count
        BY <1>5, <2>1
      <4> QED BY <1>1, <1>6, <4>1 DEF Balancing
    <3> QED BY <1>3, <1>4, <1>5, <1>7, <2>1, <3>1, <3>2 DEF Balancing
  <2> QED BY <1>1, <1>2, <1>4, <1>6, <2>1, <2>2 DEF Work
<1> QED BY <1>8, <1>9

LEMMA MeteringKeepsWork == Work /\ BalanceMetering => Work'
<1> SUFFICES ASSUME Work, BalanceMetering PROVE Work'
  OBVIOUS
<1>1. PICK e : e = [kind |-> "zones", by |-> NetMetering(Tariff, CycleStarts[cyc]).zones]
  OBVIOUS
<1>2. /\ phase = "balance" /\ pv = "net_metering" /\ UNCHANGED Inputs /\ UNCHANGED <<turn, bill, results>>
      /\ AdvanceBalancing /\ details' = [details EXCEPT ![cyc] = e]
  BY <1>1 DEF BalanceMetering, Inputs
<1> QED BY <1>1, <1>2, BalanceKeepsWork

\* The use that balancing finds is that of the readings.
LEMMA RecordedUseIs ==
    ASSUME Work, phase = "balance", NEW x \in Moments(CycleStarts[cyc])
    PROVE  RecordedUse(x) = Used(x)
<1>1. Input /\ cyc \in 1..Count /\ details[cyc] = UsedRecords(CycleStarts[cyc])
  <2>1. Input /\ Balancing
    BY DEF Work
  <2>2. cyc \in cyc..Count
    BY <2>1 DEF Balancing
  <2> QED BY <2>1, <2>2 DEF Balancing
<1>2. Used(x) \in Nat
  BY <1>1, MomentsAre, ReadingsAre
<1> QED BY <1>1, <1>2 DEF RecordedUse, UsedRecords

LEMMA NetRecordsAre ==
    ASSUME Work, phase = "balance"
    PROVE  NetRecords(CycleStarts[cyc]) = NetOf(CycleStarts[cyc])
<1>1. PICK s : s = CycleStarts[cyc]
  OBVIOUS
<1>2. \A x \in Moments(s) : RecordedUse(x) = Used(x) /\ Balance(x) = NetUse(x)
  BY <1>1, RecordedUseIs DEF Balance, NetUse
<1> DEFINE D == {x \in Moments(s) : RecordedUse(x) + Exported(x) > 0 /\ Balance(x) >= 0}
           E == {x \in Moments(s) : Used(x) + Exported(x) > 0 /\ NetUse(x) >= 0}
<1>3. D = E
  BY <1>2
<1>4. [x \in D |-> Balance(x)] = [x \in E |-> NetUse(x)]
  <2>1. \A x \in E : x \in Moments(s)
    OBVIOUS
  <2> HIDE DEF D, E
  <2> QED BY <1>2, <1>3, <2>1
<1>5. NetRecords(s) = [kind |-> "records", by |-> [x \in D |-> Balance(x)]]
  BY DEF NetRecords
<1>6. NetOf(s) = [kind |-> "records", by |-> [x \in E |-> NetUse(x)]]
  BY DEF NetOf
<1> HIDE DEF D, E
<1> QED BY <1>1, <1>4, <1>5, <1>6

LEMMA BillingKeepsWork == Work /\ BalanceBilling => Work'
<1> SUFFICES ASSUME Work, BalanceBilling PROVE Work'
  OBVIOUS
<1>1. PICK e : e = NetRecords(CycleStarts[cyc])
  OBVIOUS
<1>2. /\ phase = "balance" /\ pv = "net_billing" /\ UNCHANGED Inputs /\ UNCHANGED <<turn, bill, results>>
      /\ AdvanceBalancing /\ details' = [details EXCEPT ![cyc] = e]
  BY <1>1 DEF BalanceBilling, Inputs
<1>3. e = NetOf(CycleStarts[cyc])
  BY <1>1, <1>2, NetRecordsAre
<1> QED BY <1>2, <1>3, BalanceKeepsWork

\* A charged cycle.
LEMMA ChargeIs ==
    ASSUME ChargeCycle
    PROVE  /\ UNCHANGED Inputs /\ UNCHANGED <<turn, details, results, store, ledger, deposit>>
           /\ phase = "charge" /\ phase' = "charge" /\ cyc <= Count /\ cyc' = cyc + 1
           /\ CanCharge(cyc)
           /\ bill' = IF DaysOf(cyc) = {} THEN bill ELSE Append(bill, Charged(cyc))
<1>1. bill' = IF DaysOf(cyc) = {} THEN bill ELSE Append(bill, Charged(cyc))
  BY DEF ChargeCycle, DaysOf, SegmentsOf, WholeOf, Charged
<1> QED BY <1>1 DEF ChargeCycle, Inputs, Count, CanCharge

LEMMA BilledGrows ==
    ASSUME NEW b, NEW k \in Nat, b \in Seq(Billed(k))
    PROVE  /\ b \in Seq(Billed(k + 1))
           /\ DaysOf(k + 1) # {} => Append(b, Charged(k + 1)) \in Seq(Billed(k + 1))
<1>1. Billed(k) \subseteq Billed(k + 1) /\ (DaysOf(k + 1) # {} => Charged(k + 1) \in Billed(k + 1))
  <2>1. 1..k \subseteq 1..(k + 1) /\ k + 1 \in 1..(k + 1)
    OBVIOUS
  <2> QED BY <2>1 DEF Billed
<1>2. PICK S : S = Billed(k)
  OBVIOUS
<1>3. PICK V : V = Billed(k + 1)
  OBVIOUS
<1>4. b \in Seq(S) /\ S \subseteq V
  BY <1>1, <1>2, <1>3
<1>5. b \in Seq(V)
  <2>1. b = [i \in 1..Len(b) |-> b[i]] /\ Len(b) \in Nat /\ \A i \in 1..Len(b) : b[i] \in S
    BY <1>4
  <2>2. b \in [1..Len(b) -> V]
    BY <1>4, <2>1
  <2> QED BY <2>1, <2>2
<1>6. \A c \in V : Append(b, c) \in Seq(V)
  BY <1>5
<1> QED BY <1>1, <1>3, <1>5, <1>6

LEMMA ChargeKeepsWork == Work /\ ChargeCycle => Work'
<1> SUFFICES ASSUME Work, ChargeCycle PROVE Work'
  OBVIOUS
<1>1. /\ UNCHANGED Inputs /\ UNCHANGED <<turn, details>> /\ results' = results
      /\ phase = "charge" /\ phase' = "charge" /\ cyc <= Count /\ cyc' = cyc + 1 /\ CanCharge(cyc)
      /\ bill' = IF DaysOf(cyc) = {} THEN bill ELSE Append(bill, Charged(cyc))
  BY ChargeIs
<1>2. Input /\ Prepared /\ Charging /\ turn \in DOMAIN Offered /\ DOMAIN details = 1..Count
  BY <1>1 DEF Work
<1>3. Input' /\ Prepared'
  BY <1>1, <1>2, InputIsSame
<1>4. CycleStarts' = CycleStarts /\ Count' = Count /\ Offered' = Offered
  BY <1>1, FileIsSame DEF Inputs
<1>5. \A j : Charged(j)' = Charged(j) /\ (CanCharge(j)' <=> CanCharge(j)) /\ DaysOf(j)' = DaysOf(j)
  BY <1>1, ChargedIsSame
<1>6. \A k : Billed(k)' = Billed(k)
  BY <1>5 DEF Billed
<1>7. PICK k \in Nat : k = cyc - 1
  <2>1. cyc - 1 \in Nat
    BY <1>2, CountIs DEF Charging
  <2> QED BY <2>1
<1>8. k + 1 = cyc /\ cyc' - 1 = cyc /\ cyc \in 1..Count /\ Count \in Nat
  BY <1>1, <1>2, <1>7, CountIs DEF Charging
<1>9. bill \in Seq(Billed(k))
  BY <1>2, <1>7 DEF Charging
<1>10. bill' \in Seq(Billed(cyc))
  <2>1. /\ bill \in Seq(Billed(k + 1))
        /\ DaysOf(k + 1) # {} => Append(bill, Charged(k + 1)) \in Seq(Billed(k + 1))
    BY <1>9, BilledGrows
  <2> QED BY <1>1, <1>8, <2>1
<1>11. (bill \in Seq(Billed(cyc - 1)))'
  <2>1. Billed(cyc - 1)' = Billed(cyc)
    BY <1>6, <1>8
  <2> QED BY <1>10, <2>1
<1>12. \A j \in 1..Count' : Balanced(j)'
  BY <1>1, <1>2, <1>4, BalancedIsSame DEF Charging
<1>13. \A j \in 1..(cyc' - 1) : CanCharge(j)'
  BY <1>1, <1>2, <1>5, <1>8 DEF Charging
<1>14. cyc' \in 1..(Count' + 1)
  BY <1>1, <1>4, <1>8
<1>15. Charging'
  BY <1>11, <1>12, <1>13, <1>14 DEF Charging
<1> QED BY <1>1, <1>2, <1>3, <1>4, <1>15 DEF Work

LEMMA WorkNext == Work /\ [Next]_vars => Work'
<1> SUFFICES ASSUME Work, [Next]_vars PROVE Work'
  OBVIOUS
<1>1. CASE Prepare
  BY <1>1, PrepareKeepsWork
<1>2. CASE NextTariff
  BY <1>2, NextTariffKeepsWork
<1>3. CASE BalanceMetering
  BY <1>3, MeteringKeepsWork
<1>4. CASE BalanceBilling
  BY <1>4, BillingKeepsWork
<1>5. CASE BalanceFails
  BY <1>5, FailKeepsWork DEF BalanceFails
<1>6. CASE ChargeCycle
  BY <1>6, ChargeKeepsWork
<1>7. CASE ChargeFails
  BY <1>7, FailKeepsWork DEF ChargeFails
<1>8. CASE Settle
  BY <1>8, SettleKeepsWork
<1>9. CASE Answer
  BY <1>9, AnswerKeepsWork
<1>10. CASE UNCHANGED vars
  <2>1. /\ UNCHANGED Inputs /\ UNCHANGED <<turn, details>> /\ UNCHANGED <<phase, cyc, bill, results>>
    BY <1>10 DEF vars, Inputs
  <2>2. Input' /\ (Prepared' <=> Prepared)
    BY <2>1, InputIsSame DEF Work
  <2>3. /\ CycleStarts' = CycleStarts /\ Count' = Count /\ Offered' = Offered
        /\ \A s : UsedRecords(s)' = UsedRecords(s)
    BY <2>1, FileIsSame DEF Inputs
  <2>4. \A j : Charged(j)' = Charged(j) /\ (CanCharge(j)' <=> CanCharge(j)) /\ DaysOf(j)' = DaysOf(j)
    BY <2>1, ChargedIsSame
  <2>5. \A k : Billed(k)' = Billed(k)
    BY <2>4 DEF Billed
  <2>6. \A j : Balanced(j)' <=> Balanced(j)
    BY <2>1, BalancedIsSame
  <2>7. Balancing' <=> Balancing
    BY <2>1, <2>3, <2>6 DEF Balancing, Inputs
  <2>8. Charging' <=> Charging
    BY <2>1, <2>3, <2>4, <2>5, <2>6 DEF Charging
  <2> QED BY <2>1, <2>2, <2>3, <2>7, <2>8 DEF Work
<1> QED BY <1>1, <1>2, <1>3, <1>4, <1>5, <1>6, <1>7, <1>8, <1>9, <1>10 DEF Next

\* In all states the details, the bill and the loop fit the readings.
THEOREM WorkFollowsReadings == Spec => []Work
<1>1. Init => Work
  BY WorkInit
<1>2. Work /\ [Next]_vars => Work'
  BY WorkNext
<1> QED BY <1>1, <1>2, PTL DEF Spec

----------------------------------------------------------------------------
(* Results.                                                                *)

Settled ==
    LET active == Sum(LAMBDA i : bill[i].active, DOMAIN bill)
    IN [state |-> "done", cycles |-> bill, zones |-> details, ledger |-> ledger, store |-> store,
        deposit |-> deposit, payable |-> active - Min({100 * deposit, active})]

LEMMA TariffsAre ==
    ASSUME turn \in DOMAIN Offered
    PROVE  Tariff \in Range(Tariffs) /\ ListForPeriod(Tariff) # << >>
<1> DEFINE S == {i \in DOMAIN Tariffs : ListForPeriod(Tariffs[i]) # << >>}
           places == InOrder(S)
<1>1. IsFiniteSet(S) /\ S \subseteq Int
  <2>1. DOMAIN Tariffs = 1..Len(Tariffs) /\ Len(Tariffs) \in Nat
    BY RatesAssumption
  <2>2. IsFiniteSet(1..Len(Tariffs))
    BY <2>1, FS_Interval
  <2>3. S \subseteq 1..Len(Tariffs)
    BY <2>1
  <2> QED BY <2>1, <2>2, <2>3, FS_Subset
<1>2. Lists(places, S)
  <2> HIDE DEF S
  <2> QED BY <1>1, InOrderLists
<1>3. Offered = [n \in DOMAIN places |-> Tariffs[places[n]]]
  BY DEF Offered
<1> HIDE DEF places
<1>4. places[turn] \in S /\ Tariff = Tariffs[places[turn]]
  <2> HIDE DEF S
  <2> QED BY <1>2, <1>3 DEF Lists, Tariff
<1> QED BY <1>4 DEF Range

LEMMA InputsStay == [Next]_vars => UNCHANGED Inputs
  BY DEF Next, vars, Inputs, Prepare, NextTariff, BalanceMetering, BalanceBilling, BalanceFails,
         ChargeCycle, ChargeFails, Settle, Answer, Fail

LEMMA SettleIs ==
    ASSUME Work, Settle
    PROVE  /\ phase = "charge" /\ cyc = Count + 1 /\ Tariff \in DOMAIN results
           /\ results' = [results EXCEPT ![Tariff] = Settled] /\ results'[Tariff] = Settled
<1>1. phase = "charge" /\ cyc > Count /\ results' = [results EXCEPT ![Tariff] = Settled]
  BY DEF Settle, Settled, Count
<1>2. Charging /\ Tariff \in DOMAIN results /\ Count \in Nat
  BY <1>1, TariffsAre, CountIs DEF Work
<1>3. cyc = Count + 1
  BY <1>1, <1>2 DEF Charging
<1> QED BY <1>1, <1>2, <1>3

\* A result is new when it is settled, and stays.
LEMMA ResultsStay ==
    ASSUME Work, [Next]_vars, NEW t \in Done', ~(Settle /\ t = Tariff)
    PROVE  t \in Done /\ results'[t] = results[t]
<1>1. CASE Settle
  BY <1>1, SettleIs DEF Done
<1>2. CASE Fail
  <2>1. results' = [results EXCEPT ![Tariff] = Failed]
    BY <1>2 DEF Fail
  <2>2. t # Tariff
    BY <2>1 DEF Done, Failed
  <2> QED BY <2>1, <2>2 DEF Done
<1>3. CASE results' = results
  BY <1>3 DEF Done
<1>4. Settle \/ Fail \/ results' = results
  BY DEF Next, vars, Prepare, NextTariff, BalanceMetering, BalanceBilling, BalanceFails,
         ChargeCycle, ChargeFails, Answer
<1> QED BY <1>1, <1>2, <1>3, <1>4

----------------------------------------------------------------------------
(* Every day with a reading is billed in one cycle.                        *)

LEMMA FileBounds ==
    ASSUME Input, ReadDays # {}
    PROVE  /\ FirstDay \in ReadDays /\ LastDay \in ReadDays /\ FirstDay \in Int /\ LastDay \in Int
           /\ \A d \in ReadDays : FirstDay <= d /\ d <= LastDay
  BY CountIs, GreatestExists, LeastExists DEF FirstDay, LastDay

LEMMA BilledDaysAre ==
    ASSUME Input, ReadDays # {}, NEW s \in Int, CycleEnd(s) \in Int
    PROVE  \A d : d \in BilledDays(s) <=> /\ d \in Int /\ s <= d /\ d <= CycleEnd(s)
                                          /\ FirstDay <= d /\ d <= LastDay
<1>1. FirstDay \in Int /\ LastDay \in Int
  BY FileBounds
<1>2. /\ Max({s, FirstDay}) = (IF s <= FirstDay THEN FirstDay ELSE s)
      /\ Min({CycleEnd(s), LastDay}) = (IF CycleEnd(s) <= LastDay THEN CycleEnd(s) ELSE LastDay)
  BY <1>1, MinOfTwo
<1> QED BY <1>1, <1>2 DEF BilledDays

LEMMA EndIsNumber ==
    ASSUME NEW s, IsStart(s) PROVE s \in Int /\ CycleEnd(s) \in Int
  BY NextDate DEF IsStart

LEMMA DayIsInItsCycle ==
    ASSUME BillingDayInEveryMonth, Input, NEW d \in ReadDays, NEW j \in 1..Count
    PROVE  d \in DaysOf(j) <=> CycleStarts[j] = CycleStart(d)
<1>1. PICK s \in Int : s = CycleStarts[j] /\ IsStart(s) /\ CycleEnd(s) \in Int
  BY StartOfCycle, EndIsNumber
<1>2. PICK t \in Int : t = CycleStart(d) /\ IsStart(t) /\ t <= d /\ d <= CycleEnd(t) /\ CycleEnd(t) \in Int
  <2>1. d \in FileDays
    BY CountIs
  <2> QED BY <2>1, StartsAre, EndIsNumber
<1>3. d \in Int /\ FirstDay <= d /\ d <= LastDay
  BY FileBounds, CountIs
<1>4. d \in BilledDays(s) <=> s <= d /\ d <= CycleEnd(s)
  BY <1>1, <1>3, BilledDaysAre
<1>5. (s < t => CycleEnd(s) < t) /\ (t < s => CycleEnd(t) < s)
  BY <1>1, <1>2, CyclesApart
<1> QED BY <1>1, <1>2, <1>3, <1>4, <1>5 DEF DaysOf

LEMMA EveryCycleHasDays ==
    ASSUME BillingDayInEveryMonth, Input, NEW j \in 1..Count
    PROVE  DaysOf(j) # {}
<1>1. PICK d \in ReadDays : CycleStart(d) = CycleStarts[j]
  BY StartOfCycle
<1> QED BY <1>1, DayIsInItsCycle

\* Cycle i of the bill is cycle i of the file.
BilledInOrder == phase = "charge" => /\ Len(bill) = cyc - 1
                                     /\ \A i \in 1..(cyc - 1) : bill[i].days = DaysOf(i)
BilledOnce(t) ==
    \A d \in ReadDays :
        Cardinality({i \in DOMAIN results[t].cycles : d \in results[t].cycles[i].days}) = 1
DaysInv == Work /\ BilledInOrder /\ EachDayBilledOnce

LEMMA OrderInit == Init => BilledInOrder /\ EachDayBilledOnce
  BY DEF Init, BilledInOrder, EachDayBilledOnce, Done, Pending

LEMMA OrderNext ==
    BillingDayInEveryMonth /\ Work /\ BilledInOrder /\ [Next]_vars => BilledInOrder'
<1> SUFFICES ASSUME BillingDayInEveryMonth, Work, BilledInOrder, [Next]_vars, phase' = "charge"
             PROVE  (Len(bill) = cyc - 1 /\ \A i \in 1..(cyc - 1) : bill[i].days = DaysOf(i))'
  BY DEF BilledInOrder
<1>1. CASE bill' = << >> /\ cyc' = 1
  BY <1>1
<1>2. CASE ChargeCycle
  <2>1. /\ UNCHANGED Inputs /\ UNCHANGED <<turn, details>> /\ phase = "charge" /\ cyc' = cyc + 1
        /\ cyc <= Count
        /\ bill' = IF DaysOf(cyc) = {} THEN bill ELSE Append(bill, Charged(cyc))
    BY <1>2, ChargeIs
  <2>2. Input /\ cyc \in 1..Count /\ bill \in Seq(Billed(cyc - 1))
    <3>1. Input /\ Charging
      BY <2>1 DEF Work
    <3> QED BY <2>1, <3>1, CountIs DEF Charging
  <2>3. bill' = Append(bill, Charged(cyc))
    BY <2>1, <2>2, EveryCycleHasDays
  <2>4. Len(bill) = cyc - 1 /\ \A i \in 1..(cyc - 1) : bill[i].days = DaysOf(i)
    BY <2>1 DEF BilledInOrder
  <2>5. PICK S : S = Billed(cyc - 1)
    OBVIOUS
  <2>6. bill \in Seq(S)
    BY <2>2, <2>5
  <2>7. /\ Len(bill') = cyc /\ bill'[cyc] = Charged(cyc)
        /\ \A i \in 1..(cyc - 1) : bill'[i] = bill[i]
    BY <2>2, <2>3, <2>4, <2>6
  <2>8. Charged(cyc).days = DaysOf(cyc)
    BY DEF Charged
  <2>9. \A i \in 1..cyc : bill'[i].days = DaysOf(i)
    <3>1. \A i \in 1..cyc : i = cyc \/ i \in 1..(cyc - 1)
      BY <2>2
    <3> QED BY <2>4, <2>7, <2>8, <3>1
  <2>10. \A j : DaysOf(j)' = DaysOf(j)
    BY <2>1, ChargedIsSame
  <2>11. cyc' - 1 = cyc
    BY <2>1, <2>2
  <2> QED BY <2>7, <2>9, <2>10, <2>11
<1>3. CASE UNCHANGED vars
  <2>1. UNCHANGED Inputs /\ UNCHANGED <<turn, details>> /\ UNCHANGED <<phase, cyc, bill>>
    BY <1>3 DEF vars, Inputs
  <2>2. \A j : DaysOf(j)' = DaysOf(j)
    BY <2>1, ChargedIsSame
  <2> QED BY <2>1, <2>2 DEF BilledInOrder
<1>4. \/ bill' = << >> /\ cyc' = 1
      \/ ChargeCycle \/ UNCHANGED vars
  <2>1. CASE BalanceMetering \/ BalanceBilling
    <3>1. phase = "balance" /\ AdvanceBalancing /\ bill' = bill
      BY <2>1 DEF BalanceMetering, BalanceBilling
    <3>2. bill = << >>
      BY <3>1 DEF Work, Balancing
    <3> QED BY <3>1, <3>2 DEF AdvanceBalancing
  <2>2. CASE NextTariff
    BY <2>2 DEF NextTariff
  <2> QED BY <2>1, <2>2 DEF Next, Prepare, BalanceFails, ChargeFails, Settle, Answer, Fail
<1> QED BY <1>1, <1>2, <1>3, <1>4

LEMMA SettledOnce ==
    ASSUME BillingDayInEveryMonth, Work, BilledInOrder, Settle, NEW t, t = Tariff
    PROVE  BilledOnce(t)'
<1>1. UNCHANGED Inputs /\ phase = "charge" /\ cyc = Count + 1 /\ results'[t] = Settled
  BY SettleIs, InputsStay DEF Next
<1>2. Input /\ Count \in Nat /\ bill \in Seq(Billed(cyc - 1))
  BY <1>1, CountIs DEF Work, Charging
<1>3. PICK r : r = results'[t]
  OBVIOUS
<1>4. r.cycles = bill
  BY <1>1, <1>3 DEF Settled
<1>5. DOMAIN bill = 1..Count /\ \A i \in 1..Count : bill[i].days = DaysOf(i)
  <2>1. PICK S : S = Billed(cyc - 1)
    OBVIOUS
  <2>2. bill \in Seq(S) /\ Len(bill) = Count
    BY <1>1, <1>2, <2>1 DEF BilledInOrder
  <2> QED BY <1>1, <1>2, <2>2 DEF BilledInOrder
<1>6. ASSUME NEW d \in ReadDays
      PROVE  Cardinality({i \in DOMAIN r.cycles : d \in r.cycles[i].days}) = 1
  <2>1. PICK j \in 1..Count : CycleStarts[j] = CycleStart(d)
    BY <1>2, CycleOfReadDay
  <2>2. \A i \in 1..Count : d \in bill[i].days <=> i = j
    <3> SUFFICES ASSUME NEW i \in 1..Count PROVE d \in DaysOf(i) <=> i = j
      BY <1>5
    <3> QED BY <1>2, <2>1, DayIsInItsCycle, StartsIncrease
  <2>3. {i \in DOMAIN r.cycles : d \in r.cycles[i].days} = {j}
    BY <1>4, <1>5, <2>2
  <2> QED BY <2>3, FS_Singleton
<1>7. ReadDays' = ReadDays
  BY <1>1, FileIsSame DEF Inputs
<1> QED BY <1>3, <1>6, <1>7 DEF BilledOnce


LEMMA OnceNext ==
    BillingDayInEveryMonth /\ Work /\ BilledInOrder /\ EachDayBilledOnce /\ [Next]_vars => EachDayBilledOnce'
<1> SUFFICES ASSUME BillingDayInEveryMonth, Work, BilledInOrder, EachDayBilledOnce, [Next]_vars,
                    NEW t \in Done'
             PROVE  BilledOnce(t)'
  BY DEF EachDayBilledOnce, BilledOnce
<1>1. CASE Settle /\ t = Tariff
  BY <1>1, SettledOnce
<1>2. CASE ~(Settle /\ t = Tariff)
  <2>1. t \in Done /\ results'[t] = results[t]
    BY <1>2, ResultsStay
  <2>2. ReadDays' = ReadDays
    BY InputsStay, FileIsSame DEF Inputs
  <2> QED BY <2>1, <2>2 DEF EachDayBilledOnce, BilledOnce
<1> QED BY <1>1, <1>2

\* In a finished bill every day with a reading is in the days of one cycle: none pays
\* the fees twice, and no reading is free of them (calculate_fixed_costs), when cycles
\* begin on a day that every month has.
THEOREM DaysAreBilledOnce == BillingDayInEveryMonth => (Spec => []EachDayBilledOnce)
<1> SUFFICES ASSUME BillingDayInEveryMonth PROVE Spec => []EachDayBilledOnce
  OBVIOUS
<1>1. Init => BilledInOrder /\ EachDayBilledOnce
  BY OrderInit
<1>2. Work /\ BilledInOrder /\ EachDayBilledOnce /\ [Next]_vars => (BilledInOrder /\ EachDayBilledOnce)'
  BY OrderNext, OnceNext
<1>3. Spec => []Work
  BY WorkFollowsReadings
<1> QED BY <1>1, <1>2, <1>3, PTL DEF Spec

----------------------------------------------------------------------------
(* A tariff fails for what the file lacks.                                 *)

\* Nothing of a cycle is left to charge.
NoEnergyToCharge(s) ==
    \A x \in Moments(s) : Used(x) = 0 \/ (pv = "net_billing" /\ Used(x) < Exported(x))
Reason(t) ==
    \/ DataIsMissing(t)
    \/ t = Dynamic /\ \E i \in DOMAIN CycleStarts : NoEnergyToCharge(CycleStarts[i])

LEMMA ReasonIsSame ==
    ASSUME UNCHANGED Inputs, NEW t, Reason(t)
    PROVE  Reason(t)'
<1>1. readings' = readings /\ pv' = pv /\ prices' = prices
  BY DEF Inputs
<1>2. DataIsMissing(t)' <=> DataIsMissing(t)
  BY <1>1 DEF DataIsMissing, ListForPeriod, FirstDay, LastDay, ReadDays, CoveringIndexes, Price, Used,
              Exported, Hour
<1>3. \A s : NoEnergyToCharge(s)' <=> NoEnergyToCharge(s)
  BY <1>1, FileIsSame DEF NoEnergyToCharge, Used, Exported
<1>4. CycleStarts' = CycleStarts
  BY <1>1, FileIsSame
<1> QED BY <1>2, <1>3, <1>4 DEF Reason

\* The records of a cycle lie in its days.
LEMMA RecordsAre ==
    ASSUME Input, NEW j \in 1..Count, Balanced(j), NEW x \in Recorded(details[j])
    PROVE  /\ x \in Moments(CycleStarts[j]) /\ x \in ReadDays \X Intervals
           /\ x[1] \in ReadDays /\ CycleStart(x[1]) = CycleStarts[j]
           /\ Used(x) + Exported(x) > 0
<1>1. details[j].kind = "records" /\ x \in DOMAIN details[j].by
  BY DEF Recorded
<1>2. PICK s : s = CycleStarts[j]
  OBVIOUS
<1>3. x \in Moments(s) /\ (Used(x) > 0 \/ Used(x) + Exported(x) > 0)
  <2>1. CASE pv = "none"
    BY <1>1, <1>2, <2>1 DEF Balanced, UsedRecords
  <2>2. CASE pv = "net_billing"
    BY <1>1, <1>2, <2>2 DEF Balanced, NetOf
  <2>3. CASE pv = "net_metering"
    BY <1>1, <2>3 DEF Balanced
  <2> QED BY <2>1, <2>2, <2>3 DEF Input
<1>4. x \in ReadDays \X Intervals /\ CycleStart(x[1]) = s
  BY <1>3, MomentsAre
<1>5. x[1] \in ReadDays /\ Used(x) \in Nat /\ Exported(x) \in Nat
  BY <1>4, ReadingsAre
<1> QED BY <1>2, <1>3, <1>4, <1>5

LEMMA ChargeFailsForAReason ==
    ASSUME BillingDayInEveryMonth, Work, ChargeFails, NEW t, t = Tariff
    PROVE  Reason(t)
<1>1. PICK j, s, e : j = cyc /\ s = CycleStarts[j] /\ e = details[j]
  OBVIOUS
<1>2. phase = "charge" /\ CannotCharge(t, e, s) /\ j <= Count
  BY <1>1 DEF ChargeFails, Count
<1>3. Input /\ Charging /\ Prepared
  BY <1>2 DEF Work
<1>4. j \in 1..Count /\ Balanced(j)
  <2>1. j \in 1..(Count + 1) /\ Count \in Nat
    BY <1>1, <1>3, CountIs DEF Charging
  <2>2. j \in 1..Count
    BY <1>2, <2>1
  <2> QED BY <1>3, <2>2 DEF Charging
<1>5. CASE \E def \in Range(ListForPeriod(t)) : DOMAIN def.rates # Zones(t)
  <2>1. \E i \in DOMAIN ListForPeriod(t) : DOMAIN ListForPeriod(t)[i].rates # Zones(t)
    BY <1>5 DEF Range
  <2> QED BY <2>1 DEF Reason, DataIsMissing
<1>6. CASE \E d \in BilledDays(s) : CoveringIndexes(ListForPeriod(t), d) = {}
  <2>1. PICK d \in BilledDays(s) : CoveringIndexes(ListForPeriod(t), d) = {}
    BY <1>6
  <2>2. s \in Int /\ CycleEnd(s) \in Int
    BY <1>1, <1>3, <1>4, StartOfCycle, EndIsNumber
  <2>3. d \in Int /\ FirstDay <= d /\ d <= LastDay
    BY <1>3, <2>1, <2>2, BilledDaysAre DEF Prepared
  <2>4. FirstDay \in Int /\ LastDay \in Int
    BY <1>3, FileBounds DEF Prepared
  <2>5. d \in FirstDay..LastDay
    BY <2>3, <2>4
  <2> QED BY <2>1, <2>5 DEF Reason, DataIsMissing
<1>7. CASE \E x \in Recorded(e) : x[1] \notin BilledDays(s)
  <2>1. PICK x \in Recorded(e) : x[1] \notin BilledDays(s)
    BY <1>7
  <2>2. x[1] \in ReadDays /\ CycleStart(x[1]) = CycleStarts[j]
    BY <1>1, <1>3, <1>4, <2>1, RecordsAre
  <2>3. x[1] \in DaysOf(j)
    BY <1>3, <1>4, <2>2, DayIsInItsCycle
  <2> QED BY <1>1, <2>1, <2>3 DEF DaysOf
<1>8. CASE t = Dynamic /\ Recorded(e) = {}
  <2>1. CASE pv = "net_metering"
    BY <1>8, <2>1 DEF Reason, DataIsMissing
  <2>2. CASE pv # "net_metering"
    <3>1. ASSUME NEW x \in Moments(s)
          PROVE  Used(x) = 0 \/ (pv = "net_billing" /\ Used(x) < Exported(x))
      <4>1. Used(x) \in Nat /\ Exported(x) \in Nat
        <5>1. x \in ReadDays \X Intervals
          BY <1>3, <3>1, MomentsAre
        <5> QED BY <1>3, <5>1, ReadingsAre
      <4>2. CASE pv = "none"
        <5>1. e = UsedRecords(s)
          BY <1>1, <1>4, <4>2 DEF Balanced
        <5>2. ~(Used(x) > 0)
          BY <1>8, <3>1, <5>1 DEF Recorded, UsedRecords
        <5> QED BY <4>1, <5>2
      <4>3. CASE pv = "net_billing"
        <5>1. e = NetOf(s)
          BY <1>1, <1>4, <4>3 DEF Balanced
        <5>2. ~(Used(x) + Exported(x) > 0 /\ NetUse(x) >= 0)
          BY <1>8, <3>1, <5>1 DEF Recorded, NetOf
        <5> QED BY <4>1, <4>3, <5>2 DEF NetUse
      <4> QED BY <1>3, <2>2, <4>2, <4>3 DEF Input
    <3>2. NoEnergyToCharge(s)
      BY <3>1 DEF NoEnergyToCharge
    <3>3. j \in DOMAIN CycleStarts
      BY <1>3, <1>4, CountIs
    <3> QED BY <1>1, <1>8, <3>2, <3>3 DEF Reason
  <2> QED BY <2>1, <2>2
<1>9. CASE \E x \in Recorded(e) : Price(x) = NoPrice
  <2>1. PICK x \in Recorded(e) : Price(x) = NoPrice
    BY <1>9
  <2>2. x \in ReadDays \X Intervals /\ Used(x) + Exported(x) > 0
    BY <1>1, <1>3, <1>4, <2>1, RecordsAre
  <2> QED BY <2>1, <2>2 DEF Reason, DataIsMissing
<1> QED BY <1>2, <1>5, <1>6, <1>7, <1>8, <1>9 DEF CannotCharge

LEMMA BalanceFailsForAReason ==
    ASSUME Work, BalanceFails, NEW t
    PROVE  Reason(t)
<1>1. PICK s : s = CycleStarts[cyc]
  OBVIOUS
<1>2. phase = "balance" /\ Input
  BY DEF BalanceFails, Work
<1>3. PICK x \in Moments(s) : Balance(x) < 0 /\ Price(x) = NoPrice
  BY <1>1 DEF BalanceFails, Surplus
<1>4. Balance(x) = Used(x) - Exported(x)
  BY <1>1, <1>2, <1>3, RecordedUseIs DEF Balance
<1>5. x \in ReadDays \X Intervals
  BY <1>2, <1>3, MomentsAre
<1>6. Used(x) + Exported(x) > 0
  <2>1. Used(x) \in Nat /\ Exported(x) \in Nat
    BY <1>2, <1>5, ReadingsAre
  <2> QED BY <1>3, <1>4, <2>1
<1> QED BY <1>3, <1>5, <1>6 DEF Reason, DataIsMissing

LEMMA ReasonsNext ==
    BillingDayInEveryMonth /\ Work /\ RefusalsHaveAReason /\ [Next]_vars => RefusalsHaveAReason'
<1> SUFFICES ASSUME BillingDayInEveryMonth, Work, RefusalsHaveAReason, [Next]_vars,
                    NEW t \in DOMAIN results', results'[t] = Failed
             PROVE  Reason(t)'
  BY DEF RefusalsHaveAReason, Reason, NoEnergyToCharge
<1>1. DOMAIN results' = DOMAIN results
  BY DEF Next, vars, Prepare, NextTariff, BalanceMetering, BalanceBilling, BalanceFails,
         ChargeCycle, ChargeFails, Settle, Answer, Fail
<1>2. Reason(t)
  <2>1. CASE results[t] = Failed
    BY <1>1, <2>1 DEF RefusalsHaveAReason, Reason, NoEnergyToCharge
  <2>2. CASE results[t] # Failed
    <3>1. CASE Settle
      <4>1. results' = [results EXCEPT ![Tariff] = Settled] /\ results'[Tariff] = Settled
        BY <3>1, SettleIs
      <4>2. Settled # Failed
        <5>1. Settled.state = "done" /\ Failed.state = "error"
          BY DEF Settled, Failed
        <5> QED BY <5>1
      <4> QED BY <1>1, <2>2, <4>1, <4>2
    <3>2. CASE ChargeFails
      <4>1. t = Tariff
        BY <1>1, <2>2, <3>2 DEF ChargeFails, Fail
      <4> QED BY <3>2, <4>1, ChargeFailsForAReason
    <3>3. CASE BalanceFails
      BY <3>3, BalanceFailsForAReason
    <3>4. CASE results' = results
      BY <2>2, <3>4
    <3> QED BY <3>1, <3>2, <3>3, <3>4 DEF Next, vars, Prepare, NextTariff, BalanceMetering, BalanceBilling,
              ChargeCycle, Answer
  <2> QED BY <2>1, <2>2
<1> QED BY <1>2, InputsStay, ReasonIsSame

\* A tariff is left out of the comparison only when its rates or the prices do not cover
\* the file, or for a cycle without energy in the dynamic tariff: a reading is never
\* outside the days of its cycle (calculate_for_all_tariffs notes the error of a tariff).
THEOREM RefusalsAreExplained == BillingDayInEveryMonth => (Spec => []RefusalsHaveAReason)
<1> SUFFICES ASSUME BillingDayInEveryMonth PROVE Spec => []RefusalsHaveAReason
  OBVIOUS
<1>1. Init => RefusalsHaveAReason
  BY DEF Init, RefusalsHaveAReason, Pending, Failed
<1>2. Work /\ RefusalsHaveAReason /\ [Next]_vars => RefusalsHaveAReason'
  BY ReasonsNext
<1>3. Spec => []Work
  BY WorkFollowsReadings
<1> QED BY <1>1, <1>2, <1>3, PTL DEF Spec

----------------------------------------------------------------------------
(* A cycle is charged segment by segment, and nothing of it is left out.   *)

SegmentKey(t, d) == <<Min(CoveringIndexes(ListForPeriod(t), d)), Min(CoveringIndexes(Periods, d))>>
SegmentOf(t, days, k) == [def |-> k[1], period |-> k[2], days |-> {d \in days : SegmentKey(t, d) = k}]

LEMMA SegmentsAre ==
    ASSUME NEW t, NEW days, IsFiniteSet(days)
    PROVE  /\ IsFiniteSet(Segments(t, days))
           /\ \A s \in Segments(t, days) : s.days # {} /\ s.days \subseteq days /\ IsFiniteSet(s.days)
           /\ \A d \in days : \E s \in Segments(t, days) : d \in s.days
           /\ \A s \in Segments(t, days) : \A d \in s.days :
                  s = SegmentOf(t, days, SegmentKey(t, d))
<1> DEFINE f == [k \in {SegmentKey(t, d) : d \in days} |-> SegmentOf(t, days, k)]
           g == [d \in days |-> SegmentKey(t, d)]
           keys == {SegmentKey(t, d) : d \in days}
<1>1. Segments(t, days) = {SegmentOf(t, days, k) : k \in keys}
  BY DEF Segments, SegmentOf, SegmentKey
<1>2. Segments(t, days) = {f[k] : k \in keys}
  <2>1. \A k \in keys : f[k] = SegmentOf(t, days, k)
    OBVIOUS
  <2> HIDE DEF keys, f
  <2> QED BY <1>1, <2>1
<1>3. keys = {g[d] : d \in days}
  <2>1. \A d \in days : g[d] = SegmentKey(t, d)
    OBVIOUS
  <2> HIDE DEF g
  <2> QED BY <2>1
<1>4. IsFiniteSet(Segments(t, days))
  <2>1. IsFiniteSet(keys)
    <3> HIDE DEF g, keys
    <3> QED BY <1>3, ImageIsFinite
  <2> HIDE DEF f, keys
  <2> QED BY <1>2, <2>1, ImageIsFinite
<1>5. ASSUME NEW s \in Segments(t, days)
      PROVE  /\ s.days # {} /\ s.days \subseteq days /\ IsFiniteSet(s.days)
             /\ \A d \in s.days : s = SegmentOf(t, days, SegmentKey(t, d))
  <2>1. PICK d \in days : s = SegmentOf(t, days, SegmentKey(t, d))
    BY <1>1, <1>5
  <2>2. PICK k : k = SegmentKey(t, d)
    OBVIOUS
  <2>3. s.days = {c \in days : SegmentKey(t, c) = k}
    BY <2>1, <2>2 DEF SegmentOf
  <2>4. s.days # {} /\ s.days \subseteq days
    BY <2>2, <2>3
  <2>5. IsFiniteSet(s.days)
    BY <2>4, FS_Subset
  <2>6. \A c \in s.days : SegmentKey(t, c) = k
    BY <2>3
  <2> QED BY <2>1, <2>2, <2>4, <2>5, <2>6
<1>6. ASSUME NEW d \in days PROVE \E s \in Segments(t, days) : d \in s.days
  <2>1. PICK k : k = SegmentKey(t, d)
    OBVIOUS
  <2>2. SegmentOf(t, days, k) \in Segments(t, days)
    BY <1>1, <2>1
  <2>3. d \in SegmentOf(t, days, k).days
    BY <2>1 DEF SegmentOf
  <2> QED BY <2>2, <2>3
<1> QED BY <1>4, <1>5, <1>6

\* Segments, each with the days of its own.
Apart(segments) == \A s, r \in segments : \A d \in s.days : d \in r.days => s = r

LEMMA SegmentsApart ==
    ASSUME NEW t, NEW days, IsFiniteSet(days)
    PROVE  Apart(Segments(t, days))
<1> SUFFICES ASSUME NEW s \in Segments(t, days), NEW r \in Segments(t, days), NEW d \in s.days, d \in r.days
             PROVE  s = r
  BY DEF Apart
<1>1. PICK q : q = SegmentOf(t, days, SegmentKey(t, d))
  OBVIOUS
<1>2. s = q /\ r = q
  BY <1>1, SegmentsAre
<1> QED BY <1>2

InSegments(seg, segments, D) == \A x \in D : seg[x] \in segments /\ x[1] \in seg[x].days
Weighed(f, e, w, seg, D) == \A x \in D : f[x] = e.by[x] * w[seg[x]][ZoneOf[Tariff][Hour(x)]]

\* What moments of D have in the days of a segment, and in all segments.
OfSegment(D, s) == {x \in D : x[1] \in s.days}
BySegment(v, segments, D) == SumFunction([s \in segments |-> SumOver(v[s], OfSegment(D, s))])

LEMMA SumBySegment ==
    ASSUME NEW D, IsFiniteSet(D), NEW segments, IsFiniteSet(segments), Apart(segments),
           NEW seg, InSegments(seg, segments, D),
           NEW v, NEW f, Numbers(f, D), \A x \in D : f[x] = v[seg[x]][x]
    PROVE  BySegment(v, segments, D) = SumOver(f, D)
<1> DEFINE at(s) == {x \in D : seg[x] = s}
           g == [s \in segments |-> SumOver(f, at(s))]
<1>1. ASSUME NEW s \in segments PROVE SumOver(v[s], OfSegment(D, s)) = SumOver(f, at(s))
  <2>1. OfSegment(D, s) = at(s)
    <3> SUFFICES ASSUME NEW x \in D PROVE x[1] \in s.days <=> seg[x] = s
      BY DEF OfSegment
    <3> QED BY DEF Apart, InSegments
  <2>2. PICK h : h = v[s]
    OBVIOUS
  <2>3. \A x \in at(s) : h[x] = f[x]
    BY <2>2
  <2> HIDE DEF at
  <2>4. SumOver(h, at(s)) = SumOver(f, at(s))
    BY <2>3, SumOfSame
  <2> QED BY <2>1, <2>2, <2>4
<1>2. [s \in segments |-> SumOver(v[s], OfSegment(D, s))] = g
  <2> HIDE DEF at
  <2> QED BY <1>1
<1>3. SumOver(f, D) = SumOver(g, segments)
  <2>1. (\A x \in D : seg[x] \in segments) /\ (\A x \in D : f[x] \in Int)
    BY DEF Numbers, InSegments
  <2>2. g = [s \in segments |-> SumOver(f, {x \in D : seg[x] = s})]
    OBVIOUS
  <2> HIDE DEF g
  <2> QED BY <2>1, <2>2, SumByKey
<1>4. SumOver(g, segments) = SumFunction(g)
  <2>1. [s \in segments |-> g[s]] = g
    OBVIOUS
  <2> HIDE DEF g
  <2> QED BY <2>1 DEF SumOver
<1> HIDE DEF g
<1> QED BY <1>2, <1>3, <1>4 DEF BySegment

\* Records are weighed by the segment of their day and the zone of their hour.
RecordsSplit(e, D, segments, seg, w, f) ==
    /\ e.kind = "records" /\ D = DOMAIN e.by /\ IsFiniteSet(D)
    /\ IsFiniteSet(segments) /\ Apart(segments) /\ InSegments(seg, segments, D)
    /\ Numbers(f, D) /\ Weighed(f, e, w, seg, D)

LEMMA SplitOfRecords ==
    ASSUME NEW e, NEW D, NEW segments, NEW seg, NEW w, NEW f, RecordsSplit(e, D, segments, seg, w, f), NEW start
    PROVE  SplitEnergy(e, segments, start, w) = SumOver(f, D)
<1> USE DEF RecordsSplit
<1> DEFINE weighed(s, x) == e.by[x] * w[s][ZoneOf[Tariff][Hour(x)]]
           v == [s \in segments |-> [x \in D |-> weighed(s, x)]]
           part(s) == SumFunction([x \in OfSegment(D, s) |-> weighed(s, x)])
<1>1. SplitEnergy(e, segments, start, w) = SumFunction([s \in segments |-> part(s)])
  BY DEF SplitEnergy, Sum, OfSegment
<1>2. ASSUME NEW s \in segments PROVE part(s) = SumOver(v[s], OfSegment(D, s))
  <2>1. \A x \in OfSegment(D, s) : v[s][x] = weighed(s, x)
    BY DEF OfSegment
  <2> HIDE DEF v, weighed
  <2>2. [x \in OfSegment(D, s) |-> weighed(s, x)] = [x \in OfSegment(D, s) |-> v[s][x]]
    BY <2>1
  <2> QED BY <2>2 DEF SumOver
<1>3. SplitEnergy(e, segments, start, w) = BySegment(v, segments, D)
  <2> HIDE DEF v, part
  <2>1. [s \in segments |-> part(s)] = [s \in segments |-> SumOver(v[s], OfSegment(D, s))]
    BY <1>2
  <2> QED BY <1>1, <2>1 DEF BySegment
<1>4. \A x \in D : f[x] = v[seg[x]][x]
  BY DEF Weighed, InSegments
<1>5. BySegment(v, segments, D) = SumOver(f, D)
  <2> HIDE DEF v
  <2> QED BY <1>4, SumBySegment
<1> QED BY <1>3, <1>5


WithDays(segments) == \A s \in segments : s.days # {} /\ IsFiniteSet(s.days)
Whole(w, segments, Z) == \A s \in segments : \A z \in Z : w[s][z] = 1

\* Energy that was balanced by zones is divided and put together again.
LEMMA SplitOfZones ==
    ASSUME Input, NEW e, e.kind # "records", NEW Z, Z = DOMAIN e.by, IsFiniteSet(Z),
           Numbers(e.by, Z),
           NEW segments, IsFiniteSet(segments), segments # {}, WithDays(segments),
           NEW start, NEW w, Whole(w, segments, Z)
    PROVE  SplitEnergy(e, segments, start, w) = SumOver(e.by, Z)
<1> DEFINE times(s, z) == {x \in Moments(start) : x[1] \in s.days /\ ZoneOf[Tariff][Hour(x)] = z}
           raw(s, z) == SumFunction([x \in times(s, z) |-> Used(x)])
           known(z) == \E s \in segments : raw(s, z) > 0
           share(s, z) == IF known(z) THEN raw(s, z) ELSE Cardinality(s.days)
           whole(z) == SumFunction([s \in segments |-> share(s, z)])
           weighed(z) == SumFunction([s \in segments |-> share(s, z) * w[s][z]])
<1>1. SplitEnergy(e, segments, start, w) =
          SumFunction([z \in Z |-> (e.by[z] * weighed(z)) \div whole(z)])
  BY DEF SplitEnergy, Sum
<1>2. \A s, z : raw(s, z) \in Nat
  <2> SUFFICES ASSUME NEW s, NEW z PROVE raw(s, z) \in Nat
    OBVIOUS
  <2>1. PICK T : T = times(s, z)
    OBVIOUS
  <2>2. IsFiniteSet(T) /\ \A x \in T : Used(x) \in Nat
    <3>1. T \subseteq Moments(start)
      BY <2>1
    <3>2. IsFiniteSet(T)
      BY <3>1, MomentsAre, FS_Subset
    <3>3. \A x \in T : x \in ReadDays \X Intervals
      BY <3>1, MomentsAre
    <3> QED BY <3>2, <3>3, ReadingsAre
  <2> DEFINE u == [x \in T |-> Used(x)]
  <2>3. \A x \in T : u[x] \in Int /\ u[x] >= 0
    <3> SUFFICES ASSUME NEW x \in T PROVE u[x] \in Int /\ u[x] >= 0
      OBVIOUS
    <3>1. u[x] = Used(x) /\ Used(x) \in Nat
      BY <2>2
    <3> QED BY <3>1
  <2>4. u = [x \in T |-> u[x]]
    OBVIOUS
  <2> HIDE DEF u
  <2>5. SumFunction(u) = SumOver(u, T)
    BY <2>4 DEF SumOver
  <2>6. SumOver(u, T) \in Int /\ SumOver(u, T) >= 0
    BY <2>2, <2>3, SumIsNumber, SumIsPositive
  <2>7. raw(s, z) = SumFunction(u)
    BY <2>1 DEF u
  <2> HIDE DEF raw
  <2>8. raw(s, z) \in Int /\ raw(s, z) >= 0
    BY <2>5, <2>6, <2>7
  <2> QED BY <2>8
<1> HIDE DEF raw
<1>3. \A s \in segments : Cardinality(s.days) \in Nat /\ Cardinality(s.days) > 0
  <2> SUFFICES ASSUME NEW s \in segments PROVE Cardinality(s.days) \in Nat /\ Cardinality(s.days) > 0
    OBVIOUS
  <2>1. Cardinality(s.days) \in Nat /\ Cardinality(s.days) # 0
    BY FS_CardinalityType, FS_EmptySet DEF WithDays
  <2> QED BY <2>1
<1>4. ASSUME NEW z \in Z PROVE (e.by[z] * weighed(z)) \div whole(z) = e.by[z]
  <2> DEFINE g == [s \in segments |-> share(s, z)]
  <2>1. \A s \in segments : g[s] \in Int /\ g[s] >= 0
    <3> SUFFICES ASSUME NEW s \in segments PROVE g[s] \in Int /\ g[s] >= 0
      OBVIOUS
    <3>1. raw(s, z) \in Nat /\ Cardinality(s.days) \in Nat /\ g[s] \in {raw(s, z), Cardinality(s.days)}
      BY <1>2, <1>3
    <3> QED BY <3>1
  <2>2. \E s \in segments : g[s] > 0
    <3>1. CASE known(z)
      BY <3>1
    <3>2. CASE ~known(z)
      BY <1>3, <3>2
    <3> QED BY <3>1, <3>2
  <2>3. whole(z) = SumFunction(g)
    OBVIOUS
  <2>4. weighed(z) = SumFunction(g)
    <3>1. \A s \in segments : share(s, z) \in Int
      BY <2>1
    <3> HIDE DEF share
    <3>3. \A s \in segments : share(s, z) * w[s][z] = share(s, z)
      <4> SUFFICES ASSUME NEW s \in segments PROVE share(s, z) * w[s][z] = share(s, z)
        OBVIOUS
      <4>1. w[s][z] = 1
        BY DEF Whole
      <4>2. PICK n \in Int : n = share(s, z)
        BY <3>1
      <4>3. n * w[s][z] = n
        BY <4>1, <4>2
      <4> QED BY <4>2, <4>3
    <3>4. [s \in segments |-> share(s, z) * w[s][z]] = g
      BY <3>3
    <3> QED BY <3>4
  <2>5. g = [s \in segments |-> g[s]]
    OBVIOUS
  <2> HIDE DEF g, whole, weighed
  <2>6. SumFunction(g) = SumOver(g, segments)
    BY <2>5 DEF SumOver
  <2>7. SumOver(g, segments) \in Int /\ SumOver(g, segments) > 0
    <3>1. PICK s \in segments : g[s] > 0
      BY <2>2
    <3>2. PICK rest : rest = segments \ {s}
      OBVIOUS
    <3>3. IsFiniteSet(rest) /\ rest \cup {s} = segments /\ s \notin rest /\ rest \subseteq segments
      BY <3>2, FS_Subset
    <3>4. SumOver(g, rest) \in Int /\ SumOver(g, rest) >= 0
      BY <2>1, <3>3, SumIsNumber, SumIsPositive
    <3>5. Numbers(g, rest \cup {s})
      BY <2>1, <3>3 DEF Numbers
    <3>6. SumOver(g, rest \cup {s}) = SumOver(g, rest) + g[s]
      BY <3>3, <3>5, SumStep
    <3>7. g[s] \in Int
      BY <2>1
    <3> QED BY <3>1, <3>3, <3>4, <3>6, <3>7
  <2>8. e.by[z] \in Int
    BY DEF Numbers
  <2> QED BY <2>3, <2>4, <2>6, <2>7, <2>8, DivisionUndoes
<1>5. [z \in Z |-> (e.by[z] * weighed(z)) \div whole(z)] = [z \in Z |-> e.by[z]]
  <2> HIDE DEF weighed, whole
  <2> QED BY <1>4
<1> QED BY <1>1, <1>5 DEF SumOver

----------------------------------------------------------------------------
(* Energy pays for the zones, the dearest first.                           *)

Amounts(f, Z) == \A z \in Z : f[z] \in Nat
Within(f, g, Z) == \A z \in Z : f[z] <= g[z]
AllZero(f, Z) == \A z \in Z : f[z] = 0
\* What was paid of `full`, when `left` of it remains, went to the dearer zones first.
PaidFirst(full, left, Z) == \A y, z \in Z : y < z /\ left[z] < full[z] => left[y] = 0

Dearer(z, Z) == {y \in Z : y < z}
PaidFor(left, zones, Z, z) ==
    Min({zones[z], Max({0, left - SumOver(zones, Dearer(z, Z))})})

LEMMA LesserAndGreater ==
    ASSUME NEW a \in Nat, NEW b \in Int
    PROVE  Min({a, Max({0, b})}) = IF b <= 0 THEN 0 ELSE IF a <= b THEN a ELSE b
<1>1. Max({0, b}) = IF b <= 0 THEN 0 ELSE b
  <2>1. Max({0, b}) = (IF 0 <= b THEN b ELSE 0)
    BY MinOfTwo
  <2> QED BY <2>1
<1>2. PICK c \in Nat : c = Max({0, b}) /\ c = IF b <= 0 THEN 0 ELSE b
  BY <1>1
<1>3. Min({a, c}) = IF a <= c THEN a ELSE c
  BY MinOfTwo
<1> QED BY <1>2, <1>3

LEMMA CoverIs ==
    ASSUME NEW left, NEW zones, NEW Z, Z = DOMAIN zones
    PROVE  CoverZones(left, zones) =
               [left |-> left - SumOver([z \in Z |-> PaidFor(left, zones, Z, z)], Z),
                zones |-> [z \in Z |-> zones[z] - PaidFor(left, zones, Z, z)]]
<1> DEFINE dearer(z) == SumFunction([y \in {y \in DOMAIN zones : y < z} |-> zones[y]])
           paid(z) == Min({zones[z], Max({0, left - dearer(z)})})
<1>1. CoverZones(left, zones) =
          [left |-> left - SumFunction([z \in DOMAIN zones |-> paid(z)]),
           zones |-> [z \in DOMAIN zones |-> zones[z] - paid(z)]]
  BY DEF CoverZones, Sum
<1>2. \A z : dearer(z) = SumOver(zones, Dearer(z, Z))
  BY DEF SumOver, Dearer
<1> HIDE DEF dearer
<1>3. \A z : paid(z) = PaidFor(left, zones, Z, z)
  BY <1>2 DEF PaidFor
<1> HIDE DEF paid
<1>4. [z \in DOMAIN zones |-> paid(z)] = [z \in Z |-> PaidFor(left, zones, Z, z)]
  BY <1>3
<1>5. [z \in DOMAIN zones |-> zones[z] - paid(z)] = [z \in Z |-> zones[z] - PaidFor(left, zones, Z, z)]
  BY <1>3
<1> DEFINE p == [z \in Z |-> PaidFor(left, zones, Z, z)]
<1>6. p = [z \in Z |-> p[z]]
  OBVIOUS
<1> HIDE DEF p
<1>7. SumFunction(p) = SumOver(p, Z)
  BY <1>6 DEF SumOver
<1> QED BY <1>1, <1>4, <1>5, <1>7 DEF p

LEMMA PaidForIs ==
    ASSUME NEW left \in Nat, NEW Z, IsFiniteSet(Z), NEW zones, Amounts(zones, Z), NEW z \in Z
    PROVE  LET before == SumOver(zones, Dearer(z, Z))
           IN /\ before \in Int /\ before >= 0
              /\ PaidFor(left, zones, Z, z) = IF left <= before THEN 0
                                              ELSE IF zones[z] <= left - before THEN zones[z]
                                              ELSE left - before
<1>1. PICK D : D = Dearer(z, Z)
  OBVIOUS
<1>2. IsFiniteSet(D) /\ \A y \in D : zones[y] \in Int /\ zones[y] >= 0
  <2>1. D \subseteq Z
    BY <1>1 DEF Dearer
  <2>2. IsFiniteSet(D)
    BY <2>1, FS_Subset
  <2>3. \A y \in D : zones[y] \in Nat
    BY <2>1 DEF Amounts
  <2> QED BY <2>2, <2>3
<1>3. PICK before \in Int : before = SumOver(zones, D) /\ before >= 0
  BY <1>2, SumIsNumber, SumIsPositive
<1>4. PICK a \in Nat : a = zones[z]
  BY DEF Amounts
<1>5. PICK b \in Int : b = left - before
  OBVIOUS
<1>6. PaidFor(left, zones, Z, z) = Min({a, Max({0, b})})
  BY <1>1, <1>3, <1>4, <1>5 DEF PaidFor
<1>7. PaidFor(left, zones, Z, z) = IF b <= 0 THEN 0 ELSE IF a <= b THEN a ELSE b
  BY <1>6, LesserAndGreater
<1> QED BY <1>1, <1>3, <1>4, <1>5, <1>7

\* What dearer zones take is part of what a cheaper zone finds taken.
LEMMA DearerIsLess ==
    ASSUME NEW Z, IsFiniteSet(Z), Z \subseteq Int, NEW zones, Amounts(zones, Z), NEW y \in Z, NEW S,
           S \subseteq Z, y \in S, \A x \in Z : x < y => x \in S
    PROVE  SumOver(zones, Dearer(y, Z)) + zones[y] <= SumOver(zones, S)
<1>1. PICK D, R : D = Dearer(y, Z) /\ R = S \ (D \cup {y})
  OBVIOUS
<1>2. D \subseteq S /\ y \notin D /\ R \subseteq S /\ y \notin R /\ S = (D \cup {y}) \cup R
      /\ (D \cup {y}) \cap R = {}
  <2>1. D = {x \in Z : x < y} /\ y \in Int
    BY <1>1 DEF Dearer
  <2>2. ~(y < y)
    BY <2>1
  <2>3. D \subseteq S /\ y \notin D
    BY <2>1, <2>2
  <2> QED BY <1>1, <2>3
<1>3. IsFiniteSet(S) /\ IsFiniteSet(D) /\ IsFiniteSet(R) /\ IsFiniteSet(D \cup {y})
  <2>1. IsFiniteSet(S)
    BY FS_Subset
  <2> QED BY <1>2, <2>1, FS_Subset, FS_AddElement
<1>4. \A x \in S : zones[x] \in Int /\ zones[x] >= 0
  BY DEF Amounts
<1>5. \A x \in R : zones[x] \in Int /\ zones[x] >= 0
  BY <1>2, <1>4
<1>6. SumOver(zones, R) \in Int /\ SumOver(zones, R) >= 0
  BY <1>3, <1>5, SumIsNumber, SumIsPositive
<1>7. SumOver(zones, D \cup {y}) = SumOver(zones, D) + zones[y] /\ SumOver(zones, D) \in Int
  <2>1. Numbers(zones, D \cup {y})
    BY <1>2, <1>4 DEF Numbers
  <2> QED BY <1>2, <1>3, <2>1, SumStep
<1>8. SumOver(zones, (D \cup {y}) \cup R) = SumOver(zones, D \cup {y}) + SumOver(zones, R)
  <2>1. \A x \in (D \cup {y}) \cup R : zones[x] \in Int
    BY <1>2, <1>4
  <2> QED BY <1>2, <1>3, <2>1, SumOfUnion
<1>9. zones[y] \in Int
  BY <1>2, <1>4
<1>10. SumOver(zones, S) = SumOver(zones, D \cup {y}) + SumOver(zones, R)
  BY <1>2, <1>8, Zenon
<1>11. PICK d \in Int : d = SumOver(zones, D)
  BY <1>7
<1>12. d + zones[y] <= SumOver(zones, S)
  BY <1>6, <1>7, <1>9, <1>10, <1>11
<1> QED BY <1>1, <1>11, <1>12

\* Together the zones get what there is, or all they need.
LEMMA PaidInAll ==
    ASSUME NEW left \in Nat, NEW Z, IsFiniteSet(Z), Z \subseteq Int, NEW zones, Amounts(zones, Z),
           NEW p, \A z \in Z : p[z] = PaidFor(left, zones, Z, z)
    PROVE  SumOver(p, Z) = IF left <= SumOver(zones, Z) THEN left ELSE SumOver(zones, Z)
<1> DEFINE Closed(S) == \A x \in S, y \in Z : y < x => y \in S
           Right(S) == SumOver(p, S) = IF left <= SumOver(zones, S) THEN left ELSE SumOver(zones, S)
           C == {S \in SUBSET Z : Closed(S) => Right(S)}
<1>1. ASSUME NEW S \in SUBSET Z, \A U \in SUBSET S : U # S => U \in C PROVE S \in C
  <2> SUFFICES ASSUME Closed(S) PROVE Right(S)
    OBVIOUS
  <2>1. CASE S = {}
    <3>1. SumOver(p, S) = 0 /\ SumOver(zones, S) = 0
      BY <2>1, SumOfNone
    <3> QED BY <3>1
  <2>2. CASE S # {}
    <3>1. IsFiniteSet(S)
      BY FS_Subset
    <3>2. PICK m \in S : \A x \in S : x <= m
      BY <2>2, <3>1, GreatestExists
    <3>3. PICK U : U = S \ {m}
      OBVIOUS
    <3>4. U \in SUBSET S /\ U # S /\ U \cup {m} = S /\ m \notin U /\ IsFiniteSet(U) /\ m \in Z
      BY <3>1, <3>2, <3>3, FS_Subset
    <3>5. U = Dearer(m, Z)
      <4> SUFFICES ASSUME NEW x \in Z PROVE x \in U <=> x < m
        BY <3>4 DEF Dearer
      <4>1. x \in Int /\ m \in Int
        BY <3>4
      <4>2. x < m => x \in S
        BY <3>2
      <4>3. x \in S => x <= m
        BY <3>2
      <4> QED BY <3>3, <4>1, <4>2, <4>3
    <3>6. Closed(U)
      BY <3>5 DEF Dearer
    <3>7. U \in C
      BY <1>1, <3>4
    <3>8. Right(U)
      BY <3>6, <3>7
    <3>9. PICK b \in Int : /\ b = SumOver(zones, U) /\ b >= 0
                           /\ p[m] = IF left <= b THEN 0 ELSE IF zones[m] <= left - b THEN zones[m]
                                                              ELSE left - b
      BY <3>4, <3>5, PaidForIs
    <3>10. \A x \in Z : zones[x] \in Nat
      BY DEF Amounts
    <3>11. SumOver(zones, S) = b + zones[m]
      <4>1. Numbers(zones, U \cup {m})
        BY <3>4, <3>10 DEF Numbers
      <4>2. SumOver(zones, U \cup {m}) = SumOver(zones, U) + zones[m]
        <5>1. IsFiniteSet(U) /\ m \notin U
          BY <3>4
        <5> HIDE DEF C, Right, Closed
        <5> QED BY <4>1, <5>1, SumStep
      <4>3. U \cup {m} = S
        BY <3>4
      <4>4. SumOver(zones, S) = SumOver(zones, U) + zones[m]
        BY <4>2, <4>3, Zenon
      <4> QED BY <3>9, <4>4
    <3>12. SumOver(p, S) = SumOver(p, U) + p[m]
      <4>1. \A x \in U \cup {m} : p[x] \in Int
        <5> SUFFICES ASSUME NEW x \in U \cup {m} PROVE p[x] \in Int
          OBVIOUS
        <5>1. x \in Z /\ zones[x] \in Int
          BY <3>4, <3>10
        <5>2. p[x] = PaidFor(left, zones, Z, x)
          BY <5>1
        <5>3. PICK c \in Int : c = SumOver(zones, Dearer(x, Z))
                               /\ PaidFor(left, zones, Z, x) = IF left <= c THEN 0
                                      ELSE IF zones[x] <= left - c THEN zones[x] ELSE left - c
          BY <5>1, PaidForIs
        <5> QED BY <5>1, <5>2, <5>3
      <4>2. Numbers(p, U \cup {m})
        BY <4>1 DEF Numbers
      <4>3. SumOver(p, U \cup {m}) = SumOver(p, U) + p[m]
        BY <3>4, <4>2, SumStep
      <4> QED BY <3>4, <4>3, Zenon
    <3>13. SumOver(p, U) = IF left <= b THEN left ELSE b
      BY <3>8, <3>9
    <3>14. PICK n \in Nat : n = zones[m]
      BY <3>4, <3>10
    <3> QED BY <3>9, <3>11, <3>12, <3>13, <3>14
  <2> QED BY <2>1, <2>2
<1>2. Z \in C
  <2>1. \A S \in SUBSET Z : S \in C
    <3> HIDE DEF C
    <3> QED BY <1>1, InductByPart
  <2> QED BY <2>1
<1>3. Closed(Z)
  OBVIOUS
<1> QED BY <1>2, <1>3

Covered(left, zones, Z, c) ==
    /\ c.left \in Nat /\ c.left <= left /\ DOMAIN c.zones = Z
    /\ Amounts(c.zones, Z) /\ Within(c.zones, zones, Z) /\ PaidFirst(zones, c.zones, Z)
    /\ c.left = IF left <= SumOver(zones, Z) THEN 0 ELSE left - SumOver(zones, Z)
    /\ SumOver(c.zones, Z) = SumOver(zones, Z) - (left - c.left)
    /\ c.left > 0 => AllZero(c.zones, Z)

LEMMA CoverCovers ==
    ASSUME NEW left \in Nat, NEW Z, IsFiniteSet(Z), Z \subseteq Int,
           NEW zones, Z = DOMAIN zones, Amounts(zones, Z), NEW c, c = CoverZones(left, zones)
    PROVE  Covered(left, zones, Z, c)
<1> DEFINE p == [z \in Z |-> PaidFor(left, zones, Z, z)]
           before(z) == SumOver(zones, Dearer(z, Z))
<1>1. c.left = left - SumOver(p, Z) /\ c.zones = [z \in Z |-> zones[z] - p[z]]
  <2>1. c = [left |-> left - SumOver([z \in Z |-> PaidFor(left, zones, Z, z)], Z),
             zones |-> [z \in Z |-> zones[z] - PaidFor(left, zones, Z, z)]]
    BY CoverIs
  <2>2. [z \in Z |-> zones[z] - PaidFor(left, zones, Z, z)] = [z \in Z |-> zones[z] - p[z]]
    OBVIOUS
  <2>3. c = [left |-> left - SumOver(p, Z), zones |-> [z \in Z |-> zones[z] - PaidFor(left, zones, Z, z)]]
    BY <2>1
  <2> HIDE DEF p
  <2> QED BY <2>2, <2>3
<1>2. \A z \in Z : p[z] = PaidFor(left, zones, Z, z)
  OBVIOUS
<1> HIDE DEF p
<1>3. PICK a \in Int : a = SumOver(zones, Z) /\ a >= 0
  <2>1. \A z \in Z : zones[z] \in Int /\ zones[z] >= 0
    BY DEF Amounts
  <2> QED BY <2>1, SumIsNumber, SumIsPositive
<1>4. SumOver(p, Z) = IF left <= a THEN left ELSE a
  <2>1. SumOver(p, Z) = IF left <= SumOver(zones, Z) THEN left ELSE SumOver(zones, Z)
    BY <1>2, PaidInAll
  <2> QED BY <1>3, <2>1
<1>5. c.left \in Nat /\ c.left <= left /\ c.left = IF left <= a THEN 0 ELSE left - a
  BY <1>1, <1>3, <1>4
<1>6. \A z \in Z : /\ zones[z] \in Nat /\ before(z) \in Int /\ before(z) >= 0 /\ before(z) + zones[z] <= a
                   /\ p[z] = IF left <= before(z) THEN 0 ELSE IF zones[z] <= left - before(z)
                             THEN zones[z] ELSE left - before(z)
  <2> SUFFICES ASSUME NEW z \in Z
               PROVE  /\ zones[z] \in Nat /\ before(z) \in Int /\ before(z) >= 0 /\ before(z) + zones[z] <= a
                      /\ p[z] = IF left <= before(z) THEN 0 ELSE IF zones[z] <= left - before(z)
                                THEN zones[z] ELSE left - before(z)
    OBVIOUS
  <2>1. zones[z] \in Nat
    BY DEF Amounts
  <2>2. before(z) + zones[z] <= SumOver(zones, Z)
    BY DearerIsLess
  <2>3. PaidFor(left, zones, Z, z) = p[z]
    BY <1>2
  <2> QED BY <1>3, <2>1, <2>2, <2>3, PaidForIs
<1>7. \A y, z \in Z : y < z => before(y) + zones[y] <= before(z)
  <2> SUFFICES ASSUME NEW y \in Z, NEW z \in Z, y < z PROVE before(y) + zones[y] <= before(z)
    OBVIOUS
  <2>1. PICK S : S = Dearer(z, Z)
    OBVIOUS
  <2>2. S \subseteq Z /\ y \in S
    BY <2>1 DEF Dearer
  <2>3. \A x \in Z : x < y => x \in S
    <3> SUFFICES ASSUME NEW x \in Z, x < y PROVE x < z
      BY <2>1 DEF Dearer
    <3> QED BY Z \subseteq Int
  <2>4. SumOver(zones, Dearer(y, Z)) + zones[y] <= SumOver(zones, S)
    BY <2>2, <2>3, DearerIsLess
  <2> QED BY <2>1, <2>4
<1> HIDE DEF before
<1>8. \A z \in Z : /\ p[z] \in Nat /\ p[z] <= zones[z]
                   /\ (p[z] > 0 => left > before(z))
                   /\ (left >= before(z) + zones[z] => p[z] = zones[z])
  <2> SUFFICES ASSUME NEW z \in Z
               PROVE  /\ p[z] \in Nat /\ p[z] <= zones[z]
                      /\ (p[z] > 0 => left > before(z))
                      /\ (left >= before(z) + zones[z] => p[z] = zones[z])
    OBVIOUS
  <2>1. PICK n \in Nat, b \in Int : n = zones[z] /\ b = before(z) /\ b >= 0
    BY <1>6
  <2>2. p[z] = IF left <= b THEN 0 ELSE IF n <= left - b THEN n ELSE left - b
    BY <1>6, <2>1
  <2> QED BY <2>1, <2>2
<1>9. \A z \in Z : c.zones[z] \in Nat /\ c.zones[z] = zones[z] - p[z] /\ c.zones[z] <= zones[z]
  <2> SUFFICES ASSUME NEW z \in Z
               PROVE  c.zones[z] \in Nat /\ c.zones[z] = zones[z] - p[z] /\ c.zones[z] <= zones[z]
    OBVIOUS
  <2> QED BY <1>1, <1>6, <1>8
<1>10. DOMAIN c.zones = Z
  BY <1>1
<1>11. PaidFirst(zones, c.zones, Z)
  <2> SUFFICES ASSUME NEW y \in Z, NEW z \in Z, y < z, c.zones[z] < zones[z] PROVE c.zones[y] = 0
    BY DEF PaidFirst
  <2>1. p[z] > 0
    BY <1>6, <1>8, <1>9
  <2>2. left > before(z) /\ before(y) + zones[y] <= before(z)
    BY <1>7, <1>8, <2>1
  <2>3. left >= before(y) + zones[y]
    BY <1>6, <2>2
  <2> QED BY <1>6, <1>8, <1>9, <2>3
<1>12. c.left > 0 => AllZero(c.zones, Z)
  <2> SUFFICES ASSUME c.left > 0, NEW z \in Z PROVE c.zones[z] = 0
    BY DEF AllZero
  <2>1. left > a /\ before(z) + zones[z] <= a
    BY <1>3, <1>5, <1>6
  <2>2. left >= before(z) + zones[z]
    BY <1>3, <1>6, <2>1
  <2> QED BY <1>6, <1>8, <1>9, <2>2
<1>13. SumOver(c.zones, Z) = SumOver(zones, Z) - (left - c.left)
  <2> DEFINE r == [z \in Z |-> zones[z] - p[z]]
  <2>1. \A z \in Z : r[z] \in Int /\ p[z] \in Int /\ zones[z] = r[z] + p[z] /\ r[z] = c.zones[z]
    BY <1>6, <1>8, <1>9
  <2> HIDE DEF r
  <2>2. SumOver(zones, Z) = SumOver(r, Z) + SumOver(p, Z)
    BY <2>1, SumOfTwo
  <2>3. SumOver(r, Z) \in Int /\ SumOver(r, Z) = SumOver(c.zones, Z)
    BY <2>1, SumIsNumber, SumOfSame
  <2> QED BY <1>1, <1>3, <1>4, <2>2, <2>3
<1> QED BY <1>3, <1>5, <1>9, <1>10, <1>11, <1>12, <1>13 DEF Covered, Amounts, Within

\* What was paid in two goes went to the dearer zones first, if each did.
LEMMA PaidFirstAgain ==
    ASSUME NEW Z, NEW full, NEW zones, NEW left, Amounts(full, Z), Amounts(zones, Z), Amounts(left, Z),
           Within(zones, full, Z), Within(left, zones, Z),
           PaidFirst(full, zones, Z), PaidFirst(zones, left, Z)
    PROVE  PaidFirst(full, left, Z) /\ Within(left, full, Z)
<1>1. \A z \in Z : full[z] \in Nat /\ zones[z] \in Nat /\ left[z] \in Nat /\ zones[z] <= full[z]
                   /\ left[z] <= zones[z]
  BY DEF Amounts, Within
<1>2. Within(left, full, Z)
  BY <1>1 DEF Within
<1>3. ASSUME NEW y \in Z, NEW z \in Z, y < z, left[z] < full[z] PROVE left[y] = 0
  <2>1. CASE left[z] < zones[z]
    BY <1>3, <2>1 DEF PaidFirst
  <2>2. CASE ~(left[z] < zones[z])
    <3>1. zones[z] < full[z]
      BY <1>1, <1>3, <2>2
    <3>2. zones[y] = 0
      BY <1>3, <3>1 DEF PaidFirst
    <3> QED BY <1>1, <3>2
  <2> QED BY <2>1, <2>2
<1> QED BY <1>2, <1>3 DEF PaidFirst

----------------------------------------------------------------------------
(* The credits of the store pay one after the other.                       *)

\* What one credit does (the step of TakeCredits).
NothingTaken(zones) == [zones |-> zones, store |-> << >>, paid |-> {}]
TakeCredit(p, acc) ==
    LET covered == CoverZones(p.kwh, acc.zones)
    IN [zones |-> covered.zones,
        store |-> IF covered.left > 0 THEN Append(acc.store, [p EXCEPT !.kwh = covered.left])
                  ELSE acc.store,
        paid |-> acc.paid \cup {[from |-> p.cycle, kwh |-> p.kwh - covered.left]}]
TakeSteps(F, credits, zones, D) ==
    [s \in SUBSET D |-> IF s = {} THEN NothingTaken(zones)
                        ELSE TakeCredit(credits[Max(s)], F[s \ {Max(s)}])]

LEMMA TakeStepsExist ==
    ASSUME NEW credits, NEW zones, NEW D, IsFiniteSet(D), D \subseteq Int
    PROVE  \E F : F = TakeSteps(F, credits, zones, D)
<1> DEFINE Value(F, s) == IF s = {} THEN NothingTaken(zones)
                          ELSE TakeCredit(credits[Max(s)], F[s \ {Max(s)}])
           Small(n) == {s \in SUBSET D : Cardinality(s) <= n}
           Good(F, n) == F = [s \in SUBSET D |-> F[s]] /\ \A s \in Small(n) : F[s] = Value(F, s)
           N == {n \in Nat : \E F : Good(F, n)}
<1>1. ASSUME NEW s \in SUBSET D
      PROVE  /\ IsFiniteSet(s) /\ Cardinality(s) \in Nat /\ Cardinality(s) <= Cardinality(D)
             /\ s = {} <=> Cardinality(s) = 0
             /\ s # {} => /\ s \ {Max(s)} \in SUBSET D
                          /\ Cardinality(s \ {Max(s)}) = Cardinality(s) - 1
  <2>1. IsFiniteSet(s) /\ Cardinality(s) \in Nat /\ Cardinality(s) <= Cardinality(D)
    BY FS_Subset, FS_CardinalityType
  <2>2. s = {} <=> Cardinality(s) = 0
    BY <2>1, FS_EmptySet
  <2>3. s # {} => Max(s) \in s
    BY <2>1, GreatestExists
  <2>4. s # {} => Cardinality(s \ {Max(s)}) = Cardinality(s) - 1
    BY <2>1, <2>3, FS_RemoveElement
  <2> QED BY <2>1, <2>2, <2>4
<1>2. 0 \in N
  <2> DEFINE F == [s \in SUBSET D |-> NothingTaken(zones)]
  <2>1. F = [s \in SUBSET D |-> F[s]]
    OBVIOUS
  <2>2. \A s \in Small(0) : s = {}
    <3> SUFFICES ASSUME NEW s \in Small(0) PROVE s = {}
      OBVIOUS
    <3>1. s \in SUBSET D /\ Cardinality(s) <= 0
      OBVIOUS
    <3>2. Cardinality(s) \in Nat /\ (Cardinality(s) = 0 => s = {})
      BY <1>1, <3>1
    <3> QED BY <3>1, <3>2
  <2>3. \A s \in Small(0) : F[s] = Value(F, s)
    BY <2>2
  <2>4. Good(F, 0)
    <3> HIDE DEF F, Small, Value
    <3> QED BY <2>1, <2>3
  <2> HIDE DEF Good
  <2> QED BY <2>4
<1>3. ASSUME NEW n \in Nat, n \in N PROVE n + 1 \in N
  <2>1. PICK F : Good(F, n)
    BY <1>3
  <2> DEFINE G == [s \in SUBSET D |-> IF Cardinality(s) <= n THEN F[s] ELSE Value(F, s)]
  <2>2. ASSUME NEW s \in Small(n + 1) PROVE G[s] = Value(G, s)
    <3>1. s \in SUBSET D /\ Cardinality(s) <= n + 1
      OBVIOUS
    <3>2. G[s] = Value(F, s)
      BY <2>1, <3>1
    <3>3. ASSUME s # {} PROVE G[s \ {Max(s)}] = F[s \ {Max(s)}]
      <4>1. s \ {Max(s)} \in SUBSET D /\ Cardinality(s) \in Nat
            /\ Cardinality(s \ {Max(s)}) = Cardinality(s) - 1
        BY <1>1, <3>1, <3>3
      <4> QED BY <3>1, <4>1
    <3> HIDE DEF G
    <3> QED BY <3>2, <3>3
  <2>3. G = [s \in SUBSET D |-> G[s]]
    OBVIOUS
  <2>4. Good(G, n + 1)
    <3> HIDE DEF G, Small, Value
    <3> QED BY <2>2, <2>3
  <2> HIDE DEF Good
  <2> QED BY <2>4
<1>4. \A n \in Nat : n \in N
  <2> HIDE DEF N
  <2> QED BY <1>2, <1>3, Induct
<1>5. D \in SUBSET D
  OBVIOUS
<1>6. Cardinality(D) \in Nat
  BY <1>1, <1>5
<1>7. PICK F : Good(F, Cardinality(D))
  <2>1. Cardinality(D) \in N
    BY <1>4, <1>6
  <2> QED BY <2>1
<1>8. \A s \in SUBSET D : F[s] = Value(F, s)
  BY <1>1, <1>7
<1>9. F = [s \in SUBSET D |-> Value(F, s)]
  <2> HIDE DEF Value
  <2> QED BY <1>7, <1>8
<1> QED BY <1>9 DEF TakeSteps

\* The work after each credit, in their order.
InTurn(A, credits, zones) ==
    /\ A[0] = NothingTaken(zones)
    /\ \A n \in Nat : n + 1 <= Len(credits) => A[n + 1] = TakeCredit(credits[n + 1], A[n])

LEMMA CreditsAreTakenInTurn ==
    ASSUME NEW S, NEW credits \in Seq(S), NEW zones
    PROVE  \E A : InTurn(A, credits, zones) /\ TakeCredits(credits, zones) = A[Len(credits)]
<1> DEFINE D == DOMAIN credits
           G == CHOOSE F : F = TakeSteps(F, credits, zones, D)
           A == [n \in Nat |-> G[1..n]]
<1>1. TakeCredits(credits, zones) = G[D]
  BY DEF TakeCredits, FoldLeft, MapThenFoldSet, TakeSteps, TakeCredit, NothingTaken
<1>2. D = 1..Len(credits) /\ Len(credits) \in Nat /\ IsFiniteSet(D) /\ D \subseteq Int
  <2>1. D = 1..Len(credits) /\ Len(credits) \in Nat
    OBVIOUS
  <2>2. IsFiniteSet(1..Len(credits))
    BY <2>1, FS_Interval
  <2>3. D \subseteq Int
    BY <2>1
  <2> QED BY <2>1, <2>2, <2>3
<1>3. \E F : F = TakeSteps(F, credits, zones, D)
  BY <1>2, TakeStepsExist
<1>4. G = TakeSteps(G, credits, zones, D)
  BY <1>3
<1> HIDE DEF G
<1>5. A[0] = NothingTaken(zones)
  <2>1. 1..0 = {} /\ {} \in SUBSET D
    OBVIOUS
  <2>2. G[{}] = NothingTaken(zones)
    BY <1>4, <2>1 DEF TakeSteps
  <2> QED BY <2>1, <2>2
<1>6. ASSUME NEW n \in Nat, n + 1 <= Len(credits)
      PROVE  A[n + 1] = TakeCredit(credits[n + 1], A[n])
  <2>1. PICK s : s = 1..(n + 1)
    OBVIOUS
  <2>2. s \in SUBSET D /\ s # {} /\ n + 1 \in s
    <3>1. n + 1 \in s
      BY <2>1
    <3>2. \A x \in s : x \in 1..Len(credits)
      <4>1. Len(credits) \in Int
        BY <1>2
      <4> QED BY <1>6, <2>1, <4>1
    <3>3. s \subseteq 1..Len(credits)
      BY <3>2
    <3>4. D = 1..Len(credits)
      BY <1>2
    <3> HIDE DEF D
    <3> QED BY <3>1, <3>3, <3>4
  <2>3. Max(s) = n + 1
    <3>1. s \subseteq Int /\ \A x \in s : x <= n + 1
      BY <2>1
    <3> QED BY <2>2, <3>1, MaxIs
  <2>4. s \ {n + 1} = 1..n
    BY <2>1
  <2>5. G[s] = TakeCredit(credits[Max(s)], G[s \ {Max(s)}])
    BY <1>4, <2>2 DEF TakeSteps
  <2>6. G[s] = TakeCredit(credits[n + 1], G[1..n])
    BY <2>3, <2>4, <2>5, Zenon
  <2>7. A[n + 1] = G[s] /\ A[n] = G[1..n]
    BY <2>1
  <2> QED BY <2>6, <2>7
<1>7. TakeCredits(credits, zones) = A[Len(credits)]
  <2>1. A[Len(credits)] = G[1..Len(credits)]
    BY <1>2
  <2>2. D = 1..Len(credits)
    BY <1>2
  <2> HIDE DEF D, A
  <2> QED BY <1>1, <2>1, <2>2, Zenon
<1> HIDE DEF A
<1> QED BY <1>5, <1>6, <1>7 DEF InTurn

StoredCredit == [kwh : Nat \ {0}, cycle : Int]

\* What credits pay in a cycle: the first m all they have, the next one less, others nothing.
Payments(credits, n, m, pay) ==
    /\ m \in 0..n /\ pay \in [1..n -> Nat]
    /\ \A i \in 1..n : /\ i <= m => pay[i] = credits[i].kwh
                       /\ i = m + 1 => pay[i] < credits[i].kwh
                       /\ i > m + 1 => pay[i] = 0
LeftOf(credits, pay, i) == [kwh |-> credits[i].kwh - pay[i], cycle |-> credits[i].cycle]
Rest(credits, n, m, pay, s) ==
    /\ s \in Seq(StoredCredit) /\ Len(s) = n - m
    /\ \A k \in 1..(n - m) : s[k] = LeftOf(credits, pay, m + k)
ZonesAfter(zones, Z, left, amount) ==
    /\ DOMAIN left = Z /\ Amounts(left, Z) /\ Within(left, zones, Z) /\ PaidFirst(zones, left, Z)
    /\ SumOver(left, Z) = SumOver(zones, Z) - amount
PaidBy(credits, pay, i) == [from |-> credits[i].cycle, kwh |-> pay[i]]
Took(credits, zones, Z, n, acc, m, pay) ==
    /\ Payments(credits, n, m, pay)
    /\ Rest(credits, n, m, pay, acc.store)
    /\ ZonesAfter(zones, Z, acc.zones, SumOver(pay, 1..n))
    /\ m < n => AllZero(acc.zones, Z)
    /\ acc.paid = {PaidBy(credits, pay, i) : i \in 1..n}

LEMMA TookNothing ==
    ASSUME NEW credits, NEW zones, NEW Z, Z = DOMAIN zones, IsFiniteSet(Z), Amounts(zones, Z)
    PROVE  Took(credits, zones, Z, 0, NothingTaken(zones), 0, << >>)
<1>1. 1..0 = {} /\ 0 - 0 = 0
  OBVIOUS
<1>2. SumOver(<< >>, 1..0) = 0
  BY <1>1, SumOfNone
<1>3. SumOver(zones, Z) \in Int
  <2>1. \A z \in Z : zones[z] \in Int
    BY DEF Amounts
  <2> QED BY <2>1, SumIsNumber
<1>4. ZonesAfter(zones, Z, zones, 0)
  BY <1>3 DEF ZonesAfter, Within, PaidFirst, Amounts
<1>5. Payments(credits, 0, 0, << >>) /\ Rest(credits, 0, 0, << >>, << >>)
  BY <1>1 DEF Payments, Rest
<1> QED BY <1>1, <1>2, <1>4, <1>5 DEF Took, NothingTaken

LEMMA TookOneMore ==
    ASSUME NEW credits \in Seq(StoredCredit), NEW zones, NEW Z, IsFiniteSet(Z), Z \subseteq Int, Amounts(zones, Z),
           NEW n \in Nat, n + 1 <= Len(credits), NEW acc, NEW m, NEW pay,
           Took(credits, zones, Z, n, acc, m, pay), NEW next, next = TakeCredit(credits[n + 1], acc)
    PROVE  \E k, q : Took(credits, zones, Z, n + 1, next, k, q)
<1>1. PICK p \in StoredCredit : p = credits[n + 1]
  OBVIOUS
<1>2. p.kwh \in Nat /\ p.kwh > 0 /\ p.cycle \in Int
  BY DEF StoredCredit
<1>3. PICK c : c = CoverZones(p.kwh, acc.zones)
  OBVIOUS
<1>4. DOMAIN acc.zones = Z /\ Amounts(acc.zones, Z) /\ Within(acc.zones, zones, Z)
      /\ PaidFirst(zones, acc.zones, Z) /\ m \in Int /\ 0 <= m /\ m <= n /\ pay \in [1..n -> Nat]
      /\ acc.store \in Seq(StoredCredit) /\ Len(acc.store) = n - m
  BY DEF Took, ZonesAfter, Rest, Payments
<1>5. Covered(p.kwh, acc.zones, Z, c)
  BY <1>2, <1>3, <1>4, CoverCovers
<1>6. PICK x \in Nat : x = p.kwh - c.left
  BY <1>2, <1>5 DEF Covered
<1> DEFINE k == IF c.left = 0 THEN n + 1 ELSE m
           q == [i \in 1..(n + 1) |-> IF i = n + 1 THEN x ELSE pay[i]]
<1>7. /\ next.zones = c.zones
      /\ next.store = IF c.left > 0 THEN Append(acc.store, [p EXCEPT !.kwh = c.left]) ELSE acc.store
      /\ next.paid = acc.paid \cup {[from |-> p.cycle, kwh |-> x]}
  BY <1>1, <1>3, <1>6 DEF TakeCredit
<1>8. c.left \in Nat /\ c.left <= p.kwh
  BY <1>5 DEF Covered
<1>9. m < n => c.left = p.kwh /\ x = 0
  <2> SUFFICES ASSUME m < n PROVE c.left = p.kwh /\ x = 0
    OBVIOUS
  <2>1. SumOver(acc.zones, Z) = 0
    <3>1. \A z \in Z : acc.zones[z] = 0
      BY DEF Took, AllZero
    <3> QED BY <3>1, SumOfZeros
  <2>2. c.left = IF p.kwh <= SumOver(acc.zones, Z) THEN 0 ELSE p.kwh - SumOver(acc.zones, Z)
    BY <1>5 DEF Covered
  <2> QED BY <1>2, <1>6, <2>1, <2>2
<1>10. c.left = 0 => m = n
  BY <1>2, <1>4, <1>9
<1>11. q \in [1..(n + 1) -> Nat] /\ q[n + 1] = x /\ \A i \in 1..n : q[i] = pay[i]
  <2>1. \A i \in 1..(n + 1) : i # n + 1 => i \in 1..n
    OBVIOUS
  <2>2. n + 1 \in 1..(n + 1)
    OBVIOUS
  <2> QED BY <1>4, <2>1, <2>2
<1> HIDE DEF q
<1>12. \A i \in 1..(n + 1) : i = n + 1 \/ i \in 1..n
  OBVIOUS
<1>13. Payments(credits, n + 1, k, q)
  <2>1. k \in 0..(n + 1)
    BY <1>4
  <2>2. ASSUME NEW i \in 1..(n + 1)
        PROVE  /\ i <= k => q[i] = credits[i].kwh
               /\ i = k + 1 => q[i] < credits[i].kwh
               /\ i > k + 1 => q[i] = 0
    <3>1. CASE i = n + 1
      <4>1. credits[i].kwh = p.kwh /\ q[i] = x
        BY <1>1, <1>11, <3>1
      <4>2. CASE c.left = 0
        BY <1>2, <1>6, <3>1, <4>1, <4>2
      <4>3. CASE c.left # 0
        <5>1. k = m /\ i > k /\ x < p.kwh
          BY <1>2, <1>4, <1>6, <1>8, <3>1, <4>3
        <5> QED BY <1>4, <1>9, <3>1, <4>1, <5>1
      <4> QED BY <4>2, <4>3
    <3>2. CASE i \in 1..n
      <4>1. q[i] = pay[i]
        BY <1>11, <3>2
      <4>2. /\ i <= m => pay[i] = credits[i].kwh
            /\ i = m + 1 => pay[i] < credits[i].kwh
            /\ i > m + 1 => pay[i] = 0
        BY <3>2 DEF Took, Payments
      <4>3. CASE c.left = 0
        BY <1>4, <1>10, <3>2, <4>1, <4>2, <4>3
      <4>4. CASE c.left # 0
        BY <4>1, <4>2, <4>4
      <4> QED BY <4>3, <4>4
    <3> QED BY <1>12, <3>1, <3>2
  <2> HIDE DEF k
  <2> QED BY <1>11, <2>1, <2>2 DEF Payments
<1>14. Rest(credits, n + 1, k, q, next.store)
  <2>1. CASE c.left = 0
    <3>1. k = n + 1 /\ m = n /\ next.store = acc.store /\ Len(acc.store) = 0
      BY <1>4, <1>7, <1>10, <2>1
    <3>2. (n + 1) - k = 0 /\ 1..0 = {}
      BY <3>1
    <3> HIDE DEF k
    <3> QED BY <1>4, <3>1, <3>2 DEF Rest
  <2>2. CASE c.left # 0
    <3>1. PICK r : r = [p EXCEPT !.kwh = c.left]
      OBVIOUS
    <3>2. r = [kwh |-> c.left, cycle |-> p.cycle] /\ r \in StoredCredit
      BY <1>2, <1>8, <2>2, <3>1 DEF StoredCredit
    <3>3. next.store = Append(acc.store, r) /\ k = m
      BY <1>7, <1>8, <2>2, <3>1
    <3>4. /\ next.store \in Seq(StoredCredit) /\ Len(next.store) = (n + 1) - m
          /\ next.store[(n + 1) - m] = r
          /\ \A j \in 1..(n - m) : next.store[j] = acc.store[j]
      <4>1. Append(acc.store, r) \in Seq(StoredCredit) /\ Len(Append(acc.store, r)) = Len(acc.store) + 1
        BY <1>4, <3>2
      <4>2. Append(acc.store, r)[Len(acc.store) + 1] = r
            /\ \A j \in 1..Len(acc.store) : Append(acc.store, r)[j] = acc.store[j]
        BY <1>4
      <4>3. (n - m) + 1 = (n + 1) - m
        BY <1>4
      <4> QED BY <1>4, <3>3, <4>1, <4>2, <4>3
    <3>5. ASSUME NEW j \in 1..((n + 1) - m) PROVE next.store[j] = LeftOf(credits, q, m + j)
      <4>1. CASE j = (n + 1) - m
        <5>1. m + j = n + 1
          BY <1>4, <4>1
        <5>2. LeftOf(credits, q, m + j) = [kwh |-> p.kwh - x, cycle |-> p.cycle]
          BY <1>1, <1>11, <5>1 DEF LeftOf
        <5>3. p.kwh - x = c.left
          BY <1>2, <1>6, <1>8
        <5> QED BY <3>2, <3>4, <4>1, <5>2, <5>3
      <4>2. CASE j # (n + 1) - m
        <5>1. j \in 1..(n - m) /\ m + j \in 1..n
          BY <1>4, <4>2
        <5>2. acc.store[j] = LeftOf(credits, pay, m + j)
          BY <5>1 DEF Took, Rest
        <5>3. LeftOf(credits, pay, m + j) = LeftOf(credits, q, m + j)
          BY <1>11, <5>1 DEF LeftOf
        <5> QED BY <3>4, <5>1, <5>2, <5>3
      <4> QED BY <4>1, <4>2
    <3> HIDE DEF k
    <3> QED BY <3>3, <3>4, <3>5 DEF Rest
  <2> QED BY <2>1, <2>2
<1>15. ZonesAfter(zones, Z, next.zones, SumOver(q, 1..(n + 1)))
  <2>1. /\ DOMAIN c.zones = Z /\ Amounts(c.zones, Z) /\ Within(c.zones, acc.zones, Z)
        /\ PaidFirst(acc.zones, c.zones, Z) /\ SumOver(c.zones, Z) = SumOver(acc.zones, Z) - (p.kwh - c.left)
    BY <1>5 DEF Covered
  <2>2. PaidFirst(zones, c.zones, Z) /\ Within(c.zones, zones, Z)
    BY <1>4, <2>1, PaidFirstAgain
  <2>3. SumOver(q, 1..(n + 1)) = SumOver(pay, 1..n) + x /\ SumOver(pay, 1..n) \in Int
    <3>1. PICK D : D = 1..n
      OBVIOUS
    <3>2. IsFiniteSet(D) /\ n + 1 \notin D /\ D \cup {n + 1} = 1..(n + 1)
      <4>1. IsFiniteSet(1..n)
        BY FS_Interval
      <4>2. 1..n \cup {n + 1} = 1..(n + 1)
        OBVIOUS
      <4> QED BY <3>1, <4>1, <4>2
    <3>3. Numbers(q, D \cup {n + 1})
      BY <1>11, <3>2 DEF Numbers
    <3>4. SumOver(q, D \cup {n + 1}) = SumOver(q, D) + q[n + 1] /\ SumOver(q, D) \in Int
      BY <3>2, <3>3, SumStep
    <3>5. SumOver(q, D) = SumOver(pay, D)
      BY <1>11, <3>1, SumOfSame
    <3>6. SumOver(q, 1..(n + 1)) = SumOver(q, D) + q[n + 1]
      BY <3>2, <3>4, Zenon
    <3> QED BY <1>11, <3>1, <3>4, <3>5, <3>6
  <2>4. SumOver(acc.zones, Z) = SumOver(zones, Z) - SumOver(pay, 1..n)
    BY DEF Took, ZonesAfter
  <2>5. SumOver(zones, Z) \in Int
    <3>1. \A z \in Z : zones[z] \in Int
      BY DEF Amounts
    <3> QED BY <3>1, SumIsNumber
  <2>6. SumOver(c.zones, Z) = SumOver(zones, Z) - SumOver(q, 1..(n + 1))
    BY <1>6, <2>1, <2>3, <2>4, <2>5
  <2> QED BY <1>7, <2>1, <2>2, <2>6 DEF ZonesAfter
<1>16. k < n + 1 => AllZero(next.zones, Z)
  <2>1. k < n + 1 => c.left > 0
    <3>1. c.left = 0 => ~(k < n + 1)
      OBVIOUS
    <3>2. c.left \in Nat
      BY <1>8
    <3> HIDE DEF k
    <3> QED BY <3>1, <3>2
  <2> QED BY <1>5, <1>7, <2>1 DEF Covered
<1>17. next.paid = {PaidBy(credits, q, i) : i \in 1..(n + 1)}
  <2>1. acc.paid = {PaidBy(credits, pay, i) : i \in 1..n}
    BY DEF Took
  <2>2. \A i \in 1..n : PaidBy(credits, pay, i) = PaidBy(credits, q, i)
    BY <1>11 DEF PaidBy
  <2>3. PaidBy(credits, q, n + 1) = [from |-> p.cycle, kwh |-> x]
    BY <1>1, <1>11 DEF PaidBy
  <2>4. \A i \in 1..n : i \in 1..(n + 1)
    OBVIOUS
  <2>5. n + 1 \in 1..(n + 1)
    OBVIOUS
  <2>6. acc.paid = {PaidBy(credits, q, i) : i \in 1..n}
    BY <2>1, <2>2
  <2> QED BY <1>7, <1>12, <2>3, <2>4, <2>5, <2>6
<1> HIDE DEF k
<1>18. Took(credits, zones, Z, n + 1, next, k, q)
  BY <1>13, <1>14, <1>15, <1>16, <1>17 DEF Took
<1> QED BY <1>18

LEMMA CreditsPay ==
    ASSUME NEW credits \in Seq(StoredCredit), NEW zones, NEW Z, Z = DOMAIN zones, IsFiniteSet(Z), Z \subseteq Int,
           Amounts(zones, Z), NEW r, r = TakeCredits(credits, zones)
    PROVE  \E m, pay : Took(credits, zones, Z, Len(credits), r, m, pay)
<1>1. PICK A : InTurn(A, credits, zones) /\ TakeCredits(credits, zones) = A[Len(credits)]
  BY CreditsAreTakenInTurn
<1> DEFINE Holds(n) == \E m, pay : Took(credits, zones, Z, n, A[n], m, pay)
           C == {n \in Nat : n <= Len(credits) => Holds(n)}
<1>2. 0 \in C
  <2>1. Took(credits, zones, Z, 0, A[0], 0, << >>)
    BY <1>1, TookNothing DEF InTurn
  <2> QED BY <2>1
<1>3. ASSUME NEW n \in Nat, n \in C PROVE n + 1 \in C
  <2> SUFFICES ASSUME n + 1 <= Len(credits) PROVE Holds(n + 1)
    OBVIOUS
  <2>1. Len(credits) \in Nat /\ n <= Len(credits)
    OBVIOUS
  <2>2. PICK m, pay : Took(credits, zones, Z, n, A[n], m, pay)
    BY <1>3, <2>1
  <2>3. A[n + 1] = TakeCredit(credits[n + 1], A[n])
    BY <1>1 DEF InTurn
  <2> QED BY <2>2, <2>3, TookOneMore
<1>4. \A n \in Nat : n \in C
  <2> HIDE DEF C
  <2> QED BY <1>2, <1>3, Induct
<1>5. Len(credits) \in Nat
  OBVIOUS
<1>6. Holds(Len(credits))
  BY <1>4, <1>5
<1> QED BY <1>1, <1>6

----------------------------------------------------------------------------
(* The balance of a cycle of net metering.                                 *)

BalanceOf(s) == HourBalance(s, MeasuredUse(s))
NeededInHour(b) == [h \in DOMAIN b |-> Max({0, b[h]})]
GivenInHour(b) == [h \in DOMAIN b |-> (KFactor * Max({0, -b[h]})) \div 10]
InZone(t, b, z) == {h \in DOMAIN b : ZoneOf[t][h[2]] = z}
SurplusOf(b) == Sum(LAMBDA h : (KFactor * (0 - b[h])) \div 10, {h \in DOMAIN b : b[h] < 0})
NeedOf(t, b) ==
    [z \in Zones(t) |-> Sum(LAMBDA h : b[h], {h \in DOMAIN b : b[h] > 0 /\ ZoneOf[t][h[2]] = z})]
\* What the zones of a cycle need before anything is paid.
FullOf(t, s) == [z \in Zones(t) |-> SumOver(NeededInHour(BalanceOf(s)), InZone(t, BalanceOf(s), z))]

LEMMA ZonesAre ==
    ASSUME NEW t \in Range(Tariffs)
    PROVE  IsFiniteSet(Zones(t)) /\ Zones(t) \subseteq Int /\ \A x \in Intervals : ZoneOf[t][x[1]] \in Zones(t)
<1> DEFINE f == [x \in Intervals |-> ZoneOf[t][x[1]]]
<1>1. Zones(t) = {f[x] : x \in Intervals}
  BY DEF Zones
<1>2. IsFiniteSet(Intervals)
  BY DataAssumption
<1>3. IsFiniteSet(Zones(t))
  <2> HIDE DEF f
  <2> QED BY <1>1, <1>2, ImageIsFinite
<1>4. \A x \in Intervals : ZoneOf[t][x[1]] \in Nat
  BY RatesAssumption
<1> QED BY <1>3, <1>4 DEF Zones

LEMMA BalanceIs ==
    ASSUME Input, NEW s, NEW b, b = BalanceOf(s)
    PROVE  /\ IsFiniteSet(DOMAIN b) /\ Numbers(b, DOMAIN b)
           /\ \A h \in DOMAIN b : \E x \in Intervals : h[2] = x[1]
<1> DEFINE at == [x \in Moments(s) |-> <<x[1], Hour(x)>>]
           of(h) == {x \in Moments(s) : x[1] = h[1] /\ Hour(x) = h[2]}
           use == MeasuredUse(s)
           total(h) == SumFunction([x \in of(h) |-> use[x] - Exported(x)])
<1>1. IsFiniteSet(Moments(s)) /\ Moments(s) \subseteq ReadDays \X Intervals
  BY MomentsAre
<1>2. b = [h \in {<<x[1], Hour(x)>> : x \in Moments(s)} |-> total(h)]
  BY DEF BalanceOf, HourBalance, Sum
<1>3. DOMAIN b = {at[x] : x \in Moments(s)} /\ \A h \in DOMAIN b : b[h] = total(h)
  <2> HIDE DEF total
  <2>1. DOMAIN b = {<<x[1], Hour(x)>> : x \in Moments(s)} /\ \A h \in DOMAIN b : b[h] = total(h)
    BY <1>2
  <2>2. \A x \in Moments(s) : at[x] = <<x[1], Hour(x)>>
    OBVIOUS
  <2> HIDE DEF at
  <2> QED BY <2>1, <2>2
<1>4. IsFiniteSet(DOMAIN b)
  <2> HIDE DEF at
  <2> QED BY <1>1, <1>3, ImageIsFinite
<1>5. ASSUME NEW h PROVE total(h) \in Int
  <2>1. PICK X : X = of(h)
    OBVIOUS
  <2> DEFINE f == [x \in X |-> use[x] - Exported(x)]
  <2>2. IsFiniteSet(X) /\ \A x \in X : f[x] \in Int
    <3>1. X \subseteq Moments(s)
      BY <2>1
    <3>2. IsFiniteSet(X)
      BY <1>1, <3>1, FS_Subset
    <3>3. ASSUME NEW x \in X PROVE use[x] - Exported(x) \in Int
      <4>1. x \in Moments(s) /\ x \in ReadDays \X Intervals
        BY <1>1, <3>1
      <4>2. use[x] = Used(x)
        BY <4>1 DEF MeasuredUse
      <4>3. Used(x) \in Nat /\ Exported(x) \in Nat
        BY <4>1, ReadingsAre
      <4> QED BY <4>2, <4>3
    <3> QED BY <3>2, <3>3
  <2>3. f = [x \in X |-> f[x]]
    OBVIOUS
  <2>4. total(h) = SumFunction(f)
    BY <2>1
  <2> HIDE DEF f, total
  <2>5. SumOver(f, X) \in Int
    BY <2>2, SumIsNumber
  <2> QED BY <2>3, <2>4, <2>5 DEF SumOver
<1>6. Numbers(b, DOMAIN b)
  <2> HIDE DEF total
  <2> QED BY <1>3, <1>5 DEF Numbers
<1>7. ASSUME NEW h \in DOMAIN b PROVE \E x \in Intervals : h[2] = x[1]
  <2>1. PICK x \in Moments(s) : h = at[x]
    BY <1>3
  <2>2. x[2] \in Intervals /\ h[2] = x[2][1]
    BY <1>1, <2>1 DEF Hour
  <2> QED BY <2>2
<1> QED BY <1>4, <1>6, <1>7

LEMMA HoursAre ==
    ASSUME Input, NEW s, NEW b, b = BalanceOf(s), NEW h \in DOMAIN b
    PROVE  /\ b[h] \in Int
           /\ NeededInHour(b)[h] = (IF b[h] <= 0 THEN 0 ELSE b[h]) /\ NeededInHour(b)[h] \in Nat
           /\ GivenInHour(b)[h] = (IF b[h] >= 0 THEN 0 ELSE (KFactor * (0 - b[h])) \div 10)
           /\ GivenInHour(b)[h] \in Nat
<1>1. PICK n \in Int : n = b[h]
  BY BalanceIs DEF Numbers
<1>2. KFactor \in Nat
  BY BillingAssumption
<1>3. PICK m \in Int : m = -n
  OBVIOUS
<1>4. Max({0, n}) = (IF n <= 0 THEN 0 ELSE n) /\ Max({0, m}) = (IF n >= 0 THEN 0 ELSE 0 - n)
  <2>1. Max({0, n}) = (IF 0 <= n THEN n ELSE 0) /\ Max({0, m}) = (IF 0 <= m THEN m ELSE 0)
    BY MinOfTwo
  <2> QED BY <1>3, <2>1
<1>5. NeededInHour(b)[h] = Max({0, n}) /\ GivenInHour(b)[h] = (KFactor * Max({0, m})) \div 10
  BY <1>1, <1>3 DEF NeededInHour, GivenInHour
<1>6. PICK g \in Nat : g = Max({0, m})
  BY <1>4
<1>7. KFactor * g \in Nat /\ KFactor * 0 = 0
  BY <1>2
<1>8. PICK k \in Nat : k = KFactor * g
  BY <1>7
<1>9. k \div 10 \in Nat /\ 0 \div 10 = 0
  OBVIOUS
<1>10. GivenInHour(b)[h] = k \div 10
  BY <1>5, <1>6, <1>8
<1>11. n >= 0 => k = 0
  BY <1>4, <1>6, <1>7, <1>8
<1>12. ~(n >= 0) => k = KFactor * (0 - n)
  BY <1>4, <1>6, <1>8
<1> QED BY <1>1, <1>4, <1>5, <1>9, <1>10, <1>11, <1>12

LEMMA GivenIs ==
    ASSUME Input, pv = "net_metering", NEW s, NEW b, b = BalanceOf(s)
    PROVE  /\ Given(s) = SumOver(GivenInHour(b), DOMAIN b) /\ Given(s) \in Nat
           /\ SurplusOf(b) = Given(s)
<1> DEFINE g == GivenInHour(b)
           H == DOMAIN b
           S == {h \in DOMAIN b : b[h] < 0}
           f == [h \in S |-> (KFactor * (0 - b[h])) \div 10]
<1>1. g = [h \in H |-> (KFactor * Max({0, -b[h]})) \div 10]
  BY DEF GivenInHour
<1>2. g = [h \in H |-> g[h]]
  BY <1>1
<1>3. Given(s) = SumFunction(g)
  BY DEF Given, Sum, GivenInHour, BalanceOf
<1>4. SumFunction(g) = SumOver(g, H)
  <2> HIDE DEF g
  <2> QED BY <1>2 DEF SumOver
<1>5. \A h \in H : b[h] \in Int /\ g[h] \in Nat /\ (b[h] >= 0 => g[h] = 0) /\ (b[h] < 0 => g[h] = (KFactor * (0 - b[h])) \div 10)
  <2> SUFFICES ASSUME NEW h \in H
               PROVE  b[h] \in Int /\ g[h] \in Nat /\ (b[h] >= 0 => g[h] = 0)
                      /\ (b[h] < 0 => g[h] = (KFactor * (0 - b[h])) \div 10)
    OBVIOUS
  <2>1. b[h] \in Int /\ g[h] \in Nat /\ g[h] = (IF b[h] >= 0 THEN 0 ELSE (KFactor * (0 - b[h])) \div 10)
    BY HoursAre
  <2> HIDE DEF g
  <2> QED BY <2>1
<1>6. IsFiniteSet(H)
  BY BalanceIs
<1>7. SumOver(g, S) = SumOver(g, H)
  <2>1. S \in SUBSET H /\ (\A h \in H : g[h] \in Int) /\ (\A h \in H \ S : g[h] = 0)
    <3> HIDE DEF g
    <3> QED BY <1>5
  <2> HIDE DEF g, S, H
  <2> QED BY <1>6, <2>1, SumOfPart
<1>8. SumFunction(f) = SumOver(g, S)
  <2>1. \A h \in S : f[h] = g[h]
    <3> HIDE DEF g
    <3> QED BY <1>5
  <2>2. f = [h \in S |-> g[h]]
    <3> HIDE DEF g
    <3> QED BY <2>1
  <2> HIDE DEF f, g, S
  <2> QED BY <2>2 DEF SumOver
<1>9. SurplusOf(b) = SumFunction(f)
  BY DEF Sum, SurplusOf
<1>10. SumOver(g, H) \in Nat
  <2>1. \A h \in H : g[h] \in Int /\ g[h] >= 0
    <3> HIDE DEF g
    <3> QED BY <1>5
  <2>2. SumOver(g, H) \in Int /\ SumOver(g, H) >= 0
    <3> HIDE DEF g
    <3> QED BY <1>6, <2>1, SumIsNumber, SumIsPositive
  <2> HIDE DEF g
  <2> QED BY <2>2
<1> HIDE DEF f, S
<1> QED BY <1>3, <1>4, <1>7, <1>8, <1>9, <1>10

LEMMA FullIs ==
    ASSUME Input, pv = "net_metering", NEW s, NEW b, b = BalanceOf(s), NEW t \in Range(Tariffs)
    PROVE  /\ Amounts(FullOf(t, s), Zones(t)) /\ DOMAIN FullOf(t, s) = Zones(t)
           /\ NeedOf(t, b) = FullOf(t, s)
           /\ SumOver(FullOf(t, s), Zones(t)) = Needed(s) /\ Needed(s) \in Nat
<1> DEFINE g == NeededInHour(b)
           H == DOMAIN b
           Z == Zones(t)
           in(z) == InZone(t, b, z)
           S(z) == {h \in DOMAIN b : b[h] > 0 /\ ZoneOf[t][h[2]] = z}
           zone == [h \in H |-> ZoneOf[t][h[2]]]
           full == FullOf(t, s)
<1>1. \A h \in H : /\ b[h] \in Int /\ g[h] \in Int /\ g[h] >= 0 /\ (b[h] > 0 => g[h] = b[h])
                   /\ (~(b[h] > 0) => g[h] = 0)
  <2> SUFFICES ASSUME NEW h \in H
               PROVE  /\ b[h] \in Int /\ g[h] \in Int /\ g[h] >= 0 /\ (b[h] > 0 => g[h] = b[h])
                      /\ (~(b[h] > 0) => g[h] = 0)
    OBVIOUS
  <2>1. b[h] \in Int /\ g[h] \in Nat /\ g[h] = (IF b[h] <= 0 THEN 0 ELSE b[h])
    BY HoursAre
  <2> HIDE DEF g
  <2> QED BY <2>1
<1>2. IsFiniteSet(H) /\ IsFiniteSet(Z) /\ \A h \in H : zone[h] \in Z
  <2>1. \A h \in H : \E x \in Intervals : h[2] = x[1]
    BY BalanceIs
  <2>2. \A x \in Intervals : ZoneOf[t][x[1]] \in Z
    BY ZonesAre
  <2>3. \A h \in H : ZoneOf[t][h[2]] \in Z
    BY <2>1, <2>2
  <2>4. IsFiniteSet(H)
    BY BalanceIs
  <2>5. IsFiniteSet(Z)
    BY ZonesAre
  <2> HIDE DEF Z
  <2> QED BY <2>3, <2>4, <2>5
<1>3. full = [z \in Z |-> SumOver(g, in(z))]
  BY DEF FullOf
<1>4. \A z : in(z) \subseteq H /\ in(z) = {h \in H : zone[h] = z}
  BY DEF InZone
<1> HIDE DEF g, zone, H, in
<1>5. \A z : IsFiniteSet(in(z)) /\ SumOver(g, in(z)) \in Nat
  <2> SUFFICES ASSUME NEW z PROVE IsFiniteSet(in(z)) /\ SumOver(g, in(z)) \in Nat
    OBVIOUS
  <2>1. PICK I : I = in(z)
    OBVIOUS
  <2>2. IsFiniteSet(I) /\ \A h \in I : g[h] \in Int /\ g[h] >= 0
    <3>1. I \subseteq H
      BY <1>4, <2>1
    <3>2. IsFiniteSet(I)
      BY <1>2, <3>1, FS_Subset
    <3> QED BY <1>1, <3>1, <3>2
  <2>3. SumOver(g, I) \in Int /\ SumOver(g, I) >= 0
    BY <2>2, SumIsNumber, SumIsPositive
  <2> QED BY <2>1, <2>2, <2>3
<1>6. Amounts(full, Z) /\ DOMAIN full = Z
  <2>1. \A z \in Z : full[z] = SumOver(g, in(z))
    BY <1>3
  <2>2. DOMAIN full = Z
    BY <1>3
  <2> HIDE DEF full, Z
  <2> QED BY <1>5, <2>1, <2>2 DEF Amounts
<1>7. ASSUME NEW z PROVE Sum(LAMBDA h : b[h], S(z)) = SumOver(g, in(z))
  <2>1. PICK I, P : I = in(z) /\ P = S(z)
    OBVIOUS
  <2>2. P \in SUBSET I /\ (\A h \in I \ P : g[h] = 0) /\ (\A h \in I : g[h] \in Int) /\ \A h \in P : b[h] = g[h]
    BY <1>1, <2>1 DEF H, in, InZone
  <2>3. SumOver(g, P) = SumOver(g, I)
    BY <1>5, <2>1, <2>2, SumOfPart
  <2>4. SumOver(b, P) = SumOver(g, P)
    BY <2>2, SumOfSame
  <2>5. Sum(LAMBDA h : b[h], S(z)) = SumOver(b, P)
    BY <2>1 DEF Sum, SumOver
  <2> QED BY <2>1, <2>3, <2>4, <2>5
<1>8. [z \in Z |-> Sum(LAMBDA h : b[h], S(z))] = [z \in Z |-> SumOver(g, in(z))]
  <2>1. [z \in Z |-> SumFunction([h \in S(z) |-> b[h]])] = [z \in Z |-> SumOver(g, in(z))]
    <3>1. \A z : SumFunction([h \in S(z) |-> b[h]]) = SumOver(g, in(z))
      BY <1>7 DEF Sum
    <3> DEFINE lhs(z) == SumFunction([h \in S(z) |-> b[h]])
               rhs(z) == SumOver(g, in(z))
    <3>2. \A z : lhs(z) = rhs(z)
      BY <3>1
    <3> HIDE DEF lhs, rhs
    <3>3. [z \in Z |-> lhs(z)] = [z \in Z |-> rhs(z)]
      BY <3>2
    <3> QED BY <3>3 DEF lhs, rhs
  <2> QED BY <2>1 DEF Sum
<1>9. SumOver(g, H) = SumOver(full, Z)
  <2>1. full = [z \in Z |-> SumOver(g, {h \in H : zone[h] = z})]
    <3> DEFINE at(z) == {h \in H : zone[h] = z}
    <3>1. \A z : in(z) = at(z)
      BY <1>4
    <3> HIDE DEF at
    <3>2. [z \in Z |-> SumOver(g, in(z))] = [z \in Z |-> SumOver(g, at(z))]
      BY <3>1
    <3> QED BY <1>3, <3>2 DEF at
  <2>2. (\A h \in H : zone[h] \in Z) /\ (\A h \in H : g[h] \in Int)
    BY <1>1, <1>2
  <2> HIDE DEF full, Z
  <2> QED BY <1>2, <2>1, <2>2, SumByKey
<1>10. Needed(s) = SumOver(g, H)
  <2>1. Needed(s) = SumFunction([h \in H |-> Max({0, b[h]})])
    BY DEF Needed, Sum, BalanceOf, H
  <2>2. g = [h \in H |-> Max({0, b[h]})] /\ g = [h \in H |-> g[h]]
    BY DEF g, NeededInHour, H
  <2>3. SumFunction(g) = SumOver(g, H)
    BY <2>2 DEF SumOver
  <2> QED BY <2>1, <2>2, <2>3
<1>11. SumOver(g, H) \in Nat
  <2>1. \A h \in H : g[h] \in Int /\ g[h] >= 0
    BY <1>1
  <2>2. SumOver(g, H) \in Int /\ SumOver(g, H) >= 0
    BY <1>2, <2>1, SumIsNumber, SumIsPositive
  <2> QED BY <2>2
<1>12. NeedOf(t, b) = [z \in Z |-> Sum(LAMBDA h : b[h], S(z))]
  BY DEF NeedOf
<1>13. NeedOf(t, b) = full
  BY <1>3, <1>8, <1>12
<1> QED BY <1>6, <1>9, <1>10, <1>11, <1>13

----------------------------------------------------------------------------
(* What one cycle of net metering does to the store.                       *)

Stored == Len(store)
StoreOk ==
    /\ store \in Seq(StoredCredit)
    /\ \A i, j \in 1..Stored : i < j => store[i].cycle < store[j].cycle
    /\ \A i \in 1..Stored : IsStart(store[i].cycle)

\* What is left over of the energy given in a cycle, and what it still lacks.
Spare(s) == IF Given(s) > Needed(s) THEN Given(s) - Needed(s) ELSE 0
Lack(s) == IF Given(s) > Needed(s) THEN 0 ELSE Needed(s) - Given(s)

\* The first d credits are past their deadline.
Expired(s, d) ==
    /\ d \in 0..Stored
    /\ \A i \in 1..Stored : /\ i <= d => Deadline(store[i].cycle) <= s
                            /\ i > d => Deadline(store[i].cycle) > s
\* Of the others those up to the m-th pay all, the next one part.
Pays(d, m, pay) ==
    /\ m \in d..Stored /\ pay \in [1..Stored -> Nat]
    /\ \A i \in 1..Stored : /\ i <= d => pay[i] = 0
                            /\ d < i /\ i <= m => pay[i] = store[i].kwh
                            /\ i = m + 1 => pay[i] < store[i].kwh
                            /\ i > m + 1 => pay[i] = 0
\* The others stay with what they have left; what the cycle spares is added.
Restored(s, m, pay, next) ==
    /\ next \in Seq(StoredCredit)
    /\ Len(next) = (Stored - m) + (IF Spare(s) > 0 THEN 1 ELSE 0)
    /\ \A k \in 1..(Stored - m) : next[k] = LeftOf(store, pay, m + k)
    /\ Spare(s) > 0 => next[(Stored - m) + 1] = [kwh |-> Spare(s), cycle |-> s]
Payers(pay) == {i \in 1..Stored : pay[i] > 0}
Effect(t, s, r, d, m, pay) ==
    /\ Expired(s, d) /\ Pays(d, m, pay) /\ Restored(s, m, pay, r.store)
    /\ Spare(s) > 0 => Payers(pay) = {}
    /\ DOMAIN r.zones = Zones(t) /\ Amounts(r.zones, Zones(t))
    /\ PaidFirst(FullOf(t, s), r.zones, Zones(t))
    /\ SumOver(r.zones, Zones(t)) = Lack(s) - SumOver(pay, 1..Stored)
    /\ {p \in r.paid : p.kwh > 0} = {PaidBy(store, pay, i) : i \in Payers(pay)}

\* The credits that are kept are those from d + 1 on.
KeptFrom(s, d, kept) ==
    /\ Expired(s, d) /\ kept \in Seq(StoredCredit) /\ Len(kept) = Stored - d
    /\ \A k \in 1..(Stored - d) : kept[k] = store[d + k]

LEMMA KeptIs ==
    ASSUME StoreOk, NEW s \in Int, NEW kept, kept = NotExpired(s)
    PROVE  \E d : KeptFrom(s, d, kept)
<1> DEFINE alive == {i \in DOMAIN store : Deadline(store[i].cycle) > s}
<1>1. Stored \in Nat /\ DOMAIN store = 1..Stored /\ store \in Seq(StoredCredit)
  BY DEF StoreOk, Stored
<1>2. kept = IF alive = {} THEN << >> ELSE SubSeq(store, Min(alive), Stored)
  BY DEF NotExpired, Stored
<1>3. \A i, j \in 1..Stored : i <= j => /\ Deadline(store[i].cycle) \in Int /\ Deadline(store[j].cycle) \in Int
                                        /\ Deadline(store[i].cycle) <= Deadline(store[j].cycle)
  <2> SUFFICES ASSUME NEW i \in 1..Stored, NEW j \in 1..Stored, i <= j
               PROVE  /\ Deadline(store[i].cycle) \in Int /\ Deadline(store[j].cycle) \in Int
                      /\ Deadline(store[i].cycle) <= Deadline(store[j].cycle)
    OBVIOUS
  <2>1. PICK a, b : a = store[i].cycle /\ b = store[j].cycle
    OBVIOUS
  <2>2. IsStart(a) /\ IsStart(b)
    BY <2>1 DEF StoreOk
  <2>3. a \in Int /\ b \in Int
    <3>1. store[i] \in StoredCredit /\ store[j] \in StoredCredit
      BY <1>1
    <3> QED BY <2>1, <3>1 DEF StoredCredit
  <2>4. a <= b
    <3>1. CASE i = j
      BY <2>1, <2>3, <3>1
    <3>2. CASE i < j
      BY <2>1, <2>3, <3>2 DEF StoreOk
    <3> QED BY <1>1, <3>1, <3>2
  <2> QED BY <2>1, <2>2, <2>4, DeadlinesIncrease
<1>4. CASE alive = {}
  <2>1. \A i \in 1..Stored : Deadline(store[i].cycle) <= s
    BY <1>1, <1>3, <1>4
  <2>2. Expired(s, Stored)
    BY <1>1, <2>1 DEF Expired
  <2>3. kept = << >> /\ Stored - Stored = 0 /\ 1..0 = {}
    BY <1>1, <1>2, <1>4
  <2>4. kept \in Seq(StoredCredit) /\ Len(kept) = 0
    BY <2>3
  <2> QED BY <2>2, <2>3, <2>4 DEF KeptFrom
<1>5. CASE alive # {}
  <2>1. alive \subseteq 1..Stored /\ IsFiniteSet(alive) /\ alive \subseteq Int
    <3>1. alive \subseteq 1..Stored
      BY <1>1
    <3>2. IsFiniteSet(1..Stored) /\ 1..Stored \subseteq Int
      BY <1>1, FS_Interval
    <3> HIDE DEF alive
    <3> QED BY <3>1, <3>2, FS_Subset
  <2>2. PICK a \in alive : a = Min(alive) /\ \A i \in alive : a <= i
    <3> HIDE DEF alive
    <3> QED BY <1>5, <2>1, LeastExists
  <2>3. a \in 1..Stored /\ Deadline(store[a].cycle) > s
    BY <1>1, <2>2
  <2>4. PICK d \in 0..Stored : d = a - 1
    BY <1>1, <2>3
  <2>5. Expired(s, d)
    <3> SUFFICES ASSUME NEW i \in 1..Stored
                 PROVE  /\ i <= d => Deadline(store[i].cycle) <= s
                        /\ i > d => Deadline(store[i].cycle) > s
      BY DEF Expired
    <3>1. ASSUME i <= d PROVE Deadline(store[i].cycle) <= s
      <4>1. ~(a <= i)
        BY <2>3, <2>4, <3>1
      <4>2. i \notin alive
        BY <2>2, <4>1
      <4>3. Deadline(store[i].cycle) \in Int
        BY <1>1, <1>3
      <4> QED BY <1>1, <4>2, <4>3
    <3>2. ASSUME i > d PROVE Deadline(store[i].cycle) > s
      <4>1. a <= i
        BY <2>3, <2>4, <3>2
      <4>2. Deadline(store[i].cycle) \in Int /\ Deadline(store[a].cycle) \in Int
            /\ Deadline(store[a].cycle) <= Deadline(store[i].cycle)
        BY <1>3, <2>3, <4>1
      <4> QED BY <2>3, <4>2
    <3> QED BY <3>1, <3>2
  <2>6. kept = SubSeq(store, d + 1, Stored)
    <3>1. d + 1 = a
      BY <2>3, <2>4
    <3> HIDE DEF alive
    <3>2. kept = SubSeq(store, a, Stored)
      BY <1>2, <1>5, <2>2, Zenon
    <3> QED BY <3>1, <3>2, Zenon
  <2>7. kept \in Seq(StoredCredit) /\ Len(kept) = Stored - d
        /\ \A k \in 1..(Stored - d) : kept[k] = store[d + k]
    BY <1>1, <2>4, <2>6 DEF Stored
  <2> QED BY <2>5, <2>7 DEF KeptFrom
<1> QED BY <1>4, <1>5

Own(t, s) == CoverZones(Given(s), FullOf(t, s))
OwnKept(t, s) ==
    [zones |-> Own(t, s).zones, paid |-> {},
     store |-> Append(NotExpired(s), [kwh |-> Own(t, s).left, cycle |-> s])]

LEMMA NetMeteringIs ==
    ASSUME Input, pv = "net_metering", NEW t \in Range(Tariffs), NEW s,
           \A x \in Moments(s) : RecordedUse(x) = Used(x)
    PROVE  NetMetering(t, s) = IF Own(t, s).left > 0 THEN OwnKept(t, s)
                               ELSE TakeCredits(NotExpired(s), Own(t, s).zones)
<1> DEFINE bb == HourBalance(s, [x \in Moments(s) |-> RecordedUse(x)])
           own == CoverZones(SurplusOf(bb), NeedOf(t, bb))
<1>1. NetMetering(t, s) = IF own.left > 0
                          THEN [zones |-> own.zones, paid |-> {},
                                store |-> Append(NotExpired(s), [kwh |-> own.left, cycle |-> s])]
                          ELSE TakeCredits(NotExpired(s), own.zones)
  BY DEF NetMetering, SurplusOf, NeedOf
<1>2. [x \in Moments(s) |-> RecordedUse(x)] = MeasuredUse(s)
  BY DEF MeasuredUse
<1>3. bb = BalanceOf(s)
  BY <1>2, Zenon DEF BalanceOf
<1>4. SurplusOf(BalanceOf(s)) = Given(s)
  <2>1. PICK b : b = BalanceOf(s)
    OBVIOUS
  <2>2. SurplusOf(b) = Given(s)
    BY <2>1, GivenIs
  <2> QED BY <2>1, <2>2
<1>5. NeedOf(t, BalanceOf(s)) = FullOf(t, s)
  <2>1. PICK b : b = BalanceOf(s)
    OBVIOUS
  <2>2. NeedOf(t, b) = FullOf(t, s)
    BY <2>1, FullIs
  <2> QED BY <2>1, <2>2
<1> HIDE DEF bb
<1>6. SurplusOf(bb) = Given(s) /\ NeedOf(t, bb) = FullOf(t, s)
  BY <1>3, <1>4, <1>5
<1>7. own = Own(t, s)
  BY <1>6, Zenon DEF Own
<1> HIDE DEF own
<1> QED BY <1>1, <1>7 DEF OwnKept

LEMMA OwnIs ==
    ASSUME Input, pv = "net_metering", NEW t \in Range(Tariffs), NEW s, NEW own, own = Own(t, s)
    PROVE  /\ own.left = Spare(s) /\ Spare(s) \in Nat /\ Lack(s) \in Nat
           /\ DOMAIN own.zones = Zones(t) /\ Amounts(own.zones, Zones(t))
           /\ Within(own.zones, FullOf(t, s), Zones(t)) /\ PaidFirst(FullOf(t, s), own.zones, Zones(t))
           /\ SumOver(own.zones, Zones(t)) = Lack(s)
           /\ Amounts(FullOf(t, s), Zones(t))
<1>1. PICK full, Z : full = FullOf(t, s) /\ Z = Zones(t)
  OBVIOUS
<1>2. /\ Amounts(full, Z) /\ DOMAIN full = Z /\ SumOver(full, Z) = Needed(s) /\ Needed(s) \in Nat
      /\ Given(s) \in Nat
  BY <1>1, FullIs, GivenIs
<1>3. IsFiniteSet(Z) /\ Z \subseteq Int
  BY <1>1, ZonesAre
<1>4. PICK g \in Nat : g = Given(s)
  BY <1>2
<1>5. own = CoverZones(g, full)
  BY <1>1, <1>4 DEF Own
<1>6. Covered(g, full, Z, own)
  BY <1>2, <1>3, <1>5, CoverCovers
<1>7. own.left = IF g <= Needed(s) THEN 0 ELSE g - Needed(s)
  BY <1>2, <1>6 DEF Covered
<1>8. own.left = Spare(s) /\ Spare(s) \in Nat /\ Lack(s) \in Nat
  BY <1>2, <1>4, <1>7 DEF Spare, Lack
<1>9. SumOver(own.zones, Z) = Needed(s) - (g - own.left)
  BY <1>2, <1>6 DEF Covered
<1>10. SumOver(own.zones, Z) = Lack(s)
  BY <1>2, <1>4, <1>7, <1>9 DEF Lack
<1> QED BY <1>1, <1>2, <1>6, <1>8, <1>10 DEF Covered

LEMMA SpareIsStored ==
    ASSUME Input, pv = "net_metering", StoreOk, NEW t \in Range(Tariffs), NEW s \in Int, Spare(s) > 0,
           NEW r, r = OwnKept(t, s)
    PROVE  \E d, m, pay : Effect(t, s, r, d, m, pay)
<1>1. PICK kept : kept = NotExpired(s)
  OBVIOUS
<1>0. PICK d : KeptFrom(s, d, kept)
  BY <1>1, KeptIs
<1>2. /\ Expired(s, d) /\ kept \in Seq(StoredCredit) /\ Len(kept) = Stored - d
      /\ \A k \in 1..(Stored - d) : kept[k] = store[d + k]
  BY <1>0 DEF KeptFrom
<1>3. Stored \in Nat /\ d \in 0..Stored /\ store \in Seq(StoredCredit)
  BY <1>2 DEF StoreOk, Stored, Expired
<1>4. \A i \in 1..Stored : store[i] \in StoredCredit /\ store[i].kwh \in Nat /\ store[i].kwh > 0
                           /\ store[i] = [kwh |-> store[i].kwh - 0, cycle |-> store[i].cycle]
  <2> SUFFICES ASSUME NEW i \in 1..Stored
               PROVE  store[i] \in StoredCredit /\ store[i].kwh \in Nat /\ store[i].kwh > 0
                           /\ store[i] = [kwh |-> store[i].kwh - 0, cycle |-> store[i].cycle]
    OBVIOUS
  <2>1. PICK c \in StoredCredit : c = store[i]
    BY <1>3 DEF Stored
  <2>2. c.kwh \in Nat /\ c.kwh > 0 /\ c.kwh - 0 = c.kwh /\ c = [kwh |-> c.kwh, cycle |-> c.cycle]
    BY DEF StoredCredit
  <2> QED BY <2>1, <2>2
<1> DEFINE pay == [i \in 1..Stored |-> 0]
<1>5. pay \in [1..Stored -> Nat] /\ \A i \in 1..Stored : pay[i] = 0
  OBVIOUS
<1> HIDE DEF pay
<1>6. Pays(d, d, pay)
  <2>1. d \in d..Stored
    BY <1>3
  <2>2. \A i \in 1..Stored : ~(d < i /\ i <= d)
    BY <1>3
  <2> QED BY <1>4, <1>5, <2>1, <2>2 DEF Pays
<1>7. Payers(pay) = {}
  BY <1>5 DEF Payers
<1>8. PICK own : own = Own(t, s)
  OBVIOUS
<1>9. /\ own.left = Spare(s) /\ Spare(s) \in Nat /\ DOMAIN own.zones = Zones(t)
      /\ Amounts(own.zones, Zones(t)) /\ PaidFirst(FullOf(t, s), own.zones, Zones(t))
      /\ SumOver(own.zones, Zones(t)) = Lack(s) /\ Lack(s) \in Nat
  BY <1>8, OwnIs
<1>10. PICK c : c = [kwh |-> Spare(s), cycle |-> s]
  OBVIOUS
<1>11. r.zones = own.zones /\ r.paid = {} /\ r.store = Append(kept, c)
  BY <1>1, <1>8, <1>9, <1>10 DEF OwnKept
<1>12. Restored(s, d, pay, r.store)
  <2>1. c \in StoredCredit
    BY <1>9, <1>10 DEF StoredCredit
  <2>2. /\ r.store \in Seq(StoredCredit) /\ Len(r.store) = (Stored - d) + 1
        /\ r.store[(Stored - d) + 1] = c
        /\ \A k \in 1..(Stored - d) : r.store[k] = kept[k]
    BY <1>2, <1>3, <1>11, <2>1
  <2>3. ASSUME NEW k \in 1..(Stored - d) PROVE r.store[k] = LeftOf(store, pay, d + k)
    <3>1. d + k \in 1..Stored
      BY <1>3
    <3>2. r.store[k] = store[d + k]
      BY <1>2, <2>2
    <3>3. LeftOf(store, pay, d + k) = [kwh |-> store[d + k].kwh - 0, cycle |-> store[d + k].cycle]
      BY <1>5, <3>1 DEF LeftOf
    <3> QED BY <1>4, <3>1, <3>2, <3>3
  <2> QED BY <1>10, <2>2, <2>3 DEF Restored
<1>13. SumOver(pay, 1..Stored) = 0
  <2>1. PICK D : D = 1..Stored
    OBVIOUS
  <2>2. IsFiniteSet(D) /\ \A i \in D : pay[i] = 0
    BY <1>3, <1>5, <2>1, FS_Interval
  <2> QED BY <2>1, <2>2, SumOfZeros
<1>14. SumOver(r.zones, Zones(t)) = Lack(s) - SumOver(pay, 1..Stored)
  BY <1>9, <1>11, <1>13
<1>15. {p \in r.paid : p.kwh > 0} = {PaidBy(store, pay, i) : i \in Payers(pay)}
  BY <1>7, <1>11
<1> QED BY <1>2, <1>6, <1>7, <1>9, <1>11, <1>12, <1>14, <1>15 DEF Effect

LEMMA CreditsAreUsed ==
    ASSUME Input, pv = "net_metering", StoreOk, NEW t \in Range(Tariffs), NEW s \in Int, ~(Spare(s) > 0),
           NEW r, r = TakeCredits(NotExpired(s), Own(t, s).zones)
    PROVE  \E d, m, pay : Effect(t, s, r, d, m, pay)
<1>1. PICK kept, own, Z : kept = NotExpired(s) /\ own = Own(t, s) /\ Z = Zones(t)
  OBVIOUS
<1>2. PICK d : KeptFrom(s, d, kept)
  BY <1>1, KeptIs
<1>3. /\ Expired(s, d) /\ kept \in Seq(StoredCredit) /\ Len(kept) = Stored - d
      /\ \A k \in 1..(Stored - d) : kept[k] = store[d + k]
  BY <1>2 DEF KeptFrom
<1>4. Stored \in Nat /\ d \in Int /\ 0 <= d /\ d <= Stored /\ store \in Seq(StoredCredit)
  BY <1>3 DEF StoreOk, Stored, Expired
<1>5. /\ Spare(s) \in Nat /\ DOMAIN own.zones = Z /\ Amounts(own.zones, Z)
      /\ Within(own.zones, FullOf(t, s), Z) /\ PaidFirst(FullOf(t, s), own.zones, Z)
      /\ SumOver(own.zones, Z) = Lack(s) /\ Lack(s) \in Nat /\ Amounts(FullOf(t, s), Z)
  BY <1>1, OwnIs
<1>6. IsFiniteSet(Z) /\ Z \subseteq Int
  BY <1>1, ZonesAre
<1>7. PICK n \in Nat : n = Stored - d
  BY <1>4
<1>8. PICK m0, pay0 : Took(kept, own.zones, Z, n, r, m0, pay0)
  <2>1. r = TakeCredits(kept, own.zones)
    BY <1>1
  <2>2. \E m0, pay0 : Took(kept, own.zones, Z, Len(kept), r, m0, pay0)
    BY <1>3, <1>5, <1>6, <2>1, CreditsPay
  <2>3. Len(kept) = n
    BY <1>3, <1>7
  <2> QED BY <2>2, <2>3
<1>9. /\ Payments(kept, n, m0, pay0) /\ Rest(kept, n, m0, pay0, r.store)
      /\ ZonesAfter(own.zones, Z, r.zones, SumOver(pay0, 1..n))
      /\ r.paid = {PaidBy(kept, pay0, i) : i \in 1..n}
  BY <1>8 DEF Took
<1>10. m0 \in Int /\ 0 <= m0 /\ m0 <= n /\ pay0 \in [1..n -> Nat]
  BY <1>9 DEF Payments
<1> DEFINE pay == [i \in 1..Stored |-> IF i <= d THEN 0 ELSE pay0[i - d]]
<1>11. PICK m \in Int : m = d + m0
  BY <1>4, <1>10
<1>12. ASSUME NEW i \in 1..Stored PROVE i <= d \/ i - d \in 1..n
  BY <1>4, <1>7
<1>13. ASSUME NEW i \in 1..Stored
       PROVE  /\ pay[i] \in Nat /\ (i <= d => pay[i] = 0)
              /\ i > d => /\ i - d \in 1..n /\ pay[i] = pay0[i - d] /\ kept[i - d] = store[i]
  <2>1. CASE i <= d
    BY <1>4, <2>1
  <2>2. CASE i > d
    <3>1. i - d \in 1..n /\ d + (i - d) = i
      BY <1>4, <1>7, <2>2
    <3>2. kept[i - d] = store[i]
      BY <1>3, <1>7, <3>1
    <3>3. pay[i] = pay0[i - d]
      BY <1>4, <2>2
    <3>4. pay0[i - d] \in Nat
      BY <1>10, <3>1
    <3> HIDE DEF pay
    <3> QED BY <1>4, <2>2, <3>1, <3>2, <3>3, <3>4
  <2> QED BY <1>4, <2>1, <2>2
<1>14. pay \in [1..Stored -> Nat]
  <2>1. \A i \in 1..Stored : pay[i] \in Nat
    BY <1>13
  <2>2. pay = [i \in 1..Stored |-> pay[i]]
    OBVIOUS
  <2> HIDE DEF pay
  <2> QED BY <2>1, <2>2
<1> HIDE DEF pay
<1>15. Pays(d, m, pay)
  <2>1. m \in d..Stored
    BY <1>4, <1>7, <1>10, <1>11
  <2>2. ASSUME NEW i \in 1..Stored
        PROVE  /\ i <= d => pay[i] = 0
               /\ d < i /\ i <= m => pay[i] = store[i].kwh
               /\ i = m + 1 => pay[i] < store[i].kwh
               /\ i > m + 1 => pay[i] = 0
    <3>1. CASE i <= d
      BY <1>4, <1>10, <1>11, <1>13, <3>1
    <3>2. CASE i > d
      <4>1. PICK j \in 1..n : j = i - d /\ pay[i] = pay0[j] /\ kept[j] = store[i]
        BY <1>13, <3>2
      <4>2. /\ j <= m0 => pay0[j] = kept[j].kwh
            /\ j = m0 + 1 => pay0[j] < kept[j].kwh
            /\ j > m0 + 1 => pay0[j] = 0
        BY <1>9 DEF Payments
      <4>5. i \in Int /\ j \in Int /\ d \in Int /\ m0 \in Int /\ i > d /\ j = i - d /\ m = d + m0
        BY <1>4, <1>10, <1>11, <3>2, <4>1
      <4>3. (i <= m <=> j <= m0) /\ (i = m + 1 <=> j = m0 + 1) /\ (i > m + 1 <=> j > m0 + 1) /\ ~(i <= d)
        BY <4>5
      <4> QED BY <4>1, <4>2, <4>3
    <3> QED BY <1>4, <3>1, <3>2
  <2> QED BY <1>14, <2>1, <2>2 DEF Pays
<1>16. Restored(s, m, pay, r.store)
  <2>1. r.store \in Seq(StoredCredit) /\ Len(r.store) = n - m0
        /\ \A k \in 1..(n - m0) : r.store[k] = LeftOf(kept, pay0, m0 + k)
    BY <1>9 DEF Rest
  <2>2. n - m0 = Stored - m
    BY <1>4, <1>7, <1>10, <1>11
  <2>3. ASSUME NEW k \in 1..(Stored - m) PROVE r.store[k] = LeftOf(store, pay, m + k)
    <3>1. PICK i \in 1..Stored : i = m + k /\ i > d /\ i - d = m0 + k
      BY <1>4, <1>10, <1>11
    <3>2. kept[m0 + k] = store[i] /\ pay[i] = pay0[m0 + k]
      BY <1>13, <3>1
    <3>3. r.store[k] = LeftOf(kept, pay0, m0 + k)
      BY <2>1, <2>2
    <3> QED BY <3>1, <3>2, <3>3 DEF LeftOf
  <2>4. Len(r.store) = (Stored - m) + 0
    BY <2>1, <2>2, <1>4, <1>11
  <2> QED BY <2>1, <2>3, <2>4 DEF Restored
<1>17. SumOver(pay, 1..Stored) = SumOver(pay0, 1..n)
  <2>1. PICK I, J : I = 1..Stored /\ J = {i \in 1..Stored : i > d}
    OBVIOUS
  <2>2. IsFiniteSet(I) /\ J \in SUBSET I /\ IsFiniteSet(J)
    <3>1. IsFiniteSet(I)
      BY <1>4, <2>1, FS_Interval
    <3>2. J \in SUBSET I
      BY <2>1
    <3> QED BY <3>1, <3>2, FS_Subset
  <2>3. SumOver(pay, J) = SumOver(pay, I)
    <3>1. \A i \in I : pay[i] \in Int
      BY <1>13, <2>1
    <3>2. \A i \in I \ J : pay[i] = 0
      BY <1>4, <1>13, <2>1
    <3> QED BY <2>2, <3>1, <3>2, SumOfPart
  <2> DEFINE h == [i \in J |-> i - d]
  <2>4. \A i, j \in J : h[i] = h[j] => i = j
    BY <1>4, <2>1
  <2>5. \A i \in J : h[i] = i - d /\ i - d \in 1..n /\ pay[i] = pay0[i - d] /\ pay0[i - d] \in Int
    <3> SUFFICES ASSUME NEW i \in J
                 PROVE  h[i] = i - d /\ i - d \in 1..n /\ pay[i] = pay0[i - d] /\ pay0[i - d] \in Int
      OBVIOUS
    <3>1. i \in 1..Stored /\ i > d
      BY <2>1
    <3>2. i - d \in 1..n /\ pay[i] = pay0[i - d] /\ pay[i] \in Nat
      BY <1>13, <3>1
    <3> QED BY <3>2
  <2>6. {h[i] : i \in J} = 1..n
    <3>1. \A i \in J : h[i] \in 1..n
      BY <2>5
    <3>2. ASSUME NEW k \in 1..n PROVE \E i \in J : h[i] = k
      <4>1. k + d \in J /\ (k + d) - d = k
        BY <1>4, <1>7, <2>1
      <4>2. h[k + d] = k
        BY <4>1
      <4> QED BY <4>1, <4>2
    <3> HIDE DEF h
    <3> QED BY <3>1, <3>2
  <2> HIDE DEF h
  <2>7. \A i \in J : pay0[h[i]] \in Int /\ pay[i] = pay0[h[i]]
    BY <2>5
  <2>8. SumOver(pay, J) = SumOver(pay0, {h[i] : i \in J})
    BY <2>2, <2>4, <2>7, SumAt
  <2>9. SumOver(pay, J) = SumOver(pay0, 1..n)
    BY <2>6, <2>8, Zenon
  <2> QED BY <2>1, <2>3, <2>9
<1>18. /\ DOMAIN r.zones = Z /\ Amounts(r.zones, Z) /\ PaidFirst(FullOf(t, s), r.zones, Z)
       /\ SumOver(r.zones, Z) = Lack(s) - SumOver(pay, 1..Stored)
  <2>1. /\ DOMAIN r.zones = Z /\ Amounts(r.zones, Z) /\ Within(r.zones, own.zones, Z)
        /\ PaidFirst(own.zones, r.zones, Z)
        /\ SumOver(r.zones, Z) = SumOver(own.zones, Z) - SumOver(pay0, 1..n)
    BY <1>9 DEF ZonesAfter
  <2>2. PaidFirst(FullOf(t, s), r.zones, Z)
    BY <1>5, <2>1, PaidFirstAgain
  <2> QED BY <1>5, <1>17, <2>1, <2>2
<1>19. {p \in r.paid : p.kwh > 0} = {PaidBy(store, pay, i) : i \in Payers(pay)}
  <2>1. ASSUME NEW p \in r.paid, p.kwh > 0 PROVE \E i \in Payers(pay) : p = PaidBy(store, pay, i)
    <3>1. PICK k \in 1..n : p = PaidBy(kept, pay0, k)
      BY <1>9, <2>1
    <3>2. PICK i \in 1..Stored : i = k + d /\ i > d /\ i - d = k
      BY <1>4, <1>7
    <3>3. kept[k] = store[i] /\ pay[i] = pay0[k]
      BY <1>13, <3>2
    <3>4. p = PaidBy(store, pay, i)
      BY <3>1, <3>3 DEF PaidBy
    <3>5. i \in Payers(pay)
      BY <2>1, <3>4 DEF Payers, PaidBy
    <3> QED BY <3>4, <3>5
  <2>2. ASSUME NEW i \in Payers(pay) PROVE PaidBy(store, pay, i) \in r.paid /\ PaidBy(store, pay, i).kwh > 0
    <3>1. i \in 1..Stored /\ pay[i] > 0
      BY DEF Payers
    <3>2. i > d
      BY <1>4, <1>13, <3>1
    <3>3. PICK k \in 1..n : k = i - d /\ pay[i] = pay0[k] /\ kept[k] = store[i]
      BY <1>13, <3>1, <3>2
    <3>4. PaidBy(store, pay, i) = PaidBy(kept, pay0, k)
      BY <3>3 DEF PaidBy
    <3>5. PaidBy(store, pay, i).kwh > 0
      BY <3>1 DEF PaidBy
    <3> QED BY <1>9, <3>4, <3>5
  <2> QED BY <2>1, <2>2
<1> QED BY <1>1, <1>3, <1>15, <1>16, <1>18, <1>19 DEF Effect

LEMMA MeteringIs ==
    ASSUME Input, pv = "net_metering", StoreOk, NEW t \in Range(Tariffs), NEW s \in Int,
           \A x \in Moments(s) : RecordedUse(x) = Used(x), NEW r, r = NetMetering(t, s)
    PROVE  \E d, m, pay : Effect(t, s, r, d, m, pay)
<1>1. r = IF Own(t, s).left > 0 THEN OwnKept(t, s) ELSE TakeCredits(NotExpired(s), Own(t, s).zones)
  BY NetMeteringIs
<1>2. Own(t, s).left = Spare(s)
  BY OwnIs
<1>3. CASE Spare(s) > 0
  <2>1. r = OwnKept(t, s)
    BY <1>1, <1>2, <1>3
  <2> QED BY <1>3, <2>1, SpareIsStored
<1>4. CASE ~(Spare(s) > 0)
  <2>1. r = TakeCredits(NotExpired(s), Own(t, s).zones)
    BY <1>1, <1>2, <1>4
  <2> QED BY <1>4, <2>1, CreditsAreUsed
<1> QED BY <1>3, <1>4

----------------------------------------------------------------------------
(* What credits have paid: the ledger.                                     *)

SumKwh(S) == SumOver([e \in S |-> e.kwh], S)
Entries(S) == IsFiniteSet(S) /\ \A e \in S : e.kwh \in Nat
PaidInto(L, s) == SumKwh({e \in L : e.to = s})
PaidOut(L, s) == SumKwh({e \in L : e.from = s})
PaidUntil(L, s, day) == SumKwh({e \in L : e.from = s /\ e.to <= day})

\* After the first k cycles of tariff t: the ledger L, the store S and the details D.
StartNo(i) == CycleStarts[i]
ZonesPaid(t, k, L, D) ==
    \A j \in 1..k : /\ D[j].kind = "zones" /\ DOMAIN D[j].by = Zones(t) /\ Amounts(D[j].by, Zones(t))
                    /\ PaidFirst(FullOf(t, StartNo(j)), D[j].by, Zones(t))
                    /\ SumOver(D[j].by, Zones(t)) = Lack(StartNo(j)) - PaidInto(L, StartNo(j))
LedgerOk(k, L) ==
    /\ Entries(L)
    /\ \A e \in L : \E i, j \in 1..k : i < j /\ e.from = StartNo(i) /\ e.to = StartNo(j)
    /\ \A e \in L : e.to < Deadline(e.from)
CreditsKept(k, S) ==
    /\ S \in Seq(StoredCredit)
    /\ \A i, j \in 1..Len(S) : i < j => S[i].cycle < S[j].cycle
    /\ \A i \in 1..Len(S) : \E j \in 1..k : S[i].cycle = StartNo(j)
IsKept(S, s) == \E n \in 1..Len(S) : S[n].cycle = s
CreditsAddUp(k, L, S) ==
    \A i \in 1..k :
        /\ \A n \in 1..Len(S) : S[n].cycle = StartNo(i) => S[n].kwh + PaidOut(L, StartNo(i)) = Spare(StartNo(i))
        /\ PaidOut(L, StartNo(i)) <= Spare(StartNo(i))
        /\ ~IsKept(S, StartNo(i)) => \/ PaidOut(L, StartNo(i)) = Spare(StartNo(i))
                                     \/ Deadline(StartNo(i)) <= StartNo(k)
OldestFirst(k, L) ==
    \A e \in L : \A i \in 1..k :
        StartNo(i) < e.from /\ e.to < Deadline(StartNo(i)) =>
            PaidUntil(L, StartNo(i), e.to) = Spare(StartNo(i))
Books(t, k, L, S, D) ==
    /\ ZonesPaid(t, k, L, D) /\ LedgerOk(k, L) /\ CreditsKept(k, S) /\ CreditsAddUp(k, L, S)
    /\ OldestFirst(k, L)

\* Cycles of the tariff at work that are balanced.
Passed == IF phase = "balance" THEN cyc - 1 ELSE Count
BooksBalance ==
    phase \in {"balance", "charge"} =>
        /\ pv # "net_metering" => ledger = {}
        /\ pv = "net_metering" => \E t \in {Tariff}, k \in {Passed}, L \in {ledger}, S \in {store}, D \in {details} :
                                      Books(t, k, L, S, D)

LEMMA KwhIsNumber ==
    ASSUME NEW S, Entries(S) PROVE SumKwh(S) \in Nat
<1> DEFINE f == [e \in S |-> e.kwh]
<1>1. IsFiniteSet(S) /\ \A e \in S : f[e] \in Int /\ f[e] >= 0
  BY DEF Entries
<1> HIDE DEF f
<1>2. SumOver(f, S) \in Int /\ SumOver(f, S) >= 0
  BY <1>1, SumIsNumber, SumIsPositive
<1> QED BY <1>2 DEF SumKwh, f

LEMMA KwhOfNone == SumKwh({}) = 0
<1> DEFINE f == [e \in {} |-> e.kwh]
<1>1. SumOver(f, {}) = 0
  BY SumOfNone
<1> QED BY <1>1 DEF SumKwh

LEMMA KwhOfUnion ==
    ASSUME NEW S, NEW T, Entries(S), Entries(T), S \cap T = {}
    PROVE  SumKwh(S \cup T) = SumKwh(S) + SumKwh(T)
<1> DEFINE f == [e \in S |-> e.kwh]
           g == [e \in T |-> e.kwh]
           h == [e \in S \cup T |-> e.kwh]
<1>1. /\ IsFiniteSet(S) /\ IsFiniteSet(T)
      /\ \A e \in S \cup T : h[e] \in Int
      /\ (\A e \in S : h[e] = f[e] /\ f[e] \in Int) /\ (\A e \in T : h[e] = g[e] /\ g[e] \in Int)
  BY DEF Entries
<1> HIDE DEF f, g, h
<1>2. SumOver(h, S \cup T) = SumOver(h, S) + SumOver(h, T)
  BY <1>1, SumOfUnion
<1>3. SumOver(h, S) = SumOver(f, S) /\ SumOver(h, T) = SumOver(g, T)
  BY <1>1, SumOfSame
<1> QED BY <1>2, <1>3 DEF SumKwh, f, g, h

LEMMA EntriesOfPart ==
    ASSUME NEW S, Entries(S), NEW T, T \subseteq S PROVE Entries(T)
  BY FS_Subset DEF Entries

\* The entries of one cycle s: credit n pays pay[n].
Entry(s, pay, n) == [from |-> store[n].cycle, to |-> s, kwh |-> pay[n]]
EntriesOf(s, pay) == {Entry(s, pay, n) : n \in Payers(pay)}

EntriesFit(s, pay, E) ==
    /\ Entries(E) /\ SumKwh(E) = SumOver(pay, 1..Stored)
    /\ \A e \in E : e.to = s /\ e.kwh \in Nat /\ e.kwh > 0 /\ IsKept(store, e.from)
    /\ \A n \in 1..Stored : SumKwh({e \in E : e.from = store[n].cycle}) = pay[n]

LEMMA EntriesAre ==
    ASSUME StoreOk, NEW s \in Int, NEW pay \in [1..Stored -> Nat], NEW E, E = EntriesOf(s, pay)
    PROVE  EntriesFit(s, pay, E)
<1>1. PICK P : P = Payers(pay)
  OBVIOUS
<1>2. Stored \in Nat /\ IsFiniteSet(1..Stored) /\ P \subseteq 1..Stored /\ IsFiniteSet(P) /\ Len(store) = Stored
  <2>1. Stored \in Nat /\ Len(store) = Stored
    BY DEF StoreOk, Stored
  <2>2. IsFiniteSet(1..Stored) /\ P \subseteq 1..Stored
    BY <1>1, <2>1, FS_Interval DEF Payers
  <2> QED BY <2>1, <2>2, FS_Subset
<1> DEFINE h == [n \in P |-> Entry(s, pay, n)]
           f == [e \in E |-> e.kwh]
<1>3. E = {h[n] : n \in P}
  <2>1. \A n \in P : h[n] = Entry(s, pay, n)
    OBVIOUS
  <2> HIDE DEF h
  <2> QED BY <1>1, <2>1 DEF EntriesOf
<1>4. \A n \in P : pay[n] \in Nat /\ pay[n] > 0
  BY <1>1, <1>2 DEF Payers
<1>5. \A n \in P : /\ h[n].to = s /\ h[n].kwh = pay[n] /\ h[n].from = store[n].cycle
                   /\ f[h[n]] = pay[n]
  BY <1>3 DEF Entry
<1>6. \A n, m \in 1..Stored : store[n].cycle = store[m].cycle => n = m
  <2> SUFFICES ASSUME NEW n \in 1..Stored, NEW m \in 1..Stored, store[n].cycle = store[m].cycle PROVE n = m
    OBVIOUS
  <2>1. PICK a, b : a = store[n].cycle /\ b = store[m].cycle
    OBVIOUS
  <2>2. a \in Int /\ b \in Int
    <3>1. store[n] \in StoredCredit /\ store[m] \in StoredCredit
      BY <1>2 DEF StoreOk
    <3> QED BY <2>1, <3>1 DEF StoredCredit
  <2>3. (n < m => a < b) /\ (m < n => b < a)
    BY <2>1 DEF StoreOk
  <2>4. n < m \/ m < n \/ n = m
    BY <1>2
  <2> QED BY <2>1, <2>2, <2>3, <2>4
<1>7. \A n, m \in P : h[n] = h[m] => n = m
  <2> SUFFICES ASSUME NEW n \in P, NEW m \in P, h[n] = h[m] PROVE n = m
    OBVIOUS
  <2>1. store[n].cycle = store[m].cycle
    BY <1>5
  <2> QED BY <1>2, <1>6, <2>1
<1>8. Entries(E)
  <2>1. IsFiniteSet(E)
    <3> HIDE DEF h
    <3>1. IsFiniteSet({h[n] : n \in P})
      BY <1>2, ImageIsFinite
    <3> QED BY <1>3, <3>1, Zenon
  <2>2. \A e \in E : e.kwh \in Nat
    <3> HIDE DEF h, f
    <3> QED BY <1>3, <1>4, <1>5
  <2> QED BY <2>1, <2>2 DEF Entries
<1>9. SumKwh(E) = SumOver(pay, 1..Stored)
  <2>1. \A n \in P : f[h[n]] \in Int /\ pay[n] = f[h[n]]
    <3> HIDE DEF h, f
    <3> QED BY <1>4, <1>5
  <2> HIDE DEF h, f
  <2>2. SumOver(pay, P) = SumOver(f, {h[n] : n \in P})
    <3>1. \A n, m \in P : h[n] = h[m] => n = m
      BY <1>7
    <3>2. IsFiniteSet(P)
      BY <1>2
    <3>3. \A n \in P : f[h[n]] \in Int
      BY <2>1
    <3>4. \A n \in P : pay[n] = f[h[n]]
      BY <2>1
    <3>5. PICK A, g, k, u : A = P /\ g = h /\ k = f /\ u = pay
      OBVIOUS
    <3>6. IsFiniteSet(A) /\ (\A x, y \in A : g[x] = g[y] => x = y)
      BY <3>1, <3>2, <3>5
    <3>7. (\A x \in A : k[g[x]] \in Int) /\ (\A x \in A : u[x] = k[g[x]])
      BY <3>3, <3>4, <3>5
    <3>8. SumOver(u, A) = SumOver(k, {g[x] : x \in A})
      BY <3>6, <3>7, SumAt
    <3> QED BY <3>5, <3>8
  <2>3. SumOver(pay, P) = SumOver(f, E)
    BY <1>3, <2>2, Zenon
  <2>4. SumOver(pay, P) = SumOver(pay, 1..Stored)
    <3>1. PICK I : I = 1..Stored
      OBVIOUS
    <3>2. (\A n \in I : pay[n] \in Int) /\ (\A n \in I \ P : pay[n] = 0)
      <4>1. \A n \in I : pay[n] \in Nat
        BY <3>1
      <4>2. \A n \in I \ P : ~(pay[n] > 0)
        BY <1>1, <3>1 DEF Payers
      <4> QED BY <4>1, <4>2
    <3>3. IsFiniteSet(I) /\ P \in SUBSET I
      BY <1>2, <3>1
    <3>4. SumOver(pay, P) = SumOver(pay, I)
      BY <3>2, <3>3, SumOfPart
    <3> QED BY <3>1, <3>4
  <2> QED BY <2>3, <2>4 DEF SumKwh, f
<1>10. \A e \in E : e.to = s /\ e.kwh \in Nat /\ e.kwh > 0 /\ IsKept(store, e.from)
  <2> SUFFICES ASSUME NEW n \in P
               PROVE  h[n].to = s /\ h[n].kwh \in Nat /\ h[n].kwh > 0 /\ IsKept(store, h[n].from)
    <3> HIDE DEF h
    <3> QED BY <1>3
  <2>1. IsKept(store, store[n].cycle)
    BY <1>2 DEF IsKept
  <2> HIDE DEF h, f
  <2> QED BY <1>4, <1>5, <2>1
<1>11. ASSUME NEW n \in 1..Stored PROVE SumKwh({e \in E : e.from = store[n].cycle}) = pay[n]
  <2>1. PICK S : S = {e \in E : e.from = store[n].cycle}
    OBVIOUS
  <2>2. CASE n \in P
    <3>1. S = {h[n]}
      <4>1. h[n] \in S
        <5> HIDE DEF h
        <5> QED BY <1>3, <1>5, <2>1, <2>2
      <4>2. ASSUME NEW e \in S PROVE e = h[n]
        <5>1. PICK m \in P : e = h[m]
          <6> HIDE DEF h
          <6> QED BY <1>3, <2>1
        <5>2. store[m].cycle = store[n].cycle
          BY <1>5, <2>1, <5>1
        <5>3. m = n
          BY <1>2, <1>6, <5>2
        <5> QED BY <5>1, <5>3
      <4> HIDE DEF h
      <4> QED BY <4>1, <4>2
    <3>2. PICK x : x = h[n] /\ x.kwh = pay[n] /\ pay[n] \in Int
      <4> HIDE DEF h, f
      <4> QED BY <1>4, <1>5, <2>2
    <3> DEFINE g == [e \in {x} |-> e.kwh]
    <3>3. g[x] = pay[n] /\ Numbers(g, {} \cup {x})
      BY <3>2 DEF Numbers
    <3> HIDE DEF g
    <3>4. SumOver(g, {} \cup {x}) = SumOver(g, {}) + g[x]
      BY <3>3, SumStep, FS_EmptySet
    <3>5. SumOver(g, {}) = 0 /\ {} \cup {x} = {x}
      BY SumOfNone
    <3>6. SumOver(g, {x}) = pay[n]
      BY <3>2, <3>3, <3>4, <3>5
    <3>7. SumKwh({x}) = pay[n]
      BY <3>6 DEF SumKwh, g
    <3>8. S = {x}
      BY <3>1, <3>2, Zenon
    <3> QED BY <2>1, <3>7, <3>8, Zenon
  <2>3. CASE n \notin P
    <3>1. pay[n] = 0
      <4>1. pay[n] \in Nat /\ ~(pay[n] > 0)
        BY <1>1, <2>3 DEF Payers
      <4> QED BY <4>1
    <3>2. S = {}
      <4> SUFFICES ASSUME NEW e \in S PROVE FALSE
        OBVIOUS
      <4>1. PICK m \in P : e = h[m]
        <5> HIDE DEF h
        <5> QED BY <1>3, <2>1
      <4>2. store[m].cycle = store[n].cycle
        BY <1>5, <2>1, <4>1
      <4> QED BY <1>2, <1>6, <2>3, <4>2
    <3> QED BY <2>1, <3>1, <3>2, KwhOfNone
  <2> QED BY <2>2, <2>3
<1> QED BY <1>8, <1>9, <1>10, <1>11 DEF EntriesFit

----------------------------------------------------------------------------
(* The books stay in balance when one more cycle is balanced.              *)

LEMMA BooksStay ==
    UNCHANGED Inputs => \A t, k, L, S, D : Books(t, k, L, S, D)' <=> Books(t, k, L, S, D)
<1> SUFFICES ASSUME UNCHANGED Inputs
             PROVE  \A t, k, L, S, D : Books(t, k, L, S, D)' <=> Books(t, k, L, S, D)
  OBVIOUS
<1>1. readings' = readings /\ pv' = pv
  BY DEF Inputs
<1>2. \A s : Given(s)' = Given(s) /\ Needed(s)' = Needed(s)
  BY <1>1 DEF Given, Needed, Sum, Used, Exported, HourBalance, MeasuredUse, Moments, DaysOfCycle,
              ReadDays, Hour
<1>3. \A s : Spare(s)' = Spare(s) /\ Lack(s)' = Lack(s)
  BY <1>2 DEF Spare, Lack
<1>4. \A t, s : FullOf(t, s)' = FullOf(t, s)
  BY <1>1 DEF FullOf, NeededInHour, InZone, BalanceOf, HourBalance, MeasuredUse, Moments, DaysOfCycle,
              ReadDays, Hour, Used, Exported, Sum
<1>5. \A i : StartNo(i)' = StartNo(i)
  BY <1>1, FileIsSame DEF StartNo
<1>6. \A t, k, L, D : ZonesPaid(t, k, L, D)' <=> ZonesPaid(t, k, L, D)
  BY <1>3, <1>4, <1>5 DEF ZonesPaid
<1>7. \A k, L : LedgerOk(k, L)' <=> LedgerOk(k, L)
  BY <1>5 DEF LedgerOk
<1>8. \A k, S : CreditsKept(k, S)' <=> CreditsKept(k, S)
  BY <1>5 DEF CreditsKept
<1>9. \A k, L, S : CreditsAddUp(k, L, S)' <=> CreditsAddUp(k, L, S)
  BY <1>3, <1>5 DEF CreditsAddUp
<1>10. \A k, L : OldestFirst(k, L)' <=> OldestFirst(k, L)
  BY <1>3, <1>5 DEF OldestFirst
<1> QED BY <1>6, <1>7, <1>8, <1>9, <1>10 DEF Books

LEMMA BooksBegin == \A t, D : Books(t, 0, {}, << >>, D)
<1>1. 1..0 = {} /\ Len(<< >>) = 0 /\ << >> \in Seq(StoredCredit) /\ Entries({})
  BY FS_EmptySet DEF Entries
<1> QED BY <1>1 DEF Books, ZonesPaid, LedgerOk, CreditsKept, CreditsAddUp, OldestFirst

LEMMA StartsAreDays ==
    ASSUME Input
    PROVE  /\ \A i \in 1..Count : /\ StartNo(i) \in Int /\ IsStart(StartNo(i)) /\ Deadline(StartNo(i)) \in Int
           /\ \A i, j \in 1..Count : /\ i < j => StartNo(i) < StartNo(j)
                                     /\ StartNo(i) = StartNo(j) => i = j
<1>1. ASSUME NEW i \in 1..Count
      PROVE  StartNo(i) \in Int /\ IsStart(StartNo(i)) /\ Deadline(StartNo(i)) \in Int
  <2>1. PICK s : s = StartNo(i)
    OBVIOUS
  <2>2. s \in Int /\ IsStart(s)
    BY <2>1, StartOfCycle DEF StartNo
  <2>3. Deadline(s) \in Int
    BY <2>2, DeadlinesIncrease
  <2> QED BY <2>1, <2>2, <2>3
<1> QED BY <1>1, StartsIncrease DEF StartNo

\* Cycle s, the next after k, is balanced.
AtCycle(t, k, s, r, d, m, pay) ==
    /\ Input /\ pv = "net_metering" /\ t \in Range(Tariffs)
    /\ k \in Nat /\ k + 1 \in 1..Count /\ s = StartNo(k + 1)
    /\ LedgerOk(k, ledger) /\ CreditsKept(k, store)
    /\ Effect(t, s, r, d, m, pay)

LEMMA CyclesBefore ==
    ASSUME Input, NEW k \in Nat, k + 1 \in 1..Count, NEW s, s = StartNo(k + 1)
    PROVE  /\ s \in Int /\ Deadline(s) \in Int
           /\ \A i \in 1..k : /\ StartNo(i) \in Int /\ Deadline(StartNo(i)) \in Int /\ StartNo(i) < s
                              /\ StartNo(i) <= StartNo(k)
           /\ \A i, j \in 1..k : StartNo(i) = StartNo(j) => i = j
<1>1. Count \in Nat
  BY CountIs
<1>2. \A i \in 1..k : i \in 1..Count /\ i < k + 1 /\ (i < k \/ i = k)
  BY <1>1
<1>3. s \in Int /\ Deadline(s) \in Int
  BY StartsAreDays
<1>4. ASSUME NEW i \in 1..k
      PROVE  StartNo(i) \in Int /\ Deadline(StartNo(i)) \in Int /\ StartNo(i) < s /\ StartNo(i) <= StartNo(k)
  <2>1. StartNo(i) \in Int /\ Deadline(StartNo(i)) \in Int /\ StartNo(i) < s
    BY <1>2, StartsAreDays
  <2>2. StartNo(i) <= StartNo(k)
    <3>1. CASE i = k
      BY <2>1, <3>1
    <3>2. CASE i < k
      <4>1. k \in 1..Count /\ i \in 1..Count
        BY <1>1, <3>2
      <4>2. StartNo(i) < StartNo(k) /\ StartNo(k) \in Int
        BY <3>2, <4>1, StartsAreDays
      <4> QED BY <2>1, <4>2
    <3> QED BY <1>2, <3>1, <3>2
  <2> QED BY <2>1, <2>2
<1>5. \A i, j \in 1..k : StartNo(i) = StartNo(j) => i = j
  BY <1>2, StartsAreDays
<1> QED BY <1>3, <1>4, <1>5

LEMMA KeptCreditsAre ==
    ASSUME Input, NEW k \in Nat, k + 1 \in 1..Count, CreditsKept(k, store)
    PROVE  /\ StoreOk /\ Stored \in Nat /\ Stored = Len(store)
           /\ \A n \in 1..Stored : /\ store[n].kwh \in Nat /\ store[n].kwh > 0
                                   /\ \E i \in 1..k : store[n].cycle = StartNo(i)
<1>1. Stored \in Nat /\ Stored = Len(store) /\ store \in Seq(StoredCredit)
  BY DEF CreditsKept, Stored
<1>2. \A n \in 1..Stored : /\ store[n].kwh \in Nat /\ store[n].kwh > 0
  <2>1. \A n \in 1..Stored : store[n] \in StoredCredit
    BY <1>1
  <2> QED BY <2>1 DEF StoredCredit
<1>3. \A n \in 1..Stored : \E i \in 1..k : store[n].cycle = StartNo(i)
  BY <1>1 DEF CreditsKept
<1>4. \A n \in 1..Stored : IsStart(store[n].cycle)
  <2>1. Count \in Nat
    BY CountIs
  <2>2. \A i \in 1..k : i \in 1..Count
    BY <2>1
  <2> QED BY <1>3, <2>2, StartsAreDays
<1>5. StoreOk
  BY <1>1, <1>4 DEF StoreOk, CreditsKept
<1> QED BY <1>1, <1>2, <1>3, <1>5

\* What a credit pays, it has; and only while it is good.
LEMMA PaysWhatItHas ==
    ASSUME NEW t, NEW k, NEW s, NEW r, NEW d, NEW m, NEW pay, AtCycle(t, k, s, r, d, m, pay), NEW n \in 1..Stored
    PROVE  /\ pay[n] \in Nat /\ pay[n] <= store[n].kwh /\ d \in Nat /\ m \in Nat /\ d <= m /\ m <= Stored
           /\ n <= d => Deadline(store[n].cycle) <= s
           /\ n > d => Deadline(store[n].cycle) > s
           /\ pay[n] > 0 => d < n /\ n <= m + 1
           /\ d < n /\ n <= m => pay[n] = store[n].kwh
<1>1. /\ Stored \in Nat /\ store[n].kwh \in Nat /\ store[n].kwh > 0
  BY KeptCreditsAre DEF AtCycle
<1>2. Expired(s, d) /\ Pays(d, m, pay)
  BY DEF AtCycle, Effect
<1>3. d \in Nat /\ m \in Nat /\ d <= m /\ m <= Stored /\ pay[n] \in Nat
  BY <1>1, <1>2 DEF Expired, Pays
<1>4. /\ n <= d => pay[n] = 0
      /\ d < n /\ n <= m => pay[n] = store[n].kwh
      /\ n = m + 1 => pay[n] < store[n].kwh
      /\ n > m + 1 => pay[n] = 0
  BY <1>2 DEF Pays
<1>5. /\ n <= d => Deadline(store[n].cycle) <= s
      /\ n > d => Deadline(store[n].cycle) > s
  BY <1>2 DEF Expired
<1> QED BY <1>1, <1>3, <1>4, <1>5

----------------------------------------------------------------------------
(* The ledger after one more cycle.                                        *)

LedgerWith(s, pay) == ledger \cup EntriesOf(s, pay)

LEMMA OldEntriesAre ==
    ASSUME NEW t, NEW k, NEW s, NEW r, NEW d, NEW m, NEW pay, AtCycle(t, k, s, r, d, m, pay), NEW e \in ledger
    PROVE  /\ \E i, j \in 1..k : i < j /\ e.from = StartNo(i) /\ e.to = StartNo(j)
           /\ e.to \in Int /\ e.to < s /\ e.from \in Int /\ e.from < s /\ e.to < Deadline(e.from)
<1>1. PICK i, j \in 1..k : i < j /\ e.from = StartNo(i) /\ e.to = StartNo(j)
  BY DEF AtCycle, LedgerOk
<1>2. \A x \in 1..k : StartNo(x) \in Int /\ StartNo(x) < s
  BY CyclesBefore DEF AtCycle
<1> QED BY <1>1, <1>2 DEF AtCycle, LedgerOk

LEMMA NewEntriesAre ==
    ASSUME NEW t, NEW k, NEW s, NEW r, NEW d, NEW m, NEW pay, AtCycle(t, k, s, r, d, m, pay),
           NEW E, E = EntriesOf(s, pay)
    PROVE  /\ Entries(ledger) /\ Entries(E) /\ ledger \cap E = {}
           /\ SumKwh(E) = SumOver(pay, 1..Stored)
           /\ \A e \in E : e.to = s /\ \E n \in 1..Stored : /\ e.from = store[n].cycle /\ e.kwh = pay[n]
                                                            /\ pay[n] > 0
           /\ \A n \in 1..Stored : SumKwh({e \in E : e.from = store[n].cycle}) = pay[n]
<1>1. Entries(ledger) /\ s \in Int
  BY CyclesBefore DEF AtCycle, LedgerOk
<1>2. StoreOk /\ pay \in [1..Stored -> Nat]
  BY KeptCreditsAre DEF AtCycle, Effect, Pays
<1>3. /\ Entries(E) /\ SumKwh(E) = SumOver(pay, 1..Stored)
      /\ \A e \in E : e.to = s
      /\ \A n \in 1..Stored : SumKwh({e \in E : e.from = store[n].cycle}) = pay[n]
  <2>1. EntriesFit(s, pay, E)
    BY <1>1, <1>2, EntriesAre
  <2> QED BY <2>1 DEF EntriesFit
<1>4. ledger \cap E = {}
  <2> SUFFICES ASSUME NEW e \in ledger, e \in E PROVE FALSE
    OBVIOUS
  <2>1. e.to = s /\ e.to \in Int /\ e.to < s
    BY <1>3, OldEntriesAre
  <2> QED BY <1>1, <2>1
<1>5. \A e \in E : \E n \in 1..Stored : e.from = store[n].cycle /\ e.kwh = pay[n] /\ pay[n] > 0
  BY DEF EntriesOf, Entry, Payers
<1> QED BY <1>1, <1>3, <1>4, <1>5

\* Sums over the old and the new entries.
Parted(X, E, A, B, C) ==
    Entries(X) /\ Entries(E) /\ X \cap E = {} /\ A \subseteq X /\ B \subseteq E /\ C = A \cup B

LEMMA KwhAfter ==
    ASSUME NEW X, NEW E, NEW A, NEW B, NEW C, Parted(X, E, A, B, C)
    PROVE  SumKwh(C) = SumKwh(A) + SumKwh(B) /\ SumKwh(A) \in Nat /\ SumKwh(B) \in Nat
<1>1. Entries(A) /\ Entries(B) /\ A \cap B = {} /\ C = A \cup B
  BY EntriesOfPart DEF Parted
<1>2. SumKwh(A \cup B) = SumKwh(A) + SumKwh(B)
  BY <1>1, KwhOfUnion
<1>3. SumKwh(C) = SumKwh(A \cup B)
  BY <1>1, Zenon
<1> QED BY <1>1, <1>2, <1>3, KwhIsNumber

LEMMA LedgerAfter ==
    ASSUME NEW t, NEW k, NEW s, NEW r, NEW d, NEW m, NEW pay, AtCycle(t, k, s, r, d, m, pay),
           NEW L, L = LedgerWith(s, pay)
    PROVE  /\ PaidInto(L, s) = SumOver(pay, 1..Stored)
           /\ \A j \in 1..k : PaidInto(L, StartNo(j)) = PaidInto(ledger, StartNo(j))
           /\ PaidOut(L, s) = 0
           /\ \A n \in 1..Stored : PaidOut(L, store[n].cycle) = PaidOut(ledger, store[n].cycle) + pay[n]
           /\ \A c : ~IsKept(store, c) => PaidOut(L, c) = PaidOut(ledger, c)
           /\ \A c : PaidOut(ledger, c) \in Nat
           /\ \A c : PaidUntil(L, c, s) = PaidOut(L, c)
           /\ \A c : \A e \in ledger : PaidUntil(L, c, e.to) = PaidUntil(ledger, c, e.to)
<1>1. PICK E : E = EntriesOf(s, pay)
  OBVIOUS
<1>2. L = ledger \cup E
  BY <1>1 DEF LedgerWith
<1>3. /\ SumKwh(E) = SumOver(pay, 1..Stored)
      /\ \A e \in E : e.to = s /\ \E n \in 1..Stored : /\ e.from = store[n].cycle /\ e.kwh = pay[n]
                                                       /\ pay[n] > 0
      /\ \A n \in 1..Stored : SumKwh({e \in E : e.from = store[n].cycle}) = pay[n]
  BY <1>1, NewEntriesAre
<1>4. \A e \in ledger : e.to \in Int /\ e.to < s /\ e.from \in Int /\ e.from < s
  BY OldEntriesAre
<1>5. /\ s \in Int /\ Stored = Len(store) /\ Stored \in Nat
      /\ \A j \in 1..k : StartNo(j) \in Int /\ StartNo(j) < s
      /\ \A n \in 1..Stored : \E i \in 1..k : store[n].cycle = StartNo(i)
  BY CyclesBefore, KeptCreditsAre DEF AtCycle
<1>6. Entries(ledger) /\ Entries(E) /\ ledger \cap E = {}
  BY <1>1, NewEntriesAre
<1>7. PaidInto(L, s) = SumOver(pay, 1..Stored)
  <2>1. {e \in L : e.to = s} = E
    BY <1>2, <1>3, <1>4, <1>5
  <2> QED BY <1>3, <2>1 DEF PaidInto
<1>8. ASSUME NEW j \in 1..k PROVE PaidInto(L, StartNo(j)) = PaidInto(ledger, StartNo(j))
  <2>1. PICK c \in Int : c = StartNo(j) /\ c < s
    BY <1>5
  <2>2. {e \in L : e.to = c} = {e \in ledger : e.to = c}
    BY <1>2, <1>3, <1>5, <2>1
  <2> QED BY <2>1, <2>2 DEF PaidInto
<1>9. PaidOut(L, s) = 0
  <2>1. \A e \in E : e.from # s
    BY <1>3, <1>5
  <2>2. {e \in L : e.from = s} = {}
    BY <1>2, <1>4, <1>5, <2>1
  <2> QED BY <2>2, KwhOfNone DEF PaidOut
<1>10. ASSUME NEW c
       PROVE  /\ PaidOut(L, c) = PaidOut(ledger, c) + SumKwh({e \in E : e.from = c})
              /\ PaidOut(ledger, c) \in Nat
  <2>1. PICK A, B, C : /\ A = {e \in ledger : e.from = c} /\ B = {e \in E : e.from = c}
                       /\ C = {e \in L : e.from = c}
    OBVIOUS
  <2>2. A \subseteq ledger /\ B \subseteq E /\ C = A \cup B
    BY <1>2, <2>1
  <2>3. SumKwh(C) = SumKwh(A) + SumKwh(B) /\ SumKwh(A) \in Nat
    <3>1. Parted(ledger, E, A, B, C)
      BY <1>6, <2>2 DEF Parted
    <3> QED BY <3>1, KwhAfter
  <2> QED BY <2>1, <2>3 DEF PaidOut
<1>11. ASSUME NEW n \in 1..Stored PROVE PaidOut(L, store[n].cycle) = PaidOut(ledger, store[n].cycle) + pay[n]
  BY <1>3, <1>10
<1>12. ASSUME NEW c, ~IsKept(store, c) PROVE PaidOut(L, c) = PaidOut(ledger, c)
  <2>1. {e \in E : e.from = c} = {}
    BY <1>3, <1>5, <1>12 DEF IsKept
  <2>2. SumKwh({e \in E : e.from = c}) = 0
    BY <2>1, KwhOfNone
  <2> QED BY <1>10, <2>2
<1>13. ASSUME NEW c PROVE PaidUntil(L, c, s) = PaidOut(L, c)
  <2>1. \A e \in L : e.to \in Int /\ e.to <= s
    BY <1>2, <1>3, <1>4, <1>5
  <2>2. {e \in L : e.from = c /\ e.to <= s} = {e \in L : e.from = c}
    BY <2>1
  <2> QED BY <2>2 DEF PaidUntil, PaidOut
<1>14. ASSUME NEW c, NEW x \in ledger PROVE PaidUntil(L, c, x.to) = PaidUntil(ledger, c, x.to)
  <2>1. PICK u \in Int : u = x.to /\ u < s
    BY <1>4
  <2>2. \A e \in E : ~(e.to <= u)
    BY <1>3, <1>5, <2>1
  <2>3. {e \in L : e.from = c /\ e.to <= u} = {e \in ledger : e.from = c /\ e.to <= u}
    BY <1>2, <2>2
  <2> QED BY <2>1, <2>3 DEF PaidUntil
<1> QED BY <1>7, <1>8, <1>9, <1>10, <1>11, <1>12, <1>13, <1>14

----------------------------------------------------------------------------
(* What the books say of the cycles up to k, they say of the next.         *)

\* The store after cycle s: the unspent credits move up, what s spares is last.
LEMMA StoreAfter ==
    ASSUME NEW t, NEW k, NEW s, NEW r, NEW d, NEW m, NEW pay, AtCycle(t, k, s, r, d, m, pay)
    PROVE  /\ r.store \in Seq(StoredCredit) /\ Len(r.store) \in Nat
           /\ \A n \in 1..Len(r.store) :
                  \/ /\ m + n \in 1..Stored
                     /\ r.store[n].cycle = store[m + n].cycle
                     /\ r.store[n].kwh = store[m + n].kwh - pay[m + n]
                  \/ n = Len(r.store) /\ r.store[n].cycle = s /\ r.store[n].kwh = Spare(s) /\ Spare(s) > 0
           /\ \A n \in 1..Stored : n > m => /\ n - m \in 1..Len(r.store)
                                            /\ r.store[n - m].cycle = store[n].cycle
           /\ Spare(s) > 0 => IsKept(r.store, s)
<1>1. PICK next : next = r.store
  OBVIOUS
<1>2. Restored(s, m, pay, next) /\ Stored \in Nat
  BY <1>1, KeptCreditsAre DEF AtCycle, Effect
<1>3. m \in Int /\ m <= Stored /\ m >= 0
  <2>1. Expired(s, d) /\ Pays(d, m, pay)
    BY DEF AtCycle, Effect
  <2> QED BY <1>2, <2>1 DEF Expired, Pays
<1>4. /\ next \in Seq(StoredCredit)
      /\ Len(next) = (Stored - m) + (IF Spare(s) > 0 THEN 1 ELSE 0)
      /\ \A q \in 1..(Stored - m) : next[q] = LeftOf(store, pay, m + q)
      /\ Spare(s) > 0 => next[(Stored - m) + 1] = [kwh |-> Spare(s), cycle |-> s]
  BY <1>2 DEF Restored
<1>5. Len(next) \in Nat
  BY <1>4
<1>6. ASSUME NEW n \in 1..Len(next)
      PROVE  \/ /\ m + n \in 1..Stored
                /\ next[n].cycle = store[m + n].cycle
                /\ next[n].kwh = store[m + n].kwh - pay[m + n]
             \/ n = Len(next) /\ next[n].cycle = s /\ next[n].kwh = Spare(s) /\ Spare(s) > 0
  <2>1. CASE n \in 1..(Stored - m)
    <3>1. m + n \in 1..Stored
      BY <1>2, <1>3, <2>1
    <3>2. next[n] = LeftOf(store, pay, m + n)
      BY <1>4, <2>1
    <3> QED BY <3>1, <3>2 DEF LeftOf
  <2>2. CASE n \notin 1..(Stored - m)
    <3>1. Spare(s) > 0 /\ n = (Stored - m) + 1 /\ n = Len(next)
      BY <1>2, <1>3, <1>4, <1>5, <2>2
    <3> QED BY <1>4, <3>1
  <2> QED BY <2>1, <2>2
<1>7. ASSUME NEW n \in 1..Stored, n > m
      PROVE  n - m \in 1..Len(next) /\ next[n - m].cycle = store[n].cycle
  <2>1. n - m \in 1..(Stored - m) /\ m + (n - m) = n
    BY <1>2, <1>3, <1>7
  <2>2. n - m \in 1..Len(next)
    BY <1>2, <1>3, <1>4, <2>1
  <2>3. next[n - m] = LeftOf(store, pay, m + (n - m))
    BY <1>4, <2>1
  <2> QED BY <2>1, <2>2, <2>3 DEF LeftOf
<1>8. ASSUME Spare(s) > 0 PROVE IsKept(next, s)
  <2>1. (Stored - m) + 1 \in 1..Len(next)
    BY <1>2, <1>3, <1>4, <1>8
  <2> QED BY <1>4, <1>8, <2>1 DEF IsKept
<1> QED BY <1>1, <1>4, <1>5, <1>6, <1>7, <1>8

LEMMA CreditsKeptAfter ==
    ASSUME NEW t, NEW k, NEW s, NEW r, NEW d, NEW m, NEW pay, AtCycle(t, k, s, r, d, m, pay)
    PROVE  CreditsKept(k + 1, r.store)
<1>1. PICK next : next = r.store
  OBVIOUS
<1>2. /\ next \in Seq(StoredCredit) /\ Len(next) \in Nat
      /\ \A n \in 1..Len(next) :
             \/ m + n \in 1..Stored /\ next[n].cycle = store[m + n].cycle
             \/ n = Len(next) /\ next[n].cycle = s
  BY <1>1, StoreAfter
<1>3. /\ s \in Int /\ k \in Nat /\ s = StartNo(k + 1)
      /\ \A i \in 1..k : StartNo(i) \in Int /\ StartNo(i) < s
  BY CyclesBefore DEF AtCycle
<1>4. /\ \A n \in 1..Stored : \E i \in 1..k : store[n].cycle = StartNo(i)
      /\ \A i, j \in 1..Stored : i < j => store[i].cycle < store[j].cycle
      /\ Stored \in Nat
  BY KeptCreditsAre DEF AtCycle, StoreOk
<1>5. m \in Int
  BY DEF AtCycle, Effect, Pays, Expired
<1>6. ASSUME NEW n \in 1..Len(next) PROVE \E j \in 1..(k + 1) : next[n].cycle = StartNo(j)
  <2>1. CASE m + n \in 1..Stored /\ next[n].cycle = store[m + n].cycle
    <3>1. PICK i \in 1..k : store[m + n].cycle = StartNo(i)
      BY <1>4, <2>1
    <3>2. i \in 1..(k + 1)
      BY <1>3
    <3> QED BY <2>1, <3>1, <3>2
  <2>2. CASE next[n].cycle = s
    <3>1. k + 1 \in 1..(k + 1)
      BY <1>3
    <3> QED BY <1>3, <2>2, <3>1
  <2> QED BY <1>2, <2>1, <2>2
<1>7. ASSUME NEW i \in 1..Len(next), NEW j \in 1..Len(next), i < j PROVE next[i].cycle < next[j].cycle
  <2>1. m + i \in 1..Stored /\ next[i].cycle = store[m + i].cycle
    <3>1. i # Len(next)
      BY <1>2, <1>7
    <3> QED BY <1>2, <3>1
  <2>2. CASE m + j \in 1..Stored /\ next[j].cycle = store[m + j].cycle
    <3>1. m + i < m + j
      BY <1>2, <1>5, <1>7
    <3> QED BY <1>4, <2>1, <2>2, <3>1
  <2>3. CASE next[j].cycle = s
    BY <1>3, <1>4, <2>1, <2>3
  <2> QED BY <1>2, <2>2, <2>3
<1> QED BY <1>1, <1>2, <1>6, <1>7 DEF CreditsKept

LEMMA LedgerOkAfter ==
    ASSUME NEW t, NEW k, NEW s, NEW r, NEW d, NEW m, NEW pay, AtCycle(t, k, s, r, d, m, pay),
           NEW L, L = LedgerWith(s, pay)
    PROVE  LedgerOk(k + 1, L)
<1>1. PICK E : E = EntriesOf(s, pay)
  OBVIOUS
<1>2. /\ Entries(ledger) /\ Entries(E) /\ L = ledger \cup E
      /\ \A e \in E : e.to = s /\ \E n \in 1..Stored : e.from = store[n].cycle /\ pay[n] > 0
  BY <1>1, NewEntriesAre DEF LedgerWith
<1>3. k \in Nat /\ s = StartNo(k + 1)
  BY DEF AtCycle
<1>4. Entries(L)
  BY <1>2, FS_Union DEF Entries
<1>5. ASSUME NEW e \in L
      PROVE  /\ \E i, j \in 1..(k + 1) : i < j /\ e.from = StartNo(i) /\ e.to = StartNo(j)
             /\ e.to < Deadline(e.from)
  <2>1. CASE e \in ledger
    <3>1. PICK i, j \in 1..k : i < j /\ e.from = StartNo(i) /\ e.to = StartNo(j)
      BY <2>1, OldEntriesAre
    <3>2. i \in 1..(k + 1) /\ j \in 1..(k + 1)
      BY <1>3
    <3> QED BY <2>1, <3>1, <3>2, OldEntriesAre
  <2>2. CASE e \in E
    <3>1. PICK n \in 1..Stored : e.to = s /\ e.from = store[n].cycle /\ pay[n] > 0
      BY <1>2, <2>2
    <3>2. PICK i \in 1..k : store[n].cycle = StartNo(i)
      BY KeptCreditsAre DEF AtCycle
    <3>3. i \in 1..(k + 1) /\ k + 1 \in 1..(k + 1) /\ i < k + 1
      BY <1>3
    <3>4. d < n /\ n > d => Deadline(store[n].cycle) > s
      BY PaysWhatItHas
    <3>5. d < n /\ d \in Nat
      BY <3>1, PaysWhatItHas
    <3>6. Deadline(store[n].cycle) > s
      BY <3>4, <3>5
    <3>7. Deadline(store[n].cycle) \in Int /\ s \in Int
      BY <3>2, CyclesBefore DEF AtCycle
    <3>8. e.to < Deadline(e.from)
      BY <3>1, <3>6, <3>7
    <3> QED BY <1>3, <3>1, <3>2, <3>3, <3>8
  <2> QED BY <1>2, <2>1, <2>2
<1> QED BY <1>4, <1>5 DEF LedgerOk

LEMMA ZonesPaidAfter ==
    ASSUME NEW t, NEW k, NEW s, NEW r, NEW d, NEW m, NEW pay, AtCycle(t, k, s, r, d, m, pay),
           NEW L, L = LedgerWith(s, pay), NEW D, ZonesPaid(t, k, ledger, D),
           NEW D1, \A j \in 1..k : D1[j] = D[j], D1[k + 1] = [kind |-> "zones", by |-> r.zones]
    PROVE  ZonesPaid(t, k + 1, L, D1)
<1>1. k \in Nat /\ s = StartNo(k + 1)
  BY DEF AtCycle
<1>2. /\ PaidInto(L, s) = SumOver(pay, 1..Stored)
      /\ \A j \in 1..k : PaidInto(L, StartNo(j)) = PaidInto(ledger, StartNo(j))
  BY LedgerAfter
<1>3. /\ DOMAIN r.zones = Zones(t) /\ Amounts(r.zones, Zones(t))
      /\ PaidFirst(FullOf(t, s), r.zones, Zones(t))
      /\ SumOver(r.zones, Zones(t)) = Lack(s) - SumOver(pay, 1..Stored)
  BY DEF AtCycle, Effect
<1>4. PICK e : e = D1[k + 1]
  OBVIOUS
<1>5. e.kind = "zones" /\ e.by = r.zones
  BY <1>4
<1> SUFFICES ASSUME NEW j \in 1..(k + 1)
             PROVE  /\ D1[j].kind = "zones" /\ DOMAIN D1[j].by = Zones(t) /\ Amounts(D1[j].by, Zones(t))
                    /\ PaidFirst(FullOf(t, StartNo(j)), D1[j].by, Zones(t))
                    /\ SumOver(D1[j].by, Zones(t)) = Lack(StartNo(j)) - PaidInto(L, StartNo(j))
  BY DEF ZonesPaid
<1>6. CASE j = k + 1
  BY <1>1, <1>2, <1>3, <1>4, <1>5, <1>6
<1>7. CASE j \in 1..k
  <2>1. D1[j] = D[j]
    BY <1>7
  <2> QED BY <1>2, <1>7, <2>1 DEF ZonesPaid
<1> QED BY <1>1, <1>6, <1>7

LEMMA CreditsAddUpAfter ==
    ASSUME NEW t, NEW k, NEW s, NEW r, NEW d, NEW m, NEW pay, AtCycle(t, k, s, r, d, m, pay),
           NEW L, L = LedgerWith(s, pay), CreditsAddUp(k, ledger, store)
    PROVE  CreditsAddUp(k + 1, L, r.store)
<1>1. PICK next : next = r.store
  OBVIOUS
<1>2. /\ next \in Seq(StoredCredit) /\ Len(next) \in Nat
      /\ \A n \in 1..Len(next) :
             \/ /\ m + n \in 1..Stored
                /\ next[n].cycle = store[m + n].cycle
                /\ next[n].kwh = store[m + n].kwh - pay[m + n]
             \/ n = Len(next) /\ next[n].cycle = s /\ next[n].kwh = Spare(s) /\ Spare(s) > 0
      /\ \A n \in 1..Stored : n > m => n - m \in 1..Len(next) /\ next[n - m].cycle = store[n].cycle
      /\ Spare(s) > 0 => IsKept(next, s)
  BY <1>1, StoreAfter
<1>3. /\ s \in Int /\ Deadline(s) \in Int /\ k \in Nat /\ s = StartNo(k + 1)
      /\ \A i \in 1..k : /\ StartNo(i) \in Int /\ Deadline(StartNo(i)) \in Int /\ StartNo(i) < s
                         /\ StartNo(i) <= StartNo(k)
      /\ \A i, j \in 1..k : StartNo(i) = StartNo(j) => i = j
  BY CyclesBefore DEF AtCycle
<1>4. /\ Stored \in Nat /\ Stored = Len(store)
      /\ \A n \in 1..Stored : /\ store[n].kwh \in Nat
                              /\ \E i \in 1..k : store[n].cycle = StartNo(i)
  BY KeptCreditsAre DEF AtCycle
<1>5. /\ PaidOut(L, s) = 0
      /\ \A n \in 1..Stored : PaidOut(L, store[n].cycle) = PaidOut(ledger, store[n].cycle) + pay[n]
      /\ \A c : ~IsKept(store, c) => PaidOut(L, c) = PaidOut(ledger, c)
      /\ \A c : PaidOut(ledger, c) \in Nat
  BY LedgerAfter
<1>6. \A c : Spare(c) \in Nat
  <2> SUFFICES ASSUME NEW c PROVE Spare(c) \in Nat
    OBVIOUS
  <2> QED BY OwnIs DEF AtCycle
<1>7. ASSUME NEW n \in 1..Stored
      PROVE  /\ pay[n] \in Nat /\ pay[n] <= store[n].kwh
             /\ n <= d => Deadline(store[n].cycle) <= s
             /\ d < n /\ n <= m => pay[n] = store[n].kwh
             /\ d \in Nat /\ m \in Nat
  BY PaysWhatItHas
<1> SUFFICES ASSUME NEW i \in 1..(k + 1), NEW c, c = StartNo(i)
             PROVE  /\ \A n \in 1..Len(next) : next[n].cycle = c => next[n].kwh + PaidOut(L, c) = Spare(c)
                    /\ PaidOut(L, c) <= Spare(c)
                    /\ ~IsKept(next, c) => PaidOut(L, c) = Spare(c) \/ Deadline(c) <= s
  BY <1>1, <1>3 DEF CreditsAddUp
<1>8. CASE i = k + 1
  <2>1. c = s /\ PaidOut(L, c) = 0 /\ Spare(c) \in Nat
    BY <1>3, <1>5, <1>6, <1>8
  <2>2. ASSUME NEW n \in 1..Len(next), next[n].cycle = c PROVE next[n].kwh = Spare(c)
    <3>1. ~(m + n \in 1..Stored /\ next[n].cycle = store[m + n].cycle)
      BY <1>3, <1>4, <2>1, <2>2
    <3> QED BY <1>2, <2>1, <3>1
  <2>3. ~IsKept(next, c) => PaidOut(L, c) = Spare(c)
    BY <1>2, <2>1
  <2> QED BY <2>1, <2>2, <2>3
<1>9. CASE i \in 1..k
  <2>1. c \in Int /\ Deadline(c) \in Int /\ c < s /\ Spare(c) \in Nat /\ PaidOut(ledger, c) \in Nat
    BY <1>3, <1>5, <1>6, <1>9
  <2>2. /\ \A n \in 1..Stored : store[n].cycle = c => store[n].kwh + PaidOut(ledger, c) = Spare(c)
        /\ PaidOut(ledger, c) <= Spare(c)
        /\ ~IsKept(store, c) => PaidOut(ledger, c) = Spare(c) \/ Deadline(c) <= StartNo(k)
    BY <1>4, <1>9 DEF CreditsAddUp
  <2>3. CASE IsKept(store, c)
    <3>1. PICK p \in 1..Stored : store[p].cycle = c
      BY <1>4, <2>3 DEF IsKept
    <3>2. /\ PaidOut(L, c) = PaidOut(ledger, c) + pay[p] /\ pay[p] \in Nat /\ pay[p] <= store[p].kwh
          /\ store[p].kwh \in Nat /\ store[p].kwh + PaidOut(ledger, c) = Spare(c)
          /\ m \in Nat /\ d \in Nat
      BY <1>4, <1>5, <1>7, <2>2, <3>1
    <3>3. PaidOut(L, c) <= Spare(c)
      BY <2>1, <3>2
    <3>4. ASSUME NEW n \in 1..Len(next), next[n].cycle = c PROVE next[n].kwh + PaidOut(L, c) = Spare(c)
      <4>1. /\ m + n \in 1..Stored /\ next[n].cycle = store[m + n].cycle
            /\ next[n].kwh = store[m + n].kwh - pay[m + n]
        <5>1. next[n].cycle # s
          <6>1. c # s
            BY <1>3, <2>1
          <6> QED BY <3>4, <6>1
        <5> QED BY <1>2, <5>1
      <4>2. PICK q \in 1..Stored : q = m + n /\ store[q].cycle = c /\ next[n].kwh = store[q].kwh - pay[q]
        BY <3>4, <4>1
      <4>3. /\ PaidOut(L, c) = PaidOut(ledger, c) + pay[q] /\ pay[q] \in Nat
            /\ store[q].kwh \in Nat /\ store[q].kwh + PaidOut(ledger, c) = Spare(c)
        BY <1>4, <1>5, <1>7, <2>2, <4>2
      <4> QED BY <2>1, <4>2, <4>3
    <3>5. ASSUME ~IsKept(next, c) PROVE PaidOut(L, c) = Spare(c) \/ Deadline(c) <= s
      <4>1. ~(p > m)
        <5> SUFFICES ASSUME p > m PROVE FALSE
          OBVIOUS
        <5>1. p - m \in 1..Len(next) /\ next[p - m].cycle = c
          BY <1>2, <3>1
        <5> QED BY <3>5, <5>1 DEF IsKept
      <4>2. CASE p <= d
        BY <1>7, <3>1, <4>2
      <4>3. CASE d < p
        <5>1. pay[p] = store[p].kwh
          BY <1>7, <3>2, <4>1, <4>3
        <5> QED BY <2>1, <3>2, <5>1
      <4> QED BY <3>2, <4>2, <4>3
    <3> QED BY <3>3, <3>4, <3>5
  <2>4. CASE ~IsKept(store, c)
    <3>1. PaidOut(L, c) = PaidOut(ledger, c)
      BY <1>5, <2>4
    <3>2. ASSUME NEW n \in 1..Len(next), next[n].cycle = c PROVE FALSE
      <4>1. c # s
        BY <1>3, <2>1
      <4>2. m + n \in 1..Stored /\ c = store[m + n].cycle
        BY <1>2, <3>2, <4>1
      <4> QED BY <1>4, <2>4, <4>2 DEF IsKept
    <3>3. PaidOut(L, c) = Spare(c) \/ Deadline(c) <= s
      <4>1. StartNo(k) \in Int /\ StartNo(k) < s
        <5>1. k \in 1..k
          BY <1>3, <1>9
        <5> QED BY <1>3, <5>1
      <4> QED BY <1>3, <2>1, <2>2, <2>4, <3>1, <4>1
    <3> QED BY <2>2, <3>1, <3>2, <3>3
  <2> QED BY <2>3, <2>4
<1> QED BY <1>3, <1>8, <1>9

LEMMA OldestFirstAfter ==
    ASSUME NEW t, NEW k, NEW s, NEW r, NEW d, NEW m, NEW pay, AtCycle(t, k, s, r, d, m, pay),
           NEW L, L = LedgerWith(s, pay), CreditsAddUp(k, ledger, store), OldestFirst(k, ledger)
    PROVE  OldestFirst(k + 1, L)
<1>1. PICK E : E = EntriesOf(s, pay)
  OBVIOUS
<1>2. /\ L = ledger \cup E
      /\ \A e \in E : e.to = s /\ \E n \in 1..Stored : e.from = store[n].cycle /\ pay[n] > 0
  BY <1>1, NewEntriesAre DEF LedgerWith
<1>3. /\ s \in Int /\ k \in Nat /\ s = StartNo(k + 1)
      /\ \A i \in 1..k : /\ StartNo(i) \in Int /\ Deadline(StartNo(i)) \in Int /\ StartNo(i) < s
                         /\ StartNo(i) <= StartNo(k)
  BY CyclesBefore DEF AtCycle
<1>4. /\ Stored \in Nat /\ Stored = Len(store) /\ StoreOk
      /\ \A n \in 1..Stored : /\ store[n].kwh \in Nat
                              /\ \E i \in 1..k : store[n].cycle = StartNo(i)
  BY KeptCreditsAre DEF AtCycle
<1>5. /\ \A n \in 1..Stored : PaidOut(L, store[n].cycle) = PaidOut(ledger, store[n].cycle) + pay[n]
      /\ \A c : ~IsKept(store, c) => PaidOut(L, c) = PaidOut(ledger, c)
      /\ \A c : PaidOut(ledger, c) \in Nat
      /\ \A c : PaidUntil(L, c, s) = PaidOut(L, c)
      /\ \A c : \A e \in ledger : PaidUntil(L, c, e.to) = PaidUntil(ledger, c, e.to)
  BY LedgerAfter
<1>6. ASSUME NEW n \in 1..Stored
      PROVE  /\ n <= d => Deadline(store[n].cycle) <= s
             /\ pay[n] > 0 => d < n /\ n <= m + 1
             /\ d < n /\ n <= m => pay[n] = store[n].kwh
             /\ d \in Nat /\ m \in Nat
  BY PaysWhatItHas
<1> SUFFICES ASSUME NEW e \in L, NEW i \in 1..(k + 1), NEW c, c = StartNo(i), c < e.from, e.to < Deadline(c)
             PROVE  PaidUntil(L, c, e.to) = Spare(c)
  BY DEF OldestFirst
<1>7. e.from \in Int /\ e.from < s
  <2>1. CASE e \in ledger
    BY <2>1, OldEntriesAre
  <2>2. CASE e \in E
    BY <1>2, <1>3, <1>4, <2>2
  <2> QED BY <1>2, <2>1, <2>2
<1>8. i \in 1..k
  <2>1. i # k + 1
    <3> SUFFICES ASSUME i = k + 1 PROVE FALSE
      OBVIOUS
    <3>1. c = s
      BY <1>3
    <3> QED BY <1>3, <1>7, <3>1
  <2> QED BY <1>3, <2>1
<1>9. CASE e \in ledger
  <2>1. PaidUntil(ledger, c, e.to) = Spare(c)
    BY <1>8, <1>9 DEF OldestFirst
  <2> QED BY <1>5, <1>9, <2>1
<1>10. CASE e \in E
  <2>1. PICK n \in 1..Stored : e.to = s /\ e.from = store[n].cycle /\ pay[n] > 0
    BY <1>2, <1>10
  <2>2. PaidUntil(L, c, e.to) = PaidOut(L, c)
    BY <1>5, <2>1
  <2>3. c \in Int /\ Deadline(c) \in Int /\ s < Deadline(c) /\ c < store[n].cycle
    BY <1>3, <1>8, <2>1
  <2>4. /\ \A p \in 1..Stored : store[p].cycle = c => store[p].kwh + PaidOut(ledger, c) = Spare(c)
        /\ ~IsKept(store, c) => PaidOut(ledger, c) = Spare(c) \/ Deadline(c) <= StartNo(k)
    BY <1>4, <1>8 DEF CreditsAddUp
  <2>5. CASE IsKept(store, c)
    <3>1. PICK p \in 1..Stored : store[p].cycle = c
      BY <1>4, <2>5 DEF IsKept
    <3>2. p < n
      <4> SUFFICES ASSUME ~(p < n) PROVE FALSE
        OBVIOUS
      <4>1. n = p \/ n < p
        BY <1>4
      <4>2. n < p => store[n].cycle < store[p].cycle
        BY <1>4 DEF StoreOk
      <4> QED BY <1>7, <2>1, <2>3, <3>1, <4>1, <4>2
    <3>3. p <= m /\ d < p
      <4>1. d < n /\ n <= m + 1 /\ m \in Nat /\ d \in Nat
        BY <1>6, <2>1
      <4>2. ~(p <= d)
        <5>1. p <= d => Deadline(c) <= s
          BY <1>6, <3>1
        <5> QED BY <1>3, <2>3, <5>1
      <4> QED BY <1>4, <3>2, <4>1, <4>2
    <3>4. pay[p] = store[p].kwh /\ store[p].kwh \in Nat
      BY <1>4, <1>6, <3>3
    <3>5. PaidOut(L, c) = PaidOut(ledger, c) + store[p].kwh
      BY <1>5, <3>1, <3>4
    <3>6. store[p].kwh + PaidOut(ledger, c) = Spare(c) /\ PaidOut(ledger, c) \in Nat
      BY <1>5, <2>4, <3>1
    <3> QED BY <2>2, <3>4, <3>5, <3>6
  <2>6. CASE ~IsKept(store, c)
    <3>1. PaidOut(L, c) = PaidOut(ledger, c)
      BY <1>5, <2>6
    <3>2. k \in 1..k
      BY <1>3, <1>8
    <3>3. ~(Deadline(c) <= StartNo(k))
      BY <1>3, <2>3, <3>2
    <3> QED BY <2>2, <2>4, <2>6, <3>1, <3>3
  <2> QED BY <2>5, <2>6
<1> QED BY <1>2, <1>9, <1>10

LEMMA BooksGrow ==
    ASSUME NEW t, NEW k, NEW s, NEW r, NEW d, NEW m, NEW pay, AtCycle(t, k, s, r, d, m, pay),
           NEW D, Books(t, k, ledger, store, D), NEW L, L = LedgerWith(s, pay),
           NEW D1, \A j \in 1..k : D1[j] = D[j], D1[k + 1] = [kind |-> "zones", by |-> r.zones]
    PROVE  Books(t, k + 1, L, r.store, D1)
<1>1. ZonesPaid(t, k, ledger, D) /\ CreditsAddUp(k, ledger, store) /\ OldestFirst(k, ledger)
  BY DEF Books
<1>2. ZonesPaid(t, k + 1, L, D1)
  BY <1>1, ZonesPaidAfter
<1>3. LedgerOk(k + 1, L) /\ CreditsKept(k + 1, r.store)
  BY LedgerOkAfter, CreditsKeptAfter
<1>4. CreditsAddUp(k + 1, L, r.store)
  BY <1>1, CreditsAddUpAfter
<1>5. OldestFirst(k + 1, L)
  BY <1>1, OldestFirstAfter
<1> QED BY <1>2, <1>3, <1>4, <1>5 DEF Books

LEMMA BooksInit == Init => BooksBalance
  BY DEF Init, BooksBalance

\* The books of a state, with the values of the state as constants.
LEMMA BooksOpen ==
    ASSUME BooksBalance, phase \in {"balance", "charge"}, pv = "net_metering",
           NEW t, t = Tariff, NEW k, k = Passed, NEW L, L = ledger, NEW S, S = store, NEW D, D = details
    PROVE  Books(t, k, L, S, D)
  BY DEF BooksBalance

LEMMA BooksKeep ==
    ASSUME BooksBalance, UNCHANGED Inputs, UNCHANGED <<turn, details, store, ledger>>,
           phase \in {"balance", "charge"} \/ pv # "net_metering", Passed' = Passed, phase \in {"balance", "charge"}
    PROVE  BooksBalance'
<1>1. pv' = pv /\ ledger' = ledger /\ store' = store /\ details' = details
  BY DEF Inputs
<1>2. Tariff' = Tariff
  BY FileIsSame DEF Tariff, Inputs
<1>3. CASE pv # "net_metering"
  BY <1>1, <1>3 DEF BooksBalance
<1>4. CASE pv = "net_metering"
  <2>1. PICK t, k, L, S, D : t = Tariff /\ k = Passed /\ L = ledger /\ S = store /\ D = details
    OBVIOUS
  <2>2. Books(t, k, L, S, D)
    BY <1>4, <2>1, BooksOpen
  <2>3. Books(t, k, L, S, D)'
    BY <2>2, BooksStay
  <2>4. t = Tariff' /\ k = Passed' /\ L = ledger' /\ S = store' /\ D = details'
    BY <1>1, <1>2, <2>1
  <2> QED BY <1>1, <1>4, <2>3, <2>4 DEF BooksBalance
<1> QED BY <1>3, <1>4

LEMMA NextTariffOpensBooks == Work /\ NextTariff => BooksBalance'
<1> SUFFICES ASSUME Work, NextTariff PROVE BooksBalance'
  OBVIOUS
<1>1. /\ UNCHANGED Inputs /\ pv' = pv /\ ledger' = {} /\ store' = << >> /\ cyc' = 1
      /\ phase' = (IF pv = "none" THEN "charge" ELSE "balance")
  BY DEF NextTariff, Inputs
<1>2. CASE pv # "net_metering"
  BY <1>1, <1>2 DEF BooksBalance
<1>3. CASE pv = "net_metering"
  <2>1. phase' = "balance" /\ Passed' = 0
    BY <1>1, <1>3 DEF Passed
  <2>2. PICK t, D : t = Tariff' /\ D = details'
    OBVIOUS
  <2>3. Books(t, 0, {}, << >>, D)'
    BY <1>1, BooksBegin, BooksStay
  <2> QED BY <1>1, <1>3, <2>1, <2>2, <2>3 DEF BooksBalance
<1> QED BY <1>2, <1>3

\* What balancing a cycle of net metering writes.
LEMMA MeteringWrites ==
    ASSUME Work, BooksBalance, BalanceMetering, NEW t, t = Tariff, NEW k, k = cyc - 1, NEW s, s = StartNo(k + 1),
           NEW r, r = NetMetering(t, s)
    PROVE  \E d, m, pay : /\ AtCycle(t, k, s, r, d, m, pay)
                          /\ ledger' = LedgerWith(s, pay)
<1>1. phase = "balance" /\ pv = "net_metering"
  BY DEF BalanceMetering
<1>2. Input /\ cyc \in 1..Count /\ Count \in Nat /\ t \in Range(Tariffs)
  BY <1>1, CountIs, TariffsAre DEF Work, Balancing
<1>3. k \in Nat /\ k + 1 = cyc /\ s = CycleStarts[cyc]
  BY <1>2 DEF StartNo
<1>4. LedgerOk(k, ledger) /\ CreditsKept(k, store)
  <2>1. PICK L, S, D : L = ledger /\ S = store /\ D = details
    OBVIOUS
  <2>2. k = Passed
    BY <1>1 DEF Passed
  <2>3. Books(t, k, L, S, D)
    BY <1>1, <2>1, <2>2, BooksOpen
  <2> QED BY <2>1, <2>3 DEF Books
<1>5. StoreOk /\ s \in Int
  BY <1>2, <1>3, <1>4, KeptCreditsAre, CyclesBefore
<1>6. \A x \in Moments(s) : RecordedUse(x) = Used(x)
  BY <1>1, <1>3, RecordedUseIs
<1>7. PICK d, m, pay : Effect(t, s, r, d, m, pay)
  BY <1>1, <1>2, <1>5, <1>6, MeteringIs
<1>8. AtCycle(t, k, s, r, d, m, pay)
  BY <1>1, <1>2, <1>3, <1>4, <1>7 DEF AtCycle
<1>9. ledger' = ledger \cup {[from |-> p.from, to |-> s, kwh |-> p.kwh] : p \in {p \in r.paid : p.kwh > 0}}
  BY <1>3 DEF BalanceMetering
<1>10. {[from |-> p.from, to |-> s, kwh |-> p.kwh] : p \in {p \in r.paid : p.kwh > 0}} = EntriesOf(s, pay)
  <2> DEFINE P == {p \in r.paid : p.kwh > 0}
             Q == {PaidBy(store, pay, n) : n \in Payers(pay)}
  <2>1. P = Q
    BY <1>7 DEF Effect
  <2>2. {[from |-> p.from, to |-> s, kwh |-> p.kwh] : p \in Q} = EntriesOf(s, pay)
    <3> DEFINE e(p) == [from |-> p.from, to |-> s, kwh |-> p.kwh]
    <3>1. ASSUME NEW n \in Payers(pay) PROVE e(PaidBy(store, pay, n)) = Entry(s, pay, n)
      BY DEF PaidBy, Entry
    <3> HIDE DEF e
    <3>2. {e(p) : p \in Q} = EntriesOf(s, pay)
      BY <3>1 DEF EntriesOf
    <3> QED BY <3>2 DEF e
  <2> HIDE DEF P, Q
  <2>3. {[from |-> p.from, to |-> s, kwh |-> p.kwh] : p \in P} = EntriesOf(s, pay)
    BY <2>1, <2>2, Zenon
  <2> QED BY <2>3 DEF P
<1>11. ledger' = LedgerWith(s, pay)
  BY <1>9, <1>10, Zenon DEF LedgerWith
<1> QED BY <1>8, <1>11

LEMMA MeteringKeepsBooks == Work /\ BooksBalance /\ BalanceMetering => BooksBalance'
<1> SUFFICES ASSUME Work, BooksBalance, BalanceMetering PROVE BooksBalance'
  OBVIOUS
<1>1. PICK t, k, s : t = Tariff /\ k = cyc - 1 /\ s = StartNo(k + 1)
  OBVIOUS
<1>2. PICK r : r = NetMetering(t, s)
  OBVIOUS
<1>3. PICK d, m, pay : AtCycle(t, k, s, r, d, m, pay) /\ ledger' = LedgerWith(s, pay)
  BY <1>1, <1>2, MeteringWrites
<1>4. /\ phase = "balance" /\ pv = "net_metering" /\ UNCHANGED Inputs /\ turn' = turn
      /\ pv' = pv /\ AdvanceBalancing
      /\ details' = [details EXCEPT ![cyc] = [kind |-> "zones", by |-> NetMetering(Tariff, CycleStarts[cyc]).zones]]
      /\ store' = NetMetering(Tariff, CycleStarts[cyc]).store
  BY DEF BalanceMetering, Inputs
<1>5. cyc \in 1..Count /\ Count \in Nat /\ DOMAIN details = 1..Count
  BY <1>4, CountIs DEF Work, Balancing
<1>6. k \in Nat /\ k + 1 = cyc /\ s = CycleStarts[cyc]
  BY <1>1, <1>5 DEF StartNo
<1>7. r = NetMetering(Tariff, CycleStarts[cyc])
  BY <1>1, <1>2, <1>6
<1>8. store' = r.store /\ details' = [details EXCEPT ![cyc] = [kind |-> "zones", by |-> r.zones]]
  BY <1>4, <1>7
<1>9. PICK D, D1, L, S1 : D = details /\ D1 = details' /\ L = ledger' /\ S1 = store'
  OBVIOUS
<1>10. (\A j \in 1..k : D1[j] = D[j]) /\ D1[k + 1] = [kind |-> "zones", by |-> r.zones]
  BY <1>5, <1>6, <1>8, <1>9
<1>11. Books(t, k, ledger, store, D)
  <2>1. k = Passed
    BY <1>1, <1>4 DEF Passed
  <2> QED BY <1>1, <1>4, <1>9, <2>1 DEF BooksBalance
<1>12. Books(t, k + 1, L, r.store, D1)
  BY <1>3, <1>9, <1>10, <1>11, BooksGrow
<1>13. Books(t, k + 1, L, S1, D1)
  BY <1>8, <1>9, <1>12
<1>14. Books(t, k + 1, L, S1, D1)'
  BY <1>4, <1>13, BooksStay
<1>15. Tariff' = t /\ Count' = Count
  BY <1>1, <1>4, FileIsSame DEF Tariff, Inputs
<1>16. Passed' = k + 1
  BY <1>4, <1>5, <1>6, <1>15 DEF Passed, AdvanceBalancing, Count
<1>17. phase' \in {"balance", "charge"}
  BY <1>4 DEF AdvanceBalancing
<1> QED BY <1>4, <1>9, <1>14, <1>15, <1>16, <1>17 DEF BooksBalance

LEMMA BooksNext == Work /\ BooksBalance /\ [Next]_vars => BooksBalance'
<1> SUFFICES ASSUME Work, BooksBalance, [Next]_vars PROVE BooksBalance'
  OBVIOUS
<1>1. CASE NextTariff
  BY <1>1, NextTariffOpensBooks
<1>2. CASE BalanceMetering
  BY <1>2, MeteringKeepsBooks
<1>3. CASE BalanceBilling
  BY <1>3 DEF BalanceBilling, BooksBalance
<1>4. CASE ChargeCycle
  <2>1. /\ UNCHANGED Inputs /\ UNCHANGED <<turn, details, store, ledger>>
        /\ phase = "charge" /\ phase' = "charge"
    BY <1>4, ChargeIs
  <2>2. Passed' = Passed
    BY <2>1, FileIsSame DEF Passed, Inputs
  <2> QED BY <2>1, <2>2, BooksKeep
<1>5. CASE UNCHANGED vars
  <2>1. /\ UNCHANGED Inputs /\ UNCHANGED <<turn, details, store, ledger>> /\ phase' = phase /\ cyc' = cyc
    BY <1>5 DEF vars, Inputs
  <2>2. Passed' = Passed
    BY <2>1, FileIsSame DEF Passed, Inputs
  <2>3. CASE phase \in {"balance", "charge"}
    BY <2>1, <2>2, <2>3, BooksKeep
  <2>4. CASE phase \notin {"balance", "charge"}
    BY <2>1, <2>4 DEF BooksBalance
  <2> QED BY <2>3, <2>4
<1>6. CASE phase' \notin {"balance", "charge"}
  BY <1>6 DEF BooksBalance
<1>7. \/ NextTariff \/ BalanceMetering \/ BalanceBilling \/ ChargeCycle \/ UNCHANGED vars
      \/ phase' \notin {"balance", "charge"}
  BY DEF Next, Prepare, BalanceFails, ChargeFails, Settle, Answer, Fail
<1> QED BY <1>1, <1>2, <1>3, <1>4, <1>5, <1>6, <1>7

\* What a cycle of net metering needs beyond its own energy is paid by credits or stays in its
\* zones, and every credit is in the store, spent or past its deadline (pv_service).
THEOREM CreditsAreKept == Spec => []BooksBalance
<1>1. Init => BooksBalance
  BY BooksInit
<1>2. Work /\ BooksBalance /\ [Next]_vars => BooksBalance'
  BY BooksNext
<1>3. Spec => []Work
  BY WorkFollowsReadings
<1> QED BY <1>1, <1>2, <1>3, PTL DEF Spec

----------------------------------------------------------------------------
(* What net metering promises of a finished bill.                          *)

\* The books at the end of a tariff.
LEMMA BooksAtTheEnd ==
    ASSUME Work, BooksBalance, Settle, pv = "net_metering",
           NEW t, t = Tariff, NEW r, r = results'[t]
    PROVE  /\ t \in Range(Tariffs) /\ r.zones = details /\ r.ledger = ledger
           /\ ZonesPaid(t, Count, ledger, details) /\ LedgerOk(Count, ledger)
           /\ CreditsAddUp(Count, ledger, store) /\ OldestFirst(Count, ledger)
<1>1. phase = "charge" /\ r = Settled
  BY SettleIs
<1>2. r.zones = details /\ r.ledger = ledger
  BY <1>1 DEF Settled
<1>3. t \in Range(Tariffs)
  BY <1>1, TariffsAre DEF Work
<1>4. PICK L, S, D, k : L = ledger /\ S = store /\ D = details /\ k = Passed
  OBVIOUS
<1>5. Books(t, k, L, S, D) /\ k = Count
  BY <1>1, <1>4, BooksOpen DEF Passed
<1> QED BY <1>2, <1>3, <1>4, <1>5 DEF Books

LEMMA NothingPaid ==
    ASSUME Work, BooksBalance, Settle, pv # "net_metering",
           NEW t, t = Tariff, NEW r, r = results'[t]
    PROVE  r.ledger = {} /\ r.cycles = bill /\ r.zones = details
<1>1. phase = "charge" /\ r = Settled
  BY SettleIs
<1>2. r.cycles = bill /\ r.zones = details /\ r.ledger = ledger
  BY <1>1 DEF Settled
<1> QED BY <1>1, <1>2 DEF BooksBalance

LEMMA CountsStay ==
    UNCHANGED Inputs => /\ \A s : Given(s)' = Given(s) /\ Needed(s)' = Needed(s) /\ BalanceOf(s)' = BalanceOf(s)
                        /\ CycleStarts' = CycleStarts /\ Count' = Count /\ pv' = pv
<1> SUFFICES ASSUME UNCHANGED Inputs
             PROVE  /\ \A s : Given(s)' = Given(s) /\ Needed(s)' = Needed(s) /\ BalanceOf(s)' = BalanceOf(s)
                    /\ CycleStarts' = CycleStarts /\ Count' = Count /\ pv' = pv
  OBVIOUS
<1>1. readings' = readings /\ pv' = pv
  BY DEF Inputs
<1>2. \A s : Given(s)' = Given(s) /\ Needed(s)' = Needed(s) /\ BalanceOf(s)' = BalanceOf(s)
  BY <1>1 DEF Given, Needed, BalanceOf, Sum, Used, Exported, HourBalance, MeasuredUse, Moments,
              DaysOfCycle, ReadDays, Hour
<1> QED BY <1>1, <1>2, FileIsSame

(* Dearest zones first *)

DearestIn(t, r) ==
    pv = "net_metering" =>
        \A i \in DOMAIN CycleStarts : PaidFirst(FullOf(t, CycleStarts[i]), r.zones[i].by, Zones(t))

DearestDone == \A t \in Done : \A r \in {results[t]} : DearestIn(t, r)
NeedOfZone(t, b, z) == Sum(LAMBDA h : Max({0, b[h]}), {h \in DOMAIN b : ZoneOf[t][h[2]] = z})

LEMMA FullAdds ==
    ASSUME NEW t, NEW s, NEW b, b = BalanceOf(s), NEW z \in Zones(t)
    PROVE  FullOf(t, s)[z] = NeedOfZone(t, b, z)
<1> DEFINE H == {h \in DOMAIN b : ZoneOf[t][h[2]] = z}
           n == NeededInHour(b)
<1>1. FullOf(t, s)[z] = SumOver(n, H)
  BY DEF FullOf, InZone
<1>2. \A h \in H : n[h] = Max({0, b[h]})
  BY DEF NeededInHour
<1>3. [h \in H |-> n[h]] = [h \in H |-> Max({0, b[h]})]
  <2> HIDE DEF n, H
  <2> QED BY <1>2
<1>4. SumOver(n, H) = SumFunction([h \in H |-> Max({0, b[h]})])
  <2> HIDE DEF n, H
  <2> QED BY <1>3 DEF SumOver
<1> QED BY <1>1, <1>4 DEF Sum, NeedOfZone

LEMMA DearestIs == DearestZoneFirst <=> DearestDone
<1> DEFINE full(t, i, z) == NeedOfZone(t, BalanceOf(CycleStarts[i]), z)
<1>1. DearestZoneFirst <=>
        (pv = "net_metering" =>
            \A t \in Done : \A i \in DOMAIN CycleStarts : \A y, z \in Zones(t) :
                y < z /\ results[t].zones[i].by[z] < full(t, i, z) => results[t].zones[i].by[y] = 0)
  BY DEF DearestZoneFirst, BalanceOf, NeedOfZone
<1>2. \A t, i : \A z \in Zones(t) : full(t, i, z) = FullOf(t, CycleStarts[i])[z]
  <2> SUFFICES ASSUME NEW t, NEW i, NEW z \in Zones(t) PROVE full(t, i, z) = FullOf(t, CycleStarts[i])[z]
    OBVIOUS
  <2>1. PICK s, b : s = CycleStarts[i] /\ b = BalanceOf(s)
    OBVIOUS
  <2>2. FullOf(t, s)[z] = NeedOfZone(t, b, z)
    BY <2>1, FullAdds
  <2> QED BY <2>1, <2>2
<1> HIDE DEF full
<1> QED BY <1>1, <1>2 DEF DearestDone, DearestIn, PaidFirst

LEMMA DearestStays == UNCHANGED Inputs => \A t, r : DearestIn(t, r)' <=> DearestIn(t, r)
<1> SUFFICES ASSUME UNCHANGED Inputs PROVE \A t, r : DearestIn(t, r)' <=> DearestIn(t, r)
  OBVIOUS
<1>1. \A t, s : FullOf(t, s)' = FullOf(t, s)
  BY CountsStay DEF FullOf
<1> QED BY <1>1, CountsStay DEF DearestIn

LEMMA DearestSettled ==
    ASSUME Work, BooksBalance, Settle, NEW t, t = Tariff, NEW r, r = results'[t]
    PROVE  DearestIn(t, r)
<1> SUFFICES ASSUME pv = "net_metering", NEW i \in DOMAIN CycleStarts
             PROVE  PaidFirst(FullOf(t, CycleStarts[i]), r.zones[i].by, Zones(t))
  BY DEF DearestIn
<1>1. r.zones = details /\ ZonesPaid(t, Count, ledger, details)
  BY BooksAtTheEnd
<1>2. i \in 1..Count
  BY CountIs DEF Work
<1> QED BY <1>1, <1>2 DEF ZonesPaid, StartNo

\* In net metering a cheaper zone is paid by the sun only when the dearer ones need nothing
\* more (cover_zones), in every finished bill.
THEOREM DearestZonesArePaidFirst == Spec => []DearestZoneFirst
<1>1. Init => DearestDone
  BY DEF Init, DearestDone, Done, Pending
<1>2. Work /\ BooksBalance /\ DearestDone /\ [Next]_vars => DearestDone'
  <2> SUFFICES ASSUME Work, BooksBalance, DearestDone, [Next]_vars, NEW t \in Done', NEW r, r = results'[t]
               PROVE  DearestIn(t, r)'
    BY DEF DearestDone
  <2>1. UNCHANGED Inputs
    BY InputsStay
  <2>2. DearestIn(t, r)
    <3>1. CASE Settle /\ t = Tariff
      BY <3>1, DearestSettled
    <3>2. CASE ~(Settle /\ t = Tariff)
      <4>1. t \in Done /\ r = results[t]
        BY <3>2, ResultsStay
      <4> QED BY <4>1 DEF DearestDone
    <3> QED BY <3>1, <3>2
  <2> QED BY <2>1, <2>2, DearestStays
<1>3. Spec => []Work
  BY WorkFollowsReadings
<1>4. Spec => []BooksBalance
  BY CreditsAreKept
<1>5. DearestDone => DearestZoneFirst
  BY DearestIs
<1> QED BY <1>1, <1>2, <1>3, <1>4, <1>5, PTL DEF Spec

(* Credits in time *)

InTime(L) ==
    /\ \A e \in L : e.from < e.to /\ e.to < Deadline(e.from)
    /\ \A e \in L : PaidOut(L, e.from) <= Max({0, Given(e.from) - Needed(e.from)})
    /\ \A e \in L : \A i \in DOMAIN CycleStarts :
           CycleStarts[i] < e.from /\ e.to < Deadline(CycleStarts[i]) =>
               PaidUntil(L, CycleStarts[i], e.to) = Max({0, Given(CycleStarts[i]) - Needed(CycleStarts[i])})
InTimeDone == \A t \in Done : \A L \in {results[t].ledger} : InTime(L)

LEMMA KwhAdds == ASSUME NEW S PROVE SumKwh(S) = SumFunction([e \in S |-> e.kwh])
<1> DEFINE f == [e \in S |-> e.kwh]
<1>1. [e \in S |-> f[e]] = f
  OBVIOUS
<1> HIDE DEF f
<1>2. SumOver(f, S) = SumFunction(f)
  BY <1>1 DEF SumOver
<1> QED BY <1>2 DEF SumKwh, f

LEMMA InTimeIs == InTimeDone => CreditsInTime
<1> SUFFICES ASSUME InTimeDone, NEW t \in Done PROVE
        /\ \A e \in results[t].ledger : e.from < e.to /\ e.to < Deadline(e.from)
        /\ \A e \in results[t].ledger :
               PaidFrom(t, e.from) <= Max({0, Given(e.from) - Needed(e.from)})
        /\ \A e \in results[t].ledger : \A i \in DOMAIN CycleStarts :
               LET s == CycleStarts[i]
               IN s < e.from /\ e.to < Deadline(s) =>
                      Sum(LAMBDA x : x.kwh, {x \in results[t].ledger :
                                                x.from = s /\ x.to <= e.to})
                      = Max({0, Given(s) - Needed(s)})
  BY DEF CreditsInTime
<1>1. PICK L : L = results[t].ledger
  OBVIOUS
<1>2. InTime(L)
  BY <1>1 DEF InTimeDone
<1>3. \A s : PaidFrom(t, s) = PaidOut(L, s)
  BY <1>1, KwhAdds DEF PaidFrom, PaidOut, Sum
<1>4. \A s, u : Sum(LAMBDA x : x.kwh, {x \in L : x.from = s /\ x.to <= u}) = PaidUntil(L, s, u)
  BY KwhAdds DEF PaidUntil, Sum
<1> DEFINE until(s, u) == Sum(LAMBDA x : x.kwh, {x \in L : x.from = s /\ x.to <= u})
<1>5. \A s, u : until(s, u) = PaidUntil(L, s, u)
  BY <1>4
<1> HIDE DEF until
<1>6. \A e \in L : \A i \in DOMAIN CycleStarts :
          CycleStarts[i] < e.from /\ e.to < Deadline(CycleStarts[i]) =>
              until(CycleStarts[i], e.to) = Max({0, Given(CycleStarts[i]) - Needed(CycleStarts[i])})
  BY <1>2, <1>5 DEF InTime
<1>7. \A e \in L : PaidFrom(t, e.from) <= Max({0, Given(e.from) - Needed(e.from)})
  BY <1>2, <1>3 DEF InTime
<1>8. \A e \in L : e.from < e.to /\ e.to < Deadline(e.from)
  BY <1>2 DEF InTime
<1> QED BY <1>1, <1>6, <1>7, <1>8 DEF until

LEMMA InTimeStays == UNCHANGED Inputs => \A L : InTime(L)' <=> InTime(L)
<1> SUFFICES ASSUME UNCHANGED Inputs PROVE \A L : InTime(L)' <=> InTime(L)
  OBVIOUS
<1> QED BY CountsStay DEF InTime

LEMMA NotNegative ==
    ASSUME NEW x \in Int PROVE Max({0, x}) = (IF 0 <= x THEN x ELSE 0)
  BY MinOfTwo

\* What a cycle spares is what it gives beyond its needs.
LEMMA SpareAndLack ==
    ASSUME Input, NEW s, Given(s) \in Nat, Needed(s) \in Nat
    PROVE  /\ Max({0, Given(s) - Needed(s)}) = Spare(s)
           /\ Max({0, Needed(s) - Given(s)}) = Lack(s)
<1>1. PICK g \in Nat, n \in Nat : g = Given(s) /\ n = Needed(s)
  OBVIOUS
<1>2. PICK x \in Int, y \in Int : x = g - n /\ y = n - g
  OBVIOUS
<1>3. Max({0, x}) = (IF 0 <= x THEN x ELSE 0) /\ Max({0, y}) = (IF 0 <= y THEN y ELSE 0)
  <2>1. Max({0, x}) = (IF 0 <= x THEN x ELSE 0)
    BY NotNegative
  <2>2. Max({0, y}) = (IF 0 <= y THEN y ELSE 0)
    BY NotNegative
  <2> QED BY <2>1, <2>2
<1>4. Spare(s) = (IF 0 <= x THEN x ELSE 0) /\ Lack(s) = (IF 0 <= y THEN y ELSE 0)
  BY <1>1, <1>2 DEF Spare, Lack
<1>5. x = Given(s) - Needed(s) /\ y = Needed(s) - Given(s)
  BY <1>1, <1>2
<1> QED BY <1>3, <1>4, <1>5

LEMMA InTimeSettled ==
    ASSUME Work, BooksBalance, Settle, NEW t, t = Tariff, NEW r, r = results'[t]
    PROVE  InTime(r.ledger)
<1>1. CASE pv # "net_metering"
  BY <1>1, NothingPaid DEF InTime
<1>2. CASE pv = "net_metering"
  <2>1. PICK L : L = ledger
    OBVIOUS
  <2>2. /\ r.ledger = L /\ LedgerOk(Count, L) /\ CreditsAddUp(Count, L, store) /\ OldestFirst(Count, L)
        /\ t \in Range(Tariffs)
    BY <1>2, <2>1, BooksAtTheEnd
  <2>3. Input /\ DOMAIN CycleStarts = 1..Count
    BY CountIs DEF Work
  <2>4. \A s : Max({0, Given(s) - Needed(s)}) = Spare(s)
    <3> SUFFICES ASSUME NEW s PROVE Max({0, Given(s) - Needed(s)}) = Spare(s)
      OBVIOUS
    <3>1. PICK b : b = BalanceOf(s)
      OBVIOUS
    <3>2. Given(s) \in Nat /\ Needed(s) \in Nat
      BY <1>2, <2>2, <2>3, <3>1, GivenIs, FullIs
    <3> QED BY <2>3, <3>2, SpareAndLack
  <2>5. \A e \in L : e.from < e.to /\ e.to < Deadline(e.from)
    <3>1. ASSUME NEW e \in L PROVE e.from < e.to
      <4>1. PICK i, j \in 1..Count : i < j /\ e.from = StartNo(i) /\ e.to = StartNo(j)
        BY <2>2 DEF LedgerOk
      <4> QED BY <2>3, <4>1, StartsAreDays
    <3> QED BY <2>2, <3>1 DEF LedgerOk
  <2>6. \A e \in L : PaidOut(L, e.from) <= Spare(e.from)
    BY <2>2 DEF LedgerOk, CreditsAddUp
  <2>7. \A e \in L : \A i \in 1..Count :
            CycleStarts[i] < e.from /\ e.to < Deadline(CycleStarts[i]) =>
                PaidUntil(L, CycleStarts[i], e.to) = Spare(CycleStarts[i])
    BY <2>2 DEF OldestFirst, StartNo
  <2> QED BY <2>2, <2>3, <2>4, <2>5, <2>6, <2>7 DEF InTime
<1> QED BY <1>1, <1>2

\* A credit pays later cycles only, before its deadline, never more than it stands for,
\* and no younger credit pays while an older one is still good (pv_service).
THEOREM CreditsPayInTime == Spec => []CreditsInTime
<1>1. Init => InTimeDone
  BY DEF Init, InTimeDone, Done, Pending
<1>2. Work /\ BooksBalance /\ InTimeDone /\ [Next]_vars => InTimeDone'
  <2> SUFFICES ASSUME Work, BooksBalance, InTimeDone, [Next]_vars,
                      NEW t \in Done', NEW L, L = results'[t].ledger
               PROVE  InTime(L)'
    BY DEF InTimeDone
  <2>1. UNCHANGED Inputs
    BY InputsStay
  <2>2. InTime(L)
    <3>1. CASE Settle /\ t = Tariff
      BY <3>1, InTimeSettled
    <3>2. CASE ~(Settle /\ t = Tariff)
      <4>1. t \in Done /\ results'[t] = results[t]
        BY <3>2, ResultsStay
      <4> QED BY <4>1 DEF InTimeDone
    <3> QED BY <3>1, <3>2
  <2> QED BY <2>1, <2>2, InTimeStays
<1>3. Spec => []Work
  BY WorkFollowsReadings
<1>4. Spec => []BooksBalance
  BY CreditsAreKept
<1>5. InTimeDone => CreditsInTime
  BY InTimeIs
<1> QED BY <1>1, <1>2, <1>3, <1>4, <1>5, PTL DEF Spec

----------------------------------------------------------------------------
(* The energy of a bill is that of the readings.                           *)

WholeIn(r) ==
    \A i \in DOMAIN r.cycles :
        r.cycles[i].energy = Max({0, Needed(r.cycles[i].start) - Given(r.cycles[i].start)})
                             - PaidInto(r.ledger, r.cycles[i].start)
WholeDone == \A t \in Done : \A r \in {results[t]} : WholeIn(r)

LEMMA WholeIs == WholeDone => EnergyIsWhole
<1> SUFFICES ASSUME WholeDone, NEW t \in Done, NEW i \in DOMAIN results[t].cycles
             PROVE  LET c == results[t].cycles[i]
                    IN c.energy = Max({0, Needed(c.start) - Given(c.start)})
                                  - Sum(LAMBDA e : e.kwh, {e \in results[t].ledger : e.to = c.start})
  BY DEF EnergyIsWhole
<1>1. PICK r, c : r = results[t] /\ c = results[t].cycles[i]
  OBVIOUS
<1>2. c.energy = Max({0, Needed(c.start) - Given(c.start)}) - PaidInto(r.ledger, c.start)
  BY <1>1 DEF WholeDone, WholeIn
<1> DEFINE into == Sum(LAMBDA e : e.kwh, {e \in r.ledger : e.to = c.start})
<1>3. into = PaidInto(r.ledger, c.start)
  BY KwhAdds DEF PaidInto, Sum
<1> HIDE DEF into
<1>4. c.energy = Max({0, Needed(c.start) - Given(c.start)}) - into
  BY <1>2, <1>3
<1> QED BY <1>1, <1>4 DEF into

LEMMA WholeStays == UNCHANGED Inputs => \A r : WholeIn(r)' <=> WholeIn(r)
<1> SUFFICES ASSUME UNCHANGED Inputs PROVE \A r : WholeIn(r)' <=> WholeIn(r)
  OBVIOUS
<1>1. \A s : Needed(s)' = Needed(s) /\ Given(s)' = Given(s)
  BY CountsStay
<1> QED BY <1>1 DEF WholeIn

\* The segments of a charged cycle.
LEMMA SegmentsOfCycle ==
    ASSUME Input, ReadDays # {}, NEW j \in 1..Count, DaysOf(j) # {}
    PROVE  /\ IsFiniteSet(DaysOf(j)) /\ IsFiniteSet(SegmentsOf(j)) /\ SegmentsOf(j) # {}
           /\ WithDays(SegmentsOf(j)) /\ Apart(SegmentsOf(j))
           /\ \A d \in DaysOf(j) : \E s \in SegmentsOf(j) : d \in s.days
<1>1. PICK days, t : days = DaysOf(j) /\ t = Tariff
  OBVIOUS
<1>2. IsFiniteSet(days)
  <2>1. PICK s : s = CycleStarts[j]
    OBVIOUS
  <2>2. s \in Int /\ CycleEnd(s) \in Int
    BY <2>1, StartOfCycle, EndIsNumber
  <2>3. \A d : d \in days <=> /\ d \in Int /\ s <= d /\ d <= CycleEnd(s) /\ FirstDay <= d /\ d <= LastDay
    BY <1>1, <2>1, <2>2, BilledDaysAre DEF DaysOf
  <2>4. days \subseteq FirstDay..LastDay /\ FirstDay \in Int /\ LastDay \in Int
    BY <2>3, FileBounds
  <2> QED BY <2>4, FS_Interval, FS_Subset
<1>3. PICK S : S = Segments(t, days)
  OBVIOUS
<1>4. /\ IsFiniteSet(S) /\ (\A s \in S : s.days # {} /\ s.days \subseteq days /\ IsFiniteSet(s.days))
      /\ \A d \in days : \E s \in S : d \in s.days
  BY <1>2, <1>3, SegmentsAre
<1>5. Apart(S)
  BY <1>2, <1>3, SegmentsApart
<1>6. S # {}
  BY <1>1, <1>4
<1>7. S = SegmentsOf(j)
  BY <1>1, <1>3 DEF SegmentsOf
<1>8. WithDays(S)
  BY <1>4 DEF WithDays
<1> QED BY <1>1, <1>2, <1>4, <1>5, <1>6, <1>7, <1>8

\* Charging cycle j: everything that is known then.
Charges(j) ==
    /\ Work /\ phase = "charge" /\ j \in 1..Count /\ CanCharge(j) /\ DaysOf(j) # {}

LEMMA ChargesIn ==
    ASSUME NEW j, Charges(j)
    PROVE  /\ Input /\ ReadDays # {} /\ Tariff \in Range(Tariffs) /\ Balanced(j)
           /\ CycleStarts[j] \in Int
           /\ \A x \in Recorded(details[j]) : x[1] \in DaysOf(j)
<1>1. Input /\ ReadDays # {} /\ Charging /\ turn \in DOMAIN Offered
  BY DEF Charges, Work, Prepared
<1>2. Tariff \in Range(Tariffs)
  BY <1>1, TariffsAre
<1>3. Balanced(j) /\ CycleStarts[j] \in Int
  BY <1>1, StartOfCycle DEF Charging, Charges
<1>4. \A x \in Recorded(details[j]) : x[1] \in DaysOf(j)
  BY DEF Charges, CanCharge, CannotCharge, DaysOf
<1> QED BY <1>1, <1>2, <1>3, <1>4

\* Energy by zones is charged in full.
LEMMA ZonesInFull ==
    ASSUME NEW j, Charges(j), pv = "net_metering", NEW e, e = details[j], NEW Z, Z = Zones(Tariff),
           DOMAIN e.by = Z, Amounts(e.by, Z)
    PROVE  Charged(j).energy = SumOver(e.by, Z)
<1>1. /\ Input /\ ReadDays # {} /\ Tariff \in Range(Tariffs) /\ Balanced(j) /\ j \in 1..Count
      /\ DaysOf(j) # {}
  BY ChargesIn DEF Charges
<1>2. PICK S, w, start : S = SegmentsOf(j) /\ w = WholeOf(j) /\ start = CycleStarts[j]
  OBVIOUS
<1>3. IsFiniteSet(S) /\ S # {} /\ WithDays(S)
  BY <1>1, <1>2, SegmentsOfCycle
<1>4. Whole(w, S, Z)
  BY <1>2 DEF Whole, WholeOf
<1>5. e.kind # "records"
  BY <1>1 DEF Balanced
<1>6. IsFiniteSet(Z) /\ Numbers(e.by, Z)
  <2>1. PICK t : t = Tariff
    OBVIOUS
  <2>2. IsFiniteSet(Zones(t))
    BY <1>1, <2>1, ZonesAre
  <2> QED BY <2>1, <2>2 DEF Numbers, Amounts
<1>7. SplitEnergy(e, S, start, w) = SumOver(e.by, Z)
  BY <1>1, <1>3, <1>4, <1>5, <1>6, SplitOfZones
<1>8. Charged(j).energy = SplitEnergy(details[j], SegmentsOf(j), CycleStarts[j], WholeOf(j))
  BY DEF Charged
<1> QED BY <1>2, <1>7, <1>8

\* The segment of each record.
LEMMA RecordsHaveSegments ==
    ASSUME NEW j, Charges(j), NEW e, e = details[j], e.kind = "records", NEW D, D = DOMAIN e.by,
           NEW S, S = SegmentsOf(j)
    PROVE  \E seg : InSegments(seg, S, D)
<1>1. \A x \in D : x[1] \in DaysOf(j)
  BY ChargesIn DEF Recorded
<1>2. \A d \in DaysOf(j) : \E s \in S : d \in s.days
  BY ChargesIn, SegmentsOfCycle DEF Charges
<1> DEFINE seg == [x \in D |-> CHOOSE s \in S : x[1] \in s.days]
<1>3. \A x \in D : seg[x] \in S /\ x[1] \in seg[x].days
  BY <1>1, <1>2
<1> QED BY <1>3 DEF InSegments

\* Records are charged in full.
LEMMA RecordsInFull ==
    ASSUME NEW j, Charges(j), NEW e, e = details[j], e.kind = "records", NEW D, D = DOMAIN e.by,
           D \subseteq ReadDays \X Intervals, IsFiniteSet(D), Amounts(e.by, D)
    PROVE  Charged(j).energy = SumOver(e.by, D)
<1>1. /\ Input /\ ReadDays # {} /\ Tariff \in Range(Tariffs) /\ j \in 1..Count /\ DaysOf(j) # {}
  BY ChargesIn DEF Charges
<1>2. PICK S, w, start, f : S = SegmentsOf(j) /\ w = WholeOf(j) /\ start = CycleStarts[j] /\ f = e.by
  OBVIOUS
<1>3. IsFiniteSet(S) /\ Apart(S)
  BY <1>1, <1>2, SegmentsOfCycle
<1>4. PICK seg : InSegments(seg, S, D)
  BY <1>2, RecordsHaveSegments
<1>5. Numbers(f, D)
  BY <1>2 DEF Numbers, Amounts
<1>6. Weighed(f, e, w, seg, D)
  <2> SUFFICES ASSUME NEW x \in D PROVE f[x] = e.by[x] * w[seg[x]][ZoneOf[Tariff][Hour(x)]]
    BY DEF Weighed
  <2>1. x[2] \in Intervals /\ Hour(x) = x[2][1]
    BY DEF Hour
  <2>2. ZoneOf[Tariff][Hour(x)] \in Zones(Tariff)
    BY <2>1 DEF Zones
  <2>3. w[seg[x]][ZoneOf[Tariff][Hour(x)]] = 1
    BY <1>2, <1>4, <2>2 DEF WholeOf, InSegments
  <2>4. PICK n \in Int : n = e.by[x]
    BY DEF Amounts
  <2>5. n * w[seg[x]][ZoneOf[Tariff][Hour(x)]] = n
    BY <2>3, <2>4
  <2> QED BY <1>2, <2>4, <2>5
<1>7. SplitEnergy(e, S, start, w) = SumOver(f, D)
  <2>1. RecordsSplit(e, D, S, seg, w, f)
    BY <1>3, <1>4, <1>5, <1>6 DEF RecordsSplit
  <2> QED BY <2>1, SplitOfRecords
<1>8. Charged(j).energy = SplitEnergy(details[j], SegmentsOf(j), CycleStarts[j], WholeOf(j))
  BY DEF Charged
<1> QED BY <1>2, <1>7, <1>8

\* What a moment needs when it is balanced alone.
NeedAt(x) == IF pv = "none" THEN Used(x) ELSE Max({0, Used(x) - Exported(x)})

LEMMA NeedAtIs ==
    ASSUME Input, NEW x \in ReadDays \X Intervals
    PROVE  /\ NeedAt(x) \in Nat
           /\ pv = "none" => NeedAt(x) = Used(x)
           /\ pv # "none" => NeedAt(x) = IF 0 <= NetUse(x) THEN NetUse(x) ELSE 0
<1>1. Used(x) \in Nat /\ Exported(x) \in Nat
  BY ReadingsAre
<1>2. PICK n \in Int : n = Used(x) - Exported(x)
  BY <1>1
<1>3. Max({0, n}) = IF 0 <= n THEN n ELSE 0
  BY NotNegative
<1>4. NetUse(x) = n /\ (pv # "none" => NeedAt(x) = Max({0, n}))
  BY <1>2 DEF NetUse, NeedAt
<1> QED BY <1>1, <1>3, <1>4 DEF NeedAt

LEMMA NeededAdds ==
    ASSUME Input, pv # "net_metering", NEW s, NEW f, f = [x \in Moments(s) |-> NeedAt(x)]
    PROVE  /\ Needed(s) = SumOver(f, Moments(s)) /\ Given(s) = 0 /\ Needed(s) \in Nat
<1>1. PICK M : M = Moments(s) /\ IsFiniteSet(M)
  BY MomentsAre
<1>2. Needed(s) = SumFunction([x \in M |-> NeedAt(x)])
  <2>1. CASE pv = "none"
    <3>1. Needed(s) = SumFunction([x \in M |-> Used(x)])
      BY <1>1, <2>1 DEF Needed, Sum
    <3>2. [x \in M |-> Used(x)] = [x \in M |-> NeedAt(x)]
      BY <2>1 DEF NeedAt
    <3> QED BY <3>1, <3>2
  <2>2. CASE pv = "net_billing"
    <3>1. Needed(s) = SumFunction([x \in M |-> Max({0, Used(x) - Exported(x)})])
      BY <1>1, <2>2 DEF Needed, Sum
    <3>2. [x \in M |-> Max({0, Used(x) - Exported(x)})] = [x \in M |-> NeedAt(x)]
      BY <2>2 DEF NeedAt
    <3> QED BY <3>1, <3>2
  <2> QED BY <2>1, <2>2 DEF Input
<1>3. [x \in M |-> f[x]] = [x \in M |-> NeedAt(x)]
  BY <1>1
<1>4. SumOver(f, M) = SumFunction([x \in M |-> NeedAt(x)])
  BY <1>3 DEF SumOver
<1>5. \A x \in M : f[x] \in Int /\ f[x] >= 0
  <2> SUFFICES ASSUME NEW x \in M PROVE f[x] \in Int /\ f[x] >= 0
    OBVIOUS
  <2>1. f[x] = NeedAt(x) /\ x \in ReadDays \X Intervals
    BY <1>1, MomentsAre
  <2>2. NeedAt(x) \in Nat
    BY <2>1, NeedAtIs
  <2> QED BY <2>1, <2>2
<1>6. SumOver(f, M) \in Int /\ SumOver(f, M) >= 0
  BY <1>1, <1>5, SumIsNumber, SumIsPositive
<1>7. Given(s) = 0
  BY DEF Given
<1> QED BY <1>1, <1>2, <1>4, <1>6, <1>7

\* The records of a balanced cycle are what its moments need.
LEMMA RecordsAreNeeds ==
    ASSUME Input, pv # "net_metering", NEW j, Balanced(j), NEW e, e = details[j],
           NEW s, s = CycleStarts[j], NEW D, D = DOMAIN e.by
    PROVE  /\ e.kind = "records" /\ D \subseteq Moments(s)
           /\ \A x \in D : e.by[x] = NeedAt(x)
           /\ \A x \in Moments(s) \ D : NeedAt(x) = 0
<1>1. \A x \in Moments(s) : x \in ReadDays \X Intervals
  BY MomentsAre
<1>2. \A x \in Moments(s) : Used(x) \in Nat /\ Exported(x) \in Nat /\ NetUse(x) \in Int
  BY <1>1, ReadingsAre
<1>3. CASE pv = "none"
  <2>1. e = UsedRecords(s)
    BY <1>3 DEF Balanced
  <2>2. /\ e.kind = "records" /\ D = {x \in Moments(s) : Used(x) > 0} /\ \A x \in D : e.by[x] = Used(x)
    BY <2>1 DEF UsedRecords
  <2>3. \A x \in Moments(s) : NeedAt(x) = Used(x)
    BY <1>1, <1>3, NeedAtIs
  <2> QED BY <1>2, <2>2, <2>3
<1>4. CASE pv = "net_billing"
  <2>1. e = NetOf(s)
    BY <1>4 DEF Balanced
  <2>2. /\ e.kind = "records" /\ D = {x \in Moments(s) : Used(x) + Exported(x) > 0 /\ NetUse(x) >= 0}
        /\ \A x \in D : e.by[x] = NetUse(x)
    BY <2>1 DEF NetOf
  <2>3. \A x \in Moments(s) : NeedAt(x) = IF 0 <= NetUse(x) THEN NetUse(x) ELSE 0
    BY <1>1, <1>4, NeedAtIs
  <2>4. \A x \in Moments(s) : ~(Used(x) + Exported(x) > 0) => NetUse(x) = 0
    BY <1>2 DEF NetUse
  <2> QED BY <1>2, <2>2, <2>3, <2>4
<1> QED BY <1>3, <1>4 DEF Input

LEMMA ChargedNeeds ==
    ASSUME NEW j, Charges(j), pv # "net_metering", NEW s, s = CycleStarts[j]
    PROVE  Charged(j).energy = Needed(s) /\ Given(s) = 0 /\ Needed(s) \in Nat
<1>1. Input /\ Balanced(j)
  BY ChargesIn
<1>2. PICK e, D, M : e = details[j] /\ D = DOMAIN e.by /\ M = Moments(s)
  OBVIOUS
<1>3. /\ e.kind = "records" /\ D \subseteq M
      /\ \A x \in D : e.by[x] = NeedAt(x)
      /\ \A x \in M \ D : NeedAt(x) = 0
  BY <1>1, <1>2, RecordsAreNeeds
<1>4. IsFiniteSet(M) /\ M \subseteq ReadDays \X Intervals /\ IsFiniteSet(D)
  BY <1>1, <1>2, <1>3, MomentsAre, FS_Subset
<1>5. \A x \in M : NeedAt(x) \in Nat
  BY <1>1, <1>4, NeedAtIs
<1>6. Amounts(e.by, D)
  BY <1>3, <1>5 DEF Amounts
<1>7. Charged(j).energy = SumOver(e.by, D)
  <2>1. D \subseteq ReadDays \X Intervals
    BY <1>3, <1>4
  <2> QED BY <1>2, <1>3, <1>4, <1>6, <2>1, RecordsInFull
<1> DEFINE f == [x \in M |-> NeedAt(x)]
<1>8. (\A x \in M : f[x] = NeedAt(x) /\ f[x] \in Int) /\ f = [x \in Moments(s) |-> NeedAt(x)]
  BY <1>2, <1>5
<1> HIDE DEF f
<1>9. SumOver(e.by, D) = SumOver(f, D)
  <2>1. \A x \in D : e.by[x] = f[x]
    BY <1>3, <1>8
  <2>2. PICK g : g = e.by
    OBVIOUS
  <2> QED BY <2>1, <2>2, SumOfSame
<1>10. SumOver(f, D) = SumOver(f, M)
  <2>1. (\A x \in M : f[x] \in Int) /\ (\A x \in M \ D : f[x] = 0) /\ D \in SUBSET M
    BY <1>3, <1>8
  <2> QED BY <1>4, <2>1, SumOfPart
<1>11. Needed(s) = SumOver(f, M) /\ Given(s) = 0 /\ Needed(s) \in Nat
  BY <1>1, <1>2, <1>8, NeededAdds
<1> QED BY <1>7, <1>9, <1>10, <1>11

LEMMA ChargedZones ==
    ASSUME NEW j, Charges(j), pv = "net_metering", ZonesPaid(Tariff, Count, ledger, details),
           NEW s, s = CycleStarts[j]
    PROVE  Charged(j).energy = Lack(s) - PaidInto(ledger, s) /\ Given(s) \in Nat /\ Needed(s) \in Nat
<1>1. Input /\ Balanced(j) /\ Tariff \in Range(Tariffs) /\ j \in 1..Count
  BY ChargesIn DEF Charges
<1>2. PICK t, e, L, D : t = Tariff /\ e = details[j] /\ L = ledger /\ D = details
  OBVIOUS
<1>3. ZonesPaid(t, Count, L, D)
  BY <1>2
<1>4. DOMAIN e.by = Zones(t) /\ Amounts(e.by, Zones(t)) /\ SumOver(e.by, Zones(t)) = Lack(s) - PaidInto(L, s)
  BY <1>1, <1>2, <1>3 DEF ZonesPaid, StartNo
<1>5. PICK Z : Z = Zones(t)
  OBVIOUS
<1>6. Z = Zones(Tariff) /\ DOMAIN e.by = Z /\ Amounts(e.by, Z)
  BY <1>2, <1>4, <1>5
<1>7. Charged(j).energy = SumOver(e.by, Z)
  BY <1>2, <1>6, ZonesInFull
<1>8. Given(s) \in Nat /\ Needed(s) \in Nat
  <2>1. PICK b : b = BalanceOf(s)
    OBVIOUS
  <2> QED BY <1>1, <1>2, <2>1, GivenIs, FullIs
<1> QED BY <1>2, <1>4, <1>5, <1>7, <1>8

LEMMA WholeSettled ==
    ASSUME Work, BooksBalance, Settle, NEW t, t = Tariff, NEW r, r = results'[t]
    PROVE  WholeIn(r)
<1>1. /\ phase = "charge" /\ cyc = Count + 1 /\ r = Settled
  BY SettleIs
<1>2. r.cycles = bill /\ r.ledger = ledger
  BY <1>1 DEF Settled
<1>3. Input /\ Count \in Nat /\ bill \in Seq(Billed(Count)) /\ \A j \in 1..Count : CanCharge(j)
  <2>1. Input /\ Charging /\ Count \in Nat
    BY <1>1, CountIs DEF Work
  <2>2. cyc - 1 = Count
    BY <1>1, <2>1
  <2> QED BY <2>1, <2>2 DEF Charging
<1> SUFFICES ASSUME NEW i \in DOMAIN bill
             PROVE  bill[i].energy = Max({0, Needed(bill[i].start) - Given(bill[i].start)})
                                     - PaidInto(ledger, bill[i].start)
  BY <1>2 DEF WholeIn
<1>4. bill[i] \in Billed(Count)
  <2>1. PICK B : B = Billed(Count)
    OBVIOUS
  <2>2. bill \in Seq(B)
    BY <1>3, <2>1
  <2> QED BY <2>1, <2>2
<1>5. PICK j \in 1..Count : bill[i] = Charged(j) /\ DaysOf(j) # {}
  BY <1>4 DEF Billed
<1>6. Charges(j)
  BY <1>1, <1>3, <1>5 DEF Charges
<1>7. PICK s : s = CycleStarts[j]
  OBVIOUS
<1>8. bill[i].start = s /\ bill[i].energy = Charged(j).energy
  BY <1>5, <1>7 DEF Charged
<1>9. CASE pv # "net_metering"
  <2>1. Charged(j).energy = Needed(s) /\ Given(s) = 0 /\ Needed(s) \in Nat
    BY <1>6, <1>7, <1>9, ChargedNeeds
  <2>2. ledger = {}
    BY <1>2, <1>9, NothingPaid
  <2>3. PaidInto(ledger, s) = 0
    <3>1. {e \in ledger : e.to = s} = {}
      BY <2>2
    <3> QED BY <3>1, KwhOfNone DEF PaidInto
  <2>4. Max({0, Needed(s) - Given(s)}) = Lack(s) /\ Lack(s) = Needed(s)
    <3>1. Given(s) \in Nat
      BY <2>1
    <3>2. Max({0, Needed(s) - Given(s)}) = Lack(s)
      BY <1>3, <2>1, <3>1, SpareAndLack
    <3>3. Lack(s) = Needed(s)
      BY <2>1 DEF Lack
    <3> QED BY <3>2, <3>3
  <2> QED BY <1>8, <2>1, <2>3, <2>4
<1>10. CASE pv = "net_metering"
  <2>1. ZonesPaid(Tariff, Count, ledger, details)
    BY <1>10, BooksAtTheEnd
  <2>2. Charged(j).energy = Lack(s) - PaidInto(ledger, s) /\ Given(s) \in Nat /\ Needed(s) \in Nat
    BY <1>6, <1>7, <1>10, <2>1, ChargedZones
  <2>3. Max({0, Needed(s) - Given(s)}) = Lack(s)
    BY <1>3, <2>2, SpareAndLack
  <2> QED BY <1>8, <2>2, <2>3
<1> QED BY <1>9, <1>10

\* What a cycle of a bill charges is what its quarter-hours need, less what the sun gives and
\* what the credits of the ledger pay: no energy is lost or invented.
THEOREM BillsAreWhole == Spec => []EnergyIsWhole
<1>1. Init => WholeDone
  BY DEF Init, WholeDone, Done, Pending
<1>2. Work /\ BooksBalance /\ WholeDone /\ [Next]_vars => WholeDone'
  <2> SUFFICES ASSUME Work, BooksBalance, WholeDone, [Next]_vars, NEW t \in Done', NEW r, r = results'[t]
               PROVE  WholeIn(r)'
    BY DEF WholeDone
  <2>1. UNCHANGED Inputs
    BY InputsStay
  <2>2. WholeIn(r)
    <3>1. CASE Settle /\ t = Tariff
      BY <3>1, WholeSettled
    <3>2. CASE ~(Settle /\ t = Tariff)
      <4>1. t \in Done /\ r = results[t]
        BY <3>2, ResultsStay
      <4> QED BY <4>1 DEF WholeDone
    <3> QED BY <3>1, <3>2
  <2> QED BY <2>1, <2>2, WholeStays
<1>3. Spec => []Work
  BY WorkFollowsReadings
<1>4. Spec => []BooksBalance
  BY CreditsAreKept
<1>5. WholeDone => EnergyIsWhole
  BY WholeIs
<1> QED BY <1>1, <1>2, <1>3, <1>4, <1>5, PTL DEF Spec

----------------------------------------------------------------------------
(* Energy costs the rate and the tax of its day.                           *)

AllMoments == ReadDays \X Intervals

\* The moments of the first k cycles.
Upto(k) == {x \in AllMoments : \E j \in 1..k : CycleStart(x[1]) = CycleStarts[j]}

RateAt(t, x) ==
    ListForPeriod(t)[Min(CoveringIndexes(ListForPeriod(t), x[1]))].rates[ZoneOf[t][Hour(x)]]
TaxAt(x) == 100 + Periods[Min(CoveringIndexes(Periods, x[1]))].vat
UnitCost(t, x) == RateAt(t, x) + IF t = Dynamic THEN Price(x) ELSE 0

\* What a moment costs, and what its surplus is worth.
CostAt(t, x) == IF NeedAt(x) = 0 THEN 0 ELSE TaxAt(x) * NeedAt(x) * UnitCost(t, x)
WorthAt(x) == IF pv = "net_billing" /\ NetUse(x) < 0 /\ Price(x) > 0 THEN (0 - NetUse(x)) * Price(x) ELSE 0

CostUpto(t, k) == SumOver([x \in AllMoments |-> CostAt(t, x)], Upto(k))
WorthUpto(k) == SumOver([x \in AllMoments |-> WorthAt(x)], Upto(k))
ActiveSum(b) == SumOver([i \in DOMAIN b |-> b[i].active], DOMAIN b)

\* The deposit after k cycles, and the bill.
Earned(k, money) ==
    /\ money = WorthUpto(k)
    /\ \A x \in Upto(k) : pv = "net_billing" /\ NetUse(x) < 0 => Price(x) \in Int
Costs(t, k, b) ==
    /\ ActiveSum(b) = CostUpto(t, k)
    /\ \A x \in Upto(k) : CostAt(t, x) \in Int
    /\ \A i \in DOMAIN b : b[i].active \in Int

MoneyAddsUp ==
    pv # "net_metering" =>
        /\ phase = "balance" => \A k \in {cyc - 1}, money \in {deposit} : Earned(k, money)
        /\ phase = "charge" => \A k \in {cyc - 1}, money \in {deposit}, t \in {Tariff}, b \in {bill} :
                                   Earned(Count, money) /\ Costs(t, k, b)

\* The first cycles, one by one.
LEMMA UptoIs ==
    ASSUME Input
    PROVE  Upto(0) = {} /\ Upto(Count) = AllMoments /\ IsFiniteSet(AllMoments)
<1>1. Upto(0) = {}
  BY DEF Upto
<1>2. Upto(Count) = AllMoments
  <2> SUFFICES ASSUME NEW x \in AllMoments PROVE \E j \in 1..Count : CycleStart(x[1]) = CycleStarts[j]
    BY DEF Upto
  <2>1. x[1] \in ReadDays
    BY DEF AllMoments
  <2> QED BY <2>1, CycleOfReadDay
<1>3. IsFiniteSet(AllMoments)
  BY CountIs, DataAssumption, FS_Product DEF AllMoments
<1> QED BY <1>1, <1>2, <1>3

LEMMA UptoGrows ==
    ASSUME Input, NEW k \in 1..Count, NEW M, M = Moments(CycleStarts[k])
    PROVE  /\ Upto(k) = Upto(k - 1) \cup M /\ Upto(k - 1) \cap M = {}
           /\ IsFiniteSet(Upto(k - 1)) /\ IsFiniteSet(M)
           /\ Upto(k - 1) \subseteq AllMoments /\ M \subseteq AllMoments
<1>1. /\ IsFiniteSet(M) /\ M \subseteq AllMoments
      /\ \A x \in AllMoments : x \in M <=> CycleStart(x[1]) = CycleStarts[k]
  BY MomentsAre DEF AllMoments
<1>2. IsFiniteSet(Upto(k - 1)) /\ Upto(k - 1) \subseteq AllMoments /\ Upto(k) \subseteq AllMoments
  <2>1. Upto(k - 1) \subseteq AllMoments /\ Upto(k) \subseteq AllMoments
    BY DEF Upto
  <2> QED BY <2>1, UptoIs, FS_Subset
<1>3. Count \in Nat /\ \A j : j \in 1..k <=> j \in 1..(k - 1) \/ j = k
  BY CountIs
<1>4. ASSUME NEW x \in AllMoments PROVE x \in Upto(k) <=> x \in Upto(k - 1) \/ x \in M
  <2>1. x \in Upto(k) <=> \E j \in 1..k : CycleStart(x[1]) = CycleStarts[j]
    BY DEF Upto
  <2>2. x \in Upto(k - 1) <=> \E j \in 1..(k - 1) : CycleStart(x[1]) = CycleStarts[j]
    BY DEF Upto
  <2> QED BY <1>1, <1>3, <2>1, <2>2
<1>5. ASSUME NEW x \in AllMoments, x \in Upto(k - 1), x \in M PROVE FALSE
  <2>1. PICK j \in 1..(k - 1) : CycleStart(x[1]) = CycleStarts[j]
    BY <1>5 DEF Upto
  <2>2. CycleStarts[j] = CycleStarts[k]
    BY <1>1, <1>5, <2>1
  <2>3. j \in 1..Count /\ j # k
    BY <1>3, <2>1
  <2> QED BY <2>2, <2>3, StartsIncrease
<1>6. Upto(k) = Upto(k - 1) \cup M
  BY <1>1, <1>2, <1>4
<1>7. Upto(k - 1) \cap M = {}
  BY <1>1, <1>5
<1> QED BY <1>1, <1>2, <1>6, <1>7

\* A sum over one more cycle.
LEMMA SumUpto ==
    ASSUME Input, NEW k \in 1..Count, NEW M, M = Moments(CycleStarts[k]),
           NEW f, Numbers(f, Upto(k - 1)), Numbers(f, M)
    PROVE  /\ SumOver(f, Upto(k)) = SumOver(f, Upto(k - 1)) + SumOver(f, M)
           /\ SumOver(f, Upto(k - 1)) \in Int /\ SumOver(f, M) \in Int
<1>1. PICK U, V : U = Upto(k - 1) /\ V = Upto(k)
  OBVIOUS
<1>2. V = U \cup M /\ U \cap M = {} /\ IsFiniteSet(U) /\ IsFiniteSet(M)
  BY <1>1, UptoGrows
<1>3. (\A x \in U : f[x] \in Int) /\ (\A x \in M : f[x] \in Int)
  BY <1>1 DEF Numbers
<1>4. \A x \in U \cup M : f[x] \in Int
  BY <1>3
<1>5. SumOver(f, U \cup M) = SumOver(f, U) + SumOver(f, M)
  BY <1>2, <1>4, SumOfUnion
<1>6. SumOver(f, U) \in Int /\ SumOver(f, M) \in Int
  BY <1>2, <1>3, SumIsNumber
<1> QED BY <1>1, <1>2, <1>5, <1>6

\* The rates and the tax of a day are those of its segment.
LEMMA SegmentRates ==
    ASSUME NEW j, Charges(j), NEW t, t = Tariff, NEW x \in AllMoments, x[1] \in DaysOf(j),
           NEW s \in SegmentsOf(j), x[1] \in s.days
    PROVE  /\ ListForPeriod(t)[s.def].rates[ZoneOf[t][Hour(x)]] = RateAt(t, x)
           /\ 100 + Periods[s.period].vat = TaxAt(x)
<1>1. PICK days, k : days = DaysOf(j) /\ k = SegmentKey(t, x[1])
  OBVIOUS
<1>2. IsFiniteSet(days) /\ s \in Segments(t, days)
  BY <1>1, ChargesIn, SegmentsOfCycle DEF SegmentsOf, Charges
<1>3. s = SegmentOf(t, days, k)
  BY <1>1, <1>2, SegmentsAre
<1>4. s.def = k[1] /\ s.period = k[2]
  BY <1>3 DEF SegmentOf
<1>5. k[1] = Min(CoveringIndexes(ListForPeriod(t), x[1])) /\ k[2] = Min(CoveringIndexes(Periods, x[1]))
  BY <1>1 DEF SegmentKey
<1> QED BY <1>4, <1>5 DEF RateAt, TaxAt

\* A day that is charged has rates of the zones of the tariff, and a tax.
LEMMA RatesAreNumbers ==
    ASSUME NEW j, Charges(j), NEW t, t = Tariff, NEW x \in AllMoments, x[1] \in DaysOf(j)
    PROVE  RateAt(t, x) \in Nat /\ TaxAt(x) \in Nat
<1>1. /\ Input /\ ReadDays # {} /\ t \in Range(Tariffs) /\ CycleStarts[j] \in Int /\ j \in 1..Count
      /\ \A d \in FirstDay..LastDay : CoveringIndexes(Periods, d) # {}
  BY ChargesIn DEF Charges, Work, Prepared
<1>2. /\ \A def \in Range(ListForPeriod(t)) : DOMAIN def.rates = Zones(t)
      /\ CoveringIndexes(ListForPeriod(t), x[1]) # {}
  BY DEF Charges, CanCharge, CannotCharge, DaysOf
<1>3. x[1] \in Int /\ FirstDay <= x[1] /\ x[1] <= LastDay /\ FirstDay \in Int /\ LastDay \in Int
  <2>1. x[1] \in ReadDays
    BY DEF AllMoments
  <2> QED BY <1>1, <2>1, CountIs, FileBounds
<1>4. RateAt(t, x) \in Nat
  <2>1. PICK L, I : L = ListForPeriod(t) /\ I = CoveringIndexes(L, x[1])
    OBVIOUS
  <2>2. Definitions[t] \in Seq([from : Int, to : Int, rates : Seq(Nat)])
    BY <1>1, RatesAssumption
  <2>3. /\ DOMAIN L \subseteq DOMAIN Definitions[t]
        /\ \A i \in DOMAIN L : L[i] = Definitions[t][i]
    BY <2>1 DEF ListForPeriod, Restrict
  <2>4. DOMAIN Definitions[t] = 1..Len(Definitions[t]) /\ Len(Definitions[t]) \in Nat
    BY <2>2
  <2>5. I \subseteq 1..Len(Definitions[t]) /\ I # {} /\ I \subseteq DOMAIN L
    BY <1>2, <2>1, <2>3, <2>4 DEF CoveringIndexes
  <2>6. IsFiniteSet(I) /\ I \subseteq Int
    <3>1. PICK n \in Nat : n = Len(Definitions[t])
      BY <2>4
    <3>2. IsFiniteSet(1..n)
      BY FS_Interval
    <3> QED BY <2>5, <3>1, <3>2, FS_Subset
  <2>7. PICK i \in DOMAIN L : i = Min(I)
    BY <2>5, <2>6, LeastExists
  <2>8. L[i] \in [from : Int, to : Int, rates : Seq(Nat)]
    <3>1. PICK R : R = [from : Int, to : Int, rates : Seq(Nat)]
      OBVIOUS
    <3>2. PICK q \in Seq(R) : q = Definitions[t]
      BY <2>2, <3>1
    <3>3. i \in DOMAIN q /\ L[i] = q[i]
      BY <2>3, <3>2
    <3>4. q[i] \in R
      BY <3>3
    <3> QED BY <3>1, <3>3, <3>4
  <2>9. L[i] \in Range(L)
    BY DEF Range
  <2>10. x[2] \in Intervals /\ Hour(x) = x[2][1]
    BY DEF Hour, AllMoments
  <2>11. ZoneOf[t][Hour(x)] \in DOMAIN L[i].rates
    BY <1>2, <2>1, <2>9, <2>10 DEF Zones
  <2>12. L[i].rates[ZoneOf[t][Hour(x)]] \in Nat
    <3>1. PICK q \in Seq(Nat) : q = L[i].rates
      BY <2>8
    <3>2. PICK z \in DOMAIN q : z = ZoneOf[t][Hour(x)]
      BY <2>11, <3>1
    <3>3. q[z] \in Nat
      OBVIOUS
    <3> QED BY <3>1, <3>2, <3>3
  <2> QED BY <2>1, <2>7, <2>12 DEF RateAt
<1>5. TaxAt(x) \in Nat
  <2>1. PICK I : I = CoveringIndexes(Periods, x[1])
    OBVIOUS
  <2>2. Periods \in Seq([from : Int, to : Int, vat : Nat])
    BY RatesAssumption
  <2>3. DOMAIN Periods = 1..Len(Periods) /\ Len(Periods) \in Nat
    BY <2>2
  <2>4. I \subseteq 1..Len(Periods) /\ I # {}
    BY <1>1, <1>3, <2>1, <2>3 DEF CoveringIndexes
  <2>5. IsFiniteSet(I) /\ I \subseteq Int
    <3>1. PICK n \in Nat : n = Len(Periods)
      BY <2>3
    <3>2. IsFiniteSet(1..n)
      BY FS_Interval
    <3>3. I \subseteq 1..n
      BY <2>4, <3>1
    <3>4. IsFiniteSet(I)
      BY <3>2, <3>3, FS_Subset
    <3> QED BY <3>3, <3>4
  <2>6. PICK i \in DOMAIN Periods : i = Min(I)
    BY <2>3, <2>4, <2>5, LeastExists
  <2>7. Periods[i] \in [from : Int, to : Int, vat : Nat]
    <3>1. PICK R : R = [from : Int, to : Int, vat : Nat]
      OBVIOUS
    <3>2. PICK q \in Seq(R) : q = Periods
      BY <2>2, <3>1
    <3>3. q[i] \in R
      BY <3>2
    <3> QED BY <3>1, <3>2, <3>3
  <2>8. Periods[i].vat \in Nat
    BY <2>7
  <2> QED BY <2>1, <2>6, <2>8 DEF TaxAt
<1> QED BY <1>4, <1>5

\* What the records of a charged cycle need.
RecordsNeed(j, e, D, M) ==
    /\ e = details[j] /\ D = DOMAIN e.by /\ M = Moments(CycleStarts[j])
    /\ e.kind = "records" /\ IsFiniteSet(M) /\ IsFiniteSet(D) /\ D \subseteq M /\ M \subseteq AllMoments
    /\ \A x \in M : NeedAt(x) \in Nat
    /\ \A x \in D : e.by[x] = NeedAt(x) /\ x[1] \in DaysOf(j)
    /\ \A x \in M \ D : NeedAt(x) = 0

LEMMA RecordsOfCycle ==
    ASSUME Input, pv # "net_metering", NEW j, Balanced(j), CanCharge(j)
    PROVE  \E e, D, M : RecordsNeed(j, e, D, M)
<1>1. PICK e, D, s, M : e = details[j] /\ D = DOMAIN e.by /\ s = CycleStarts[j] /\ M = Moments(s)
  OBVIOUS
<1>2. /\ e.kind = "records" /\ D \subseteq M
      /\ \A x \in D : e.by[x] = NeedAt(x)
      /\ \A x \in M \ D : NeedAt(x) = 0
  BY <1>1, RecordsAreNeeds
<1>3. IsFiniteSet(M) /\ M \subseteq AllMoments /\ IsFiniteSet(D)
  BY <1>1, <1>2, MomentsAre, FS_Subset DEF AllMoments
<1>4. \A x \in M : NeedAt(x) \in Nat
  BY <1>3, NeedAtIs DEF AllMoments
<1>5. \A x \in D : x[1] \in DaysOf(j)
  BY <1>1, <1>2 DEF CanCharge, CannotCharge, Recorded, DaysOf
<1> QED BY <1>1, <1>2, <1>3, <1>4, <1>5 DEF RecordsNeed

\* What a record of a charged cycle costs, by its rate and by the market.
LEMMA RecordCost ==
    ASSUME NEW j, Charges(j), NEW e, NEW D, NEW M, RecordsNeed(j, e, D, M), NEW t, t = Tariff, NEW x \in D
    PROVE  /\ NeedAt(x) * (TaxAt(x) * RateAt(t, x)) \in Int
           /\ t = Dynamic => NeedAt(x) * Price(x) * TaxAt(x) \in Int
           /\ CostAt(t, x) = NeedAt(x) * (TaxAt(x) * RateAt(t, x))
                             + IF t = Dynamic THEN NeedAt(x) * Price(x) * TaxAt(x) ELSE 0
<1>1. x \in AllMoments /\ x[1] \in DaysOf(j) /\ NeedAt(x) \in Nat
  BY DEF RecordsNeed
<1>2. RateAt(t, x) \in Nat /\ TaxAt(x) \in Nat
  BY <1>1, RatesAreNumbers
<1>3. t = Dynamic => Price(x) \in Int
  <2>1. t = Dynamic => Price(x) # NoPrice
    BY DEF RecordsNeed, Charges, CanCharge, CannotCharge, Recorded
  <2> QED BY <1>1, <2>1, ChargesIn, ReadingsAre DEF AllMoments
<1>4. PICK n \in Int, r \in Int, a \in Int : n = NeedAt(x) /\ r = RateAt(t, x) /\ a = TaxAt(x)
  BY <1>1, <1>2
<1>5. CASE t = Dynamic
  <2>1. PICK p \in Int : p = Price(x)
    BY <1>3, <1>5
  <2>2. CostAt(t, x) = IF n = 0 THEN 0 ELSE a * n * (r + p)
    BY <1>4, <1>5, <2>1 DEF CostAt, UnitCost
  <2>3. a * n * (r + p) = n * (a * r) + n * p * a /\ n * (a * r) \in Int /\ n * p * a \in Int
    OBVIOUS
  <2>4. n = 0 => n * (a * r) + n * p * a = 0
    OBVIOUS
  <2> QED BY <1>4, <1>5, <2>1, <2>2, <2>3, <2>4
<1>6. CASE t # Dynamic
  <2>1. CostAt(t, x) = IF n = 0 THEN 0 ELSE a * n * (r + 0)
    BY <1>4, <1>6 DEF CostAt, UnitCost
  <2>2. a * n * (r + 0) = n * (a * r) /\ n * (a * r) \in Int
    OBVIOUS
  <2>3. n = 0 => n * (a * r) = 0
    OBVIOUS
  <2> QED BY <1>4, <1>6, <2>1, <2>2, <2>3
<1> QED BY <1>5, <1>6

\* The two parts of the active energy of a cycle.
RateWeights(t, S) ==
    [s \in S |-> [z \in Zones(t) |->
        (100 + Periods[s.period].vat) * ListForPeriod(t)[s.def].rates[z]]]
MarketValues(e, S, D) ==
    [s \in S |-> [x \in D |-> e.by[x] * Price(x) * (100 + Periods[s.period].vat)]]

LEMMA ActiveIs ==
    ASSUME NEW e, e.kind = "records", NEW D, D = DOMAIN e.by, NEW S, NEW start, NEW t, t = Tariff
    PROVE  ActiveEnergyGross(e, S, start) =
               SplitEnergy(e, S, start, RateWeights(t, S))
               + IF t = Dynamic THEN BySegment(MarketValues(e, S, D), S, D) ELSE 0
<1> DEFINE value(s, x) == e.by[x] * Price(x) * (100 + Periods[s.period].vat)
           market(s) == SumFunction([x \in OfSegment(D, s) |-> value(s, x)])
           v == MarketValues(e, S, D)
<1>1. ActiveEnergyGross(e, S, start) =
          SplitEnergy(e, S, start, RateWeights(t, S))
          + IF t = Dynamic THEN SumFunction([s \in S |-> market(s)]) ELSE 0
  BY DEF ActiveEnergyGross, RateWeights, Sum, OfSegment
<1>2. ASSUME NEW s \in S PROVE market(s) = SumOver(v[s], OfSegment(D, s))
  <2>1. \A x \in OfSegment(D, s) : v[s][x] = value(s, x)
    BY DEF OfSegment, MarketValues
  <2> HIDE DEF v, value
  <2>2. [x \in OfSegment(D, s) |-> value(s, x)] = [x \in OfSegment(D, s) |-> v[s][x]]
    BY <2>1
  <2> QED BY <2>2 DEF SumOver
<1>3. SumFunction([s \in S |-> market(s)]) = BySegment(v, S, D)
  <2> HIDE DEF v, market
  <2>1. [s \in S |-> market(s)] = [s \in S |-> SumOver(v[s], OfSegment(D, s))]
    BY <1>2
  <2> QED BY <2>1 DEF BySegment
<1> HIDE DEF market
<1> QED BY <1>1, <1>3

\* A cycle costs what its moments cost.
LEMMA CycleCosts ==
    ASSUME NEW j, Charges(j), pv # "net_metering", NEW t, t = Tariff, NEW M, M = Moments(CycleStarts[j]),
           NEW f, \A x \in M : f[x] = CostAt(t, x)
    PROVE  Charged(j).active = SumOver(f, M) /\ Numbers(f, M)
<1>1. Input /\ ReadDays # {} /\ Balanced(j) /\ CanCharge(j) /\ j \in 1..Count /\ DaysOf(j) # {}
  BY ChargesIn DEF Charges
<1>2. PICK e, D : RecordsNeed(j, e, D, M)
  BY <1>1, RecordsOfCycle DEF RecordsNeed
<1>3. PICK S, start : S = SegmentsOf(j) /\ start = CycleStarts[j]
  OBVIOUS
<1>4. /\ e = details[j] /\ e.kind = "records" /\ D = DOMAIN e.by /\ IsFiniteSet(D) /\ IsFiniteSet(M)
      /\ D \subseteq M /\ M \subseteq AllMoments
  BY <1>2 DEF RecordsNeed
<1>5. IsFiniteSet(S) /\ Apart(S)
  BY <1>1, <1>3, SegmentsOfCycle
<1>6. PICK seg : InSegments(seg, S, D)
  BY <1>3, <1>4, RecordsHaveSegments
<1>7. ASSUME NEW x \in D
      PROVE  /\ seg[x] \in S /\ ZoneOf[t][Hour(x)] \in Zones(t) /\ e.by[x] = NeedAt(x)
             /\ ListForPeriod(t)[seg[x].def].rates[ZoneOf[t][Hour(x)]] = RateAt(t, x)
             /\ 100 + Periods[seg[x].period].vat = TaxAt(x)
  <2>1. seg[x] \in S /\ x[1] \in seg[x].days
    BY <1>6 DEF InSegments
  <2>2. PICK s \in SegmentsOf(j) : s = seg[x] /\ x[1] \in s.days
    BY <1>3, <2>1
  <2>3. x \in AllMoments /\ x[1] \in DaysOf(j) /\ e.by[x] = NeedAt(x)
    BY <1>2 DEF RecordsNeed
  <2>4. /\ ListForPeriod(t)[s.def].rates[ZoneOf[t][Hour(x)]] = RateAt(t, x)
        /\ 100 + Periods[s.period].vat = TaxAt(x)
    BY <2>2, <2>3, SegmentRates
  <2>5. ZoneOf[t][Hour(x)] \in Zones(t)
    BY <2>3 DEF Zones, Hour, AllMoments
  <2> QED BY <2>1, <2>2, <2>3, <2>4, <2>5
<1> DEFINE g == [x \in D |-> NeedAt(x) * (TaxAt(x) * RateAt(t, x))]
           h == [x \in D |-> IF t = Dynamic THEN NeedAt(x) * Price(x) * TaxAt(x) ELSE 0]
           w == RateWeights(t, S)
           v == MarketValues(e, S, D)
<1>8. \A x \in D : g[x] \in Int /\ h[x] \in Int /\ f[x] = g[x] + h[x]
  BY <1>2, <1>4, RecordCost
<1>9. SplitEnergy(e, S, start, w) = SumOver(g, D)
  <2>1. Weighed(g, e, w, seg, D)
    <3> SUFFICES ASSUME NEW x \in D PROVE g[x] = e.by[x] * w[seg[x]][ZoneOf[Tariff][Hour(x)]]
      BY DEF Weighed
    <3>1. PICK s, z : s = seg[x] /\ z = ZoneOf[t][Hour(x)]
      OBVIOUS
    <3>2. w[s][z] = (100 + Periods[s.period].vat) * ListForPeriod(t)[s.def].rates[z]
      BY <1>7, <3>1 DEF RateWeights
    <3>3. w[s][z] = TaxAt(x) * RateAt(t, x)
      BY <1>7, <3>1, <3>2
    <3> QED BY <1>7, <3>1, <3>3
  <2>2. Numbers(g, D)
    BY <1>8 DEF Numbers
  <2> HIDE DEF g, w
  <2>3. RecordsSplit(e, D, S, seg, w, g)
    BY <1>4, <1>5, <1>6, <2>1, <2>2 DEF RecordsSplit
  <2> QED BY <2>3, SplitOfRecords
<1>10. t = Dynamic => BySegment(v, S, D) = SumOver(h, D)
  <2> SUFFICES ASSUME t = Dynamic PROVE BySegment(v, S, D) = SumOver(h, D)
    OBVIOUS
  <2>1. \A x \in D : h[x] = v[seg[x]][x]
    <3> SUFFICES ASSUME NEW x \in D PROVE h[x] = v[seg[x]][x]
      OBVIOUS
    <3>1. PICK s : s = seg[x]
      OBVIOUS
    <3>2. v[s][x] = e.by[x] * Price(x) * (100 + Periods[s.period].vat)
      BY <1>7, <3>1 DEF MarketValues
    <3> QED BY <1>7, <3>1, <3>2
  <2>2. Numbers(h, D)
    BY <1>8 DEF Numbers
  <2> HIDE DEF h, v
  <2> QED BY <1>4, <1>5, <1>6, <2>1, <2>2, SumBySegment
<1>11. t # Dynamic => SumOver(h, D) = 0
  <2>1. t # Dynamic => \A x \in D : h[x] = 0
    OBVIOUS
  <2> HIDE DEF h
  <2> QED BY <1>4, <2>1, SumOfZeros
<1>12. Charged(j).active = SumOver(g, D) + SumOver(h, D)
  <2>1. Charged(j).active = ActiveEnergyGross(e, S, start)
    BY <1>3, <1>4 DEF Charged
  <2>2. ActiveEnergyGross(e, S, start) =
            SplitEnergy(e, S, start, w) + IF t = Dynamic THEN BySegment(v, S, D) ELSE 0
    BY <1>4, ActiveIs
  <2> HIDE DEF g, h, w, v
  <2> QED BY <1>9, <1>10, <1>11, <2>1, <2>2
<1>13. SumOver(f, D) = SumOver(g, D) + SumOver(h, D)
  <2> HIDE DEF g, h
  <2> QED BY <1>4, <1>8, SumOfTwo
<1>14. \A x \in M \ D : f[x] = 0
  BY <1>2 DEF RecordsNeed, CostAt
<1>15. \A x \in M : f[x] \in Int
  <2>1. \A x \in D : f[x] \in Int
    <3> HIDE DEF g, h
    <3> QED BY <1>8
  <2> QED BY <1>14, <2>1
<1>16. SumOver(f, D) = SumOver(f, M)
  BY <1>4, <1>14, <1>15, SumOfPart
<1> HIDE DEF g, h
<1> QED BY <1>12, <1>13, <1>15, <1>16 DEF Numbers

\* A cycle outside the days of the file has no records and costs nothing.
LEMMA NoDaysNoCosts ==
    ASSUME Input, pv # "net_metering", NEW j, Balanced(j), CanCharge(j), DaysOf(j) = {},
           NEW t, NEW M, M = Moments(CycleStarts[j]), NEW f, \A x \in M : f[x] = CostAt(t, x)
    PROVE  SumOver(f, M) = 0 /\ Numbers(f, M)
<1>1. PICK e, D : RecordsNeed(j, e, D, M)
  BY RecordsOfCycle DEF RecordsNeed
<1>2. \A x \in M : NeedAt(x) = 0 /\ IsFiniteSet(M)
  BY <1>1 DEF RecordsNeed
<1>3. \A x \in M : f[x] = 0
  BY <1>2 DEF CostAt
<1>4. IsFiniteSet(M)
  BY <1>1 DEF RecordsNeed
<1>5. SumOver(f, M) = 0
  BY <1>3, <1>4, SumOfZeros
<1> QED BY <1>3, <1>5 DEF Numbers

\* What a cycle adds to the costs: before it is charged, after it is charged.
LEMMA CostsGrow ==
    ASSUME Work, phase = "charge", pv # "net_metering", cyc \in 1..Count, CanCharge(cyc),
           NEW t, t = Tariff, NEW k, k = cyc, NEW b, b \in Seq(Billed(k - 1)), Costs(t, k - 1, b),
           NEW c, c = IF DaysOf(k) = {} THEN b ELSE Append(b, Charged(k))
    PROVE  Costs(t, k, c)
<1>1. Input /\ Balanced(k) /\ k \in 1..Count /\ CanCharge(k) /\ ReadDays # {}
  BY DEF Work, Charging, Prepared
<1>2. PICK M, U, V : M = Moments(CycleStarts[k]) /\ U = Upto(k - 1) /\ V = Upto(k)
  OBVIOUS
<1>3. V = U \cup M /\ U \subseteq AllMoments /\ M \subseteq AllMoments
  BY <1>1, <1>2, UptoGrows
<1> DEFINE f == [x \in AllMoments |-> CostAt(t, x)]
<1>4. \A x \in AllMoments : f[x] = CostAt(t, x)
  OBVIOUS
<1>5. CostUpto(t, k) = SumOver(f, V) /\ CostUpto(t, k - 1) = SumOver(f, U)
  BY <1>2 DEF CostUpto
<1> HIDE DEF f
<1>6. Numbers(f, U) /\ ActiveSum(b) = SumOver(f, U)
  BY <1>2, <1>3, <1>4, <1>5 DEF Costs, Numbers
<1>7. \A x \in M : f[x] = CostAt(t, x)
  BY <1>3, <1>4
<1>8. /\ Numbers(f, M)
      /\ DaysOf(k) = {} => SumOver(f, M) = 0
      /\ DaysOf(k) # {} => SumOver(f, M) = Charged(k).active
  <2>1. CASE DaysOf(k) = {}
    BY <1>1, <1>2, <1>7, <2>1, NoDaysNoCosts
  <2>2. CASE DaysOf(k) # {}
    <3>1. Charges(k)
      BY <1>1, <2>2 DEF Charges
    <3> QED BY <1>2, <1>7, <2>2, <3>1, CycleCosts
  <2> QED BY <2>1, <2>2
<1>9. SumOver(f, V) = SumOver(f, U) + SumOver(f, M) /\ SumOver(f, U) \in Int /\ SumOver(f, M) \in Int
  BY <1>1, <1>2, <1>6, <1>8, SumUpto
<1>10. \A x \in V : CostAt(t, x) \in Int
  BY <1>3, <1>4, <1>6, <1>8 DEF Numbers
<1>11. CASE DaysOf(k) = {}
  BY <1>2, <1>5, <1>6, <1>8, <1>9, <1>10, <1>11 DEF Costs
<1>12. CASE DaysOf(k) # {}
  <2>1. PICK n, q, a : n = Len(b) /\ q = Charged(k) /\ a = q.active
    OBVIOUS
  <2>2. PICK B : B = Billed(k - 1)
    OBVIOUS
  <2>3. b \in Seq(B) /\ c = Append(b, q)
    BY <1>12, <2>1, <2>2
  <2>4. /\ n \in Nat /\ DOMAIN b = 1..n /\ DOMAIN c = 1..(n + 1) /\ c[n + 1] = q
        /\ \A i \in 1..n : c[i] = b[i]
    BY <2>1, <2>3
  <2>5. a = SumOver(f, M) /\ a \in Int
    BY <1>8, <1>9, <1>12, <2>1
  <2> DEFINE g == [i \in DOMAIN c |-> c[i].active]
             h == [i \in DOMAIN b |-> b[i].active]
  <2>6. /\ \A i \in 1..n : g[i] = b[i].active /\ h[i] = b[i].active
        /\ g[n + 1] = a
    BY <2>1, <2>4
  <2>7. ActiveSum(c) = SumOver(g, 1..(n + 1)) /\ ActiveSum(b) = SumOver(h, 1..n)
    BY <2>4 DEF ActiveSum
  <2>8. \A i \in 1..n : b[i].active \in Int
    BY <2>4 DEF Costs
  <2> HIDE DEF g, h
  <2>9. SumOver(g, 1..(n + 1)) = SumOver(g, 1..n) + a
    <3>1. PICK I : I = 1..n
      OBVIOUS
    <3>2. IsFiniteSet(I) /\ n + 1 \notin I /\ 1..(n + 1) = I \cup {n + 1}
      <4>1. IsFiniteSet(1..n)
        BY <2>4, FS_Interval
      <4> QED BY <2>4, <3>1, <4>1
    <3>3. \A i \in I \cup {n + 1} : g[i] \in Int
      BY <2>5, <2>6, <2>8, <3>1
    <3>4. SumOver(g, I \cup {n + 1}) = SumOver(g, I) + g[n + 1]
      <4>1. PICK m : m = n + 1
        OBVIOUS
      <4>2. m \notin I /\ \A i \in I \cup {m} : g[i] \in Int
        BY <3>2, <3>3, <4>1
      <4>3. SumOver(g, I \cup {m}) = SumOver(g, I) + g[m]
        BY <3>2, <4>2, SumWith
      <4> QED BY <4>1, <4>3
    <3> QED BY <2>6, <3>1, <3>2, <3>4
  <2>10. SumOver(g, 1..n) = SumOver(h, 1..n)
    <3>1. PICK I : I = 1..n
      OBVIOUS
    <3>2. \A i \in I : g[i] = h[i]
      BY <2>6, <3>1
    <3> QED BY <3>1, <3>2, SumOfSame
  <2>11. ActiveSum(c) = CostUpto(t, k)
    BY <1>5, <1>6, <1>9, <2>5, <2>7, <2>9, <2>10
  <2>12. \A i \in DOMAIN c : c[i].active \in Int
    <3> SUFFICES ASSUME NEW i \in DOMAIN c PROVE c[i].active \in Int
      OBVIOUS
    <3>1. i \in 1..n \/ i = n + 1
      BY <2>4
    <3> QED BY <2>1, <2>4, <2>5, <2>8, <3>1
  <2> QED BY <1>2, <1>10, <2>11, <2>12 DEF Costs
<1> QED BY <1>11, <1>12

\* What a cycle of net billing adds to the deposit.
LEMMA EarningsGrow ==
    ASSUME Work, phase = "balance", pv = "net_billing", NEW k, k = cyc,
           \A x \in Surplus(CycleStarts[k]) : Price(x) # NoPrice,
           NEW money, Earned(k - 1, money)
    PROVE  Earned(k, money + MoneyForSurplus(CycleStarts[k]))
<1>1. Input /\ k \in 1..Count
  BY DEF Work, Balancing
<1>2. PICK s, M, U, V : s = CycleStarts[k] /\ M = Moments(s) /\ U = Upto(k - 1) /\ V = Upto(k)
  OBVIOUS
<1>3. V = U \cup M /\ U \subseteq AllMoments /\ M \subseteq AllMoments /\ IsFiniteSet(M)
  BY <1>1, <1>2, UptoGrows
<1> DEFINE f == [x \in AllMoments |-> WorthAt(x)]
           short == {x \in M : NetUse(x) < 0}
<1>4. \A x \in AllMoments : f[x] = WorthAt(x)
  OBVIOUS
<1>5. WorthUpto(k) = SumOver(f, V) /\ WorthUpto(k - 1) = SumOver(f, U)
  BY <1>2 DEF WorthUpto
<1> HIDE DEF f
<1>6. \A x \in M : Balance(x) = NetUse(x)
  BY <1>2, RecordedUseIs DEF Balance, NetUse
<1>7. Surplus(s) = short
  BY <1>2, <1>6 DEF Surplus
<1>8. \A x \in short : Price(x) \in Int
  BY <1>1, <1>2, <1>3, <1>7, ReadingsAre DEF AllMoments
<1>9. \A x \in V : NetUse(x) < 0 => Price(x) \in Int
  BY <1>2, <1>3, <1>8 DEF Earned
<1>10. \A x \in V : f[x] \in Int
  <2> SUFFICES ASSUME NEW x \in V PROVE f[x] \in Int
    OBVIOUS
  <2>1. x \in AllMoments /\ NetUse(x) \in Int
    BY <1>1, <1>3, ReadingsAre DEF AllMoments
  <2>2. CASE NetUse(x) < 0
    <3>1. PICK n \in Int, p \in Int : n = NetUse(x) /\ p = Price(x)
      BY <1>9, <2>1, <2>2
    <3>2. (0 - n) * p \in Int
      OBVIOUS
    <3> QED BY <1>4, <2>1, <3>1, <3>2 DEF WorthAt
  <2>3. CASE ~(NetUse(x) < 0)
    BY <1>4, <2>1, <2>3 DEF WorthAt
  <2> QED BY <2>2, <2>3
<1>11. SumOver(f, V) = SumOver(f, U) + SumOver(f, M)
  <2>1. Numbers(f, U) /\ Numbers(f, M)
    BY <1>3, <1>10 DEF Numbers
  <2> QED BY <1>1, <1>2, <2>1, SumUpto
<1>12. MoneyForSurplus(s) = SumOver(f, M)
  <2>1. MoneyForSurplus(s) = SumFunction([x \in short |-> (0 - Balance(x)) * Max({Price(x), 0})])
    BY <1>7 DEF MoneyForSurplus, Sum
  <2>2. ASSUME NEW x \in short PROVE (0 - Balance(x)) * Max({Price(x), 0}) = f[x]
    <3>1. Balance(x) = NetUse(x) /\ NetUse(x) < 0 /\ x \in AllMoments
      BY <1>3, <1>6
    <3>2. NetUse(x) \in Int
      BY <1>1, <3>1, ReadingsAre DEF AllMoments
    <3>3. PICK n \in Int, p \in Int : n = NetUse(x) /\ p = Price(x)
      BY <1>8, <3>2
    <3>4. Max({p, 0}) = IF 0 <= p THEN p ELSE 0
      <4>1. {p, 0} = {0, p}
        OBVIOUS
      <4> QED BY <4>1, NotNegative
    <3>5. f[x] = IF p > 0 THEN (0 - n) * p ELSE 0
      BY <1>4, <3>1, <3>3 DEF WorthAt
    <3>6. (0 - n) * 0 = 0
      OBVIOUS
    <3>7. (0 - n) * Max({p, 0}) = f[x]
      <4>1. CASE p > 0
        BY <3>4, <3>5, <4>1
      <4>2. CASE ~(p > 0)
        <5>1. Max({p, 0}) = 0 /\ f[x] = 0
          BY <3>4, <3>5, <4>2
        <5> QED BY <3>6, <5>1
      <4> QED BY <4>1, <4>2
    <3> QED BY <3>1, <3>3, <3>7
  <2> DEFINE worth(x) == (0 - Balance(x)) * Max({Price(x), 0})
  <2>3. [x \in short |-> worth(x)] = [x \in short |-> f[x]]
    <3>1. \A x \in short : worth(x) = f[x]
      BY <2>2
    <3> HIDE DEF worth, short
    <3> QED BY <3>1
  <2>4. MoneyForSurplus(s) = SumOver(f, short)
    BY <2>1, <2>3 DEF SumOver
  <2>5. \A x \in M \ short : f[x] = 0
    BY <1>3, <1>4 DEF WorthAt
  <2>6. (\A x \in M : f[x] \in Int) /\ short \in SUBSET M
    BY <1>3, <1>10
  <2> HIDE DEF short
  <2>7. SumOver(f, short) = SumOver(f, M)
    BY <1>3, <2>5, <2>6, SumOfPart
  <2> QED BY <2>4, <2>7
<1>13. money + MoneyForSurplus(s) = WorthUpto(k)
  BY <1>2, <1>5, <1>11, <1>12 DEF Earned
<1> QED BY <1>2, <1>9, <1>13 DEF Earned

\* Costs and earnings are those of the readings.
LEMMA MoneyStays ==
    ASSUME UNCHANGED Inputs
    PROVE  /\ \A k, money : Earned(k, money)' <=> Earned(k, money)
           /\ \A t, k, b : Costs(t, k, b)' <=> Costs(t, k, b)
           /\ Count' = Count
<1>1. readings' = readings /\ pv' = pv /\ prices' = prices
  BY DEF Inputs
<1>2. /\ ReadDays' = ReadDays /\ CycleStarts' = CycleStarts /\ Count' = Count
      /\ \A t : ListForPeriod(t)' = ListForPeriod(t)
  BY <1>1, FileIsSame
<1>3. AllMoments' = AllMoments /\ \A k : Upto(k)' = Upto(k)
  BY <1>2 DEF AllMoments, Upto
<1>4. \A x : NetUse(x)' = NetUse(x) /\ Price(x)' = Price(x) /\ NeedAt(x)' = NeedAt(x)
  BY <1>1 DEF NetUse, Used, Exported, Price, NeedAt
<1>5. \A x : WorthAt(x)' = WorthAt(x)
  BY <1>1, <1>4 DEF WorthAt
<1>6. \A t, x : CostAt(t, x)' = CostAt(t, x)
  <2>1. \A t, x : RateAt(t, x)' = RateAt(t, x)
    BY <1>2 DEF RateAt
  <2> QED BY <1>4, <2>1 DEF CostAt, UnitCost, TaxAt
<1>7. \A k : WorthUpto(k)' = WorthUpto(k)
  BY <1>3, <1>5 DEF WorthUpto
<1>8. \A t, k : CostUpto(t, k)' = CostUpto(t, k)
  BY <1>3, <1>6 DEF CostUpto
<1>9. \A k, money : Earned(k, money)' <=> Earned(k, money)
  BY <1>1, <1>3, <1>4, <1>7 DEF Earned
<1>10. \A t, k, b : Costs(t, k, b)' <=> Costs(t, k, b)
  BY <1>3, <1>6, <1>8 DEF Costs
<1> QED BY <1>2, <1>9, <1>10

LEMMA NothingYet ==
    ASSUME Input, NEW t, NEW b, b = << >>
    PROVE  /\ Earned(0, 0) /\ Costs(t, 0, b)
           /\ pv = "none" => Earned(Count, 0)
<1>1. Upto(0) = {}
  BY UptoIs
<1>2. WorthUpto(0) = 0
  <2>1. PICK f : f = [x \in AllMoments |-> WorthAt(x)]
    OBVIOUS
  <2>2. SumOver(f, {}) = 0
    BY SumOfNone
  <2> QED BY <1>1, <2>1, <2>2 DEF WorthUpto
<1>3. CostUpto(t, 0) = 0
  <2>1. PICK f : f = [x \in AllMoments |-> CostAt(t, x)]
    OBVIOUS
  <2>2. SumOver(f, {}) = 0
    BY SumOfNone
  <2> QED BY <1>1, <2>1, <2>2 DEF CostUpto
<1>4. ActiveSum(b) = 0
  <2>1. DOMAIN b = {}
    OBVIOUS
  <2>2. PICK f : f = [i \in DOMAIN b |-> b[i].active]
    OBVIOUS
  <2>3. SumOver(f, {}) = 0
    BY SumOfNone
  <2> QED BY <2>1, <2>2, <2>3 DEF ActiveSum
<1>5. ASSUME pv = "none" PROVE Earned(Count, 0)
  <2>1. PICK f : f = [x \in AllMoments |-> WorthAt(x)]
    OBVIOUS
  <2>2. Upto(Count) = AllMoments /\ IsFiniteSet(AllMoments)
    BY UptoIs
  <2>3. \A x \in AllMoments : f[x] = 0
    BY <1>5, <2>1 DEF WorthAt
  <2>4. SumOver(f, AllMoments) = 0
    BY <2>2, <2>3, SumOfZeros
  <2>5. WorthUpto(Count) = 0
    BY <2>1, <2>2, <2>4 DEF WorthUpto
  <2> QED BY <1>5, <2>5 DEF Earned
<1>6. Earned(0, 0)
  BY <1>1, <1>2 DEF Earned
<1>7. Costs(t, 0, b)
  <2>1. DOMAIN b = {}
    OBVIOUS
  <2> QED BY <1>1, <1>3, <1>4, <2>1 DEF Costs
<1> QED BY <1>5, <1>6, <1>7

LEMMA MoneyNext == Work /\ MoneyAddsUp /\ [Next]_vars => MoneyAddsUp'
<1> SUFFICES ASSUME Work, MoneyAddsUp, [Next]_vars PROVE MoneyAddsUp'
  OBVIOUS
<1>1. UNCHANGED Inputs /\ pv' = pv /\ Input
  BY InputsStay DEF Inputs, Work
<1> SUFFICES ASSUME pv # "net_metering" PROVE MoneyAddsUp'
  BY <1>1 DEF MoneyAddsUp
<1>2. /\ \A k, money : Earned(k, money)' <=> Earned(k, money)
      /\ \A t, k, b : Costs(t, k, b)' <=> Costs(t, k, b)
      /\ Count' = Count
  BY <1>1, MoneyStays
<1>3. CASE NextTariff
  <2>1. /\ cyc' = 1 /\ deposit' = 0 /\ bill' = << >>
        /\ phase' = (IF pv = "none" THEN "charge" ELSE "balance")
    BY <1>3 DEF NextTariff
  <2>2. /\ phase' = "balance" => Earned(0, 0)'
        /\ phase' = "charge" => Earned(Count, 0)' /\ \A t : \A b \in {bill'} : Costs(t, 0, b)'
    <3>1. ASSUME NEW t, NEW b \in {bill'} PROVE Earned(0, 0) /\ Costs(t, 0, b) /\ (pv = "none" => Earned(Count, 0))
      BY <1>1, <2>1, NothingYet
    <3> QED BY <1>2, <2>1, <3>1
  <2>3. cyc' - 1 = 0
    BY <2>1
  <2> QED BY <1>2, <2>1, <2>2, <2>3 DEF MoneyAddsUp
<1>4. CASE BalanceBilling
  <2>1. PICK k, m, n : k = cyc /\ m = deposit /\ n = m + MoneyForSurplus(CycleStarts[k])
    OBVIOUS
  <2>2. /\ phase = "balance" /\ pv = "net_billing" /\ AdvanceBalancing /\ bill' = bill /\ deposit' = n
        /\ \A x \in Surplus(CycleStarts[k]) : Price(x) # NoPrice
    BY <1>4, <2>1 DEF BalanceBilling
  <2>3. Earned(k - 1, m)
    BY <2>1, <2>2 DEF MoneyAddsUp
  <2>4. Earned(k, n)
    BY <2>1, <2>2, <2>3, EarningsGrow
  <2>5. bill = << >> /\ k \in 1..Count
    BY <2>1, <2>2 DEF Work, Balancing
  <2>6. CASE k = Count
    <3>1. phase' = "charge" /\ cyc' = 1 /\ cyc' - 1 = 0
      BY <2>1, <2>2, <2>6 DEF AdvanceBalancing, Count
    <3>2. \A t : \A b \in {bill'} : Costs(t, 0, b)
      BY <1>1, <2>2, <2>5, NothingYet
    <3> QED BY <1>2, <2>2, <2>4, <2>6, <3>1, <3>2 DEF MoneyAddsUp
  <2>7. CASE k # Count
    <3>1. phase' = "balance" /\ cyc' = k + 1 /\ cyc' - 1 = k
      BY <2>1, <2>2, <2>5, <2>7 DEF AdvanceBalancing, Count
    <3> QED BY <1>2, <2>2, <2>4, <3>1 DEF MoneyAddsUp
  <2> QED BY <2>6, <2>7
<1>5. CASE ChargeCycle
  <2>1. PICK k, m, t, b, c : k = cyc /\ m = deposit /\ t = Tariff /\ b = bill /\ c = bill'
    OBVIOUS
  <2>2. /\ UNCHANGED <<turn, details, deposit>> /\ phase = "charge" /\ phase' = "charge" /\ cyc <= Count
        /\ cyc' = k + 1 /\ CanCharge(k)
        /\ c = IF DaysOf(k) = {} THEN b ELSE Append(b, Charged(k))
    BY <1>5, <2>1, ChargeIs
  <2>3. k \in 1..Count /\ b \in Seq(Billed(k - 1))
    BY <2>1, <2>2, CountIs DEF Work, Charging
  <2>4. Earned(Count, m) /\ Costs(t, k - 1, b)
    BY <2>1, <2>2 DEF MoneyAddsUp
  <2>5. Costs(t, k, c)
    BY <2>1, <2>2, <2>3, <2>4, CostsGrow
  <2>6. Tariff' = t
    BY <1>1, <2>1, <2>2, FileIsSame DEF Tariff, Inputs
  <2>7. cyc' - 1 = k /\ deposit' = m
    BY <2>1, <2>2, <2>3
  <2> QED BY <1>2, <2>1, <2>2, <2>4, <2>5, <2>6, <2>7 DEF MoneyAddsUp
<1>6. CASE UNCHANGED vars
  <2>1. UNCHANGED <<cyc, deposit, bill, phase, turn>> /\ Tariff' = Tariff
    BY <1>1, <1>6, FileIsSame DEF vars, Tariff, Inputs
  <2> QED BY <1>2, <2>1 DEF MoneyAddsUp
<1>7. \/ NextTariff \/ BalanceBilling \/ ChargeCycle \/ UNCHANGED vars
      \/ phase' \notin {"balance", "charge"}
  BY DEF Next, Prepare, BalanceMetering, BalanceFails, ChargeFails, Settle, Answer, Fail
<1>8. CASE phase' \notin {"balance", "charge"}
  BY <1>8 DEF MoneyAddsUp
<1> QED BY <1>3, <1>4, <1>5, <1>6, <1>7, <1>8

\* While tariffs are balanced and charged, the bill costs what the moments of its cycles cost,
\* and the deposit is what their surplus is worth.
THEOREM MoneyIsCounted == Spec => []MoneyAddsUp
<1>1. Init => MoneyAddsUp
  BY DEF Init, MoneyAddsUp
<1>2. Spec => []Work
  BY WorkFollowsReadings
<1> QED BY <1>1, <1>2, MoneyNext, PTL DEF Spec

\* The costs and the surplus of the property.
TakenAt(x) == IF pv = "none" THEN Used(x) ELSE Used(x) - Exported(x)
FileCost(t) ==
    SumFunction([x \in {x \in AllMoments : TakenAt(x) > 0} |->
        (100 + Periods[Min(CoveringIndexes(Periods, x[1]))].vat) * TakenAt(x)
            * (ListForPeriod(t)[Min(CoveringIndexes(ListForPeriod(t), x[1]))].rates[ZoneOf[t][Hour(x)]]
               + IF t = Dynamic THEN Price(x) ELSE 0)])
FileWorth ==
    SumFunction([x \in {x \in AllMoments : TakenAt(x) < 0 /\ Price(x) > 0} |-> (0 - TakenAt(x)) * Price(x)])
RatesIn(t, r) == r.payable = FileCost(t) - Min({100 * FileWorth, FileCost(t)})
RatesDone == pv # "net_metering" => \A t \in Done : \A r \in {results[t]} : RatesIn(t, r)

LEMMA RatesAre == RatesDone => EnergyCostsItsRate
<1> SUFFICES ASSUME RatesDone, pv # "net_metering", NEW t \in Done
             PROVE  results[t].payable = FileCost(t) - Min({100 * FileWorth, FileCost(t)})
  BY DEF EnergyCostsItsRate, FileCost, FileWorth, TakenAt, AllMoments, Sum
<1> QED BY DEF RatesDone, RatesIn

LEMMA RatesStay == UNCHANGED Inputs => \A t, r : RatesIn(t, r)' <=> RatesIn(t, r)
<1> SUFFICES ASSUME UNCHANGED Inputs PROVE \A t, r : RatesIn(t, r)' <=> RatesIn(t, r)
  OBVIOUS
<1>1. readings' = readings /\ pv' = pv /\ prices' = prices
  BY DEF Inputs
<1>2. ReadDays' = ReadDays /\ \A t : ListForPeriod(t)' = ListForPeriod(t)
  BY <1>1, FileIsSame
<1>3. AllMoments' = AllMoments /\ \A x : TakenAt(x)' = TakenAt(x) /\ Price(x)' = Price(x)
  BY <1>1, <1>2 DEF AllMoments, TakenAt, Used, Exported, Price
<1>4. \A t : FileCost(t)' = FileCost(t)
  BY <1>2, <1>3 DEF FileCost
<1>5. FileWorth' = FileWorth
  BY <1>3 DEF FileWorth
<1> QED BY <1>4, <1>5 DEF RatesIn

\* Sums over all moments leave out what costs nothing.
LEMMA FileCosts ==
    ASSUME Input, NEW t, pv # "net_metering", \A x \in AllMoments : CostAt(t, x) \in Int
    PROVE  FileCost(t) = CostUpto(t, Count)
<1> DEFINE f == [x \in AllMoments |-> CostAt(t, x)]
           D == {x \in AllMoments : TakenAt(x) > 0}
           cost(x) == (100 + Periods[Min(CoveringIndexes(Periods, x[1]))].vat) * TakenAt(x)
                      * (ListForPeriod(t)[Min(CoveringIndexes(ListForPeriod(t), x[1]))].rates[ZoneOf[t][Hour(x)]]
                         + IF t = Dynamic THEN Price(x) ELSE 0)
<1>1. ASSUME NEW x \in AllMoments
      PROVE  /\ x \in D => cost(x) = f[x]
             /\ x \notin D => f[x] = 0
  <2>1. TakenAt(x) \in Int /\ NeedAt(x) = IF 0 <= TakenAt(x) THEN TakenAt(x) ELSE 0
    <3>1. Used(x) \in Nat /\ Exported(x) \in Nat
      BY ReadingsAre DEF AllMoments
    <3>2. /\ pv = "none" => NeedAt(x) = Used(x)
          /\ pv # "none" => NeedAt(x) = IF 0 <= NetUse(x) THEN NetUse(x) ELSE 0
      BY NeedAtIs DEF AllMoments
    <3> QED BY <3>1, <3>2 DEF TakenAt, NetUse
  <2>2. cost(x) = TaxAt(x) * TakenAt(x) * UnitCost(t, x)
    BY DEF TaxAt, UnitCost, RateAt
  <2>3. f[x] = IF NeedAt(x) = 0 THEN 0 ELSE TaxAt(x) * NeedAt(x) * UnitCost(t, x)
    BY DEF CostAt
  <2>4. x \in D <=> TakenAt(x) > 0
    OBVIOUS
  <2> HIDE DEF cost, f, D
  <2>5. CASE TakenAt(x) > 0
    <3>1. NeedAt(x) = TakenAt(x) /\ NeedAt(x) # 0
      BY <2>1, <2>5
    <3> QED BY <2>2, <2>3, <2>4, <2>5, <3>1
  <2>6. CASE ~(TakenAt(x) > 0)
    <3>1. NeedAt(x) = 0
      BY <2>1, <2>6
    <3> QED BY <2>3, <2>4, <2>6, <3>1
  <2> QED BY <2>5, <2>6
<1>2. \A x \in AllMoments : f[x] \in Int
  OBVIOUS
<1>3. Upto(Count) = AllMoments /\ IsFiniteSet(AllMoments) /\ D \in SUBSET AllMoments
  BY UptoIs
<1>4. FileCost(t) = SumFunction([x \in D |-> cost(x)])
  BY DEF FileCost
<1>5. CostUpto(t, Count) = SumOver(f, AllMoments)
  BY <1>3 DEF CostUpto
<1> HIDE DEF f, D, cost
<1>6. [x \in D |-> cost(x)] = [x \in D |-> f[x]]
  BY <1>1, <1>3
<1>7. SumOver(f, D) = SumOver(f, AllMoments)
  BY <1>1, <1>2, <1>3, SumOfPart
<1> QED BY <1>4, <1>5, <1>6, <1>7 DEF SumOver

LEMMA FileIsWorth ==
    ASSUME Input, pv # "net_metering",
           \A x \in AllMoments : pv = "net_billing" /\ NetUse(x) < 0 => Price(x) \in Int
    PROVE  FileWorth = WorthUpto(Count) /\ FileWorth \in Int
<1> DEFINE f == [x \in AllMoments |-> WorthAt(x)]
           D == {x \in AllMoments : TakenAt(x) < 0 /\ Price(x) > 0}
           worth(x) == (0 - TakenAt(x)) * Price(x)
<1>1. ASSUME NEW x \in AllMoments
      PROVE  /\ f[x] \in Int
             /\ x \in D => worth(x) = f[x]
             /\ x \notin D => f[x] = 0
  <2>1. Used(x) \in Nat /\ NetUse(x) \in Int
    BY ReadingsAre DEF AllMoments
  <2>2. f[x] = WorthAt(x) /\ (x \in D <=> TakenAt(x) < 0 /\ Price(x) > 0)
    OBVIOUS
  <2>3. CASE pv = "none"
    <3>1. TakenAt(x) = Used(x) /\ ~(TakenAt(x) < 0)
      BY <2>1, <2>3 DEF TakenAt
    <3> QED BY <2>2, <2>3, <3>1 DEF WorthAt
  <2>4. CASE pv = "net_billing"
    <3>1. TakenAt(x) = NetUse(x)
      BY <2>4 DEF TakenAt, NetUse
    <3>2. WorthAt(x) = IF x \in D THEN worth(x) ELSE 0
      BY <2>2, <2>4, <3>1 DEF WorthAt
    <3>3. x \in D => worth(x) \in Int
      <4> SUFFICES ASSUME x \in D PROVE worth(x) \in Int
        OBVIOUS
      <4>1. PICK n \in Int, p \in Int : n = TakenAt(x) /\ p = Price(x)
        BY <2>1, <2>2, <2>4, <3>1
      <4>2. (0 - n) * p \in Int
        OBVIOUS
      <4> QED BY <4>1, <4>2
    <3> HIDE DEF worth, D
    <3> QED BY <2>2, <3>2, <3>3
  <2> QED BY <2>3, <2>4 DEF Input
<1>2. Upto(Count) = AllMoments /\ IsFiniteSet(AllMoments) /\ D \in SUBSET AllMoments
  BY UptoIs
<1>3. FileWorth = SumFunction([x \in D |-> worth(x)])
  BY DEF FileWorth
<1>4. WorthUpto(Count) = SumOver(f, AllMoments)
  BY <1>2 DEF WorthUpto
<1> HIDE DEF f, D, worth
<1>5. [x \in D |-> worth(x)] = [x \in D |-> f[x]]
  BY <1>1, <1>2
<1>6. SumOver(f, D) = SumOver(f, AllMoments) /\ SumOver(f, AllMoments) \in Int
  BY <1>1, <1>2, SumOfPart, SumIsNumber
<1> QED BY <1>3, <1>4, <1>5, <1>6 DEF SumOver

LEMMA RatesSettled ==
    ASSUME Work, MoneyAddsUp, Settle, pv # "net_metering", NEW t, t = Tariff, NEW r, r = results'[t]
    PROVE  RatesIn(t, r)
<1>1. phase = "charge" /\ cyc = Count + 1 /\ r = Settled /\ Input /\ Count \in Nat
  BY SettleIs, CountIs DEF Work
<1>2. PICK b, m : b = bill /\ m = deposit
  OBVIOUS
<1>3. Earned(Count, m) /\ Costs(t, Count, b)
  <2>1. cyc - 1 = Count
    BY <1>1
  <2> QED BY <1>1, <1>2, <2>1 DEF MoneyAddsUp
<1>4. Upto(Count) = AllMoments
  BY <1>1, UptoIs
<1>5. FileCost(t) = CostUpto(t, Count)
  BY <1>1, <1>3, <1>4, FileCosts DEF Costs
<1>6. FileWorth = WorthUpto(Count)
  BY <1>1, <1>3, <1>4, FileIsWorth DEF Earned
<1>7. ActiveSum(b) = FileCost(t) /\ m = FileWorth
  BY <1>3, <1>5, <1>6 DEF Costs, Earned
<1> DEFINE active == Sum(LAMBDA i : bill[i].active, DOMAIN bill)
<1>8. r.payable = active - Min({100 * deposit, active})
  BY <1>1 DEF Settled
<1>9. active = ActiveSum(b)
  <2>1. PICK f : f = [i \in DOMAIN b |-> b[i].active]
    OBVIOUS
  <2>2. [i \in DOMAIN b |-> f[i]] = [i \in DOMAIN b |-> b[i].active]
    BY <2>1
  <2>3. ActiveSum(b) = SumOver(f, DOMAIN b)
    BY <2>1 DEF ActiveSum
  <2> QED BY <1>2, <2>2, <2>3 DEF Sum, SumOver
<1> HIDE DEF active
<1> QED BY <1>2, <1>7, <1>8, <1>9 DEF RatesIn

\* The energy of a file costs what its quarter-hours cost at the rates and the tax of their
\* own days, less the worth of the surplus, however its days fall into cycles and segments.
THEOREM EnergyCostsTheRateOfItsDay == Spec => []EnergyCostsItsRate
<1>1. Init => RatesDone
  BY DEF Init, RatesDone, Done, Pending
<1>2. Work /\ MoneyAddsUp /\ RatesDone /\ [Next]_vars => RatesDone'
  <2> SUFFICES ASSUME Work, MoneyAddsUp, RatesDone, [Next]_vars, pv' # "net_metering",
                      NEW t \in Done', NEW r, r = results'[t]
               PROVE  RatesIn(t, r)'
    BY DEF RatesDone
  <2>1. UNCHANGED Inputs /\ pv # "net_metering"
    BY InputsStay DEF Inputs
  <2>2. RatesIn(t, r)
    <3>1. CASE Settle /\ t = Tariff
      BY <2>1, <3>1, RatesSettled
    <3>2. CASE ~(Settle /\ t = Tariff)
      <4>1. t \in Done /\ r = results[t]
        BY <3>2, ResultsStay
      <4> QED BY <2>1, <4>1 DEF RatesDone
    <3> QED BY <3>1, <3>2
  <2> QED BY <2>1, <2>2, RatesStay
<1>3. Spec => []Work
  BY WorkFollowsReadings
<1>4. Spec => []MoneyAddsUp
  BY MoneyIsCounted
<1>5. RatesDone => EnergyCostsItsRate
  BY RatesAre
<1> QED BY <1>1, <1>2, <1>3, <1>4, <1>5, PTL DEF Spec

=============================================================================
