--------------------------- MODULE UsageViewsProofs ---------------------------
(***************************************************************************)
(* What is proved of the views: that they tell the same story of the files *)
(* whatever was uploaded and deleted, in any order.                        *)
(***************************************************************************)
EXTENDS UsageViews, DeviceFlagsProofs, FiniteSetTheorems, WellFoundedInduction

----------------------------------------------------------------------------
(* Induction over numbers and over the elements of a finite set.           *)

\* A set of numbers that has 0, and with each number the next, has them all.
LEMMA Induct ==
    ASSUME NEW S, 0 \in S, \A n \in Nat : n \in S => n + 1 \in S
    PROVE  \A n \in Nat : n \in S
<1> SUFFICES ASSUME NEW n \in Nat, n \notin S PROVE FALSE
  OBVIOUS
<1> DEFINE R == {ss \in Nat \X Nat : ss[1] < ss[2]}
           Out == {m \in Nat : m \notin S}
<1>1. IsWellFoundedOn(R, Nat)
  <2>1. R = OpToRel(<, Nat)
    BY Zenon DEF OpToRel
  <2> QED BY <2>1, NatLessThanWellFounded
<1>2. Out \subseteq Nat /\ n \in Out
  OBVIOUS
<1>3. PICK m \in Out : \A k \in Out : ~(<<k, m>> \in R)
  <2> HIDE DEF R, Out
  <2> QED BY <1>1, <1>2, WFMin
<1>4. \A k \in Nat : k < m => k \in S
  BY <1>3
<1>5. m # 0 /\ m - 1 \in Nat /\ m - 1 < m /\ (m - 1) + 1 = m
  OBVIOUS
<1> QED BY <1>4, <1>5

\* The same by the size of the parts of a finite set: a part is in C when all smaller
\* parts of it are.
LEMMA InductByPart ==
    ASSUME NEW S, IsFiniteSet(S), NEW C,
           \A T \in SUBSET S : (\A U \in SUBSET T : U # T => U \in C) => T \in C
    PROVE  \A T \in SUBSET S : T \in C
<1> DEFINE N == {n \in Nat : \A T \in SUBSET S : Cardinality(T) <= n => T \in C}
<1>1. \A T \in SUBSET S : IsFiniteSet(T) /\ Cardinality(T) \in Nat
  BY FS_Subset, FS_CardinalityType
<1>2. ASSUME NEW n \in Nat, NEW T \in SUBSET S, Cardinality(T) <= n,
             \A U \in SUBSET S : Cardinality(U) < n => U \in C
      PROVE  T \in C
  <2>1. ASSUME NEW U \in SUBSET T, U # T PROVE U \in C
    <3>1. IsFiniteSet(T) /\ U \in SUBSET S /\ Cardinality(T) \in Nat /\ Cardinality(U) \in Nat
      BY <1>1
    <3>2. Cardinality(U) <= Cardinality(T) /\ (Cardinality(T) = Cardinality(U) => T = U)
      BY <3>1, FS_Subset
    <3>3. Cardinality(U) < n
      BY <1>2, <2>1, <3>1, <3>2
    <3> QED BY <1>2, <3>1, <3>3
  <2> QED BY <2>1
<1>3. 0 \in N
  BY <1>1, <1>2
<1>4. ASSUME NEW n \in Nat, n \in N PROVE n + 1 \in N
  <2>1. \A U \in SUBSET S : Cardinality(U) < n + 1 => U \in C
    <3> SUFFICES ASSUME NEW U \in SUBSET S, Cardinality(U) < n + 1 PROVE U \in C
      OBVIOUS
    <3>1. Cardinality(U) <= n
      BY <1>1
    <3> QED BY <1>4, <3>1
  <2> QED BY <1>2, <2>1
<1>5. \A n \in Nat : n \in N
  <2> HIDE DEF N
  <2> QED BY <1>3, <1>4, Induct
<1> QED BY <1>1, <1>5

\* A set of parts that has the empty one, and with each part that with one element
\* more, has the whole.
LEMMA InductByElement ==
    ASSUME NEW S, IsFiniteSet(S), NEW C, {} \in C,
           \A T \in SUBSET S, x \in S : T \in C /\ x \notin T => T \cup {x} \in C
    PROVE  S \in C
<1>1. ASSUME NEW T \in SUBSET S, \A U \in SUBSET T : U # T => U \in C PROVE T \in C
  <2>1. CASE T = {}
    BY <2>1
  <2>2. CASE T # {}
    <3>1. PICK x \in T : TRUE
      BY <2>2
    <3>2. T \ {x} \in SUBSET T /\ T \ {x} # T /\ (T \ {x}) \cup {x} = T
      BY <3>1
    <3>3. x \in S /\ T \ {x} \in SUBSET S /\ T \ {x} \in C /\ x \notin T \ {x}
      BY <1>1, <3>1, <3>2
    <3>4. (T \ {x}) \cup {x} \in C
      BY <3>3
    <3> QED BY <3>2, <3>4
  <2> QED BY <2>1, <2>2
<1>2. \A T \in SUBSET S : T \in C
  BY <1>1, InductByPart
<1> QED BY <1>2

----------------------------------------------------------------------------
(* Sums. The sum of a function is computed by a recursive function that    *)
(* takes an element of each set; it does not depend on which.              *)

Taken(s) == CHOOSE x \in s : TRUE
Sums(F, f, D) == [s \in SUBSET D |-> IF s = {} THEN 0 ELSE f[Taken(s)] + F[s \ {Taken(s)}]]
SumsOf(F, f, D) ==
    /\ F \in [SUBSET D -> Int] /\ F[{}] = 0
    /\ \A s \in SUBSET D : s # {} => F[s] = f[Taken(s)] + F[s \ {Taken(s)}]

LEMMA SumsExist ==
    ASSUME NEW D, IsFiniteSet(D), NEW f, \A x \in D : f[x] \in Int
    PROVE  \E F : F = Sums(F, f, D)
<1> DEFINE Value(F, s) == IF s = {} THEN 0 ELSE f[Taken(s)] + F[s \ {Taken(s)}]
           Small(n) == {s \in SUBSET D : Cardinality(s) <= n}
           HasSums(n) == \E F \in [SUBSET D -> Int] : \A s \in Small(n) : F[s] = Value(F, s)
           N == {n \in Nat : HasSums(n)}
<1>1. \A s \in SUBSET D :
          /\ IsFiniteSet(s) /\ Cardinality(s) \in Nat /\ (Cardinality(s) = 0 <=> s = {})
          /\ Cardinality(s) <= Cardinality(D)
          /\ s # {} => /\ Taken(s) \in s /\ f[Taken(s)] \in Int /\ s \ {Taken(s)} \in SUBSET D
                       /\ Cardinality(s \ {Taken(s)}) = Cardinality(s) - 1
  <2> SUFFICES ASSUME NEW s \in SUBSET D
               PROVE  /\ IsFiniteSet(s) /\ Cardinality(s) \in Nat /\ (Cardinality(s) = 0 <=> s = {})
                      /\ Cardinality(s) <= Cardinality(D)
                      /\ s # {} => /\ Taken(s) \in s /\ f[Taken(s)] \in Int
                                   /\ s \ {Taken(s)} \in SUBSET D
                                   /\ Cardinality(s \ {Taken(s)}) = Cardinality(s) - 1
    OBVIOUS
  <2>1. IsFiniteSet(s) /\ Cardinality(s) \in Nat /\ Cardinality(s) <= Cardinality(D)
    BY FS_Subset, FS_CardinalityType
  <2>2. Cardinality(s) = 0 <=> s = {}
    BY <2>1, FS_EmptySet
  <2>3. s # {} => Taken(s) \in s
    BY DEF Taken
  <2>4. s # {} => Cardinality(s \ {Taken(s)}) = Cardinality(s) - 1
    BY <2>1, <2>3, FS_RemoveElement
  <2> QED BY <2>1, <2>2, <2>3, <2>4
<1>2. 0 \in N
  <2> DEFINE F == [s \in SUBSET D |-> 0]
  <2>1. F \in [SUBSET D -> Int]
    OBVIOUS
  <2>2. ASSUME NEW s \in Small(0) PROVE s = {}
    <3>1. s \in SUBSET D /\ Cardinality(s) <= 0
      OBVIOUS
    <3>2. Cardinality(s) \in Nat /\ (Cardinality(s) = 0 => s = {})
      BY <1>1, <3>1
    <3> QED BY <3>1, <3>2
  <2>3. \A s \in Small(0) : F[s] = Value(F, s)
    BY <2>2
  <2> QED BY <2>1, <2>3
<1>3. ASSUME NEW n \in Nat, n \in N PROVE n + 1 \in N
  <2>1. PICK F \in [SUBSET D -> Int] : \A s \in Small(n) : F[s] = Value(F, s)
    BY <1>3
  <2> DEFINE G == [s \in SUBSET D |-> IF Cardinality(s) <= n THEN F[s] ELSE Value(F, s)]
  <2>2. ASSUME NEW s \in SUBSET D PROVE Value(F, s) \in Int
    <3>1. s # {} => f[Taken(s)] \in Int /\ F[s \ {Taken(s)}] \in Int
      BY <1>1, <2>1
    <3> QED BY <3>1
  <2>3. G \in [SUBSET D -> Int]
    BY <2>2
  <2>4. ASSUME NEW s \in Small(n + 1) PROVE G[s] = Value(G, s)
    <3>1. G[s] = Value(F, s)
      BY <2>1
    <3>2. ASSUME s # {} PROVE G[s \ {Taken(s)}] = F[s \ {Taken(s)}]
      <4>1. /\ s \ {Taken(s)} \in SUBSET D /\ Cardinality(s) \in Nat
            /\ Cardinality(s \ {Taken(s)}) = Cardinality(s) - 1 /\ Cardinality(s) <= n + 1
        BY <1>1, <3>2
      <4> QED BY <4>1
    <3> HIDE DEF G
    <3> QED BY <3>1, <3>2
  <2>5. HasSums(n + 1)
    <3> HIDE DEF G, Small, Value
    <3> QED BY <2>3, <2>4
  <2> HIDE DEF HasSums
  <2> QED BY <2>5
<1>4. \A n \in Nat : n \in N
  <2> HIDE DEF N
  <2> QED BY <1>2, <1>3, Induct
<1>5. Cardinality(D) \in Nat /\ Small(Cardinality(D)) = SUBSET D
  BY <1>1
<1>6. PICK F \in [SUBSET D -> Int] : \A s \in SUBSET D : F[s] = Value(F, s)
  <2>1. Cardinality(D) \in N
    BY <1>4, <1>5
  <2> QED BY <1>5, <2>1
<1>7. F = [s \in SUBSET D |-> Value(F, s)]
  BY <1>6
<1> QED BY <1>7 DEF Sums

\* The sum of a function is that of its whole domain.
LEMMA SumIs ==
    ASSUME NEW D, IsFiniteSet(D), NEW f, DOMAIN f = D, \A x \in D : f[x] \in Int
    PROVE  \E F : SumsOf(F, f, D) /\ SumFunction(f) = F[D]
<1> DEFINE G == CHOOSE F : F = Sums(F, f, D)
<1>1. SumFunction(f) = G[D]
  BY DEF SumFunction, SumFunctionOnSet, FoldFunctionOnSet, MapThenFoldSet, Sums, Taken
<1>2. \E F : F = Sums(F, f, D)
  BY SumsExist
<1>3. G = Sums(G, f, D)
  BY <1>2
<1> HIDE DEF G
<1>4. /\ G = [s \in SUBSET D |-> G[s]] /\ G[{}] = 0
      /\ \A s \in SUBSET D : s # {} => G[s] = f[Taken(s)] + G[s \ {Taken(s)}]
  BY <1>3 DEF Sums
<1> DEFINE C == {s \in SUBSET D : G[s] \in Int}
<1>5. \A s \in SUBSET D : s \in C
  <2>1. ASSUME NEW s \in SUBSET D, \A u \in SUBSET s : u # s => u \in C PROVE s \in C
    <3>1. CASE s = {}
      BY <1>4, <3>1
    <3>2. CASE s # {}
      <4>1. Taken(s) \in s
        BY <3>2 DEF Taken
      <4>2. s \ {Taken(s)} \in C /\ f[Taken(s)] \in Int
        BY <2>1, <4>1
      <4>3. G[s] = f[Taken(s)] + G[s \ {Taken(s)}]
        BY <1>4, <3>2
      <4> QED BY <4>2, <4>3
    <3> QED BY <3>1, <3>2
  <2> HIDE DEF C
  <2> QED BY <2>1, InductByPart
<1> QED BY <1>1, <1>4, <1>5 DEF SumsOf

\* Any element may be taken first.
FirstIsAny(F, f, D) == \A s \in SUBSET D : \A x \in s : F[s] = f[x] + F[s \ {x}]

LEMMA AnyFirst ==
    ASSUME NEW D, IsFiniteSet(D), NEW f, \A x \in D : f[x] \in Int, NEW F, SumsOf(F, f, D)
    PROVE  FirstIsAny(F, f, D)
<1> DEFINE AnyOf(s) == \A x \in s : F[s] = f[x] + F[s \ {x}]
           C == {s \in SUBSET D : AnyOf(s)}
<1>1. F \in [SUBSET D -> Int]
  BY DEF SumsOf
<1>2. ASSUME NEW s \in SUBSET D, \A u \in SUBSET s : u # s => u \in C PROVE s \in C
  <2> SUFFICES ASSUME NEW x \in s PROVE F[s] = f[x] + F[s \ {x}]
    OBVIOUS
  <2>1. PICK y \in s : y = Taken(s) /\ F[s] = f[y] + F[s \ {y}]
    BY DEF SumsOf, Taken
  <2>2. CASE x # y
    <3>1. /\ y \in s \ {x} /\ s \ {x} \in C /\ x \in s \ {y} /\ s \ {y} \in C
          /\ (s \ {x}) \ {y} = (s \ {y}) \ {x}
      BY <1>2, <2>2
    <3>2. /\ F[s \ {x}] = f[y] + F[(s \ {y}) \ {x}]
          /\ F[s \ {y}] = f[x] + F[(s \ {y}) \ {x}]
      BY <3>1
    <3>3. f[x] \in Int /\ f[y] \in Int /\ F[(s \ {y}) \ {x}] \in Int
      BY <1>1
    <3> QED BY <2>1, <3>2, <3>3
  <2> QED BY <2>1, <2>2
<1>3. \A s \in SUBSET D : s \in C
  <2> HIDE DEF C
  <2> QED BY <1>2, InductByPart
<1> QED BY <1>3 DEF FirstIsAny

\* The sum of f over a set.
SumOver(f, T) == SumFunction([x \in T |-> f[x]])

LEMMA SumOfNone == ASSUME NEW f PROVE SumOver(f, {}) = 0
<1> DEFINE g == [x \in {} |-> f[x]]
<1>1. IsFiniteSet({}) /\ DOMAIN g = {} /\ \A x \in {} : g[x] \in Int
  BY FS_EmptySet
<1> HIDE DEF g
<1>2. PICK F : SumsOf(F, g, {}) /\ SumFunction(g) = F[{}]
  BY <1>1, SumIs
<1> QED BY <1>2 DEF SumsOf, SumOver, g

LEMMA SumIsNumber ==
    ASSUME NEW T, IsFiniteSet(T), NEW f, \A x \in T : f[x] \in Int
    PROVE  SumOver(f, T) \in Int
<1> DEFINE g == [x \in T |-> f[x]]
<1>1. DOMAIN g = T /\ \A x \in T : g[x] \in Int
  OBVIOUS
<1> HIDE DEF g
<1>2. PICK F : SumsOf(F, g, T) /\ SumFunction(g) = F[T]
  BY <1>1, SumIs
<1> QED BY <1>2 DEF SumsOf, SumOver, g

LEMMA SumWith ==
    ASSUME NEW T, IsFiniteSet(T), NEW f, NEW x, x \notin T, \A y \in T \cup {x} : f[y] \in Int
    PROVE  SumOver(f, T \cup {x}) = SumOver(f, T) + f[x]
<1> DEFINE D == T \cup {x}
           g == [y \in D |-> f[y]]
           h == [y \in T |-> f[y]]
<1>1. /\ DOMAIN g = D /\ DOMAIN h = T /\ IsFiniteSet(D) /\ T \in SUBSET D /\ D \ {x} = T /\ x \in D
      /\ \A y \in D : g[y] = f[y] /\ g[y] \in Int
      /\ \A y \in T : h[y] = f[y] /\ h[y] \in Int
  BY FS_AddElement
<1>2. SumOver(f, D) = SumFunction(g) /\ SumOver(f, T) = SumFunction(h)
  BY DEF SumOver
<1> HIDE DEF D, g, h
<1>3. PICK G : SumsOf(G, g, D) /\ SumFunction(g) = G[D]
  BY <1>1, SumIs
<1>4. PICK H : SumsOf(H, h, T) /\ SumFunction(h) = H[T]
  BY <1>1, SumIs
<1>5. FirstIsAny(G, g, D)
  <2>1. IsFiniteSet(D) /\ \A y \in D : g[y] \in Int
    BY <1>1
  <2> QED BY <1>3, <2>1, AnyFirst
<1>6. FirstIsAny(H, h, T)
  <2>1. IsFiniteSet(T) /\ \A y \in T : h[y] \in Int
    BY <1>1
  <2> QED BY <1>4, <2>1, AnyFirst
<1> DEFINE C == {s \in SUBSET T : G[s] = H[s]}
<1>7. T \in C
  <2>1. {} \in C
    BY <1>3, <1>4 DEF SumsOf
  <2>2. ASSUME NEW s \in SUBSET T, NEW y \in T, s \in C, y \notin s PROVE s \cup {y} \in C
    <3>1. s \cup {y} \in SUBSET T /\ s \cup {y} \in SUBSET D /\ (s \cup {y}) \ {y} = s
          /\ y \in s \cup {y}
      BY <1>1, <2>2
    <3>2. /\ G[s \cup {y}] = g[y] + G[(s \cup {y}) \ {y}]
          /\ H[s \cup {y}] = h[y] + H[(s \cup {y}) \ {y}]
      BY <1>5, <1>6, <3>1 DEF FirstIsAny
    <3>3. g[y] = h[y] /\ G[s] = H[s]
      BY <1>1, <2>2
    <3> QED BY <3>1, <3>2, <3>3
  <2> HIDE DEF C
  <2> QED BY <2>1, <2>2, InductByElement
<1>8. G[D] = g[x] + G[T] /\ g[x] \in Int /\ G[T] \in Int
  <2>1. D \in SUBSET D
    OBVIOUS
  <2> QED BY <1>1, <1>3, <1>5, <2>1 DEF SumsOf, FirstIsAny
<1>9. SumOver(f, D) = SumOver(f, T) + f[x]
  BY <1>1, <1>2, <1>3, <1>4, <1>7, <1>8
<1> QED BY <1>9 DEF D

Numbers(f, T) == \A x \in T : f[x] \in Int

LEMMA SumStep ==
    ASSUME NEW T, IsFiniteSet(T), NEW f, NEW x, x \notin T, Numbers(f, T \cup {x})
    PROVE  SumOver(f, T \cup {x}) = SumOver(f, T) + f[x] /\ SumOver(f, T) \in Int
<1>1. (\A y \in T \cup {x} : f[y] \in Int) /\ (\A y \in T : f[y] \in Int)
  BY DEF Numbers
<1>2. SumOver(f, T \cup {x}) = SumOver(f, T) + f[x]
  BY <1>1, SumWith
<1> QED BY <1>1, <1>2, SumIsNumber

\* Equal functions have equal sums; a function without values sums to nothing.
LEMMA SumOfSame ==
    ASSUME NEW T, NEW f, NEW g, \A x \in T : f[x] = g[x]
    PROVE  SumOver(f, T) = SumOver(g, T)
<1>1. [x \in T |-> f[x]] = [x \in T |-> g[x]]
  OBVIOUS
<1> QED BY <1>1 DEF SumOver

LEMMA SumOfZeros ==
    ASSUME NEW T, IsFiniteSet(T), NEW f, \A x \in T : f[x] = 0
    PROVE  SumOver(f, T) = 0
<1> DEFINE C == {s \in SUBSET T : SumOver(f, s) = 0}
<1>1. {} \in C
  BY SumOfNone
<1>2. ASSUME NEW s \in SUBSET T, NEW x \in T, s \in C, x \notin s PROVE s \cup {x} \in C
  <2>1. IsFiniteSet(s) /\ \A y \in s \cup {x} : f[y] \in Int
    <3>1. \A y \in s \cup {x} : f[y] = 0
      OBVIOUS
    <3> QED BY <3>1, FS_Subset
  <2>2. SumOver(f, s \cup {x}) = SumOver(f, s) + f[x]
    <3>1. x \notin s
      BY <1>2
    <3> HIDE DEF C
    <3> QED BY <2>1, <3>1, SumWith
  <2> QED BY <1>2, <2>2
<1>3. T \in C
  <2> HIDE DEF C
  <2> QED BY <1>1, <1>2, InductByElement
<1> QED BY <1>3

LEMMA SumIsPositive ==
    ASSUME NEW T, IsFiniteSet(T), NEW f, \A x \in T : f[x] \in Int /\ f[x] >= 0
    PROVE  SumOver(f, T) >= 0
<1> DEFINE C == {s \in SUBSET T : SumOver(f, s) \in Int /\ SumOver(f, s) >= 0}
<1>1. {} \in C
  BY SumOfNone
<1>2. ASSUME NEW s \in SUBSET T, NEW x \in T, s \in C, x \notin s PROVE s \cup {x} \in C
  <2>1. IsFiniteSet(s) /\ \A y \in s \cup {x} : f[y] \in Int
    BY FS_Subset
  <2>2. SumOver(f, s \cup {x}) = SumOver(f, s) + f[x]
    BY <1>2, <2>1, SumWith
  <2> QED BY <1>2, <2>2
<1>3. T \in C
  <2> HIDE DEF C
  <2> QED BY <1>1, <1>2, InductByElement
<1> QED BY <1>3

\* The sum over two sets apart.
LEMMA SumOfUnion ==
    ASSUME NEW S, NEW T, IsFiniteSet(S), IsFiniteSet(T), S \cap T = {}, NEW f,
           \A x \in S \cup T : f[x] \in Int
    PROVE  SumOver(f, S \cup T) = SumOver(f, S) + SumOver(f, T)
<1> DEFINE C == {s \in SUBSET T : SumOver(f, S \cup s) = SumOver(f, S) + SumOver(f, s)}
<1>1. {} \in C
  <2>1. S \cup {} = S /\ SumOver(f, {}) = 0 /\ SumOver(f, S) \in Int
    BY SumOfNone, SumIsNumber
  <2> QED BY <2>1
<1>2. ASSUME NEW s \in SUBSET T, NEW x \in T, s \in C, x \notin s PROVE s \cup {x} \in C
  <2>1. /\ IsFiniteSet(s) /\ \A y \in s \cup {x} : f[y] \in Int
        /\ IsFiniteSet(S \cup s) /\ \A y \in (S \cup s) \cup {x} : f[y] \in Int
        /\ x \notin S \cup s /\ S \cup (s \cup {x}) = (S \cup s) \cup {x} /\ f[x] \in Int
    BY <1>2, FS_Subset, FS_Union
  <2>2. SumOver(f, s \cup {x}) = SumOver(f, s) + f[x]
    BY <1>2, <2>1, SumWith
  <2>3. SumOver(f, (S \cup s) \cup {x}) = SumOver(f, S \cup s) + f[x]
    BY <2>1, SumWith
  <2>4. SumOver(f, s) \in Int /\ SumOver(f, S) \in Int
    BY <2>1, SumIsNumber
  <2>5. SumOver(f, S \cup s) = SumOver(f, S) + SumOver(f, s)
    BY <1>2
  <2>6. SumOver(f, S \cup (s \cup {x})) = SumOver(f, S) + SumOver(f, s \cup {x})
    <3>1. S \cup (s \cup {x}) = (S \cup s) \cup {x} /\ f[x] \in Int
      BY <2>1
    <3>2. SumOver(f, (S \cup s) \cup {x}) = SumOver(f, S) + SumOver(f, s \cup {x})
      BY <2>2, <2>3, <2>4, <2>5, <3>1
    <3> QED BY <3>1, <3>2
  <2> QED BY <2>6
<1>3. T \in C
  <2> HIDE DEF C
  <2> QED BY <1>1, <1>2, InductByElement
<1> QED BY <1>3

\* The sum of sums of two functions.
LEMMA SumOfTwo ==
    ASSUME NEW T, IsFiniteSet(T), NEW f, NEW g, NEW h,
           \A x \in T : f[x] \in Int /\ g[x] \in Int /\ h[x] = f[x] + g[x]
    PROVE  SumOver(h, T) = SumOver(f, T) + SumOver(g, T)
<1> DEFINE C == {s \in SUBSET T : SumOver(h, s) = SumOver(f, s) + SumOver(g, s)}
<1>1. {} \in C
  BY SumOfNone
<1>2. ASSUME NEW s \in SUBSET T, NEW x \in T, s \in C, x \notin s PROVE s \cup {x} \in C
  <2>1. /\ IsFiniteSet(s) /\ Numbers(f, s \cup {x}) /\ Numbers(g, s \cup {x}) /\ Numbers(h, s \cup {x})
        /\ x \notin s /\ h[x] = f[x] + g[x] /\ f[x] \in Int /\ g[x] \in Int
        /\ SumOver(h, s) = SumOver(f, s) + SumOver(g, s)
    BY <1>2, FS_Subset DEF Numbers
  <2> HIDE DEF C
  <2>2. SumOver(f, s \cup {x}) = SumOver(f, s) + f[x] /\ SumOver(f, s) \in Int
    BY <2>1, SumStep
  <2>3. SumOver(g, s \cup {x}) = SumOver(g, s) + g[x] /\ SumOver(g, s) \in Int
    BY <2>1, SumStep
  <2>4. SumOver(h, s \cup {x}) = SumOver(h, s) + h[x] /\ SumOver(h, s) \in Int
    BY <2>1, SumStep
  <2>5. SumOver(h, s \cup {x}) = SumOver(f, s \cup {x}) + SumOver(g, s \cup {x})
    BY <2>1, <2>2, <2>3, <2>4
  <2> QED BY <2>5 DEF C
<1>3. T \in C
  <2> HIDE DEF C
  <2> QED BY <1>1, <1>2, InductByElement
<1> QED BY <1>3

\* A sum over the elements that h gives is the sum of the values at them.
LEMMA SumAt ==
    ASSUME NEW A, IsFiniteSet(A), NEW h, \A x, y \in A : h[x] = h[y] => x = y,
           NEW f, \A x \in A : f[h[x]] \in Int,
           NEW g, \A x \in A : g[x] = f[h[x]]
    PROVE  SumOver(g, A) = SumOver(f, {h[x] : x \in A})
<1> DEFINE image(s) == {h[x] : x \in s}
           C == {s \in SUBSET A : IsFiniteSet(image(s)) /\ SumOver(g, s) = SumOver(f, image(s))}
<1>1. {} \in C
  <2>1. image({}) = {}
    OBVIOUS
  <2> HIDE DEF image
  <2> QED BY <2>1, SumOfNone, FS_EmptySet
<1>2. ASSUME NEW s \in SUBSET A, NEW x \in A, s \in C, x \notin s PROVE s \cup {x} \in C
  <2>1. /\ IsFiniteSet(image(s)) /\ SumOver(g, s) = SumOver(f, image(s))
        /\ Numbers(f, image(s) \cup {h[x]})
        /\ h[x] \notin image(s) /\ image(s \cup {x}) = image(s) \cup {h[x]}
    BY <1>2 DEF Numbers
  <2>2. IsFiniteSet(s) /\ x \notin s /\ Numbers(g, s \cup {x}) /\ g[x] = f[h[x]]
    BY <1>2, FS_Subset DEF Numbers
  <2> HIDE DEF C, image
  <2>3. SumOver(g, s \cup {x}) = SumOver(g, s) + g[x] /\ SumOver(g, s) \in Int
    BY <2>2, SumStep
  <2>4. PICK U : U = image(s)
    OBVIOUS
  <2>5. PICK v : v = h[x]
    OBVIOUS
  <2>6. SumOver(f, U \cup {v}) = SumOver(f, U) + f[v] /\ SumOver(f, U) \in Int
    <3>1. IsFiniteSet(U) /\ v \notin U /\ Numbers(f, U \cup {v})
      BY <2>1, <2>4, <2>5
    <3> QED BY <3>1, SumStep
  <2>7. IsFiniteSet(U \cup {v})
    BY <2>1, <2>4, FS_AddElement
  <2> QED BY <2>1, <2>2, <2>3, <2>4, <2>5, <2>6, <2>7 DEF C
<1>3. A \in C
  <2> HIDE DEF C
  <2> QED BY <1>1, <1>2, InductByElement
<1> QED BY <1>3

----------------------------------------------------------------------------
(* The invariant.                                                          *)

\* A completed file has in all tables what one import brought: no upload and no
\* deletion of another file changes its devices, its period, the rows with its
\* number or its stored results.
KeepsImport(f, i) ==
    /\ saved[f] = Stores(i)
    /\ links[f] = i.content.devices
    /\ period[f] = i.content.period
    /\ {r \in rows : r.file = f} = RowsOf(f, i.content)

FilesKeepImports ==
    \A f \in Files : status[f] = "completed" =>
        \E i \in Imports : Accepted(i) /\ KeepsImport(f, i)

TablesAreFinite ==
    /\ IsFiniteSet(rows)
    /\ IsFiniteSet({f \in Files : status[f] # "none"})

ViewIInv ==
    /\ IInv
    /\ saved = [f \in Files |-> saved[f]]
    /\ FilesKeepImports
    /\ TablesAreFinite

LEMMA ViewInitInv == ViewInit => ViewIInv
<1> SUFFICES ASSUME ViewInit PROVE ViewIInv
  OBVIOUS
<1>1. IInv
  BY InitInv DEF ViewInit
<1>2. \A f \in Files : status[f] = "none"
  BY DEF ViewInit, Init
<1>3. {f \in Files : status[f] # "none"} = {} /\ rows = {}
  BY <1>2 DEF ViewInit, Init
<1>4. TablesAreFinite
  BY <1>3, FS_EmptySet DEF TablesAreFinite
<1>5. FilesKeepImports
  BY <1>2 DEF FilesKeepImports
<1>6. saved = [f \in Files |-> saved[f]]
  BY DEF ViewInit
<1> QED BY <1>1, <1>4, <1>5, <1>6 DEF ViewIInv

\* A step of the views is a step of the tables.
LEMMA ViewStepsAreSteps == [ViewNext]_viewVars => [Next]_vars
<1>1. ASSUME NEW f \in Files, NEW i \in Imports, SaveImport(f, i)
      PROVE  \E c \in Contents : SaveContents(f, c)
  BY <1>1, ImportsAssumption DEF SaveImport
<1>2. ASSUME NEW f \in Files, Delete(f) PROVE DeleteFile(f)
  BY <1>2 DEF Delete
<1> QED BY <1>1, <1>2 DEF ViewNext, Next, viewVars

\* A step that leaves the tables of contents alone, and completes no file.
LEMMA StatusStepKeepsImports ==
    ASSUME ViewIInv, IInv', NEW f \in Files,
           UNCHANGED <<period, links, rows, saved>>,
           \A g \in Files : g # f => status'[g] = status[g],
           status'[f] = "completed" => status[f] = "completed"
    PROVE  ViewIInv'
<1>1. FilesKeepImports'
  <2>1. ASSUME NEW g \in Files, status'[g] = "completed"
        PROVE  \E i \in Imports : Accepted(i) /\ KeepsImport(g, i)'
    <3>1. status[g] = "completed"
      BY <2>1
    <3>2. PICK i \in Imports : Accepted(i) /\ KeepsImport(g, i)
      BY <3>1 DEF ViewIInv, FilesKeepImports
    <3> QED BY <3>2 DEF KeepsImport
  <2> QED BY <2>1 DEF FilesKeepImports
<1>2. TablesAreFinite'
  <2> DEFINE old == {g \in Files : status[g] # "none"}
             new == {g \in Files : status'[g] # "none"}
  <2>1. IsFiniteSet(old) /\ IsFiniteSet(rows)
    BY DEF ViewIInv, TablesAreFinite
  <2>2. new \subseteq old \cup {f}
    OBVIOUS
  <2>3. IsFiniteSet(old \cup {f})
    BY <2>1, FS_AddElement
  <2>4. IsFiniteSet(new)
    BY <2>2, <2>3, FS_Subset
  <2> QED BY <2>1, <2>4 DEF TablesAreFinite
<1> QED BY <1>1, <1>2 DEF ViewIInv

\* What a file brings is finite, as its devices and its period are.
LEMMA RowsOfAreFinite ==
    ASSUME NEW f \in Files, NEW c \in Contents
    PROVE  IsFiniteSet(RowsOf(f, c))
<1> DEFINE slots == c.period.start .. c.period.end
           all == Devices \X slots
           row == [p \in all |-> [file |-> f, device |-> p[1], slot |-> p[2]]]
<1>1. c \in [devices : SUBSET Devices, period : Period, usage : SUBSET [device : Devices, slot : Int]]
  BY ContentsAssumption
<1>2. IsFiniteSet(slots)
  BY <1>1, FS_Interval DEF Period
<1>3. IsFiniteSet(all)
  BY <1>2, DevicesAssumption, FS_Product
<1>4. RowsOf(f, c) \subseteq {row[p] : p \in all}
  <2>1. ASSUME NEW u \in c.usage
        PROVE  \E p \in all : [file |-> f, device |-> u.device, slot |-> u.slot] = row[p]
    <3>1. u.device \in Devices /\ u.slot \in slots
      BY <1>1, ContentsAssumption DEF Period
    <3>2. <<u.device, u.slot>> \in all
      BY <3>1
    <3> WITNESS <<u.device, u.slot>> \in all
    <3> QED BY <3>2
  <2> HIDE DEF all, row
  <2> QED BY <2>1, Zenon DEF RowsOf
<1>5. IsFiniteSet({row[p] : p \in all})
  <2>1. row \in Surjection(all, {row[p] : p \in all})
    BY DEF Surjection
  <2> QED BY <1>3, <2>1, FS_Surjection
<1> QED BY <1>4, <1>5, FS_Subset

LEMMA SaveKeepsImports ==
    ASSUME ViewIInv, IInv', NEW f \in Files, NEW i \in Imports, SaveImport(f, i)
    PROVE  ViewIInv'
<1> DEFINE c == i.content
<1>1. c \in Contents /\ SaveContents(f, c) /\ Accepted(i) /\ IInv
  BY ImportsAssumption DEF SaveImport, ViewIInv
<1>2. /\ \A r \in rows : r.file # f
      /\ links' = [links EXCEPT ![f] = c.devices]
      /\ period' = [period EXCEPT ![f] = c.period]
      /\ \A r \in RowsOf(f, c) : r.file = f
  BY <1>1, SaveAdds
<1>3. rows' = rows \union RowsOf(f, c)
  BY <1>1 DEF SaveContents, SaveForFile
<1>4. saved' = [saved EXCEPT ![f] = Stores(i)] /\ saved = [g \in Files |-> saved[g]]
  BY DEF SaveImport, ViewIInv
<1>5. status' = [status EXCEPT ![f] = "completed"] /\ status[f] = "processing"
  BY <1>1 DEF SaveContents
<1>6. links \in [Files -> SUBSET Devices] /\ DOMAIN period = Files /\ DOMAIN status = Files
  BY <1>1 DEF IInv, TypeOK
<1>7. KeepsImport(f, i)'
  <2>1. saved'[f] = Stores(i) /\ links'[f] = c.devices /\ period'[f] = c.period
    BY <1>2, <1>4, <1>6
  <2>2. {r \in rows' : r.file = f} = RowsOf(f, c)
    BY <1>2, <1>3
  <2> QED BY <2>1, <2>2 DEF KeepsImport
<1>8. ASSUME NEW g \in Files, g # f, NEW j \in Imports, KeepsImport(g, j)
      PROVE  KeepsImport(g, j)'
  <2>1. saved'[g] = saved[g] /\ links'[g] = links[g] /\ period'[g] = period[g]
    BY <1>2, <1>4, <1>6, <1>8
  <2>2. {r \in rows' : r.file = g} = {r \in rows : r.file = g}
    BY <1>2, <1>3, <1>8
  <2> QED BY <1>8, <2>1, <2>2 DEF KeepsImport
<1>9. FilesKeepImports'
  <2>1. ASSUME NEW g \in Files, status'[g] = "completed"
        PROVE  \E j \in Imports : Accepted(j) /\ KeepsImport(g, j)'
    <3>1. CASE g = f
      BY <1>1, <1>7, <3>1
    <3>2. CASE g # f
      <4>1. status[g] = "completed"
        BY <1>5, <1>6, <2>1, <3>2
      <4> QED BY <1>8, <3>2, <4>1 DEF ViewIInv, FilesKeepImports
    <3> QED BY <3>1, <3>2
  <2> QED BY <2>1 DEF FilesKeepImports
<1>10. TablesAreFinite'
  <2>1. IsFiniteSet(rows) /\ IsFiniteSet(RowsOf(f, c))
    BY <1>1, RowsOfAreFinite DEF ViewIInv, TablesAreFinite
  <2>2. IsFiniteSet(rows')
    BY <1>3, <2>1, FS_Union
  <2>3. {g \in Files : status'[g] # "none"} = {g \in Files : status[g] # "none"}
    BY <1>5, <1>6
  <2> QED BY <2>2, <2>3 DEF ViewIInv, TablesAreFinite
<1>11. saved' = [g \in Files |-> saved'[g]]
  BY <1>4
<1> QED BY <1>9, <1>10, <1>11 DEF ViewIInv

LEMMA DeleteKeepsImports ==
    ASSUME ViewIInv, IInv', NEW f \in Files, Delete(f)
    PROVE  ViewIInv'
<1>1. DeleteFile(f) /\ IInv
  BY DEF Delete, ViewIInv
<1>2. /\ \A g \in Files \ {f} : links'[g] = links[g] /\ period'[g] = period[g]
      /\ rows' = {r \in rows : r.file # f}
  BY <1>1, DeleteTables
<1>3. saved' = [saved EXCEPT ![f] = NotSaved] /\ saved = [g \in Files |-> saved[g]]
  BY DEF Delete, ViewIInv
<1>4. status' = [status EXCEPT ![f] = "deleted"] /\ status[f] # "none" /\ DOMAIN status = Files
  BY <1>1 DEF DeleteFile, Stored, IInv, TypeOK
<1>5. ASSUME NEW g \in Files, g # f, NEW j \in Imports, KeepsImport(g, j)
      PROVE  KeepsImport(g, j)'
  <2>1. saved'[g] = saved[g] /\ links'[g] = links[g] /\ period'[g] = period[g]
    BY <1>2, <1>3, <1>5
  <2>2. {r \in rows' : r.file = g} = {r \in rows : r.file = g}
    BY <1>2, <1>5
  <2> QED BY <1>5, <2>1, <2>2 DEF KeepsImport
<1>6. FilesKeepImports'
  <2>1. ASSUME NEW g \in Files, status'[g] = "completed"
        PROVE  \E j \in Imports : Accepted(j) /\ KeepsImport(g, j)'
    <3>1. g # f /\ status[g] = "completed"
      BY <1>4, <2>1
    <3> QED BY <1>5, <3>1 DEF ViewIInv, FilesKeepImports
  <2> QED BY <2>1 DEF FilesKeepImports
<1>7. TablesAreFinite'
  <2>1. IsFiniteSet(rows')
    BY <1>2, FS_Subset DEF ViewIInv, TablesAreFinite
  <2>2. {g \in Files : status'[g] # "none"} = {g \in Files : status[g] # "none"}
    BY <1>4
  <2> QED BY <2>1, <2>2 DEF ViewIInv, TablesAreFinite
<1>8. saved' = [g \in Files |-> saved'[g]]
  BY <1>3
<1> QED BY <1>6, <1>7, <1>8 DEF ViewIInv

LEMMA ViewNextInv == ViewIInv /\ [ViewNext]_viewVars => ViewIInv'
<1> SUFFICES ASSUME ViewIInv, [ViewNext]_viewVars PROVE ViewIInv'
  OBVIOUS
<1>1. IInv /\ IInv' /\ status \in [Files -> Status]
  BY ViewStepsAreSteps, NextInv DEF ViewIInv, IInv, TypeOK
<1>2. ASSUME NEW f \in Files, CreateFile(f), UNCHANGED saved PROVE ViewIInv'
  BY <1>1, <1>2, StatusStepKeepsImports DEF CreateFile
<1>3. ASSUME NEW f \in Files, MarkFailed(f), UNCHANGED saved PROVE ViewIInv'
  BY <1>1, <1>3, StatusStepKeepsImports DEF MarkFailed
<1>4. ASSUME NEW f \in Files, NEW i \in Imports, SaveImport(f, i) PROVE ViewIInv'
  BY <1>1, <1>4, SaveKeepsImports
<1>5. ASSUME NEW f \in Files, SaveSimulation(f), UNCHANGED saved PROVE ViewIInv'
  BY <1>1, <1>5, StatusStepKeepsImports DEF SaveSimulation
<1>6. ASSUME NEW f \in Files, LoseUpload(f), UNCHANGED saved PROVE ViewIInv'
  BY <1>1, <1>6, StatusStepKeepsImports DEF LoseUpload
<1>7. ASSUME NEW f \in Files, Delete(f) PROVE ViewIInv'
  BY <1>1, <1>7, DeleteKeepsImports
<1>8. CASE UNCHANGED viewVars
  BY <1>8 DEF viewVars, vars, ViewIInv, IInv, TypeOK, RowsInTheirFile, DevicesOfCompletedFiles,
     FlagsFollowNewestFile, Covered, Within, HomeIsDevicesOfFiles, FilesKeepImports, KeepsImport,
     TablesAreFinite
<1> QED BY <1>2, <1>3, <1>4, <1>5, <1>6, <1>7, <1>8 DEF ViewNext

\* Every completed file keeps what its import brought.
THEOREM FilesKeepWhatTheyBrought == ViewSpec => []ViewIInv
<1> QED BY ViewInitInv, ViewNextInv, PTL DEF ViewSpec

----------------------------------------------------------------------------
(* What a device file shows of itself.                                     *)

LEMMA StoresUsage ==
    ASSUME NEW i
    PROVE  /\ Stores(i).source = Source(i) /\ Stores(i).kwh = i.kwh
           /\ Source(i) = "devices" =>
                 Stores(i).results.usage = [t \in DOMAIN DeviceReadings(i) |-> DeviceReadings(i)[t].used]
<1>1. \A usage, resolution : Results(i, usage, resolution).usage = usage
  BY DEF Results
<1>2. \E resolution : Source(i) = "devices" =>
          Stores(i).results =
              Results(i, [t \in DOMAIN DeviceReadings(i) |-> DeviceReadings(i)[t].used], resolution)
  BY DEF Stores
<1>3. Stores(i).source = Source(i) /\ Stores(i).kwh = i.kwh
  BY DEF Stores
<1> QED BY <1>1, <1>2, <1>3

\* The completed device files are those that have devices; they cover their period.
LEMMA DeviceFilesAre ==
    ASSUME ViewIInv, NEW f \in Files
    PROVE  /\ f \in Completed("devices") <=> links[f] # {}
           /\ f \in Completed("devices") =>
                 /\ \A t : t \in DOMAIN Usage(f) <=> t \in Int /\ Within(period[f], t)
                 /\ saved[f].kwh \in [Devices -> Int]
<1>1. links[f] # {} => status[f] = "completed"
  BY DEF ViewIInv, IInv, DevicesOfCompletedFiles
<1>2. f \in Completed("devices") => status[f] = "completed"
  BY DEF Completed
<1>3. ASSUME status[f] = "completed"
      PROVE  /\ f \in Completed("devices") <=> links[f] # {}
             /\ f \in Completed("devices") =>
                   /\ \A t : t \in DOMAIN Usage(f) <=> t \in Int /\ Within(period[f], t)
                   /\ saved[f].kwh \in [Devices -> Int]
  <2>1. PICK i \in Imports : KeepsImport(f, i)
    BY <1>3 DEF ViewIInv, FilesKeepImports
  <2>2. saved[f] = Stores(i) /\ links[f] = i.content.devices /\ period[f] = i.content.period
    BY <2>1 DEF KeepsImport
  <2>3. i.kwh \in [Devices -> Int] /\ i.content.period \in Period
    BY ImportsAssumption, ContentsAssumption
  <2>4. saved[f].source = Source(i) /\ saved[f].kwh = i.kwh
    BY <2>2, StoresUsage
  <2>5. f \in Completed("devices") <=> links[f] # {}
    BY <1>3, <2>2, <2>4 DEF Completed, Source
  <2>6. ASSUME Source(i) = "devices", NEW t
        PROVE  t \in DOMAIN Usage(f) <=> t \in Int /\ Within(period[f], t)
    <3>1. DOMAIN Usage(f) = DOMAIN DeviceReadings(i)
      BY <2>2, <2>6, StoresUsage DEF Usage
    <3>2. DOMAIN DeviceReadings(i) = period[f].start .. (period[f].end - 1)
      BY <2>2 DEF DeviceReadings
    <3>3. period[f] \in Period /\ period[f] # NoPeriod
      BY <2>2, <2>3, NoPeriodAssumption
    <3> QED BY <3>1, <3>2, <3>3 DEF Within, Period
  <2>7. f \in Completed("devices") => Source(i) = "devices"
    BY <2>4 DEF Completed
  <2> QED BY <2>3, <2>4, <2>5, <2>6, <2>7
<1> QED BY <1>1, <1>2, <1>3

\* A row lies in a device file, inside its period.
LEMMA RowsLieInDeviceFiles ==
    ASSUME ViewIInv, NEW r \in rows
    PROVE  /\ r.file \in Files /\ r.file \in Completed("devices")
           /\ r.device \in Devices /\ r.device \in links[r.file]
           /\ r.slot \in Int /\ Within(period[r.file], r.slot)
<1>1. r \in Row /\ r.device \in links[r.file] /\ Within(period[r.file], r.slot)
  BY DEF ViewIInv, IInv, TypeOK, RowsInTheirFile
<1> QED BY <1>1, DeviceFilesAre DEF Row

\* The files whose series has a quarter-hour.
CoveringByPeriod(files) ==
    /\ DOMAIN Covering(files) = {t \in Int : \E f \in files : Within(period[f], t)}
    /\ \A t \in DOMAIN Covering(files) :
          Covering(files)[t] = {f \in files : Within(period[f], t)}

LEMMA CoveringIs ==
    ASSUME ViewIInv, NEW files, files \subseteq Completed("devices"), files \subseteq Files
    PROVE  CoveringByPeriod(files)
<1>1. \A f \in files : \A t : t \in DOMAIN Usage(f) <=> t \in Int /\ Within(period[f], t)
  BY DeviceFilesAre
<1>2. DOMAIN Covering(files) = UNION {DOMAIN Usage(f) : f \in files}
  BY DEF Covering
<1>3. \A t \in DOMAIN Covering(files) : Covering(files)[t] = {f \in files : t \in DOMAIN Usage(f)}
  BY DEF Covering
<1>4. \A t : t \in UNION {DOMAIN Usage(f) : f \in files} <=> \E f \in files : t \in DOMAIN Usage(f)
  OBVIOUS
<1>5. \A t \in DOMAIN Covering(files) : t \in Int
  BY <1>1, <1>2, <1>4
<1> QED BY <1>1, <1>2, <1>3, <1>4, <1>5 DEF CoveringByPeriod

----------------------------------------------------------------------------
(* The list of files and the flags.                                        *)

\* A row is flagged when a newer device file has its device and covers its
\* quarter-hour.
LEMMA FlaggedIsCovered ==
    ASSUME ViewIInv, NEW r \in rows
    PROVE  r \in superseded <=>
              \E g \in Completed("devices") : /\ g > r.file /\ r.device \in links[g]
                                              /\ Within(period[g], r.slot)
<1>1. r \in superseded <=> Covered(r)
  BY DEF ViewIInv, IInv, FlagsFollowNewestFile
<1>2. \A g \in Files : r.device \in links[g] => g \in Completed("devices")
  BY DeviceFilesAre
<1>3. Completed("devices") \subseteq Files
  BY DEF Completed
<1> QED BY <1>1, <1>2, <1>3 DEF Covered

LEMMA ListFollowsFlags == ViewIInv => ContributionsFollowFlags
<1> SUFFICES ASSUME ViewIInv, NoFileWithoutSimulation("devices")
             PROVE  LET files == MergedOf("devices")
                    IN  \A f \in files :
                            LET used == Contribution(files, f)
                                here(t) == {r \in rows : r.file = f /\ r.slot = t}
                            IN  /\ \A r \in rows \ superseded : r.file = f => r.slot \in used
                                /\ \A t \in used :
                                      {r.device : r \in here(t)} = links[f] => ~(here(t) \subseteq superseded)
  BY DEF ContributionsFollowFlags
<1> DEFINE files == MergedOf("devices")
<1>1. files = Completed("devices") /\ files \subseteq Files
  BY DEF NoFileWithoutSimulation, MergedOf, Completed
<1> HIDE DEF files
<1>2. /\ DOMAIN Covering(files) = {t \in Int : \E f \in files : Within(period[f], t)}
      /\ \A t \in DOMAIN Covering(files) :
            Covering(files)[t] = {f \in files : Within(period[f], t)}
  <2>1. PICK F : F = files
    OBVIOUS
  <2>2. CoveringByPeriod(F)
    BY <1>1, <2>1, CoveringIs
  <2> QED BY <2>1, <2>2 DEF CoveringByPeriod
<1>3. ASSUME NEW f \in files, NEW t
      PROVE  t \in Contribution(files, f) <=>
                /\ t \in Int /\ Within(period[f], t)
                /\ \E d \in links[f] : \A g \in files : g > f /\ Within(period[g], t) => d \notin links[g]
  <2>1. t \in Contribution(files, f) <=>
            /\ t \in DOMAIN Covering(files) /\ f \in Covering(files)[t]
            /\ links[f] \ UNION {links[g] : g \in {h \in Covering(files)[t] : h > f}} # {}
    BY DEF Contribution
  <2>2. t \in DOMAIN Covering(files) /\ f \in Covering(files)[t] <=> t \in Int /\ Within(period[f], t)
    BY <1>2
  <2>3. t \in DOMAIN Covering(files) =>
            {h \in Covering(files)[t] : h > f} = {h \in files : Within(period[h], t) /\ h > f}
    BY <1>2
  <2>4. links[f] \ UNION {links[g] : g \in {h \in files : Within(period[h], t) /\ h > f}} # {} <=>
            \E d \in links[f] : \A g \in files : g > f /\ Within(period[g], t) => d \notin links[g]
    OBVIOUS
  <2> QED BY <2>1, <2>2, <2>3, <2>4
<1>4. ASSUME NEW f \in files, NEW r \in rows \ superseded, r.file = f
      PROVE  r.slot \in Contribution(files, f)
  <2>1. r.slot \in Int /\ Within(period[f], r.slot) /\ r.device \in links[f]
    BY <1>4, RowsLieInDeviceFiles
  <2>2. \A g \in files : g > f /\ Within(period[g], r.slot) => r.device \notin links[g]
    BY <1>1, <1>4, FlaggedIsCovered
  <2> QED BY <1>3, <2>1, <2>2
<1>5. ASSUME NEW f \in files, NEW t \in Contribution(files, f),
             {r.device : r \in {r \in rows : r.file = f /\ r.slot = t}} = links[f]
      PROVE  ~({r \in rows : r.file = f /\ r.slot = t} \subseteq superseded)
  <2>1. PICK d \in links[f] : \A g \in files : g > f /\ Within(period[g], t) => d \notin links[g]
    BY <1>3
  <2>2. PICK r \in rows : r.file = f /\ r.slot = t /\ r.device = d
    BY <1>5
  <2>3. r \notin superseded
    BY <1>1, <2>1, <2>2, FlaggedIsCovered
  <2> QED BY <2>2, <2>3
<1> QED BY <1>4, <1>5 DEF files

\* Which quarter-hours each file contributes is computed from device sets and
\* stored series; it agrees with the flags that uploads and deletions keep.
THEOREM ListAgreesWithFlags == ViewSpec => []ContributionsFollowFlags
<1> QED BY FilesKeepWhatTheyBrought, ListFollowsFlags, PTL

----------------------------------------------------------------------------
(* The newest of some files.                                               *)

LEMMA GreatestExists ==
    ASSUME NEW S, IsFiniteSet(S), S # {}, S \subseteq Int
    PROVE  Max(S) \in S /\ \A x \in S : x <= Max(S)
<1> DEFINE Has(s) == s # {} => \E m \in s : \A x \in s : m >= x
           C == {s \in SUBSET S : Has(s)}
<1>1. {} \in C
  OBVIOUS
<1>2. ASSUME NEW s \in SUBSET S, NEW y \in S, s \in C, y \notin s PROVE s \cup {y} \in C
  <2>1. CASE s = {}
    <3>1. \E m \in s \cup {y} : \A x \in s \cup {y} : m >= x
      BY <2>1
    <3> QED BY <3>1
  <2>2. CASE s # {}
    <3>1. PICK m \in s : \A x \in s : m >= x
      BY <1>2, <2>2
    <3>2. CASE m >= y
      BY <3>1, <3>2
    <3>3. CASE ~(m >= y)
      <4>1. \A x \in s \cup {y} : y >= x
        BY <3>1, <3>3
      <4> QED BY <4>1
    <3> QED BY <3>2, <3>3
  <2> QED BY <2>1, <2>2
<1>3. S \in C
  <2> HIDE DEF C
  <2> QED BY <1>1, <1>2, InductByElement
<1>4. \E m \in S : \A x \in S : m >= x
  BY <1>3
<1>5. Max(S) \in S /\ \A x \in S : Max(S) >= x
  BY <1>4 DEF Max
<1> QED BY <1>5

LEMMA LeastExists ==
    ASSUME NEW S, IsFiniteSet(S), S # {}, S \subseteq Int
    PROVE  Min(S) \in S /\ \A x \in S : Min(S) <= x
<1> DEFINE Has(s) == s # {} => \E m \in s : \A x \in s : m <= x
           C == {s \in SUBSET S : Has(s)}
<1>1. {} \in C
  OBVIOUS
<1>2. ASSUME NEW s \in SUBSET S, NEW y \in S, s \in C, y \notin s PROVE s \cup {y} \in C
  <2>1. CASE s = {}
    <3>1. \E m \in s \cup {y} : \A x \in s \cup {y} : m <= x
      BY <2>1
    <3> QED BY <3>1
  <2>2. CASE s # {}
    <3>1. PICK m \in s : \A x \in s : m <= x
      BY <1>2, <2>2
    <3>2. CASE m <= y
      BY <3>1, <3>2
    <3>3. CASE ~(m <= y)
      <4>1. \A x \in s \cup {y} : y <= x
        BY <3>1, <3>3
      <4> QED BY <4>1
    <3> QED BY <3>2, <3>3
  <2> QED BY <2>1, <2>2
<1>3. S \in C
  <2> HIDE DEF C
  <2> QED BY <1>1, <1>2, InductByElement
<1>4. \E m \in S : \A x \in S : m <= x
  BY <1>3
<1>5. Min(S) \in S /\ \A x \in S : Min(S) <= x
  BY <1>4 DEF Min
<1> QED BY <1>5

LEMMA CompletedAreFinite ==
    ASSUME ViewIInv
    PROVE  /\ IsFiniteSet(Completed("devices")) /\ IsFiniteSet(Completed("meter"))
           /\ Completed("devices") \subseteq Int /\ Completed("meter") \subseteq Int
<1> DEFINE all == {f \in Files : status[f] # "none"}
<1>1. Completed("devices") \subseteq all /\ Completed("meter") \subseteq all
  BY DEF Completed
<1>2. IsFiniteSet(all)
  BY DEF ViewIInv, TablesAreFinite
<1>3. all \subseteq Int
  <2>1. all \subseteq Files
    OBVIOUS
  <2>2. Files \subseteq Int
    BY FilesAssumption
  <2> QED BY <2>1, <2>2
<1> QED BY <1>1, <1>2, <1>3, FS_Subset

----------------------------------------------------------------------------
(* The series of all device files.                                         *)

\* The rows that count in a quarter-hour.
CurrentAt(t) == {r \in rows \ superseded : r.slot = t}

\* The newest completed file that has a device and covers a quarter-hour.
Having(d, t) == {f \in Completed("devices") : d \in links[f] /\ Within(period[f], t)}

\* A row counts when its file is the newest that has its device there.
LEMMA CurrentIsOfNewest ==
    ASSUME ViewIInv, NEW r \in rows
    PROVE  r \notin superseded <=> r.file = Max(Having(r.device, r.slot))
<1> DEFINE F == Having(r.device, r.slot)
<1>1. r.file \in F
  BY RowsLieInDeviceFiles DEF Having
<1>2. IsFiniteSet(F) /\ F \subseteq Int
  <2>1. F \subseteq Completed("devices")
    BY DEF Having
  <2> QED BY <2>1, CompletedAreFinite, FS_Subset
<1>3. r \in superseded <=> \E g \in F : g > r.file
  BY FlaggedIsCovered DEF Having
<1> HIDE DEF F
<1>4. Max(F) \in F /\ \A x \in F : x <= Max(F)
  BY <1>1, <1>2, GreatestExists
<1>5. r.file = Max(F) <=> ~\E g \in F : g > r.file
  <2>1. PICK m : m = Max(F)
    OBVIOUS
  <2>2. m \in Int /\ r.file \in Int /\ \A g \in F : g \in Int /\ g <= m
    BY <1>1, <1>2, <1>4, <2>1
  <2>3. ASSUME r.file = m, NEW g \in F PROVE ~(g > r.file)
    BY <2>2, <2>3
  <2>4. ASSUME r.file # m PROVE m > r.file
    BY <1>1, <2>2, <2>4
  <2> QED BY <1>4, <2>1, <2>3, <2>4
<1> QED BY <1>3, <1>5 DEF F

\* What the newest file says of each device adds up to the rows that count.
LEMMA SeriesAt ==
    ASSUME ViewIInv, NEW t, MergedOf("devices") = Completed("devices")
    PROVE  Total(CurrentAt(t), LAMBDA r : saved[r.file].kwh[r.device])
             = Total(Devices, LAMBDA d : NewestKwh(d, t))
<1> DEFINE S == CurrentAt(t)
           dev == [r \in S |-> r.device]
           kwh == [r \in S |-> saved[r.file].kwh[r.device]]
           newest == [d \in Devices |-> NewestKwh(d, t)]
           ran == {dev[r] : r \in S}
<1>1. IsFiniteSet(S) /\ S \subseteq rows /\ \A r \in S : r \notin superseded /\ r.slot = t
  <2>1. S \subseteq rows
    BY DEF CurrentAt
  <2> QED BY <2>1, FS_Subset DEF CurrentAt, ViewIInv, TablesAreFinite
<1>2. \A r, s \in S : dev[r] = dev[s] => r = s
  <2>1. NoQuarterCountedTwice
    BY FlagsExcludeDoubles DEF ViewIInv
  <2> QED BY <1>1, <2>1 DEF NoQuarterCountedTwice
<1>3. \A r \in S : dev[r] \in Devices /\ kwh[r] \in Int /\ newest[dev[r]] = kwh[r]
  <2> SUFFICES ASSUME NEW r \in S
               PROVE  r.device \in Devices /\ kwh[r] \in Int /\ NewestKwh(r.device, t) = kwh[r]
    OBVIOUS
  <2>1. /\ r \in Row /\ r.file \in Completed("devices") /\ r.device \in Devices /\ r.file \in Files
        /\ r.device \in links[r.file] /\ Within(period[r.file], t)
    BY <1>1, RowsLieInDeviceFiles DEF ViewIInv, IInv, TypeOK
  <2>2. saved[r.file].kwh \in [Devices -> Int]
    BY <2>1, DeviceFilesAre
  <2>3. r.file = Max(Having(r.device, t)) /\ Having(r.device, t) # {}
    BY <1>1, <2>1, CurrentIsOfNewest DEF Having
  <2>4. r = [file |-> r.file, device |-> r.device, slot |-> t]
    BY <1>1, <2>1 DEF Row
  <2>5. NewestKwh(r.device, t) = saved[r.file].kwh[r.device]
    BY <1>1, <2>3, <2>4 DEF NewestKwh, Having
  <2> QED BY <2>1, <2>2, <2>5
<1>4. \A d \in Devices \ ran : newest[d] = 0
  <2> SUFFICES ASSUME NEW d \in Devices, d \notin ran, NewestKwh(d, t) # 0 PROVE FALSE
    OBVIOUS
  <2> DEFINE f == Max(Having(d, t))
             r == [file |-> f, device |-> d, slot |-> t]
  <2>1. r \in rows
    BY DEF NewestKwh, Having
  <2>2. r.file = f /\ r.device = d /\ r.slot = t
    OBVIOUS
  <2>3. r \notin superseded
    <3> HIDE DEF r
    <3> QED BY <2>1, <2>2, CurrentIsOfNewest
  <2>4. r \in S
    BY <2>1, <2>2, <2>3 DEF CurrentAt
  <2> QED BY <2>2, <2>4
<1>5. Total(S, LAMBDA r : saved[r.file].kwh[r.device]) = SumOver(kwh, S)
  BY DEF Total, SumOver
<1>6. Total(Devices, LAMBDA d : NewestKwh(d, t)) = SumOver(newest, Devices)
  BY DEF Total, SumOver
<1> HIDE DEF S, dev, kwh, newest
<1>7. SumOver(kwh, S) = SumOver(newest, ran)
  BY <1>1, <1>2, <1>3, SumAt
<1>8. ran \subseteq Devices /\ IsFiniteSet(ran) /\ IsFiniteSet(Devices \ ran)
  BY <1>3, DevicesAssumption, FS_Subset
<1>9. \A d \in Devices : newest[d] \in Int
  <2>1. ASSUME NEW d \in ran PROVE newest[d] \in Int
    BY <1>3
  <2> QED BY <1>4, <2>1
<1> HIDE DEF ran
<1>10. SumOver(newest, Devices \ ran) = 0
  BY <1>4, <1>8, SumOfZeros
<1>11. SumOver(newest, ran \cup (Devices \ ran)) = SumOver(newest, ran) + SumOver(newest, Devices \ ran)
  <2>1. PICK rest : rest = Devices \ ran
    OBVIOUS
  <2>2. IsFiniteSet(rest) /\ ran \cap rest = {} /\ \A d \in ran \cup rest : newest[d] \in Int
    BY <1>8, <1>9, <2>1
  <2>3. SumOver(newest, ran \cup rest) = SumOver(newest, ran) + SumOver(newest, rest)
    BY <1>8, <2>2, SumOfUnion
  <2> QED BY <2>1, <2>3
<1>12. ran \cup (Devices \ ran) = Devices /\ SumOver(newest, ran) \in Int
  BY <1>8, <1>9, SumIsNumber
<1>13. SumOver(kwh, S) = SumOver(newest, Devices)
  BY <1>7, <1>10, <1>11, <1>12
<1> QED BY <1>5, <1>6, <1>13 DEF S

LEMMA SeriesIsOfNewest == ViewIInv => SeriesFollowsNewestFile
<1> SUFFICES ASSUME ViewIInv, NoFileWithoutSimulation("devices") PROVE SeriesFollowsNewestFile
  BY DEF SeriesFollowsNewestFile
<1>1. PICK files : files = MergedOf("devices")
  OBVIOUS
<1>2. files = Completed("devices") /\ files \subseteq Files
  BY <1>1 DEF NoFileWithoutSimulation, MergedOf, Completed
<1>3. CoveringByPeriod(files)
  BY <1>2, CoveringIs
<1> DEFINE current == {r \in rows \ superseded : r.file \in files}
           covered == DOMAIN Covering(files)
<1>4. current = rows \ superseded
  BY <1>2, RowsLieInDeviceFiles
<1>5. \A r \in current : r.slot \in covered
  BY <1>2, <1>3, RowsLieInDeviceFiles DEF CoveringByPeriod
<1>6. DeviceSeries(files) = [t \in covered \union {r.slot : r \in current} |-> GridImport(current, t)]
  BY DEF DeviceSeries
<1>7. covered \union {r.slot : r \in current} = covered
  BY <1>5
<1>8. DeviceSeries(files) = [t \in covered |-> GridImport(rows \ superseded, t)]
  BY <1>4, <1>6, <1>7
<1>9. ASSUME NEW t
      PROVE  GridImport(rows \ superseded, t) = Max0(Total(Devices, LAMBDA d : NewestKwh(d, t)))
  <2>1. GridImport(rows \ superseded, t)
            = Max0(Total(CurrentAt(t), LAMBDA r : saved[r.file].kwh[r.device]))
    BY DEF GridImport, CurrentAt
  <2> QED BY <1>1, <1>2, <2>1, SeriesAt
<1> QED BY <1>1, <1>8, <1>9 DEF SeriesFollowsNewestFile

\* The view of all device files shows in every quarter-hour the balance of all
\* devices, each as the newest file that has it says.
THEOREM SeriesIsThatOfTheNewest == ViewSpec => []SeriesFollowsNewestFile
<1> QED BY FilesKeepWhatTheyBrought, SeriesIsOfNewest, PTL

----------------------------------------------------------------------------
(* Sums by a key, and finite images.                                       *)

LEMMA ImageIsFinite ==
    ASSUME NEW S, IsFiniteSet(S), NEW f
    PROVE  IsFiniteSet({f[x] : x \in S})
<1> DEFINE g == [x \in S |-> f[x]]
           image == {f[x] : x \in S}
<1>1. g \in Surjection(S, image)
  BY DEF Surjection
<1> QED BY <1>1, FS_Surjection

LEMMA SumOfOpposite ==
    ASSUME NEW T, IsFiniteSet(T), NEW f, NEW g, \A x \in T : f[x] \in Int /\ g[x] = -f[x]
    PROVE  SumOver(g, T) = -SumOver(f, T)
<1> DEFINE zero == [x \in T |-> 0]
<1>1. \A x \in T : f[x] \in Int /\ g[x] \in Int /\ zero[x] = f[x] + g[x] /\ zero[x] = 0
  OBVIOUS
<1> HIDE DEF zero
<1>2. SumOver(zero, T) = SumOver(f, T) + SumOver(g, T)
  BY <1>1, SumOfTwo
<1>3. SumOver(zero, T) = 0
  BY <1>1, SumOfZeros
<1>4. SumOver(f, T) \in Int /\ SumOver(g, T) \in Int
  BY <1>1, SumIsNumber
<1> QED BY <1>2, <1>3, <1>4

\* The sum of a function that is not 0 at one place.
LEMMA SumAtOnePlace ==
    ASSUME NEW K, IsFiniteSet(K), NEW k \in K, NEW d, d[k] \in Int, \A t \in K \ {k} : d[t] = 0
    PROVE  SumOver(d, K) = d[k]
<1>1. PICK rest : rest = K \ {k}
  OBVIOUS
<1>2. IsFiniteSet(rest) /\ k \notin rest /\ rest \cup {k} = K
  BY <1>1, FS_Subset
<1>3. \A t \in rest \cup {k} : d[t] \in Int
  BY <1>1
<1>4. SumOver(d, rest \cup {k}) = SumOver(d, rest) + d[k]
  BY <1>2, <1>3, SumWith
<1>5. SumOver(d, rest) = 0
  <2>1. \A t \in rest : d[t] = 0
    BY <1>1
  <2> QED BY <1>2, <2>1, SumOfZeros
<1>6. SumOver(d, rest \cup {k}) = SumOver(d, K)
  BY <1>2
<1> QED BY <1>4, <1>5, <1>6

\* A sum by the values of a key.
LEMMA SumByKey ==
    ASSUME NEW A, IsFiniteSet(A), NEW K, IsFiniteSet(K), NEW key, \A x \in A : key[x] \in K,
           NEW f, \A x \in A : f[x] \in Int
    PROVE  SumOver(f, A) = SumOver([t \in K |-> SumOver(f, {x \in A : key[x] = t})], K)
<1> DEFINE at(s, t) == {x \in s : key[x] = t}
           by(s) == [t \in K |-> SumOver(f, at(s, t))]
           C == {s \in SUBSET A : SumOver(f, s) = SumOver(by(s), K)}
<1>1. {} \in C
  <2>1. \A t \in K : by({})[t] = 0
    BY SumOfNone
  <2> HIDE DEF by
  <2>2. SumOver(by({}), K) = 0
    BY <2>1, SumOfZeros
  <2> QED BY <2>2, SumOfNone
<1>2. ASSUME NEW s \in SUBSET A, NEW x \in A, s \in C, x \notin s PROVE s \cup {x} \in C
  <2> DEFINE d == [t \in K |-> IF t = key[x] THEN f[x] ELSE 0]
  <2>1. SumOver(f, s) = SumOver(by(s), K) /\ IsFiniteSet(s)
    BY <1>2, FS_Subset
  <2>2. Numbers(f, s \cup {x})
    BY DEF Numbers
  <2>3. SumOver(f, s \cup {x}) = SumOver(f, s) + f[x]
    <3>1. x \notin s
      BY <1>2
    <3>2. IsFiniteSet(s)
      BY <2>1
    <3> HIDE DEF C, d
    <3> QED BY <2>2, <3>1, <3>2, SumStep
  <2>4. ASSUME NEW t \in K
        PROVE  SumOver(f, at(s, t)) \in Int /\ SumOver(f, at(s \cup {x}, t)) = SumOver(f, at(s, t)) + d[t]
    <3>1. PICK u : u = at(s, t)
      OBVIOUS
    <3>2. IsFiniteSet(u) /\ u \subseteq s
      BY <2>1, <3>1, FS_Subset
    <3>3. Numbers(f, u \cup {x}) /\ (\A y \in u : f[y] \in Int)
      BY <3>2 DEF Numbers
    <3>4. SumOver(f, u) \in Int
      BY <3>2, <3>3, SumIsNumber
    <3>5. CASE key[x] = t
      <4>1. at(s \cup {x}, t) = u \cup {x} /\ d[t] = f[x] /\ x \notin u
        BY <1>2, <3>1, <3>2, <3>5
      <4>2. SumOver(f, u \cup {x}) = SumOver(f, u) + f[x]
        BY <3>2, <3>3, <4>1, SumStep
      <4> QED BY <3>1, <3>4, <4>1, <4>2
    <3>6. CASE key[x] # t
      <4>1. at(s \cup {x}, t) = u /\ d[t] = 0
        BY <3>1, <3>6
      <4> QED BY <3>1, <3>4, <4>1
    <3> QED BY <3>5, <3>6
  <2>5. \A t \in K : /\ by(s)[t] \in Int /\ d[t] \in Int
                     /\ by(s \cup {x})[t] = by(s)[t] + d[t]
    BY <2>4
  <2>6. key[x] \in K /\ d[key[x]] = f[x] /\ f[x] \in Int /\ \A t \in K \ {key[x]} : d[t] = 0
    OBVIOUS
  <2> HIDE DEF by, d
  <2>7. SumOver(by(s \cup {x}), K) = SumOver(by(s), K) + SumOver(d, K)
    BY <2>5, SumOfTwo
  <2>8. SumOver(d, K) = f[x]
    <3>1. PICK k : k = key[x]
      OBVIOUS
    <3>2. k \in K /\ d[k] = f[x] /\ d[k] \in Int /\ \A t \in K \ {k} : d[t] = 0
      BY <2>6, <3>1
    <3>3. SumOver(d, K) = d[k]
      BY <3>2, SumAtOnePlace
    <3> QED BY <3>2, <3>3
  <2>9. SumOver(f, s \cup {x}) = SumOver(by(s \cup {x}), K)
    BY <2>1, <2>3, <2>7, <2>8
  <2> QED BY <1>2, <2>9
<1>3. A \in C
  <2> HIDE DEF C
  <2> QED BY <1>1, <1>2, InductByElement
<1> QED BY <1>3

----------------------------------------------------------------------------
(* The readings of a meter file.                                           *)

LEMMA ReadingsAreNumbers ==
    ASSUME NEW i \in Imports
    PROVE  IsFiniteSet(Readings(i.rows)) /\ \A r \in Readings(i.rows) : r.end \in Int /\ r.kwh \in Int
<1>1. Readings(i.rows) \subseteq i.rows
  BY DEF Readings, DatedRows, ValidRows, EnergyRows
<1>2. ASSUME NEW r \in Readings(i.rows) PROVE r.end \in Int /\ r.kwh \in Int
  <2>1. {r.end, r.kwh} \subseteq Int \union {Missing, Invalid}
    BY <1>1, ImportsAssumption
  <2>2. r.end # Missing /\ r.kwh # Missing /\ r.end # Invalid /\ r.kwh # Invalid
    BY DEF Readings, DatedRows, ValidRows, EnergyRows, Incomplete
  <2> QED BY <2>1, <2>2
<1>3. IsFiniteSet(i.rows)
  BY ImportsAssumption
<1> QED BY <1>1, <1>2, <1>3, FS_Subset

\* Of rows that repeat one another the first is a reading.
LEMMA FirstIsReading ==
    ASSUME NEW i \in Imports, NEW r \in DatedRows(i.rows)
    PROVE  \E q \in Readings(i.rows) : q.end = r.end /\ q.kwh = r.kwh /\ Export(q) = Export(r)
<1> DEFINE same == {q \in DatedRows(i.rows) : q.end = r.end /\ q.kwh = r.kwh /\ Export(q) = Export(r)}
           line == [q \in same |-> q.line]
           lines == {line[q] : q \in same}
<1>1. same \subseteq i.rows
  BY DEF DatedRows, ValidRows, EnergyRows
<1>2. IsFiniteSet(same) /\ r \in same /\ \A q \in same : q.line \in Int
  BY <1>1, ImportsAssumption, FS_Subset
<1>3. IsFiniteSet(lines)
  <2> HIDE DEF same, line
  <2> QED BY <1>2, ImageIsFinite
<1>4. lines # {} /\ lines \subseteq Int
  BY <1>2
<1>5. PICK q \in same : \A p \in same : q.line <= p.line
  <2>1. Min(lines) \in lines /\ \A x \in lines : Min(lines) <= x
    <3> HIDE DEF lines
    <3> QED BY <1>3, <1>4, LeastExists
  <2>2. PICK q \in same : q.line = Min(lines)
    BY <2>1
  <2>3. \A p \in same : p.line \in lines
    OBVIOUS
  <2> HIDE DEF lines
  <2> QED BY <2>1, <2>2, <2>3
<1>6. \A p \in DatedRows(i.rows) : ~Repeats(q, p)
  <2> SUFFICES ASSUME NEW p \in DatedRows(i.rows), Repeats(q, p) PROVE FALSE
    OBVIOUS
  <2>1. p \in same /\ p.line < q.line
    BY DEF Repeats
  <2>2. p.line \in Int /\ q.line \in Int /\ q.line <= p.line
    BY <1>2, <1>5, <2>1
  <2> QED BY <2>1, <2>2
<1>7. q \in Readings(i.rows)
  BY <1>6 DEF Readings
<1> QED BY <1>7

LEMMA SomeReadings ==
    ASSUME NEW i \in Imports, DatedRows(i.rows) # {}
    PROVE  Readings(i.rows) # {}
<1> QED BY FirstIsReading

\* The records of a meter file, by the end of their readings.
KwhOf(rs) == [r \in Readings(rs) |-> r.kwh]
TakenTo(rs, t) == {r \in Readings(rs) : r.end = t /\ Consumption(r)}
GivenTo(rs, t) == {r \in Readings(rs) : r.end = t /\ Export(r)}
RecordTo(rs, t) ==
    [start |-> t - Resolution(rs), used |-> SumOver(KwhOf(rs), TakenTo(rs, t)),
     exported |-> SumOver(KwhOf(rs), GivenTo(rs, t))]

LEMMA RecordsAre == ASSUME NEW rs PROVE Records(rs) = {RecordTo(rs, t) : t \in Ends(rs)}
<1>1. ASSUME NEW S, S \subseteq Readings(rs)
      PROVE  Total(S, LAMBDA r : r.kwh) = SumOver(KwhOf(rs), S)
  <2>1. [r \in S |-> r.kwh] = [r \in S |-> KwhOf(rs)[r]]
    BY <1>1 DEF KwhOf
  <2> QED BY <2>1 DEF Total, SumOver
<1> DEFINE at(t) == [start |-> t - Resolution(rs),
                     used |-> Total(TakenTo(rs, t), LAMBDA r : r.kwh),
                     exported |-> Total(GivenTo(rs, t), LAMBDA r : r.kwh)]
<1>2. Records(rs) = {at(t) : t \in Ends(rs)}
  BY DEF Records, TakenTo, GivenTo
<1>3. ASSUME NEW t PROVE at(t) = RecordTo(rs, t)
  <2>1. TakenTo(rs, t) \subseteq Readings(rs) /\ GivenTo(rs, t) \subseteq Readings(rs)
    BY DEF TakenTo, GivenTo
  <2> QED BY <1>1, <2>1 DEF RecordTo
<1> QED BY <1>2, <1>3

LEMMA RecordsAreNumbers ==
    ASSUME NEW i \in Imports, Resolution(i.rows) \in Int
    PROVE  /\ IsFiniteSet(Records(i.rows))
           /\ \A r \in Records(i.rows) : r.start \in Int /\ r.used \in Int /\ r.exported \in Int
<1> DEFINE ends == Ends(i.rows)
           record == [t \in ends |-> RecordTo(i.rows, t)]
<1>1. Records(i.rows) = {record[t] : t \in ends}
  BY RecordsAre
<1>2. IsFiniteSet(ends) /\ ends \subseteq Int
  <2> DEFINE end == [r \in Readings(i.rows) |-> r.end]
  <2>1. IsFiniteSet(Readings(i.rows)) /\ \A r \in Readings(i.rows) : r.end \in Int
    BY ReadingsAreNumbers
  <2>2. IsFiniteSet({end[r] : r \in Readings(i.rows)})
    BY <2>1, ImageIsFinite
  <2>3. ends = {end[r] : r \in Readings(i.rows)}
    BY DEF Ends
  <2> QED BY <2>1, <2>2, <2>3 DEF Ends
<1>3. ASSUME NEW S, S \subseteq Readings(i.rows) PROVE SumOver(KwhOf(i.rows), S) \in Int
  <2>1. IsFiniteSet(S) /\ \A r \in S : KwhOf(i.rows)[r] \in Int
    BY <1>3, ReadingsAreNumbers, FS_Subset DEF KwhOf
  <2> QED BY <2>1, SumIsNumber
<1>4. ASSUME NEW t \in ends
      PROVE  record[t].start \in Int /\ record[t].used \in Int /\ record[t].exported \in Int
  <2>1. TakenTo(i.rows, t) \subseteq Readings(i.rows) /\ GivenTo(i.rows, t) \subseteq Readings(i.rows)
    BY DEF TakenTo, GivenTo
  <2> QED BY <1>2, <1>3, <2>1 DEF RecordTo
<1>5. IsFiniteSet({record[t] : t \in ends})
  <2> HIDE DEF record, ends
  <2> QED BY <1>2, ImageIsFinite
<1> HIDE DEF record
<1> QED BY <1>1, <1>4, <1>5

\* The quarter-hours of a record.
Places(i) == Records(i.rows) \X (0 .. (Resolution(i.rows) - 1))
PartOf(i, p) == [slot |-> p[1].start + p[2], used |-> p[1].used \div Resolution(i.rows),
                 exported |-> p[1].exported \div Resolution(i.rows)]

LEMMA PartsAre == ASSUME NEW i PROVE QuarterHours(i) = {PartOf(i, p) : p \in Places(i)}
<1> DEFINE R == Records(i.rows)
           ks == 0 .. (Resolution(i.rows) - 1)
           share(r, k) == [slot |-> r.start + k, used |-> r.used \div Resolution(i.rows),
                           exported |-> r.exported \div Resolution(i.rows)]
<1>1. QuarterHours(i) = UNION {{share(r, k) : k \in ks} : r \in R}
  BY DEF QuarterHours
<1>2. \A r \in R, k \in ks : <<r, k>> \in Places(i) /\ PartOf(i, <<r, k>>) = share(r, k)
  BY DEF Places, PartOf
<1>3. \A p \in Places(i) : p[1] \in R /\ p[2] \in ks /\ PartOf(i, p) = share(p[1], p[2])
  BY DEF Places, PartOf
<1> HIDE DEF R, ks, share
<1>4. ASSUME NEW q \in QuarterHours(i) PROVE q \in {PartOf(i, p) : p \in Places(i)}
  <2>1. PICK r \in R, k \in ks : q = share(r, k)
    BY <1>1
  <2> QED BY <1>2, <2>1
<1>5. ASSUME NEW p \in Places(i) PROVE PartOf(i, p) \in QuarterHours(i)
  BY <1>1, <1>3
<1> QED BY <1>4, <1>5

\* A meter file is accepted with a resolution.
LEMMA ResolutionIsNumber ==
    ASSUME NEW i \in Imports, Source(i) = "meter", Accepted(i)
    PROVE  Resolution(i.rows) \in Nat \ {0}
<1>1. Resolutions(Ends(i.rows)) # {}
  BY DEF Accepted, MeterFileAccepted
<1>2. Resolution(i.rows) \in Resolutions(Ends(i.rows))
  BY <1>1 DEF Resolution
<1>3. Resolutions(Ends(i.rows)) \subseteq {QuarterHour, HourSlots}
  BY DEF Resolutions
<1> QED BY <1>2, <1>3, HourAssumption DEF QuarterHour

LEMMA MeterReadingsAreNumbers ==
    ASSUME NEW i \in Imports, Source(i) = "meter", Accepted(i)
    PROVE  /\ IsFiniteSet(DOMAIN MeterReadings(i)) /\ DOMAIN MeterReadings(i) \subseteq Int
           /\ \A t \in DOMAIN MeterReadings(i) :
                 MeterReadings(i)[t].used \in Int /\ MeterReadings(i)[t].exported \in Int
<1>1. PICK res \in Nat \ {0} : res = Resolution(i.rows)
  BY ResolutionIsNumber
<1>2. PICK R : R = Records(i.rows)
  OBVIOUS
<1>3. IsFiniteSet(R) /\ \A r \in R : r.start \in Int /\ r.used \in Int /\ r.exported \in Int
  BY <1>1, <1>2, RecordsAreNumbers
<1> DEFINE ks == 0 .. (res - 1)
           share == [p \in R \X ks |-> [slot |-> p[1].start + p[2], used |-> p[1].used \div res,
                                        exported |-> p[1].exported \div res]]
           parts == {share[p] : p \in R \X ks}
<1>4. QuarterHours(i) = parts
  <2>1. Places(i) = R \X ks /\ \A p \in R \X ks : share[p] = PartOf(i, p)
    BY <1>1, <1>2 DEF Places, PartOf
  <2> QED BY <2>1, PartsAre
<1>5. IsFiniteSet(R \X ks)
  <2>1. IsFiniteSet(ks)
    BY FS_Interval
  <2> HIDE DEF ks
  <2> QED BY <1>3, <2>1, FS_Product
<1>6. IsFiniteSet(parts)
  <2> HIDE DEF share, ks
  <2> QED BY <1>5, ImageIsFinite
<1>7. \A q \in parts : q.slot \in Int /\ q.used \in Int /\ q.exported \in Int
  <2>1. ASSUME NEW p \in R \X ks
        PROVE  share[p].slot \in Int /\ share[p].used \in Int /\ share[p].exported \in Int
    <3>1. /\ p[1] \in R /\ p[2] \in Int /\ p[1].start \in Int
          /\ p[1].used \in Int /\ p[1].exported \in Int
      BY <1>3
    <3>2. \A u \in Int : u \div res \in Int
      OBVIOUS
    <3>3. p[1].used \div res \in Int /\ p[1].exported \div res \in Int /\ p[1].start + p[2] \in Int
      BY <3>1, <3>2
    <3> QED BY <3>3
  <2> HIDE DEF share, ks
  <2> QED BY <2>1
<1> HIDE DEF parts, share, ks
<1>8. IsFiniteSet({q.slot : q \in parts})
  <2> DEFINE slot == [q \in parts |-> q.slot]
  <2>1. {q.slot : q \in parts} = {slot[q] : q \in parts}
    OBVIOUS
  <2> HIDE DEF slot
  <2>2. IsFiniteSet({slot[q] : q \in parts})
    BY <1>6, ImageIsFinite
  <2> QED BY <2>1, <2>2
<1>9. DOMAIN MeterReadings(i) = {q.slot : q \in parts}
  BY <1>4 DEF MeterReadings
<1>10. ASSUME NEW t \in DOMAIN MeterReadings(i)
       PROVE  MeterReadings(i)[t].used \in Int /\ MeterReadings(i)[t].exported \in Int
  <2> DEFINE here == {q \in parts : q.slot = t}
             used == [q \in here |-> q.used]
             exported == [q \in here |-> q.exported]
  <2>1. MeterReadings(i)[t] = [used |-> Total(here, LAMBDA q : q.used),
                               exported |-> Total(here, LAMBDA q : q.exported)]
    BY <1>4, <1>9 DEF MeterReadings
  <2>2. Total(here, LAMBDA q : q.used) = SumOver(used, here)
        /\ Total(here, LAMBDA q : q.exported) = SumOver(exported, here)
    BY DEF Total, SumOver
  <2>3. IsFiniteSet(here) /\ \A q \in here : used[q] \in Int /\ exported[q] \in Int
    <3>1. here \subseteq parts
      OBVIOUS
    <3> QED BY <1>6, <1>7, <3>1, FS_Subset
  <2> HIDE DEF here, used, exported
  <2>4. SumOver(used, here) \in Int /\ SumOver(exported, here) \in Int
    BY <2>3, SumIsNumber
  <2> QED BY <2>1, <2>2, <2>4
<1>11. DOMAIN MeterReadings(i) \subseteq Int
  BY <1>7, <1>9
<1> QED BY <1>8, <1>9, <1>10, <1>11

LEMMA BalanceIsNumber ==
    ASSUME NEW i \in Imports, NEW t
    PROVE  Balance(i, t) \in Int
<1> DEFINE S == {u \in i.content.usage : u.slot = t}
           kwh == [u \in S |-> i.kwh[u.device]]
           device == [u \in S |-> u.device]
<1>1. i.content \in Contents /\ i.kwh \in [Devices -> Int]
  BY ImportsAssumption
<1>2. i.content.usage \subseteq [device : Devices, slot : Int]
  BY <1>1, ContentsAssumption
<1>3. IsFiniteSet(S)
  <2> DEFINE use == [d \in Devices |-> [device |-> d, slot |-> t]]
  <2>1. S \subseteq {use[d] : d \in Devices}
    BY <1>2
  <2> HIDE DEF use
  <2>2. IsFiniteSet({use[d] : d \in Devices})
    BY DevicesAssumption, ImageIsFinite
  <2> QED BY <2>1, <2>2, FS_Subset
<1>4. \A u \in S : kwh[u] \in Int
  BY <1>1, <1>2
<1>5. Balance(i, t) = SumOver(kwh, S)
  BY DEF Balance, Total, SumOver
<1> HIDE DEF S, kwh
<1> QED BY <1>3, <1>4, <1>5, SumIsNumber

----------------------------------------------------------------------------
(* The house: chosen devices, the other devices and the rest.              *)

\* The readings that a view has of some meter files.
LEMMA MeterNetIsNumber ==
    ASSUME ViewIInv, NEW meter, meter \subseteq Completed("meter"), NEW days
    PROVE  /\ IsFiniteSet(DOMAIN MergedReadings(meter, days))
           /\ \A t \in DOMAIN MergedReadings(meter, days) : MeterNet(meter, days, t) \in Int
<1>1. ASSUME NEW f \in meter
      PROVE  /\ IsFiniteSet(DOMAIN saved[f].readings)
             /\ \A t \in DOMAIN saved[f].readings :
                   saved[f].readings[t].used \in Int /\ saved[f].readings[t].exported \in Int
  <2>1. f \in Files /\ status[f] = "completed" /\ saved[f].source = "meter"
    BY <1>1 DEF Completed
  <2>2. PICK i \in Imports : Accepted(i) /\ saved[f] = Stores(i)
    BY <2>1 DEF ViewIInv, FilesKeepImports, KeepsImport
  <2>3. Source(i) = "meter"
    BY <2>1, <2>2, StoresUsage
  <2>4. Stores(i).readings = MeterReadings(i)
    BY <2>3 DEF Stores
  <2> QED BY <2>2, <2>3, <2>4, MeterReadingsAreNumbers
<1> DEFINE reading == [f \in meter |-> DOMAIN saved[f].readings]
           times == UNION {reading[f] : f \in meter}
<1>2. IsFiniteSet(times)
  <2>1. IsFiniteSet(meter)
    BY CompletedAreFinite, FS_Subset
  <2>2. \A f \in meter : IsFiniteSet(reading[f])
    BY <1>1
  <2> HIDE DEF reading
  <2>3. IsFiniteSet({reading[f] : f \in meter})
    BY <2>1, ImageIsFinite
  <2>4. \A s \in {reading[f] : f \in meter} : IsFiniteSet(s)
    BY <2>2
  <2> QED BY <2>3, <2>4, FS_UNION
<1>3. DOMAIN MergedReadings(meter, days) = {s \in UNION {DOMAIN saved[f].readings : f \in meter} : Day(s) \in days}
  BY DEF MergedReadings
<1>4. DOMAIN MergedReadings(meter, days) \subseteq times
  BY <1>3
<1>5. ASSUME NEW t \in DOMAIN MergedReadings(meter, days)
      PROVE  MeterNet(meter, days, t) \in Int
  <2> DEFINE F == {f \in meter : t \in DOMAIN saved[f].readings}
  <2>1. F # {} /\ IsFiniteSet(F) /\ F \subseteq Int
    <3>1. F # {}
      BY <1>3
    <3>2. F \subseteq Completed("meter")
      OBVIOUS
    <3> QED BY <3>1, <3>2, CompletedAreFinite, FS_Subset
  <2> HIDE DEF F
  <2>2. Max(F) \in F
    BY <2>1, GreatestExists
  <2>3. PICK f \in meter : f = NewestReading(meter, t) /\ t \in DOMAIN saved[f].readings
    BY <2>2 DEF F, NewestReading
  <2>4. MergedReadings(meter, days)[t] = saved[f].readings[t]
    BY <2>3 DEF MergedReadings
  <2>5. saved[f].readings[t].used \in Int /\ saved[f].readings[t].exported \in Int
    BY <1>1, <2>3
  <2> QED BY <2>4, <2>5 DEF MeterNet
<1> QED BY <1>2, <1>4, <1>5, FS_Subset

\* What all devices of a view use less what they produce, by a filter or not.
LEMMA DevicesAddUp ==
    ASSUME ViewIInv, NEW rs, rs \subseteq rows, NEW chosen \in SUBSET Devices,
           NEW kwh, kwh = [r \in rs |-> Kwh(r)]
    PROVE  GroupsKwh(rs, chosen) + GroupsKwh(rs, Devices \ chosen)
               - ProductionKwh(rs, chosen) - ProductionKwh(rs, Devices \ chosen)
             = SumOver(kwh, rs)
<1>1. IsFiniteSet(rs) /\ \A r \in rs : r.device \in Devices /\ kwh[r] = Kwh(r) /\ kwh[r] \in Int
  <2>1. IsFiniteSet(rs)
    BY FS_Subset DEF ViewIInv, TablesAreFinite
  <2>2. ASSUME NEW r \in rs PROVE r.device \in Devices /\ Kwh(r) \in Int
    <3>1. r.file \in Files /\ r.file \in Completed("devices") /\ r.device \in Devices
      BY RowsLieInDeviceFiles
    <3>2. saved[r.file].kwh \in [Devices -> Int]
      BY <3>1, DeviceFilesAre
    <3> QED BY <3>1, <3>2 DEF Kwh
  <2> QED BY <2>1, <2>2
<1>2. ASSUME NEW ds \in SUBSET Devices
      PROVE  /\ GroupsKwh(rs, ds) = SumOver(kwh, Consumed(rs, ds))
             /\ ProductionKwh(rs, ds) = -SumOver(kwh, Produced(rs, ds))
             /\ SumOver(kwh, Consumed(rs, ds)) \in Int /\ SumOver(kwh, Produced(rs, ds)) \in Int
             /\ IsFiniteSet(Consumed(rs, ds)) /\ IsFiniteSet(Produced(rs, ds))
  <2>1. PICK C, P : C = Consumed(rs, ds) /\ P = Produced(rs, ds)
    OBVIOUS
  <2>2. C \subseteq rs /\ P \subseteq rs
    BY <2>1 DEF Consumed, Produced
  <2>3. IsFiniteSet(C) /\ IsFiniteSet(P) /\ (\A r \in C : kwh[r] \in Int) /\ (\A r \in P : kwh[r] \in Int)
    BY <1>1, <2>2, FS_Subset
  <2>4. SumOver(kwh, C) \in Int /\ SumOver(kwh, P) \in Int
    BY <2>3, SumIsNumber
  <2>5. GroupsKwh(rs, ds) = SumOver(kwh, C)
    <3>1. [r \in C |-> Kwh(r)] = [r \in C |-> kwh[r]]
      BY <1>1, <2>2
    <3> QED BY <2>1, <3>1 DEF GroupsKwh, Total, SumOver
  <2>6. ProductionKwh(rs, ds) = -SumOver(kwh, P)
    <3> DEFINE given == [r \in P |-> -Kwh(r)]
    <3>1. \A r \in P : kwh[r] \in Int /\ given[r] = -kwh[r]
      BY <1>1, <2>2
    <3>2. ProductionKwh(rs, ds) = SumOver(given, P)
      BY <2>1 DEF ProductionKwh, Total, SumOver
    <3> HIDE DEF given
    <3> QED BY <2>3, <3>1, <3>2, SumOfOpposite
  <2> QED BY <2>1, <2>3, <2>4, <2>5, <2>6
<1>3. PICK C1, P1, C2, P2 : /\ C1 = Consumed(rs, chosen) /\ P1 = Produced(rs, chosen)
                            /\ C2 = Consumed(rs, Devices \ chosen) /\ P2 = Produced(rs, Devices \ chosen)
  OBVIOUS
<1>4. /\ IsFiniteSet(C1) /\ IsFiniteSet(P1) /\ IsFiniteSet(C2) /\ IsFiniteSet(P2)
      /\ SumOver(kwh, C1) \in Int /\ SumOver(kwh, P1) \in Int
      /\ SumOver(kwh, C2) \in Int /\ SumOver(kwh, P2) \in Int
      /\ GroupsKwh(rs, chosen) = SumOver(kwh, C1)
      /\ ProductionKwh(rs, chosen) = -SumOver(kwh, P1)
      /\ GroupsKwh(rs, Devices \ chosen) = SumOver(kwh, C2)
      /\ ProductionKwh(rs, Devices \ chosen) = -SumOver(kwh, P2)
  <2>1. chosen \in SUBSET Devices /\ Devices \ chosen \in SUBSET Devices
    OBVIOUS
  <2> QED BY <1>2, <1>3, <2>1
<1>5. /\ C1 \cap P1 = {} /\ C2 \cap P2 = {} /\ (C1 \cup P1) \cap (C2 \cup P2) = {}
      /\ (C1 \cup P1) \cup (C2 \cup P2) = rs
      /\ C1 \cup P1 \subseteq rs /\ C2 \cup P2 \subseteq rs
  <2>1. \A r \in rs : kwh[r] >= 0 \/ kwh[r] < 0
    BY <1>1
  <2>2. \A r \in rs : ~(kwh[r] >= 0 /\ kwh[r] < 0)
    BY <1>1
  <2>3. /\ \A r : r \in C1 <=> r \in rs /\ r.device \in chosen /\ kwh[r] >= 0
        /\ \A r : r \in P1 <=> r \in rs /\ r.device \in chosen /\ kwh[r] < 0
        /\ \A r : r \in C2 <=> r \in rs /\ r.device \in Devices \ chosen /\ kwh[r] >= 0
        /\ \A r : r \in P2 <=> r \in rs /\ r.device \in Devices \ chosen /\ kwh[r] < 0
    BY <1>1, <1>3 DEF Consumed, Produced
  <2> QED BY <1>1, <2>1, <2>2, <2>3
<1>6. SumOver(kwh, C1 \cup P1) = SumOver(kwh, C1) + SumOver(kwh, P1)
  <2>1. \A r \in C1 \cup P1 : kwh[r] \in Int
    BY <1>1, <1>5
  <2> QED BY <1>4, <1>5, <2>1, SumOfUnion
<1>7. SumOver(kwh, C2 \cup P2) = SumOver(kwh, C2) + SumOver(kwh, P2)
  <2>1. \A r \in C2 \cup P2 : kwh[r] \in Int
    BY <1>1, <1>5
  <2> QED BY <1>4, <1>5, <2>1, SumOfUnion
<1>8. SumOver(kwh, rs) = SumOver(kwh, C1 \cup P1) + SumOver(kwh, C2 \cup P2)
  <2>1. PICK D1, D2 : D1 = C1 \cup P1 /\ D2 = C2 \cup P2
    OBVIOUS
  <2>2. IsFiniteSet(D1) /\ IsFiniteSet(D2)
    BY <1>1, <1>5, <2>1, FS_Subset
  <2>3. D1 \cap D2 = {} /\ D1 \cup D2 = rs /\ \A r \in D1 \cup D2 : kwh[r] \in Int
    BY <1>1, <1>5, <2>1
  <2>4. SumOver(kwh, D1 \cup D2) = SumOver(kwh, D1) + SumOver(kwh, D2)
    BY <2>2, <2>3, SumOfUnion
  <2>5. SumOver(kwh, D1 \cup D2) = SumOver(kwh, rs)
    BY <2>3
  <2> QED BY <2>1, <2>4, <2>5
<1> QED BY <1>4, <1>6, <1>7, <1>8

\* The balance of a house in the days of a view.
LEMMA HouseAddsUp ==
    ASSUME ViewIInv, NEW src \in Sources, NEW days, NEW meter \in MeterFiles \union {{}},
           NEW chosen \in SUBSET Devices
    PROVE  LET rs == SlotUsage(src, days)
               measured == RestSlots(src, meter, days)
               net(t) == DeviceNet(rs, Devices, t)
           IN  GroupsKwh(rs, chosen) + GroupsKwh(rs, Devices \ chosen)
                   - ProductionKwh(rs, chosen) - ProductionKwh(rs, Devices \ chosen)
                   + RestOfHouse(src, chosen, meter, days)
               = Total(measured, LAMBDA t : Max({MeterNet(meter, days, t), net(t)}))
                   + Total({r.slot : r \in rs} \ measured, net)
<1>1. PICK rs : rs = SlotUsage(src, days)
  OBVIOUS
<1>2. PICK M : M = RestSlots(src, meter, days)
  OBVIOUS
<1>3. PICK T : T = {r.slot : r \in rs} \ M
  OBVIOUS
<1> DEFINE kwh == [r \in rs |-> Kwh(r)]
           slot == [r \in rs |-> r.slot]
           K == {r.slot : r \in rs} \cup M
           at(t) == {r \in rs : r.slot = t}
           net == [t \in K |-> SumOver(kwh, at(t))]
           rest == [t \in M |-> Max0(MeterNet(meter, days, t) - DeviceNet(rs, chosen, t))]
           most == [t \in M |-> Max({MeterNet(meter, days, t), DeviceNet(rs, Devices, t)})]
           other == [t \in T |-> DeviceNet(rs, Devices, t)]
<1>4. rs \subseteq rows /\ IsFiniteSet(rs)
  <2>1. rs \subseteq rows
    BY <1>1 DEF SlotUsage
  <2> QED BY <2>1, FS_Subset DEF ViewIInv, TablesAreFinite
<1>5. \A r \in rs : kwh[r] \in Int
  <2>1. ASSUME NEW r \in rs PROVE Kwh(r) \in Int
    <3>1. r.file \in Files /\ r.file \in Completed("devices") /\ r.device \in Devices
      BY <1>4, RowsLieInDeviceFiles
    <3>2. saved[r.file].kwh \in [Devices -> Int]
      BY <3>1, DeviceFilesAre
    <3> QED BY <3>1, <3>2 DEF Kwh
  <2> QED BY <2>1
<1>6. IsFiniteSet(M) /\ \A t \in M : MeterNet(meter, days, t) \in Int
  <2>1. meter \subseteq Completed("meter")
    BY DEF MeterFiles
  <2>2. M \subseteq DOMAIN MergedReadings(meter, days)
    BY <1>2 DEF RestSlots
  <2> QED BY <2>1, <2>2, MeterNetIsNumber, FS_Subset
<1>7. IsFiniteSet({r.slot : r \in rs})
  <2>1. {r.slot : r \in rs} = {slot[r] : r \in rs}
    OBVIOUS
  <2>2. IsFiniteSet({slot[r] : r \in rs})
    <3> HIDE DEF slot
    <3> QED BY <1>4, ImageIsFinite
  <2> QED BY <2>1, <2>2
<1>8. IsFiniteSet(K) /\ IsFiniteSet(T) /\ M \cap T = {} /\ M \cup T = K
  <2>1. IsFiniteSet(T)
    BY <1>3, <1>7, FS_Subset
  <2>2. IsFiniteSet(K)
    BY <1>6, <1>7, FS_Union
  <2> QED BY <1>3, <2>1, <2>2
<1>9. ASSUME NEW t, NEW ds
      PROVE  DeviceNet(rs, ds, t) = SumOver(kwh, at(t)) /\ SumOver(kwh, at(t)) \in Int
  <2>1. DeviceNet(rs, ds, t) = SumOver(kwh, at(t))
    <3>1. [r \in at(t) |-> Kwh(r)] = [r \in at(t) |-> kwh[r]]
      OBVIOUS
    <3>2. DeviceNet(rs, ds, t) = SumFunction([r \in at(t) |-> Kwh(r)])
      BY DEF DeviceNet, Total
    <3> QED BY <3>1, <3>2 DEF SumOver
  <2>2. IsFiniteSet(at(t)) /\ \A r \in at(t) : kwh[r] \in Int
    <3>1. at(t) \subseteq rs
      OBVIOUS
    <3> QED BY <1>4, <1>5, <3>1, FS_Subset
  <2> HIDE DEF kwh, at
  <2> QED BY <2>1, <2>2, SumIsNumber
<1>10. SumOver(kwh, rs) = SumOver(net, K)
  <2>1. \A r \in rs : slot[r] \in K
    OBVIOUS
  <2>2. \A t \in K : {r \in rs : slot[r] = t} = at(t)
    OBVIOUS
  <2>3. net = [t \in K |-> SumOver(kwh, {r \in rs : slot[r] = t})]
    BY <2>2
  <2> HIDE DEF kwh, slot, K, net
  <2> QED BY <1>4, <1>5, <1>8, <2>1, <2>3, SumByKey
<1>11. \A t \in K : net[t] = DeviceNet(rs, Devices, t) /\ net[t] = DeviceNet(rs, chosen, t) /\ net[t] \in Int
  BY <1>9
<1>12. SumOver(net, K) = SumOver(net, M) + SumOver(net, T)
  <2>1. \A t \in M \cup T : net[t] \in Int
    BY <1>8, <1>11
  <2> HIDE DEF net, K
  <2>2. SumOver(net, M \cup T) = SumOver(net, M) + SumOver(net, T)
    BY <1>6, <1>8, <2>1, SumOfUnion
  <2>3. SumOver(net, M \cup T) = SumOver(net, K)
    BY <1>8
  <2> QED BY <2>2, <2>3
<1>13. \A t \in M : net[t] \in Int /\ rest[t] \in Int /\ most[t] = net[t] + rest[t]
  <2> SUFFICES ASSUME NEW t \in M
               PROVE  net[t] \in Int /\ rest[t] \in Int /\ most[t] = net[t] + rest[t]
    OBVIOUS
  <2>1. PICK m \in Int, n \in Int : m = MeterNet(meter, days, t) /\ n = net[t]
    BY <1>6, <1>8, <1>11
  <2>2. n = DeviceNet(rs, Devices, t) /\ n = DeviceNet(rs, chosen, t)
    BY <1>8, <1>11, <2>1
  <2>3. rest[t] = Max0(m - n) /\ most[t] = Max({m, n})
    BY <2>1, <2>2
  <2>4. Max({m, n}) = IF m >= n THEN m ELSE n
    BY DEF Max
  <2> HIDE DEF rest, most, net
  <2> QED BY <2>1, <2>3, <2>4 DEF Max0
<1>14. \A t \in T : other[t] = net[t]
  BY <1>8, <1>11
<1>15. RestOfHouse(src, chosen, meter, days) = SumOver(rest, M)
  BY <1>1, <1>2 DEF RestOfHouse, Total, SumOver
<1>16. Total(M, LAMBDA t : Max({MeterNet(meter, days, t), DeviceNet(rs, Devices, t)})) = SumOver(most, M)
  BY DEF Total, SumOver
<1>17. Total(T, LAMBDA t : DeviceNet(rs, Devices, t)) = SumOver(other, T)
  BY DEF Total, SumOver
<1>18. GroupsKwh(rs, chosen) + GroupsKwh(rs, Devices \ chosen)
           - ProductionKwh(rs, chosen) - ProductionKwh(rs, Devices \ chosen)
         = SumOver(kwh, rs)
  <2>1. kwh = [r \in rs |-> Kwh(r)]
    OBVIOUS
  <2> HIDE DEF kwh
  <2> QED BY <1>4, <2>1, DevicesAddUp
<1> HIDE DEF kwh, net, rest, most, other, K
<1>19. SumOver(most, M) = SumOver(net, M) + SumOver(rest, M)
  BY <1>6, <1>13, SumOfTwo
<1>20. SumOver(other, T) = SumOver(net, T)
  BY <1>14, SumOfSame
<1>21. SumOver(net, M) \in Int /\ SumOver(rest, M) \in Int /\ SumOver(net, T) \in Int
  <2>1. \A t \in T : net[t] \in Int
    BY <1>8, <1>11
  <2> QED BY <1>6, <1>8, <1>13, <2>1, SumIsNumber
<1>22. SumOver(kwh, rs) + SumOver(rest, M) = SumOver(most, M) + SumOver(other, T)
  BY <1>10, <1>12, <1>19, <1>20, <1>21
<1> QED BY <1>1, <1>2, <1>3, <1>15, <1>16, <1>17, <1>18, <1>22

\* The chosen devices, the others and the rest of the house make up the meter, or
\* the devices where these use more.
THEOREM HouseIsWhole == ViewSpec => []TheHouseAddsUp
<1>1. ViewIInv => TheHouseAddsUp
  BY HouseAddsUp DEF TheHouseAddsUp
<1> QED BY <1>1, FilesKeepWhatTheyBrought, PTL
----------------------------------------------------------------------------
(* Merged prices.                                                          *)

Slots == 0 .. (SlotsPerDay - 1)

\* The files that know the price of a slot of a day, and what the newest of them says.
Knowing(s, day, x) == {f \in s : day \in DOMAIN PricesOf(f) /\ PricesOf(f)[day][x] # NoPrice}
NewestPrice(s, day, x) ==
    IF Knowing(s, day, x) = {} THEN NoPrice ELSE PricesOf(Max(Knowing(s, day, x)))[day][x]
NewestPrices(s) ==
    [day \in UNION {DOMAIN PricesOf(f) : f \in s} |-> [x \in Slots |-> NewestPrice(s, day, x)]]

\* A file added to the prices of older ones.
PricesAt(merged, day) == IF day \in DOMAIN merged THEN merged[day] ELSE [x \in Slots |-> NoPrice]
WithPricesOf(merged, f) ==
    Updated(merged, [day \in DOMAIN PricesOf(f) |-> KnownPrices(PricesAt(merged, day), PricesOf(f)[day])])
PricesStep(I, D) ==
    [s \in SUBSET D |-> IF s = {} THEN <<>> ELSE WithPricesOf(I[s \ {Max(s)}], Max(s))]

WholeDays(f) == \A day \in DOMAIN PricesOf(f) : DOMAIN PricesOf(f)[day] = Slots

\* The newest file that knows a price, with a file newer than the others.
LEMMA KnowingWithNewest ==
    ASSUME NEW s, IsFiniteSet(s), s # {}, s \subseteq Int, NEW day, NEW x
    PROVE  NewestPrice(s, day, x) =
              IF Max(s) \in Knowing(s, day, x) THEN PricesOf(Max(s))[day][x]
              ELSE NewestPrice(s \ {Max(s)}, day, x)
<1> DEFINE K == Knowing(s, day, x)
<1>1. Max(s) \in s /\ \A f \in s : f <= Max(s)
  BY GreatestExists
<1>2. K \subseteq s
  BY DEF Knowing
<1>3. ASSUME Max(s) \in K PROVE Max(K) = Max(s)
  <2>1. IsFiniteSet(K) /\ K # {} /\ K \subseteq Int
    BY <1>2, <1>3, FS_Subset
  <2> HIDE DEF K
  <2>2. Max(K) \in K /\ Max(s) <= Max(K)
    BY <1>3, <2>1, GreatestExists
  <2>3. Max(K) <= Max(s) /\ Max(K) \in Int /\ Max(s) \in Int
    BY <1>1, <1>2, <2>2
  <2> QED BY <2>2, <2>3
<1>4. ASSUME Max(s) \notin K PROVE K = Knowing(s \ {Max(s)}, day, x)
  BY <1>4 DEF Knowing
<1> HIDE DEF K
<1>5. CASE Max(s) \in K
  <2>1. K # {}
    BY <1>5
  <2> QED BY <1>3, <1>5, <2>1 DEF NewestPrice, K
<1>6. CASE Max(s) \notin K
  BY <1>4, <1>6 DEF NewestPrice, K
<1> QED BY <1>5, <1>6

LEMMA NewestPricesWithNewest ==
    ASSUME NEW s, IsFiniteSet(s), s # {}, s \subseteq Int, \A f \in s : WholeDays(f)
    PROVE  NewestPrices(s) = WithPricesOf(NewestPrices(s \ {Max(s)}), Max(s))
<1>1. PICK m \in s : m = Max(s)
  BY GreatestExists
<1>2. PICK r : r = s \ {m} /\ s = r \cup {m}
  <2>1. s = (s \ {m}) \cup {m}
    BY <1>1
  <2> QED BY <2>1, Zenon
<1>3. PICK old : old = NewestPrices(r)
  OBVIOUS
<1> DEFINE new == [day \in DOMAIN PricesOf(m) |-> KnownPrices(PricesAt(old, day), PricesOf(m)[day])]
           days(u) == UNION {DOMAIN PricesOf(f) : f \in u}
<1>4. days(s) = days(r) \cup DOMAIN PricesOf(m)
  BY <1>2
<1>5. DOMAIN old = days(r) /\ \A day \in days(r) : old[day] = [x \in Slots |-> NewestPrice(r, day, x)]
  BY <1>3 DEF NewestPrices
<1>6. ASSUME NEW day, day \notin days(r) PROVE \A x : NewestPrice(r, day, x) = NoPrice
  <2>1. \A x : Knowing(r, day, x) = {}
    BY <1>6 DEF Knowing
  <2> QED BY <2>1 DEF NewestPrice
<1> HIDE DEF days
<1>7. ASSUME NEW day PROVE PricesAt(old, day) = [x \in Slots |-> NewestPrice(r, day, x)]
  BY <1>5, <1>6 DEF PricesAt
<1>8. \A day, x : NewestPrice(s, day, x) =
                      IF m \in Knowing(s, day, x) THEN PricesOf(m)[day][x] ELSE NewestPrice(r, day, x)
  BY <1>1, <1>2, KnowingWithNewest
<1>9. \A day, x : m \in Knowing(s, day, x) <=>
                      day \in DOMAIN PricesOf(m) /\ PricesOf(m)[day][x] # NoPrice
  BY DEF Knowing
<1>10. ASSUME NEW day \in DOMAIN PricesOf(m)
       PROVE  new[day] = [x \in Slots |-> NewestPrice(s, day, x)]
  <2>1. DOMAIN PricesOf(m)[day] = Slots
    BY DEF WholeDays
  <2>2. new[day] = [x \in Slots |-> IF PricesOf(m)[day][x] # NoPrice THEN PricesOf(m)[day][x]
                                    ELSE NewestPrice(r, day, x)]
    BY <1>7, <2>1 DEF KnownPrices
  <2> HIDE DEF new
  <2> QED BY <1>8, <1>9, <2>2
<1>11. ASSUME NEW day \in days(r), day \notin DOMAIN PricesOf(m)
       PROVE  old[day] = [x \in Slots |-> NewestPrice(s, day, x)]
  BY <1>5, <1>8, <1>9, <1>11
<1>12. DOMAIN new = DOMAIN PricesOf(m) /\ WithPricesOf(old, m) = Updated(old, new)
  BY DEF WithPricesOf
<1> HIDE DEF new
<1>13. Updated(old, new) = [day \in days(s) |-> [x \in Slots |-> NewestPrice(s, day, x)]]
  BY <1>4, <1>5, <1>10, <1>11, <1>12 DEF Updated
<1> QED BY <1>1, <1>2, <1>3, <1>12, <1>13 DEF NewestPrices, days

\* The recursive merge gives what the newest file that knows each price says.
LEMMA MergedAreNewest ==
    ASSUME NEW D, IsFiniteSet(D), D \subseteq Int, \A f \in D : WholeDays(f)
    PROVE  MergePrices(D) = NewestPrices(D)
<1> DEFINE G == CHOOSE I : I = PricesStep(I, D)
           N == [s \in SUBSET D |-> NewestPrices(s)]
<1>1. MergePrices(D) = G[D]
  BY DEF MergePrices, OldestFirst, MapThenFoldSet, PricesStep, WithPricesOf, PricesAt, Slots
<1>2. NewestPrices({}) = <<>>
  BY DEF NewestPrices
<1>3. ASSUME NEW s \in SUBSET D, s # {}
      PROVE  /\ s \ {Max(s)} \in SUBSET D /\ s \ {Max(s)} # s
             /\ NewestPrices(s) = WithPricesOf(NewestPrices(s \ {Max(s)}), Max(s))
  <2>1. IsFiniteSet(s) /\ s \subseteq Int /\ \A f \in s : WholeDays(f)
    BY FS_Subset
  <2>2. Max(s) \in s
    BY <1>3, <2>1, GreatestExists
  <2>3. NewestPrices(s) = WithPricesOf(NewestPrices(s \ {Max(s)}), Max(s))
    BY <1>3, <2>1, NewestPricesWithNewest
  <2> QED BY <2>2, <2>3
<1>4. N = PricesStep(N, D)
  BY <1>2, <1>3 DEF PricesStep
<1>5. G = PricesStep(G, D)
  BY <1>4
<1> HIDE DEF G
<1> DEFINE C == {s \in SUBSET D : G[s] = NewestPrices(s)}
<1>6. ASSUME NEW s \in SUBSET D, \A u \in SUBSET s : u # s => u \in C PROVE s \in C
  <2>1. CASE s = {}
    BY <1>2, <1>5, <2>1 DEF PricesStep
  <2>2. CASE s # {}
    <3>1. s \ {Max(s)} \in C
      BY <1>3, <1>6, <2>2
    <3>2. G[s] = WithPricesOf(G[s \ {Max(s)}], Max(s))
      BY <1>5, <2>2 DEF PricesStep
    <3> QED BY <1>3, <2>2, <3>1, <3>2
  <2> QED BY <2>1, <2>2
<1>7. \A s \in SUBSET D : s \in C
  <2> HIDE DEF C
  <2> QED BY <1>6, InductByPart
<1> QED BY <1>1, <1>7

\* What a file leaves, by the readings of its import.
ReadingsOf(i) == IF Source(i) = "meter" THEN MeterReadings(i) ELSE DeviceReadings(i)
SeriesOf(i) == [t \in DOMAIN ReadingsOf(i) |-> ReadingsOf(i)[t].used]
ResolutionOf(i) == IF Source(i) = "meter" THEN Resolution(i.rows) ELSE Missing
ByDayOf(i) == SlotPrices(i, DaysOf(SeriesOf(i)))
SummaryOf(i) == Summarize(SeriesOf(i), ByDayOf(i), i.flat, ResolutionOf(i))

LEMMA StoresIs ==
    ASSUME NEW i
    PROVE  /\ Stores(i).readings = ReadingsOf(i)
           /\ Stores(i).results.usage = SeriesOf(i)
           /\ Stores(i).results.byDay = ByDayOf(i)
           /\ Stores(i).results.flat = i.flat
           /\ Stores(i).results.resolution = ResolutionOf(i)
           /\ Source(i) # "meter" => Stores(i).results.summary = SummaryOf(i)
           /\ Source(i) = "meter" =>
                 /\ Stores(i).results.report = Report(i.rows)
                 /\ Stores(i).results.summary = [SummaryOf(i) EXCEPT !.records = Cardinality(Records(i.rows))]
           /\ Stores(i).start = Stores(i).results.summary.start
           /\ Stores(i).end = Stores(i).results.summary.end
           /\ Stores(i).rows = i.rows
<1>1. PICK readings : readings = ReadingsOf(i)
  OBVIOUS
<1>2. PICK usage : usage = [t \in DOMAIN readings |-> readings[t].used]
  OBVIOUS
<1>3. PICK resolution : resolution = ResolutionOf(i)
  OBVIOUS
<1>4. PICK results : results = Results(i, usage, resolution)
  OBVIOUS
<1>5. Stores(i) = [source |-> Source(i), kwh |-> i.kwh, readings |-> readings, results |-> results,
                   start |-> results.summary.start, end |-> results.summary.end, rows |-> i.rows]
  BY <1>1, <1>2, <1>3, <1>4 DEF Stores, ReadingsOf, ResolutionOf
<1>6. /\ Stores(i).readings = readings /\ Stores(i).results = results
      /\ Stores(i).start = results.summary.start /\ Stores(i).end = results.summary.end
      /\ Stores(i).rows = i.rows
  BY <1>5
<1>7. usage = SeriesOf(i)
  BY <1>1, <1>2 DEF SeriesOf
<1>8. PICK byDay : byDay = ByDayOf(i)
  OBVIOUS
<1>9. PICK summary : summary = SummaryOf(i)
  OBVIOUS
<1>10. results = [usage |-> usage, byDay |-> byDay, flat |-> i.flat, resolution |-> resolution,
                  report |-> IF Source(i) = "meter" THEN Report(i.rows) ELSE Missing,
                  summary |-> IF Source(i) = "meter"
                              THEN [summary EXCEPT !.records = Cardinality(Records(i.rows))]
                              ELSE summary]
  BY <1>3, <1>4, <1>7, <1>8, <1>9 DEF Results, ByDayOf, SummaryOf
<1> QED BY <1>1, <1>3, <1>6, <1>7, <1>8, <1>9, <1>10

LEMMA StoredIs ==
    ASSUME ViewIInv, NEW source \in {"meter", "devices"}, NEW f \in Completed(source)
    PROVE  \E i \in Imports : /\ Accepted(i) /\ Source(i) = source
                              /\ saved[f] = Stores(i) /\ KeepsImport(f, i)
<1>1. f \in Files /\ status[f] = "completed" /\ saved[f].source = source
  BY DEF Completed
<1>2. PICK i \in Imports : Accepted(i) /\ KeepsImport(f, i)
  BY <1>1 DEF ViewIInv, FilesKeepImports
<1>3. saved[f] = Stores(i) /\ Source(i) = source
  BY <1>1, <1>2, StoresUsage DEF KeepsImport
<1> QED BY <1>2, <1>3

\* The quarter-hours of an import are numbered, finite in number, and some.
LEMMA UsageIsSome ==
    ASSUME NEW i \in Imports, Accepted(i)
    PROVE  /\ IsFiniteSet(DOMAIN SeriesOf(i)) /\ DOMAIN SeriesOf(i) # {} /\ DOMAIN SeriesOf(i) \subseteq Int
           /\ \A t \in DOMAIN SeriesOf(i) : SeriesOf(i)[t] \in Int
<1>1. CASE Source(i) = "meter"
  <2>1. ReadingsOf(i) = MeterReadings(i)
    BY <1>1 DEF ReadingsOf
  <2>2. DOMAIN MeterReadings(i) # {}
    <3>1. DatedRows(i.rows) # {} /\ Resolution(i.rows) \in Nat \ {0}
      BY <1>1, ResolutionIsNumber DEF Accepted, MeterFileAccepted
    <3>2. PICK t : t \in Ends(i.rows)
      <4>1. Readings(i.rows) # {}
        BY <3>1, SomeReadings
      <4> QED BY <4>1 DEF Ends
    <3>3. PICK r : r \in Records(i.rows)
      BY <3>2, RecordsAre
    <3>4. 0 \in 0 .. (Resolution(i.rows) - 1)
      BY <3>1
    <3>5. <<r, 0>> \in Places(i)
      BY <3>3, <3>4 DEF Places
    <3>6. QuarterHours(i) # {}
      BY <3>5, PartsAre
    <3> QED BY <3>6 DEF MeterReadings
  <2>3. /\ IsFiniteSet(DOMAIN MeterReadings(i)) /\ DOMAIN MeterReadings(i) \subseteq Int
        /\ \A t \in DOMAIN MeterReadings(i) : MeterReadings(i)[t].used \in Int
    BY <1>1, MeterReadingsAreNumbers
  <2> QED BY <2>1, <2>2, <2>3 DEF SeriesOf
<1>2. CASE Source(i) # "meter"
  <2>1. ReadingsOf(i) = DeviceReadings(i)
    BY <1>2 DEF ReadingsOf
  <2>2. i.content.period \in Period /\ i.content.period.start < i.content.period.end
    BY ImportsAssumption, ContentsAssumption
  <2>3. DOMAIN DeviceReadings(i) = i.content.period.start .. (i.content.period.end - 1)
    BY DEF DeviceReadings
  <2>4. IsFiniteSet(i.content.period.start .. (i.content.period.end - 1))
    BY <2>2, FS_Interval DEF Period
  <2>5. i.content.period.start \in i.content.period.start .. (i.content.period.end - 1)
    BY <2>2 DEF Period
  <2>6. ASSUME NEW t \in DOMAIN DeviceReadings(i) PROVE DeviceReadings(i)[t].used \in Int
    <3>1. Balance(i, t) \in Int
      BY <1>2, BalanceIsNumber
    <3> QED BY <3>1 DEF DeviceReadings, Max0
  <2>7. DOMAIN SeriesOf(i) = i.content.period.start .. (i.content.period.end - 1)
    BY <2>1, <2>3 DEF SeriesOf
  <2>8. \A t \in DOMAIN SeriesOf(i) : SeriesOf(i)[t] \in Int
    BY <2>1, <2>6 DEF SeriesOf
  <2> QED BY <2>2, <2>4, <2>5, <2>7, <2>8 DEF Period
<1> QED BY <1>1, <1>2

\* The days of an import are numbered, finite in number, and some; its range is that
\* of its days.
LEMMA DaysAreSome ==
    ASSUME NEW i \in Imports, Accepted(i)
    PROVE  /\ IsFiniteSet(DaysOf(SeriesOf(i))) /\ DaysOf(SeriesOf(i)) # {}
           /\ DaysOf(SeriesOf(i)) \subseteq Int
           /\ Stores(i).start = Min(DaysOf(SeriesOf(i)))
           /\ Stores(i).end = Max(DaysOf(SeriesOf(i)))
<1>1. PICK T : T = DOMAIN SeriesOf(i)
  OBVIOUS
<1>2. IsFiniteSet(T) /\ T # {} /\ T \subseteq Int
  BY <1>1, UsageIsSome
<1> DEFINE day == [t \in T |-> Day(t)]
<1>3. DaysOf(SeriesOf(i)) = {day[t] : t \in T}
  BY <1>1 DEF DaysOf
<1>4. \A t \in T : day[t] \in Int
  BY <1>2, SlotsPerDayAssumption DEF Day
<1> HIDE DEF day
<1>5. IsFiniteSet({day[t] : t \in T})
  BY <1>2, ImageIsFinite
<1>6. SummaryOf(i).start = Min(DaysOf(SeriesOf(i))) /\ SummaryOf(i).end = Max(DaysOf(SeriesOf(i)))
  BY <1>1, <1>2 DEF SummaryOf, Summarize, LastDay
<1>7. /\ Stores(i).results.summary.start = SummaryOf(i).start
      /\ Stores(i).results.summary.end = SummaryOf(i).end
  <2>1. CASE Source(i) # "meter"
    BY <2>1, StoresIs
  <2>2. CASE Source(i) = "meter"
    <3>1. Stores(i).results.summary = [SummaryOf(i) EXCEPT !.records = Cardinality(Records(i.rows))]
      BY <2>2, StoresIs
    <3> QED BY <3>1
  <2> QED BY <2>1, <2>2
<1>8. DaysOf(SeriesOf(i)) # {} /\ DaysOf(SeriesOf(i)) \subseteq Int
  BY <1>2, <1>3, <1>4
<1>9. Stores(i).start = Min(DaysOf(SeriesOf(i))) /\ Stores(i).end = Max(DaysOf(SeriesOf(i)))
  BY <1>6, <1>7, StoresIs
<1> QED BY <1>3, <1>5, <1>8, <1>9

\* What a completed file keeps of prices: whole days, those of its series.
LEMMA StoredPrices ==
    ASSUME ViewIInv, NEW source \in {"meter", "devices"}, NEW f \in Completed(source)
    PROVE  WholeDays(f) /\ DOMAIN Usage(f) \subseteq Int /\ DOMAIN PricesOf(f) = DaysOf(Usage(f))
<1>1. PICK i \in Imports : Accepted(i) /\ saved[f] = Stores(i)
  BY StoredIs
<1>2. Usage(f) = SeriesOf(i) /\ PricesOf(f) = SlotPrices(i, DaysOf(SeriesOf(i)))
  BY <1>1, StoresIs DEF Usage, PricesOf, ByDayOf
<1>3. DOMAIN PricesOf(f) = DaysOf(Usage(f))
  BY <1>2 DEF SlotPrices
<1>4. WholeDays(f)
  BY <1>2 DEF WholeDays, SlotPrices, Slots
<1> QED BY <1>1, <1>2, <1>3, <1>4, UsageIsSome

LEMMA PricesArePreserved == ViewIInv => PricedStaysPriced
<1> SUFFICES ASSUME ViewIInv, NEW source \in {"meter", "devices"}, NEW f \in MergedOf(source),
                    NEW t \in DOMAIN Usage(f),
                    {g \in MergedOf(source) : PriceAt(PricesOf(g), t) # NoPrice} # {}
             PROVE  PriceAt(MergePrices(MergedOf(source)), t) =
                       PriceAt(PricesOf(Max({g \in MergedOf(source) :
                                                 PriceAt(PricesOf(g), t) # NoPrice})), t)
  BY DEF PricedStaysPriced
<1>1. PICK D : D = MergedOf(source)
  OBVIOUS
<1>2. D \subseteq Completed(source)
  BY <1>1 DEF MergedOf
<1>3. IsFiniteSet(D) /\ D \subseteq Int
  BY <1>2, CompletedAreFinite, FS_Subset
<1>4. \A g \in D : WholeDays(g) /\ DOMAIN Usage(g) \subseteq Int
  BY <1>2, StoredPrices
<1>5. MergePrices(D) = NewestPrices(D)
  BY <1>3, <1>4, MergedAreNewest
<1>6. PICK day : day = Day(t)
  OBVIOUS
<1>7. PICK x \in Slots : x = SlotOfDay(t)
  <2>1. t \in Int
    BY <1>1, <1>4
  <2>2. SlotOfDay(t) \in Slots
    BY <2>1, SlotsPerDayAssumption DEF SlotOfDay, Slots
  <2> QED BY <2>2
<1>8. {g \in D : PriceAt(PricesOf(g), t) # NoPrice} = Knowing(D, day, x)
  BY <1>6, <1>7 DEF PriceAt, Knowing
<1>9. PICK m : m = Max(Knowing(D, day, x))
  OBVIOUS
<1>10. m \in Knowing(D, day, x)
  <2>1. Knowing(D, day, x) \subseteq D /\ Knowing(D, day, x) # {}
    BY <1>1, <1>8 DEF Knowing
  <2>2. IsFiniteSet(Knowing(D, day, x)) /\ Knowing(D, day, x) \subseteq Int
    BY <1>3, <2>1, FS_Subset
  <2> QED BY <1>9, <2>1, <2>2, GreatestExists
<1>11. m \in D /\ day \in DOMAIN PricesOf(m)
  BY <1>10 DEF Knowing
<1>12. day \in DOMAIN NewestPrices(D) /\ NewestPrices(D)[day][x] = PricesOf(m)[day][x]
  BY <1>9, <1>10, <1>11 DEF NewestPrices, NewestPrice
<1>13. PriceAt(NewestPrices(D), t) = PriceAt(PricesOf(m), t)
  BY <1>6, <1>7, <1>11, <1>12 DEF PriceAt
<1> QED BY <1>1, <1>5, <1>8, <1>9, <1>13

\* No upload and no deletion takes a price from the merged view that the newest file
\* knowing it brought, however many newer files have days without prices.
THEOREM KnownPriceIsShown == ViewSpec => []PricedStaysPriced
<1> QED BY FilesKeepWhatTheyBrought, PricesArePreserved, PTL

----------------------------------------------------------------------------
(* A file shows what it brought: device files.                             *)

LEMMA SumScaled ==
    ASSUME NEW T, IsFiniteSet(T), NEW c \in Int, NEW f, NEW g,
           \A x \in T : f[x] \in Int /\ g[x] = f[x] * c
    PROVE  SumOver(g, T) = SumOver(f, T) * c
<1> DEFINE C == {s \in SUBSET T : SumOver(g, s) = SumOver(f, s) * c}
<1>1. \A x \in T : f[x] * c \in Int
  OBVIOUS
<1>2. {} \in C
  BY SumOfNone
<1>3. ASSUME NEW s \in SUBSET T, NEW x \in T, s \in C, x \notin s PROVE s \cup {x} \in C
  <2>1. /\ IsFiniteSet(s) /\ Numbers(f, s \cup {x}) /\ Numbers(g, s \cup {x})
        /\ x \notin s /\ f[x] \in Int /\ g[x] = f[x] * c /\ SumOver(g, s) = SumOver(f, s) * c
    BY <1>1, <1>3, FS_Subset DEF Numbers
  <2> HIDE DEF C
  <2>2. SumOver(f, s \cup {x}) = SumOver(f, s) + f[x] /\ SumOver(f, s) \in Int
    BY <2>1, SumStep
  <2>3. SumOver(g, s \cup {x}) = SumOver(g, s) + g[x] /\ SumOver(g, s) \in Int
    BY <2>1, SumStep
  <2>4. \A a, b \in Int : (a + b) * c = a * c + b * c
    OBVIOUS
  <2>5. SumOver(g, s \cup {x}) = SumOver(f, s \cup {x}) * c
    BY <2>1, <2>2, <2>3, <2>4
  <2> QED BY <2>5 DEF C
<1>4. T \in C
  <2> HIDE DEF C
  <2> QED BY <1>2, <1>3, InductByElement
<1> QED BY <1>4

\* The rows of a device file are those of its import, inside its series.
RowsOfFile(f) == {r \in rows : r.file = f}

LEMMA OwnRows ==
    ASSUME ViewIInv, NEW f \in MergedOf("devices"), NEW i \in Imports,
           Accepted(i), saved[f] = Stores(i), Source(i) = "devices", KeepsImport(f, i)
    PROVE  /\ SlotUsage(OneFile(f), AllDays) = RowsOfFile(f)
           /\ RowsOfFile(f) = RowsOf(f, i.content) /\ IsFiniteSet(RowsOfFile(f))
           /\ \A r \in RowsOfFile(f) : /\ r \in Row /\ r.file = f /\ r.slot \in DOMAIN SeriesOf(i)
                                       /\ Kwh(r) = i.kwh[r.device] /\ Kwh(r) \in Int
<1>1. f \in Files /\ f \in Completed("devices")
  BY DEF MergedOf, Completed
<1>2. Usage(f) = SeriesOf(i)
  BY StoresIs DEF Usage
<1>3. RowsOfFile(f) = RowsOf(f, i.content)
  BY DEF KeepsImport, RowsOfFile
<1>4. \A t : t \in DOMAIN Usage(f) <=> t \in Int /\ Within(period[f], t)
  BY <1>1, DeviceFilesAre
<1>5. saved[f].kwh = i.kwh /\ i.kwh \in [Devices -> Int]
  BY ImportsAssumption, StoresUsage
<1>6. ASSUME NEW r \in RowsOfFile(f)
      PROVE  /\ r \in Row /\ r.file = f /\ r.slot \in DOMAIN SeriesOf(i)
             /\ Kwh(r) = i.kwh[r.device] /\ Kwh(r) \in Int
  <2>1. r \in rows /\ r.file = f
    BY DEF RowsOfFile
  <2>2. r \in Row /\ r.slot \in Int /\ Within(period[f], r.slot) /\ r.device \in Devices
    BY <2>1, RowsLieInDeviceFiles DEF ViewIInv, IInv, TypeOK
  <2> QED BY <1>2, <1>4, <1>5, <2>1, <2>2 DEF Kwh
<1>7. saved[f] # NotSaved
  BY NotSavedAssumption
<1>8. \A r \in RowsOfFile(f) : Day(r.slot) \in AllDays
  <2>1. \A t \in DOMAIN Usage(f) : Day(t) \in AllDays
    BY <1>1, <1>7 DEF AllDays, DaysOf
  <2> QED BY <1>2, <1>6, <2>1
<1>9. SlotUsage(OneFile(f), AllDays) = RowsOfFile(f)
  BY <1>8 DEF SlotUsage, OneFile, RowsOfFile
<1>10. IsFiniteSet(RowsOfFile(f))
  BY FS_Subset DEF RowsOfFile, ViewIInv, TablesAreFinite
<1> QED BY <1>3, <1>6, <1>9, <1>10

\* The rows in a quarter-hour add up to the balance that the import computed.
KwhOfRows(f) == [r \in RowsOfFile(f) |-> Kwh(r)]
RowsAt(f, t) == {r \in RowsOfFile(f) : r.slot = t}

LEMMA OwnBalance ==
    ASSUME ViewIInv, NEW f \in MergedOf("devices"), NEW i \in Imports,
           Accepted(i), saved[f] = Stores(i), Source(i) = "devices", KeepsImport(f, i), NEW t
    PROVE  /\ Balance(i, t) = SumOver(KwhOfRows(f), RowsAt(f, t))
           /\ t \in DOMAIN SeriesOf(i) => SeriesOf(i)[t] = Max0(SumOver(KwhOfRows(f), RowsAt(f, t)))
<1> DEFINE S == {u \in i.content.usage : u.slot = t}
           kwh == [u \in S |-> i.kwh[u.device]]
           row == [u \in S |-> [file |-> f, device |-> u.device, slot |-> u.slot]]
<1>1. i.content.usage \subseteq [device : Devices, slot : Int] /\ i.kwh \in [Devices -> Int]
  BY ImportsAssumption, ContentsAssumption
<1>2. /\ RowsOfFile(f) = RowsOf(f, i.content) /\ IsFiniteSet(RowsOfFile(f))
      /\ \A r \in RowsOfFile(f) : Kwh(r) = i.kwh[r.device] /\ Kwh(r) \in Int
  BY OwnRows
<1>3. RowsAt(f, t) = {row[u] : u \in S}
  <2>1. ASSUME NEW u \in S PROVE row[u] \in RowsAt(f, t)
    <3>1. row[u] = [file |-> f, device |-> u.device, slot |-> u.slot] /\ u \in i.content.usage /\ u.slot = t
      OBVIOUS
    <3>2. row[u] \in RowsOfFile(f) /\ row[u].slot = t
      BY <1>2, <3>1 DEF RowsOf
    <3> QED BY <3>2 DEF RowsAt
  <2>2. ASSUME NEW r \in RowsAt(f, t) PROVE \E u \in S : r = row[u]
    <3>1. r \in RowsOf(f, i.content) /\ r.slot = t
      BY <1>2 DEF RowsAt
    <3>2. PICK u \in i.content.usage : r = [file |-> f, device |-> u.device, slot |-> u.slot]
      BY <3>1 DEF RowsOf
    <3> QED BY <3>1, <3>2
  <2> HIDE DEF S, row
  <2> QED BY <2>1, <2>2
<1>4. \A u, v \in S : row[u] = row[v] => u = v
  <2> SUFFICES ASSUME NEW u \in S, NEW v \in S, row[u] = row[v] PROVE u = v
    OBVIOUS
  <2>1. row[u].device = row[v].device /\ row[u].slot = row[v].slot
    OBVIOUS
  <2>2. u.device = v.device /\ u.slot = v.slot
    BY <2>1
  <2> QED BY <1>1, <2>2
<1>5. \A u \in S : row[u] \in RowsOfFile(f) /\ kwh[u] = KwhOfRows(f)[row[u]] /\ KwhOfRows(f)[row[u]] \in Int
  <2>1. \A u \in S : row[u] \in RowsOfFile(f) /\ row[u].device = u.device
    BY <1>3 DEF RowsAt
  <2> QED BY <1>2, <2>1 DEF KwhOfRows
<1>6. IsFiniteSet(S)
  <2> DEFINE use == [d \in Devices |-> [device |-> d, slot |-> t]]
  <2>1. S \subseteq {use[d] : d \in Devices}
    BY <1>1
  <2> HIDE DEF use
  <2>2. IsFiniteSet({use[d] : d \in Devices})
    BY DevicesAssumption, ImageIsFinite
  <2> QED BY <2>1, <2>2, FS_Subset
<1>7. Balance(i, t) = SumOver(kwh, S)
  BY DEF Balance, Total, SumOver
<1> HIDE DEF S, kwh, row
<1>8. PICK k : k = KwhOfRows(f)
  OBVIOUS
<1>9. SumOver(kwh, S) = SumOver(k, {row[u] : u \in S})
  <2>1. /\ \A u \in S : k[row[u]] \in Int
        /\ \A u \in S : kwh[u] = k[row[u]]
    BY <1>5, <1>8
  <2> QED BY <1>4, <1>6, <2>1, SumAt
<1>10. Balance(i, t) = SumOver(KwhOfRows(f), RowsAt(f, t))
  BY <1>3, <1>7, <1>8, <1>9
<1>11. t \in DOMAIN SeriesOf(i) => SeriesOf(i)[t] = Max0(Balance(i, t))
  BY DEF SeriesOf, ReadingsOf, DeviceReadings
<1> QED BY <1>10, <1>11

RowsCost(f, price) == [r \in RowsOfFile(f) |-> Kwh(r) * price[r.slot]]
SeriesCost(i, P, price) == [t \in P |-> SeriesOf(i)[t] * price[t]]
OnlyConsumes(f) == \A r \in RowsOfFile(f) : Kwh(r) >= 0

\* A file that only consumes: its rows priced one by one cost what its series costs.
LEMMA OwnCost ==
    ASSUME ViewIInv, NEW f \in MergedOf("devices"), NEW i \in Imports,
           Accepted(i), saved[f] = Stores(i), Source(i) = "devices", KeepsImport(f, i),
           OnlyConsumes(f), NEW P, P \subseteq DOMAIN SeriesOf(i), NEW price, Numbers(price, P)
    PROVE  SumOver(RowsCost(f, price), {r \in RowsOfFile(f) : r.slot \in P})
              = SumOver(SeriesCost(i, P, price), P)
<1>1. PICK rs : rs = RowsOfFile(f)
  OBVIOUS
<1>2. PICK kwh : kwh = KwhOfRows(f)
  OBVIOUS
<1> PICK cost : cost = RowsCost(f, price)
  OBVIOUS
<1> PICK series : series = SeriesCost(i, P, price)
  OBVIOUS
<1>3. /\ IsFiniteSet(rs)
      /\ \A r \in rs : kwh[r] = Kwh(r) /\ kwh[r] \in Int /\ kwh[r] >= 0
  BY <1>1, <1>2, OwnRows DEF KwhOfRows, OnlyConsumes
<1> DEFINE A == {r \in rs : r.slot \in P}
           slot == [r \in A |-> r.slot]
           at(t) == {r \in rs : r.slot = t}
           byTime == [t \in P |-> SumOver(cost, {r \in A : slot[r] = t})]
<1>4. IsFiniteSet(A) /\ \A r \in A : slot[r] \in P /\ cost[r] = kwh[r] * price[r.slot] /\ cost[r] \in Int
  <2>1. \A r \in A : kwh[r] \in Int /\ price[r.slot] \in Int
    BY <1>3 DEF Numbers
  <2>2. \A a, b \in Int : a * b \in Int
    OBVIOUS
  <2> QED BY <1>1, <1>3, <2>1, <2>2, FS_Subset DEF RowsCost
<1>5. IsFiniteSet(P)
  BY UsageIsSome, FS_Subset
<1>6. SumOver(cost, A) = SumOver(byTime, P)
  <2>1. /\ IsFiniteSet(A)
        /\ \A r \in A : slot[r] \in P
        /\ \A r \in A : cost[r] \in Int
    BY <1>4
  <2>2. byTime = [t \in P |-> SumOver(cost, {r \in A : slot[r] = t})]
    OBVIOUS
  <2> HIDE DEF A, slot, byTime
  <2> QED BY <1>5, <2>1, <2>2, SumByKey
<1>7. ASSUME NEW t \in P PROVE SumOver(cost, {r \in A : slot[r] = t}) = series[t]
  <2>1. PICK here : here = {r \in A : slot[r] = t}
    OBVIOUS
  <2>2. here = at(t) /\ IsFiniteSet(here) /\ here \subseteq rs
    BY <1>3, <2>1, FS_Subset
  <2>3. price[t] \in Int /\ \A r \in here : kwh[r] \in Int /\ cost[r] = kwh[r] * price[t]
    BY <1>3, <1>4, <2>1 DEF Numbers
  <2>4. PICK p \in Int : p = price[t]
    BY <2>3
  <2>5. SumOver(cost, here) = SumOver(kwh, here) * p
    BY <2>2, <2>3, <2>4, SumScaled
  <2>6. SeriesOf(i)[t] = Max0(SumOver(kwh, here))
    BY <1>1, <1>2, <2>2, OwnBalance DEF RowsAt
  <2>7. SumOver(kwh, here) \in Int /\ SumOver(kwh, here) >= 0
    BY <1>3, <2>2, SumIsNumber, SumIsPositive
  <2>8. SeriesOf(i)[t] = SumOver(kwh, here)
    BY <2>6, <2>7 DEF Max0
  <2> QED BY <2>1, <2>4, <2>5, <2>8 DEF SeriesCost
<1>8. byTime = series
  BY <1>7 DEF SeriesCost
<1> QED BY <1>1, <1>6, <1>8

LEMMA PricesAreNumbers ==
    ASSUME NEW i \in Imports, Accepted(i), NEW t \in DOMAIN SeriesOf(i)
    PROVE  PriceAt(ByDayOf(i), t) \in Int \union {NoPrice} /\ i.flat[SlotOfDay(t)] \in Int
<1>1. t \in Int
  BY UsageIsSome
<1>2. SlotOfDay(t) \in 0 .. (SlotsPerDay - 1)
  BY <1>1, SlotsPerDayAssumption DEF SlotOfDay
<1>3. Day(t) \in DaysOf(SeriesOf(i))
  BY DEF DaysOf
<1>4. PICK days : days = DaysOf(SeriesOf(i))
  OBVIOUS
<1>5. PICK n : n = Day(t) * SlotsPerDay + SlotOfDay(t)
  OBVIOUS
<1>6. SlotPrices(i, days)[Day(t)][SlotOfDay(t)] = IF n \in DOMAIN i.known THEN i.known[n] ELSE NoPrice
  BY <1>2, <1>3, <1>4, <1>5 DEF SlotPrices
<1>7. Day(t) \in DOMAIN SlotPrices(i, days)
  BY <1>3, <1>4 DEF SlotPrices
<1>8. PriceAt(ByDayOf(i), t) = IF n \in DOMAIN i.known THEN i.known[n] ELSE NoPrice
  BY <1>4, <1>6, <1>7 DEF PriceAt, ByDayOf
<1> QED BY <1>2, <1>8, ImportsAssumption

\* The series of a file is the import of its rows.
LEMMA OwnSeries ==
    ASSUME ViewIInv, NEW f \in MergedOf("devices"), NEW i \in Imports,
           Accepted(i), saved[f] = Stores(i), Source(i) = "devices", KeepsImport(f, i),
           NEW t \in DOMAIN SeriesOf(i)
    PROVE  SeriesOf(i)[t] = GridImport(RowsOfFile(f), t)
<1>1. PICK k : k = KwhOfRows(f)
  OBVIOUS
<1>2. \A r \in RowsAt(f, t) : k[r] = saved[r.file].kwh[r.device]
  BY <1>1 DEF KwhOfRows, Kwh, RowsAt
<1>3. [r \in RowsAt(f, t) |-> saved[r.file].kwh[r.device]] = [r \in RowsAt(f, t) |-> k[r]]
  BY <1>2
<1>4. GridImport(RowsOfFile(f), t) = Max0(SumFunction([r \in RowsAt(f, t) |-> saved[r.file].kwh[r.device]]))
  BY DEF GridImport, RowsAt, Total
<1>5. SeriesOf(i)[t] = Max0(SumOver(k, RowsAt(f, t)))
  BY <1>1, OwnBalance
<1> QED BY <1>3, <1>4, <1>5 DEF SumOver

LEMMA OwnConsumption ==
    ASSUME ViewIInv, NEW f \in MergedOf("devices"), NEW i \in Imports,
           Accepted(i), saved[f] = Stores(i), Source(i) = "devices", KeepsImport(f, i),
           Produced(RowsOfFile(f), Devices) = {}
    PROVE  /\ OnlyConsumes(f) /\ Consumed(RowsOfFile(f), Devices) = RowsOfFile(f)
           /\ GroupsKwh(RowsOfFile(f), Devices) = SumOver(KwhOfRows(f), RowsOfFile(f))
<1>1. \A r \in RowsOfFile(f) : r.device \in Devices /\ Kwh(r) \in Int
  BY OwnRows DEF Row
<1>2. \A r \in RowsOfFile(f) : Kwh(r) >= 0
  BY <1>1 DEF Produced
<1>3. Consumed(RowsOfFile(f), Devices) = RowsOfFile(f)
  BY <1>1, <1>2 DEF Consumed
<1>4. [r \in RowsOfFile(f) |-> Kwh(r)] = [r \in RowsOfFile(f) |-> KwhOfRows(f)[r]]
  BY DEF KwhOfRows
<1>5. GroupsKwh(RowsOfFile(f), Devices) = SumFunction([r \in RowsOfFile(f) |-> Kwh(r)])
  BY <1>3 DEF GroupsKwh, Total
<1> QED BY <1>2, <1>3, <1>4, <1>5 DEF OnlyConsumes, SumOver

\* A number times a positive one, divided by it.
LEMMA DivisionUndoes == ASSUME NEW c \in Int, NEW n \in Nat, n > 0 PROVE (c * n) \div n = c
<1>1. c * n \in Int
  OBVIOUS
<1> QED BY <1>1

\* The rows of a file that only consumes, without missing prices, cost what its
\* dashboard says.
LEMMA OwnEstimate ==
    ASSUME ViewIInv, NEW f \in MergedOf("devices"), NEW i \in Imports,
           Accepted(i), saved[f] = Stores(i), Source(i) = "devices", KeepsImport(f, i),
           Produced(RowsOfFile(f), Devices) = {}, GroupsKwh(RowsOfFile(f), Devices) > 0,
           MissingPriceSlots(RowsOfFile(f), Devices, ByDayOf(i)) = {}
    PROVE  GroupsCost(RowsOfFile(f), Devices, ByDayOf(i)) = EstimatedCost(SeriesOf(i), ByDayOf(i))
<1>1. PICK rs : rs = RowsOfFile(f)
  OBVIOUS
<1>2. PICK kwh : kwh = KwhOfRows(f)
  OBVIOUS
<1>3. PICK byDay : byDay = ByDayOf(i)
  OBVIOUS
<1>4. PICK usage : usage = SeriesOf(i)
  OBVIOUS
<1>5. PICK T : T = DOMAIN usage
  OBVIOUS
<1> DEFINE price == [t \in T |-> PriceAt(byDay, t)]
           P == {t \in T : PriceAt(byDay, t) # NoPrice}
           free == T \ P
<1>6. /\ IsFiniteSet(T) /\ T \subseteq Int /\ \A t \in T : usage[t] \in Int
      /\ \A t \in T : PriceAt(byDay, t) \in Int \union {NoPrice}
  BY <1>3, <1>4, <1>5, UsageIsSome, PricesAreNumbers
<1>7. OnlyConsumes(f) /\ Consumed(rs, Devices) = rs /\ SumOver(kwh, rs) > 0
  BY <1>1, <1>2, OwnConsumption
<1>8. /\ IsFiniteSet(rs)
      /\ \A r \in rs : /\ r.slot \in T /\ r.device \in Devices
                       /\ kwh[r] = Kwh(r) /\ kwh[r] \in Int /\ kwh[r] >= 0
  BY <1>1, <1>2, <1>4, <1>5, <1>7, OwnRows DEF Row, KwhOfRows, OnlyConsumes
<1>9. \A r \in rs : r.slot \notin P => kwh[r] = 0
  <2> SUFFICES ASSUME NEW r \in rs, r.slot \notin P, kwh[r] # 0 PROVE FALSE
    OBVIOUS
  <2>1. r.slot \in T /\ PriceAt(byDay, r.slot) = NoPrice /\ Kwh(r) > 0
    BY <1>8
  <2>2. r \in MissingPriceSlots(rs, Devices, byDay)
    BY <1>7, <2>1 DEF MissingPriceSlots
  <2> QED BY <1>1, <1>3, <2>2
<1>10. ASSUME NEW t \in T
       PROVE  /\ usage[t] >= 0
              /\ (\A r \in RowsAt(f, t) : kwh[r] = 0) => usage[t] = 0
  <2>1. usage[t] = Max0(SumOver(kwh, RowsAt(f, t)))
    BY <1>2, <1>4, <1>5, OwnBalance
  <2>2. RowsAt(f, t) \subseteq rs
    BY <1>1 DEF RowsAt
  <2>3. PICK here : here = RowsAt(f, t)
    OBVIOUS
  <2>4. IsFiniteSet(here) /\ \A r \in here : kwh[r] \in Int
    BY <1>8, <2>2, <2>3, FS_Subset
  <2>5. SumOver(kwh, here) \in Int
    BY <2>4, SumIsNumber
  <2>6. (\A r \in here : kwh[r] = 0) => SumOver(kwh, here) = 0
    BY <2>4, SumOfZeros
  <2> QED BY <2>1, <2>3, <2>5, <2>6 DEF Max0
<1>11. \A t \in free : usage[t] = 0
  <2> SUFFICES ASSUME NEW t \in free PROVE \A r \in RowsAt(f, t) : kwh[r] = 0
    BY <1>10
  <2>1. \A r \in RowsAt(f, t) : r \in rs /\ r.slot \notin P
    BY <1>1 DEF RowsAt
  <2> QED BY <1>9, <2>1
<1>12. P # {}
  <2> SUFFICES ASSUME P = {} PROVE FALSE
    OBVIOUS
  <2>1. \A r \in rs : kwh[r] = 0
    BY <1>9
  <2> QED BY <1>7, <1>8, <2>1, SumOfZeros
<1>13. /\ P \subseteq T /\ IsFiniteSet(P) /\ IsFiniteSet(free) /\ P \cup free = T /\ P \cap free = {}
       /\ Numbers(price, P) /\ \A t \in P : price[t] = PriceAt(byDay, t)
  BY <1>6, FS_Subset DEF Numbers
<1>14. \A t \in T : t \in P <=> PriceAt(byDay, t) # NoPrice
  OBVIOUS
<1>15. P = {t \in DOMAIN usage : PriceAt(byDay, t) # NoPrice}
  BY <1>5
<1> HIDE DEF P, price, free
<1>16. SumOver(RowsCost(f, price), {r \in rs : r.slot \in P}) = SumOver(SeriesCost(i, P, price), P)
  BY <1>1, <1>4, <1>5, <1>7, <1>13, OwnCost
<1>17. GroupsCost(rs, Devices, byDay) = SumOver(RowsCost(f, price), {r \in rs : r.slot \in P})
  <2> DEFINE A == {r \in rs : r.slot \in P}
  <2>1. {r \in Consumed(rs, Devices) : PriceAt(byDay, r.slot) # NoPrice} = A
    BY <1>7, <1>8, <1>14
  <2>2. \A r \in A : RowsCost(f, price)[r] = Kwh(r) * PriceAt(byDay, r.slot)
    BY <1>1, <1>13 DEF RowsCost
  <2> HIDE DEF A
  <2>3. [r \in A |-> Kwh(r) * PriceAt(byDay, r.slot)] = [r \in A |-> RowsCost(f, price)[r]]
    BY <2>2
  <2>4. GroupsCost(rs, Devices, byDay) = SumFunction([r \in A |-> Kwh(r) * PriceAt(byDay, r.slot)])
    BY <2>1 DEF GroupsCost, Total
  <2>5. GroupsCost(rs, Devices, byDay) = SumOver(RowsCost(f, price), A)
    BY <2>3, <2>4 DEF SumOver
  <2> QED BY <2>5 DEF A
<1>18. PICK cost : cost = SumOver(SeriesCost(i, P, price), P)
  OBVIOUS
<1>19. Total(P, LAMBDA t : usage[t] * PriceAt(byDay, t)) = cost
  <2>1. [t \in P |-> usage[t] * PriceAt(byDay, t)] = [t \in P |-> SeriesCost(i, P, price)[t]]
    BY <1>4, <1>13 DEF SeriesCost
  <2> QED BY <1>18, <2>1 DEF SumOver, Total
<1>20. SumOver(usage, P) = Total(P, LAMBDA t : usage[t]) /\ SumOver(usage, T) = Total(T, LAMBDA t : usage[t])
  BY DEF SumOver, Total
<1>21. SumOver(usage, T) = SumOver(usage, P) /\ SumOver(usage, P) \in Int
  <2>1. \A t \in P : usage[t] \in Int
    BY <1>6, <1>13
  <2>2. \A t \in P \cup free : usage[t] \in Int
    BY <1>6, <1>13
  <2>3. SumOver(usage, free) = 0
    BY <1>11, <1>13, SumOfZeros
  <2>4. SumOver(usage, P \cup free) = SumOver(usage, P) + SumOver(usage, free)
    BY <1>13, <2>2, SumOfUnion
  <2>5. SumOver(usage, P) \in Int
    BY <1>13, <2>1, SumIsNumber
  <2>6. SumOver(usage, P \cup free) = SumOver(usage, T)
    BY <1>13, Zenon
  <2> QED BY <2>3, <2>4, <2>5, <2>6
<1>22. cost \in Int
  <2>1. \A t \in P : SeriesCost(i, P, price)[t] \in Int
    <3>1. \A t \in P : usage[t] \in Int /\ price[t] \in Int
      BY <1>6, <1>13 DEF Numbers
    <3>2. \A a, b \in Int : a * b \in Int
      OBVIOUS
    <3> QED BY <1>4, <3>1, <3>2 DEF SeriesCost
  <2> QED BY <1>13, <1>18, <2>1, SumIsNumber
<1>23. EstimatedCost(usage, byDay) =
          IF P # T /\ SumOver(usage, P) > 0 THEN (cost * SumOver(usage, T)) \div SumOver(usage, P)
          ELSE cost
  BY <1>5, <1>12, <1>15, <1>19, <1>20 DEF EstimatedCost
<1>24. EstimatedCost(usage, byDay) = cost
  BY <1>21, <1>22, <1>23, DivisionUndoes
<1> QED BY <1>1, <1>3, <1>4, <1>16, <1>17, <1>18, <1>24

LEMMA OwnFlatCost ==
    ASSUME ViewIInv, NEW f \in MergedOf("devices"), NEW i \in Imports,
           Accepted(i), saved[f] = Stores(i), Source(i) = "devices", KeepsImport(f, i),
           Produced(RowsOfFile(f), Devices) = {}
    PROVE  GroupsFlatCost(RowsOfFile(f), Devices, i.flat) = FlatCost(SeriesOf(i), i.flat)
<1>1. PICK rs : rs = RowsOfFile(f)
  OBVIOUS
<1>2. PICK usage : usage = SeriesOf(i)
  OBVIOUS
<1>3. PICK T : T = DOMAIN usage
  OBVIOUS
<1>4. PICK flat : flat = i.flat
  OBVIOUS
<1> DEFINE price == [t \in T |-> flat[SlotOfDay(t)]]
<1>5. OnlyConsumes(f) /\ Consumed(rs, Devices) = rs
  BY <1>1, OwnConsumption
<1>6. \A r \in rs : r.slot \in T
  BY <1>1, <1>2, <1>3, OwnRows
<1>7. Numbers(price, T) /\ \A t \in T : price[t] = flat[SlotOfDay(t)]
  BY <1>2, <1>3, <1>4, PricesAreNumbers DEF Numbers
<1>8. {r \in rs : r.slot \in T} = rs
  BY <1>6
<1> HIDE DEF price
<1>9. SumOver(RowsCost(f, price), {r \in rs : r.slot \in T}) = SumOver(SeriesCost(i, T, price), T)
  BY <1>1, <1>2, <1>3, <1>5, <1>7, OwnCost
<1>10. [r \in rs |-> Kwh(r) * flat[SlotOfDay(r.slot)]] = [r \in rs |-> RowsCost(f, price)[r]]
  BY <1>1, <1>6, <1>7 DEF RowsCost
<1>11. [t \in T |-> usage[t] * flat[SlotOfDay(t)]] = [t \in T |-> SeriesCost(i, T, price)[t]]
  BY <1>2, <1>7 DEF SeriesCost
<1>12. GroupsFlatCost(rs, Devices, flat) = SumOver(RowsCost(f, price), rs)
  BY <1>5, <1>10 DEF GroupsFlatCost, Total, SumOver
<1>13. FlatCost(usage, flat) = SumOver(SeriesCost(i, T, price), T)
  BY <1>3, <1>11 DEF FlatCost, Total, SumOver
<1> QED BY <1>1, <1>2, <1>4, <1>8, <1>9, <1>12, <1>13

LEMMA DeviceViewKeepsImport ==
    ASSUME ViewIInv, NEW f \in MergedOf("devices")
    PROVE  DeviceViewIsItsImport(f)
<1>1. f \in Completed("devices")
  BY DEF MergedOf
<1>2. PICK i \in Imports : /\ Accepted(i) /\ Source(i) = "devices"
                           /\ saved[f] = Stores(i) /\ KeepsImport(f, i)
  BY <1>1, StoredIs
<1>3. PICK rs : rs = RowsOfFile(f)
  OBVIOUS
<1>4. SlotUsage(OneFile(f), AllDays) = rs /\ \A r \in rs : r.slot \in DOMAIN SeriesOf(i)
  BY <1>2, <1>3, OwnRows
<1>5. PICK own : own = saved[f].results
  OBVIOUS
<1>6. own.usage = SeriesOf(i) /\ own.byDay = ByDayOf(i) /\ own.flat = i.flat /\ own.summary = SummaryOf(i)
  BY <1>2, <1>5, StoresIs
<1>7. SummaryOf(i).estimatedCost = EstimatedCost(SeriesOf(i), ByDayOf(i))
      /\ SummaryOf(i).flatCost = FlatCost(SeriesOf(i), i.flat)
  BY <1>2, UsageIsSome DEF SummaryOf, Summarize
<1>8. {r.slot : r \in rs} \subseteq DOMAIN own.usage
  BY <1>4, <1>6
<1>9. \A t \in DOMAIN own.usage : own.usage[t] = GridImport(rs, t)
  BY <1>2, <1>3, <1>6, OwnSeries
<1>10. Produced(rs, Devices) = {} /\ GroupsKwh(rs, Devices) > 0 =>
          /\ MissingPriceSlots(rs, Devices, own.byDay) = {} =>
                GroupsCost(rs, Devices, own.byDay) = own.summary.estimatedCost
          /\ GroupsFlatCost(rs, Devices, own.flat) = own.summary.flatCost
  <2>1. ASSUME Produced(rs, Devices) = {}, GroupsKwh(rs, Devices) > 0,
               MissingPriceSlots(rs, Devices, own.byDay) = {}
        PROVE  GroupsCost(rs, Devices, own.byDay) = own.summary.estimatedCost
    BY <1>2, <1>3, <1>6, <1>7, <2>1, OwnEstimate
  <2>2. ASSUME Produced(rs, Devices) = {}
        PROVE  GroupsFlatCost(rs, Devices, own.flat) = own.summary.flatCost
    BY <1>2, <1>3, <1>6, <1>7, <2>2, OwnFlatCost
  <2> QED BY <2>1, <2>2
<1> QED BY <1>4, <1>5, <1>8, <1>9, <1>10 DEF DeviceViewIsItsImport

----------------------------------------------------------------------------
(* A file shows what it brought: meter files.                              *)

LEMMA ImageCardinality ==
    ASSUME NEW S, IsFiniteSet(S), NEW f, \A x, y \in S : f[x] = f[y] => x = y
    PROVE  Cardinality({f[x] : x \in S}) = Cardinality(S)
<1> DEFINE image == {f[x] : x \in S}
           g == [x \in S |-> f[x]]
<1>1. g \in Injection(S, image) /\ g \in Surjection(S, image)
  BY DEF Injection, IsInjective, Surjection
<1>2. ExistsBijection(S, image)
  BY <1>1 DEF ExistsBijection, Bijection
<1> HIDE DEF image
<1> QED BY <1>2, FS_Bijection DEF image

LEMMA SumOfConstant ==
    ASSUME NEW T, IsFiniteSet(T), NEW c \in Int, NEW f, \A x \in T : f[x] = c
    PROVE  SumOver(f, T) = Cardinality(T) * c
<1> DEFINE C == {s \in SUBSET T : SumOver(f, s) = Cardinality(s) * c}
<1>1. {} \in C
  BY SumOfNone, FS_EmptySet
<1>2. ASSUME NEW s \in SUBSET T, NEW x \in T, s \in C, x \notin s PROVE s \cup {x} \in C
  <2>1. /\ IsFiniteSet(s) /\ Numbers(f, s \cup {x})
        /\ x \notin s /\ f[x] = c /\ SumOver(f, s) = Cardinality(s) * c
    BY <1>2, FS_Subset DEF Numbers
  <2> HIDE DEF C
  <2>2. SumOver(f, s \cup {x}) = SumOver(f, s) + f[x] /\ SumOver(f, s) \in Int
    BY <2>1, SumStep
  <2>3. Cardinality(s \cup {x}) = Cardinality(s) + 1 /\ Cardinality(s) \in Nat
    BY <2>1, FS_AddElement, FS_CardinalityType
  <2>4. \A a \in Int : (a + 1) * c = a * c + c
    OBVIOUS
  <2>5. SumOver(f, s \cup {x}) = Cardinality(s \cup {x}) * c
    BY <2>1, <2>2, <2>3, <2>4
  <2> QED BY <2>5 DEF C
<1>3. T \in C
  <2> HIDE DEF C
  <2> QED BY <1>1, <1>2, InductByElement
<1> QED BY <1>3

\* Different readings once: the readings of a kind, or the pairs of time and value.
OfKind(rs, kind) == {r \in Readings(rs) : r.kind = kind}
PairsOf(rs, kind) == {<<r.end, r.kwh>> : r \in {q \in DatedRows(rs) : q.kind = kind}}

LEMMA PairsAreReadings ==
    ASSUME NEW i \in Imports, NEW kind \in {"consumption", "export"}
    PROVE  Total(PairsOf(i.rows, kind), LAMBDA p : p[2]) = SumOver(KwhOf(i.rows), OfKind(i.rows, kind))
<1>1. PICK A : A = OfKind(i.rows, kind)
  OBVIOUS
<1> DEFINE pair == [r \in A |-> <<r.end, r.kwh>>]
           second == [p \in PairsOf(i.rows, kind) |-> p[2]]
<1>2. A \subseteq Readings(i.rows) /\ IsFiniteSet(A) /\ \A r \in A : r.kwh \in Int
  BY <1>1, ReadingsAreNumbers, FS_Subset DEF OfKind
<1>3. \A r \in A : r \in DatedRows(i.rows) /\ r \in i.rows /\ r.kind = kind
  BY <1>1 DEF OfKind, Readings, DatedRows, ValidRows, EnergyRows
<1>4. {pair[r] : r \in A} = PairsOf(i.rows, kind)
  <2>1. ASSUME NEW r \in A PROVE pair[r] \in PairsOf(i.rows, kind)
    BY <1>3 DEF PairsOf
  <2>2. ASSUME NEW p \in PairsOf(i.rows, kind) PROVE \E r \in A : p = pair[r]
    <3>1. PICK r \in DatedRows(i.rows) : r.kind = kind /\ p = <<r.end, r.kwh>>
      BY DEF PairsOf
    <3>2. PICK q \in Readings(i.rows) : q.end = r.end /\ q.kwh = r.kwh /\ Export(q) = Export(r)
      BY FirstIsReading
    <3>3. Consumption(q) \/ Export(q)
      BY DEF Readings, DatedRows, ValidRows, EnergyRows
    <3>4. q.kind = kind
      BY <3>1, <3>2, <3>3 DEF Consumption, Export
    <3> QED BY <1>1, <3>1, <3>2, <3>4 DEF OfKind
  <2> QED BY <2>1, <2>2
<1>5. \A r, q \in A : pair[r] = pair[q] => r = q
  <2> SUFFICES ASSUME NEW r \in A, NEW q \in A, r.end = q.end, r.kwh = q.kwh, r # q PROVE FALSE
    OBVIOUS
  <2>1. r.line \in Int /\ q.line \in Int /\ r.line # q.line
    BY <1>3, ImportsAssumption
  <2>2. r.kind = q.kind
    BY <1>3
  <2>3. ~Repeats(r, q) /\ ~Repeats(q, r)
    BY <1>2, <1>3 DEF Readings
  <2> QED BY <2>1, <2>2, <2>3 DEF Repeats, Export
<1>6. \A r \in A : second[pair[r]] = r.kwh /\ KwhOf(i.rows)[r] = r.kwh /\ r.kwh \in Int
  BY <1>2, <1>4 DEF KwhOf
<1>7. Total(PairsOf(i.rows, kind), LAMBDA p : p[2]) = SumOver(second, PairsOf(i.rows, kind))
  BY DEF Total, SumOver
<1> HIDE DEF pair, second
<1>8. PICK kwh : kwh = KwhOf(i.rows)
  OBVIOUS
<1>9. SumOver(kwh, A) = SumOver(second, {pair[r] : r \in A})
  <2>1. (\A r \in A : second[pair[r]] \in Int) /\ (\A r \in A : kwh[r] = second[pair[r]])
    BY <1>6, <1>8
  <2> QED BY <1>2, <1>5, <2>1, SumAt
<1> QED BY <1>1, <1>4, <1>7, <1>8, <1>9

\* The records of a file have the energy of its readings of a kind.
ToKind(rs, kind, t) == {r \in Readings(rs) : r.end = t /\ r.kind = kind}

LEMMA EndsAreNumbers ==
    ASSUME NEW i \in Imports
    PROVE  IsFiniteSet(Ends(i.rows)) /\ Ends(i.rows) \subseteq Int
<1> DEFINE end == [r \in Readings(i.rows) |-> r.end]
<1>1. IsFiniteSet(Readings(i.rows)) /\ \A r \in Readings(i.rows) : r.end \in Int
  BY ReadingsAreNumbers
<1>2. IsFiniteSet({end[r] : r \in Readings(i.rows)})
  <2> HIDE DEF end
  <2> QED BY <1>1, ImageIsFinite
<1>3. Ends(i.rows) = {end[r] : r \in Readings(i.rows)}
  BY DEF Ends
<1> QED BY <1>1, <1>2, <1>3 DEF Ends

IsEnergyOf(v, rs, kind) ==
    \A t \in Ends(rs) : v[RecordTo(rs, t)] = SumOver(KwhOf(rs), ToKind(rs, kind, t))

LEMMA RecordsHaveReadings ==
    ASSUME NEW i \in Imports, Resolution(i.rows) \in Int, NEW kind \in {"consumption", "export"},
           NEW v, IsEnergyOf(v, i.rows, kind)
    PROVE  SumOver(v, Records(i.rows)) = SumOver(KwhOf(i.rows), OfKind(i.rows, kind))
<1>1. PICK A : A = OfKind(i.rows, kind)
  OBVIOUS
<1>2. PICK kwh : kwh = KwhOf(i.rows)
  OBVIOUS
<1>3. PICK T : T = Ends(i.rows)
  OBVIOUS
<1> DEFINE end == [r \in A |-> r.end]
           record == [t \in T |-> RecordTo(i.rows, t)]
           by == [t \in T |-> SumOver(kwh, {r \in A : end[r] = t})]
<1>4. /\ IsFiniteSet(A) /\ A \subseteq Readings(i.rows)
      /\ \A r \in A : kwh[r] \in Int
      /\ \A r \in A : end[r] \in T
  BY <1>1, <1>2, <1>3, ReadingsAreNumbers, FS_Subset DEF OfKind, KwhOf, Ends
<1>5. IsFiniteSet(T) /\ T \subseteq Int
  BY <1>3, EndsAreNumbers
<1>6. \A t \in T : {r \in A : end[r] = t} = ToKind(i.rows, kind, t)
  BY <1>1 DEF OfKind, ToKind
<1>7. by = [t \in T |-> SumOver(kwh, {r \in A : end[r] = t})]
  OBVIOUS
<1>8. \A t \in T : by[t] = v[record[t]] /\ by[t] \in Int
  <2> SUFFICES ASSUME NEW t \in T PROVE by[t] = v[record[t]] /\ by[t] \in Int
    OBVIOUS
  <2>1. PICK here : here = {r \in A : end[r] = t}
    OBVIOUS
  <2>2. IsFiniteSet(here) /\ \A r \in here : kwh[r] \in Int
    BY <1>4, <2>1, FS_Subset
  <2>3. SumOver(kwh, here) \in Int
    BY <2>2, SumIsNumber
  <2>4. v[record[t]] = SumOver(kwh, here)
    BY <1>2, <1>3, <1>6, <2>1 DEF IsEnergyOf
  <2> QED BY <2>1, <2>3, <2>4
<1>9. \A t, u \in T : record[t] = record[u] => t = u
  <2> SUFFICES ASSUME NEW t \in T, NEW u \in T, record[t] = record[u] PROVE t = u
    OBVIOUS
  <2>1. record[t].start = t - Resolution(i.rows) /\ record[u].start = u - Resolution(i.rows)
    BY DEF RecordTo
  <2> QED BY <1>5, <2>1
<1>10. Records(i.rows) = {record[t] : t \in T}
  BY <1>3, RecordsAre
<1> HIDE DEF end, record, by
<1>11. SumOver(kwh, A) = SumOver(by, T)
  <2>1. /\ IsFiniteSet(A)
        /\ \A r \in A : end[r] \in T
        /\ \A r \in A : kwh[r] \in Int
    BY <1>4
  <2>2. IsFiniteSet(T)
    BY <1>5
  <2> QED BY <1>7, <2>1, <2>2, SumByKey
<1>12. SumOver(by, T) = SumOver(v, {record[t] : t \in T})
  <2>1. /\ \A t \in T : v[record[t]] \in Int
        /\ \A t \in T : by[t] = v[record[t]]
    BY <1>8
  <2>2. IsFiniteSet(T)
    BY <1>5
  <2> QED BY <1>9, <2>1, <2>2, SumAt
<1> QED BY <1>1, <1>2, <1>10, <1>11, <1>12

\* Readings lie at least the resolution apart.
LEMMA MultiplesAreLarge ==
    ASSUME NEW n \in Nat \ {0}, NEW m \in Nat \ {0}, n % m = 0
    PROVE  n >= m
<1> SUFFICES ASSUME n < m PROVE FALSE
  OBVIOUS
<1>1. n % m = n
  OBVIOUS
<1> QED BY <1>1

LEMMA EndsLieApart ==
    ASSUME NEW i \in Imports, Source(i) = "meter", Accepted(i),
           NEW a \in Ends(i.rows), NEW b \in Ends(i.rows), a < b
    PROVE  b - a >= Resolution(i.rows)
<1> DEFINE ends == Ends(i.rows)
           later == {u \in ends : u > a}
<1>1. IsFiniteSet(ends) /\ ends \subseteq Int
  BY EndsAreNumbers
<1>2. IsFiniteSet(later) /\ later \subseteq Int /\ b \in later
  BY <1>1, FS_Subset
<1>3. PICK c \in later : \A u \in later : c <= u
  <2> HIDE DEF later
  <2> QED BY <1>2, LeastExists
<1>4. c \in ends /\ c \in Int /\ a \in Int /\ b \in Int /\ c > a /\ c <= b
  BY <1>1, <1>2, <1>3
<1>5. c - a \in Steps(ends)
  <2>1. \A u \in ends : u <= a \/ u >= c
    BY <1>1, <1>3, <1>4
  <2>2. <<a, c>> \in ends \X ends
    BY <1>4
  <2>3. <<a, c>>[1] = a /\ <<a, c>>[2] = c
    OBVIOUS
  <2> HIDE DEF ends
  <2>4. <<a, c>> \in {q \in ends \X ends : q[1] < q[2] /\ \A u \in ends : u <= q[1] \/ u >= q[2]}
    BY <1>4, <2>1, <2>2, <2>3
  <2> QED BY <2>3, <2>4, Zenon DEF Steps
<1>6. PICK res \in Nat \ {0} : res = Resolution(i.rows)
  BY ResolutionIsNumber
<1>7. res \in Resolutions(ends)
  <2>1. Resolutions(ends) # {}
    BY DEF Accepted, MeterFileAccepted
  <2> QED BY <1>6, <2>1 DEF Resolution
<1>8. res = 1 \/ \A s \in Steps(ends) : s % res = 0
  BY <1>7 DEF Resolutions, QuarterHour
<1>9. c - a >= res
  <2>1. CASE res = 1
    BY <1>4, <2>1
  <2>2. CASE \A s \in Steps(ends) : s % res = 0
    <3>1. (c - a) % res = 0 /\ c - a \in Nat \ {0}
      BY <1>4, <1>5, <2>2
    <3> QED BY <3>1, MultiplesAreLarge
  <2> QED BY <1>8, <2>1, <2>2
<1> QED BY <1>4, <1>6, <1>9

\* No quarter-hour belongs to two records.
LEMMA PlacesLieApart ==
    ASSUME NEW i \in Imports, Source(i) = "meter", Accepted(i)
    PROVE  \A p, q \in Places(i) : PartOf(i, p).slot = PartOf(i, q).slot => p = q
<1>1. PICK res \in Nat \ {0} : res = Resolution(i.rows)
  BY ResolutionIsNumber
<1> SUFFICES ASSUME NEW p \in Places(i), NEW q \in Places(i), PartOf(i, p).slot = PartOf(i, q).slot
             PROVE  p = q
  OBVIOUS
<1>2. /\ p[1] \in Records(i.rows) /\ p[2] \in 0 .. (res - 1) /\ p = <<p[1], p[2]>>
      /\ q[1] \in Records(i.rows) /\ q[2] \in 0 .. (res - 1) /\ q = <<q[1], q[2]>>
  BY <1>1 DEF Places
<1>3. p[1].start + p[2] = q[1].start + q[2]
  BY DEF PartOf
<1>4. PICK t \in Ends(i.rows) : p[1] = RecordTo(i.rows, t)
  BY <1>2, RecordsAre
<1>5. PICK u \in Ends(i.rows) : q[1] = RecordTo(i.rows, u)
  BY <1>2, RecordsAre
<1>6. p[1].start = t - res /\ q[1].start = u - res /\ t \in Int /\ u \in Int
  BY <1>1, <1>4, <1>5, EndsAreNumbers DEF RecordTo
<1>7. t < u => u - t >= res
  BY <1>1, EndsLieApart
<1>8. u < t => t - u >= res
  BY <1>1, EndsLieApart
<1>9. t = u
  BY <1>2, <1>3, <1>6, <1>7, <1>8
<1>10. p[2] = q[2]
  BY <1>2, <1>3, <1>6, <1>9
<1> QED BY <1>2, <1>4, <1>5, <1>9, <1>10

\* What a record of a meter file has, split over its quarter-hours.
IsShareOf(w, v, i) ==
    \A p \in Places(i) : w[PartOf(i, p)] = v[p[1]] \div Resolution(i.rows)
IsWhole(v, i) ==
    \A r \in Records(i.rows) : v[r] \in Int /\ v[r] = (v[r] \div Resolution(i.rows)) * Resolution(i.rows)

LEMMA PlacesAreFinite ==
    ASSUME NEW i \in Imports, Source(i) = "meter", Accepted(i)
    PROVE  IsFiniteSet(Places(i)) /\ Cardinality(Places(i)) = Cardinality(Records(i.rows)) * Resolution(i.rows)
<1>1. PICK res \in Nat \ {0} : res = Resolution(i.rows)
  BY ResolutionIsNumber
<1>2. PICK R : R = Records(i.rows)
  OBVIOUS
<1>3. PICK ks : ks = 0 .. (res - 1)
  OBVIOUS
<1>4. IsFiniteSet(ks) /\ Cardinality(ks) = res
  <2>1. Cardinality(0 .. (res - 1)) = IF 0 > res - 1 THEN 0 ELSE (res - 1) - 0 + 1
    BY FS_Interval
  <2>2. IsFiniteSet(0 .. (res - 1))
    BY FS_Interval
  <2> QED BY <1>3, <2>1, <2>2
<1>5. IsFiniteSet(R)
  BY <1>1, <1>2, RecordsAreNumbers
<1>6. IsFiniteSet(R \X ks) /\ Cardinality(R \X ks) = Cardinality(R) * Cardinality(ks)
  BY <1>4, <1>5, FS_Product
<1>7. Places(i) = R \X ks
  BY <1>1, <1>2, <1>3 DEF Places
<1> QED BY <1>1, <1>2, <1>4, <1>6, <1>7

LEMMA RecordsAreSpread ==
    ASSUME NEW i \in Imports, Source(i) = "meter", Accepted(i),
           NEW v, IsWhole(v, i), NEW w, IsShareOf(w, v, i)
    PROVE  SumOver(w, QuarterHours(i)) = SumOver(v, Records(i.rows))
<1>1. PICK res \in Nat \ {0} : res = Resolution(i.rows)
  BY ResolutionIsNumber
<1>2. PICK R : R = Records(i.rows)
  OBVIOUS
<1>3. PICK ps : ps = Places(i)
  OBVIOUS
<1> DEFINE ks == 0 .. (res - 1)
           part == [p \in ps |-> PartOf(i, p)]
           record == [p \in ps |-> p[1]]
           quarter == [r \in R |-> v[r] \div res]
           share == [p \in ps |-> quarter[p[1]]]
           by == [r \in R |-> SumOver(share, {p \in ps : record[p] = r})]
<1>4. ps = R \X ks
  BY <1>1, <1>2, <1>3 DEF Places
<1>5. IsFiniteSet(R) /\ IsFiniteSet(ps)
  BY <1>1, <1>2, <1>3, RecordsAreNumbers, PlacesAreFinite
<1>6. \A r \in R : v[r] \in Int /\ quarter[r] \in Int /\ v[r] = quarter[r] * res
  <2>1. ASSUME NEW r \in R PROVE v[r] \in Int /\ v[r] = (v[r] \div res) * res
    BY <1>1, <1>2 DEF IsWhole
  <2>2. \A a \in Int : a \div res \in Int
    OBVIOUS
  <2> QED BY <2>1, <2>2
<1>7. \A p \in ps : /\ record[p] \in R /\ share[p] = quarter[record[p]] /\ share[p] \in Int
                    /\ w[part[p]] = share[p]
  <2> SUFFICES ASSUME NEW p \in ps
               PROVE  p[1] \in R /\ quarter[p[1]] \in Int /\ w[PartOf(i, p)] = quarter[p[1]]
    OBVIOUS
  <2>1. p[1] \in R
    BY <1>4
  <2> QED BY <1>1, <1>3, <1>6, <2>1 DEF IsShareOf
<1>8. \A p, q \in ps : part[p] = part[q] => p = q
  BY <1>3, PlacesLieApart
<1>9. QuarterHours(i) = {part[p] : p \in ps}
  BY <1>3, PartsAre
<1>10. by = [r \in R |-> SumOver(share, {p \in ps : record[p] = r})]
  OBVIOUS
<1>11. ASSUME NEW r \in R PROVE by[r] = v[r]
  <2> DEFINE place == [k \in ks |-> <<r, k>>]
             here == {p \in ps : record[p] = r}
  <2>1. here = {place[k] : k \in ks}
    <3>1. ASSUME NEW k \in ks PROVE place[k] \in here
      BY <1>4
    <3>2. ASSUME NEW p \in here PROVE p[2] \in ks /\ p = place[p[2]]
      BY <1>4
    <3> HIDE DEF here, place, ks
    <3> QED BY <3>1, <3>2
  <2>2. IsFiniteSet(ks) /\ Cardinality(ks) = res
    <3>1. Cardinality(0 .. (res - 1)) = IF 0 > res - 1 THEN 0 ELSE (res - 1) - 0 + 1
      BY FS_Interval
    <3>2. IsFiniteSet(0 .. (res - 1))
      BY FS_Interval
    <3> QED BY <3>1, <3>2
  <2>3. \A k, l \in ks : place[k] = place[l] => k = l
    OBVIOUS
  <2>4. \A p \in here : share[p] = quarter[r]
    OBVIOUS
  <2>5. IsFiniteSet(here)
    BY <1>5, FS_Subset
  <2>6. by[r] = SumOver(share, here)
    OBVIOUS
  <2>7. PICK c \in Int : c = quarter[r] /\ v[r] = c * res
    BY <1>6
  <2> HIDE DEF here, place, ks, by, share, quarter, record
  <2>8. Cardinality(here) = res
    <3>1. Cardinality({place[k] : k \in ks}) = Cardinality(ks)
      BY <2>2, <2>3, ImageCardinality
    <3> QED BY <2>1, <2>2, <3>1
  <2>9. SumOver(share, here) = Cardinality(here) * c
    <3>1. \A p \in here : share[p] = c
      BY <2>4, <2>7
    <3> QED BY <2>5, <3>1, SumOfConstant
  <2> QED BY <2>6, <2>7, <2>8, <2>9
<1> HIDE DEF by, share, record, part, quarter
<1>12. SumOver(w, {part[p] : p \in ps}) = SumOver(share, ps)
  <2>1. (\A p \in ps : w[part[p]] \in Int) /\ (\A p \in ps : share[p] = w[part[p]])
    BY <1>7
  <2>2. IsFiniteSet(ps)
    BY <1>5
  <2> QED BY <1>8, <2>1, <2>2, SumAt
<1>13. SumOver(share, ps) = SumOver(by, R)
  <2>1. /\ \A p \in ps : record[p] \in R
        /\ \A p \in ps : share[p] \in Int
    BY <1>7
  <2> QED BY <1>5, <1>10, <2>1, SumByKey
<1>14. SumOver(by, R) = SumOver(v, R)
  BY <1>11, SumOfSame
<1> QED BY <1>2, <1>9, <1>12, <1>13, <1>14

\* Readings are whole in the resolution, and so is what any of them have together.
LEMMA ReadingsAreWhole ==
    ASSUME NEW i \in Imports, Source(i) = "meter", Accepted(i), NEW S, S \subseteq Readings(i.rows)
    PROVE  /\ SumOver(KwhOf(i.rows), S) \in Int
           /\ SumOver(KwhOf(i.rows), S) =
                 (SumOver(KwhOf(i.rows), S) \div Resolution(i.rows)) * Resolution(i.rows)
<1>1. PICK res \in Nat \ {0} : res = Resolution(i.rows)
  BY ResolutionIsNumber
<1>2. PICK kwh : kwh = KwhOf(i.rows)
  OBVIOUS
<1> DEFINE quarter == [r \in S |-> kwh[r] \div res]
<1>3. IsFiniteSet(S) /\ \A r \in S : kwh[r] \in Int
  BY <1>2, ReadingsAreNumbers, FS_Subset DEF KwhOf
<1>4. \A r \in S : kwh[r] % res = 0
  BY <1>1, <1>2, ImportsAssumption DEF KwhOf
<1>5. \A a \in Int : a % res = 0 => a \div res \in Int /\ a = (a \div res) * res
  OBVIOUS
<1>6. \A r \in S : quarter[r] \in Int /\ kwh[r] = quarter[r] * res
  BY <1>3, <1>4, <1>5
<1> HIDE DEF quarter
<1>7. PICK q \in Int : q = SumOver(quarter, S)
  BY <1>3, <1>6, SumIsNumber
<1>8. SumOver(kwh, S) = q * res
  <2>1. res \in Int /\ IsFiniteSet(S)
    BY <1>3
  <2>2. SumOver(kwh, S) = SumOver(quarter, S) * res
    BY <1>6, <2>1, SumScaled
  <2> QED BY <1>7, <2>2
<1>9. q * res \in Int /\ (q * res) \div res = q
  BY DivisionUndoes
<1> QED BY <1>1, <1>2, <1>8, <1>9

\* Readings by the quarter have the energy of the quarter-hours.
IsSumOfParts(at, w, i) ==
    \A t \in DOMAIN MeterReadings(i) : at[t] = SumOver(w, {q \in QuarterHours(i) : q.slot = t})

LEMMA ReadingsAddUp ==
    ASSUME NEW i \in Imports, Source(i) = "meter", Accepted(i),
           NEW w, Numbers(w, QuarterHours(i)), NEW at, IsSumOfParts(at, w, i)
    PROVE  SumOver(at, DOMAIN MeterReadings(i)) = SumOver(w, QuarterHours(i))
<1>1. PICK parts : parts = QuarterHours(i)
  OBVIOUS
<1>2. PICK T : T = DOMAIN MeterReadings(i)
  OBVIOUS
<1> DEFINE slot == [q \in parts |-> q.slot]
           part == [p \in Places(i) |-> PartOf(i, p)]
           by == [t \in T |-> SumOver(w, {q \in parts : slot[q] = t})]
<1>3. IsFiniteSet(T)
  BY <1>2, MeterReadingsAreNumbers
<1>4. IsFiniteSet(parts)
  <2>1. parts = {part[p] : p \in Places(i)}
    BY <1>1, PartsAre
  <2>2. IsFiniteSet(Places(i))
    BY PlacesAreFinite
  <2>3. PICK ps : ps = Places(i)
    OBVIOUS
  <2> HIDE DEF part
  <2>4. IsFiniteSet({part[p] : p \in ps})
    BY <2>2, <2>3, ImageIsFinite
  <2> QED BY <2>1, <2>3, <2>4
<1>5. T = {q.slot : q \in parts}
  BY <1>1, <1>2 DEF MeterReadings
<1>6. (\A q \in parts : slot[q] \in T) /\ (\A q \in parts : w[q] \in Int)
  BY <1>1, <1>5 DEF Numbers
<1>7. by = [t \in T |-> SumOver(w, {q \in parts : slot[q] = t})]
  OBVIOUS
<1>8. \A t \in T : by[t] = at[t]
  <2>1. \A t \in T : {q \in parts : slot[q] = t} = {q \in QuarterHours(i) : q.slot = t}
    BY <1>1
  <2> QED BY <1>2, <2>1 DEF IsSumOfParts
<1> HIDE DEF slot, by, part
<1>9. SumOver(w, parts) = SumOver(by, T)
  BY <1>3, <1>4, <1>6, <1>7, SumByKey
<1>10. SumOver(by, T) = SumOver(at, T)
  BY <1>8, SumOfSame
<1> QED BY <1>1, <1>2, <1>9, <1>10

\* Energy of a kind: the pairs of the file, the report and the readings have the same.
LEMMA EnergyIsKept ==
    ASSUME NEW i \in Imports, Source(i) = "meter", Accepted(i), NEW kind \in {"consumption", "export"},
           NEW v, IsEnergyOf(v, i.rows, kind), IsWhole(v, i),
           NEW w, Numbers(w, QuarterHours(i)), IsShareOf(w, v, i), NEW at, IsSumOfParts(at, w, i)
    PROVE  /\ Total(PairsOf(i.rows, kind), LAMBDA p : p[2]) = SumOver(v, Records(i.rows))
           /\ SumOver(v, Records(i.rows)) = SumOver(at, DOMAIN MeterReadings(i))
<1>1. Resolution(i.rows) \in Int
  BY ResolutionIsNumber
<1>2. Total(PairsOf(i.rows, kind), LAMBDA p : p[2]) = SumOver(KwhOf(i.rows), OfKind(i.rows, kind))
  BY PairsAreReadings
<1>3. SumOver(v, Records(i.rows)) = SumOver(KwhOf(i.rows), OfKind(i.rows, kind))
  BY <1>1, RecordsHaveReadings
<1>4. SumOver(w, QuarterHours(i)) = SumOver(v, Records(i.rows))
  BY RecordsAreSpread
<1>5. SumOver(at, DOMAIN MeterReadings(i)) = SumOver(w, QuarterHours(i))
  BY ReadingsAddUp
<1> QED BY <1>2, <1>3, <1>4, <1>5

\* Every row is imported, ignored or skipped.
LEMMA ReportCountsRows ==
    ASSUME NEW i \in Imports, NEW report, report = Report(i.rows)
    PROVE  report.total = report.imported + report.ignored + report.skipped
<1>1. PICK rs : rs = i.rows
  OBVIOUS
<1> DEFINE out == Incomplete(rs) \union (EnergyRows(rs) \ Readings(rs))
           both == Readings(rs) \cup IgnoredRows(rs)
<1>2. Incomplete(rs) \subseteq rs /\ EnergyRows(rs) \subseteq rs \ Incomplete(rs)
  BY DEF Incomplete, EnergyRows
<1>3. Readings(rs) \subseteq EnergyRows(rs)
  BY DEF Readings, DatedRows, ValidRows
<1>4. IgnoredRows(rs) = rs \ (Incomplete(rs) \union EnergyRows(rs))
  BY DEF IgnoredRows
<1>5. /\ rs = both \cup out /\ both \cap out = {}
      /\ Readings(rs) \cap IgnoredRows(rs) = {} /\ Readings(rs) \subseteq rs /\ IgnoredRows(rs) \subseteq rs
  BY <1>2, <1>3, <1>4
<1>6. IsFiniteSet(rs)
  BY <1>1, ImportsAssumption
<1>7. /\ IsFiniteSet(Readings(rs)) /\ IsFiniteSet(IgnoredRows(rs))
      /\ IsFiniteSet(out) /\ IsFiniteSet(both)
  BY <1>5, <1>6, FS_Subset
<1>8. /\ report.total = Cardinality(rs) /\ report.imported = Cardinality(Readings(rs))
      /\ report.ignored = Cardinality(IgnoredRows(rs)) /\ report.skipped = Cardinality(out)
  BY <1>1 DEF Report
<1>9. PICK a, b, c : a = Readings(rs) /\ b = IgnoredRows(rs) /\ c = out
  OBVIOUS
<1>10. IsFiniteSet(a) /\ IsFiniteSet(b) /\ IsFiniteSet(c) /\ a \cap b = {} /\ (a \cup b) \cap c = {}
       /\ rs = (a \cup b) \cup c /\ IsFiniteSet(a \cup b)
  BY <1>5, <1>7, <1>9
<1> HIDE DEF out, both
<1>11. Cardinality(a \cup b) = Cardinality(a) + Cardinality(b) - Cardinality(a \cap b)
  BY <1>10, FS_Union
<1>12. Cardinality((a \cup b) \cup c) =
          Cardinality(a \cup b) + Cardinality(c) - Cardinality((a \cup b) \cap c)
  BY <1>10, FS_Union
<1>13. Cardinality(a \cap b) = 0 /\ Cardinality((a \cup b) \cap c) = 0
  BY <1>10, FS_EmptySet
<1>14. Cardinality(a) \in Nat /\ Cardinality(b) \in Nat /\ Cardinality(c) \in Nat
  BY <1>10, FS_CardinalityType
<1>15. Cardinality(rs) = Cardinality(a) + Cardinality(b) + Cardinality(c)
  <2>1. Cardinality(rs) = Cardinality((a \cup b) \cup c)
    BY <1>10
  <2> QED BY <1>11, <1>12, <1>13, <1>14, <2>1
<1> QED BY <1>8, <1>9, <1>15

LEMMA MeterViewKeepsImport ==
    ASSUME ViewIInv, NEW f \in Completed("meter")
    PROVE  MeterViewIsItsImport(f)
<1>1. PICK i \in Imports : Accepted(i) /\ Source(i) = "meter" /\ saved[f] = Stores(i)
  BY StoredIs
<1>2. PICK report : report = saved[f].results.report
  OBVIOUS
<1>3. PICK readings : readings = saved[f].readings
  OBVIOUS
<1>4. report = Report(i.rows) /\ readings = MeterReadings(i) /\ saved[f].rows = i.rows
  BY <1>1, <1>2, <1>3, StoresIs DEF ReadingsOf
<1> DEFINE rs == {r \in i.rows : /\ Missing \notin {r.end, r.kind, r.kwh}
                                 /\ Invalid \notin {r.end, r.kwh} /\ r.kwh >= 0}
           R == Records(i.rows)
           Q == QuarterHours(i)
           T == DOMAIN MeterReadings(i)
           used == [r \in R |-> r.used]
           exported == [r \in R |-> r.exported]
           partUsed == [q \in Q |-> q.used]
           partExported == [q \in Q |-> q.exported]
           usedAt == [t \in T |-> MeterReadings(i)[t].used]
           exportedAt == [t \in T |-> MeterReadings(i)[t].exported]
<1>5. /\ {q \in rs : q.kind = "consumption"} = {q \in DatedRows(i.rows) : q.kind = "consumption"}
      /\ {q \in rs : q.kind = "export"} = {q \in DatedRows(i.rows) : q.kind = "export"}
  BY DEF DatedRows, ValidRows, EnergyRows, Incomplete, Consumption, Export
<1>6. /\ TakenFromGrid(rs) = Total(PairsOf(i.rows, "consumption"), LAMBDA p : p[2])
      /\ GivenToGrid(rs) = Total(PairsOf(i.rows, "export"), LAMBDA p : p[2])
  BY <1>5 DEF TakenFromGrid, GivenToGrid, PairsOf
<1>7. IsEnergyOf(used, i.rows, "consumption") /\ IsEnergyOf(exported, i.rows, "export")
  <2>1. ASSUME NEW t \in Ends(i.rows)
        PROVE  /\ used[RecordTo(i.rows, t)] = SumOver(KwhOf(i.rows), ToKind(i.rows, "consumption", t))
               /\ exported[RecordTo(i.rows, t)] = SumOver(KwhOf(i.rows), ToKind(i.rows, "export", t))
    <3>1. RecordTo(i.rows, t) \in R
      BY RecordsAre
    <3>2. /\ TakenTo(i.rows, t) = ToKind(i.rows, "consumption", t)
          /\ GivenTo(i.rows, t) = ToKind(i.rows, "export", t)
      BY DEF TakenTo, GivenTo, ToKind, Consumption, Export
    <3> QED BY <3>1, <3>2 DEF RecordTo
  <2> HIDE DEF used, exported
  <2> QED BY <2>1 DEF IsEnergyOf
<1>8. IsWhole(used, i) /\ IsWhole(exported, i)
  <2>1. ASSUME NEW r \in R
        PROVE  /\ used[r] \in Int /\ used[r] = (used[r] \div Resolution(i.rows)) * Resolution(i.rows)
               /\ exported[r] \in Int
               /\ exported[r] = (exported[r] \div Resolution(i.rows)) * Resolution(i.rows)
    <3>1. PICK t \in Ends(i.rows) : r = RecordTo(i.rows, t)
      BY RecordsAre
    <3>2. TakenTo(i.rows, t) \subseteq Readings(i.rows) /\ GivenTo(i.rows, t) \subseteq Readings(i.rows)
      BY DEF TakenTo, GivenTo
    <3>3. /\ used[r] = SumOver(KwhOf(i.rows), TakenTo(i.rows, t))
          /\ exported[r] = SumOver(KwhOf(i.rows), GivenTo(i.rows, t))
      BY <3>1 DEF RecordTo
    <3> HIDE DEF used, exported
    <3> QED BY <1>1, <3>2, <3>3, ReadingsAreWhole
  <2> HIDE DEF used, exported
  <2> QED BY <2>1 DEF IsWhole
<1>9. \A p \in Places(i) : PartOf(i, p) \in Q /\ p[1] \in R
  BY PartsAre DEF Places
<1>10. IsShareOf(partUsed, used, i) /\ IsShareOf(partExported, exported, i)
  BY <1>9 DEF IsShareOf, PartOf
<1>11. Numbers(partUsed, Q) /\ Numbers(partExported, Q)
  <2>1. ASSUME NEW q \in Q PROVE q.used \in Int /\ q.exported \in Int
    <3>1. PICK p \in Places(i) : q = PartOf(i, p)
      BY PartsAre
    <3>2. PICK res \in Nat \ {0} : res = Resolution(i.rows)
      BY <1>1, ResolutionIsNumber
    <3>3. p[1].used \in Int /\ p[1].exported \in Int
      BY <1>9, <3>2, RecordsAreNumbers
    <3>4. \A a \in Int : a \div res \in Int
      OBVIOUS
    <3> QED BY <3>1, <3>2, <3>3, <3>4 DEF PartOf
  <2> QED BY <2>1 DEF Numbers
<1>12. IsSumOfParts(usedAt, partUsed, i) /\ IsSumOfParts(exportedAt, partExported, i)
  <2>1. ASSUME NEW t \in T
        PROVE  /\ usedAt[t] = SumOver(partUsed, {q \in Q : q.slot = t})
               /\ exportedAt[t] = SumOver(partExported, {q \in Q : q.slot = t})
    <3> DEFINE here == {q \in Q : q.slot = t}
    <3>1. MeterReadings(i)[t] = [used |-> Total(here, LAMBDA q : q.used),
                                 exported |-> Total(here, LAMBDA q : q.exported)]
      BY DEF MeterReadings
    <3>2. /\ [q \in here |-> q.used] = [q \in here |-> partUsed[q]]
          /\ [q \in here |-> q.exported] = [q \in here |-> partExported[q]]
      OBVIOUS
    <3> QED BY <3>1, <3>2 DEF SumOver, Total
  <2> HIDE DEF usedAt, exportedAt, partUsed, partExported
  <2> QED BY <2>1 DEF IsSumOfParts
<1>13. report.gridImport = SumOver(used, R) /\ report.gridExport = SumOver(exported, R)
  BY <1>4 DEF Report, SumOver, Total
<1>14. /\ Total(DOMAIN readings, LAMBDA t : readings[t].used) = SumOver(usedAt, T)
       /\ Total(DOMAIN readings, LAMBDA t : readings[t].exported) = SumOver(exportedAt, T)
  <2>1. /\ [t \in T |-> MeterReadings(i)[t].used] = [t \in T |-> usedAt[t]]
        /\ [t \in T |-> MeterReadings(i)[t].exported] = [t \in T |-> exportedAt[t]]
    OBVIOUS
  <2> QED BY <1>4, <2>1 DEF SumOver, Total
<1>15. report.total = report.imported + report.ignored + report.skipped
  BY <1>4, ReportCountsRows
<1> HIDE DEF used, exported, partUsed, partExported, usedAt, exportedAt
<1>16. /\ Total(PairsOf(i.rows, "consumption"), LAMBDA p : p[2]) = SumOver(used, R)
       /\ SumOver(used, R) = SumOver(usedAt, T)
  BY <1>1, <1>7, <1>8, <1>10, <1>11, <1>12, EnergyIsKept
<1>17. /\ Total(PairsOf(i.rows, "export"), LAMBDA p : p[2]) = SumOver(exported, R)
       /\ SumOver(exported, R) = SumOver(exportedAt, T)
  BY <1>1, <1>7, <1>8, <1>10, <1>11, <1>12, EnergyIsKept
<1> QED BY <1>2, <1>3, <1>4, <1>6, <1>13, <1>14, <1>15, <1>16, <1>17 DEF MeterViewIsItsImport

LEMMA FilesShowTheirImports == ViewIInv => FileViewIsItsImport
<1> QED BY DeviceViewKeepsImport, MeterViewKeepsImport DEF FileViewIsItsImport

\* Whatever is uploaded and deleted after it, a file shows what it brought: its rows add
\* up to its series and cost what its dashboard says, its readings, report and rows have
\* the same energy, and every row of a meter file is imported, ignored or skipped.
THEOREM FileShowsItsImport == ViewSpec => []FileViewIsItsImport
<1> QED BY FilesKeepWhatTheyBrought, FilesShowTheirImports, PTL

----------------------------------------------------------------------------
(* The merged series of several files.                                     *)

\* In every quarter-hour that some file has, the reading of the newest.
HavingTime(s, t) == {f \in s : t \in DOMAIN Usage(f)}
NewestUsage(s) ==
    [t \in UNION {DOMAIN Usage(f) : f \in s} |-> Usage(Max(HavingTime(s, t)))[t]]
UsageStep(I, D) ==
    [s \in SUBSET D |-> IF s = {} THEN <<>> ELSE Updated(I[s \ {Max(s)}], Usage(Max(s)))]

LEMMA MaxIs ==
    ASSUME NEW S, S \subseteq Int, NEW m \in S, \A x \in S : x <= m
    PROVE  Max(S) = m
<1>1. \E x \in S : \A y \in S : x >= y
  OBVIOUS
<1>2. Max(S) \in S /\ \A y \in S : Max(S) >= y
  BY <1>1 DEF Max
<1>3. PICK n \in S : n = Max(S) /\ n >= m
  BY <1>2
<1>4. n <= m /\ m <= n /\ n \in Int /\ m \in Int
  BY <1>3
<1> QED BY <1>3, <1>4

LEMMA MinIs ==
    ASSUME NEW S, S \subseteq Int, NEW m \in S, \A x \in S : m <= x
    PROVE  Min(S) = m
<1>1. \E x \in S : \A y \in S : x =< y
  OBVIOUS
<1>2. Min(S) \in S /\ \A y \in S : Min(S) =< y
  BY <1>1 DEF Min
<1>3. PICK n \in S : n = Min(S) /\ n =< m
  BY <1>2
<1>4. n <= m /\ m <= n /\ n \in Int /\ m \in Int
  BY <1>3
<1> QED BY <1>3, <1>4

LEMMA NewestUsageWithNewest ==
    ASSUME NEW s, IsFiniteSet(s), s # {}, s \subseteq Int
    PROVE  NewestUsage(s) = Updated(NewestUsage(s \ {Max(s)}), Usage(Max(s)))
<1>1. PICK m \in s : m = Max(s) /\ \A f \in s : f <= m
  BY GreatestExists
<1>2. PICK r : r = s \ {m}
  OBVIOUS
<1>3. s = r \cup {m}
  BY <1>2
<1> DEFINE times(u) == UNION {DOMAIN Usage(f) : f \in u}
<1>4. times(s) = times(r) \cup DOMAIN Usage(m)
  BY <1>3
<1>5. ASSUME NEW t \in DOMAIN Usage(m) PROVE Max(HavingTime(s, t)) = m
  <2>1. PICK F : F = HavingTime(s, t)
    OBVIOUS
  <2>2. F \subseteq Int /\ m \in F /\ \A f \in F : f <= m
    BY <1>1, <2>1 DEF HavingTime
  <2> QED BY <2>1, <2>2, MaxIs
<1>6. ASSUME NEW t, t \notin DOMAIN Usage(m) PROVE HavingTime(s, t) = HavingTime(r, t)
  BY <1>3, <1>6 DEF HavingTime
<1> HIDE DEF times
<1>7. NewestUsage(s) = [t \in times(s) |-> Usage(Max(HavingTime(s, t)))[t]]
  BY DEF NewestUsage, times
<1>8. DOMAIN NewestUsage(r) = times(r)
      /\ \A t \in times(r) : NewestUsage(r)[t] = Usage(Max(HavingTime(r, t)))[t]
  BY DEF NewestUsage, times
<1>9. Updated(NewestUsage(r), Usage(m)) =
          [t \in times(s) |-> IF t \in DOMAIN Usage(m) THEN Usage(m)[t] ELSE NewestUsage(r)[t]]
  BY <1>4, <1>8 DEF Updated
<1>10. ASSUME NEW t \in times(s)
       PROVE  Usage(Max(HavingTime(s, t)))[t] =
                 IF t \in DOMAIN Usage(m) THEN Usage(m)[t] ELSE NewestUsage(r)[t]
  <2>1. CASE t \in DOMAIN Usage(m)
    BY <1>5, <2>1
  <2>2. CASE t \notin DOMAIN Usage(m)
    <3>1. t \in times(r)
      BY <1>4, <2>2
    <3> QED BY <1>6, <1>8, <2>2, <3>1
  <2> QED BY <2>1, <2>2
<1>11. NewestUsage(s) = Updated(NewestUsage(r), Usage(m))
  BY <1>7, <1>9, <1>10
<1> QED BY <1>1, <1>2, <1>11

LEMMA MergedUsageIsNewest ==
    ASSUME NEW D, IsFiniteSet(D), D \subseteq Int
    PROVE  MergeUsage(D) = NewestUsage(D)
<1> DEFINE G == CHOOSE I : I = UsageStep(I, D)
           N == [s \in SUBSET D |-> NewestUsage(s)]
<1>1. MergeUsage(D) = G[D]
  BY DEF MergeUsage, OldestFirst, MapThenFoldSet, UsageStep
<1>2. NewestUsage({}) = <<>>
  BY DEF NewestUsage
<1>3. ASSUME NEW s \in SUBSET D, s # {}
      PROVE  /\ s \ {Max(s)} \in SUBSET D /\ s \ {Max(s)} # s
             /\ NewestUsage(s) = Updated(NewestUsage(s \ {Max(s)}), Usage(Max(s)))
  <2>1. IsFiniteSet(s) /\ s \subseteq Int
    BY FS_Subset
  <2>2. Max(s) \in s
    BY <1>3, <2>1, GreatestExists
  <2>3. NewestUsage(s) = Updated(NewestUsage(s \ {Max(s)}), Usage(Max(s)))
    BY <1>3, <2>1, NewestUsageWithNewest
  <2> QED BY <2>2, <2>3
<1>4. N = UsageStep(N, D)
  BY <1>2, <1>3 DEF UsageStep
<1>5. G = UsageStep(G, D)
  BY <1>4
<1> HIDE DEF G
<1> DEFINE C == {s \in SUBSET D : G[s] = NewestUsage(s)}
<1>6. ASSUME NEW s \in SUBSET D, \A u \in SUBSET s : u # s => u \in C PROVE s \in C
  <2>1. CASE s = {}
    BY <1>2, <1>5, <2>1 DEF UsageStep
  <2>2. CASE s # {}
    <3>1. s \ {Max(s)} \in C
      BY <1>3, <1>6, <2>2
    <3>2. G[s] = Updated(G[s \ {Max(s)}], Usage(Max(s)))
      BY <1>5, <2>2 DEF UsageStep
    <3> QED BY <1>3, <2>2, <3>1, <3>2
  <2> QED BY <2>1, <2>2
<1>7. \A s \in SUBSET D : s \in C
  <2> HIDE DEF C
  <2> QED BY <1>6, InductByPart
<1> QED BY <1>1, <1>7

----------------------------------------------------------------------------
(* Ranges of days.                                                         *)

\* The range of a file is that of the days of its series.
LEMMA FileDaysAre ==
    ASSUME ViewIInv, NEW source \in {"meter", "devices"}, NEW f \in Completed(source)
    PROVE  /\ IsFiniteSet(DaysOf(Usage(f))) /\ DaysOf(Usage(f)) # {} /\ DaysOf(Usage(f)) \subseteq Int
           /\ saved[f].start = Min(DaysOf(Usage(f))) /\ saved[f].end = Max(DaysOf(Usage(f)))
<1>1. PICK i \in Imports : Accepted(i) /\ saved[f] = Stores(i)
  BY StoredIs
<1>2. Usage(f) = SeriesOf(i)
  BY <1>1, StoresIs DEF Usage
<1> QED BY <1>1, <1>2, DaysAreSome

\* The merged series has the quarter-hours of all files.
TimesOf(files) == UNION {DOMAIN Usage(f) : f \in files}

LEMMA SeriesTimes ==
    ASSUME ViewIInv, NEW source \in {"meter", "devices"}
    PROVE  DOMAIN AllFilesSeries(source) = TimesOf(MergedOf(source))
<1>1. PICK D : D = MergedOf(source)
  OBVIOUS
<1>2. D \subseteq Completed(source) /\ IsFiniteSet(D) /\ D \subseteq Int
  <2>1. D \subseteq Completed(source)
    BY <1>1 DEF MergedOf
  <2> QED BY <2>1, CompletedAreFinite, FS_Subset
<1>3. CASE source = "meter"
  <2>1. AllFilesSeries(source) = MergeUsage(D)
    BY <1>1, <1>3 DEF AllFilesSeries
  <2> QED BY <1>1, <1>2, <2>1, MergedUsageIsNewest DEF NewestUsage, TimesOf
<1>4. CASE source = "devices"
  <2> DEFINE current == {r \in rows \ superseded : r.file \in D}
  <2>1. AllFilesSeries(source) = DeviceSeries(D)
    BY <1>1, <1>4 DEF AllFilesSeries
  <2>2. DOMAIN DeviceSeries(D) = DOMAIN Covering(D) \cup {r.slot : r \in current}
    BY DEF DeviceSeries
  <2>3. DOMAIN Covering(D) = TimesOf(D)
    BY DEF Covering, TimesOf
  <2>4. ASSUME NEW r \in current PROVE r.slot \in TimesOf(D)
    <3>1. r \in rows /\ r.file \in D
      OBVIOUS
    <3>2. r.file \in Files /\ r.file \in Completed("devices") /\ r.slot \in Int /\ Within(period[r.file], r.slot)
      BY <3>1, RowsLieInDeviceFiles
    <3>3. r.slot \in DOMAIN Usage(r.file)
      BY <3>2, DeviceFilesAre
    <3> QED BY <3>1, <3>3 DEF TimesOf
  <2> HIDE DEF current
  <2> QED BY <1>1, <2>1, <2>2, <2>3, <2>4
<1> QED BY <1>3, <1>4

\* The days of files together, from the first to the last of any.
DaysOfFiles(files) == UNION {DaysOf(Usage(f)) : f \in files}

LEMMA SeriesDays ==
    ASSUME NEW series, NEW files, DOMAIN series = TimesOf(files)
    PROVE  DaysOf(series) = DaysOfFiles(files)
<1> QED BY DEF DaysOf, DaysOfFiles, TimesOf

LEMMA DaysOfFilesAre ==
    ASSUME ViewIInv, NEW source \in {"meter", "devices"}, NEW D, D \subseteq Completed(source), D # {}
    PROVE  /\ IsFiniteSet(DaysOfFiles(D)) /\ DaysOfFiles(D) # {} /\ DaysOfFiles(D) \subseteq Int
           /\ Min(DaysOfFiles(D)) = Min({saved[f].start : f \in D})
           /\ Max(DaysOfFiles(D)) = Max({saved[f].end : f \in D})
<1> DEFINE days == [f \in D |-> DaysOf(Usage(f))]
           start == [f \in D |-> saved[f].start]
           end == [f \in D |-> saved[f].end]
<1>1. \A f \in D : /\ IsFiniteSet(days[f]) /\ days[f] # {} /\ days[f] \subseteq Int
                   /\ start[f] = Min(days[f]) /\ end[f] = Max(days[f])
  BY FileDaysAre
<1>2. IsFiniteSet(D)
  BY CompletedAreFinite, FS_Subset
<1>3. DaysOfFiles(D) = UNION {days[f] : f \in D}
  BY DEF DaysOfFiles
<1>4. /\ {saved[f].start : f \in D} = {start[f] : f \in D}
      /\ {saved[f].end : f \in D} = {end[f] : f \in D}
  OBVIOUS
<1> HIDE DEF days, start, end
<1>5. PICK all : all = UNION {days[f] : f \in D}
  OBVIOUS
<1>6. IsFiniteSet(all)
  <2>1. IsFiniteSet({days[f] : f \in D})
    BY <1>2, ImageIsFinite
  <2>2. \A s \in {days[f] : f \in D} : IsFiniteSet(s)
    BY <1>1
  <2> QED BY <1>5, <2>1, <2>2, FS_UNION
<1>7. all # {} /\ all \subseteq Int
  BY <1>1, <1>5
<1>8. \A f \in D : /\ start[f] \in days[f] /\ end[f] \in days[f]
                   /\ \A x \in days[f] : start[f] <= x /\ x <= end[f]
  <2> SUFFICES ASSUME NEW f \in D
               PROVE  /\ start[f] \in days[f] /\ end[f] \in days[f]
                      /\ \A x \in days[f] : start[f] <= x /\ x <= end[f]
    OBVIOUS
  <2>1. PICK S : S = days[f]
    OBVIOUS
  <2>2. IsFiniteSet(S) /\ S # {} /\ S \subseteq Int /\ start[f] = Min(S) /\ end[f] = Max(S)
    BY <1>1, <2>1
  <2>3. Min(S) \in S /\ \A x \in S : Min(S) <= x
    BY <2>2, LeastExists
  <2>4. Max(S) \in S /\ \A x \in S : x <= Max(S)
    BY <2>2, GreatestExists
  <2> QED BY <2>1, <2>2, <2>3, <2>4
<1>9. Min(all) = Min({start[f] : f \in D})
  <2>1. PICK m : m = Min(all)
    OBVIOUS
  <2>2. m \in all /\ \A x \in all : m <= x
    BY <1>6, <1>7, <2>1, LeastExists
  <2>3. PICK g \in D : m \in days[g]
    BY <1>5, <2>2
  <2>4. start[g] \in all /\ \A f \in D : start[f] \in all /\ start[f] \in Int
    BY <1>5, <1>7, <1>8
  <2>5. m = start[g]
    <3>1. start[g] <= m /\ m <= start[g] /\ m \in Int /\ start[g] \in Int
      BY <1>7, <1>8, <2>2, <2>3, <2>4
    <3> QED BY <3>1
  <2>6. PICK S : S = {start[f] : f \in D}
    OBVIOUS
  <2>7. S \subseteq Int /\ m \in S /\ \A x \in S : m <= x
    BY <2>2, <2>4, <2>5, <2>6
  <2>8. Min(S) = m
    BY <2>7, MinIs
  <2> QED BY <2>1, <2>6, <2>8
<1>10. Max(all) = Max({end[f] : f \in D})
  <2>1. PICK m : m = Max(all)
    OBVIOUS
  <2>2. m \in all /\ \A x \in all : x <= m
    BY <1>6, <1>7, <2>1, GreatestExists
  <2>3. PICK g \in D : m \in days[g]
    BY <1>5, <2>2
  <2>4. end[g] \in all /\ \A f \in D : end[f] \in all /\ end[f] \in Int
    BY <1>5, <1>7, <1>8
  <2>5. m = end[g]
    <3>1. end[g] <= m /\ m <= end[g] /\ m \in Int /\ end[g] \in Int
      BY <1>7, <1>8, <2>2, <2>3, <2>4
    <3> QED BY <3>1
  <2>6. PICK S : S = {end[f] : f \in D}
    OBVIOUS
  <2>7. S \subseteq Int /\ m \in S /\ \A x \in S : x <= m
    BY <2>2, <2>4, <2>5, <2>6
  <2>8. Max(S) = m
    BY <2>7, MaxIs
  <2> QED BY <2>1, <2>6, <2>8
<1> QED BY <1>3, <1>4, <1>5, <1>6, <1>7, <1>9, <1>10

----------------------------------------------------------------------------
(* The view of all files, made of one.                                     *)

LEMMA PricesOfOne ==
    ASSUME ViewIInv, NEW source \in {"meter", "devices"}, NEW f \in Completed(source)
    PROVE  MergePrices({f}) = PricesOf(f)
<1>1. PICK i \in Imports : Accepted(i) /\ saved[f] = Stores(i)
  BY StoredIs
<1>2. PICK days : days = DaysOf(SeriesOf(i))
  OBVIOUS
<1>3. PICK prices : prices = PricesOf(f)
  OBVIOUS
<1>4. prices = SlotPrices(i, days)
  BY <1>1, <1>2, <1>3, StoresIs DEF PricesOf, ByDayOf
<1>5. prices = [day \in DOMAIN prices |-> [x \in Slots |-> prices[day][x]]]
  BY <1>4 DEF SlotPrices, Slots
<1>6. IsFiniteSet({f}) /\ {f} \subseteq Int
  <2>1. f \in Int
    BY CompletedAreFinite
  <2> QED BY <2>1, FS_Singleton
<1>7. WholeDays(f)
  BY StoredPrices
<1>8. MergePrices({f}) = NewestPrices({f})
  BY <1>6, <1>7, MergedAreNewest
<1>9. ASSUME NEW day \in DOMAIN prices, NEW x PROVE NewestPrice({f}, day, x) = prices[day][x]
  <2>1. CASE prices[day][x] = NoPrice
    <3>1. Knowing({f}, day, x) = {}
      BY <1>3, <2>1 DEF Knowing
    <3> QED BY <2>1, <3>1 DEF NewestPrice
  <2>2. CASE prices[day][x] # NoPrice
    <3>1. Knowing({f}, day, x) = {f}
      BY <1>3, <2>2 DEF Knowing
    <3>2. Max({f}) = f
      BY <1>6, MaxIs
    <3> QED BY <1>3, <3>1, <3>2 DEF NewestPrice
  <2> QED BY <2>1, <2>2
<1>10. UNION {DOMAIN PricesOf(g) : g \in {f}} = DOMAIN prices
  BY <1>3
<1>11. NewestPrices({f}) = [day \in DOMAIN prices |-> [x \in Slots |-> NewestPrice({f}, day, x)]]
  BY <1>10 DEF NewestPrices
<1>12. NewestPrices({f}) = prices
  <2>1. ASSUME NEW day \in DOMAIN prices
        PROVE  [x \in Slots |-> NewestPrice({f}, day, x)] = [x \in Slots |-> prices[day][x]]
    BY <1>9
  <2> QED BY <1>5, <1>11, <2>1
<1> QED BY <1>3, <1>8, <1>12

LEMMA SeriesOfOne ==
    ASSUME ViewIInv, NEW source \in {"meter", "devices"}, NEW f,
           Completed(source) = {f}, MergedOf(source) = {f}
    PROVE  AllFilesSeries(source) = Usage(f)
<1>1. f \in Completed(source) /\ f \in MergedOf(source) /\ f \in Int
  BY CompletedAreFinite
<1>2. PICK i \in Imports : /\ Accepted(i) /\ Source(i) = source
                           /\ saved[f] = Stores(i) /\ KeepsImport(f, i)
  BY <1>1, StoredIs
<1>3. Usage(f) = SeriesOf(i)
  BY <1>2, StoresIs DEF Usage
<1>4. Usage(f) = [t \in DOMAIN Usage(f) |-> Usage(f)[t]]
  BY <1>3 DEF SeriesOf
<1>5. DOMAIN AllFilesSeries(source) = DOMAIN Usage(f)
  BY <1>1, SeriesTimes DEF TimesOf
<1>6. CASE source = "meter"
  <2>1. IsFiniteSet({f}) /\ {f} \subseteq Int
    BY <1>1, FS_Singleton
  <2>2. AllFilesSeries(source) = NewestUsage({f})
    BY <1>6, <2>1, MergedUsageIsNewest DEF AllFilesSeries
  <2>3. Max({f}) = f
    BY <2>1, MaxIs
  <2>4. \A t \in DOMAIN Usage(f) : HavingTime({f}, t) = {f}
    BY DEF HavingTime
  <2>5. UNION {DOMAIN Usage(g) : g \in {f}} = DOMAIN Usage(f)
    OBVIOUS
  <2>6. NewestUsage({f}) = [t \in DOMAIN Usage(f) |-> Usage(f)[t]]
    BY <2>3, <2>4, <2>5 DEF NewestUsage
  <2> QED BY <1>4, <2>2, <2>6
<1>7. CASE source = "devices"
  <2> DEFINE current == {r \in rows \ superseded : r.file \in {f}}
  <2>1. current = RowsOfFile(f)
    <3>1. ASSUME NEW r \in RowsOfFile(f) PROVE r \notin superseded
      <4>1. r \in rows /\ r.file = f
        BY DEF RowsOfFile
      <4>2. \A g \in Completed("devices") : ~(g > r.file)
        BY <1>1, <1>7, <4>1
      <4> QED BY <4>1, <4>2, FlaggedIsCovered
    <3> QED BY <3>1 DEF RowsOfFile
  <2>2. AllFilesSeries(source) =
            [t \in DOMAIN Covering({f}) \union {r.slot : r \in current} |-> GridImport(current, t)]
    BY <1>7 DEF AllFilesSeries, DeviceSeries
  <2>3. AllFilesSeries(source) = [t \in DOMAIN Usage(f) |-> GridImport(RowsOfFile(f), t)]
    <3> HIDE DEF current
    <3> QED BY <1>5, <2>1, <2>2
  <2>4. \A t \in DOMAIN Usage(f) : Usage(f)[t] = GridImport(RowsOfFile(f), t)
    BY <1>1, <1>2, <1>3, <1>7, OwnSeries
  <2> QED BY <1>4, <2>3, <2>4
<1> QED BY <1>6, <1>7

LEMMA OneFileIsAllFiles ==
    ASSUME ViewIInv, NEW source \in {"meter", "devices"}, NEW f,
           Completed(source) = {f}, MergedOf(source) = {f}, NEW days
    PROVE  AllFilesData(source, days) = FileData(f, days)
<1>1. PICK own : own = saved[f].results
  OBVIOUS
<1>2. PICK merged : merged = MergedResults(source)
  OBVIOUS
<1>3. f \in Completed(source) /\ f \in Int
  BY CompletedAreFinite
<1>4. merged.usage = own.usage
  BY <1>1, <1>2, SeriesOfOne DEF MergedResults, Usage
<1>5. merged.byDay = own.byDay
  BY <1>1, <1>2, <1>3, PricesOfOne DEF MergedResults, PricesOf
<1>6. merged.flat = own.flat
  <2>1. Max({f}) = f
    <3>1. {f} \subseteq Int
      BY <1>3
    <3> QED BY <3>1, MaxIs
  <2> QED BY <1>1, <1>2, <2>1 DEF MergedResults, MergeFlat
<1>7. merged.resolution = own.resolution
  <2>1. PICK u : u = own.resolution
    OBVIOUS
  <2>2. {saved[g].results.resolution : g \in {f}} = {u}
    BY <1>1, <2>1
  <2>3. Cardinality({u}) = 1
    BY FS_Singleton
  <2>4. (CHOOSE v \in {u} : TRUE) = u
    OBVIOUS
  <2>5. merged.resolution = IF Cardinality({u}) = 1 THEN CHOOSE v \in {u} : TRUE ELSE Missing
    BY <1>2, <2>2 DEF MergedResults
  <2> QED BY <2>1, <2>3, <2>4, <2>5
<1> QED BY <1>1, <1>2, <1>4, <1>5, <1>6, <1>7 DEF AllFilesData, FileData, ForRange

LEMMA AllFilesAnswer ==
    ASSUME ViewIInv, NEW source \in {"meter", "devices"},
           Completed(source) # {}, NoFileWithoutSimulation(source)
    PROVE  AllFilesRangeIsAnswered(source)
<1>1. PICK D : D = MergedOf(source)
  OBVIOUS
<1>2. D = Completed(source) /\ D # {}
  BY <1>1 DEF MergedOf, NoFileWithoutSimulation
<1>3. PICK days : days = DaysOf(AllFilesSeries(source))
  OBVIOUS
<1>4. days = DaysOfFiles(D)
  BY <1>1, <1>3, SeriesTimes, SeriesDays
<1>5. /\ IsFiniteSet(days) /\ days # {} /\ days \subseteq Int
      /\ Min(days) = Summary(source).start /\ Max(days) = Summary(source).end
  BY <1>2, <1>4, DaysOfFilesAre DEF Summary
<1>6. /\ Min(days) \in days /\ \A x \in days : Min(days) <= x
      /\ Max(days) \in days /\ \A x \in days : x <= Max(days)
  BY <1>5, LeastExists, GreatestExists
<1>7. PICK a, b \in Int : a = Min(days) /\ b = Max(days) /\ a <= b
  BY <1>5, <1>6
<1>8. AllFilesDays(source, Missing, Missing) = a .. b
  BY <1>1, <1>2, <1>3, <1>7 DEF AllFilesDays, ResolveRange
<1>9. days \subseteq a .. b
  BY <1>5, <1>6, <1>7
<1>10. ASSUME NEW f \in MergedOf(source), MergedOf(source) = {f}
       PROVE  AllFilesData(source, a .. b) = FileData(f, a .. b)
  BY <1>1, <1>2, <1>10, OneFileIsAllFiles
<1> QED BY <1>3, <1>5, <1>7, <1>8, <1>9, <1>10 DEF AllFilesRangeIsAnswered

----------------------------------------------------------------------------
(* The range of one file.                                                  *)

\* What calculate_for_range takes of a series.
InDays(usage, days) == {t \in DOMAIN usage : Day(t) \in days}

LEMMA RestrictedIs ==
    ASSUME NEW usage, NEW days
    PROVE  Restrict(usage, InDays(usage, days)) = [t \in InDays(usage, days) |-> usage[t]]
BY DEF Restrict

FlatCostOf(usage, flat) == [t \in DOMAIN usage |-> usage[t] * flat[SlotOfDay(t)]]

LEMMA SummaryTotals ==
    ASSUME NEW usage, NEW byDay, NEW flat, NEW resolution, NEW days
    PROVE  LET data == Summarize(Restrict(usage, InDays(usage, days)), byDay, flat, resolution)
           IN  /\ data.totalUsage = SumOver(usage, InDays(usage, days))
               /\ data.flatCost = SumOver(FlatCostOf(usage, flat), InDays(usage, days))
<1>1. PICK T : T = InDays(usage, days)
  OBVIOUS
<1>2. T \subseteq DOMAIN usage
  BY <1>1 DEF InDays
<1>3. PICK u : u = [t \in T |-> usage[t]]
  OBVIOUS
<1>4. Restrict(usage, InDays(usage, days)) = u
  BY <1>1, <1>3, RestrictedIs
<1>5. Summarize(u, byDay, flat, resolution).totalUsage = SumOver(usage, T)
  <2>1. CASE T = {}
    <3>1. DOMAIN u = {}
      BY <1>3, <2>1
    <3>2. Summarize(u, byDay, flat, resolution) = EmptyResults
      BY <3>1 DEF Summarize
    <3> QED BY <2>1, <3>2, SumOfNone DEF EmptyResults
  <2>2. CASE T # {}
    <3>1. DOMAIN u # {}
      BY <1>3, <2>2
    <3>2. Summarize(u, byDay, flat, resolution).totalUsage = Total(DOMAIN u, LAMBDA t : u[t])
      BY <3>1 DEF Summarize
    <3>3. [t \in DOMAIN u |-> u[t]] = [t \in T |-> usage[t]]
      BY <1>3
    <3> QED BY <3>2, <3>3 DEF Total, SumOver
  <2> QED BY <2>1, <2>2
<1>6. Summarize(u, byDay, flat, resolution).flatCost = SumOver(FlatCostOf(usage, flat), T)
  <2>1. CASE T = {}
    <3>1. DOMAIN u = {}
      BY <1>3, <2>1
    <3>2. Summarize(u, byDay, flat, resolution) = EmptyResults
      BY <3>1 DEF Summarize
    <3> QED BY <2>1, <3>2, SumOfNone DEF EmptyResults
  <2>2. CASE T # {}
    <3>1. DOMAIN u # {}
      BY <1>3, <2>2
    <3>2. Summarize(u, byDay, flat, resolution).flatCost = FlatCost(u, flat)
      BY <3>1 DEF Summarize
    <3>3. [t \in DOMAIN u |-> u[t] * flat[SlotOfDay(t)]] = [t \in T |-> FlatCostOf(usage, flat)[t]]
      BY <1>2, <1>3 DEF FlatCostOf
    <3> QED BY <3>2, <3>3 DEF FlatCost, Total, SumOver
  <2> QED BY <2>1, <2>2
<1> QED BY <1>1, <1>4, <1>5, <1>6

LEMMA MeterRecordsCount ==
    ASSUME NEW i \in Imports, Source(i) = "meter", Accepted(i)
    PROVE  SummaryOf(i).records = Cardinality(Records(i.rows))
<1>1. PICK n \in Nat \ {0} : n = Resolution(i.rows)
  BY ResolutionIsNumber
<1>2. ResolutionOf(i) = n /\ n # Missing
  BY <1>1, MissingAssumption DEF ResolutionOf
<1>3. DOMAIN SeriesOf(i) = DOMAIN MeterReadings(i)
  BY DEF SeriesOf, ReadingsOf
<1>4. SummaryOf(i).records = Cardinality(DOMAIN MeterReadings(i)) \div n
  <2>1. DOMAIN SeriesOf(i) # {}
    BY UsageIsSome
  <2> QED BY <1>2, <1>3, <2>1 DEF SummaryOf, Summarize
<1> DEFINE slot == [p \in Places(i) |-> PartOf(i, p).slot]
<1>5. DOMAIN MeterReadings(i) = {slot[p] : p \in Places(i)}
  <2>1. DOMAIN MeterReadings(i) = {q.slot : q \in QuarterHours(i)}
    BY DEF MeterReadings
  <2>2. QuarterHours(i) = {PartOf(i, p) : p \in Places(i)}
    BY PartsAre
  <2> QED BY <2>1, <2>2
<1>6. \A p, q \in Places(i) : slot[p] = slot[q] => p = q
  BY PlacesLieApart
<1>7. IsFiniteSet(Places(i)) /\ Cardinality(Places(i)) = Cardinality(Records(i.rows)) * n
  BY <1>1, PlacesAreFinite
<1> HIDE DEF slot
<1>8. Cardinality(DOMAIN MeterReadings(i)) = Cardinality(Places(i))
  <2>1. PICK S : S = Places(i)
    OBVIOUS
  <2>2. Cardinality({slot[p] : p \in S}) = Cardinality(S)
    <3>1. IsFiniteSet(S) /\ \A p, q \in S : slot[p] = slot[q] => p = q
      BY <1>6, <1>7, <2>1
    <3> QED BY <3>1, ImageCardinality
  <2> QED BY <1>5, <2>1, <2>2
<1>9. IsFiniteSet(Records(i.rows))
  BY <1>1, RecordsAreNumbers
<1>10. PICK c : c = Cardinality(Records(i.rows))
  OBVIOUS
<1>11. c \in Nat
  BY <1>9, <1>10, FS_CardinalityType
<1>12. (c * n) \div n = c
  BY <1>11, DivisionUndoes
<1> QED BY <1>4, <1>7, <1>8, <1>10, <1>12

LEMMA StoredSummary ==
    ASSUME NEW i \in Imports, Accepted(i)
    PROVE  Stores(i).results.summary = SummaryOf(i)
<1>1. CASE Source(i) = "meter"
  <2>1. PICK S : S = SummaryOf(i)
    OBVIOUS
  <2>2. Stores(i).results.summary = [S EXCEPT !.records = Cardinality(Records(i.rows))]
    BY <1>1, <2>1, StoresIs
  <2>3. S.records = Cardinality(Records(i.rows))
    BY <1>1, <2>1, MeterRecordsCount
  <2>4. DOMAIN SeriesOf(i) # {}
    BY UsageIsSome
  <2>5. S = [x \in DOMAIN S |-> S[x]]
    BY <2>1, <2>4 DEF SummaryOf, Summarize
  <2>6. [S EXCEPT !.records = S.records] = S
    BY <2>5
  <2> QED BY <2>1, <2>2, <2>3, <2>6
<1>2. CASE Source(i) # "meter"
  BY <1>2, StoresIs
<1> QED BY <1>1, <1>2

LEMMA FilesAnswer ==
    ASSUME ViewIInv, NEW source \in {"meter", "devices"}, NEW f \in MergedOf(source)
    PROVE  FileRangeIsAnswered(f)
<1>1. /\ f \in Completed(source) /\ f \in simulations /\ status[f] = "completed"
  BY DEF MergedOf, Completed
<1>2. PICK i \in Imports : Accepted(i) /\ saved[f] = Stores(i)
  BY <1>1, StoredIs
<1>3. PICK usage : usage = SeriesOf(i)
  OBVIOUS
<1>4. PICK D : D = DOMAIN usage
  OBVIOUS
<1>5. IsFiniteSet(D) /\ D # {} /\ D \subseteq Int /\ \A t \in D : usage[t] \in Int
  BY <1>2, <1>3, <1>4, UsageIsSome
<1>6. PICK all : all = DaysOf(usage)
  OBVIOUS
<1>7. /\ IsFiniteSet(all) /\ all # {} /\ all \subseteq Int
      /\ saved[f].start = Min(all) /\ saved[f].end = Max(all)
  BY <1>2, <1>3, <1>6, DaysAreSome
<1>8. PICK a, b \in Int : /\ a = saved[f].start /\ b = saved[f].end /\ a <= b
                          /\ \A x \in all : a <= x /\ x <= b
  <2>1. Min(all) \in all /\ \A x \in all : Min(all) <= x
    BY <1>7, LeastExists
  <2>2. Max(all) \in all /\ \A x \in all : x <= Max(all)
    BY <1>7, GreatestExists
  <2> QED BY <1>7, <2>1, <2>2
<1>9. PICK days : days = a .. b
  OBVIOUS
<1>10. FileDays(f, a, b) = days
  BY <1>1, <1>8, <1>9, MissingAssumption DEF FileDays, ResolveRange
<1>11. \A t \in D : Day(t) \in days
  BY <1>4, <1>6, <1>7, <1>8, <1>9 DEF DaysOf
<1>12. PICK res : res = saved[f].results
  OBVIOUS
<1>13. /\ res.usage = usage /\ res.byDay = ByDayOf(i) /\ res.flat = i.flat
       /\ res.resolution = ResolutionOf(i) /\ res.summary = SummaryOf(i)
  BY <1>2, <1>3, <1>12, StoresIs, StoredSummary
<1>14. FileData(f, days) = res.summary
  <2>1. InDays(usage, days) = D
    BY <1>4, <1>11 DEF InDays
  <2>2. usage = [t \in D |-> usage[t]]
    BY <1>3, <1>4 DEF SeriesOf
  <2>3. Restrict(usage, InDays(usage, days)) = usage
    BY <2>1, <2>2, RestrictedIs
  <2> QED BY <1>3, <1>12, <1>13, <2>3 DEF FileData, ForRange, SummaryOf, InDays
<1>15. PICK cost : cost = FlatCostOf(usage, i.flat)
  OBVIOUS
<1>16. \A t \in D : cost[t] \in Int
  <2>1. ASSUME NEW t \in D PROVE cost[t] \in Int
    <3>1. i.flat[SlotOfDay(t)] \in Int
      BY <1>2, <1>3, <1>4, <2>1, PricesAreNumbers
    <3>2. cost[t] = usage[t] * i.flat[SlotOfDay(t)]
      BY <1>4, <1>15, <2>1 DEF FlatCostOf
    <3>3. \A x, y \in Int : x * y \in Int
      OBVIOUS
    <3>4. usage[t] \in Int
      BY <1>5, <2>1
    <3> QED BY <3>1, <3>2, <3>3, <3>4
  <2> QED BY <2>1
<1>17. ASSUME NEW ds
       PROVE  /\ FileData(f, ds).totalUsage = SumOver(usage, InDays(usage, ds))
              /\ FileData(f, ds).flatCost = SumOver(cost, InDays(usage, ds))
  <2>1. FileData(f, ds) = Summarize(Restrict(usage, InDays(usage, ds)), res.byDay, i.flat, res.resolution)
    BY <1>12, <1>13 DEF FileData, ForRange, InDays
  <2> QED BY <1>15, <2>1, SummaryTotals
<1>18. ASSUME NEW ds, ds \subseteq days, NEW g, \A t \in D : g[t] \in Int
       PROVE  SumOver(g, InDays(usage, ds)) + SumOver(g, InDays(usage, days \ ds))
                 = SumOver(g, InDays(usage, days))
  <2>1. PICK S, T : S = InDays(usage, ds) /\ T = InDays(usage, days \ ds)
    OBVIOUS
  <2>2. S \subseteq D /\ T \subseteq D /\ S \cap T = {}
    BY <1>4, <2>1 DEF InDays
  <2>3. S \cup T = InDays(usage, days)
    BY <1>4, <1>18, <2>1 DEF InDays
  <2>4. IsFiniteSet(S) /\ IsFiniteSet(T)
    BY <1>5, <2>2, FS_Subset
  <2>5. \A x \in S \cup T : g[x] \in Int
    BY <1>18, <2>2
  <2>6. SumOver(g, S \cup T) = SumOver(g, S) + SumOver(g, T)
    BY <2>2, <2>4, <2>5, SumOfUnion
  <2> QED BY <2>1, <2>3, <2>6
<1>19. ASSUME NEW day \in days
       PROVE  LET before == FileData(f, FileDays(f, Missing, day))
                  after == FileData(f, days \ FileDays(f, Missing, day))
              IN  /\ before.totalUsage + after.totalUsage = res.summary.totalUsage
                  /\ before.flatCost + after.flatCost = res.summary.flatCost
  <2>1. PICK ds : ds = FileDays(f, Missing, day)
    OBVIOUS
  <2>2. day \in Int /\ a <= day /\ day <= b
    BY <1>9
  <2>3. ds = a .. day
    BY <1>1, <1>8, <2>1, <2>2, MissingAssumption DEF FileDays, ResolveRange
  <2>4. ds \subseteq days
    BY <1>9, <2>2, <2>3
  <2>5. /\ res.summary.totalUsage = SumOver(usage, InDays(usage, days))
        /\ res.summary.flatCost = SumOver(cost, InDays(usage, days))
    BY <1>14, <1>17
  <2>6. /\ FileData(f, ds).totalUsage = SumOver(usage, InDays(usage, ds))
        /\ FileData(f, ds).flatCost = SumOver(cost, InDays(usage, ds))
    BY <1>17
  <2>7. /\ FileData(f, days \ ds).totalUsage = SumOver(usage, InDays(usage, days \ ds))
        /\ FileData(f, days \ ds).flatCost = SumOver(cost, InDays(usage, days \ ds))
    BY <1>17
  <2>8. SumOver(usage, InDays(usage, ds)) + SumOver(usage, InDays(usage, days \ ds))
           = SumOver(usage, InDays(usage, days))
    BY <1>5, <1>18, <2>4
  <2>9. SumOver(cost, InDays(usage, ds)) + SumOver(cost, InDays(usage, days \ ds))
           = SumOver(cost, InDays(usage, days))
    BY <1>16, <1>18, <2>4
  <2> QED BY <2>1, <2>5, <2>6, <2>7, <2>8, <2>9
<1> QED BY <1>8, <1>9, <1>10, <1>12, <1>14, <1>19 DEF FileRangeIsAnswered

----------------------------------------------------------------------------
(* The device view answers what the dashboard answers.                     *)

LEMMA SameRange ==
    ASSUME NEW src, NEW days, days # {}, DaysOf(Covering(src.files)) = days, NEW from, NEW to
    PROVE  UsageRange(src, from, to) = ResolveRange(Min(days), Max(days), from, to)
BY DEF UsageRange, ResolveRange

LEMMA CoveredDays ==
    ASSUME NEW files
    PROVE  DaysOf(Covering(files)) = DaysOfFiles(files)
<1>1. DOMAIN Covering(files) = TimesOf(files)
  BY DEF Covering, TimesOf
<1> QED BY <1>1, SeriesDays

LEMMA FileViewsAgree ==
    ASSUME ViewIInv, NEW f \in MergedOf("devices"), NEW from, NEW to
    PROVE  UsageRange(OneFile(f), from, to) = FileDays(f, from, to)
<1>1. f \in Completed("devices") /\ f \in simulations /\ status[f] = "completed"
  BY DEF MergedOf, Completed
<1>2. PICK days : days = DaysOf(Usage(f))
  OBVIOUS
<1>3. /\ IsFiniteSet(days) /\ days # {} /\ days \subseteq Int
      /\ saved[f].start = Min(days) /\ saved[f].end = Max(days)
  BY <1>1, <1>2, FileDaysAre
<1>4. DaysOf(Covering(OneFile(f).files)) = days
  <2>1. DaysOfFiles({f}) = days
    BY <1>2 DEF DaysOfFiles
  <2> QED BY <2>1, CoveredDays DEF OneFile
<1>5. UsageRange(OneFile(f), from, to) = ResolveRange(Min(days), Max(days), from, to)
  <2>1. PICK src : src = OneFile(f)
    OBVIOUS
  <2> QED BY <1>3, <1>4, <2>1, SameRange
<1> QED BY <1>1, <1>3, <1>5 DEF FileDays

LEMMA AllFilesViewsAgree ==
    ASSUME ViewIInv, NEW from, NEW to
    PROVE  UsageRange(AllDeviceFiles, from, to) = AllFilesDays("devices", from, to)
<1>1. PICK D : D = MergedOf("devices")
  OBVIOUS
<1>2. D \subseteq Completed("devices") /\ AllDeviceFiles.files = D
  BY <1>1 DEF MergedOf, AllDeviceFiles
<1>3. PICK days : days = DaysOfFiles(D)
  OBVIOUS
<1>4. DaysOf(Covering(AllDeviceFiles.files)) = days
  BY <1>2, <1>3, CoveredDays
<1>5. CASE D = {}
  <2>1. days = {}
    BY <1>3, <1>5 DEF DaysOfFiles
  <2>2. UsageRange(AllDeviceFiles, from, to) = Refused
    BY <1>4, <2>1 DEF UsageRange
  <2> QED BY <1>1, <1>5, <2>2 DEF AllFilesDays
<1>6. CASE D # {}
  <2>1. IsFiniteSet(days) /\ days # {} /\ days \subseteq Int
    BY <1>2, <1>3, <1>6, DaysOfFilesAre
  <2>2. DaysOf(AllFilesSeries("devices")) = days
    BY <1>1, <1>3, SeriesTimes, SeriesDays
  <2>3. UsageRange(AllDeviceFiles, from, to) = ResolveRange(Min(days), Max(days), from, to)
    <3>1. PICK src : src = AllDeviceFiles
      OBVIOUS
    <3> QED BY <1>4, <2>1, <3>1, SameRange
  <2> QED BY <1>1, <1>6, <2>2, <2>3 DEF AllFilesDays
<1> QED BY <1>5, <1>6

LEMMA ViewsAnswerTheList == ViewIInv => ListedRangeIsAnswered
<1> SUFFICES ASSUME ViewIInv PROVE ListedRangeIsAnswered
  OBVIOUS
<1>1. ASSUME NEW source \in {"meter", "devices"}, Completed(source) # {}, NoFileWithoutSimulation(source)
      PROVE  AllFilesRangeIsAnswered(source)
  BY <1>1, AllFilesAnswer
<1>2. \A f \in MergedOf("meter") \union MergedOf("devices") : FileRangeIsAnswered(f)
  BY FilesAnswer
<1>3. ASSUME NEW from \in AskedDays, NEW to \in AskedDays
      PROVE  /\ \A f \in MergedOf("devices") :
                   UsageRange(OneFile(f), from, to) = FileDays(f, from, to)
             /\ UsageRange(AllDeviceFiles, from, to) = AllFilesDays("devices", from, to)
  BY FileViewsAgree, AllFilesViewsAgree
<1> QED BY <1>1, <1>2, <1>3 DEF ListedRangeIsAnswered

\* In every reachable state the range offered by the list of files is answered
\* by the dashboard with what the imports stored, whole or in parts, and by the
\* device view in the same bounds.
THEOREM ListedRangeAnswers == ViewSpec => []ListedRangeIsAnswered
BY FilesKeepWhatTheyBrought, ViewsAnswerTheList, PTL
=============================================================================
