-------------------------- MODULE DevicePlanProofs --------------------------
(***************************************************************************)
(* What is proved of the path of a device file: the plan that the schedule *)
(* keeps as groups come and go is that of the groups in it, and its moves  *)
(* keep the rules; the series of an accepted file is its actions; and the  *)
(* generator makes files that the validator accepts, whose devices use     *)
(* what the meter read.                                                    *)
(***************************************************************************)
EXTENDS DevicePlanProperties, FiniteSetTheorems, WellFoundedInduction, TLAPS

-----------------------------------------------------------------------------
(* Induction over numbers and over the elements of a finite set.           *)

\* A set of numbers that has 0, and with each number the next, has them all.
LEMMA Induct ==
    ASSUME NEW S, 0 \in S, \A n \in Nat : n \in S => n + 1 \in S
    PROVE  \A n \in Nat : n \in S
<1> SUFFICES ASSUME NEW n \in Nat, n \notin S PROVE FALSE
  OBVIOUS
<1> DEFINE R == {ss \in Nat \X Nat : ss[1] < ss[2]}
           Out == {m \in Nat : m \notin S}
<1>1. IsWellFoundedOn(R, Nat)
  <2>1. R = OpToRel(<, Nat)
    BY Zenon DEF OpToRel
  <2> QED BY <2>1, NatLessThanWellFounded
<1>2. Out \subseteq Nat /\ n \in Out
  OBVIOUS
<1>3. PICK m \in Out : \A k \in Out : ~(<<k, m>> \in R)
  <2> HIDE DEF R, Out
  <2> QED BY <1>1, <1>2, WFMin
<1>4. \A k \in Nat : k < m => k \in S
  BY <1>3
<1>5. m # 0 /\ m - 1 \in Nat /\ m - 1 < m /\ (m - 1) + 1 = m
  OBVIOUS
<1> QED BY <1>4, <1>5

\* The same by the size of the parts of a finite set: a part is in C when all smaller
\* parts of it are.
LEMMA InductByPart ==
    ASSUME NEW S, IsFiniteSet(S), NEW C,
           \A T \in SUBSET S : (\A U \in SUBSET T : U # T => U \in C) => T \in C
    PROVE  \A T \in SUBSET S : T \in C
<1> DEFINE N == {n \in Nat : \A T \in SUBSET S : Cardinality(T) <= n => T \in C}
<1>1. \A T \in SUBSET S : IsFiniteSet(T) /\ Cardinality(T) \in Nat
  BY FS_Subset, FS_CardinalityType
<1>2. ASSUME NEW n \in Nat, NEW T \in SUBSET S, Cardinality(T) <= n,
             \A U \in SUBSET S : Cardinality(U) < n => U \in C
      PROVE  T \in C
  <2>1. ASSUME NEW U \in SUBSET T, U # T PROVE U \in C
    <3>1. IsFiniteSet(T) /\ U \in SUBSET S /\ Cardinality(T) \in Nat /\ Cardinality(U) \in Nat
      BY <1>1
    <3>2. Cardinality(U) <= Cardinality(T) /\ (Cardinality(T) = Cardinality(U) => T = U)
      BY <3>1, FS_Subset
    <3>3. Cardinality(U) < n
      BY <1>2, <2>1, <3>1, <3>2
    <3> QED BY <1>2, <3>1, <3>3
  <2> QED BY <2>1
<1>3. 0 \in N
  BY <1>1, <1>2
<1>4. ASSUME NEW n \in Nat, n \in N PROVE n + 1 \in N
  <2>1. \A U \in SUBSET S : Cardinality(U) < n + 1 => U \in C
    <3> SUFFICES ASSUME NEW U \in SUBSET S, Cardinality(U) < n + 1 PROVE U \in C
      OBVIOUS
    <3>1. Cardinality(U) <= n
      BY <1>1
    <3> QED BY <1>4, <3>1
  <2> QED BY <1>2, <2>1
<1>5. \A n \in Nat : n \in N
  <2> HIDE DEF N
  <2> QED BY <1>3, <1>4, Induct
<1> QED BY <1>1, <1>5

\* A set of parts that has the empty one, and with each part that with one element
\* more, has the whole.
LEMMA InductByElement ==
    ASSUME NEW S, IsFiniteSet(S), NEW C, {} \in C,
           \A T \in SUBSET S, x \in S : T \in C /\ x \notin T => T \cup {x} \in C
    PROVE  S \in C
<1>1. ASSUME NEW T \in SUBSET S, \A U \in SUBSET T : U # T => U \in C PROVE T \in C
  <2>1. CASE T = {}
    BY <2>1
  <2>2. CASE T # {}
    <3>1. PICK x \in T : TRUE
      BY <2>2
    <3>2. T \ {x} \in SUBSET T /\ T \ {x} # T /\ (T \ {x}) \cup {x} = T
      BY <3>1
    <3>3. x \in S /\ T \ {x} \in SUBSET S /\ T \ {x} \in C /\ x \notin T \ {x}
      BY <1>1, <3>1, <3>2
    <3>4. (T \ {x}) \cup {x} \in C
      BY <3>3
    <3> QED BY <3>2, <3>4
  <2> QED BY <2>1, <2>2
<1>2. \A T \in SUBSET S : T \in C
  BY <1>1, InductByPart
<1> QED BY <1>2

-----------------------------------------------------------------------------
(* Sums. The sum of a function is computed by a recursive function that    *)
(* takes an element of each set; it does not depend on which.              *)

Taken(s) == CHOOSE x \in s : TRUE
Sums(F, f, D) == [s \in SUBSET D |-> IF s = {} THEN 0 ELSE f[Taken(s)] + F[s \ {Taken(s)}]]
SumsOf(F, f, D) ==
    /\ F \in [SUBSET D -> Int] /\ F[{}] = 0
    /\ \A s \in SUBSET D : s # {} => F[s] = f[Taken(s)] + F[s \ {Taken(s)}]

LEMMA SumsExist ==
    ASSUME NEW D, IsFiniteSet(D), NEW f, \A x \in D : f[x] \in Int
    PROVE  \E F : F = Sums(F, f, D)
<1> DEFINE Value(F, s) == IF s = {} THEN 0 ELSE f[Taken(s)] + F[s \ {Taken(s)}]
           Small(n) == {s \in SUBSET D : Cardinality(s) <= n}
           HasSums(n) == \E F \in [SUBSET D -> Int] : \A s \in Small(n) : F[s] = Value(F, s)
           N == {n \in Nat : HasSums(n)}
<1>1. \A s \in SUBSET D :
          /\ IsFiniteSet(s) /\ Cardinality(s) \in Nat /\ (Cardinality(s) = 0 <=> s = {})
          /\ Cardinality(s) <= Cardinality(D)
          /\ s # {} => /\ Taken(s) \in s /\ f[Taken(s)] \in Int /\ s \ {Taken(s)} \in SUBSET D
                       /\ Cardinality(s \ {Taken(s)}) = Cardinality(s) - 1
  <2> SUFFICES ASSUME NEW s \in SUBSET D
               PROVE  /\ IsFiniteSet(s) /\ Cardinality(s) \in Nat /\ (Cardinality(s) = 0 <=> s = {})
                      /\ Cardinality(s) <= Cardinality(D)
                      /\ s # {} => /\ Taken(s) \in s /\ f[Taken(s)] \in Int
                                   /\ s \ {Taken(s)} \in SUBSET D
                                   /\ Cardinality(s \ {Taken(s)}) = Cardinality(s) - 1
    OBVIOUS
  <2>1. IsFiniteSet(s) /\ Cardinality(s) \in Nat /\ Cardinality(s) <= Cardinality(D)
    BY FS_Subset, FS_CardinalityType
  <2>2. Cardinality(s) = 0 <=> s = {}
    BY <2>1, FS_EmptySet
  <2>3. s # {} => Taken(s) \in s
    BY DEF Taken
  <2>4. s # {} => Cardinality(s \ {Taken(s)}) = Cardinality(s) - 1
    BY <2>1, <2>3, FS_RemoveElement
  <2> QED BY <2>1, <2>2, <2>3, <2>4
<1>2. 0 \in N
  <2> DEFINE F == [s \in SUBSET D |-> 0]
  <2>1. F \in [SUBSET D -> Int]
    OBVIOUS
  <2>2. ASSUME NEW s \in Small(0) PROVE s = {}
    <3>1. s \in SUBSET D /\ Cardinality(s) <= 0
      OBVIOUS
    <3>2. Cardinality(s) \in Nat /\ (Cardinality(s) = 0 => s = {})
      BY <1>1, <3>1
    <3> QED BY <3>1, <3>2
  <2>3. \A s \in Small(0) : F[s] = Value(F, s)
    BY <2>2
  <2> QED BY <2>1, <2>3
<1>3. ASSUME NEW n \in Nat, n \in N PROVE n + 1 \in N
  <2>1. PICK F \in [SUBSET D -> Int] : \A s \in Small(n) : F[s] = Value(F, s)
    BY <1>3
  <2> DEFINE G == [s \in SUBSET D |-> IF Cardinality(s) <= n THEN F[s] ELSE Value(F, s)]
  <2>2. ASSUME NEW s \in SUBSET D PROVE Value(F, s) \in Int
    <3>1. s # {} => f[Taken(s)] \in Int /\ F[s \ {Taken(s)}] \in Int
      BY <1>1, <2>1
    <3> QED BY <3>1
  <2>3. G \in [SUBSET D -> Int]
    BY <2>2
  <2>4. ASSUME NEW s \in Small(n + 1) PROVE G[s] = Value(G, s)
    <3>1. G[s] = Value(F, s)
      BY <2>1
    <3>2. ASSUME s # {} PROVE G[s \ {Taken(s)}] = F[s \ {Taken(s)}]
      <4>1. /\ s \ {Taken(s)} \in SUBSET D /\ Cardinality(s) \in Nat
            /\ Cardinality(s \ {Taken(s)}) = Cardinality(s) - 1 /\ Cardinality(s) <= n + 1
        BY <1>1, <3>2
      <4> QED BY <4>1
    <3> HIDE DEF G
    <3> QED BY <3>1, <3>2
  <2>5. HasSums(n + 1)
    <3> HIDE DEF G, Small, Value
    <3> QED BY <2>3, <2>4
  <2> HIDE DEF HasSums
  <2> QED BY <2>5
<1>4. \A n \in Nat : n \in N
  <2> HIDE DEF N
  <2> QED BY <1>2, <1>3, Induct
<1>5. Cardinality(D) \in Nat /\ Small(Cardinality(D)) = SUBSET D
  BY <1>1
<1>6. PICK F \in [SUBSET D -> Int] : \A s \in SUBSET D : F[s] = Value(F, s)
  <2>1. Cardinality(D) \in N
    BY <1>4, <1>5
  <2> QED BY <1>5, <2>1
<1>7. F = [s \in SUBSET D |-> Value(F, s)]
  BY <1>6
<1> QED BY <1>7 DEF Sums

LEMMA SumOnSetIs ==
    ASSUME NEW D, IsFiniteSet(D), NEW f, \A x \in D : f[x] \in Int
    PROVE  \E F : SumsOf(F, f, D) /\ SumFunctionOnSet(f, D) = F[D]
<1> DEFINE G == CHOOSE F : F = Sums(F, f, D)
<1>1. SumFunctionOnSet(f, D) = G[D]
  BY DEF SumFunctionOnSet, FoldFunctionOnSet, MapThenFoldSet, Sums, Taken
<1>2. \E F : F = Sums(F, f, D)
  BY SumsExist
<1>3. G = Sums(G, f, D)
  BY <1>2
<1> HIDE DEF G
<1>4. /\ G = [s \in SUBSET D |-> G[s]] /\ G[{}] = 0
      /\ \A s \in SUBSET D : s # {} => G[s] = f[Taken(s)] + G[s \ {Taken(s)}]
  BY <1>3 DEF Sums
<1> DEFINE C == {s \in SUBSET D : G[s] \in Int}
<1>5. \A s \in SUBSET D : s \in C
  <2>1. ASSUME NEW s \in SUBSET D, \A u \in SUBSET s : u # s => u \in C PROVE s \in C
    <3>1. CASE s = {}
      BY <1>4, <3>1
    <3>2. CASE s # {}
      <4>1. Taken(s) \in s
        BY <3>2 DEF Taken
      <4>2. s \ {Taken(s)} \in C /\ f[Taken(s)] \in Int
        BY <2>1, <4>1
      <4>3. G[s] = f[Taken(s)] + G[s \ {Taken(s)}]
        BY <1>4, <3>2
      <4> QED BY <4>2, <4>3
    <3> QED BY <3>1, <3>2
  <2> HIDE DEF C
  <2> QED BY <2>1, InductByPart
<1> QED BY <1>1, <1>4, <1>5 DEF SumsOf

\* The sum of a function is that of its whole domain.
LEMMA SumIs ==
    ASSUME NEW D, IsFiniteSet(D), NEW f, DOMAIN f = D, \A x \in D : f[x] \in Int
    PROVE  \E F : SumsOf(F, f, D) /\ SumFunction(f) = F[D]
<1>1. SumFunction(f) = SumFunctionOnSet(f, D)
  BY DEF SumFunction
<1> QED BY <1>1, SumOnSetIs

\* Any element may be taken first.
FirstIsAny(F, f, D) == \A s \in SUBSET D : \A x \in s : F[s] = f[x] + F[s \ {x}]

LEMMA AnyFirst ==
    ASSUME NEW D, IsFiniteSet(D), NEW f, \A x \in D : f[x] \in Int, NEW F, SumsOf(F, f, D)
    PROVE  FirstIsAny(F, f, D)
<1> DEFINE AnyOf(s) == \A x \in s : F[s] = f[x] + F[s \ {x}]
           C == {s \in SUBSET D : AnyOf(s)}
<1>1. F \in [SUBSET D -> Int]
  BY DEF SumsOf
<1>2. ASSUME NEW s \in SUBSET D, \A u \in SUBSET s : u # s => u \in C PROVE s \in C
  <2> SUFFICES ASSUME NEW x \in s PROVE F[s] = f[x] + F[s \ {x}]
    OBVIOUS
  <2>1. PICK y \in s : y = Taken(s) /\ F[s] = f[y] + F[s \ {y}]
    BY DEF SumsOf, Taken
  <2>2. CASE x # y
    <3>1. /\ y \in s \ {x} /\ s \ {x} \in C /\ x \in s \ {y} /\ s \ {y} \in C
          /\ (s \ {x}) \ {y} = (s \ {y}) \ {x}
      BY <1>2, <2>2
    <3>2. /\ F[s \ {x}] = f[y] + F[(s \ {y}) \ {x}]
          /\ F[s \ {y}] = f[x] + F[(s \ {y}) \ {x}]
      BY <3>1
    <3>3. f[x] \in Int /\ f[y] \in Int /\ F[(s \ {y}) \ {x}] \in Int
      BY <1>1
    <3> QED BY <2>1, <3>2, <3>3
  <2> QED BY <2>1, <2>2
<1>3. \A s \in SUBSET D : s \in C
  <2> HIDE DEF C
  <2> QED BY <1>2, InductByPart
<1> QED BY <1>3 DEF FirstIsAny

\* The sum of f over a set.
SumOver(f, T) == SumFunction([x \in T |-> f[x]])

LEMMA SumOfNone == ASSUME NEW f PROVE SumOver(f, {}) = 0
<1> DEFINE g == [x \in {} |-> f[x]]
<1>1. IsFiniteSet({}) /\ DOMAIN g = {} /\ \A x \in {} : g[x] \in Int
  BY FS_EmptySet
<1> HIDE DEF g
<1>2. PICK F : SumsOf(F, g, {}) /\ SumFunction(g) = F[{}]
  BY <1>1, SumIs
<1> QED BY <1>2 DEF SumsOf, SumOver, g

LEMMA SumIsNumber ==
    ASSUME NEW T, IsFiniteSet(T), NEW f, \A x \in T : f[x] \in Int
    PROVE  SumOver(f, T) \in Int
<1> DEFINE g == [x \in T |-> f[x]]
<1>1. DOMAIN g = T /\ \A x \in T : g[x] \in Int
  OBVIOUS
<1> HIDE DEF g
<1>2. PICK F : SumsOf(F, g, T) /\ SumFunction(g) = F[T]
  BY <1>1, SumIs
<1> QED BY <1>2 DEF SumsOf, SumOver, g

LEMMA SumWith ==
    ASSUME NEW T, IsFiniteSet(T), NEW f, NEW x, x \notin T, \A y \in T \cup {x} : f[y] \in Int
    PROVE  SumOver(f, T \cup {x}) = SumOver(f, T) + f[x]
<1> DEFINE D == T \cup {x}
           g == [y \in D |-> f[y]]
           h == [y \in T |-> f[y]]
<1>1. /\ DOMAIN g = D /\ DOMAIN h = T /\ IsFiniteSet(D) /\ T \in SUBSET D /\ D \ {x} = T /\ x \in D
      /\ \A y \in D : g[y] = f[y] /\ g[y] \in Int
      /\ \A y \in T : h[y] = f[y] /\ h[y] \in Int
  BY FS_AddElement
<1>2. SumOver(f, D) = SumFunction(g) /\ SumOver(f, T) = SumFunction(h)
  BY DEF SumOver
<1> HIDE DEF D, g, h
<1>3. PICK G : SumsOf(G, g, D) /\ SumFunction(g) = G[D]
  BY <1>1, SumIs
<1>4. PICK H : SumsOf(H, h, T) /\ SumFunction(h) = H[T]
  BY <1>1, SumIs
<1>5. FirstIsAny(G, g, D)
  <2>1. IsFiniteSet(D) /\ \A y \in D : g[y] \in Int
    BY <1>1
  <2> QED BY <1>3, <2>1, AnyFirst
<1>6. FirstIsAny(H, h, T)
  <2>1. IsFiniteSet(T) /\ \A y \in T : h[y] \in Int
    BY <1>1
  <2> QED BY <1>4, <2>1, AnyFirst
<1> DEFINE C == {s \in SUBSET T : G[s] = H[s]}
<1>7. T \in C
  <2>1. {} \in C
    BY <1>3, <1>4 DEF SumsOf
  <2>2. ASSUME NEW s \in SUBSET T, NEW y \in T, s \in C, y \notin s PROVE s \cup {y} \in C
    <3>1. s \cup {y} \in SUBSET T /\ s \cup {y} \in SUBSET D /\ (s \cup {y}) \ {y} = s
          /\ y \in s \cup {y}
      BY <1>1, <2>2
    <3>2. /\ G[s \cup {y}] = g[y] + G[(s \cup {y}) \ {y}]
          /\ H[s \cup {y}] = h[y] + H[(s \cup {y}) \ {y}]
      BY <1>5, <1>6, <3>1 DEF FirstIsAny
    <3>3. g[y] = h[y] /\ G[s] = H[s]
      BY <1>1, <2>2
    <3> QED BY <3>1, <3>2, <3>3
  <2> HIDE DEF C
  <2> QED BY <2>1, <2>2, InductByElement
<1>8. G[D] = g[x] + G[T] /\ g[x] \in Int /\ G[T] \in Int
  <2>1. D \in SUBSET D
    OBVIOUS
  <2> QED BY <1>1, <1>3, <1>5, <2>1 DEF SumsOf, FirstIsAny
<1>9. SumOver(f, D) = SumOver(f, T) + f[x]
  BY <1>1, <1>2, <1>3, <1>4, <1>7, <1>8
<1> QED BY <1>9 DEF D

Numbers(f, T) == \A x \in T : f[x] \in Int

LEMMA SumStep ==
    ASSUME NEW T, IsFiniteSet(T), NEW f, NEW x, x \notin T, Numbers(f, T \cup {x})
    PROVE  SumOver(f, T \cup {x}) = SumOver(f, T) + f[x] /\ SumOver(f, T) \in Int
<1>1. (\A y \in T \cup {x} : f[y] \in Int) /\ (\A y \in T : f[y] \in Int)
  BY DEF Numbers
<1>2. SumOver(f, T \cup {x}) = SumOver(f, T) + f[x]
  BY <1>1, SumWith
<1> QED BY <1>1, <1>2, SumIsNumber

\* Equal functions have equal sums; a function without values sums to nothing.
LEMMA SumOfSame ==
    ASSUME NEW T, NEW f, NEW g, \A x \in T : f[x] = g[x]
    PROVE  SumOver(f, T) = SumOver(g, T)
<1>1. [x \in T |-> f[x]] = [x \in T |-> g[x]]
  OBVIOUS
<1> QED BY <1>1 DEF SumOver

LEMMA SumOfZeros ==
    ASSUME NEW T, IsFiniteSet(T), NEW f, \A x \in T : f[x] = 0
    PROVE  SumOver(f, T) = 0
<1> DEFINE C == {s \in SUBSET T : SumOver(f, s) = 0}
<1>1. {} \in C
  BY SumOfNone
<1>2. ASSUME NEW s \in SUBSET T, NEW x \in T, s \in C, x \notin s PROVE s \cup {x} \in C
  <2>1. IsFiniteSet(s) /\ \A y \in s \cup {x} : f[y] \in Int
    <3>1. \A y \in s \cup {x} : f[y] = 0
      OBVIOUS
    <3> QED BY <3>1, FS_Subset
  <2>2. SumOver(f, s \cup {x}) = SumOver(f, s) + f[x]
    <3>1. x \notin s
      BY <1>2
    <3> HIDE DEF C
    <3> QED BY <2>1, <3>1, SumWith
  <2> QED BY <1>2, <2>2
<1>3. T \in C
  <2> HIDE DEF C
  <2> QED BY <1>1, <1>2, InductByElement
<1> QED BY <1>3

LEMMA SumIsPositive ==
    ASSUME NEW T, IsFiniteSet(T), NEW f, \A x \in T : f[x] \in Int /\ f[x] >= 0
    PROVE  SumOver(f, T) >= 0
<1> DEFINE C == {s \in SUBSET T : SumOver(f, s) \in Int /\ SumOver(f, s) >= 0}
<1>1. {} \in C
  BY SumOfNone
<1>2. ASSUME NEW s \in SUBSET T, NEW x \in T, s \in C, x \notin s PROVE s \cup {x} \in C
  <2>1. IsFiniteSet(s) /\ \A y \in s \cup {x} : f[y] \in Int
    BY FS_Subset
  <2>2. SumOver(f, s \cup {x}) = SumOver(f, s) + f[x]
    BY <1>2, <2>1, SumWith
  <2> QED BY <1>2, <2>2
<1>3. T \in C
  <2> HIDE DEF C
  <2> QED BY <1>1, <1>2, InductByElement
<1> QED BY <1>3

\* The sum over two sets apart.
LEMMA SumOfUnion ==
    ASSUME NEW S, NEW T, IsFiniteSet(S), IsFiniteSet(T), S \cap T = {}, NEW f,
           \A x \in S \cup T : f[x] \in Int
    PROVE  SumOver(f, S \cup T) = SumOver(f, S) + SumOver(f, T)
<1> DEFINE C == {s \in SUBSET T : SumOver(f, S \cup s) = SumOver(f, S) + SumOver(f, s)}
<1>1. {} \in C
  <2>1. S \cup {} = S /\ SumOver(f, {}) = 0 /\ SumOver(f, S) \in Int
    BY SumOfNone, SumIsNumber
  <2> QED BY <2>1
<1>2. ASSUME NEW s \in SUBSET T, NEW x \in T, s \in C, x \notin s PROVE s \cup {x} \in C
  <2>1. /\ IsFiniteSet(s) /\ \A y \in s \cup {x} : f[y] \in Int
        /\ IsFiniteSet(S \cup s) /\ \A y \in (S \cup s) \cup {x} : f[y] \in Int
        /\ x \notin S \cup s /\ S \cup (s \cup {x}) = (S \cup s) \cup {x} /\ f[x] \in Int
    BY <1>2, FS_Subset, FS_Union
  <2>2. SumOver(f, s \cup {x}) = SumOver(f, s) + f[x]
    BY <1>2, <2>1, SumWith
  <2>3. SumOver(f, (S \cup s) \cup {x}) = SumOver(f, S \cup s) + f[x]
    BY <2>1, SumWith
  <2>4. SumOver(f, s) \in Int /\ SumOver(f, S) \in Int
    BY <2>1, SumIsNumber
  <2>5. SumOver(f, S \cup s) = SumOver(f, S) + SumOver(f, s)
    BY <1>2
  <2>6. SumOver(f, S \cup (s \cup {x})) = SumOver(f, S) + SumOver(f, s \cup {x})
    <3>1. S \cup (s \cup {x}) = (S \cup s) \cup {x} /\ f[x] \in Int
      BY <2>1
    <3>2. SumOver(f, (S \cup s) \cup {x}) = SumOver(f, S) + SumOver(f, s \cup {x})
      BY <2>2, <2>3, <2>4, <2>5, <3>1
    <3> QED BY <3>1, <3>2
  <2> QED BY <2>6
<1>3. T \in C
  <2> HIDE DEF C
  <2> QED BY <1>1, <1>2, InductByElement
<1> QED BY <1>3

\* The sum of sums of two functions, and of a table by rows and by columns.
LEMMA SumOfTwo ==
    ASSUME NEW T, IsFiniteSet(T), NEW f, NEW g, NEW h,
           \A x \in T : f[x] \in Int /\ g[x] \in Int /\ h[x] = f[x] + g[x]
    PROVE  SumOver(h, T) = SumOver(f, T) + SumOver(g, T)
<1> DEFINE C == {s \in SUBSET T : SumOver(h, s) = SumOver(f, s) + SumOver(g, s)}
<1>1. {} \in C
  BY SumOfNone
<1>2. ASSUME NEW s \in SUBSET T, NEW x \in T, s \in C, x \notin s PROVE s \cup {x} \in C
  <2>1. /\ IsFiniteSet(s) /\ Numbers(f, s \cup {x}) /\ Numbers(g, s \cup {x}) /\ Numbers(h, s \cup {x})
        /\ x \notin s /\ h[x] = f[x] + g[x] /\ f[x] \in Int /\ g[x] \in Int
        /\ SumOver(h, s) = SumOver(f, s) + SumOver(g, s)
    BY <1>2, FS_Subset DEF Numbers
  <2> HIDE DEF C
  <2>2. SumOver(f, s \cup {x}) = SumOver(f, s) + f[x] /\ SumOver(f, s) \in Int
    BY <2>1, SumStep
  <2>3. SumOver(g, s \cup {x}) = SumOver(g, s) + g[x] /\ SumOver(g, s) \in Int
    BY <2>1, SumStep
  <2>4. SumOver(h, s \cup {x}) = SumOver(h, s) + h[x] /\ SumOver(h, s) \in Int
    BY <2>1, SumStep
  <2>5. SumOver(h, s \cup {x}) = SumOver(f, s \cup {x}) + SumOver(g, s \cup {x})
    BY <2>1, <2>2, <2>3, <2>4
  <2> QED BY <2>5 DEF C
<1>3. T \in C
  <2> HIDE DEF C
  <2> QED BY <1>1, <1>2, InductByElement
<1> QED BY <1>3

LEMMA SumByColumns ==
    ASSUME NEW A, IsFiniteSet(A), NEW B, IsFiniteSet(B), NEW m,
           \A x \in A, y \in B : m[x][y] \in Int
    PROVE  SumOver([x \in A |-> SumOver(m[x], B)], A)
             = SumOver([y \in B |-> SumOver([x \in A |-> m[x][y]], A)], B)
<1> DEFINE rows == [x \in A |-> SumOver(m[x], B)]
           column(y) == [x \in A |-> m[x][y]]
           columns(s) == [y \in B |-> SumOver(column(y), s)]
           C == {s \in SUBSET A : SumOver(rows, s) = SumOver(columns(s), B)}
<1>1. {} \in C
  <2>1. \A y \in B : columns({})[y] = 0
    BY SumOfNone
  <2>2. SumOver(columns({}), B) = 0
    <3> HIDE DEF columns
    <3> QED BY <2>1, SumOfZeros
  <2> QED BY <2>2, SumOfNone
<1>2. ASSUME NEW s \in SUBSET A, NEW x \in A, s \in C, x \notin s PROVE s \cup {x} \in C
  <2>1. /\ IsFiniteSet(s) /\ x \notin s /\ SumOver(rows, s) = SumOver(columns(s), B)
        /\ s \cup {x} \in SUBSET A
    BY <1>2, FS_Subset
  <2> HIDE DEF C
  <2>2. \A z \in A : rows[z] = SumOver(m[z], B) /\ rows[z] \in Int
    BY SumIsNumber
  <2>3. \A y \in B, z \in A : column(y)[z] = m[z][y] /\ column(y)[z] \in Int
    OBVIOUS
  <2>4. ASSUME NEW y \in B
        PROVE  /\ columns(s)[y] \in Int /\ m[x][y] \in Int
               /\ columns(s \cup {x})[y] = columns(s)[y] + m[x][y]
    <3> DEFINE c == column(y)
    <3>1. c[x] = m[x][y] /\ Numbers(c, s \cup {x})
      BY <2>3 DEF Numbers
    <3> HIDE DEF c
    <3>2. SumOver(c, s \cup {x}) = SumOver(c, s) + c[x] /\ SumOver(c, s) \in Int
      BY <2>1, <3>1, SumStep
    <3>3. columns(s)[y] = SumOver(c, s) /\ columns(s \cup {x})[y] = SumOver(c, s \cup {x})
      BY DEF c
    <3> HIDE DEF columns, column
    <3> QED BY <3>1, <3>2, <3>3
  <2> HIDE DEF columns, column
  <2>5. SumOver(columns(s \cup {x}), B) = SumOver(columns(s), B) + SumOver(m[x], B)
    BY <2>4, SumOfTwo
  <2>6. SumOver(rows, s \cup {x}) = SumOver(rows, s) + rows[x]
    <3>1. Numbers(rows, s \cup {x})
      BY <2>2 DEF Numbers
    <3> HIDE DEF rows
    <3> QED BY <2>1, <3>1, SumStep
  <2>7. SumOver(rows, s \cup {x}) = SumOver(columns(s \cup {x}), B)
    <3> HIDE DEF rows
    <3> QED BY <2>1, <2>2, <2>5, <2>6
  <2> QED BY <2>1, <2>7 DEF C
<1>3. A \in C
  <2> HIDE DEF C
  <2> QED BY <1>1, <1>2, InductByElement
<1> QED BY <1>3

\* A sum over the elements that h gives is the sum of the values at them.
LEMMA SumAt ==
    ASSUME NEW A, IsFiniteSet(A), NEW h, \A x, y \in A : h[x] = h[y] => x = y,
           NEW f, \A x \in A : f[h[x]] \in Int,
           NEW g, \A x \in A : g[x] = f[h[x]]
    PROVE  SumOver(g, A) = SumOver(f, {h[x] : x \in A})
<1> DEFINE image(s) == {h[x] : x \in s}
           C == {s \in SUBSET A : IsFiniteSet(image(s)) /\ SumOver(g, s) = SumOver(f, image(s))}
<1>1. {} \in C
  <2>1. image({}) = {}
    OBVIOUS
  <2> HIDE DEF image
  <2> QED BY <2>1, SumOfNone, FS_EmptySet
<1>2. ASSUME NEW s \in SUBSET A, NEW x \in A, s \in C, x \notin s PROVE s \cup {x} \in C
  <2>1. /\ IsFiniteSet(image(s)) /\ SumOver(g, s) = SumOver(f, image(s))
        /\ Numbers(f, image(s) \cup {h[x]})
        /\ h[x] \notin image(s) /\ image(s \cup {x}) = image(s) \cup {h[x]}
    BY <1>2 DEF Numbers
  <2>2. IsFiniteSet(s) /\ x \notin s /\ Numbers(g, s \cup {x}) /\ g[x] = f[h[x]]
    BY <1>2, FS_Subset DEF Numbers
  <2> HIDE DEF C, image
  <2>3. SumOver(g, s \cup {x}) = SumOver(g, s) + g[x] /\ SumOver(g, s) \in Int
    BY <2>2, SumStep
  <2>4. PICK U : U = image(s)
    OBVIOUS
  <2>5. PICK v : v = h[x]
    OBVIOUS
  <2>6. SumOver(f, U \cup {v}) = SumOver(f, U) + f[v] /\ SumOver(f, U) \in Int
    <3>1. IsFiniteSet(U) /\ v \notin U /\ Numbers(f, U \cup {v})
      BY <2>1, <2>4, <2>5
    <3> QED BY <3>1, SumStep
  <2>7. IsFiniteSet(U \cup {v})
    BY <2>1, <2>4, FS_AddElement
  <2> QED BY <2>1, <2>2, <2>3, <2>4, <2>5, <2>6, <2>7 DEF C
<1>3. A \in C
  <2> HIDE DEF C
  <2> QED BY <1>1, <1>2, InductByElement
<1> QED BY <1>3

-----------------------------------------------------------------------------
(* The least of a set, and the order of one.                               *)

LEMMA LeastExists ==
    ASSUME NEW S, IsFiniteSet(S), S # {}, S \subseteq Int
    PROVE  \E m \in S : \A x \in S : m <= x
<1> DEFINE HasLeast(s) == s # {} => \E m \in s : \A x \in s : m <= x
           C == {s \in SUBSET S : HasLeast(s)}
<1>1. {} \in C
  OBVIOUS
<1>2. ASSUME NEW s \in SUBSET S, NEW x \in S, s \in C, x \notin s PROVE s \cup {x} \in C
  <2>1. HasLeast(s \cup {x})
    <3>1. CASE s = {}
      BY <3>1
    <3>2. CASE s # {}
      <4>1. PICK m \in s : \A y \in s : m <= y
        BY <1>2, <3>2
      <4>2. CASE m <= x
        BY <4>1, <4>2
      <4>3. CASE ~(m <= x)
        BY <4>1, <4>3
      <4> QED BY <4>2, <4>3
    <3> QED BY <3>1, <3>2
  <2> QED BY <2>1
<1>3. S \in C
  <2> HIDE DEF C
  <2> QED BY <1>1, <1>2, InductByElement
<1> QED BY <1>3

LEMMA MinIs ==
    ASSUME NEW S, IsFiniteSet(S), S # {}, S \subseteq Int
    PROVE  Min(S) \in S /\ \A x \in S : Min(S) <= x
BY LeastExists DEF Min

LEMMA MaxOfTwo ==
    ASSUME NEW a \in Int, NEW b \in Int
    PROVE  Max({a, b}) = IF a <= b THEN b ELSE a
<1>1. \E m \in {a, b} : \A x \in {a, b} : m >= x
  OBVIOUS
<1> QED BY <1>1 DEF Max

\* In a strict order of a finite set each number of smaller elements occurs.
StrictOrder(R, S) ==
    /\ \A x \in S : <<x, x>> \notin R
    /\ \A x, y, z \in S : <<x, y>> \in R /\ <<y, z>> \in R => <<x, z>> \in R
    /\ \A x, y \in S : x # y => <<x, y>> \in R \/ <<y, x>> \in R

LEMMA PlacesAreTaken ==
    ASSUME NEW S, IsFiniteSet(S), NEW R, StrictOrder(R, S), NEW n \in 1 .. Cardinality(S)
    PROVE  \E x \in S : Cardinality({y \in S : <<y, x>> \in R}) = n - 1
<1> DEFINE below(x) == {y \in S : <<y, x>> \in R}
           N == Cardinality(S)
           place == [x \in S |-> Cardinality(below(x))]
           T == 0 .. (N - 1)
<1>1. N \in Nat /\ IsFiniteSet(T) /\ Cardinality(T) = N
  <2>1. N \in Nat
    BY FS_CardinalityType
  <2> HIDE DEF N
  <2>2. N - 1 \in Int /\ IsFiniteSet(0 .. (N - 1))
    BY <2>1, FS_Interval
  <2>3. Cardinality(0 .. (N - 1)) = IF 0 > N - 1 THEN 0 ELSE (N - 1) - 0 + 1
    BY <2>2, FS_Interval
  <2> QED BY <2>1, <2>2, <2>3
<1>2. ASSUME NEW x \in S PROVE IsFiniteSet(below(x)) /\ Cardinality(below(x)) \in Nat
  BY FS_Subset, FS_CardinalityType
<1>3. ASSUME NEW s \in SUBSET S, NEW t \in SUBSET s, t # s PROVE Cardinality(t) < Cardinality(s)
  <2>1. /\ IsFiniteSet(s) /\ IsFiniteSet(t) /\ Cardinality(s) \in Nat /\ Cardinality(t) \in Nat
    BY FS_Subset, FS_CardinalityType
  <2>2. Cardinality(t) <= Cardinality(s) /\ (Cardinality(s) = Cardinality(t) => s = t)
    BY <2>1, FS_Subset
  <2> QED BY <1>3, <2>1, <2>2
<1>4. ASSUME NEW x \in S PROVE Cardinality(below(x)) \in T
  <2>1. below(x) \in SUBSET S /\ below(x) # S
    BY DEF StrictOrder
  <2>2. Cardinality(below(x)) < N
    BY <1>3, <2>1
  <2> QED BY <1>1, <1>2, <2>2
<1>5. ASSUME NEW x \in S, NEW y \in S, <<x, y>> \in R
      PROVE  Cardinality(below(x)) < Cardinality(below(y))
  <2>1. below(x) \in SUBSET below(y) /\ below(y) \in SUBSET S /\ x \in below(y) /\ x \notin below(x)
    BY <1>5 DEF StrictOrder
  <2> HIDE DEF below
  <2> QED BY <1>3, <2>1
<1>6. place \in [S -> T] /\ \A x, y \in S : place[x] = place[y] => x = y
  <2>1. place \in [S -> T]
    BY <1>4
  <2>2. ASSUME NEW x \in S, NEW y \in S, x # y PROVE place[x] # place[y]
    <3>1. <<x, y>> \in R \/ <<y, x>> \in R
      BY <2>2 DEF StrictOrder
    <3>2. Cardinality(below(x)) # Cardinality(below(y))
      BY SMTT(40), <1>2, <1>5, <3>1
    <3> QED BY <3>2
  <2> HIDE DEF place
  <2> QED BY <2>1, <2>2
<1>7. \A k \in T : \E x \in S : place[x] = k
  <2> HIDE DEF place, T, N
  <2>1. place \in Injection(S, T)
    BY <1>6 DEF Injection, IsInjective
  <2>2. place \in Surjection(S, T)
    BY <1>1, <2>1, FS_Injection DEF N
  <2> QED BY <2>2 DEF Surjection
<1>8. n - 1 \in T
  BY <1>1
<1>9. PICK x \in S : place[x] = n - 1
  BY <1>7, <1>8
<1> QED BY <1>9

-----------------------------------------------------------------------------
(* The invariant. In a file that was imported, and in the actions chosen   *)
(* from it, no device does two things at once.                             *)

Imported ==
    phase \in {"imported", "schedule", "answered"} =>
        ValidateDocument(doc, None) /\ series = GridSeries(doc)

Item(i) ==
    /\ i.id \in Int /\ i.device \in DOMAIN Rank /\ i.start \in Int
    /\ i.use \in Seq(Int) /\ i.use # <<>> /\ i.shift \in Nat \cup {None}
ItemsAreApart(S) ==
    /\ IsFiniteSet(S) /\ \A i \in S : Item(i)
    /\ \A i, j \in S : i # j => /\ i.id # j.id
                                /\ i.device = j.device => Used(i, 0) \cap Used(j, 0) = {}

Groups == {i.group : i \in items}
ThoseInPlan == {i \in items : i.group \in placed}
MovableGroup(g) ==
    g \in Groups /\ \A i \in Members(g) : i.movable /\ Used(i, 0) \subseteq DOMAIN prices

\* The groups that may be moved have their turns; the others do not wait.
Typed ==
    /\ ItemsAreApart(items)
    /\ DOMAIN prices \subseteq DOMAIN Local /\ \A s \in DOMAIN prices : prices[s] \in Int
    /\ limit \in Int \cup {None} /\ reserve \in BOOLEAN /\ changed \in BOOLEAN
    /\ order \in Seq(Groups) /\ turn \in 1 .. (Len(order) + 1)
    /\ \A n \in DOMAIN order : MovableGroup(order[n])
    /\ offset \in [Groups -> Int] /\ DOMAIN reason = Groups /\ pass \in 1 .. MaxPasses
    /\ DOMAIN busy = {i.device : i \in items} /\ DOMAIN load = DOMAIN Local

PlacedInTurn ==
    /\ placed \subseteq Groups /\ Groups \ Range(order) \subseteq placed
    /\ \A n \in DOMAIN order : n < turn => order[n] \in placed
    /\ reserve \/ pass > 1 => placed = Groups

OffsetsAreAllowed ==
    \A g \in Groups : offset[g] \in Offsets(g) /\ (offset[g] # 0 => g \in Range(order))

\* Busy slots and load are those of the groups in the plan, and these do not meet.
BusyIs(d) == busy[d] = UNION {Used(i, offset[i.group]) : i \in {i \in ThoseInPlan : i.device = d}}
LoadIs(s) == load[s] = SumFunction([i \in ThoseInPlan |-> UseAt(i, offset[i.group], s)])
PlanIs == (\A d \in DOMAIN busy : BusyIs(d)) /\ (\A s \in DOMAIN load : LoadIs(s))
Apart ==
    \A i, j \in ThoseInPlan :
        i # j /\ i.device = j.device => Used(i, offset[i.group]) \cap Used(j, offset[j.group]) = {}

\* What of a rejection does not depend on the plan.
PlaceFits(g, o) ==
    \A i \in Members(g) :
        /\ i.start + o \in DOMAIN Local /\ Local[i.start + o].day = Local[i.start].day
        /\ \A s \in Used(i, o) : s \in DOMAIN prices /\ (i.window # None => InWindow(i.window, s))
MovedFit == \A g \in Groups : offset[g] # 0 /\ reason[g] = None => PlaceFits(g, offset[g])

\* In a pass in which nothing has moved, the groups that had their turn have no
\* cheaper place; in the first one all are where they were.
NothingMoved == pass = 1 /\ ~changed => \A g \in Groups : offset[g] = 0
IsCheapest(g) == reason[g] = None => \A o \in Options(g) : Cost(g, offset[g]) <= Cost(g, o)
UsesArePositive == \A i \in items : \A n \in DOMAIN i.use : i.use[n] >= 0
TurnsAreCheapest ==
    UsesArePositive /\ ~changed => \A n \in DOMAIN order : n < turn => IsCheapest(order[n])

\* From the second pass on, a group that had its turn is within the limit or a conflict.
InLimit(g) == reason[g] = None => \A s \in GroupSlots(g, offset[g]) : load[s] <= limit
TurnsAreInLimit ==
    UsesArePositive /\ limit # None /\ pass > 1 => \A n \in DOMAIN order : n < turn => InLimit(order[n])

PlanInv ==
    /\ Typed /\ PlacedInTurn /\ OffsetsAreAllowed /\ PlanIs /\ Apart
    /\ MovedFit /\ NothingMoved /\ TurnsAreCheapest /\ TurnsAreInLimit
IInv ==
    /\ Imported
    /\ phase \in {"schedule", "answered"} => PlanInv
    /\ phase = "answered" => ~InPass /\ (~changed \/ pass = MaxPasses)

-----------------------------------------------------------------------------
(* An accepted file.                                                       *)

\* What the rules of the validator say of the actions.
RightAction(d, a) ==
    /\ a \in ActionsOfSchema /\ 1 <= a.start /\ a.start < a.end /\ a.end <= PeriodSlots + 1
    /\ SlotsOf(a, d) \in Seq(Int) /\ Len(SlotsOf(a, d)) = a.end - a.start
    /\ Total(SlotsOf(a, d)) = a.energy
    /\ d.devices[a.device].shift \in Nat \cup {None}

LEMMA ProfilesAreNumbers ==
    ASSUME NEW a \in ActionsOfSchema, NEW device, DeviceFollowsSchema(device), a.start < a.end
    PROVE  ActionProfile(a, device) \in Seq(Int)
<1>1. a.profile \in Seq(Int) /\ a.start \in Int /\ a.end \in Int /\ a.energy \in Int
  BY DEF ActionsOfSchema
<1>2. \A p \in DOMAIN device.programs : device.programs[p] \in Seq(Int)
  BY DEF DeviceFollowsSchema
<1>3. PICK n \in Nat \ {0} : n = a.end - a.start
  BY <1>1
<1>4. a.energy \div n \in Int
  BY <1>1
<1>5. [i \in 1 .. n |-> a.energy \div n] \in Seq(Int)
  BY <1>4
<1> QED BY <1>1, <1>2, <1>3, <1>5 DEF ActionProfile

LEMMA ActionsAreRight ==
    ASSUME NEW d, ValidateDocument(d, None)
    PROVE  /\ \A a \in Range(d.actions) : RightAction(d, a)
           /\ \A i, j \in DOMAIN d.actions : i # j => d.actions[i].id # d.actions[j].id
           /\ \A a, b \in Range(d.actions) :
                 a # b /\ a.device = b.device => Slots(a) \cap Slots(b) = {}
           /\ d.actions \in Seq(ActionsOfSchema)
<1>1. /\ d.actions \in Seq(ActionsOfSchema) /\ Range(d.actions) = Counted(d)
      /\ \A e \in DOMAIN d.devices : DeviceFollowsSchema(d.devices[e])
      /\ \A a \in Counted(d) : ActionIsRight(a, d.devices[a.device])
      /\ \A i, j \in DOMAIN d.actions : i # j => d.actions[i].id # d.actions[j].id
      /\ \A a, b \in Counted(d) : a # b /\ a.device = b.device => Slots(a) \cap Slots(b) = {}
  BY DEF ValidateDocument, FollowsSchema
<1>2. ASSUME NEW a \in Range(d.actions) PROVE RightAction(d, a)
  <2>1. a \in ActionsOfSchema
    BY <1>1 DEF Range
  <2>2. /\ a.device \in DOMAIN d.devices /\ 1 <= a.start /\ a.start < a.end /\ a.end <= PeriodSlots + 1
        /\ Len(SlotsOf(a, d)) = a.end - a.start
    BY <1>1 DEF Counted, Placed, SlotsOf
  <2>3. Total(SlotsOf(a, d)) = a.energy
    BY <1>1 DEF ActionIsRight, SlotsOf
  <2>4. SlotsOf(a, d) \in Seq(Int)
    BY <1>1, <2>1, <2>2, ProfilesAreNumbers DEF SlotsOf
  <2>5. d.devices[a.device].shift \in Nat \cup {None}
    BY <1>1, <2>2 DEF DeviceFollowsSchema
  <2> QED BY <2>1, <2>2, <2>3, <2>4, <2>5 DEF RightAction
<1> QED BY <1>1, <1>2

\* The actions to schedule are those of an accepted file.
LEMMA ChosenAreApart ==
    ASSUME NEW d, ValidateDocument(d, None), NEW records \in SUBSET Range(d.actions)
    PROVE  ItemsAreApart(ActionsFromDevices(d, records))
<1> DEFINE taken == {a \in records : a.energy >= 0}
           S == ActionsFromDevices(d, records)
<1>1. S = {ScheduleAction(d, taken, a) : a \in taken}
  BY DEF ActionsFromDevices
<1>2. \A a \in taken :
          LET i == ScheduleAction(d, taken, a)
          IN  /\ i.id = a.id /\ i.device = a.device /\ i.start = a.start
              /\ i.use = SlotsOf(a, d) /\ i.shift = d.devices[a.device].shift
  BY DEF ScheduleAction
<1>3. \A a \in taken : a \in Range(d.actions) /\ RightAction(d, a)
  BY ActionsAreRight
<1> HIDE DEF S, taken
<1>4. ASSUME NEW a \in taken, NEW i, i = ScheduleAction(d, taken, a)
      PROVE  Item(i) /\ Used(i, 0) = Slots(a)
  <2>1. /\ i.id = a.id /\ i.device = a.device /\ i.start = a.start
        /\ i.use = SlotsOf(a, d) /\ i.shift = d.devices[a.device].shift
    BY <1>2, <1>4
  <2>2. RightAction(d, a) /\ a.id \in Int /\ a.device \in DOMAIN Rank /\ a.start \in Int /\ a.end \in Int
    BY <1>3 DEF RightAction, ActionsOfSchema
  <2>3. i.use \in Seq(Int) /\ Len(i.use) = a.end - a.start /\ i.use # <<>>
    BY <2>1, <2>2 DEF RightAction
  <2>4. Item(i)
    BY <2>1, <2>2, <2>3 DEF RightAction, Item
  <2>5. i.start + 0 = a.start /\ i.start + 0 + Len(i.use) - 1 = a.end - 1
    BY <2>1, <2>2, <2>3
  <2> QED BY <2>4, <2>5 DEF Used, Slots
<1>5. ASSUME NEW i \in S, NEW j \in S, i # j
      PROVE  i.id # j.id /\ (i.device = j.device => Used(i, 0) \cap Used(j, 0) = {})
  <2>1. PICK a \in taken : i = ScheduleAction(d, taken, a)
    BY <1>1
  <2>2. PICK b \in taken : j = ScheduleAction(d, taken, b)
    BY <1>1
  <2>3. a # b
    BY <1>5, <2>1, <2>2
  <2>4. /\ i.id = a.id /\ j.id = b.id /\ i.device = a.device /\ j.device = b.device
        /\ Used(i, 0) = Slots(a) /\ Used(j, 0) = Slots(b)
    BY <1>2, <1>4, <2>1, <2>2
  <2>5. a.device = b.device => Slots(a) \cap Slots(b) = {}
    BY <1>3, <2>3, ActionsAreRight
  <2>6. PICK m \in DOMAIN d.actions, n \in DOMAIN d.actions : a = d.actions[m] /\ b = d.actions[n]
    BY <1>3 DEF Range
  <2>7. a.id # b.id
    BY <2>3, <2>6, ActionsAreRight
  <2> QED BY <2>4, <2>5, <2>7
<1>6. IsFiniteSet(S)
  <2>1. d.actions \in Seq(ActionsOfSchema)
    BY ActionsAreRight
  <2>2. IsFiniteSet(Range(d.actions))
    <3>1. Len(d.actions) \in Nat /\ DOMAIN d.actions = 1 .. Len(d.actions)
      BY <2>1
    <3>2. IsFiniteSet(DOMAIN d.actions)
      BY <3>1, FS_Interval
    <3>3. d.actions \in Surjection(DOMAIN d.actions, Range(d.actions))
      BY <2>1 DEF Range, Surjection
    <3> QED BY <3>2, <3>3, FS_Surjection
  <2>3. IsFiniteSet(taken)
    BY <2>2, FS_Subset DEF taken
  <2> DEFINE f == [a \in taken |-> ScheduleAction(d, taken, a)]
  <2>4. f \in Surjection(taken, S)
    BY <1>1 DEF Surjection
  <2> QED BY <2>3, <2>4, FS_Surjection
<1>7. \A i \in S : Item(i)
  BY <1>1, <1>4
<1> QED BY <1>5, <1>6, <1>7 DEF ItemsAreApart, S

-----------------------------------------------------------------------------
(* The order of the turns.                                                 *)

GroupsToMove(S, table) == {g \in {i.group : i \in S} : MayBeMoved(S, table, g)}
PlaceOf(K, n) == CHOOSE x \in K : Cardinality({y \in K : KeyBefore(y, x)}) = n - 1

LEMMA OrderIs ==
    ASSUME NEW S, NEW table
    PROVE  Order(S, table) =
               [n \in 1..Cardinality(Keys(S, table)) |-> PlaceOf(Keys(S, table), n)[4]]
BY DEF Order, Ordered, PlaceOf

LEMMA FirstIsThere ==
    ASSUME NEW S, ItemsAreApart(S), NEW i \in S
    PROVE  FirstOf(S, i.group) \in Of(S, i.group)
<1> DEFINE T == Of(S, i.group)
           R == {p \in T \X T : Comes(p[1], p[2])}
<1>1. T \in SUBSET S /\ i \in T
  BY DEF Of
<1>2. IsFiniteSet(T) /\ Cardinality(T) \in Nat /\ 1 \in 1..Cardinality(T)
  <2>1. IsFiniteSet(T)
    BY <1>1, FS_Subset DEF ItemsAreApart
  <2> HIDE DEF T
  <2>2. Cardinality(T) \in Nat /\ Cardinality(T) # 0
    BY <1>1, <2>1, FS_CardinalityType, FS_EmptySet
  <2> QED BY <2>1, <2>2
<1>3. \A j \in T : Rank[j.device] \in Int /\ j.start \in Int /\ j.device \in DOMAIN Rank
  BY <1>1, DeviceFileAssumption DEF ItemsAreApart, Item
<1>4. ASSUME NEW j \in T, NEW k \in T, j # k PROVE Comes(j, k) \/ Comes(k, j)
  <2>1. CASE Rank[j.device] # Rank[k.device]
    BY <1>3, <2>1 DEF Comes
  <2>2. CASE Rank[j.device] = Rank[k.device]
    <3>1. j.device = k.device
      BY <1>3, <2>2, DeviceFileAssumption
    <3>2. Used(j, 0) \cap Used(k, 0) = {}
      BY <1>1, <1>4, <3>1 DEF ItemsAreApart
    <3>3. j.start \in Used(j, 0) /\ k.start \in Used(k, 0)
      BY <1>1 DEF ItemsAreApart, Item, Used
    <3>4. j.start # k.start
      BY <3>2, <3>3
    <3> QED BY <1>3, <2>2, <3>4 DEF Comes
  <2> QED BY <2>1, <2>2
<1>5. StrictOrder(R, T)
  <2>1. \A j, k \in T : <<j, k>> \in R <=> Comes(j, k)
    OBVIOUS
  <2>2. \A j \in T : ~Comes(j, j)
    BY <1>3 DEF Comes
  <2>3. \A j, k, l \in T : Comes(j, k) /\ Comes(k, l) => Comes(j, l)
    BY <1>3 DEF Comes
  <2> HIDE DEF T, R
  <2> QED BY <1>4, <2>1, <2>2, <2>3 DEF StrictOrder
<1>6. PICK j \in T : Cardinality({k \in T : <<k, j>> \in R}) = 1 - 1
  <2> HIDE DEF T, R
  <2> QED BY SMTT(40), <1>2, <1>5, PlacesAreTaken
<1>7. {k \in T : <<k, j>> \in R} = {}
  <2> HIDE DEF T, R
  <2>1. PICK Q \in SUBSET T : Q = {k \in T : <<k, j>> \in R}
    OBVIOUS
  <2>2. IsFiniteSet(Q)
    BY <1>2, FS_Subset
  <2>3. Cardinality(Q) = 1 - 1
    BY <1>6, <2>1
  <2> QED BY <2>1, <2>2, <2>3, FS_EmptySet
<1>8. \A k \in T \ {j} : Comes(j, k)
  BY <1>4, <1>7
<1> QED BY <1>8 DEF FirstOf

LEMMA EnergyIsNumber ==
    ASSUME NEW S, ItemsAreApart(S), NEW g
    PROVE  EnergyOf(S, g) \in Int
<1> DEFINE T == Of(S, g)
           f == [i \in T |-> Total(i.use)]
<1>1. IsFiniteSet(T)
  BY FS_Subset DEF Of, ItemsAreApart
<1>2. ASSUME NEW i \in T PROVE Total(i.use) \in Int
  <2>1. PICK u \in Seq(Int) : u = i.use
    BY DEF Of, ItemsAreApart, Item
  <2>2. IsFiniteSet(DOMAIN u) /\ u = [n \in DOMAIN u |-> u[n]] /\ \A n \in DOMAIN u : u[n] \in Int
    <3>1. PICK n \in Nat : n = Len(u) /\ DOMAIN u = 1..n
      OBVIOUS
    <3>2. IsFiniteSet(1..n)
      BY FS_Interval
    <3> QED BY <3>1, <3>2
  <2>3. SumOver(u, DOMAIN u) \in Int
    BY <2>2, SumIsNumber
  <2> QED BY <2>1, <2>2, <2>3 DEF SumOver, Total
<1>3. \A i \in T : f[i] \in Int
  BY <1>2
<1>4. SumOver(f, T) \in Int
  <2> HIDE DEF f, T
  <2> QED BY <1>1, <1>3, SumIsNumber
<1>5. EnergyOf(S, g) = SumOver(f, T)
  BY DEF EnergyOf, SumOver
<1> QED BY <1>4, <1>5

\* The turns are those of groups that may be moved.
LEMMA TurnsAreMovable ==
    ASSUME NEW S, ItemsAreApart(S), NEW table
    PROVE  /\ Order(S, table) \in Seq({i.group : i \in S})
           /\ \A n \in DOMAIN Order(S, table) : MayBeMoved(S, table, Order(S, table)[n])
<1> DEFINE G == GroupsToMove(S, table)
           K == Keys(S, table)
           R == {p \in K \X K : KeyBefore(p[1], p[2])}
<1>1. G \subseteq {i.group : i \in S} /\ \A g \in G : MayBeMoved(S, table, g)
  BY DEF GroupsToMove
<1>2. ASSUME NEW g \in G
      PROVE  /\ EnergyOf(S, g) \in Int /\ FirstOf(S, g) \in Of(S, g)
             /\ FirstOf(S, g).start \in Int /\ FirstOf(S, g).id \in Int
  <2>1. PICK i \in S : g = i.group
    BY <1>1
  <2>2. FirstOf(S, g) \in Of(S, g)
    BY <2>1, FirstIsThere
  <2>3. Item(FirstOf(S, g))
    BY <2>2 DEF Of, ItemsAreApart
  <2> QED BY <2>2, <2>3, EnergyIsNumber DEF Item
<1>3. \A k \in K : k[1] \in Int /\ k[2] \in Int /\ k[3] \in Int /\ k[4] \in G
  BY <1>2 DEF Keys, Key, GroupsToMove
<1>4. ASSUME NEW k \in K, NEW l \in K, k[3] = l[3] PROVE k = l
  <2>1. PICK g \in G, h \in G : k = Key(S, g) /\ l = Key(S, h)
    BY DEF Keys, GroupsToMove
  <2>2. FirstOf(S, g).id = FirstOf(S, h).id
    BY <1>4, <2>1 DEF Key
  <2>3. /\ FirstOf(S, g) \in S /\ FirstOf(S, h) \in S
        /\ FirstOf(S, g).group = g /\ FirstOf(S, h).group = h
    BY <1>2 DEF Of
  <2>4. FirstOf(S, g) = FirstOf(S, h)
    BY <2>2, <2>3 DEF ItemsAreApart
  <2> QED BY <2>1, <2>3, <2>4
<1>5. IsFiniteSet(K)
  <2> DEFINE groupOf == [i \in S |-> i.group]
             keyOf == [g \in G |-> Key(S, g)]
  <2>1. IsFiniteSet(S) /\ groupOf \in Surjection(S, {i.group : i \in S})
    BY DEF ItemsAreApart, Surjection
  <2>2. IsFiniteSet({i.group : i \in S})
    BY <2>1, FS_Surjection
  <2>3. IsFiniteSet(G)
    BY <1>1, <2>2, FS_Subset
  <2>4. keyOf \in Surjection(G, K)
    BY DEF Keys, GroupsToMove, Surjection
  <2> HIDE DEF G, K, keyOf
  <2> QED BY <2>3, <2>4, FS_Surjection
<1>6. StrictOrder(R, K)
  <2>1. \A k, l \in K : <<k, l>> \in R <=> KeyBefore(k, l)
    OBVIOUS
  <2>2. ASSUME NEW k, NEW l
        PROVE  KeyBefore(k, l) <=> \/ k[1] < l[1]
                                   \/ k[1] = l[1] /\ k[2] < l[2]
                                   \/ k[1] = l[1] /\ k[2] = l[2] /\ k[3] < l[3]
    <3>1. 1..(1 - 1) = {} /\ 1..(2 - 1) = {1} /\ 1..(3 - 1) = {1, 2} /\ 1..3 = {1, 2, 3}
      OBVIOUS
    <3>2. /\ \A m \in 1..(1 - 1) : k[m] = l[m]
          /\ (\A m \in 1..(2 - 1) : k[m] = l[m]) <=> k[1] = l[1]
          /\ (\A m \in 1..(3 - 1) : k[m] = l[m]) <=> k[1] = l[1] /\ k[2] = l[2]
      BY <3>1
    <3> QED BY <3>1, <3>2 DEF KeyBefore
  <2> HIDE DEF K, R
  <2>3. \A k \in K : ~KeyBefore(k, k)
    BY <1>3, <2>2
  <2>4. ASSUME NEW k \in K, NEW l \in K, NEW m \in K, KeyBefore(k, l), KeyBefore(l, m)
        PROVE  KeyBefore(k, m)
    <3>1. /\ k[1] \in Int /\ k[2] \in Int /\ k[3] \in Int
          /\ l[1] \in Int /\ l[2] \in Int /\ l[3] \in Int
          /\ m[1] \in Int /\ m[2] \in Int /\ m[3] \in Int
      BY <1>3
    <3> QED BY <2>2, <2>4, <3>1
  <2>5. ASSUME NEW k \in K, NEW l \in K, k # l PROVE KeyBefore(k, l) \/ KeyBefore(l, k)
    <3>1. k[3] # l[3]
      BY <1>4, <2>5
    <3> QED BY <1>3, <2>2, <3>1
  <2> QED BY <2>1, <2>3, <2>4, <2>5 DEF StrictOrder
<1>7. ASSUME NEW n \in 1..Cardinality(K) PROVE PlaceOf(K, n) \in K
  <2>1. \E x \in K : Cardinality({y \in K : <<y, x>> \in R}) = n - 1
    <3> HIDE DEF K, R
    <3> QED BY <1>5, <1>6, PlacesAreTaken
  <2>2. PICK x \in K : Cardinality({y \in K : <<y, x>> \in R}) = n - 1
    BY <2>1
  <2>3. {y \in K : <<y, x>> \in R} = {y \in K : KeyBefore(y, x)}
    OBVIOUS
  <2> HIDE DEF K, R
  <2> QED BY <2>2, <2>3 DEF PlaceOf
<1>8. Cardinality(K) \in Nat
  BY <1>5, FS_CardinalityType
<1>9. Order(S, table) = [n \in 1..Cardinality(K) |-> PlaceOf(K, n)[4]]
  BY OrderIs
<1> HIDE DEF K, G
<1>10. \A n \in 1..Cardinality(K) : PlaceOf(K, n)[4] \in G
  BY <1>3, <1>7
<1>11. PICK seq : seq = Order(S, table)
  OBVIOUS
<1>12. seq \in Seq(G)
  BY <1>8, <1>9, <1>10, <1>11
<1> QED BY <1>1, <1>11, <1>12

-----------------------------------------------------------------------------
(* The shifts that a group may take.                                       *)

MostOf(g) ==
    Min({MaxSlotsInDay} \cup {i.shift : i \in {i \in Members(g) : i.shift # None}})
OffsetsAreBounded(g) ==
    /\ 0 \in Offsets(g) /\ Offsets(g) \subseteq Int /\ IsFiniteSet(Offsets(g))
    /\ \A i \in Members(g) : i.shift # None => \A o \in Offsets(g) : o \in -i.shift .. i.shift

LEMMA OffsetsAre == ItemsAreApart(items) => \A g : OffsetsAreBounded(g)
<1> SUFFICES ASSUME ItemsAreApart(items), NEW g PROVE OffsetsAreBounded(g)
  OBVIOUS
<1> DEFINE M == {i \in Members(g) : i.shift # None}
           T == {MaxSlotsInDay} \cup {i.shift : i \in M}
<1>1. \A i \in M : i.shift \in Nat
  BY DEF ItemsAreApart, Item, Members
<1>2. IsFiniteSet(T) /\ T # {} /\ T \subseteq Nat
  <2> DEFINE h == [i \in M |-> i.shift]
             U == {i.shift : i \in M}
  <2>1. M \in SUBSET items /\ IsFiniteSet(items)
    BY DEF ItemsAreApart, Members
  <2>2. IsFiniteSet(M)
    <3> HIDE DEF M
    <3> QED BY <2>1, FS_Subset
  <2>3. h \in Surjection(M, U)
    BY DEF Surjection
  <2>4. IsFiniteSet(U)
    <3> HIDE DEF h, U, M
    <3> QED BY <2>2, <2>3, FS_Surjection
  <2>5. IsFiniteSet({MaxSlotsInDay} \cup U)
    BY <2>4, FS_AddElement
  <2> QED BY <1>1, <2>5, SchedulingAssumption
<1>3. MostOf(g) \in T /\ \A x \in T : MostOf(g) <= x
  <2>1. T \subseteq Int /\ MostOf(g) = Min(T)
    BY <1>2 DEF MostOf
  <2> HIDE DEF T
  <2> QED BY <1>2, <2>1, MinIs
<1>4. PICK most \in Nat : most = MostOf(g)
  BY <1>2, <1>3
<1>5. Offsets(g) = {o \in -most .. most :
          \A i \in {i \in Members(g) : i.window # None /\ InWindow(i.window, i.start)} :
              \A p \in Min({0, o}) .. Max({0, o}) : InWindow(i.window, i.start + p)}
  BY <1>4 DEF Offsets, MostOf
<1>6. IsFiniteSet(-most .. most) /\ Offsets(g) \in SUBSET (-most .. most)
  BY <1>5, FS_Interval
<1>7. 0 \in Offsets(g)
  <2>1. Max({0, 0}) = 0
    BY MaxOfTwo
  <2>2. Min({0, 0}) = 0
    <3>1. {0, 0} = {0} /\ IsFiniteSet({0}) /\ {0} # {} /\ {0} \subseteq Int
      BY FS_Singleton
    <3>2. Min({0}) \in {0}
      BY <3>1, MinIs
    <3> QED BY <3>1, <3>2
  <2>3. \A i \in Members(g) : i.start + 0 = i.start
    BY DEF ItemsAreApart, Item, Members
  <2>4. 0 \in -most .. most /\ 0..0 = {0}
    OBVIOUS
  <2> QED BY <1>5, <2>1, <2>2, <2>3, <2>4
<1>8. ASSUME NEW i \in Members(g), i.shift # None, NEW o \in Offsets(g)
      PROVE  o \in -i.shift .. i.shift
  <2>1. i.shift \in T
    BY <1>8
  <2>2. most <= i.shift /\ i.shift \in Nat /\ o \in -most .. most
    BY <1>1, <1>3, <1>4, <1>6, <1>8, <2>1
  <2> QED BY <2>2
<1>9. IsFiniteSet(Offsets(g)) /\ Offsets(g) \subseteq Int
  BY <1>6, FS_Subset
<1> QED BY <1>7, <1>8, <1>9 DEF OffsetsAreBounded

-----------------------------------------------------------------------------
(* The plan as it is made.                                                 *)

TableIsTyped(table) == DOMAIN table \subseteq DOMAIN Local /\ \A s \in DOMAIN table : table[s] \in Int

LEMMA ArrangeInv ==
    ASSUME NEW S, ItemsAreApart(S), NEW table, TableIsTyped(table), NEW most \in Int \cup {None},
           NEW r \in BOOLEAN, Arrange(S, table, most, r)
    PROVE  PlanInv'
<1> DEFINE G == {i.group : i \in S}
<1>1. /\ items' = S /\ prices' = table /\ limit' = most /\ reserve' = r
      /\ order' = Order(S, table) /\ offset' = [g \in G |-> 0] /\ DOMAIN reason' = G
      /\ turn' = 1 /\ changed' = FALSE /\ pass' = 1
      /\ placed' = IF r THEN G ELSE G \ Range(order')
  BY DEF Arrange
<1>2. PICK seq : seq = order'
  OBVIOUS
<1>3. seq \in Seq(G) /\ \A n \in DOMAIN seq : MayBeMoved(S, table, seq[n])
  BY <1>1, <1>2, TurnsAreMovable
<1>4. Groups' = G /\ \A g : Members(g)' = Of(S, g)
  BY <1>1 DEF Groups, Members, Of
<1>5. \A i \in S : i.group \in G /\ offset'[i.group] = 0
  BY <1>1
<1>6. ThoseInPlan' = {i \in S : i.group \in placed'}
  BY <1>1 DEF ThoseInPlan
<1>7. Typed'
  <2>1. ItemsAreApart(items)'
    BY <1>1 DEF ItemsAreApart
  <2>2. (DOMAIN prices \subseteq DOMAIN Local /\ \A s \in DOMAIN prices : prices[s] \in Int)'
    BY <1>1 DEF TableIsTyped
  <2>3. (limit \in Int \cup {None} /\ reserve \in BOOLEAN /\ changed \in BOOLEAN)'
    BY <1>1
  <2>7. (order \in Seq(Groups) /\ turn \in 1 .. (Len(order) + 1))'
    <3>1. 1 \in 1 .. (Len(seq) + 1)
      BY <1>3
    <3> QED BY <1>1, <1>2, <1>3, <1>4, <3>1
  <2>4. (\A n \in DOMAIN order : MovableGroup(order[n]))'
    <3> SUFFICES ASSUME NEW n \in DOMAIN seq PROVE MovableGroup(seq[n])'
      BY <1>2
    <3>1. seq[n] \in G
      BY <1>3
    <3> QED BY <1>1, <1>3, <1>4, <3>1 DEF MovableGroup, MayBeMoved
  <2>5. (offset \in [Groups -> Int] /\ DOMAIN reason = Groups /\ pass \in 1 .. MaxPasses)'
    BY <1>1, <1>4, SchedulingAssumption
  <2>6. (DOMAIN busy = {i.device : i \in items} /\ DOMAIN load = DOMAIN Local)'
    BY <1>1 DEF Arrange
  <2> QED BY <2>1, <2>2, <2>3, <2>4, <2>5, <2>6, <2>7 DEF Typed
<1>8. \A n \in DOMAIN seq : ~(n < turn')
  BY <1>1, <1>3
<1>9. PlacedInTurn'
  BY <1>1, <1>2, <1>4, <1>8 DEF PlacedInTurn
<1>10. OffsetsAreAllowed'
  <2>1. (ItemsAreApart(items) => \A g : OffsetsAreBounded(g))'
    BY OffsetsAre, PTL
  <2>2. \A g : OffsetsAreBounded(g)'
    BY <1>7, <2>1 DEF Typed
  <2>3. \A g : 0 \in Offsets(g)'
    BY <2>2 DEF OffsetsAreBounded
  <2>4. \A g \in G : offset'[g] = 0
    BY <1>1
  <2> QED BY <1>4, <2>3, <2>4 DEF OffsetsAreAllowed
<1>11. PlanIs'
  <2> DEFINE there == {i \in S : i.group \in placed'}
  <2>1. /\ busy' = [d \in {i.device : i \in S} |->
                       UNION {Used(i, 0) : i \in {i \in there : i.device = d}}]
        /\ load' = [s \in DOMAIN Local |-> SumFunction([i \in there |-> UseAt(i, 0, s)])]
    BY <1>1 DEF Arrange
  <2>2. there = ThoseInPlan' /\ \A i \in there : offset'[i.group] = 0
    BY <1>5, <1>6
  <2>3. ASSUME NEW d \in DOMAIN busy' PROVE BusyIs(d)'
    <3>1. busy'[d] = UNION {Used(i, 0) : i \in {i \in there : i.device = d}}
      BY <2>1, <2>3
    <3>2. {Used(i, 0) : i \in {i \in there : i.device = d}}
            = {Used(i, offset'[i.group]) : i \in {i \in there : i.device = d}}
      BY <2>2
    <3> HIDE DEF there
    <3> QED BY <2>2, <3>1, <3>2 DEF BusyIs
  <2>4. ASSUME NEW s \in DOMAIN load' PROVE LoadIs(s)'
    <3>1. load'[s] = SumFunction([i \in there |-> UseAt(i, 0, s)])
      BY <2>1, <2>4
    <3>2. [i \in there |-> UseAt(i, 0, s)] = [i \in there |-> UseAt(i, offset'[i.group], s)]
      BY <2>2
    <3> HIDE DEF there
    <3> QED BY <2>2, <3>1, <3>2 DEF LoadIs
  <2> QED BY <2>3, <2>4 DEF PlanIs
<1>12. Apart'
  <2> SUFFICES ASSUME NEW i \in ThoseInPlan', NEW j \in ThoseInPlan', i # j, i.device = j.device
               PROVE  Used(i, offset'[i.group]) \cap Used(j, offset'[j.group]) = {}
    BY DEF Apart
  <2>1. i \in S /\ j \in S
    BY <1>6
  <2> QED BY <1>5, <2>1 DEF ItemsAreApart
<1>13. MovedFit' /\ NothingMoved'
  BY <1>1, <1>4 DEF MovedFit, NothingMoved
<1>14. TurnsAreCheapest' /\ TurnsAreInLimit'
  BY <1>1, <1>2, <1>8 DEF TurnsAreCheapest, TurnsAreInLimit
<1> QED BY <1>7, <1>9, <1>10, <1>11, <1>12, <1>13, <1>14 DEF PlanInv

-----------------------------------------------------------------------------
(* Uses, costs and the cheapest of the places that are left.               *)

LEMMA UseIs ==
    ASSUME NEW i, Item(i), NEW o \in Int
    PROVE  /\ IsFiniteSet(Used(i, o)) /\ Used(i, o) \subseteq Int
           /\ \A s : UseAt(i, o, s) \in Int /\ (s \notin Used(i, o) => UseAt(i, o, s) = 0)
           /\ (\A n \in DOMAIN i.use : i.use[n] >= 0) => \A s : UseAt(i, o, s) >= 0
           /\ \A s \in Used(i, o) : s - o \in Used(i, 0)
<1>1. i.start \in Int /\ i.use \in Seq(Int) /\ Len(i.use) \in Nat /\ DOMAIN i.use = 1..Len(i.use)
  BY DEF Item
<1>2. IsFiniteSet(Used(i, o)) /\ Used(i, o) \subseteq Int
  <2>1. i.start + o \in Int /\ i.start + o + Len(i.use) - 1 \in Int
    BY <1>1
  <2> QED BY <2>1, FS_Interval DEF Used
<1>3. ASSUME NEW s \in Used(i, o)
      PROVE  /\ s \in Int /\ s - i.start - o + 1 \in DOMAIN i.use /\ s - o \in Used(i, 0)
             /\ UseAt(i, o, s) = i.use[s - i.start - o + 1]
  <2>1. s \in Int /\ s >= i.start + o /\ s <= i.start + o + Len(i.use) - 1
    BY <1>1, <1>2 DEF Used
  <2>2. s - i.start - o + 1 \in 1..Len(i.use)
    BY <1>1, <2>1
  <2>3. s - o \in (i.start + 0)..(i.start + 0 + Len(i.use) - 1)
    BY <1>1, <2>1
  <2>4. UseAt(i, o, s) = i.use[s - i.start - o + 1]
    BY DEF UseAt
  <2> QED BY <1>1, <2>1, <2>2, <2>3, <2>4 DEF Used
<1>4. \A n \in DOMAIN i.use : i.use[n] \in Int
  BY <1>1
<1>5. \A s : s \notin Used(i, o) => UseAt(i, o, s) = 0
  BY DEF UseAt
<1>6. \A s : UseAt(i, o, s) \in Int
  BY <1>3, <1>4, <1>5
<1>7. ASSUME \A n \in DOMAIN i.use : i.use[n] >= 0, NEW s PROVE UseAt(i, o, s) >= 0
  BY <1>3, <1>5, <1>7
<1> QED BY <1>2, <1>3, <1>5, <1>6, <1>7

LEMMA GroupUseIs ==
    ASSUME ItemsAreApart(items), NEW g, NEW o \in Int
    PROVE  /\ \A s : GroupUse(g, o, s) \in Int
           /\ \A s : s \notin GroupSlots(g, o) => GroupUse(g, o, s) = 0
           /\ UsesArePositive => \A s : GroupUse(g, o, s) >= 0
<1>1. IsFiniteSet(Members(g)) /\ Members(g) \subseteq items /\ \A i \in Members(g) : Item(i)
  BY FS_Subset DEF ItemsAreApart, Members
<1>2. SUFFICES ASSUME NEW s
               PROVE  /\ GroupUse(g, o, s) \in Int
                      /\ s \notin GroupSlots(g, o) => GroupUse(g, o, s) = 0
                      /\ UsesArePositive => GroupUse(g, o, s) >= 0
  OBVIOUS
<1> DEFINE f == [i \in Members(g) |-> UseAt(i, o, s)]
<1>3. GroupUse(g, o, s) = SumOver(f, Members(g))
  BY DEF GroupUse, SumOver
<1>4. \A i \in Members(g) : f[i] = UseAt(i, o, s) /\ f[i] \in Int
  BY <1>1, UseIs
<1> HIDE DEF f
<1>5. SumOver(f, Members(g)) \in Int
  BY <1>1, <1>4, SumIsNumber
<1>6. ASSUME s \notin GroupSlots(g, o) PROVE SumOver(f, Members(g)) = 0
  <2>1. \A i \in Members(g) : s \notin Used(i, o)
    BY <1>6 DEF GroupSlots
  <2>2. \A i \in Members(g) : f[i] = 0
    BY <1>1, <1>4, <2>1, UseIs
  <2> QED BY <1>1, <2>2, SumOfZeros
<1>7. ASSUME UsesArePositive PROVE SumOver(f, Members(g)) >= 0
  <2>1. ASSUME NEW i \in Members(g) PROVE f[i] \in Int /\ f[i] >= 0
    <3>1. Item(i) /\ \A n \in DOMAIN i.use : i.use[n] >= 0
      BY <1>1, <1>7 DEF UsesArePositive
    <3> QED BY <1>4, <3>1, UseIs
  <2> QED BY <1>1, <2>1, SumIsPositive
<1> QED BY <1>3, <1>5, <1>6, <1>7

LEMMA CostIsNumber ==
    ASSUME ItemsAreApart(items), TableIsTyped(prices), NEW g, NEW o \in Int,
           \A i \in Members(g) : Used(i, o) \subseteq DOMAIN prices
    PROVE  Cost(g, o) \in Int
<1>1. IsFiniteSet(Members(g)) /\ \A i \in Members(g) : Item(i)
  BY FS_Subset DEF ItemsAreApart, Members
<1>2. ASSUME NEW i \in Members(g) PROVE ItemCost(i, o) \in Int
  <2> DEFINE f == [s \in Used(i, o) |-> prices[s] * UseAt(i, o, s)]
  <2>1. ASSUME NEW s \in Used(i, o) PROVE f[s] \in Int
    <3>1. prices[s] \in Int /\ UseAt(i, o, s) \in Int
      BY <1>1, UseIs DEF TableIsTyped
    <3> QED BY <3>1
  <2>2. ItemCost(i, o) = SumOver(f, Used(i, o))
    BY DEF ItemCost, SumOver
  <2>3. IsFiniteSet(Used(i, o))
    BY <1>1, UseIs
  <2> HIDE DEF f
  <2> QED BY <2>1, <2>2, <2>3, SumIsNumber
<1> DEFINE f == [i \in Members(g) |-> ItemCost(i, o)]
<1>3. Cost(g, o) = SumOver(f, Members(g)) /\ \A i \in Members(g) : f[i] \in Int
  BY <1>2 DEF Cost, SumOver
<1> HIDE DEF f
<1> QED BY <1>1, <1>3, SumIsNumber

IsFree(g, o, busyNow) == \A i \in Members(g) : Used(i, o) \cap busyNow[i.device] = {}
IsWithin(g, o, loadNow) ==
    limit # None => \A s \in GroupSlots(g, o) : ~(loadNow[s] + GroupUse(g, o, s) > limit)

LEMMA NotRejected ==
    ASSUME NEW g, NEW o, NEW busyNow, NEW loadNow
    PROVE  Rejection(g, o, busyNow, loadNow) = None
             <=> PlaceFits(g, o) /\ IsFree(g, o, busyNow) /\ IsWithin(g, o, loadNow)
<1> DEFINE otherDay == \E i \in Members(g) : \/ i.start + o \notin DOMAIN Local
                                             \/ Local[i.start + o].day /= Local[i.start].day
           outside == \E i \in Members(g) : i.window /= None /\
                          \E s \in Used(i, o) : ~InWindow(i.window, s)
           meets == \E i \in Members(g) : Used(i, o) \cap busyNow[i.device] /= {}
           unpriced == ~(GroupSlots(g, o) \subseteq DOMAIN prices)
           over == limit /= None /\ \E s \in GroupSlots(g, o) :
                       loadNow[s] + GroupUse(g, o, s) > limit
<1>1. Rejection(g, o, busyNow, loadNow) =
          CASE otherDay -> "other_day" [] outside -> "outside_window" [] meets -> "device_busy"
            [] unpriced -> "missing_prices" [] over -> "grid_limit" [] OTHER -> None
  BY DEF Rejection
<1>2. "other_day" # None /\ "outside_window" # None /\ "device_busy" # None
      /\ "missing_prices" # None /\ "grid_limit" # None
  BY SchedulingAssumption
<1>3. PlaceFits(g, o) <=> ~otherDay /\ ~outside /\ ~unpriced
  BY DEF PlaceFits, GroupSlots
<1>4. IsFree(g, o, busyNow) <=> ~meets
  BY DEF IsFree
<1>5. IsWithin(g, o, loadNow) <=> ~over
  BY DEF IsWithin
<1> HIDE DEF otherDay, outside, meets, unpriced, over
<1> QED BY <1>1, <1>2, <1>3, <1>4, <1>5

LEMMA CheapestIs ==
    ASSUME ItemsAreApart(items), TableIsTyped(prices), NEW g, Options(g) # {}
    PROVE  /\ Cheapest(g, Options(g)) \in Options(g)
           /\ \A o \in Options(g) : Cost(g, Cheapest(g, Options(g))) <= Cost(g, o)
<1>1. PICK P : P = Options(g)
  OBVIOUS
<1>2. OffsetsAreBounded(g)
  BY OffsetsAre
<1>3. P \subseteq Offsets(g) /\ P \subseteq Int /\ IsFiniteSet(P)
  <2>1. P \subseteq Offsets(g)
    BY <1>1 DEF Options
  <2> QED BY <1>2, <2>1, FS_Subset DEF OffsetsAreBounded
<1>4. ASSUME NEW o \in P PROVE Cost(g, o) \in Int
  <2>1. PlaceFits(g, o)
    BY <1>1, NotRejected DEF Options
  <2>2. o \in Int /\ \A i \in Members(g) : Used(i, o) \subseteq DOMAIN prices
    BY <1>3, <2>1 DEF PlaceFits
  <2> QED BY <2>2, CostIsNumber
<1> DEFINE cost == [o \in P |-> Cost(g, o)]
           costs == {cost[p] : p \in P}
           cheap == {o \in P : cost[o] = Min(costs)}
           far == {Distance(p) : p \in cheap}
           near == {o \in cheap : \A p \in cheap : Distance(o) <= Distance(p)}
<1>5. Cheapest(g, P) = Min(near)
  BY DEF Cheapest
<1>6. \A o \in P : cost[o] = Cost(g, o) /\ cost[o] \in Int
  BY <1>4
<1>7. Min(costs) \in costs /\ \A c \in costs : Min(costs) <= c
  <2>1. IsFiniteSet(costs)
    <3>1. cost \in Surjection(P, costs)
      BY DEF Surjection
    <3> HIDE DEF cost, costs
    <3> QED BY <1>3, <3>1, FS_Surjection
  <2>2. costs # {} /\ costs \subseteq Int
    BY <1>1, <1>6
  <2> HIDE DEF costs
  <2> QED BY <2>1, <2>2, MinIs
<1>8. cheap # {} /\ cheap \subseteq P /\ IsFiniteSet(cheap)
  <2>1. cheap # {}
    BY <1>7
  <2> QED BY <1>3, <2>1, FS_Subset
<1>9. \A o \in cheap : \A p \in P : cost[o] <= cost[p]
  BY <1>7
<1>10. near # {}
  <2>1. \A p \in cheap : Distance(p) \in Int
    <3> SUFFICES ASSUME NEW p \in cheap PROVE Distance(p) \in Int
      OBVIOUS
    <3>1. p \in Int /\ -p \in Int
      BY <1>3, <1>8
    <3> HIDE DEF cheap
    <3> QED BY <3>1, MaxOfTwo DEF Distance
  <2>2. IsFiniteSet(far)
    <3> DEFINE h == [p \in cheap |-> Distance(p)]
    <3>1. h \in Surjection(cheap, far)
      BY DEF Surjection
    <3> HIDE DEF h, cheap, far
    <3> QED BY <1>8, <3>1, FS_Surjection
  <2>3. far # {} /\ far \subseteq Int
    BY <1>8, <2>1
  <2>4. PICK m \in far : \A x \in far : m <= x
    <3> HIDE DEF far
    <3> QED BY <2>2, <2>3, LeastExists
  <2>5. PICK p \in cheap : m = Distance(p)
    BY <2>4
  <2>6. \A q \in cheap : Distance(p) <= Distance(q)
    BY <2>4, <2>5
  <2> QED BY <2>5, <2>6
<1>11. Min(near) \in near
  <2>1. near \subseteq cheap /\ near \subseteq Int
    BY <1>3, <1>8
  <2>2. IsFiniteSet(near)
    BY <1>8, <2>1, FS_Subset
  <2> HIDE DEF near
  <2> QED BY <1>10, <2>1, <2>2, MinIs
<1>12. Cheapest(g, P) \in cheap
  BY <1>5, <1>11
<1>13. PICK c \in P : c = Cheapest(g, P) /\ \A p \in P : cost[c] <= cost[p]
  <2> HIDE DEF cost
  <2> QED BY <1>8, <1>9, <1>12
<1> HIDE DEF cost, cheap, near, costs, far
<1> QED BY <1>1, <1>6, <1>13

-----------------------------------------------------------------------------
(* The plan without a group.                                               *)

Others(g) == {i \in items : i.group \in placed \ {g}}
UsesAt(s) == [i \in items |-> UseAt(i, offset[i.group], s)]
DeviceUse(d, T) == UNION {Used(i, offset[i.group]) : i \in {i \in T : i.device = d}}
WithoutIs(g) ==
    /\ \A d \in DOMAIN busy : BusyWithout(g)[d] = DeviceUse(d, Others(g))
    /\ \A s \in DOMAIN load : LoadWithout(g)[s] = SumOver(UsesAt(s), Others(g))
    /\ \A s \in DOMAIN load : load[s] = SumOver(UsesAt(s), ThoseInPlan)
    /\ \A d \in DOMAIN busy : busy[d] = DeviceUse(d, ThoseInPlan)

LEMMA UsesAtIs ==
    ASSUME Typed, NEW s, NEW T \in SUBSET items
    PROVE  IsFiniteSet(T) /\ Numbers(UsesAt(s), T) /\ SumOver(UsesAt(s), T) \in Int
<1>1. IsFiniteSet(T)
  BY FS_Subset DEF Typed, ItemsAreApart
<1>2. ASSUME NEW i \in T PROVE UsesAt(s)[i] \in Int
  <2>1. Item(i) /\ i \in items /\ offset[i.group] \in Int
    BY DEF Typed, ItemsAreApart, Groups
  <2>2. UseAt(i, offset[i.group], s) \in Int
    BY <2>1, UseIs
  <2> QED BY <2>1, <2>2 DEF UsesAt
<1> QED BY <1>1, <1>2, SumIsNumber DEF Numbers

LEMMA GroupUseAtIs ==
    ASSUME NEW g, NEW s
    PROVE  GroupUse(g, offset[g], s) = SumOver(UsesAt(s), Members(g))
<1>1. [i \in Members(g) |-> UseAt(i, offset[g], s)] = [i \in Members(g) |-> UsesAt(s)[i]]
  BY DEF Members, UsesAt
<1> QED BY <1>1 DEF GroupUse, SumOver

LEMMA PlanWithout == Typed /\ PlacedInTurn /\ PlanIs /\ Apart => \A g \in Groups : WithoutIs(g)
<1> SUFFICES ASSUME Typed, PlacedInTurn, PlanIs, Apart, NEW g \in Groups PROVE WithoutIs(g)
  OBVIOUS
<1>1. /\ g \in placed => ThoseInPlan = Others(g) \cup Members(g)
      /\ g \notin placed => ThoseInPlan = Others(g)
      /\ Others(g) \cap Members(g) = {}
  BY DEF ThoseInPlan, Others, Members
<1>2. ASSUME NEW s \in DOMAIN load
      PROVE  /\ load[s] = SumOver(UsesAt(s), ThoseInPlan)
             /\ LoadWithout(g)[s] = SumOver(UsesAt(s), Others(g))
  <2>1. load[s] = SumOver(UsesAt(s), ThoseInPlan)
    <3>1. LoadIs(s)
      BY DEF PlanIs
    <3>2. [i \in ThoseInPlan |-> UseAt(i, offset[i.group], s)]
            = [i \in ThoseInPlan |-> UsesAt(s)[i]]
      BY DEF ThoseInPlan, UsesAt
    <3> QED BY <3>1, <3>2 DEF LoadIs, SumOver
  <2>2. CASE g \notin placed
    BY <1>1, <2>1, <2>2 DEF LoadWithout
  <2>3. CASE g \in placed
    <3>1. LoadWithout(g)[s] = load[s] - SumOver(UsesAt(s), Members(g))
      BY <2>3, GroupUseAtIs DEF LoadWithout
    <3> DEFINE f == UsesAt(s)
               A == Others(g)
               B == Members(g)
    <3>2. /\ IsFiniteSet(A) /\ Numbers(f, A) /\ SumOver(f, A) \in Int
          /\ IsFiniteSet(B) /\ Numbers(f, B) /\ SumOver(f, B) \in Int
      <4>1. A \in SUBSET items /\ B \in SUBSET items
        BY DEF Others, Members
      <4> HIDE DEF A, B
      <4> QED BY <4>1, UsesAtIs
    <3>3. A \cap B = {} /\ ThoseInPlan = A \cup B
      BY <1>1, <2>3
    <3>4. load[s] = SumOver(f, A \cup B) /\ LoadWithout(g)[s] = load[s] - SumOver(f, B)
      BY <2>1, <3>1, <3>3
    <3> HIDE DEF f, A, B
    <3>5. SumOver(f, A \cup B) = SumOver(f, A) + SumOver(f, B)
      <4>1. \A x \in A \cup B : f[x] \in Int
        BY <3>2 DEF Numbers
      <4> QED BY <3>2, <3>3, <4>1, SumOfUnion
    <3>6. LoadWithout(g)[s] = SumOver(f, A)
      BY <3>2, <3>4, <3>5
    <3> QED BY <2>1, <3>6 DEF f, A
  <2> QED BY <2>1, <2>2, <2>3
<1>3. ASSUME NEW d \in DOMAIN busy
      PROVE  busy[d] = DeviceUse(d, ThoseInPlan) /\ BusyWithout(g)[d] = DeviceUse(d, Others(g))
  <2>1. busy[d] = DeviceUse(d, ThoseInPlan)
    BY DEF PlanIs, BusyIs, DeviceUse
  <2>2. CASE g \notin placed
    BY <1>1, <2>1, <2>2 DEF BusyWithout
  <2>3. CASE g \in placed
    <3>1. BusyWithout(g)[d] = busy[d] \ DeviceSlots(g, offset[g], d)
      BY <2>3 DEF BusyWithout
    <3>2. DeviceSlots(g, offset[g], d) = DeviceUse(d, Members(g))
      BY DEF DeviceSlots, DeviceUse, Members
    <3>3. DeviceUse(d, ThoseInPlan) = DeviceUse(d, Others(g)) \cup DeviceUse(d, Members(g))
      BY <1>1, <2>3 DEF DeviceUse
    <3>4. ASSUME NEW s \in DeviceUse(d, Others(g)), s \in DeviceUse(d, Members(g)) PROVE FALSE
      <4>1. PICK i \in Others(g) : i.device = d /\ s \in Used(i, offset[i.group])
        BY DEF DeviceUse
      <4>2. PICK j \in Members(g) : j.device = d /\ s \in Used(j, offset[j.group])
        BY <3>4 DEF DeviceUse
      <4>3. i \in ThoseInPlan /\ j \in ThoseInPlan /\ i # j
        BY <1>1, <2>3
      <4> QED BY <4>1, <4>2, <4>3 DEF Apart
    <3> HIDE DEF DeviceUse
    <3> QED BY <2>1, <3>1, <3>2, <3>3, <3>4
  <2> QED BY <2>1, <2>2, <2>3
<1> QED BY <1>2, <1>3 DEF WithoutIs

\* With no negative uses a plan with more groups leaves no more places.
LEMMA SumGrows ==
    ASSUME NEW T, IsFiniteSet(T), NEW S \in SUBSET T, NEW f, \A x \in T : f[x] \in Int /\ f[x] >= 0
    PROVE  SumOver(f, S) <= SumOver(f, T)
<1> DEFINE U == T \ S
<1>1. /\ IsFiniteSet(S) /\ IsFiniteSet(U) /\ S \cap U = {} /\ T = S \cup U
      /\ (\A x \in S \cup U : f[x] \in Int) /\ (\A x \in U : f[x] \in Int /\ f[x] >= 0)
      /\ (\A x \in S : f[x] \in Int) /\ (\A x \in U : f[x] \in Int)
  BY FS_Subset
<1> HIDE DEF U
<1>2. SumOver(f, S \cup U) = SumOver(f, S) + SumOver(f, U)
  BY <1>1, SumOfUnion
<1>3. SumOver(f, U) >= 0
  BY <1>1, SumIsPositive
<1>4. SumOver(f, S) \in Int /\ SumOver(f, U) \in Int
  BY <1>1, SumIsNumber
<1> QED BY <1>1, <1>2, <1>3, <1>4

-----------------------------------------------------------------------------
(* A group takes a place: the cheapest that is left for it, or its own when *)
(* none is.                                                                *)

PlaceStep(h, o, why) ==
    /\ InPass /\ h = Group /\ o \in Offsets(h) /\ Place(h, o, why)
    /\ why = None => o \in Options(h) /\ \A p \in Options(h) : Cost(h, o) <= Cost(h, p)
    /\ why # None => o = offset[h] /\ (reserve \/ ~NoPlaceLeft(h))

LEMMA StepsPlace ==
    ASSUME PlanInv, Improve \/ Stay
    PROVE  \E h, o, why : PlaceStep(h, o, why)
<1>1. PICK h : h = Group
  OBVIOUS
<1>2. InPass /\ h \in Groups
  BY <1>1 DEF PlanInv, Typed, InPass, Group, Improve, Stay
<1>3. ItemsAreApart(items) /\ TableIsTyped(prices) /\ offset[h] \in Offsets(h)
  BY <1>2 DEF PlanInv, Typed, TableIsTyped, OffsetsAreAllowed
<1>4. ASSUME Improve PROVE \E o, why : PlaceStep(h, o, why)
  <2>1. PICK o : o = Cheapest(h, Options(h))
    OBVIOUS
  <2>2. Options(h) # {} /\ Place(h, o, None)
    BY <1>1, <1>4, <2>1 DEF Improve
  <2>3. o \in Options(h) /\ \A p \in Options(h) : Cost(h, o) <= Cost(h, p)
    BY <1>3, <2>1, <2>2, CheapestIs
  <2>4. o \in Offsets(h)
    BY <2>3 DEF Options
  <2>5. PlaceStep(h, o, None)
    BY <1>1, <1>2, <2>2, <2>3, <2>4 DEF PlaceStep
  <2> QED BY <2>5
<1>5. ASSUME Stay PROVE \E o, why : PlaceStep(h, o, why)
  <2>1. PICK o, why : o = offset[h] /\ why = Rejection(h, o, BusyWithout(h), LoadWithout(h))
    OBVIOUS
  <2>2. Options(h) = {} /\ Place(h, o, why) /\ (reserve \/ ~NoPlaceLeft(h))
    BY <1>1, <1>5, <2>1 DEF Stay
  <2>3. why # None
    BY <1>3, <2>1, <2>2 DEF Options
  <2>4. PlaceStep(h, o, why)
    BY <1>1, <1>2, <1>3, <2>1, <2>2, <2>3 DEF PlaceStep
  <2> QED BY <2>4
<1> QED BY <1>4, <1>5

\* What a step leaves as it is.
Kept(h, o) ==
    /\ Groups' = Groups /\ (UsesArePositive' <=> UsesArePositive) /\ h \in Groups
    /\ \A g : Members(g)' = Members(g) /\ Offsets(g)' = Offsets(g)
    /\ \A g, p : (PlaceFits(g, p)' <=> PlaceFits(g, p)) /\ Cost(g, p)' = Cost(g, p)
    /\ \A g, p, s : GroupUse(g, p, s)' = GroupUse(g, p, s)
    /\ \A g, p : GroupSlots(g, p)' = GroupSlots(g, p)
    /\ \A g : Others(g)' = {i \in items : i.group \in (placed \cup {h}) \ {g}}
    /\ ThoseInPlan' = Others(h) \cup Members(h) /\ Others(h)' = Others(h)
    /\ Others(h) \cup Members(h) \subseteq items /\ Others(h) \cap Members(h) = {}
    /\ \A i \in Others(h) : offset'[i.group] = offset[i.group] /\ i.group # h
    /\ \A i \in Members(h) : offset'[i.group] = o /\ i.group = h

LEMMA PlaceKeeps ==
    ASSUME PlanInv, NEW h, NEW o, NEW why, PlaceStep(h, o, why)
    PROVE  Kept(h, o)
<1>1. /\ items' = items /\ prices' = prices /\ limit' = limit
      /\ placed' = placed \cup {h} /\ offset' = [offset EXCEPT ![h] = o]
  BY DEF PlaceStep, Place, inputVars
<1>2. h \in Groups /\ offset \in [Groups -> Int]
  BY DEF PlanInv, Typed, PlaceStep, InPass, Group
<1>3. Groups' = Groups /\ (UsesArePositive' <=> UsesArePositive) /\ h \in Groups
  BY <1>1, <1>2 DEF Groups, UsesArePositive
<1>4. \A g : Members(g)' = Members(g)
  BY <1>1 DEF Members
<1>5. \A g : Offsets(g)' = Offsets(g)
  BY <1>1 DEF Offsets, Members
<1>6. \A g, p : PlaceFits(g, p)' <=> PlaceFits(g, p)
  BY <1>1, <1>4 DEF PlaceFits
<1>7. \A g, p : Cost(g, p)' = Cost(g, p)
  BY <1>1 DEF Cost, ItemCost, Members
<1>8. /\ \A g, p, s : GroupUse(g, p, s)' = GroupUse(g, p, s)
      /\ \A g, p : GroupSlots(g, p)' = GroupSlots(g, p)
  BY <1>1 DEF GroupUse, GroupSlots, Members
<1>9. \A g : Others(g)' = {i \in items : i.group \in (placed \cup {h}) \ {g}}
  BY <1>1 DEF Others
<1>10. /\ ThoseInPlan' = Others(h) \cup Members(h) /\ Others(h)' = Others(h)
       /\ Others(h) \cup Members(h) \subseteq items /\ Others(h) \cap Members(h) = {}
  BY <1>1 DEF ThoseInPlan, Others, Members
<1>11. ASSUME NEW i \in Others(h)
       PROVE  offset'[i.group] = offset[i.group] /\ i.group # h
  BY <1>1, <1>2 DEF Others, Groups
<1>12. ASSUME NEW i \in Members(h)
       PROVE  offset'[i.group] = o /\ i.group = h
  BY <1>1, <1>2 DEF Members
<1> QED BY <1>3, <1>4, <1>5, <1>6, <1>7, <1>8, <1>9, <1>10, <1>11, <1>12 DEF Kept

\* The place was free, or it was the group's own in the plan.
LEMMA PlaceIsFree ==
    ASSUME PlanInv, NEW h, NEW o, NEW why, PlaceStep(h, o, why)
    PROVE  IsFree(h, o, BusyWithout(h)) \/ (h \in placed /\ o = offset[h])
<1>1. h \in Groups
  BY DEF PlanInv, Typed, PlaceStep, InPass, Group
<1>2. CASE why = None
  <2>1. Rejection(h, o, BusyWithout(h), LoadWithout(h)) = None
    BY <1>2 DEF PlaceStep, Options
  <2> QED BY <2>1, NotRejected
<1>3. CASE why # None
  <2>1. o = offset[h] /\ (reserve \/ ~NoPlaceLeft(h))
    BY <1>3 DEF PlaceStep
  <2>2. CASE reserve
    BY <1>1, <2>1, <2>2 DEF PlanInv, PlacedInTurn
  <2>3. CASE ~NoPlaceLeft(h)
    BY <2>1, <2>3 DEF NoPlaceLeft, IsFree
  <2> QED BY <2>1, <2>2, <2>3
<1> QED BY <1>2, <1>3

LEMMA PlaceKeepsApart ==
    ASSUME PlanInv, NEW h, NEW o, NEW why, PlaceStep(h, o, why)
    PROVE  Apart'
<1>1. Kept(h, o)
  BY PlaceKeeps
<1>2. h \in Groups /\ o \in Int /\ ItemsAreApart(items) /\ DOMAIN busy = {i.device : i \in items}
  <2>1. h \in Groups /\ ItemsAreApart(items) /\ DOMAIN busy = {i.device : i \in items}
    BY <1>1 DEF PlanInv, Typed, Kept
  <2>2. OffsetsAreBounded(h)
    BY <2>1, OffsetsAre
  <2> QED BY <2>1, <2>2 DEF PlaceStep, OffsetsAreBounded
<1>3. WithoutIs(h)
  BY <1>2, PlanWithout DEF PlanInv
<1>4. ASSUME NEW i \in Others(h), NEW j \in Others(h), i # j, i.device = j.device
      PROVE  Used(i, offset[i.group]) \cap Used(j, offset[j.group]) = {}
  <2>1. i \in ThoseInPlan /\ j \in ThoseInPlan
    BY DEF Others, ThoseInPlan
  <2> QED BY <1>4, <2>1 DEF PlanInv, Apart
<1>5. ASSUME NEW i \in Members(h), NEW j \in Members(h), i # j, i.device = j.device
      PROVE  Used(i, o) \cap Used(j, o) = {}
  <2>1. i \in items /\ j \in items
    BY DEF Members
  <2>2. Item(i) /\ Item(j) /\ Used(i, 0) \cap Used(j, 0) = {}
    BY <1>2, <1>5, <2>1 DEF ItemsAreApart
  <2>3. \A s : /\ s \in Used(i, o) => s - o \in Used(i, 0)
               /\ s \in Used(j, o) => s - o \in Used(j, 0)
    BY <1>2, <2>2, UseIs
  <2> QED BY <2>2, <2>3
<1>6. ASSUME NEW i \in Members(h), NEW j \in Others(h), i.device = j.device
      PROVE  Used(i, o) \cap Used(j, offset[j.group]) = {}
  <2>1. CASE IsFree(h, o, BusyWithout(h))
    <3>1. j \in items
      BY DEF Others
    <3>2. Used(i, o) \cap DeviceUse(j.device, Others(h)) = {}
      BY <1>2, <1>3, <1>6, <2>1, <3>1 DEF IsFree, WithoutIs
    <3>3. Used(j, offset[j.group]) \subseteq DeviceUse(j.device, Others(h))
      BY DEF DeviceUse
    <3> QED BY <3>2, <3>3
  <2>2. CASE h \in placed /\ o = offset[h]
    <3>1. i \in ThoseInPlan /\ j \in ThoseInPlan /\ i # j /\ o = offset[i.group]
      BY <2>2 DEF ThoseInPlan, Members, Others
    <3> QED BY <1>6, <3>1 DEF PlanInv, Apart
  <2> QED BY <2>1, <2>2, PlaceIsFree
<1> SUFFICES ASSUME NEW i \in ThoseInPlan', NEW j \in ThoseInPlan', i # j, i.device = j.device
             PROVE  Used(i, offset'[i.group]) \cap Used(j, offset'[j.group]) = {}
  BY DEF Apart
<1>7. i \in Others(h) \cup Members(h) /\ j \in Others(h) \cup Members(h)
  BY <1>1 DEF Kept
<1>8. \A k \in Others(h) : offset'[k.group] = offset[k.group]
  BY <1>1 DEF Kept
<1>9. \A k \in Members(h) : offset'[k.group] = o
  BY <1>1 DEF Kept
<1>10. CASE i \in Others(h) /\ j \in Others(h)
  BY <1>4, <1>8, <1>10
<1>11. CASE i \in Members(h) /\ j \in Members(h)
  BY <1>5, <1>9, <1>11
<1>12. CASE i \in Members(h) /\ j \in Others(h)
  BY <1>6, <1>8, <1>9, <1>12
<1>13. CASE i \in Others(h) /\ j \in Members(h)
  BY <1>6, <1>8, <1>9, <1>13
<1> QED BY <1>7, <1>10, <1>11, <1>12, <1>13

LEMMA PlaceKeepsPlan ==
    ASSUME PlanInv, NEW h, NEW o, NEW why, PlaceStep(h, o, why)
    PROVE  PlanIs'
<1>1. Kept(h, o)
  BY PlaceKeeps
<1>2. h \in Groups /\ o \in Int
  <2>1. h \in Groups /\ ItemsAreApart(items)
    BY <1>1 DEF PlanInv, Typed, Kept
  <2>2. OffsetsAreBounded(h)
    BY <2>1, OffsetsAre
  <2> QED BY <2>1, <2>2 DEF PlaceStep, OffsetsAreBounded
<1>3. WithoutIs(h)
  BY <1>2, PlanWithout DEF PlanInv
<1>4. ThoseInPlan' = Others(h) \cup Members(h) /\ Others(h) \cap Members(h) = {}
  BY <1>1 DEF Kept
<1>5. \A i \in Others(h) : offset'[i.group] = offset[i.group]
  BY <1>1 DEF Kept
<1>6. \A i \in Members(h) : offset'[i.group] = o
  BY <1>1 DEF Kept
<1>7. ASSUME NEW d \in DOMAIN busy' PROVE BusyIs(d)'
  <2>1. d \in DOMAIN busy /\ busy'[d] = BusyWithout(h)[d] \cup DeviceSlots(h, o, d)
    BY <1>7 DEF PlaceStep, Place
  <2>2. BusyWithout(h)[d] = UNION {Used(i, offset[i.group]) : i \in {i \in Others(h) : i.device = d}}
    BY <1>3, <2>1 DEF WithoutIs, DeviceUse
  <2>3. {Used(i, offset[i.group]) : i \in {i \in Others(h) : i.device = d}}
          = {Used(i, offset'[i.group]) : i \in {i \in Others(h) : i.device = d}}
    BY <1>5
  <2>4. {Used(i, o) : i \in {i \in Members(h) : i.device = d}}
          = {Used(i, offset'[i.group]) : i \in {i \in Members(h) : i.device = d}}
    BY <1>6
  <2>5. UNION {Used(i, offset'[i.group]) : i \in {i \in Others(h) \cup Members(h) : i.device = d}}
          = (UNION {Used(i, offset'[i.group]) : i \in {i \in Others(h) : i.device = d}})
            \cup (UNION {Used(i, offset'[i.group]) : i \in {i \in Members(h) : i.device = d}})
    OBVIOUS
  <2> QED BY <1>4, <2>1, <2>2, <2>3, <2>4, <2>5 DEF BusyIs, DeviceSlots
<1>8. ASSUME NEW s \in DOMAIN load' PROVE LoadIs(s)'
  <2>1. s \in DOMAIN load /\ load'[s] = LoadWithout(h)[s] + GroupUse(h, o, s)
    BY <1>8 DEF PlaceStep, Place
  <2>2. LoadWithout(h)[s] = SumOver(UsesAt(s), Others(h))
    BY <1>3, <2>1 DEF WithoutIs
  <2> DEFINE A == Others(h)
             B == Members(h)
  <2>3. PICK f : f = [i \in items |-> UseAt(i, offset'[i.group], s)]
    OBVIOUS
  <2>4. A \cup B \subseteq items /\ IsFiniteSet(A) /\ IsFiniteSet(B) /\ A \cap B = {}
    BY <1>1, FS_Subset DEF Kept, PlanInv, Typed, ItemsAreApart
  <2>5. SumOver(UsesAt(s), A) = SumOver(f, A)
    <3>1. \A i \in A : UsesAt(s)[i] = f[i]
      BY <1>5, <2>3, <2>4 DEF UsesAt
    <3> HIDE DEF A
    <3> QED BY <3>1, SumOfSame
  <2>6. GroupUse(h, o, s) = SumOver(f, B)
    <3>1. [i \in B |-> UseAt(i, o, s)] = [i \in B |-> f[i]]
      BY <1>6, <2>3, <2>4
    <3> QED BY <3>1 DEF GroupUse, SumOver
  <2>7. \A i \in A \cup B : f[i] \in Int
    <3> SUFFICES ASSUME NEW i \in A \cup B PROVE f[i] \in Int
      OBVIOUS
    <3>1. i \in items /\ Item(i) /\ offset[i.group] \in Int
      BY <2>4 DEF PlanInv, Typed, ItemsAreApart, Groups
    <3>2. offset'[i.group] \in Int
      BY <1>2, <1>5, <1>6, <3>1
    <3>3. UseAt(i, offset'[i.group], s) \in Int
      BY <3>1, <3>2, UseIs
    <3> QED BY <2>3, <3>1, <3>3
  <2>8. SumOver(f, A \cup B) = SumOver(f, A) + SumOver(f, B)
    <3> HIDE DEF A, B
    <3> QED BY <2>4, <2>7, SumOfUnion
  <2>9. [i \in A \cup B |-> UseAt(i, offset'[i.group], s)] = [i \in A \cup B |-> f[i]]
    BY <2>3, <2>4
  <2>10. load'[s] = SumOver(f, ThoseInPlan')
    BY <1>4, <2>1, <2>2, <2>5, <2>6, <2>8
  <2> QED BY <1>4, <2>9, <2>10 DEF LoadIs, SumOver
<1> QED BY <1>7, <1>8 DEF PlanIs

LEMMA PlaceKeepsTypes ==
    ASSUME PlanInv, NEW h, NEW o, NEW why, PlaceStep(h, o, why)
    PROVE  Typed' /\ PlacedInTurn' /\ OffsetsAreAllowed' /\ MovedFit' /\ NothingMoved'
<1>1. Kept(h, o)
  BY PlaceKeeps
<1>2. /\ items' = items /\ prices' = prices /\ limit' = limit /\ reserve' = reserve
      /\ order' = order /\ pass' = pass /\ turn' = turn + 1
      /\ placed' = placed \cup {h} /\ offset' = [offset EXCEPT ![h] = o]
      /\ reason' = [reason EXCEPT ![h] = why] /\ changed' = (changed \/ o /= offset[h])
      /\ DOMAIN busy' = DOMAIN busy /\ DOMAIN load' = DOMAIN load
  BY DEF PlaceStep, Place, inputVars
<1>3. /\ h \in Groups /\ o \in Int /\ order \in Seq(Groups) /\ turn \in 1..Len(order)
      /\ h = order[turn] /\ turn \in DOMAIN order /\ offset \in [Groups -> Int]
      /\ DOMAIN reason = Groups
  <2>1. /\ h \in Groups /\ ItemsAreApart(items) /\ order \in Seq(Groups)
        /\ offset \in [Groups -> Int] /\ DOMAIN reason = Groups
    BY <1>1 DEF PlanInv, Typed, Kept
  <2>2. OffsetsAreBounded(h)
    BY <2>1, OffsetsAre
  <2> QED BY <2>1, <2>2 DEF PlaceStep, OffsetsAreBounded, InPass, Group
<1>4. \A g \in Groups : offset'[g] = IF g = h THEN o ELSE offset[g]
  BY <1>2, <1>3
<1>5. Groups' = Groups /\ (\A g : Offsets(g)' = Offsets(g)) /\ (\A g : Members(g)' = Members(g))
  BY <1>1 DEF Kept
<1>6. Typed'
  <2>1. ItemsAreApart(items)'
    BY <1>2 DEF PlanInv, Typed, ItemsAreApart
  <2>2. (DOMAIN prices \subseteq DOMAIN Local /\ \A s \in DOMAIN prices : prices[s] \in Int)'
    BY <1>2 DEF PlanInv, Typed
  <2>3. (limit \in Int \cup {None} /\ reserve \in BOOLEAN /\ pass \in 1 .. MaxPasses)'
    BY <1>2 DEF PlanInv, Typed
  <2>4. changed' \in BOOLEAN
    BY <1>2
  <2>5. (order \in Seq(Groups) /\ turn \in 1 .. (Len(order) + 1))'
    BY <1>2, <1>3, <1>5
  <2>6. (\A n \in DOMAIN order : MovableGroup(order[n]))'
    <3> SUFFICES ASSUME NEW n \in DOMAIN order PROVE MovableGroup(order[n])'
      BY <1>2
    <3>1. MovableGroup(order[n])
      BY DEF PlanInv, Typed
    <3> QED BY <1>2, <1>5, <3>1 DEF MovableGroup
  <2>7. (offset \in [Groups -> Int])'
    BY <1>2, <1>3, <1>5
  <2>8. (DOMAIN reason = Groups)'
    BY <1>2, <1>3, <1>5
  <2>9. (DOMAIN busy = {i.device : i \in items} /\ DOMAIN load = DOMAIN Local)'
    BY <1>2 DEF PlanInv, Typed
  <2> QED BY <2>1, <2>2, <2>3, <2>4, <2>5, <2>6, <2>7, <2>8, <2>9 DEF Typed
<1>7. PlacedInTurn'
  <2>1. placed' \subseteq Groups /\ Groups \ Range(order) \subseteq placed'
    BY <1>2, <1>3 DEF PlanInv, PlacedInTurn
  <2>2. ASSUME NEW n \in DOMAIN order, n < turn + 1 PROVE order[n] \in placed'
    <3>1. CASE n = turn
      BY <1>2, <1>3, <3>1
    <3>2. CASE n < turn
      BY <1>2, <3>2 DEF PlanInv, PlacedInTurn
    <3>3. n \in Nat /\ turn \in Nat
      BY <1>3
    <3> QED BY <2>2, <3>1, <3>2, <3>3
  <2>3. reserve' \/ pass' > 1 => placed' = Groups
    BY <1>2, <1>3 DEF PlanInv, PlacedInTurn
  <2> QED BY <1>2, <1>5, <2>1, <2>2, <2>3 DEF PlacedInTurn
<1>8. OffsetsAreAllowed'
  <2>1. h \in Range(order)
    BY <1>3 DEF Range
  <2>2. ASSUME NEW g \in Groups
        PROVE  offset'[g] \in Offsets(g) /\ (offset'[g] # 0 => g \in Range(order))
    BY <1>4, <2>1 DEF PlanInv, OffsetsAreAllowed, PlaceStep
  <2> QED BY <1>2, <1>5, <2>2 DEF OffsetsAreAllowed
<1>9. MovedFit'
  <2>1. ASSUME NEW g \in Groups, offset'[g] # 0, reason'[g] = None PROVE PlaceFits(g, offset'[g])
    <3>1. CASE g = h
      <4>1. why = None
        BY <1>2, <1>3, <2>1, <3>1
      <4>2. Rejection(h, o, BusyWithout(h), LoadWithout(h)) = None
        BY <4>1 DEF PlaceStep, Options
      <4>3. PlaceFits(h, o)
        BY <4>2, NotRejected
      <4> QED BY <1>4, <3>1, <4>3
    <3>2. CASE g # h
      <4>1. offset'[g] = offset[g] /\ reason'[g] = reason[g]
        BY <1>2, <1>3, <1>4, <3>2
      <4> QED BY <2>1, <4>1 DEF PlanInv, MovedFit
    <3> QED BY <3>1, <3>2
  <2>2. \A g, p : PlaceFits(g, p)' <=> PlaceFits(g, p)
    BY <1>1 DEF Kept
  <2> QED BY <1>5, <2>1, <2>2 DEF MovedFit, PlaceFits
<1>10. NothingMoved'
  <2>1. ASSUME pass = 1, ~changed', NEW g \in Groups PROVE offset'[g] = 0
    <3>1. ~changed /\ o = offset[h]
      BY <1>2, <2>1
    <3> QED BY <1>4, <2>1, <3>1 DEF PlanInv, NothingMoved
  <2> QED BY <1>2, <1>5, <2>1 DEF NothingMoved
<1> QED BY <1>6, <1>7, <1>8, <1>9, <1>10

LEMMA UsesAtArePositive ==
    ASSUME Typed, UsesArePositive, NEW s
    PROVE  \A i \in items : UsesAt(s)[i] \in Int /\ UsesAt(s)[i] >= 0
<1> SUFFICES ASSUME NEW i \in items PROVE UsesAt(s)[i] \in Int /\ UsesAt(s)[i] >= 0
  OBVIOUS
<1>1. Item(i) /\ offset[i.group] \in Int /\ \A n \in DOMAIN i.use : i.use[n] >= 0
  BY DEF Typed, ItemsAreApart, Groups, UsesArePositive
<1>2. UseAt(i, offset[i.group], s) \in Int /\ UseAt(i, offset[i.group], s) >= 0
  BY <1>1, UseIs
<1> QED BY <1>2 DEF UsesAt

\* What the lemmas above show of the plan after the step.
LEMMA PlanAfter ==
    ASSUME PlanInv, NEW h, NEW o, NEW why, PlaceStep(h, o, why)
    PROVE  \A g \in Groups :
             /\ \A d \in DOMAIN busy : BusyWithout(g)'[d] = DeviceUse(d, Others(g))'
             /\ \A s \in DOMAIN load : LoadWithout(g)'[s] = SumOver(UsesAt(s), Others(g))'
<1>1. Typed' /\ PlacedInTurn' /\ PlanIs' /\ Apart'
  BY PlaceKeepsTypes, PlaceKeepsPlan, PlaceKeepsApart
<1>2. (Typed /\ PlacedInTurn /\ PlanIs /\ Apart => \A g \in Groups : WithoutIs(g))'
  BY PlanWithout, PTL
<1>3. (\A g \in Groups : WithoutIs(g))'
  BY <1>1, <1>2
<1>4. Groups' = Groups /\ DOMAIN busy' = DOMAIN busy /\ DOMAIN load' = DOMAIN load
  BY PlaceKeeps DEF Kept, PlaceStep, Place
<1> SUFFICES ASSUME NEW g \in Groups
             PROVE  /\ \A d \in DOMAIN busy : BusyWithout(g)'[d] = DeviceUse(d, Others(g))'
                    /\ \A s \in DOMAIN load : LoadWithout(g)'[s] = SumOver(UsesAt(s), Others(g))'
  OBVIOUS
<1>5. WithoutIs(g)'
  BY <1>3, <1>4
<1> QED BY <1>4, <1>5 DEF WithoutIs

\* As long as nothing moves a step leaves no group a place that it had not.
LEMMA OptionsShrink ==
    ASSUME PlanInv, NEW h, NEW o, NEW why, PlaceStep(h, o, why),
           UsesArePositive, offset' = offset, NEW g \in Groups
    PROVE  Options(g)' \subseteq Options(g)
<1>1. Kept(h, o) /\ items' = items /\ prices' = prices /\ limit' = limit
  BY PlaceKeeps DEF PlaceStep, Place, inputVars
<1>2. Typed /\ PlacedInTurn /\ WithoutIs(g) /\ OffsetsAreBounded(g)
  BY PlanWithout, OffsetsAre DEF PlanInv, Typed
<1> SUFFICES ASSUME NEW p \in Options(g)' PROVE p \in Options(g)
  OBVIOUS
<1>3. PICK b, l : b = BusyWithout(g)' /\ l = LoadWithout(g)'
  OBVIOUS
<1>4. p \in Offsets(g) /\ p \in Int /\ Rejection(g, p, b, l) = None
  <2>1. p \in Offsets(g)' /\ Rejection(g, p, BusyWithout(g), LoadWithout(g))' = None
    BY DEF Options
  <2>2. Rejection(g, p, BusyWithout(g), LoadWithout(g))' = Rejection(g, p, b, l)
    BY <1>1, <1>3 DEF Rejection, Members, GroupSlots, GroupUse
  <2> QED BY <1>1, <1>2, <2>1, <2>2 DEF Kept, OffsetsAreBounded
<1>5. PlaceFits(g, p) /\ IsFree(g, p, b) /\ IsWithin(g, p, l)
  BY <1>4, NotRejected
<1>6. Others(g) \subseteq Others(g)' /\ Others(g)' \subseteq items
  BY <1>1 DEF Kept, Others
<1>7. IsFree(g, p, BusyWithout(g))
  <2> SUFFICES ASSUME NEW i \in Members(g) PROVE Used(i, p) \cap BusyWithout(g)[i.device] = {}
    BY DEF IsFree
  <2>1. i.device \in DOMAIN busy
    BY <1>2 DEF Typed, Members
  <2>2. b[i.device] = DeviceUse(i.device, Others(g))'
    BY <1>3, <2>1, PlanAfter
  <2>3. BusyWithout(g)[i.device] = DeviceUse(i.device, Others(g))
    BY <1>2, <2>1 DEF WithoutIs
  <2>4. DeviceUse(i.device, Others(g)) \subseteq DeviceUse(i.device, Others(g))'
    BY <1>6 DEF DeviceUse
  <2>5. Used(i, p) \cap b[i.device] = {}
    BY <1>5 DEF IsFree
  <2> QED BY <2>2, <2>3, <2>4, <2>5
<1>8. IsWithin(g, p, LoadWithout(g))
  <2> SUFFICES ASSUME limit # None, NEW s \in GroupSlots(g, p)
               PROVE  ~(LoadWithout(g)[s] + GroupUse(g, p, s) > limit)
    BY DEF IsWithin
  <2>1. s \in DOMAIN load
    BY <1>2, <1>5 DEF PlaceFits, GroupSlots, Typed
  <2>2. PICK T : T = Others(g)'
    OBVIOUS
  <2>3. PICK f : f = UsesAt(s)
    OBVIOUS
  <2>4. UsesAt(s)' = f
    BY <1>1, <2>3 DEF UsesAt
  <2>5. l[s] = SumOver(f, T)
    <3>1. LoadWithout(g)'[s] = SumOver(UsesAt(s), Others(g))'
      BY <2>1, PlanAfter
    <3>2. SumOver(UsesAt(s), Others(g))' = SumOver(f, T)
      BY <2>2, <2>4 DEF SumOver
    <3> QED BY <1>3, <3>1, <3>2
  <2>6. LoadWithout(g)[s] = SumOver(f, Others(g))
    BY <1>2, <2>1, <2>3 DEF WithoutIs
  <2>7. /\ IsFiniteSet(T) /\ SumOver(f, T) \in Int /\ SumOver(f, Others(g)) \in Int
        /\ Others(g) \in SUBSET T
    BY <1>2, <1>6, <2>2, <2>3, UsesAtIs
  <2>8. \A x \in T : f[x] \in Int /\ f[x] >= 0
    BY <1>2, <1>6, <2>2, <2>3, UsesAtArePositive
  <2>9. SumOver(f, Others(g)) <= SumOver(f, T)
    BY <2>7, <2>8, SumGrows
  <2>10. ~(l[s] + GroupUse(g, p, s) > limit)
    BY <1>5 DEF IsWithin
  <2>11. GroupUse(g, p, s) \in Int /\ limit \in Int
    BY <1>2, <1>4, GroupUseIs DEF Typed
  <2> QED BY <2>5, <2>6, <2>7, <2>9, <2>10, <2>11
<1>9. Rejection(g, p, BusyWithout(g), LoadWithout(g)) = None
  BY <1>5, <1>7, <1>8, NotRejected
<1> QED BY <1>4, <1>9 DEF Options

LEMMA PlaceKeepsCheapest ==
    ASSUME PlanInv, NEW h, NEW o, NEW why, PlaceStep(h, o, why)
    PROVE  TurnsAreCheapest'
<1>1. Kept(h, o)
  BY PlaceKeeps
<1>2. /\ order' = order /\ turn' = turn + 1 /\ changed' = (changed \/ o /= offset[h])
      /\ offset' = [offset EXCEPT ![h] = o] /\ reason' = [reason EXCEPT ![h] = why]
  BY DEF PlaceStep, Place
<1>3. /\ order \in Seq(Groups) /\ turn \in DOMAIN order /\ h = order[turn] /\ h \in Groups
      /\ offset \in [Groups -> Int] /\ DOMAIN reason = Groups
  BY <1>1 DEF PlanInv, Typed, PlaceStep, InPass, Group, Kept
<1> SUFFICES ASSUME UsesArePositive', ~changed', NEW n \in DOMAIN order', n < turn'
             PROVE  IsCheapest(order[n])'
  BY DEF TurnsAreCheapest
<1>4. PICK g \in Groups : g = order[n] /\ n \in DOMAIN order /\ n < turn + 1
  BY <1>2, <1>3
<1> SUFFICES ASSUME reason'[g] = None, NEW p \in Options(g)'
             PROVE  Cost(g, offset[g])' <= Cost(g, p)'
  <2>1. IsCheapest(g)'
    BY DEF IsCheapest
  <2> QED BY <1>2, <1>4, <2>1
<1>5. ~changed /\ o = offset[h] /\ UsesArePositive
  BY <1>1, <1>2 DEF Kept
<1>6. offset' = offset
  BY <1>2, <1>3, <1>5
<1>7. p \in Options(g)
  <2>1. Options(g)' \subseteq Options(g)
    BY <1>5, <1>6, OptionsShrink
  <2> QED BY <2>1
<1>8. Cost(g, offset[g]) <= Cost(g, p)
  <2>1. CASE g = h
    <3>1. why = None
      BY <1>2, <1>3, <1>4, <2>1
    <3> QED BY <1>5, <1>7, <2>1, <3>1 DEF PlaceStep
  <2>2. CASE g # h
    <3>1. reason[g] = None
      BY <1>2, <1>3, <1>4, <2>2
    <3>2. n < turn
      BY <1>3, <1>4, <2>2
    <3>3. IsCheapest(g)
      BY <1>4, <1>5, <3>2 DEF PlanInv, TurnsAreCheapest
    <3> QED BY <1>7, <3>1, <3>3 DEF IsCheapest
  <2> QED BY <2>1, <2>2
<1>9. items' = items /\ prices' = prices
  BY DEF PlaceStep, Place, inputVars
<1>10. Cost(g, offset[g])' = Cost(g, offset[g])
  BY <1>6, <1>9 DEF Cost, ItemCost, Members
<1>11. Cost(g, p)' = Cost(g, p)
  BY <1>1 DEF Kept
<1> QED BY <1>8, <1>10, <1>11

LEMMA PlaceKeepsLimit ==
    ASSUME PlanInv, NEW h, NEW o, NEW why, PlaceStep(h, o, why)
    PROVE  TurnsAreInLimit'
<1>1. Kept(h, o)
  BY PlaceKeeps
<1>2. /\ items' = items /\ prices' = prices /\ limit' = limit /\ pass' = pass
      /\ order' = order /\ turn' = turn + 1 /\ offset' = [offset EXCEPT ![h] = o]
      /\ reason' = [reason EXCEPT ![h] = why]
      /\ load' = [s \in DOMAIN load |-> LoadWithout(h)[s] + GroupUse(h, o, s)]
  BY DEF PlaceStep, Place, inputVars
<1>3. /\ order \in Seq(Groups) /\ turn \in DOMAIN order /\ h = order[turn] /\ h \in Groups
      /\ offset \in [Groups -> Int] /\ DOMAIN reason = Groups /\ ItemsAreApart(items)
      /\ o \in Int
  <2>1. /\ order \in Seq(Groups) /\ turn \in DOMAIN order /\ h = order[turn] /\ h \in Groups
        /\ offset \in [Groups -> Int] /\ DOMAIN reason = Groups /\ ItemsAreApart(items)
    BY <1>1 DEF PlanInv, Typed, PlaceStep, InPass, Group, Kept
  <2>2. OffsetsAreBounded(h)
    BY <2>1, OffsetsAre
  <2> QED BY <2>1, <2>2 DEF PlaceStep, OffsetsAreBounded
<1> SUFFICES ASSUME UsesArePositive', limit' # None, pass' > 1,
                    NEW n \in DOMAIN order', n < turn'
             PROVE  InLimit(order[n])'
  BY DEF TurnsAreInLimit
<1>4. PICK g \in Groups : g = order[n] /\ n \in DOMAIN order /\ n < turn + 1
  BY <1>2, <1>3
<1>5. UsesArePositive /\ limit # None /\ pass > 1 /\ limit \in Int
  BY <1>1, <1>2 DEF Kept, PlanInv, Typed
<1>6. h \in placed /\ g \in placed
  BY <1>3, <1>5 DEF PlanInv, PlacedInTurn
<1> SUFFICES ASSUME reason'[g] = None, NEW s \in GroupSlots(g, offset'[g])
             PROVE  load'[s] <= limit
  <2>1. GroupSlots(g, offset[g])' = GroupSlots(g, offset'[g])
    BY <1>2 DEF GroupSlots, Members
  <2>2. InLimit(g)'
    BY <1>2, <2>1 DEF InLimit
  <2> QED BY <1>2, <1>4, <2>2
<1>7. ASSUME why = None
      PROVE  /\ GroupSlots(h, o) \subseteq DOMAIN load
             /\ \A r \in GroupSlots(h, o) : load'[r] <= limit
  <2>1. Rejection(h, o, BusyWithout(h), LoadWithout(h)) = None
    BY <1>7 DEF PlaceStep, Options
  <2>2. PlaceFits(h, o) /\ IsWithin(h, o, LoadWithout(h))
    BY <2>1, NotRejected
  <2>3. GroupSlots(h, o) \subseteq DOMAIN load
    BY <2>2 DEF PlaceFits, GroupSlots, PlanInv, Typed
  <2>4. ASSUME NEW r \in GroupSlots(h, o) PROVE load'[r] <= limit
    <3>1. load'[r] = LoadWithout(h)[r] + GroupUse(h, o, r)
      BY <1>2, <2>3
    <3>2. ~(LoadWithout(h)[r] + GroupUse(h, o, r) > limit)
      BY <1>5, <2>2 DEF IsWithin
    <3>3. GroupUse(h, o, r) \in Int /\ LoadWithout(h)[r] \in Int
      <4>1. WithoutIs(h) /\ r \in DOMAIN load /\ Typed /\ Others(h) \in SUBSET items
        BY <1>3, <2>3, PlanWithout DEF PlanInv, Others
      <4>2. LoadWithout(h)[r] = SumOver(UsesAt(r), Others(h))
        BY <4>1 DEF WithoutIs
      <4> QED BY <1>3, <4>1, <4>2, GroupUseIs, UsesAtIs
    <3> QED BY <1>5, <3>1, <3>2, <3>3
  <2> QED BY <2>3, <2>4
<1>8. CASE g = h
  <2>1. why = None /\ offset'[g] = o
    BY <1>2, <1>3, <1>8
  <2> QED BY <1>7, <1>8, <2>1
<1>9. CASE g # h
  <2>1. reason[g] = None /\ offset'[g] = offset[g] /\ n < turn
    BY <1>2, <1>3, <1>4, <1>9
  <2>2. InLimit(g)
    BY <1>4, <1>5, <2>1 DEF PlanInv, TurnsAreInLimit
  <2>3. load[s] <= limit
    BY <2>1, <2>2 DEF InLimit
  <2>4. s \in DOMAIN load
    <3>1. CASE offset[g] # 0
      <4>1. PlaceFits(g, offset[g])
        BY <2>1, <3>1 DEF PlanInv, MovedFit
      <4> QED BY <2>1, <4>1 DEF PlaceFits, GroupSlots, PlanInv, Typed
    <3>2. CASE offset[g] = 0
      <4>1. MovableGroup(g)
        BY <1>4 DEF PlanInv, Typed
      <4> QED BY <2>1, <3>2, <4>1 DEF MovableGroup, GroupSlots, PlanInv, Typed
    <3> QED BY <3>1, <3>2
  <2>5. /\ load'[s] = LoadWithout(h)[s] + GroupUse(h, o, s)
        /\ LoadWithout(h)[s] = load[s] - GroupUse(h, offset[h], s)
    BY <1>2, <1>6, <2>4 DEF LoadWithout
  <2>6. /\ GroupUse(h, o, s) \in Int /\ GroupUse(h, offset[h], s) \in Int
        /\ GroupUse(h, offset[h], s) >= 0
        /\ s \notin GroupSlots(h, o) => GroupUse(h, o, s) = 0
    BY <1>3, <1>5, GroupUseIs
  <2>7. load[s] \in Int
    <3>1. WithoutIs(h) /\ Typed /\ ThoseInPlan \in SUBSET items
      BY <1>3, PlanWithout DEF PlanInv, ThoseInPlan
    <3>2. load[s] = SumOver(UsesAt(s), ThoseInPlan)
      BY <2>4, <3>1 DEF WithoutIs
    <3> QED BY <3>1, <3>2, UsesAtIs
  <2>8. CASE s \notin GroupSlots(h, o)
    BY <1>5, <2>3, <2>5, <2>6, <2>7, <2>8
  <2>9. CASE why = None /\ s \in GroupSlots(h, o)
    BY <1>7, <2>9
  <2>10. CASE why # None
    <3>1. o = offset[h]
      BY <2>10 DEF PlaceStep
    <3> QED BY <2>3, <2>5, <2>6, <2>7, <3>1
  <2> QED BY <2>8, <2>9, <2>10
<1> QED BY <1>8, <1>9

LEMMA PlaceInv ==
    ASSUME PlanInv, Improve \/ Stay
    PROVE  PlanInv'
<1>1. PICK h, o, why : PlaceStep(h, o, why)
  BY StepsPlace
<1> QED BY <1>1, PlaceKeepsTypes, PlaceKeepsPlan, PlaceKeepsApart, PlaceKeepsCheapest, PlaceKeepsLimit
        DEF PlanInv

LEMMA StartAgainInv ==
    ASSUME PlanInv, StartAgain
    PROVE  PlanInv'
<1>1. PICK S, table, most : S = items /\ table = prices /\ most = limit
  OBVIOUS
<1>2. Arrange(S, table, most, TRUE)
  BY <1>1 DEF StartAgain
<1>3. ItemsAreApart(S) /\ TableIsTyped(table) /\ most \in Int \cup {None}
  BY <1>1 DEF PlanInv, Typed, TableIsTyped
<1> QED BY <1>2, <1>3, ArrangeInv

LEMMA AnotherPassInv ==
    ASSUME PlanInv, AnotherPass
    PROVE  PlanInv'
<1>1. /\ items' = items /\ prices' = prices /\ limit' = limit /\ order' = order
      /\ reserve' = reserve /\ offset' = offset /\ placed' = placed /\ busy' = busy
      /\ load' = load /\ reason' = reason
      /\ pass' = pass + 1 /\ turn' = 1 /\ changed' = FALSE /\ ~InPass /\ pass < MaxPasses
  BY DEF AnotherPass, inputVars
<1>2. order \in Seq(Groups) /\ turn \in 1 .. (Len(order) + 1) /\ pass \in 1 .. MaxPasses
  BY DEF PlanInv, Typed
<1>3. Groups' = Groups /\ ThoseInPlan' = ThoseInPlan
  BY <1>1 DEF Groups, ThoseInPlan
<1>4. placed = Groups
  <2>1. \A n \in DOMAIN order : n < turn
    BY <1>1, <1>2 DEF InPass
  <2>2. Range(order) \subseteq placed
    BY <2>1 DEF PlanInv, PlacedInTurn, Range
  <2> QED BY <2>2 DEF PlanInv, PlacedInTurn
<1>5. \A n \in DOMAIN order' : ~(n < turn')
  BY <1>1, <1>2
<1>6. pass' \in 1 .. MaxPasses /\ pass' # 1 /\ pass' > 1
  BY <1>1, <1>2, SchedulingAssumption
<1>7. Typed'
  <2>1. 1 \in 1 .. (Len(order) + 1)
    BY <1>2
  <2>2. ItemsAreApart(items)'
    BY <1>1 DEF PlanInv, Typed, ItemsAreApart
  <2>3. (\A n \in DOMAIN order : MovableGroup(order[n]))'
    BY <1>1 DEF PlanInv, Typed, MovableGroup, Groups, Members
  <2> QED BY <1>1, <1>3, <1>6, <2>1, <2>2, <2>3 DEF PlanInv, Typed
<1>8. PlacedInTurn'
  BY <1>1, <1>3, <1>4, <1>5 DEF PlacedInTurn
<1>9. OffsetsAreAllowed'
  BY <1>1, <1>3 DEF PlanInv, OffsetsAreAllowed, Offsets, Members
<1>10. PlanIs'
  BY <1>1, <1>3 DEF PlanInv, PlanIs, BusyIs, LoadIs
<1>11. Apart'
  BY <1>1, <1>3 DEF PlanInv, Apart
<1>12. MovedFit'
  BY <1>1, <1>3 DEF PlanInv, MovedFit, PlaceFits, Members
<1>13. NothingMoved'
  BY <1>6 DEF NothingMoved
<1>14. TurnsAreCheapest' /\ TurnsAreInLimit'
  BY <1>5 DEF TurnsAreCheapest, TurnsAreInLimit
<1> QED BY <1>7, <1>8, <1>9, <1>10, <1>11, <1>12, <1>13, <1>14 DEF PlanInv

LEMMA PlanUnchanged ==
    ASSUME PlanInv, UNCHANGED planVars
    PROVE  PlanInv'
<1>1. /\ items' = items /\ prices' = prices /\ limit' = limit /\ order' = order
      /\ reserve' = reserve /\ offset' = offset /\ placed' = placed /\ busy' = busy
      /\ load' = load /\ reason' = reason /\ turn' = turn /\ changed' = changed /\ pass' = pass
  BY DEF planVars
<1>2. Groups' = Groups /\ ThoseInPlan' = ThoseInPlan
  BY <1>1 DEF Groups, ThoseInPlan
<1>3. Typed'
  <2>1. ItemsAreApart(items)'
    BY <1>1 DEF PlanInv, Typed, ItemsAreApart
  <2>2. (\A n \in DOMAIN order : MovableGroup(order[n]))'
    BY <1>1 DEF PlanInv, Typed, MovableGroup, Groups, Members
  <2> QED BY <1>1, <1>2, <2>1, <2>2 DEF PlanInv, Typed
<1>4. PlacedInTurn'
  BY <1>1, <1>2 DEF PlanInv, PlacedInTurn
<1>5. OffsetsAreAllowed'
  BY <1>1, <1>2 DEF PlanInv, OffsetsAreAllowed, Offsets, Members
<1>6. PlanIs'
  BY <1>1, <1>2 DEF PlanInv, PlanIs, BusyIs, LoadIs
<1>7. Apart'
  BY <1>1, <1>2 DEF PlanInv, Apart
<1>8. MovedFit'
  BY <1>1, <1>2 DEF PlanInv, MovedFit, PlaceFits, Members
<1>9. NothingMoved'
  BY <1>1, <1>2 DEF PlanInv, NothingMoved
<1>10. TurnsAreCheapest'
  <2>1. \A g : Options(g)' = Options(g)
    BY <1>1 DEF Options, Offsets, Rejection, BusyWithout, LoadWithout, DeviceSlots, GroupUse,
                GroupSlots, Members
  <2>2. \A g, o : Cost(g, o)' = Cost(g, o)
    BY <1>1 DEF Cost, ItemCost, Members
  <2>3. \A g : Cost(g, offset[g])' = Cost(g, offset[g])
    BY <1>1 DEF Cost, ItemCost, Members
  <2>4. \A g : IsCheapest(g)' <=> IsCheapest(g)
    BY <1>1, <2>1, <2>2, <2>3 DEF IsCheapest
  <2> QED BY <1>1, <2>4 DEF PlanInv, TurnsAreCheapest, UsesArePositive, IsCheapest
<1>11. TurnsAreInLimit'
  BY <1>1 DEF PlanInv, TurnsAreInLimit, UsesArePositive, InLimit, GroupSlots, Members
<1> QED BY <1>1, <1>3, <1>4, <1>5, <1>6, <1>7, <1>8, <1>9, <1>10, <1>11 DEF PlanInv

LEMMA ScheduleInv ==
    ASSUME PlanInv, ScheduleNext
    PROVE  PlanInv'
BY PlaceInv, StartAgainInv, AnotherPassInv DEF ScheduleNext

-----------------------------------------------------------------------------
(* The invariant is inductive.                                             *)

LEMMA InitInv == Init => IInv
BY DEF Init, IInv, Imported

LEMMA ImportInv ==
    ASSUME IInv, Import
    PROVE  IInv'
<1>1. doc' = doc /\ phase' \in {"imported", "rejected"}
  BY DEF Import
<1>2. ASSUME phase' = "imported" PROVE ValidateDocument(doc, None) /\ series' = GridSeries(doc)
  BY <1>2 DEF Import
<1>3. Imported'
  <2>1. ValidateDocument(doc, None)' = ValidateDocument(doc', None) /\ GridSeries(doc)' = GridSeries(doc')
    OBVIOUS
  <2> QED BY <1>1, <1>2, <2>1 DEF Imported
<1> QED BY <1>1, <1>3 DEF IInv

LEMMA AskInv ==
    ASSUME IInv, AskForSchedule
    PROVE  IInv'
<1>1. phase = "imported" /\ doc' = doc /\ series' = series /\ phase' \in {"refused", "schedule"}
  BY DEF AskForSchedule
<1>2. PICK d : d = doc
  OBVIOUS
<1>3. ValidateDocument(d, None) /\ series = GridSeries(d)
  BY <1>1, <1>2 DEF IInv, Imported
<1>4. Imported'
  BY <1>1, <1>2, <1>3 DEF Imported
<1>5. CASE phase' = "refused"
  BY <1>4, <1>5 DEF IInv
<1>6. CASE phase' = "schedule"
  <2>1. PICK from \in 1..Days, to \in 1..Days, table \in PriceTables, most \in Limits :
            Arrange(ActionsFromDevices(d, RecordsForFile(d, from..to)), table, most, FALSE)
    BY <1>2, <1>6 DEF AskForSchedule
  <2>2. PICK records : records = RecordsForFile(d, from..to)
    OBVIOUS
  <2>3. PICK S : S = ActionsFromDevices(d, records)
    OBVIOUS
  <2>4. records \in SUBSET Range(d.actions)
    BY <2>2 DEF RecordsForFile
  <2>5. ItemsAreApart(S)
    BY <1>3, <2>3, <2>4, ChosenAreApart
  <2>6. Arrange(S, table, most, FALSE)
    BY <2>1, <2>2, <2>3
  <2>7. TableIsTyped(table) /\ most \in Int \cup {None}
    BY DevicePlanAssumption DEF TableIsTyped
  <2>8. PlanInv'
    BY <2>5, <2>6, <2>7, ArrangeInv
  <2> QED BY <1>4, <1>6, <2>8 DEF IInv
<1> QED BY <1>1, <1>5, <1>6

LEMMA NextInv ==
    ASSUME IInv, [Next]_vars
    PROVE  IInv'
<1>1. CASE Generate
  BY <1>1 DEF Generate, fileVars, IInv, Imported
<1>2. CASE WriteFile
  BY <1>2 DEF WriteFile, IInv, Imported
<1>3. CASE Edit
  BY <1>3 DEF Edit, IInv, Imported
<1>4. CASE Import
  BY <1>4, ImportInv
<1>5. CASE AskForSchedule
  BY <1>5, AskInv
<1>6. CASE Schedule
  <2>1. phase = "schedule" /\ ScheduleNext /\ phase' = phase /\ doc' = doc /\ series' = series
    BY <1>6 DEF Schedule, fileVars
  <2>2. PlanInv'
    BY <2>1, ScheduleInv DEF IInv
  <2>3. Imported'
    BY <2>1 DEF IInv, Imported
  <2> QED BY <2>1, <2>2, <2>3 DEF IInv
<1>7. CASE Answer
  <2>1. /\ phase = "schedule" /\ Arranged /\ UNCHANGED planVars /\ doc' = doc /\ series' = series
        /\ phase' \in {"answered", "refused"}
    BY <1>7 DEF Answer
  <2>2. PlanInv' /\ Arranged'
    BY <2>1, PlanUnchanged DEF IInv, Arranged, InPass, planVars
  <2>3. Imported'
    BY <2>1 DEF IInv, Imported
  <2> QED BY <2>1, <2>2, <2>3 DEF IInv, Arranged
<1>8. CASE UNCHANGED vars
  <2>1. UNCHANGED planVars /\ phase' = phase /\ doc' = doc /\ series' = series
    BY <1>8 DEF vars
  <2>2. phase \in {"schedule", "answered"} => PlanInv'
    BY <2>1, PlanUnchanged DEF IInv
  <2>3. phase = "answered" => (~InPass /\ (~changed \/ pass = MaxPasses))'
    BY <2>1 DEF IInv, InPass, planVars
  <2>4. Imported'
    BY <2>1 DEF IInv, Imported
  <2> QED BY <2>1, <2>2, <2>3, <2>4 DEF IInv
<1> QED BY <1>1, <1>2, <1>3, <1>4, <1>5, <1>6, <1>7, <1>8 DEF Next

\* THEOREM: the plan that is kept as groups come and go, place after place and pass
\* after pass, stays the plan described by the invariant.
THEOREM PlanInvariant == Spec => []IInv
<1>1. IInv /\ [Next]_vars => IInv'
  BY NextInv
<1> QED BY <1>1, InitInv, PTL DEF Spec

-----------------------------------------------------------------------------
(* The properties.                                                         *)

LEMMA AnsweredPlan ==
    ASSUME IInv, phase = "answered"
    PROVE  /\ PlanInv /\ placed = Groups /\ ThoseInPlan = items
           /\ (~changed \/ pass = MaxPasses) /\ pass \in 1 .. MaxPasses
           /\ \A n \in DOMAIN order : n < turn
<1>1. PlanInv /\ ~InPass /\ (~changed \/ pass = MaxPasses)
  BY DEF IInv
<1>2. order \in Seq(Groups) /\ turn \in 1 .. (Len(order) + 1) /\ pass \in 1 .. MaxPasses
  BY <1>1 DEF PlanInv, Typed
<1>3. \A n \in DOMAIN order : n < turn
  BY <1>1, <1>2 DEF InPass
<1>4. Range(order) \subseteq placed
  BY <1>1, <1>3 DEF PlanInv, PlacedInTurn, Range
<1>5. placed = Groups
  BY <1>1, <1>4 DEF PlanInv, PlacedInTurn
<1>6. ThoseInPlan = items
  BY <1>5 DEF ThoseInPlan, Groups
<1> QED BY <1>1, <1>2, <1>3, <1>5, <1>6

\* THEOREM: the busy slots of the devices and the load of the house, updated as groups
\* leave the plan and take their new places (_Plan.remove and _Plan.place), are always
\* those of the groups that are in it.
THEOREM PlanIsThatOfItsGroups == Spec => []PlanIsItsGroups
<1>1. IInv => PlanIsItsGroups
  <2> SUFFICES ASSUME IInv, phase \in {"schedule", "answered"}
               PROVE  /\ \A d \in DOMAIN busy :
                             busy[d] = UNION {Used(i, offset[i.group]) : i \in {i \in ThoseInPlan : i.device = d}}
                      /\ \A s \in DOMAIN load :
                             load[s] = SumFunction([i \in ThoseInPlan |-> UseAt(i, offset[i.group], s)])
    BY DEF PlanIsItsGroups, ThoseInPlan
  <2> QED BY DEF IInv, PlanInv, PlanIs, BusyIs, LoadIs
<1> QED BY <1>1, PlanInvariant, PTL

LEMMA MovedGroups ==
    ASSUME IInv, phase = "answered", NEW i \in items, Status(i) = "moved"
    PROVE  /\ i.group \in Groups /\ i \in Members(i.group) /\ reason[i.group] = None
           /\ offset[i.group] # 0 /\ \E n \in DOMAIN order : order[n] = i.group
<1>1. reason[i.group] = None /\ offset[i.group] # 0
  BY DEF Status
<1>2. PlanInv /\ i.group \in Groups /\ i \in Members(i.group)
  BY DEF IInv, Groups, Members
<1>3. i.group \in Range(order)
  BY <1>1, <1>2 DEF PlanInv, OffsetsAreAllowed
<1> QED BY <1>1, <1>2, <1>3 DEF Range

\* THEOREM: in every answer the moved actions start on their own day, within their
\* shift, in their windows and in slots that have prices, only actions that may be
\* moved are, and no device does two things at once (rules 1 to 6 of the schedule).
THEOREM MovesKeepRules == Spec => []MovesKeepTheRules
<1>1. IInv => MovesKeepTheRules
  <2> SUFFICES ASSUME IInv, phase = "answered" PROVE MovesKeepTheRules
    BY DEF MovesKeepTheRules
  <2>1. ASSUME NEW i \in items, Status(i) = "moved"
        PROVE  LET o == offset[i.group]
               IN  /\ i.movable /\ Local[i.start + o].day = Local[i.start].day
                   /\ i.shift /= None => o \in -i.shift..i.shift
                   /\ \A s \in Used(i, o) : /\ s \in DOMAIN prices
                                            /\ i.window /= None => InWindow(i.window, s)
    <3>1. PICK g, o : g = i.group /\ o = offset[g]
      OBVIOUS
    <3>2. g \in Groups /\ i \in Members(g) /\ reason[g] = None /\ o # 0
      BY <2>1, <3>1, MovedGroups
    <3>3. PICK n \in DOMAIN order : order[n] = g
      BY <2>1, <3>1, MovedGroups
    <3>4. PlanInv
      BY DEF IInv
    <3>5. MovableGroup(g)
      BY <3>3, <3>4 DEF PlanInv, Typed
    <3>6. PlaceFits(g, o)
      BY <3>1, <3>2, <3>4 DEF PlanInv, MovedFit
    <3>7. OffsetsAreBounded(g) /\ o \in Offsets(g)
      BY <3>1, <3>2, <3>4, OffsetsAre DEF PlanInv, Typed, OffsetsAreAllowed
    <3> QED BY <3>1, <3>2, <3>5, <3>6, <3>7 DEF MovableGroup, PlaceFits, OffsetsAreBounded
  <2>2. \A i, j \in items :
            i /= j /\ i.device = j.device =>
                Used(i, offset[i.group]) \cap Used(j, offset[j.group]) = {}
    BY AnsweredPlan DEF PlanInv, Apart
  <2> QED BY <2>1, <2>2 DEF MovesKeepTheRules
<1> QED BY <1>1, PlanInvariant, PTL

\* THEOREM: when the passes end because a pass moved nothing, every group is where it
\* costs least of the places left for it, if no action gives energy back in a slot.
THEOREM NothingIsLeftToSave == Spec => [](UsesArePositive => NothingLeftToSave)
<1>1. IInv => (UsesArePositive => NothingLeftToSave)
  <2> SUFFICES ASSUME IInv, UsesArePositive, phase = "answered", ~changed,
                      NEW g \in Range(order), NEW o \in Options(g), reason[g] = None
               PROVE  Cost(g, offset[g]) <= Cost(g, o)
    BY DEF NothingLeftToSave
  <2>1. PICK n \in DOMAIN order : order[n] = g
    BY DEF Range
  <2>2. IsCheapest(g)
    BY <2>1, AnsweredPlan DEF PlanInv, TurnsAreCheapest
  <2> QED BY <2>2 DEF IsCheapest
<1> QED BY <1>1, PlanInvariant, PTL

\* THEOREM: where an action was moved to, the house does not take more than the limit of
\* the connection (rule 7), though the limit is looked at group by group and others move
\* after it, if no action gives energy back in a slot.
THEOREM MovesKeepLimit == Spec => [](UsesArePositive => MovesKeepTheLimit)
<1>1. IInv => (UsesArePositive => MovesKeepTheLimit)
  <2> SUFFICES ASSUME IInv, UsesArePositive, phase = "answered", limit /= None,
                      NEW i \in items, Status(i) = "moved", NEW s \in Used(i, offset[i.group])
               PROVE  load[s] <= limit
    BY DEF MovesKeepTheLimit
  <2>1. PICK g : g = i.group
    OBVIOUS
  <2>2. g \in Groups /\ i \in Members(g) /\ reason[g] = None /\ offset[g] # 0
    BY <2>1, MovedGroups
  <2>3. PICK n \in DOMAIN order : order[n] = g
    BY <2>1, MovedGroups
  <2>4. PlanInv /\ n < turn /\ pass \in 1 .. MaxPasses /\ (~changed \/ pass = MaxPasses)
    BY AnsweredPlan
  <2>5. pass > 1
    <3>1. ~(pass = 1 /\ ~changed)
      BY <2>2, <2>4 DEF PlanInv, NothingMoved
    <3> QED BY <2>4, <3>1, SchedulingAssumption
  <2>6. InLimit(g)
    BY <2>3, <2>4, <2>5 DEF PlanInv, TurnsAreInLimit
  <2> QED BY <2>1, <2>2, <2>6 DEF InLimit, GroupSlots
<1> QED BY <1>1, PlanInvariant, PTL

-----------------------------------------------------------------------------
(* The series of an accepted file.                                         *)

\* Elements without value may be left out of a sum.
LEMMA SumOfPart ==
    ASSUME NEW T, IsFiniteSet(T), NEW S \in SUBSET T, NEW f, \A x \in T : f[x] \in Int,
           \A x \in T \ S : f[x] = 0
    PROVE  SumOver(f, S) = SumOver(f, T)
<1> DEFINE U == T \ S
<1>1. /\ IsFiniteSet(S) /\ IsFiniteSet(U) /\ S \cap U = {} /\ T = S \cup U
      /\ (\A x \in S \cup U : f[x] \in Int) /\ (\A x \in U : f[x] = 0) /\ (\A x \in S : f[x] \in Int)
  BY FS_Subset
<1> HIDE DEF U
<1>2. SumOver(f, S \cup U) = SumOver(f, S) + SumOver(f, U)
  BY <1>1, SumOfUnion
<1>3. SumOver(f, U) = 0
  BY <1>1, SumOfZeros
<1>4. SumOver(f, S) \in Int
  BY <1>1, SumIsNumber
<1> QED BY <1>1, <1>2, <1>3, <1>4

\* What an action uses in every slot of the period.
UsesOf(d, a) == [s \in Period |-> IF s \in Slots(a) THEN SlotsOf(a, d)[s - a.start + 1] ELSE 0]

LEMMA UsesOfAction ==
    ASSUME NEW d, NEW a, RightAction(d, a)
    PROVE  /\ Slots(a) \subseteq Period
           /\ \A s \in Period : UsesOf(d, a)[s] \in Int
           /\ SumOver(UsesOf(d, a), Period) = a.energy
<1> DEFINE p == SlotsOf(a, d)
           f == UsesOf(d, a)
           N == 1..(a.end - a.start)
           h == [n \in N |-> a.start + n - 1]
<1>1. /\ a.start \in Int /\ a.end \in Int /\ a.energy \in Int /\ PeriodSlots \in Int
      /\ 1 <= a.start /\ a.start < a.end /\ a.end <= PeriodSlots + 1
      /\ p \in Seq(Int) /\ Len(p) = a.end - a.start /\ Total(p) = a.energy
  BY DeviceFileAssumption DEF RightAction, ActionsOfSchema
<1>2. DOMAIN p = N /\ IsFiniteSet(N) /\ \A n \in N : p[n] \in Int
  <2>1. a.end - a.start \in Int
    BY <1>1
  <2>2. IsFiniteSet(N)
    BY <2>1, FS_Interval
  <2> QED BY <1>1, <2>2
<1>3. Slots(a) \subseteq Period
  BY <1>1 DEF Slots, Period
<1>4. ASSUME NEW n \in N PROVE h[n] \in Slots(a) /\ h[n] \in Period /\ h[n] - a.start + 1 = n
  BY SMTT(40), <1>1, <1>3 DEF Slots
<1>5. ASSUME NEW s \in Slots(a) PROVE s - a.start + 1 \in N /\ h[s - a.start + 1] = s
  <2>1. s \in Int /\ a.start <= s /\ s <= a.end - 1
    BY <1>1 DEF Slots
  <2>2. PICK n \in Int : n = s - a.start + 1
    BY <1>1, <2>1
  <2>3. n \in N
    BY <1>1, <2>1, <2>2
  <2>4. h[n] = a.start + n - 1 /\ a.start + n - 1 = s
    BY <1>1, <2>1, <2>2, <2>3
  <2> QED BY <2>2, <2>3, <2>4
<1>6. \A n \in N : f[h[n]] = p[n]
  BY <1>4 DEF UsesOf
<1>7. \A s \in Period : f[s] \in Int /\ (s \notin Slots(a) => f[s] = 0)
  <2> SUFFICES ASSUME NEW s \in Period PROVE f[s] \in Int /\ (s \notin Slots(a) => f[s] = 0)
    OBVIOUS
  <2>1. CASE s \in Slots(a)
    <3>1. f[s] = p[s - a.start + 1]
      BY <2>1 DEF UsesOf
    <3> QED BY <1>2, <1>5, <2>1, <3>1
  <2>2. CASE s \notin Slots(a)
    BY <2>2 DEF UsesOf
  <2> QED BY <2>1, <2>2
<1>8. Slots(a) = {h[n] : n \in N}
  BY <1>4, <1>5
<1>9. \A m, n \in N : h[m] = h[n] => m = n
  BY <1>1
<1>10. SumOver(p, N) = a.energy
  <2>1. p = [n \in N |-> p[n]]
    BY <1>1, <1>2
  <2> QED BY <1>1, <2>1 DEF SumOver, Total
<1>11. IsFiniteSet(Period)
  BY <1>1, FS_Interval DEF Period
<1> HIDE DEF p, f, N, h
<1>12. SumOver(p, N) = SumOver(f, {h[n] : n \in N})
  BY <1>2, <1>6, <1>9, SumAt
<1>13. SumOver(f, Slots(a)) = SumOver(f, Period)
  BY <1>3, <1>7, <1>11, SumOfPart
<1> QED BY <1>3, <1>7, <1>8, <1>10, <1>12, <1>13 DEF f

LEMMA BalanceIsTheActions ==
    ASSUME NEW d, ValidateDocument(d, None)
    PROVE  /\ \A s \in Period : GridBalance(d)[s] \in Int
           /\ SumOver(GridBalance(d), Period)
                = SumFunction([i \in DOMAIN d.actions |-> d.actions[i].energy])
<1> DEFINE A == Range(d.actions)
           m == [a \in A |-> UsesOf(d, a)]
           energy == [a \in A |-> a.energy]
           column(s) == [a \in A |-> m[a][s]]
<1>1. /\ \A a \in A : RightAction(d, a)
      /\ \A i, j \in DOMAIN d.actions : i # j => d.actions[i].id # d.actions[j].id
      /\ d.actions \in Seq(ActionsOfSchema)
  BY ActionsAreRight
<1>2. IsFiniteSet(DOMAIN d.actions) /\ IsFiniteSet(A) /\ IsFiniteSet(Period)
  <2>1. PICK n \in Nat : DOMAIN d.actions = 1..n
    BY <1>1
  <2>2. IsFiniteSet(1..n)
    BY FS_Interval
  <2>3. d.actions \in Surjection(DOMAIN d.actions, A)
    BY <1>1 DEF Range, Surjection
  <2>4. IsFiniteSet(1..PeriodSlots)
    <3>1. PeriodSlots \in Int
      BY DeviceFileAssumption
    <3> QED BY <3>1, FS_Interval
  <2> QED BY <2>1, <2>2, <2>3, <2>4, FS_Surjection DEF Period
<1>3. \A a \in A, s \in Period : m[a][s] \in Int
  BY <1>1, UsesOfAction
<1>4. \A a \in A : SumOver(m[a], Period) = a.energy /\ a.energy \in Int
  <2> SUFFICES ASSUME NEW a \in A PROVE SumOver(m[a], Period) = a.energy /\ a.energy \in Int
    OBVIOUS
  <2>1. RightAction(d, a) /\ m[a] = UsesOf(d, a)
    BY <1>1
  <2> QED BY <2>1, UsesOfAction DEF RightAction, ActionsOfSchema
<1>5. SumOver([a \in A |-> SumOver(m[a], Period)], A)
        = SumOver([s \in Period |-> SumOver([a \in A |-> m[a][s]], A)], Period)
  <2> HIDE DEF m, A
  <2> QED BY <1>2, <1>3, SumByColumns
<1>6. ASSUME NEW s \in Period
      PROVE  GridBalance(d)[s] = SumOver(column(s), A) /\ GridBalance(d)[s] \in Int
  <2> DEFINE here == {a \in A : s \in Slots(a)}
  <2>1. PICK c : c = column(s)
    OBVIOUS
  <2>2. \A a \in A : c[a] \in Int /\ c[a] = UsesOf(d, a)[s]
    BY <1>3, <2>1
  <2>3. \A a \in A \ here : c[a] = 0
    BY <2>2 DEF UsesOf
  <2>4. [a \in here |-> SlotsOf(a, d)[s - a.start + 1]] = [a \in here |-> c[a]]
    BY <2>2 DEF UsesOf
  <2>5. GridBalance(d)[s] = SumOver(c, here)
    BY <2>4 DEF GridBalance, SumOver
  <2>6. here \in SUBSET A
    OBVIOUS
  <2> HIDE DEF here, A, column
  <2>7. SumOver(c, here) = SumOver(c, A) /\ SumOver(c, A) \in Int
    BY <1>2, <2>2, <2>3, <2>6, SumOfPart, SumIsNumber
  <2> QED BY <2>1, <2>5, <2>7
<1>7. SumOver(GridBalance(d), Period) = SumOver([s \in Period |-> SumOver([a \in A |-> m[a][s]], A)], Period)
  <2>1. PICK rows : rows = [s \in Period |-> SumOver([a \in A |-> m[a][s]], A)]
    OBVIOUS
  <2>2. \A s \in Period : GridBalance(d)[s] = rows[s]
    BY <1>6, <2>1
  <2> QED BY <2>1, <2>2, SumOfSame
<1>8. SumOver([a \in A |-> SumOver(m[a], Period)], A) = SumOver(energy, A)
  <2>1. [a \in A |-> SumOver(m[a], Period)] = energy
    BY <1>4
  <2> QED BY <2>1
<1>9. SumFunction([i \in DOMAIN d.actions |-> d.actions[i].energy]) = SumOver(energy, A)
  <2> DEFINE D == DOMAIN d.actions
  <2>1. PICK h : h = d.actions
    OBVIOUS
  <2>2. PICK g : g = [i \in D |-> h[i].energy]
    OBVIOUS
  <2>3. \A i \in D : h[i] \in A /\ g[i] = energy[h[i]] /\ energy[h[i]] \in Int
    BY <1>4, <2>1, <2>2 DEF Range
  <2>4. \A i, j \in D : h[i] = h[j] => i = j
    BY <1>1, <2>1
  <2>5. A = {h[i] : i \in D}
    BY <2>1 DEF Range
  <2>6. IsFiniteSet(D)
    BY <1>2
  <2>7. SumFunction([i \in D |-> d.actions[i].energy]) = SumOver(g, D)
    BY <2>1, <2>2 DEF SumOver
  <2> HIDE DEF energy, A, D
  <2>8. SumOver(g, D) = SumOver(energy, {h[i] : i \in D})
    BY <2>3, <2>4, <2>6, SumAt
  <2> QED BY <2>5, <2>7, <2>8 DEF D
<1> QED BY <1>5, <1>6, <1>7, <1>8, <1>9

\* THEOREM: whatever the user edits, the series of an accepted file, import less export
\* in all slots, is the energy of its actions.
THEOREM SeriesIsThatOfTheActions == Spec => []SeriesIsTheActions
<1>1. IInv => SeriesIsTheActions
  <2> SUFFICES ASSUME IInv, phase = "imported"
               PROVE  SumFunction([s \in Period |-> series[s].imported - series[s].exported])
                        = SumFunction([i \in DOMAIN doc.actions |-> doc.actions[i].energy])
    BY DEF SeriesIsTheActions
  <2>1. PICK d : d = doc
    OBVIOUS
  <2>2. ValidateDocument(d, None) /\ series = GridSeries(d)
    BY <2>1 DEF IInv, Imported
  <2>3. ASSUME NEW s \in Period
        PROVE  series[s].imported - series[s].exported = GridBalance(d)[s]
    <3>1. PICK b \in Int : b = GridBalance(d)[s]
      BY <2>2, BalanceIsTheActions
    <3>2. series[s] = [imported |-> Max({0, b}), exported |-> Max({0, 0 - b})]
      BY <2>2, <3>1 DEF GridSeries
    <3>3. Max({0, b}) = (IF 0 <= b THEN b ELSE 0)
      BY MaxOfTwo
    <3>4. 0 - b \in Int
      OBVIOUS
    <3>5. Max({0, 0 - b}) = (IF 0 <= 0 - b THEN 0 - b ELSE 0)
      BY <3>4, MaxOfTwo
    <3> QED BY <3>1, <3>2, <3>3, <3>5
  <2>4. [s \in Period |-> series[s].imported - series[s].exported] = [s \in Period |-> GridBalance(d)[s]]
    BY <2>3
  <2> QED BY <2>1, <2>2, <2>4, BalanceIsTheActions DEF SumOver
<1> QED BY <1>1, PlanInvariant, PTL

-----------------------------------------------------------------------------
(* The generator of device files.                                          *)

\* The sum over one element more.
LEMMA SumWithOne ==
    ASSUME NEW S, IsFiniteSet(S), NEW x, x \notin S, NEW f, NEW g,
           \A a \in S : f[a] = g[a] /\ g[a] \in Int, g[x] \in Int
    PROVE  SumOver(g, S \cup {x}) = SumOver(f, S) + g[x] /\ SumOver(f, S) \in Int
<1>1. Numbers(g, S \cup {x})
  BY DEF Numbers
<1>2. SumOver(g, S \cup {x}) = SumOver(g, S) + g[x] /\ SumOver(g, S) \in Int
  BY <1>1, SumStep
<1>3. SumOver(f, S) = SumOver(g, S)
  BY SumOfSame
<1> QED BY <1>2, <1>3

\* The sum of a sequence of equal numbers.
LEMMA TotalOfSame ==
    ASSUME NEW v \in Nat, NEW n \in Nat
    PROVE  Same(v, n) \in Seq(Int) /\ Len(Same(v, n)) = n /\ Total(Same(v, n)) = v * n
<1> DEFINE C == {k \in Nat : Total(Same(v, k)) = v * k}
<1>1. \A k \in Nat : Total(Same(v, k)) = SumOver(Same(v, k), 1..k)
  <2> SUFFICES ASSUME NEW k \in Nat PROVE Total(Same(v, k)) = SumOver(Same(v, k), 1..k)
    OBVIOUS
  <2>1. Same(v, k) = [i \in 1..k |-> Same(v, k)[i]]
    BY DEF Same
  <2> QED BY <2>1 DEF Total, SumOver
<1>2. 0 \in C
  <2>1. 1..0 = {} /\ v * 0 = 0
    OBVIOUS
  <2>2. SumOver(Same(v, 0), 1..0) = 0
    BY <2>1, SumOfNone
  <2> QED BY <1>1, <2>1, <2>2
<1>3. ASSUME NEW k \in Nat, k \in C PROVE k + 1 \in C
  <2>1. PICK f : f = Same(v, k)
    OBVIOUS
  <2>2. PICK g : g = Same(v, k + 1)
    OBVIOUS
  <2>3. PICK m \in Nat : m = k + 1
    OBVIOUS
  <2>4. \A i \in 1..k : f[i] = g[i] /\ g[i] \in Int
    BY <2>1, <2>2 DEF Same
  <2>5. g[m] = v /\ m \notin 1..k /\ 1..k \cup {m} = 1..m /\ IsFiniteSet(1..k)
    <3>1. m \notin 1..k /\ 1..k \cup {m} = 1..m /\ m \in 1..m
      BY <2>3
    <3>2. g = [i \in 1..m |-> v]
      BY <2>2, <2>3 DEF Same
    <3>3. IsFiniteSet(1..k)
      BY FS_Interval
    <3> QED BY <3>1, <3>2, <3>3
  <2>6. SumOver(g, 1..k \cup {m}) = SumOver(f, 1..k) + g[m] /\ SumOver(f, 1..k) \in Int
    <3>1. g[m] \in Int /\ m \notin 1..k /\ IsFiniteSet(1..k)
      BY <2>5
    <3> QED BY <2>4, <3>1, SumWithOne
  <2>7. Total(Same(v, m)) = v * k + v
    BY <1>1, <1>3, <2>1, <2>2, <2>3, <2>5, <2>6
  <2>8. v * k + v = v * m
    BY <2>3
  <2> QED BY <2>3, <2>7, <2>8
<1>4. n \in C
  <2> HIDE DEF C
  <2> QED BY <1>2, <1>3, Induct
<1>5. Same(v, n) \in Seq(Int) /\ Len(Same(v, n)) = n
  BY DEF Same
<1> QED BY <1>4, <1>5

\* The jobs are of the days of the file.
LEMMA EveryDayIs ==
    ASSUME NEW steps, NEW n \in {1, 2, 6, 8}, Len(steps) = n, NEW S, \A i \in 1..n : steps[i] \in S
    PROVE  EveryDay(steps) \in Seq([day : 1..Days, step : S])
<1>2. PICK D \in Nat : D = Days
  BY GeneratorAssumption
<1>3. ASSUME NEW j \in 1..(D * n) PROVE ((j - 1) \div n) + 1 \in 1..D /\ ((j - 1) % n) + 1 \in 1..n
  <2>1. CASE n = 1
    BY <1>3, <2>1
  <2>2. CASE n = 2
    BY <1>3, <2>2
  <2>3. CASE n = 6
    BY <1>3, <2>3
  <2>4. CASE n = 8
    BY <1>3, <2>4
  <2> QED BY <2>1, <2>2, <2>3, <2>4
<1>4. PICK m \in Nat : m = D * n
  OBVIOUS
<1>5. EveryDay(steps) = [j \in 1..m |-> [day |-> ((j - 1) \div n) + 1, step |-> steps[((j - 1) % n) + 1]]]
  BY <1>2, <1>4 DEF EveryDay
<1>6. \A j \in 1..m : [day |-> ((j - 1) \div n) + 1, step |-> steps[((j - 1) % n) + 1]] \in [day : 1..Days, step : S]
  BY <1>2, <1>3, <1>4
<1> QED BY <1>4, <1>5, <1>6

LEMMA JobsAre ==
    /\ Len(Jobs) \in Nat /\ DOMAIN Jobs = 1..Len(Jobs)
    /\ \A j \in DOMAIN Jobs : Jobs[j].day \in 1..Days
<1>1. PICK first : first = <<"always_on">>
  OBVIOUS
<1>2. PICK last : last = <<"fill", "spikes">>
  OBVIOUS
<1>3. Len(first) = 1 /\ Len(last) = 2 /\ Len(MeterDay) = 6 /\ Len(HouseDay) = 8
  BY <1>1, <1>2 DEF MeterDay, HouseDay
<1> DEFINE S == {first[i] : i \in 1..1} \cup {last[i] : i \in 1..2} \cup {MeterDay[i] : i \in 1..6}
                \cup {HouseDay[i] : i \in 1..8}
<1>4. PICK K : K = [day : 1..Days, step : S]
  OBVIOUS
<1>5. /\ \A i \in 1..1 : first[i] \in S
      /\ \A i \in 1..2 : last[i] \in S
      /\ \A i \in 1..6 : MeterDay[i] \in S
      /\ \A i \in 1..8 : HouseDay[i] \in S
  OBVIOUS
<1> HIDE DEF S
<1>6. EveryDay(first) \in Seq(K) /\ EveryDay(last) \in Seq(K) /\ EveryDay(MeterDay) \in Seq(K)
      /\ EveryDay(HouseDay) \in Seq(K)
  BY <1>3, <1>4, <1>5, EveryDayIs
<1>7. Jobs = IF meter = None THEN EveryDay(HouseDay)
             ELSE EveryDay(first) \o EveryDay(MeterDay) \o EveryDay(last)
  BY <1>1, <1>2 DEF Jobs
<1>8. Jobs \in Seq(K)
  BY <1>6, <1>7
<1>9. Len(Jobs) \in Nat /\ DOMAIN Jobs = 1..Len(Jobs) /\ \A j \in DOMAIN Jobs : Jobs[j] \in K
  BY <1>8
<1> QED BY <1>4, <1>9

-----------------------------------------------------------------------------
(* An action that the generator makes.                                     *)

Programs == {None, "cotton", "dry", "eco"}
MadeActions ==
    [device : DOMAIN Catalogue, program : Programs, start : Nat \ {0}, end : Int, energy : Int,
     use : Seq(Int), profile : Seq(Int), plugged : Int \cup {None}, deadline : Int \cup {None}]
RightFor(a, device) ==
    /\ ProgramFits(a, device) /\ ActionProfile(a, device) = a.use /\ ActionIsRight(a, device)
Shaped(a) ==
    /\ a \in MadeActions /\ a.use # << >>
    /\ a.end = a.start + Len(a.use) /\ a.end <= PeriodSlots + 1
Made(a) == Shaped(a) /\ a.device \in DOMAIN made /\ RightFor(a, made[a.device])

\* How the use of an action is written: as its profile, that of its program, or equal parts.
IsWritten(device, program, use, profile) ==
    \/ profile = use /\ program = None /\ DOMAIN device.programs = {}
    \/ profile = << >> /\ program \in DOMAIN device.programs /\ use = device.programs[program]
    \/ /\ profile = << >> /\ program = None /\ DOMAIN device.programs = {}
       /\ \E v \in {1, 2, 3} : use = Same(v, Len(use))
KeepsPower(device, use) ==
    device.power # None => \A i \in DOMAIN use : use[i] \in -device.power..device.power
SessionIsRight(device, start, use, plugged, deadline) ==
    IF device.type = "ev_charger"
    THEN /\ deadline \in Int /\ start + Len(use) <= deadline
         /\ plugged = None \/ (plugged \in Int /\ plugged <= start)
    ELSE plugged = None /\ deadline = None

\* The total of a sequence of numbers is a number.
LEMMA TotalIsNumber ==
    ASSUME NEW use \in Seq(Int)
    PROVE  Total(use) = SumOver(use, DOMAIN use) /\ Total(use) \in Int /\ IsFiniteSet(DOMAIN use)
<1>1. PICK n \in Nat : DOMAIN use = 1..n
  OBVIOUS
<1>2. IsFiniteSet(DOMAIN use) /\ \A i \in DOMAIN use : use[i] \in Int
  BY <1>1, FS_Interval
<1>3. use = [i \in DOMAIN use |-> use[i]]
  OBVIOUS
<1>4. Total(use) = SumOver(use, DOMAIN use)
  BY <1>3 DEF Total, SumOver
<1> QED BY <1>2, <1>4, SumIsNumber

LEMMA TotalOfPositive ==
    ASSUME NEW use \in Seq(Int), \A i \in DOMAIN use : use[i] >= 0
    PROVE  Total(use) \in Nat
<1>1. Total(use) = SumOver(use, DOMAIN use) /\ Total(use) \in Int /\ IsFiniteSet(DOMAIN use)
  BY TotalIsNumber
<1>2. \A i \in DOMAIN use : use[i] \in Int /\ use[i] >= 0
  OBVIOUS
<1>3. SumOver(use, DOMAIN use) >= 0
  BY <1>1, <1>2, SumIsPositive
<1> QED BY <1>1, <1>3

LEMMA EqualParts ==
    ASSUME NEW v \in {1, 2, 3}, NEW n \in Nat \ {0}
    PROVE  (v * n) \div n = v
<1>1. CASE v = 1
  BY <1>1
<1>2. CASE v = 2
  BY <1>2
<1>3. CASE v = 3
  BY <1>3
<1> QED BY <1>1, <1>2, <1>3

LEMMA NewIsRight ==
    ASSUME NEW name, NEW device, NEW program, program # None => program \in DOMAIN device.programs,
           NEW start \in Nat \ {0},
           NEW use \in Seq(Int), use # << >>, NEW profile, NEW plugged, NEW deadline,
           IsWritten(device, program, use, profile), (Total(use) < 0) = device.producer,
           KeepsPower(device, use), SessionIsRight(device, start, use, plugged, deadline),
           NEW x, x = New(name, program, start, use, profile, plugged, deadline)
    PROVE  RightFor(x, device)
<1>1. /\ x.device = name /\ x.program = program /\ x.start = start /\ x.end = start + Len(use)
      /\ x.energy = Total(use) /\ x.use = use /\ x.profile = profile
      /\ x.plugged = plugged /\ x.deadline = deadline
  BY DEF New
<1>2. PICK n \in Nat \ {0} : n = Len(use) /\ x.end - x.start = n /\ DOMAIN use = 1..n
  BY <1>1
<1>3. ActionProfile(x, device) = use
  <2>1. CASE profile = use
    BY <1>1, <2>1 DEF ActionProfile
  <2>2. CASE profile = << >> /\ program \in DOMAIN device.programs /\ use = device.programs[program]
    BY <1>1, <2>2 DEF ActionProfile
  <2>3. CASE /\ profile = << >> /\ program = None /\ DOMAIN device.programs = {}
             /\ \E v \in {1, 2, 3} : use = Same(v, Len(use))
    <3>1. PICK v \in {1, 2, 3} : use = Same(v, n)
      BY <1>2, <2>3
    <3>2. x.energy \div n = v
      <4>1. Total(use) = v * n
        BY <3>1, TotalOfSame
      <4> QED BY <1>1, <4>1, EqualParts
    <3>3. ActionProfile(x, device) = [i \in 1..(x.end - x.start) |-> x.energy \div (x.end - x.start)]
      BY <1>1, <2>3 DEF ActionProfile
    <3>4. ActionProfile(x, device) = [i \in 1..n |-> v]
      BY <1>2, <3>2, <3>3
    <3> QED BY <3>1, <3>4 DEF Same
  <2> QED BY <2>1, <2>2, <2>3 DEF IsWritten
<1>4. ProgramFits(x, device)
  BY <1>1 DEF ProgramFits, IsWritten
<1>5. device.type = "ev_charger" => SessionFits(x)
  BY <1>1, DeviceFileAssumption DEF SessionFits, SessionIsRight
<1>6. device.type # "ev_charger" => x.plugged = None /\ x.deadline = None
  BY <1>1 DEF SessionIsRight
<1>7. ActionIsRight(x, device)
  BY <1>1, <1>3, <1>5, <1>6 DEF ActionIsRight, KeepsPower
<1> QED BY <1>1, <1>3, <1>4, <1>7 DEF RightFor

MayBeMade(name, device, program, start, use, profile, plugged, deadline) ==
    /\ name \in DOMAIN Catalogue /\ program \in Programs
    /\ program # None => program \in DOMAIN device.programs
    /\ start \in Nat \ {0} /\ use \in Seq(Int) /\ use # << >> /\ profile \in Seq(Int)
    /\ plugged \in Int \cup {None} /\ deadline \in Int \cup {None}
    /\ start + Len(use) <= PeriodSlots + 1
    /\ IsWritten(device, program, use, profile) /\ (Total(use) < 0) = device.producer
    /\ KeepsPower(device, use) /\ SessionIsRight(device, start, use, plugged, deadline)

LEMMA NewIsMade ==
    ASSUME NEW name, NEW device, NEW program, NEW start, NEW use, NEW profile, NEW plugged, NEW deadline,
           MayBeMade(name, device, program, start, use, profile, plugged, deadline),
           NEW x, x = New(name, program, start, use, profile, plugged, deadline)
    PROVE  /\ Shaped(x) /\ x.device = name /\ x.start = start /\ x.use = use
           /\ x.end = start + Len(use) /\ RightFor(x, device)
           /\ name \in DOMAIN made /\ made[name] = device => Made(x)
<1>0. /\ name \in DOMAIN Catalogue /\ program \in Programs
      /\ program # None => program \in DOMAIN device.programs
      /\ start \in Nat \ {0} /\ use \in Seq(Int) /\ use # << >> /\ profile \in Seq(Int)
      /\ plugged \in Int \cup {None} /\ deadline \in Int \cup {None}
      /\ start + Len(use) <= PeriodSlots + 1
      /\ IsWritten(device, program, use, profile) /\ (Total(use) < 0) = device.producer
      /\ KeepsPower(device, use) /\ SessionIsRight(device, start, use, plugged, deadline)
  BY DEF MayBeMade
<1>1. RightFor(x, device)
  BY <1>0, NewIsRight
<1>2. /\ x.device = name /\ x.program = program /\ x.start = start /\ x.end = start + Len(use)
      /\ x.energy = Total(use) /\ x.use = use /\ x.profile = profile
      /\ x.plugged = plugged /\ x.deadline = deadline
  BY DEF New
<1>3. PICK n \in Nat \ {0} : n = Len(use)
  BY <1>0
<1>4. Total(use) \in Int
  BY <1>0, TotalIsNumber
<1>5. x \in MadeActions
  BY <1>0, <1>3, <1>4 DEF New, MadeActions
<1>6. Shaped(x)
  BY <1>0, <1>2, <1>5 DEF Shaped
<1>7. name \in DOMAIN made /\ made[name] = device => Made(x)
  BY <1>1, <1>2, <1>6 DEF Made
<1> QED BY <1>1, <1>2, <1>6, <1>7

-----------------------------------------------------------------------------
(* What the generator keeps.                                               *)

\* What an action takes in a slot, from the meter and from the grid; and all actions.
UseIn(a, s) == IF s \in Slots(a) THEN a.use[s - a.start + 1] ELSE 0
UsedAt(S, s) == SumOver([a \in S |-> UseIn(a, s)], S)
LoadOf(a, s) == IF UseIn(a, s) > 0 THEN UseIn(a, s) ELSE 0
LoadAt(S, s) == SumOver([a \in S |-> LoadOf(a, s)], S)

\* The device of the rest is that of the catalogue but for its power.
IsRest(device) ==
    /\ DOMAIN device = DOMAIN Catalogue[Other]
    /\ device.type = Catalogue[Other].type /\ device.producer = Catalogue[Other].producer
    /\ device.mode = Catalogue[Other].mode /\ device.window = Catalogue[Other].window
    /\ device.shift = Catalogue[Other].shift /\ device.programs = Catalogue[Other].programs
    /\ device.power \in Nat \ {0}
NoOverlap(S) == \A a, b \in S : a # b /\ a.device = b.device => Slots(a) \cap Slots(b) = {}

Devices ==
    /\ DOMAIN made \subseteq DOMAIN Catalogue
    /\ \A d \in DOMAIN made : d # Other => made[d] = Catalogue[d]
    /\ Other \in DOMAIN made => IsRest(made[Other])
MadeActionsInv == IsFiniteSet(actions) /\ NoOverlap(actions) /\ \A a \in actions : Made(a)
Open == job <= Len(Jobs) + 1
ConstantUsers == {"fridge", "light"}
Shared(s) == filled["fridge"][s] + filled["light"][s] + remaining[s]

\* A house stays within its connection; of a meter, what is not with the actions is
\* with the constant use or remains.
HouseInv == meter = None => \A s \in Period : LoadAt(actions, s) <= GridLimit
MeterTyped ==
    /\ meter \in [Period -> Nat] /\ remaining \in [Period -> Nat] /\ Other \in DOMAIN made
    /\ filled \in [ConstantUsers -> [Period -> Nat]]
    /\ \A d \in ConstantUsers, s \in Period :
          filled[d][s] <= Catalogue[d].power /\ (filled[d][s] > 0 => d \in DOMAIN made)
    /\ Open => \A a \in actions : a.device \notin ConstantUsers \cup {Other}
MeterInv ==
    meter # None =>
        /\ MeterTyped
        /\ \A s \in Period : UsedAt(actions, s) + (IF Open THEN Shared(s) ELSE 0) = meter[s]
GeneratorInv ==
    /\ job \in 1..(Len(Jobs) + 2) /\ washEnd \in {None} \cup (Nat \ {0})
    /\ Devices /\ MadeActionsInv /\ HouseInv /\ MeterInv

LEMMA CatalogueIs ==
    ASSUME NEW d \in DOMAIN Catalogue
    PROVE  /\ DeviceFollowsSchema(Catalogue[d])
           /\ Catalogue[d].producer = (d = "pv") /\ (Catalogue[d].type = "ev_charger") = (d = "ev")
           /\ d \in WithProfiles \cup {Other} => /\ DOMAIN Catalogue[d].programs = {}
                                                 /\ Catalogue[d].power \in Nat \ {0}
           /\ \A p \in DOMAIN Catalogue[d].programs :
                 /\ Catalogue[d].programs[p] \in Seq(Int) \ {<< >>}
                 /\ \A i \in DOMAIN Catalogue[d].programs[p] :
                      /\ Catalogue[d].programs[p][i] >= 0
                      /\ Catalogue[d].power # None => Catalogue[d].programs[p][i] <= Catalogue[d].power
<1>1. PICK device : device = Catalogue[d]
  OBVIOUS
<1>2. /\ DeviceFollowsSchema(device)
      /\ device.producer = (d = "pv") /\ (device.type = "ev_charger") = (d = "ev")
      /\ d \in WithProfiles \cup {Other} => DOMAIN device.programs = {}
      /\ \A p \in DOMAIN device.programs : \A i \in DOMAIN device.programs[p] :
           /\ device.programs[p][i] >= 0
           /\ device.power # None => device.programs[p][i] <= device.power
  BY <1>1, CatalogueAssumption
<1>3. /\ \A p \in DOMAIN device.programs : device.programs[p] \in Seq(Int) \ {<< >>}
      /\ device.power \in (Nat \ {0}) \cup {None}
      /\ device.power = None => DOMAIN device.programs # {}
  BY <1>2 DEF DeviceFollowsSchema
<1> QED BY <1>1, <1>2, <1>3

LEMMA PeriodIs == PeriodSlots \in Nat /\ Period = 1..PeriodSlots /\ IsFiniteSet(Period)
<1>1. PeriodSlots \in Nat
  BY DeviceFileAssumption
<1> QED BY <1>1, FS_Interval DEF Period

LEMMA ShapeIs ==
    ASSUME NEW a, Shaped(a)
    PROVE  /\ a.start \in Nat \ {0} /\ a.use \in Seq(Int) /\ Len(a.use) \in Nat \ {0}
           /\ a.end = a.start + Len(a.use) /\ a.end <= PeriodSlots + 1
           /\ Slots(a) = a.start..(a.start + Len(a.use) - 1) /\ a.start \in Slots(a)
           /\ Slots(a) \subseteq Period
           /\ \A s : UseIn(a, s) \in Int /\ LoadOf(a, s) \in Nat
           /\ \A s : s \notin Slots(a) => UseIn(a, s) = 0 /\ LoadOf(a, s) = 0
<1>1. /\ a.start \in Nat \ {0} /\ a.use \in Seq(Int) /\ a.use # << >>
      /\ a.end = a.start + Len(a.use) /\ a.end <= PeriodSlots + 1
  BY DEF Shaped, MadeActions
<1>2. PICK n \in Nat \ {0} : n = Len(a.use) /\ DOMAIN a.use = 1..n
  BY <1>1
<1>3. Slots(a) = a.start..(a.start + n - 1)
  BY <1>1, <1>2 DEF Slots
<1>4. a.start \in Slots(a) /\ Slots(a) \subseteq Period
  BY <1>1, <1>2, <1>3, PeriodIs
<1>5. ASSUME NEW s PROVE UseIn(a, s) \in Int /\ (s \notin Slots(a) => UseIn(a, s) = 0)
  <2>1. CASE s \in Slots(a)
    <3>1. PICK t \in Int : t = s /\ a.start <= t /\ t <= a.start + n - 1
      BY <1>1, <1>3, <2>1
    <3>2. t - a.start + 1 \in 1..n
      BY <1>1, <3>1
    <3>3. a.use[t - a.start + 1] \in Int
      BY <1>1, <1>2, <3>2
    <3> QED BY <2>1, <3>1, <3>3 DEF UseIn
  <2>2. CASE s \notin Slots(a)
    BY <2>2 DEF UseIn
  <2> QED BY <2>1, <2>2
<1>6. \A s : LoadOf(a, s) \in Nat /\ (s \notin Slots(a) => LoadOf(a, s) = 0)
  BY <1>5 DEF LoadOf
<1> QED BY <1>1, <1>2, <1>3, <1>4, <1>5, <1>6

LEMMA MadeIs ==
    ASSUME NEW a, Made(a)
    PROVE  /\ a.start \in Nat \ {0} /\ a.use \in Seq(Int) /\ Len(a.use) \in Nat \ {0}
           /\ a.end = a.start + Len(a.use) /\ a.end <= PeriodSlots + 1
           /\ Slots(a) = a.start..(a.start + Len(a.use) - 1) /\ a.start \in Slots(a)
           /\ Slots(a) \subseteq Period
           /\ \A s : UseIn(a, s) \in Int /\ LoadOf(a, s) \in Nat
           /\ \A s : s \notin Slots(a) => UseIn(a, s) = 0 /\ LoadOf(a, s) = 0
<1>1. Shaped(a)
  BY DEF Made
<1> QED BY <1>1, ShapeIs

\* One action more.
LEMMA OneMore ==
    ASSUME MadeActionsInv, NEW x, Made(x),
           \A a \in actions : a.device = x.device => Slots(a) \cap Slots(x) = {}
    PROVE  /\ IsFiniteSet(actions \cup {x}) /\ NoOverlap(actions \cup {x})
           /\ \A s : /\ UsedAt(actions \cup {x}, s) = UsedAt(actions, s) + UseIn(x, s)
                     /\ UsedAt(actions, s) \in Int
                     /\ LoadAt(actions \cup {x}, s) = LoadAt(actions, s) + LoadOf(x, s)
                     /\ LoadAt(actions, s) \in Int
<1>1. x \notin actions
  <2>1. x.start \in Slots(x)
    BY MadeIs
  <2> QED BY <2>1
<1>2. IsFiniteSet(actions) /\ IsFiniteSet(actions \cup {x})
  BY FS_AddElement DEF MadeActionsInv
<1>3. NoOverlap(actions \cup {x})
  BY DEF NoOverlap, MadeActionsInv
<1>4. \A a \in actions \cup {x} : Made(a)
  BY DEF MadeActionsInv
<1>5. ASSUME NEW s
      PROVE  UsedAt(actions \cup {x}, s) = UsedAt(actions, s) + UseIn(x, s) /\ UsedAt(actions, s) \in Int
  <2>1. PICK f : f = [a \in actions |-> UseIn(a, s)]
    OBVIOUS
  <2>2. PICK g : g = [a \in actions \cup {x} |-> UseIn(a, s)]
    OBVIOUS
  <2>3. \A a \in actions \cup {x} : UseIn(a, s) \in Int
    BY <1>4, MadeIs
  <2>4. (\A a \in actions : f[a] = g[a] /\ g[a] \in Int) /\ g[x] \in Int /\ g[x] = UseIn(x, s)
    BY <2>1, <2>2, <2>3
  <2>5. SumOver(g, actions \cup {x}) = SumOver(f, actions) + g[x] /\ SumOver(f, actions) \in Int
    BY <1>1, <1>2, <2>4, SumWithOne
  <2> QED BY <2>1, <2>2, <2>4, <2>5 DEF UsedAt
<1>6. ASSUME NEW s
      PROVE  LoadAt(actions \cup {x}, s) = LoadAt(actions, s) + LoadOf(x, s) /\ LoadAt(actions, s) \in Int
  <2>1. PICK f : f = [a \in actions |-> LoadOf(a, s)]
    OBVIOUS
  <2>2. PICK g : g = [a \in actions \cup {x} |-> LoadOf(a, s)]
    OBVIOUS
  <2>3. \A a \in actions \cup {x} : LoadOf(a, s) \in Int
    BY <1>4, MadeIs
  <2>4. (\A a \in actions : f[a] = g[a] /\ g[a] \in Int) /\ g[x] \in Int /\ g[x] = LoadOf(x, s)
    BY <2>1, <2>2, <2>3
  <2>5. SumOver(g, actions \cup {x}) = SumOver(f, actions) + g[x] /\ SumOver(f, actions) \in Int
    BY <1>1, <1>2, <2>4, SumWithOne
  <2> QED BY <2>1, <2>2, <2>4, <2>5 DEF LoadAt
<1> QED BY <1>2, <1>3, <1>5, <1>6

\* The sum that the script makes of the load in a slot.
LEMMA LoadOfScript ==
    ASSUME NEW S, IsFiniteSet(S), \A a \in S : Made(a), NEW s
    PROVE  SumFunction([a \in {a \in S : s \in Slots(a)} |-> Max({0, a.use[s - a.start + 1]})]) = LoadAt(S, s)
<1> DEFINE here == {a \in S : s \in Slots(a)}
           f == [a \in S |-> LoadOf(a, s)]
<1>1. \A a \in S : LoadOf(a, s) \in Nat /\ (s \notin Slots(a) => LoadOf(a, s) = 0)
  BY MadeIs
<1>2. (\A a \in S : f[a] \in Int) /\ (\A a \in S \ here : f[a] = 0) /\ here \in SUBSET S
  BY <1>1
<1>3. ASSUME NEW a \in here PROVE Max({0, a.use[s - a.start + 1]}) = f[a]
  <2>1. UseIn(a, s) \in Int /\ UseIn(a, s) = a.use[s - a.start + 1]
    BY MadeIs DEF UseIn
  <2>2. PICK v \in Int : v = UseIn(a, s)
    BY <2>1
  <2>3. Max({0, v}) = IF 0 <= v THEN v ELSE 0
    BY MaxOfTwo
  <2> QED BY <2>1, <2>2, <2>3 DEF LoadOf
<1>4. [a \in here |-> Max({0, a.use[s - a.start + 1]})] = [a \in here |-> f[a]]
  BY <1>3
<1> HIDE DEF here, f
<1>5. SumOver(f, here) = SumOver(f, S)
  BY <1>2, SumOfPart
<1> QED BY <1>4, <1>5 DEF SumOver, LoadAt, here, f

-----------------------------------------------------------------------------
(* The plan of a house.                                                    *)

LEMMA ClockIs ==
    ASSUME NEW day, NEW times, Showing(day, times) # {}
    PROVE  /\ At(day, times) \in Showing(day, times) /\ At(day, times) \in Nat \ {0}
           /\ At(day, times) \in DOMAIN Local
<1>1. PICK n \in Nat : DOMAIN Local = 1..n
  BY DeviceFileAssumption
<1>2. IsFiniteSet(1..n) /\ Showing(day, times) \subseteq 1..n
  BY <1>1, FS_Interval DEF Showing
<1>3. IsFiniteSet(Showing(day, times)) /\ Showing(day, times) \subseteq Int
  BY <1>2, FS_Subset
<1>4. At(day, times) \in Showing(day, times)
  BY <1>3, MinIs DEF At
<1> QED BY <1>1, <1>2, <1>4

LEMMA TimesOfDay ==
    ASSUME NEW day \in 1..Days
    PROVE  /\ At(day, 0) \in Nat \ {0} /\ At(day, 2) \in Nat \ {0} /\ At(day + 1, 2) \in Nat \ {0}
           /\ At(day + 1, 0) \in Nat \ {0} /\ At(day, 0) < At(day + 1, 0)
           /\ \A step \in DOMAIN Draws : \A times \in Draws[step] \ {None} : At(day, times) \in Nat \ {0}
<1>1. /\ Showing(day, 0) # {} /\ Showing(day, 2) # {} /\ Showing(day + 1, 0) # {} /\ Showing(day + 1, 2) # {}
      /\ \A step \in DOMAIN Draws : \A times \in Draws[step] \ {None} : Showing(day, times) # {}
  BY GeneratorAssumption DEF ClockAssumption
<1>2. At(day, 0) < At(day + 1, 0)
  <2>1. PICK s \in DOMAIN Local : s = At(day, 0)
    BY <1>1, ClockIs
  <2>2. PICK r \in DOMAIN Local : r = At(day + 1, 0)
    BY <1>1, ClockIs
  <2>3. s \in Showing(day, 0) /\ r \in Showing(day + 1, 0)
    BY <1>1, <2>1, <2>2, ClockIs
  <2>4. DayTimes \in Nat \ {0} /\ 0 \div DayTimes = 0 /\ day \in Int
    BY SMTT(40), DeviceFileAssumption, GeneratorAssumption
  <2>5. Local[s].day = day /\ Local[r].day = day + 1
    BY <2>3, <2>4 DEF Showing
  <2>6. r < s => Local[r].day <= Local[s].day
    BY GeneratorAssumption DEF ClockAssumption
  <2>7. r \in Int /\ s \in Int
    BY DeviceFileAssumption
  <2>8. r # s
    BY <2>4, <2>5
  <2> QED BY <2>1, <2>2, <2>4, <2>5, <2>6, <2>7, <2>8
<1> QED BY <1>1, <1>2, ClockIs

\* While a job is at work, the file is open and stays so.
LEMMA AtWork ==
    ASSUME NEW step, At_(step)
    PROVE  /\ Day \in 1..Days /\ Open /\ job \in Nat
           /\ job + 1 \in 1..(Len(Jobs) + 2) /\ job + 1 <= Len(Jobs) + 1
BY JobsAre DEF At_, Day, Open

LEMMA JobsStay == meter' = meter => Jobs' = Jobs
BY DEF Jobs

\* What may be added to the plan of a house.
MayBeAdded(x) ==
    /\ Made(x) /\ \A a \in actions : a.device = x.device => Slots(a) \cap Slots(x) = {}
    /\ \A s \in Period : LoadAt(actions, s) + LoadOf(x, s) <= GridLimit

LEMMA HouseAdds ==
    ASSUME GeneratorInv, meter = None, NEW step, At_(step), NEW added, NEW end, Step(added, end),
           end \in {None} \cup (Nat \ {0}), added = {} \/ \E x : added = {x} /\ MayBeAdded(x)
    PROVE  GeneratorInv'
<1>1. /\ actions' = actions \cup added /\ washEnd' = end /\ job' = job + 1
      /\ meter' = meter /\ made' = made /\ remaining' = remaining /\ filled' = filled
  BY DEF Step
<1>2. Jobs' = Jobs /\ job' \in 1..(Len(Jobs') + 2)
  BY <1>1, JobsStay, AtWork
<1>3. Devices'
  BY <1>1 DEF GeneratorInv, Devices
<1>4. MeterInv'
  BY <1>1 DEF MeterInv
<1>5. \A a : Made(a) => Made(a)'
  BY <1>1 DEF Made
<1>6. CASE added = {}
  <2>1. actions' = actions
    BY <1>1, <1>6
  <2>2. MadeActionsInv'
    BY <1>5, <2>1 DEF GeneratorInv, MadeActionsInv
  <2>3. HouseInv'
    BY <1>1, <2>1 DEF GeneratorInv, HouseInv
  <2> QED BY <1>1, <1>2, <1>3, <1>4, <2>2, <2>3 DEF GeneratorInv
<1>7. CASE \E x : added = {x} /\ MayBeAdded(x)
  <2>1. PICK x : added = {x} /\ MayBeAdded(x)
    BY <1>7
  <2>2. MadeActionsInv /\ \A a \in actions : Made(a)
    BY DEF GeneratorInv, MadeActionsInv
  <2>3. /\ IsFiniteSet(actions \cup {x}) /\ NoOverlap(actions \cup {x})
        /\ \A s : LoadAt(actions \cup {x}, s) = LoadAt(actions, s) + LoadOf(x, s)
    BY <2>1, <2>2, OneMore DEF MayBeAdded
  <2>4. actions' = actions \cup {x}
    BY <1>1, <2>1
  <2>5. MadeActionsInv'
    <3>1. \A a \in actions' : Made(a)'
      BY <1>5, <2>1, <2>2, <2>4 DEF MayBeAdded
    <3> QED BY <2>3, <2>4, <3>1 DEF MadeActionsInv
  <2>6. HouseInv'
    BY <2>1, <2>3, <2>4 DEF HouseInv, MayBeAdded
  <2> QED BY <1>1, <1>2, <1>3, <1>4, <2>5, <2>6 DEF GeneratorInv
<1> QED BY <1>6, <1>7

LEMMA BusyIsUsed ==
    ASSUME NEW d, NEW S, S \cap Busy(d) = {}
    PROVE  \A a \in actions : a.device = d => Slots(a) \cap S = {}
BY DEF Busy

\* What a job may try to add.
MayBeTried(d, program, start, use, profile, plugged, deadline) ==
    /\ d \in DOMAIN Catalogue \ {Other} /\ program \in Programs
    /\ program # None => program \in DOMAIN Catalogue[d].programs
    /\ start \in Nat \ {0} /\ use \in Seq(Int) /\ use # << >> /\ profile \in Seq(Int)
    /\ plugged \in Int \cup {None} /\ deadline \in Int \cup {None}
    /\ IsWritten(Catalogue[d], program, use, profile)
    /\ (Total(use) < 0) = Catalogue[d].producer /\ KeepsPower(Catalogue[d], use)
    /\ \A b \in Nat : start <= b /\ (deadline # None => b + Len(use) <= deadline)
                       => SessionIsRight(Catalogue[d], b, use, plugged, deadline)

LEMMA AddIsRight ==
    ASSUME GeneratorInv, meter = None, NEW d, NEW program, NEW start, NEW use, NEW profile,
           NEW delay \in Nat, NEW plugged, NEW deadline,
           MayBeTried(d, program, start, use, profile, plugged, deadline),
           NEW added, added = Add(d, program, start, use, profile, delay, plugged, deadline)
    PROVE  added = {} \/ \E x : added = {x} /\ MayBeAdded(x)
<1>0. /\ d \in DOMAIN Catalogue \ {Other} /\ program \in Programs
      /\ program # None => program \in DOMAIN Catalogue[d].programs
      /\ start \in Nat \ {0} /\ use \in Seq(Int) /\ use # << >> /\ profile \in Seq(Int)
      /\ plugged \in Int \cup {None} /\ deadline \in Int \cup {None}
      /\ IsWritten(Catalogue[d], program, use, profile)
      /\ (Total(use) < 0) = Catalogue[d].producer /\ KeepsPower(Catalogue[d], use)
      /\ \A b \in Nat : start <= b /\ (deadline # None => b + Len(use) <= deadline)
                         => SessionIsRight(Catalogue[d], b, use, plugged, deadline)
  BY DEF MayBeTried
<1>1. PICK begins : begins = Begins(d, start, use, delay, deadline)
  OBVIOUS
<1>2. added = IF begins = {} THEN {}
              ELSE {New(d, program, Min(begins), use, profile, plugged, deadline)}
  BY <1>1 DEF Add
<1>3. SUFFICES ASSUME begins # {} PROVE \E x : added = {x} /\ MayBeAdded(x)
  BY <1>2
<1>4. PICK b \in begins : b = Min(begins)
  <2>1. begins \subseteq start..(start + delay)
    BY <1>1 DEF Begins
  <2>2. PICK last \in Int : last = start + delay
    BY <1>0
  <2>3. PICK first \in Int : first = start
    BY <1>0
  <2>4. begins \subseteq first..last
    BY <2>1, <2>2, <2>3
  <2>5. IsFiniteSet(first..last)
    BY FS_Interval
  <2>6. IsFiniteSet(begins)
    BY <2>4, <2>5, FS_Subset
  <2>7. begins \subseteq Int
    BY <2>4
  <2> QED BY <1>3, <2>6, <2>7, MinIs
<1>5. PICK n \in Nat \ {0} : n = Len(use) /\ DOMAIN use = 1..n
  BY <1>0
<1>6. /\ b \in Nat \ {0} /\ start <= b /\ d \in DOMAIN made
      /\ b + n - 1 <= PeriodSlots /\ (deadline # None => b + n <= deadline) /\ Fits(d, b, use)
  BY <1>0, <1>1, <1>5 DEF Begins
<1>7. PICK x : x = New(d, program, b, use, profile, plugged, deadline)
  OBVIOUS
<1>8. added = {x}
  BY <1>2, <1>3, <1>4, <1>7
<1>9. SessionIsRight(Catalogue[d], b, use, plugged, deadline)
  BY <1>0, <1>5, <1>6
<1>10. PICK device : device = Catalogue[d] /\ made[d] = device
  BY <1>0, <1>6 DEF GeneratorInv, Devices
<1>11. b + Len(use) <= PeriodSlots + 1
  BY <1>5, <1>6, PeriodIs
<1>12. x.device = d /\ x.start = b /\ x.end = b + n /\ x.use = use /\ Made(x)
  <2>1. MayBeMade(d, device, program, b, use, profile, plugged, deadline)
    BY <1>0, <1>6, <1>9, <1>10, <1>11 DEF MayBeMade
  <2> QED BY <1>5, <1>6, <1>7, <1>10, <2>1, NewIsMade
<1>13. Slots(x) = b..(b + n - 1)
  BY <1>5, <1>12, MadeIs
<1>14. \A a \in actions : a.device = x.device => Slots(a) \cap Slots(x) = {}
  BY <1>5, <1>6, <1>12, <1>13, BusyIsUsed DEF Fits
<1>15. ASSUME NEW s \in Period PROVE LoadAt(actions, s) + LoadOf(x, s) <= GridLimit
  <2>1. LoadAt(actions, s) <= GridLimit /\ IsFiniteSet(actions) /\ \A a \in actions : Made(a)
    BY DEF GeneratorInv, HouseInv, MadeActionsInv
  <2>2. LoadAt(actions, s) \in Int /\ GridLimit \in Nat
    BY <1>12, <1>14, OneMore, GeneratorAssumption DEF GeneratorInv
  <2>3. CASE s \in Slots(x)
    <3>1. PICK i \in 1..n : s = b + i - 1
      <4>1. s \in Int /\ b <= s /\ s <= b + n - 1
        BY <1>6, <1>13, <2>3
      <4>2. s - b + 1 \in 1..n /\ s = b + (s - b + 1) - 1
        BY <1>6, <4>1
      <4> QED BY <4>2
    <3>2. use[i] <= 0 \/ Load(s) + use[i] <= GridLimit
      BY <1>5, <1>6, <3>1 DEF Fits
    <3>3. Load(s) = LoadAt(actions, s)
      BY <2>1, LoadOfScript DEF Load
    <3>4. UseIn(x, s) = use[i] /\ use[i] \in Int
      <4>1. s - b + 1 = i
        BY <1>6, <3>1
      <4> QED BY <1>0, <1>5, <1>12, <2>3, <4>1 DEF UseIn
    <3> QED BY <2>1, <2>2, <3>2, <3>3, <3>4 DEF LoadOf
  <2>4. CASE s \notin Slots(x)
    BY <1>12, <2>1, <2>2, <2>4, MadeIs
  <2> QED BY <2>3, <2>4
<1> QED BY <1>8, <1>12, <1>14, <1>15 DEF MayBeAdded

\* Equal parts of a device that has no programs.
LEMMA EqualUse ==
    ASSUME NEW name \in WithProfiles \ {"pv"}, NEW v \in {1, 2, 3}, v <= Catalogue[name].power,
           NEW n \in Nat \ {0}
    PROVE  /\ Same(v, n) \in Seq(Int) /\ Same(v, n) # << >>
           /\ IsWritten(Catalogue[name], None, Same(v, n), << >>)
           /\ (Total(Same(v, n)) < 0) = Catalogue[name].producer
           /\ KeepsPower(Catalogue[name], Same(v, n))
<1>1. name \in DOMAIN Catalogue
  BY CatalogueAssumption
<1>2. DOMAIN Catalogue[name].programs = {} /\ Catalogue[name].power \in Nat \ {0} /\ Catalogue[name].producer = FALSE
  BY <1>1, CatalogueIs
<1>3. Same(v, n) \in Seq(Int) /\ Len(Same(v, n)) = n /\ Total(Same(v, n)) = v * n /\ Same(v, n) # << >>
  <2>1. v \in Nat /\ n \in Nat
    OBVIOUS
  <2>2. Same(v, n) \in Seq(Int) /\ Len(Same(v, n)) = n /\ Total(Same(v, n)) = v * n
    BY <2>1, TotalOfSame
  <2> QED BY <2>2
<1>4. v * n >= 0
  <2>1. CASE v = 1
    BY <2>1
  <2>2. CASE v = 2
    BY <2>2
  <2>3. CASE v = 3
    BY <2>3
  <2> QED BY <2>1, <2>2, <2>3
<1>5. KeepsPower(Catalogue[name], Same(v, n))
  <2>1. PICK p \in Nat \ {0} : p = Catalogue[name].power
    BY <1>2
  <2>2. v \in -p..p
    BY <2>1
  <2>3. \A i \in DOMAIN Same(v, n) : Same(v, n)[i] = v
    BY DEF Same
  <2> QED BY <2>1, <2>2, <2>3 DEF KeepsPower
<1>6. IsWritten(Catalogue[name], None, Same(v, n), << >>)
  BY <1>2, <1>3 DEF IsWritten
<1>7. (Total(Same(v, n)) < 0) = FALSE
  <2>1. v * n \in Int
    OBVIOUS
  <2> QED BY <1>3, <1>4, <2>1
<1> QED BY <1>2, <1>3, <1>5, <1>6, <1>7

\* A program of a device.
LEMMA ProgramUse ==
    ASSUME NEW name \in DOMAIN Catalogue \ {"pv"}, NEW p \in DOMAIN Catalogue[name].programs
    PROVE  /\ Profile(name, p) \in Seq(Int) /\ Profile(name, p) # << >>
           /\ \A i \in DOMAIN Profile(name, p) : Profile(name, p)[i] \in Nat
           /\ IsWritten(Catalogue[name], p, Profile(name, p), << >>)
           /\ (Total(Profile(name, p)) < 0) = Catalogue[name].producer
           /\ KeepsPower(Catalogue[name], Profile(name, p))
<1>1. PICK use : use = Profile(name, p) /\ use = Catalogue[name].programs[p]
  BY DEF Profile
<1>2. /\ use \in Seq(Int) \ {<< >>} /\ Catalogue[name].producer = FALSE
      /\ \A i \in DOMAIN use : /\ use[i] >= 0
                               /\ Catalogue[name].power # None => use[i] <= Catalogue[name].power
  BY <1>1, CatalogueIs
<1>3. \A i \in DOMAIN use : use[i] \in Nat
  BY <1>2
<1>4. (Total(use) < 0) = FALSE
  <2>1. Total(use) \in Nat
    BY <1>2, TotalOfPositive
  <2> QED BY <2>1
<1>5. KeepsPower(Catalogue[name], use)
  <2>1. Catalogue[name].power \in (Nat \ {0}) \cup {None}
    BY CatalogueIs DEF DeviceFollowsSchema
  <2>2. ASSUME Catalogue[name].power # None, NEW i \in DOMAIN use
        PROVE  use[i] \in -Catalogue[name].power..Catalogue[name].power
    <3>1. PICK c \in Nat : c = Catalogue[name].power
      BY <2>1, <2>2
    <3>2. use[i] \in Nat /\ use[i] <= c
      BY <1>2, <1>3, <2>2, <3>1
    <3>3. use[i] \in -c..c
      BY <3>2
    <3> QED BY <3>1, <3>3
  <2> QED BY <2>2 DEF KeepsPower
<1>6. IsWritten(Catalogue[name], p, use, << >>)
  BY <1>1 DEF IsWritten
<1> QED BY <1>1, <1>2, <1>3, <1>4, <1>5, <1>6

LEMMA NoSession ==
    ASSUME NEW name \in DOMAIN Catalogue \ {"ev"}, NEW start, NEW use
    PROVE  SessionIsRight(Catalogue[name], start, use, None, None)
BY CatalogueIs DEF SessionIsRight

\* What may be added of the two kinds.
LEMMA EqualPartsMayBeAdded ==
    ASSUME GeneratorInv, meter = None,
           NEW name \in {"fridge", "hob", "heat_pump"}, NEW v \in {1, 2, 3}, v <= Catalogue[name].power,
           NEW n \in Nat \ {0}, NEW start \in Nat \ {0}, NEW delay \in Nat,
           NEW added, added = Add(name, None, start, Same(v, n), << >>, delay, None, None)
    PROVE  added = {} \/ \E x : added = {x} /\ MayBeAdded(x)
<1>1. name \in WithProfiles \ {"pv"} /\ name \in DOMAIN Catalogue \ {Other} /\ name # "ev"
  BY CatalogueAssumption DEF WithProfiles
<1>2. PICK use : use = Same(v, n)
  OBVIOUS
<1>3. /\ use \in Seq(Int) /\ use # << >> /\ IsWritten(Catalogue[name], None, use, << >>)
      /\ (Total(use) < 0) = Catalogue[name].producer /\ KeepsPower(Catalogue[name], use)
  BY <1>1, <1>2, EqualUse
<1>4. \A b \in Nat : start <= b /\ (None # None => b + Len(use) <= None)
                         => SessionIsRight(Catalogue[name], b, use, None, None)
  BY <1>1, NoSession
<1>5. << >> \in Seq(Int) /\ None \in Programs /\ None \in Int \cup {None}
  BY DEF Programs
<1>6. added = Add(name, None, start, use, << >>, delay, None, None)
  BY <1>2
<1>7. None # None => None \in DOMAIN Catalogue[name].programs
  OBVIOUS
<1>8. MayBeTried(name, None, start, use, << >>, None, None)
  BY <1>1, <1>3, <1>4, <1>5, <1>7 DEF MayBeTried
<1> QED BY <1>6, <1>8, AddIsRight

LEMMA ProgramMayBeAdded ==
    ASSUME GeneratorInv, meter = None,
           NEW name \in {"washer", "dryer", "dishwasher"},
           NEW p \in Programs \ {None}, p \in DOMAIN Catalogue[name].programs,
           NEW start \in Nat \ {0}, NEW delay \in Nat,
           NEW added, added = Add(name, p, start, Profile(name, p), << >>, delay, None, None)
    PROVE  added = {} \/ \E x : added = {x} /\ MayBeAdded(x)
<1>1. name \in DOMAIN Catalogue \ {Other} /\ name # "ev" /\ name # "pv"
  BY CatalogueAssumption
<1>2. PICK use : use = Profile(name, p)
  OBVIOUS
<1>3. /\ use \in Seq(Int) /\ use # << >> /\ IsWritten(Catalogue[name], p, use, << >>)
      /\ (Total(use) < 0) = Catalogue[name].producer /\ KeepsPower(Catalogue[name], use)
  BY <1>1, <1>2, ProgramUse
<1>4. \A b \in Nat : start <= b /\ (None # None => b + Len(use) <= None)
                         => SessionIsRight(Catalogue[name], b, use, None, None)
  BY <1>1, NoSession
<1>5. << >> \in Seq(Int) /\ p \in Programs /\ None \in Int \cup {None}
  BY DEF Programs
<1>6. added = Add(name, p, start, use, << >>, delay, None, None)
  BY <1>2
<1>7. MayBeTried(name, p, start, use, << >>, None, None)
  BY <1>1, <1>3, <1>4, <1>5 DEF MayBeTried
<1> QED BY <1>6, <1>7, AddIsRight

LEMMA DrawsAre ==
    ASSUME NEW step \in {"appliances", "wash", "dishes", "heat_pump", "ev"}, NEW d \in Draws[step], d # None,
           NEW any, At_(any)
    PROVE  At(Day, d) \in Nat \ {0}
BY AtWork, TimesOfDay, GeneratorAssumption

LEMMA AlwaysOnInv == GeneratorInv /\ AlwaysOn => GeneratorInv'
<1> SUFFICES ASSUME GeneratorInv, AlwaysOn PROVE GeneratorInv'
  OBVIOUS
<1>1. PICK slots : slots = At(Day + 1, 0) - At(Day, 0)
  OBVIOUS
<1>2. PICK added : added = Add("fridge", None, At(Day, 0), Same(1, slots), << >>, 0, None, None)
  OBVIOUS
<1>3. meter = None /\ At_("always_on") /\ Step(added, None)
  BY <1>1, <1>2 DEF AlwaysOn
<1>4. Day \in 1..Days
  BY <1>3, AtWork
<1>5. At(Day, 0) \in Nat \ {0} /\ slots \in Nat \ {0}
  <2>1. At(Day, 0) \in Nat \ {0} /\ At(Day + 1, 0) \in Nat \ {0} /\ At(Day, 0) < At(Day + 1, 0)
    BY <1>4, TimesOfDay
  <2> QED BY <1>1, <2>1
<1>6. 1 <= Catalogue["fridge"].power
  <2>1. "fridge" \in DOMAIN Catalogue /\ "fridge" \in WithProfiles
    BY CatalogueAssumption DEF WithProfiles
  <2>2. Catalogue["fridge"].power \in Nat \ {0}
    BY <2>1, CatalogueIs
  <2> QED BY <2>2
<1>7. added = {} \/ \E x : added = {x} /\ MayBeAdded(x)
  BY <1>2, <1>3, <1>5, <1>6, EqualPartsMayBeAdded
<1> QED BY <1>3, <1>7, HouseAdds

LEMMA AppliancesInv == GeneratorInv /\ Appliances => GeneratorInv'
<1> SUFFICES ASSUME GeneratorInv, Appliances PROVE GeneratorInv'
  OBVIOUS
<1>1. meter = None /\ At_("appliances")
  BY DEF Appliances
<1>2. PICK d \in Draws["appliances"] :
          Step(IF d = None THEN {}
               ELSE Add("hob", None, At(Day, d), Same(2, 1), << >>, 2, None, None), None)
  BY DEF Appliances
<1>3. PICK added : added = IF d = None THEN {}
                           ELSE Add("hob", None, At(Day, d), Same(2, 1), << >>, 2, None, None)
  OBVIOUS
<1>4. added = {} \/ \E x : added = {x} /\ MayBeAdded(x)
  <2>1. CASE d = None
    BY <1>3, <2>1
  <2>2. CASE d # None
    <3>1. added = Add("hob", None, At(Day, d), Same(2, 1), << >>, 2, None, None)
      BY <1>3, <2>2
    <3>2. At(Day, d) \in Nat \ {0}
      BY <1>1, <2>2, DrawsAre
    <3>3. 2 <= Catalogue["hob"].power
      <4>1. "hob" \in DOMAIN Catalogue /\ "hob" \in WithProfiles
        BY CatalogueAssumption DEF WithProfiles
      <4>2. Catalogue["hob"].power \in Nat
        BY <4>1, CatalogueIs
      <4> QED BY <4>2, CatalogueAssumption
    <3> QED BY <1>1, <3>1, <3>2, <3>3, EqualPartsMayBeAdded
  <2> QED BY <2>1, <2>2
<1>5. Step(added, None)
  BY <1>2, <1>3
<1> QED BY <1>1, <1>4, <1>5, HouseAdds

LEMMA WashInv == GeneratorInv /\ Wash => GeneratorInv'
<1> SUFFICES ASSUME GeneratorInv, Wash PROVE GeneratorInv'
  OBVIOUS
<1>1. meter = None /\ At_("wash")
  BY DEF Wash
<1>2. PICK d \in Draws["wash"] :
          LET wash == IF d = None THEN {}
                      ELSE Add("washer", "cotton", At(Day, d), Profile("washer", "cotton"),
                               << >>, 2, None, None)
          IN Step(wash, IF wash = {} THEN None ELSE (CHOOSE a \in wash : TRUE).end)
  BY DEF Wash
<1>3. PICK added : added = IF d = None THEN {}
                           ELSE Add("washer", "cotton", At(Day, d), Profile("washer", "cotton"),
                                    << >>, 2, None, None)
  OBVIOUS
<1>4. PICK end : end = IF added = {} THEN None ELSE (CHOOSE a \in added : TRUE).end
  OBVIOUS
<1>5. Step(added, end)
  BY <1>2, <1>3, <1>4
<1>6. added = {} \/ \E x : added = {x} /\ MayBeAdded(x)
  <2>1. CASE d = None
    BY <1>3, <2>1
  <2>2. CASE d # None
    <3>1. added = Add("washer", "cotton", At(Day, d), Profile("washer", "cotton"), << >>, 2, None, None)
      BY <1>3, <2>2
    <3>2. At(Day, d) \in Nat \ {0}
      BY <1>1, <2>2, DrawsAre
    <3>3. "cotton" \in Programs \ {None} /\ "cotton" \in DOMAIN Catalogue["washer"].programs
      BY CatalogueAssumption DEF Programs
    <3> QED BY <1>1, <3>1, <3>2, <3>3, ProgramMayBeAdded
  <2> QED BY <2>1, <2>2
<1>7. end \in {None} \cup (Nat \ {0})
  <2>1. ASSUME NEW x, added = {x}, MayBeAdded(x) PROVE end \in Nat \ {0}
    <3>1. Made(x) /\ end = x.end
      BY <1>4, <2>1 DEF MayBeAdded
    <3>2. x.start \in Nat \ {0} /\ Len(x.use) \in Nat \ {0} /\ x.end = x.start + Len(x.use)
      BY <3>1, MadeIs
    <3> QED BY <3>1, <3>2
  <2> QED BY <1>4, <1>6, <2>1
<1> QED BY <1>1, <1>5, <1>6, <1>7, HouseAdds

LEMMA DryerInv == GeneratorInv /\ Dryer => GeneratorInv'
<1> SUFFICES ASSUME GeneratorInv, Dryer PROVE GeneratorInv'
  OBVIOUS
<1>1. meter = None /\ At_("dryer")
  BY DEF Dryer
<1>2. PICK drawn \in BOOLEAN :
          Step(IF washEnd = None \/ ~drawn THEN {}
               ELSE Add("dryer", "dry", washEnd + 1, Profile("dryer", "dry"), << >>, 1, None, None), None)
  BY DEF Dryer
<1>3. PICK added : added = IF washEnd = None \/ ~drawn THEN {}
                           ELSE Add("dryer", "dry", washEnd + 1, Profile("dryer", "dry"),
                                    << >>, 1, None, None)
  OBVIOUS
<1>4. added = {} \/ \E x : added = {x} /\ MayBeAdded(x)
  <2>1. CASE washEnd = None \/ ~drawn
    BY <1>3, <2>1
  <2>2. CASE ~(washEnd = None \/ ~drawn)
    <3>1. added = Add("dryer", "dry", washEnd + 1, Profile("dryer", "dry"), << >>, 1, None, None)
      BY <1>3, <2>2
    <3>2. washEnd + 1 \in Nat \ {0}
      BY <2>2 DEF GeneratorInv
    <3>3. "dry" \in Programs \ {None} /\ "dry" \in DOMAIN Catalogue["dryer"].programs
      BY CatalogueAssumption DEF Programs
    <3> QED BY <1>1, <3>1, <3>2, <3>3, ProgramMayBeAdded
  <2> QED BY <2>1, <2>2
<1>5. Step(added, None)
  BY <1>2, <1>3
<1> QED BY <1>1, <1>4, <1>5, HouseAdds

LEMMA DishesInv == GeneratorInv /\ Dishes => GeneratorInv'
<1> SUFFICES ASSUME GeneratorInv, Dishes PROVE GeneratorInv'
  OBVIOUS
<1>1. meter = None /\ At_("dishes")
  BY DEF Dishes
<1>2. PICK d \in Draws["dishes"] \ {None} :
          Step(Add("dishwasher", "eco", At(Day, d), Profile("dishwasher", "eco"), << >>, 1, None, None), None)
  BY DEF Dishes
<1>3. PICK added : added = Add("dishwasher", "eco", At(Day, d), Profile("dishwasher", "eco"),
                               << >>, 1, None, None)
  OBVIOUS
<1>4. added = {} \/ \E x : added = {x} /\ MayBeAdded(x)
  <2>1. At(Day, d) \in Nat \ {0}
    BY <1>1, DrawsAre
  <2>2. "eco" \in Programs \ {None} /\ "eco" \in DOMAIN Catalogue["dishwasher"].programs
    BY CatalogueAssumption DEF Programs
  <2> QED BY <1>1, <1>3, <2>1, <2>2, ProgramMayBeAdded
<1>5. Step(added, None)
  BY <1>2, <1>3
<1> QED BY <1>1, <1>4, <1>5, HouseAdds

LEMMA HeatPumpInv == GeneratorInv /\ HeatPump => GeneratorInv'
<1> SUFFICES ASSUME GeneratorInv, HeatPump PROVE GeneratorInv'
  OBVIOUS
<1>1. meter = None /\ At_("heat_pump")
  BY DEF HeatPump
<1>2. PICK d \in Draws["heat_pump"] \ {None} :
          Step(Add("heat_pump", None, At(Day, d), Same(2, 2), << >>, 1, None, None), None)
  BY DEF HeatPump
<1>3. PICK added : added = Add("heat_pump", None, At(Day, d), Same(2, 2), << >>, 1, None, None)
  OBVIOUS
<1>4. added = {} \/ \E x : added = {x} /\ MayBeAdded(x)
  <2>1. At(Day, d) \in Nat \ {0}
    BY <1>1, DrawsAre
  <2>2. 2 <= Catalogue["heat_pump"].power
    <3>1. "heat_pump" \in DOMAIN Catalogue /\ "heat_pump" \in WithProfiles
      BY CatalogueAssumption DEF WithProfiles
    <3>2. Catalogue["heat_pump"].power \in Nat
      BY <3>1, CatalogueIs
    <3> QED BY <3>2, CatalogueAssumption
  <2> QED BY <1>1, <1>3, <2>1, <2>2, EqualPartsMayBeAdded
<1>5. Step(added, None)
  BY <1>2, <1>3
<1> QED BY <1>1, <1>4, <1>5, HouseAdds

LEMMA EvInv == GeneratorInv /\ Ev => GeneratorInv'
<1> SUFFICES ASSUME GeneratorInv, Ev PROVE GeneratorInv'
  OBVIOUS
<1>1. meter = None /\ At_("ev")
  BY DEF Ev
<1>2. PICK d \in Draws["ev"], wait \in {0, 1} :
          Step(IF d = None THEN {}
               ELSE Add("ev", None, At(Day, d) + wait, Same(3, 2), << >>, DayTimes,
                        At(Day, d), At(Day + 1, 2)), None)
  BY DEF Ev
<1>3. PICK added : added = IF d = None THEN {}
                           ELSE Add("ev", None, At(Day, d) + wait, Same(3, 2), << >>, DayTimes,
                                    At(Day, d), At(Day + 1, 2))
  OBVIOUS
<1>4. added = {} \/ \E x : added = {x} /\ MayBeAdded(x)
  <2>1. CASE d = None
    BY <1>3, <2>1
  <2>2. CASE d # None
    <3>1. PICK plugged \in Nat \ {0} : plugged = At(Day, d)
      BY <1>1, <2>2, DrawsAre
    <3>2. PICK deadline \in Nat \ {0} : deadline = At(Day + 1, 2)
      BY <1>1, AtWork, TimesOfDay
    <3>3. PICK start \in Nat \ {0} : start = plugged + wait /\ plugged <= start
      OBVIOUS
    <3>4. PICK use : use = Same(3, 2)
      OBVIOUS
    <3>5. added = Add("ev", None, start, use, << >>, DayTimes, plugged, deadline)
      BY <1>3, <2>2, <3>1, <3>2, <3>3, <3>4
    <3>6. "ev" \in DOMAIN Catalogue \ {Other} /\ "ev" \in WithProfiles \ {"pv"} /\ 3 <= Catalogue["ev"].power
      <4>1. "ev" \in DOMAIN Catalogue \ {Other} /\ "ev" \in WithProfiles
        BY CatalogueAssumption DEF WithProfiles
      <4>2. Catalogue["ev"].power \in Nat
        BY <4>1, CatalogueIs
      <4> QED BY <4>1, <4>2, CatalogueAssumption
    <3>7. /\ use \in Seq(Int) /\ use # << >> /\ IsWritten(Catalogue["ev"], None, use, << >>)
          /\ (Total(use) < 0) = Catalogue["ev"].producer /\ KeepsPower(Catalogue["ev"], use)
      BY <3>4, <3>6, EqualUse
    <3>8. ASSUME NEW b \in Nat, start <= b, deadline # None => b + Len(use) <= deadline
          PROVE  SessionIsRight(Catalogue["ev"], b, use, plugged, deadline)
      <4>1. deadline # None
        BY DeviceFileAssumption
      <4>2. b + Len(use) <= deadline /\ plugged <= b
        BY <3>3, <3>8, <4>1
      <4>3. Catalogue["ev"].type = "ev_charger"
        BY <3>6, CatalogueIs
      <4> QED BY <4>2, <4>3 DEF SessionIsRight
    <3>9. << >> \in Seq(Int) /\ None \in Programs
      BY DEF Programs
    <3>10. MayBeTried("ev", None, start, use, << >>, plugged, deadline)
      BY <3>6, <3>7, <3>8, <3>9 DEF MayBeTried
    <3>11. DayTimes \in Nat
      BY DeviceFileAssumption
    <3> QED BY <1>1, <3>5, <3>10, <3>11, AddIsRight
  <2> QED BY <2>1, <2>2
<1>5. Step(added, None)
  BY <1>2, <1>3
<1> QED BY <1>1, <1>4, <1>5, HouseAdds

\* What the installation gives is below zero.
LEMMA PvUse == <<-2, -3>> \in Seq(Int) /\ Total(<<-2, -3>>) = -5
<1>1. PICK use : use = <<-2, -3>>
  OBVIOUS
<1>2. PICK none : none = {}
  OBVIOUS
<1>3. PICK one : one = none \cup {1}
  OBVIOUS
<1>4. PICK both : both = one \cup {2}
  OBVIOUS
<1>5. use \in Seq(Int) /\ DOMAIN use = both /\ use[1] = -2 /\ use[2] = -3
  BY <1>1, <1>2, <1>3, <1>4
<1>6. IsFiniteSet(none) /\ IsFiniteSet(one) /\ 1 \notin none /\ 2 \notin one
  BY <1>2, <1>3, FS_EmptySet, FS_AddElement
<1>7. Numbers(use, none \cup {1}) /\ Numbers(use, one \cup {2})
  BY <1>2, <1>3, <1>4, <1>5 DEF Numbers
<1>8. SumOver(use, none) = 0
  BY <1>2, SumOfNone
<1>9. SumOver(use, none \cup {1}) = SumOver(use, none) + use[1]
  BY <1>6, <1>7, SumStep
<1>10. SumOver(use, one \cup {2}) = SumOver(use, one) + use[2]
  BY <1>6, <1>7, SumStep
<1>11. Total(use) = SumOver(use, both)
  BY <1>5, TotalIsNumber
<1>12. SumOver(use, one) = -2
  BY <1>3, <1>5, <1>8, <1>9
<1>13. Total(use) = -2 + (-3)
  BY <1>4, <1>5, <1>10, <1>11, <1>12
<1> QED BY <1>1, <1>5, <1>13

LEMMA PvInv == GeneratorInv /\ Pv => GeneratorInv'
<1> SUFFICES ASSUME GeneratorInv, Pv PROVE GeneratorInv'
  OBVIOUS
<1>1. PICK use : use = <<-2, -3>>
  OBVIOUS
<1>2. PICK added : added = Add("pv", None, At(Day, 2), use, use, 0, None, None)
  OBVIOUS
<1>3. meter = None /\ At_("pv") /\ Step(added, None)
  BY <1>1, <1>2 DEF Pv
<1>4. PICK start \in Nat \ {0} : start = At(Day, 2)
  BY <1>3, AtWork, TimesOfDay
<1>5. "pv" \in DOMAIN Catalogue \ {Other} /\ "pv" \in WithProfiles /\ "pv" \in DOMAIN Catalogue \ {"ev"}
  BY CatalogueAssumption DEF WithProfiles
<1>6. use \in Seq(Int) /\ use # << >> /\ DOMAIN use = 1..2 /\ Total(use) = -5
  BY <1>1, PvUse
<1>7. (Total(use) < 0) = Catalogue["pv"].producer /\ DOMAIN Catalogue["pv"].programs = {}
      /\ Catalogue["pv"].power \in Nat
  <2>1. Catalogue["pv"].producer = ("pv" = "pv") /\ DOMAIN Catalogue["pv"].programs = {}
        /\ Catalogue["pv"].power \in Nat
    BY <1>5, CatalogueIs
  <2>2. (Total(use) < 0) = TRUE
    BY <1>6
  <2> QED BY <2>1, <2>2
<1>8. KeepsPower(Catalogue["pv"], use)
  <2>1. PICK p \in Nat : p = Catalogue["pv"].power /\ p >= 3
    BY <1>7, CatalogueAssumption
  <2>2. -2 \in -p..p /\ -3 \in -p..p
    BY <2>1
  <2>3. use[1] = -2 /\ use[2] = -3
    BY <1>1
  <2>4. \A i \in 1..2 : i = 1 \/ i = 2
    OBVIOUS
  <2>5. \A i \in DOMAIN use : use[i] \in -p..p
    BY <1>6, <2>2, <2>3, <2>4
  <2> QED BY <2>1, <2>5 DEF KeepsPower
<1>9. IsWritten(Catalogue["pv"], None, use, use)
  BY <1>7 DEF IsWritten
<1>10. \A b \in Nat : start <= b /\ (None # None => b + Len(use) <= None)
                         => SessionIsRight(Catalogue["pv"], b, use, None, None)
  BY <1>5, NoSession
<1>11. None \in Programs
  BY DEF Programs
<1>12. MayBeTried("pv", None, start, use, use, None, None)
  BY <1>5, <1>6, <1>7, <1>8, <1>9, <1>10, <1>11 DEF MayBeTried
<1>13. added = {} \/ \E x : added = {x} /\ MayBeAdded(x)
  BY <1>2, <1>3, <1>4, <1>12, AddIsRight
<1> QED BY <1>3, <1>13, HouseAdds

-----------------------------------------------------------------------------
(* The readings of a meter.                                                *)

\* The rooms and the stretches of a device are free slots of the file that show what it takes.
HasRoom(d, first, use) ==
    /\ d \in DOMAIN made \ (ConstantUsers \cup {Other, "pv"})
    /\ first \in Nat \ {0} /\ use \in Seq(Int) /\ use # << >> /\ first + Len(use) <= PeriodSlots + 1
    /\ (first..(first + Len(use) - 1)) \cap Busy(d) = {}
    /\ \A i \in DOMAIN use : use[i] \in Nat /\ remaining[first + i - 1] >= use[i]

LEMMA MeterTakes ==
    ASSUME GeneratorInv, meter # None, NEW step, At_(step),
           NEW d, NEW program \in Programs, program # None => program \in DOMAIN Catalogue[d].programs,
           NEW first, NEW use, NEW profile \in Seq(Int),
           NEW plugged \in Int \cup {None}, NEW deadline \in Int \cup {None}, HasRoom(d, first, use),
           IsWritten(Catalogue[d], program, use, profile), KeepsPower(Catalogue[d], use),
           SessionIsRight(Catalogue[d], first, use, plugged, deadline),
           Take(d, program, first, use, profile, plugged, deadline),
           washEnd' \in {None} \cup (Nat \ {0}), job' = job + 1, UNCHANGED <<meter, made, filled>>
    PROVE  GeneratorInv'
<1>1. PICK x : x = New(d, program, first, use, profile, plugged, deadline)
  OBVIOUS
<1>2. PICK n \in Nat \ {0} : n = Len(use) /\ DOMAIN use = 1..n
  BY DEF HasRoom
<1>3. /\ d \in DOMAIN made /\ d \in DOMAIN Catalogue /\ made[d] = Catalogue[d]
      /\ d \notin ConstantUsers \cup {Other}
  BY DEF HasRoom, GeneratorInv, Devices
<1>4. (Total(use) < 0) = Catalogue[d].producer
  <2>1. Total(use) \in Nat
    <3>1. use \in Seq(Int) /\ \A i \in DOMAIN use : use[i] >= 0
      BY DEF HasRoom
    <3> QED BY <3>1, TotalOfPositive
  <2>2. Catalogue[d].producer = (d = "pv") /\ d # "pv"
    BY <1>3, CatalogueIs DEF HasRoom
  <2>3. (Total(use) < 0) = FALSE
    BY <2>1
  <2> QED BY <2>2, <2>3
<1>5. Made(x) /\ x.device = d /\ x.start = first /\ x.use = use
  <2>1. PICK device : device = Catalogue[d]
    OBVIOUS
  <2>2. MayBeMade(d, device, program, first, use, profile, plugged, deadline)
    BY <1>3, <1>4, <2>1 DEF MayBeMade, HasRoom
  <2>3. /\ x.device = d /\ x.start = first /\ x.use = use
        /\ d \in DOMAIN made /\ made[d] = device => Made(x)
    BY <1>1, <2>2, NewIsMade
  <2> QED BY <1>3, <2>1, <2>3
<1>6. Slots(x) = first..(first + n - 1) /\ first \in Nat \ {0} /\ Slots(x) \subseteq Period
  BY <1>2, <1>5, MadeIs
<1>7. \A a \in actions : a.device = x.device => Slots(a) \cap Slots(x) = {}
  BY <1>2, <1>5, <1>6, BusyIsUsed DEF HasRoom
<1>8. /\ IsFiniteSet(actions \cup {x}) /\ NoOverlap(actions \cup {x})
      /\ \A s : UsedAt(actions \cup {x}, s) = UsedAt(actions, s) + UseIn(x, s) /\ UsedAt(actions, s) \in Int
  BY <1>5, <1>7, OneMore DEF GeneratorInv
<1>9. actions' = actions \cup {x}
  BY <1>1 DEF Take
<1>10. ASSUME NEW s \in Period
       PROVE  /\ UseIn(x, s) \in Nat /\ UseIn(x, s) <= remaining[s]
              /\ remaining'[s] = remaining[s] - UseIn(x, s)
  <2>1. remaining[s] \in Nat
    BY DEF GeneratorInv, MeterInv, MeterTyped
  <2>2. remaining'[s] = IF s \in Slots(x) THEN remaining[s] - use[s - first + 1] ELSE remaining[s]
    BY <1>2, <1>6 DEF Take
  <2>3. CASE s \in Slots(x)
    <3>1. PICK i \in 1..n : i = s - first + 1 /\ first + i - 1 = s
      <4>1. s \in Int /\ first <= s /\ s <= first + n - 1
        BY <1>6, <2>3
      <4>2. s - first + 1 \in 1..n /\ first + (s - first + 1) - 1 = s
        BY <1>6, <4>1
      <4> QED BY <4>2
    <3>2. use[i] \in Nat /\ remaining[s] >= use[i]
      BY <1>2, <3>1 DEF HasRoom
    <3>3. UseIn(x, s) = use[i]
      BY <1>5, <2>3, <3>1 DEF UseIn
    <3> QED BY <2>1, <2>2, <2>3, <3>1, <3>2, <3>3
  <2>4. CASE s \notin Slots(x)
    BY <2>1, <2>2, <2>4 DEF UseIn
  <2> QED BY <2>3, <2>4
<1>11. MadeActionsInv'
  <2>1. \A a : Made(a) => Made(a)'
    BY DEF Made
  <2>2. \A a \in actions' : Made(a)'
    BY <1>5, <1>9, <2>1 DEF GeneratorInv, MadeActionsInv
  <2> QED BY <1>8, <1>9, <2>2 DEF MadeActionsInv
<1>12. Open /\ Open' /\ Jobs' = Jobs /\ job' \in 1..(Len(Jobs') + 2)
  <2>1. Jobs' = Jobs
    BY JobsStay
  <2> QED BY <2>1, AtWork DEF Open
<1>13. MeterTyped'
  <2>1. MeterTyped /\ DOMAIN remaining' = Period /\ remaining' = [s \in Period |-> remaining'[s]]
    BY DEF GeneratorInv, MeterInv, Take
  <2>2. \A s \in Period : remaining'[s] \in Nat
    <3> SUFFICES ASSUME NEW s \in Period PROVE remaining'[s] \in Nat
      OBVIOUS
    <3>1. remaining[s] \in Nat
      BY <2>1 DEF MeterTyped
    <3> QED BY <1>10, <3>1
  <2>3. remaining' \in [Period -> Nat]
    BY <2>1, <2>2
  <2>4. \A a \in actions' : a.device \notin ConstantUsers \cup {Other}
    BY <1>3, <1>5, <1>9, <1>12, <2>1 DEF MeterTyped
  <2>5. /\ meter' \in [Period -> Nat] /\ Other \in DOMAIN made'
        /\ filled' \in [ConstantUsers -> [Period -> Nat]]
        /\ \A c \in ConstantUsers, s \in Period :
              filled'[c][s] <= Catalogue[c].power /\ (filled'[c][s] > 0 => c \in DOMAIN made')
    BY <2>1 DEF MeterTyped
  <2> QED BY <2>3, <2>4, <2>5 DEF MeterTyped
<1>14. \A s \in Period : UsedAt(actions', s) + Shared(s)' = meter'[s]
  <2> SUFFICES ASSUME NEW s \in Period PROVE UsedAt(actions', s) + Shared(s)' = meter'[s]
    OBVIOUS
  <2>1. PICK f \in Nat, l \in Nat, r \in Nat : f = filled["fridge"][s] /\ l = filled["light"][s] /\ r = remaining[s]
    BY DEF GeneratorInv, MeterInv, MeterTyped, ConstantUsers
  <2>2. PICK u \in Nat : u = UseIn(x, s)
    BY <1>10
  <2>3. PICK v \in Int : v = UsedAt(actions, s)
    BY <1>8
  <2>4. v + (f + l + r) = meter[s]
    BY <1>12, <2>1, <2>3 DEF GeneratorInv, MeterInv, Shared
  <2>5. UsedAt(actions', s) = v + u
    BY <1>8, <1>9, <2>2, <2>3
  <2>6. Shared(s)' = f + l + (r - u)
    BY <1>10, <2>1, <2>2 DEF Shared
  <2> QED BY <2>4, <2>5, <2>6
<1>15. Devices' /\ HouseInv' /\ washEnd' \in {None} \cup (Nat \ {0})
  BY DEF GeneratorInv, Devices, HouseInv
<1>16. MeterInv'
  BY <1>12, <1>13, <1>14 DEF MeterInv
<1> QED BY <1>11, <1>12, <1>15, <1>16 DEF GeneratorInv

\* A job of the meter that takes nothing.
LEMMA MeterLeaves ==
    ASSUME GeneratorInv, meter # None, NEW step, At_(step), UNCHANGED <<actions, remaining>>,
           washEnd' \in {None} \cup (Nat \ {0}), job' = job + 1, UNCHANGED <<meter, made, filled>>
    PROVE  GeneratorInv'
<1>1. Open /\ Open' /\ Jobs' = Jobs /\ job' \in 1..(Len(Jobs') + 2)
  <2>1. Jobs' = Jobs
    BY JobsStay
  <2> QED BY <2>1, AtWork DEF Open
<1>2. Devices' /\ HouseInv' /\ washEnd' \in {None} \cup (Nat \ {0})
  BY DEF GeneratorInv, Devices, HouseInv
<1>3. MadeActionsInv'
  <2>1. \A a : Made(a) => Made(a)'
    BY DEF Made
  <2> QED BY <2>1 DEF GeneratorInv, MadeActionsInv
<1>4. MeterInv'
  BY <1>1 DEF GeneratorInv, MeterInv, MeterTyped, Shared
<1> QED BY <1>1, <1>2, <1>3, <1>4 DEF GeneratorInv

\* Of numbers that a finite set gives, one is most.
LEMMA MostExists ==
    ASSUME NEW S, IsFiniteSet(S), S # {}, NEW f, \A x \in S : f[x] \in Int
    PROVE  \E x \in S : \A y \in S : f[y] <= f[x]
<1> DEFINE HasMost(s) == s # {} => \E x \in s : \A y \in s : f[y] <= f[x]
           C == {s \in SUBSET S : HasMost(s)}
<1>1. {} \in C
  OBVIOUS
<1>2. ASSUME NEW s \in SUBSET S, NEW z \in S, s \in C, z \notin s PROVE s \cup {z} \in C
  <2>1. HasMost(s \cup {z})
    <3>1. CASE s = {}
      BY <3>1
    <3>2. CASE s # {}
      <4>1. PICK x \in s : \A y \in s : f[y] <= f[x]
        BY <1>2, <3>2
      <4>2. f[x] \in Int /\ f[z] \in Int /\ \A y \in s : f[y] \in Int
        OBVIOUS
      <4>3. CASE f[z] <= f[x]
        BY <4>1, <4>3
      <4>4. CASE ~(f[z] <= f[x])
        <5>1. \A y \in s : f[y] <= f[z]
          BY <4>1, <4>2, <4>4
        <5> QED BY <4>2, <5>1
      <4> QED BY <4>3, <4>4
    <3> QED BY <3>1, <3>2
  <2> QED BY <2>1
<1>3. S \in C
  <2> HIDE DEF C
  <2> QED BY <1>1, <1>2, InductByElement
<1> QED BY <1>3

LEMMA LeastAt ==
    ASSUME NEW S, IsFiniteSet(S), S # {}, NEW f, \A x \in S : f[x] \in Int
    PROVE  \E x \in S : \A y \in S : f[x] <= f[y]
<1>1. PICK g : g = [x \in S |-> 0 - f[x]]
  OBVIOUS
<1>2. \A x \in S : g[x] \in Int
  BY <1>1
<1>3. PICK x \in S : \A y \in S : g[y] <= g[x]
  BY <1>2, MostExists
<1>4. ASSUME NEW y \in S PROVE f[x] <= f[y]
  <2>1. PICK a \in Int, b \in Int : a = f[x] /\ b = f[y]
    OBVIOUS
  <2>2. 0 - b <= 0 - a
    BY <1>1, <1>3, <2>1
  <2> QED BY <2>1, <2>2
<1> QED BY <1>4

LEMMA MaxIs ==
    ASSUME NEW S, IsFiniteSet(S), S # {}, S \subseteq Int
    PROVE  Max(S) \in S /\ \A x \in S : x <= Max(S)
<1>1. PICK f : f = [x \in S |-> x]
  OBVIOUS
<1>2. PICK x \in S : \A y \in S : f[y] <= f[x]
  BY <1>1, MostExists
<1>3. \A y \in S : x >= y
  BY <1>1, <1>2
<1>4. Max(S) \in S /\ \A y \in S : Max(S) >= y
  BY <1>3 DEF Max
<1> QED BY <1>4

\* The slots that an action of n slots takes from the first, when it ends in the file.
LEMMA SlotsInPeriod ==
    ASSUME NEW first \in Nat \ {0}, NEW n \in Nat, first + n <= PeriodSlots + 1
    PROVE  /\ first..(first + n - 1) \subseteq Period /\ IsFiniteSet(first..(first + n - 1))
           /\ \A i \in 1..n : first + i - 1 \in first..(first + n - 1)
<1>1. PICK last \in Int : last = first + n - 1
  OBVIOUS
<1>2. first..last \subseteq Period /\ \A i \in 1..n : first + i - 1 \in first..last
  BY <1>1, PeriodIs
<1>3. IsFiniteSet(first..last)
  BY FS_Interval
<1> QED BY <1>1, <1>2, <1>3

LEMMA BestRoomIs ==
    ASSUME remaining \in [Period -> Nat], NEW n \in Nat, NEW rooms, rooms \subseteq Period, rooms # {},
           \A s \in rooms : s + n <= PeriodSlots + 1
    PROVE  BestRoom(rooms, n) \in rooms
<1>1. \A s \in rooms : s \in Nat \ {0}
  BY PeriodIs
<1>2. IsFiniteSet(rooms)
  BY PeriodIs, FS_Subset
<1>3. ASSUME NEW s \in rooms PROVE Energy(s, n) \in Int
  <2>1. PICK T : T = s..(s + n - 1)
    OBVIOUS
  <2>2. T \subseteq Period /\ IsFiniteSet(T)
    BY <1>1, <2>1, SlotsInPeriod
  <2>3. PICK f : f = remaining
    OBVIOUS
  <2>4. \A r \in T : f[r] \in Int
    BY <2>2, <2>3
  <2>5. PICK F : SumsOf(F, f, T) /\ SumFunctionOnSet(f, T) = F[T]
    BY <2>2, <2>4, SumOnSetIs
  <2>6. F[T] \in Int
    BY <2>5 DEF SumsOf
  <2> QED BY <2>1, <2>3, <2>5, <2>6 DEF Energy
<1>4. PICK e : e = [s \in rooms |-> Energy(s, n)]
  OBVIOUS
<1>5. PICK best : best = {s \in rooms : \A r \in rooms : Energy(r, n) <= Energy(s, n)}
  OBVIOUS
<1>6. \A s \in rooms : e[s] \in Int /\ e[s] = Energy(s, n)
  BY <1>3, <1>4
<1>7. PICK s \in rooms : \A r \in rooms : e[r] <= e[s]
  BY <1>2, <1>6, MostExists
<1>8. s \in best
  BY <1>5, <1>6, <1>7
<1>9. IsFiniteSet(best)
  BY <1>2, <1>5, FS_Subset
<1>10. best \subseteq Int
  BY <1>1, <1>5
<1>11. Min(best) \in best
  BY <1>8, <1>9, <1>10, MinIs
<1> QED BY <1>5, <1>11 DEF BestRoom

LEMMA TakeProgramInv ==
    ASSUME GeneratorInv, meter # None, NEW step, At_(step),
           NEW name \in {"washer", "dryer", "dishwasher"}, NEW p \in Programs \ {None},
           p \in DOMAIN Catalogue[name].programs, NEW window, window \subseteq Period, NEW drawn,
           TakeProgram(name, p, window, drawn), job' = job + 1, UNCHANGED <<meter, made, filled>>
    PROVE  GeneratorInv'
<1>1. PICK use : use = Profile(name, p)
  OBVIOUS
<1>2. PICK rooms : rooms = Rooms(name, use, window)
  OBVIOUS
<1>3. name \in DOMAIN Catalogue \ {"pv"} /\ name \notin ConstantUsers \cup {Other, "pv"} /\ name # "ev"
  BY CatalogueAssumption DEF ConstantUsers
<1>4. /\ use \in Seq(Int) /\ use # << >> /\ \A i \in DOMAIN use : use[i] \in Nat
      /\ IsWritten(Catalogue[name], p, use, << >>) /\ KeepsPower(Catalogue[name], use)
  BY <1>1, <1>3, ProgramUse
<1>5. PICK n \in Nat \ {0} : n = Len(use) /\ DOMAIN use = 1..n
  BY <1>4
<1>6. CASE drawn /\ rooms # {}
  <2>1. PICK first : first = BestRoom(rooms, n)
    OBVIOUS
  <2>2. Take(name, p, first, use, << >>, None, None) /\ washEnd' = first + n
    BY <1>1, <1>2, <1>5, <1>6, <2>1 DEF TakeProgram
  <2>3. /\ rooms \subseteq Period
        /\ \A s \in rooms : /\ s + n <= PeriodSlots + 1 /\ s \in Nat \ {0} /\ name \in DOMAIN made
                            /\ (s..(s + n - 1)) \cap Busy(name) = {}
                            /\ \A i \in DOMAIN use : remaining[s + i - 1] >= use[i]
    <3>1. rooms \subseteq Period
      BY <1>2 DEF Rooms
    <3>2. ASSUME NEW s \in rooms
          PROVE  /\ s + n - 1 <= PeriodSlots /\ name \in DOMAIN made
                 /\ (s..(s + n - 1)) \cap Busy(name) = {}
                 /\ \A i \in DOMAIN use : remaining[s + i - 1] >= use[i]
      BY <1>2, <1>5 DEF Rooms
    <3>3. ASSUME NEW s \in rooms PROVE s + n <= PeriodSlots + 1 /\ s \in Nat \ {0}
      BY <3>1, <3>2, PeriodIs
    <3> QED BY <3>1, <3>2, <3>3
  <2>4. first \in rooms
    <3>1. remaining \in [Period -> Nat]
      BY DEF GeneratorInv, MeterInv, MeterTyped
    <3> QED BY <1>6, <2>1, <2>3, <3>1, BestRoomIs
  <2>5. HasRoom(name, first, use)
    BY <1>3, <1>4, <1>5, <2>3, <2>4 DEF HasRoom
  <2>6. SessionIsRight(Catalogue[name], first, use, None, None)
    BY <1>3, NoSession
  <2>7. washEnd' \in {None} \cup (Nat \ {0})
    BY <2>2, <2>3, <2>4
  <2>8. << >> \in Seq(Int)
    OBVIOUS
  <2> QED BY <1>4, <2>2, <2>5, <2>6, <2>7, <2>8, MeterTakes
<1>7. CASE ~(drawn /\ rooms # {})
  <2>1. washEnd' = None /\ UNCHANGED <<actions, remaining>>
    BY <1>1, <1>2, <1>7 DEF TakeProgram
  <2> QED BY <2>1, MeterLeaves
<1> QED BY <1>6, <1>7

LEMMA MeterWashInv == GeneratorInv /\ MeterWash => GeneratorInv'
<1> SUFFICES ASSUME GeneratorInv, MeterWash PROVE GeneratorInv'
  OBVIOUS
<1>1. PICK window : window = Span(Day, 1, DayTimes - 1)
  OBVIOUS
<1>2. PICK drawn \in BOOLEAN : TakeProgram("washer", "cotton", window, drawn)
  BY <1>1 DEF MeterWash
<1>3. meter # None /\ At_("wash") /\ job' = job + 1 /\ UNCHANGED <<meter, made, filled>>
  BY DEF MeterWash
<1>4. window \subseteq Period
  BY <1>1 DEF Span
<1>5. "cotton" \in Programs \ {None} /\ "cotton" \in DOMAIN Catalogue["washer"].programs
  BY CatalogueAssumption DEF Programs
<1> QED BY <1>2, <1>3, <1>4, <1>5, TakeProgramInv

LEMMA MeterDryerInv == GeneratorInv /\ MeterDryer => GeneratorInv'
<1> SUFFICES ASSUME GeneratorInv, MeterDryer PROVE GeneratorInv'
  OBVIOUS
<1>1. PICK window : window = IF washEnd = None THEN {} ELSE Period \cap (washEnd..(washEnd + 2))
  OBVIOUS
<1>2. PICK drawn \in BOOLEAN : TakeProgram("dryer", "dry", window, drawn)
  BY <1>1 DEF MeterDryer
<1>3. meter # None /\ At_("dryer") /\ job' = job + 1 /\ UNCHANGED <<meter, made, filled>>
  BY DEF MeterDryer
<1>4. window \subseteq Period
  BY <1>1
<1>5. "dry" \in Programs \ {None} /\ "dry" \in DOMAIN Catalogue["dryer"].programs
  BY CatalogueAssumption DEF Programs
<1> QED BY <1>2, <1>3, <1>4, <1>5, TakeProgramInv

LEMMA MeterDishesInv == GeneratorInv /\ MeterDishes => GeneratorInv'
<1> SUFFICES ASSUME GeneratorInv, MeterDishes PROVE GeneratorInv'
  OBVIOUS
<1>1. PICK window : window = Span(Day, DayTimes - 2, DayTimes + 2)
  OBVIOUS
<1>2. TakeProgram("dishwasher", "eco", window, TRUE)
  BY <1>1 DEF MeterDishes
<1>3. meter # None /\ At_("dishes") /\ job' = job + 1 /\ UNCHANGED <<meter, made, filled>>
  BY DEF MeterDishes
<1>4. window \subseteq Period
  BY <1>1 DEF Span
<1>5. "eco" \in Programs \ {None} /\ "eco" \in DOMAIN Catalogue["dishwasher"].programs
  BY CatalogueAssumption DEF Programs
<1> QED BY <1>2, <1>3, <1>4, <1>5, TakeProgramInv

LEMMA MinOfTwo ==
    ASSUME NEW a \in Int, NEW b \in Int
    PROVE  Min({a, b}) = IF a <= b THEN a ELSE b
<1>1. \E m \in {a, b} : \A x \in {a, b} : m <= x
  OBVIOUS
<1> QED BY <1>1 DEF Min

LEMMA MinOfThree ==
    ASSUME NEW a \in Int, NEW b \in Int, NEW c \in Int
    PROVE  /\ Min({a, b, c}) \in {a, b, c}
           /\ Min({a, b, c}) <= a /\ Min({a, b, c}) <= b /\ Min({a, b, c}) <= c
<1>1. \E m \in {a, b, c} : \A x \in {a, b, c} : m <= x
  <2>1. CASE a <= b /\ a <= c
    BY <2>1
  <2>2. CASE b <= a /\ b <= c
    BY <2>2
  <2>3. CASE c <= a /\ c <= b
    BY <2>3
  <2>4. (a <= b /\ a <= c) \/ (b <= a /\ b <= c) \/ (c <= a /\ c <= b)
    OBVIOUS
  <2> QED BY <2>1, <2>2, <2>3, <2>4
<1> QED BY <1>1 DEF Min

\* The slots of a stretch are in its window, and there is one at least.
LEMMA StretchIs ==
    ASSUME NEW window, window \subseteq Period, NEW threshold, NEW least \in Nat \ {0}, NEW most \in Nat \ {0},
           NEW x \in Stretches(window, threshold, least, most)
    PROVE  x \in Period \X (1..most) /\ x[1]..(x[1] + x[2] - 1) \subseteq window
<1> DEFINE good == {s \in window : remaining[s] >= threshold}
           run(s) == {t \in good : \A u \in Min({s, t})..Max({s, t}) : u \in good}
<1>1. PICK s \in good : /\ x = <<s, Min({most, Cardinality(run(s))})>>
                        /\ Cardinality(run(s)) >= least
                        /\ s + Min({most, Cardinality(run(s))}) - 1 <= Max(run(s))
  BY Zenon DEF Stretches
<1>2. good \subseteq window /\ \A z \in good : z \in Period /\ z \in Nat \ {0}
  BY PeriodIs
<1>3. run(s) \subseteq good
  OBVIOUS
<1>4. \A t \in run(s) : \A u \in Min({s, t})..Max({s, t}) : u \in good
  OBVIOUS
<1>5. PICK R : R = run(s)
  OBVIOUS
<1> HIDE DEF run, good
<1>6. IsFiniteSet(R) /\ R \subseteq Int
  <2>1. R \subseteq Period /\ R \subseteq Int
    BY <1>2, <1>3, <1>5
  <2> QED BY <2>1, PeriodIs, FS_Subset
<1>7. PICK c \in Nat : c = Cardinality(R)
  BY <1>6, FS_CardinalityType
<1>8. c >= least /\ x = <<s, Min({most, c})>> /\ s + Min({most, c}) - 1 <= Max(R)
  BY <1>1, <1>5, <1>7
<1>9. PICK n \in 1..most : n = Min({most, c})
  <2>1. Min({most, c}) = IF most <= c THEN most ELSE c
    BY MinOfTwo
  <2> QED BY <1>8, <2>1
<1>10. R # {}
  <2>1. c # 0
    BY <1>8
  <2> QED BY <1>7, <2>1, FS_EmptySet
<1>11. PICK m \in R : m = Max(R)
  BY <1>6, <1>10, MaxIs
<1>12. m \in Int /\ s \in Int /\ s <= m /\ s + n - 1 <= m
  BY <1>2, <1>6, <1>8, <1>9, <1>11
<1>13. Min({s, m}) = s /\ Max({s, m}) = m
  BY <1>12, MinOfTwo, MaxOfTwo
<1>14. \A u \in s..m : u \in good
  BY <1>4, <1>5, <1>11, <1>13
<1>15. \A u \in s..(s + n - 1) : u \in s..m
  BY <1>12
<1>16. x[1] = s /\ x[2] = n /\ s \in Period
  BY <1>2, <1>8, <1>9
<1>17. s..(s + n - 1) \subseteq window
  BY <1>2, <1>14, <1>15
<1>18. x \in Period \X (1..most)
  BY <1>8, <1>9, <1>16
<1> QED BY <1>16, <1>17, <1>18

\* What a device takes in a run, and the runs that are free for it.
RunUse(device, x) == [i \in 1..x[2] |-> Min({Catalogue[device].power, remaining[x[1] + i - 1]})]
FreeRuns(device, window, threshold, least, most, minimum) ==
    {x \in Stretches(window, threshold, least, most) :
        /\ device \in DOMAIN made
        /\ (x[1]..(x[1] + x[2] - 1)) \cap Busy(device) = {}
        /\ Total(RunUse(device, x)) >= minimum}

LEMMA RunUseIs ==
    ASSUME remaining \in [Period -> Nat], NEW device, Catalogue[device].power \in Nat \ {0},
           NEW first \in Period, NEW n \in Nat \ {0}, first..(first + n - 1) \subseteq Period,
           NEW use, use = RunUse(device, <<first, n>>)
    PROVE  /\ use \in Seq(Int) /\ Len(use) = n /\ DOMAIN use = 1..n /\ first + n <= PeriodSlots + 1
           /\ \A i \in 1..n : /\ use[i] \in Nat /\ use[i] <= remaining[first + i - 1]
                              /\ use[i] <= Catalogue[device].power
<1>1. PICK cap \in Nat \ {0} : cap = Catalogue[device].power
  OBVIOUS
<1>2. first \in Nat \ {0} /\ first + n <= PeriodSlots + 1
  <2>1. first \in Nat \ {0}
    BY PeriodIs
  <2>2. PICK last \in Int : last = first + n - 1 /\ first <= last
    BY <2>1
  <2>3. last \in Period
    BY <2>1, <2>2
  <2> QED BY <2>1, <2>2, <2>3, PeriodIs
<1>3. use = [i \in 1..n |-> Min({cap, remaining[first + i - 1]})]
  BY <1>1 DEF RunUse
<1>4. ASSUME NEW i \in 1..n
      PROVE  use[i] \in Nat /\ use[i] <= remaining[first + i - 1] /\ use[i] <= cap
  <2>1. first + i - 1 \in first..(first + n - 1)
    BY <1>2
  <2>2. PICK r \in Nat : r = remaining[first + i - 1]
    BY <2>1
  <2>3. Min({cap, r}) = IF cap <= r THEN cap ELSE r
    BY MinOfTwo
  <2>4. use[i] = Min({cap, r})
    BY <1>3, <2>2
  <2> QED BY <2>2, <2>3, <2>4
<1>5. use \in Seq(Int) /\ Len(use) = n /\ DOMAIN use = 1..n
  <2>1. \A i \in 1..n : use[i] \in Int
    BY <1>4
  <2>2. DOMAIN use = 1..n /\ use = [i \in 1..n |-> use[i]]
    BY <1>3
  <2> QED BY <2>1, <2>2
<1> QED BY <1>1, <1>2, <1>4, <1>5

LEMMA RunInv ==
    ASSUME GeneratorInv, meter # None, NEW step, At_(step),
           NEW device \in {"ev", "heat_pump", "hob"}, NEW window, window \subseteq Period, NEW threshold,
           NEW least \in Nat \ {0}, NEW most \in Nat \ {0}, NEW minimum,
           NEW ready \in Int \cup {None}, ready = None <=> device # "ev",
           Run(device, window, threshold, least, most, minimum, ready)
    PROVE  GeneratorInv'
<1> DEFINE free == FreeRuns(device, window, threshold, least, most, minimum)
           best == {x \in free : \A y \in free : Total(RunUse(device, y)) <= Total(RunUse(device, x))}
           x == CHOOSE x \in best : \A y \in best : x[1] <= y[1]
<1>4. /\ IF free = {} THEN UNCHANGED <<actions, remaining>>
         ELSE Take(device, None, x[1], RunUse(device, x), RunUse(device, x),
                   IF ready = None THEN None ELSE x[1],
                   IF ready = None THEN None ELSE Max({x[1] + x[2], ready}))
      /\ job' = job + 1 /\ washEnd' = None /\ UNCHANGED <<meter, made, filled>>
  BY Zenon DEF Run, FreeRuns, RunUse
<1>1. free = FreeRuns(device, window, threshold, least, most, minimum)
  OBVIOUS
<1>2. best = {y \in free : \A z \in free : Total(RunUse(device, z)) <= Total(RunUse(device, y))}
  OBVIOUS
<1>3. x = CHOOSE y \in best : \A z \in best : y[1] <= z[1]
  OBVIOUS
<1> HIDE DEF free, best, x
<1>5. CASE free = {}
  BY <1>4, <1>5, MeterLeaves
<1>6. CASE free # {}
  <2>1. /\ device \in WithProfiles /\ device \in DOMAIN Catalogue /\ device # "pv"
        /\ device \notin ConstantUsers \cup {Other}
    BY CatalogueAssumption DEF WithProfiles, ConstantUsers
  <2>2. DOMAIN Catalogue[device].programs = {} /\ Catalogue[device].power \in Nat \ {0}
        /\ (Catalogue[device].type = "ev_charger") = (device = "ev")
    BY <2>1, CatalogueIs
  <2>3. remaining \in [Period -> Nat]
    BY DEF GeneratorInv, MeterInv, MeterTyped
  <2>4. ASSUME NEW y \in free
        PROVE  /\ y \in Period \X (1..most) /\ y[1]..(y[1] + y[2] - 1) \subseteq Period
               /\ device \in DOMAIN made /\ (y[1]..(y[1] + y[2] - 1)) \cap Busy(device) = {}
    <3>1. y \in Stretches(window, threshold, least, most) /\ device \in DOMAIN made
          /\ (y[1]..(y[1] + y[2] - 1)) \cap Busy(device) = {}
      BY <1>1 DEF FreeRuns
    <3>2. y \in Period \X (1..most) /\ y[1]..(y[1] + y[2] - 1) \subseteq window
      BY <3>1, StretchIs
    <3> QED BY <3>1, <3>2
  <2>5. ASSUME NEW y \in free, NEW use, use = RunUse(device, y)
        PROVE  /\ y[1] \in Nat \ {0} /\ y[2] \in Nat \ {0} /\ use \in Seq(Int) /\ Len(use) = y[2]
               /\ DOMAIN use = 1..y[2] /\ y[1] + y[2] <= PeriodSlots + 1
               /\ \A i \in 1..y[2] : /\ use[i] \in Nat /\ use[i] <= remaining[y[1] + i - 1]
                                     /\ use[i] <= Catalogue[device].power
    <3>1. PICK first \in Period, n \in Nat \ {0} : y = <<first, n>> /\ first = y[1] /\ n = y[2]
      BY <2>4
    <3>2. first..(first + n - 1) \subseteq Period
      BY <2>4, <3>1
    <3>3. first \in Nat \ {0}
      BY PeriodIs
    <3> QED BY <2>2, <2>3, <2>5, <3>1, <3>2, <3>3, RunUseIs
  <2>6. IsFiniteSet(free)
    <3>1. IsFiniteSet(Period) /\ IsFiniteSet(1..most)
      BY PeriodIs, FS_Interval
    <3>2. IsFiniteSet(Period \X (1..most))
      BY <3>1, FS_Product
    <3>3. free \subseteq Period \X (1..most)
      BY <2>4
    <3> QED BY <3>2, <3>3, FS_Subset
  <2>7. best # {}
    <3>1. PICK f : f = [y \in free |-> Total(RunUse(device, y))]
      OBVIOUS
    <3>2. ASSUME NEW y \in free PROVE f[y] \in Int /\ f[y] = Total(RunUse(device, y))
      <4>1. PICK use : use = RunUse(device, y)
        OBVIOUS
      <4>2. use \in Seq(Int)
        BY <2>5, <4>1
      <4>3. Total(use) \in Int
        BY <4>2, TotalIsNumber
      <4> QED BY <3>1, <4>1, <4>3
    <3>3. PICK y \in free : \A z \in free : f[z] <= f[y]
      BY <1>6, <2>6, <3>2, MostExists
    <3>4. y \in best
      BY <1>2, <3>2, <3>3
    <3> QED BY <3>4
  <2>8. x \in free
    <3>1. IsFiniteSet(best) /\ best \subseteq free
      BY <1>2, <2>6, FS_Subset
    <3>2. PICK f : f = [y \in best |-> y[1]]
      OBVIOUS
    <3>3. \A y \in best : f[y] \in Int /\ f[y] = y[1]
      BY <2>4, <3>1, <3>2, PeriodIs
    <3>4. \E y \in best : \A z \in best : f[y] <= f[z]
      BY <2>7, <3>1, <3>3, LeastAt
    <3>5. \E y \in best : \A z \in best : y[1] <= z[1]
      BY <3>3, <3>4
    <3>6. x \in best
      BY <1>3, <3>5
    <3> QED BY <3>1, <3>6
  <2>9. PICK use : use = RunUse(device, x)
    OBVIOUS
  <2>10. PICK first \in Nat \ {0}, n \in Nat \ {0} : first = x[1] /\ n = x[2]
    BY <2>5, <2>8, <2>9
  <2>11. /\ use \in Seq(Int) /\ Len(use) = n /\ DOMAIN use = 1..n /\ first + n <= PeriodSlots + 1
         /\ \A i \in 1..n : /\ use[i] \in Nat /\ use[i] <= remaining[first + i - 1]
                            /\ use[i] <= Catalogue[device].power
    BY <2>5, <2>8, <2>9, <2>10
  <2>12. HasRoom(device, first, use)
    <3>1. device \in DOMAIN made /\ (first..(first + n - 1)) \cap Busy(device) = {}
      BY <2>4, <2>8, <2>10
    <3>2. use # << >>
      BY <2>11
    <3>3. \A i \in DOMAIN use : use[i] \in Nat /\ remaining[first + i - 1] >= use[i]
      <4> SUFFICES ASSUME NEW i \in 1..n PROVE use[i] \in Nat /\ remaining[first + i - 1] >= use[i]
        BY <2>11
      <4>1. use[i] \in Nat /\ use[i] <= remaining[first + i - 1]
        BY <2>11
      <4>2. first + i - 1 \in Period
        <5>1. first + i - 1 \in first..(first + n - 1)
          OBVIOUS
        <5> QED BY <2>4, <2>8, <2>10, <5>1
      <4>3. remaining[first + i - 1] \in Nat
        BY <2>3, <4>2
      <4> QED BY <4>1, <4>3
    <3> QED BY <2>1, <2>11, <3>1, <3>2, <3>3 DEF HasRoom
  <2>13. KeepsPower(Catalogue[device], use)
    <3>1. PICK cap \in Nat : cap = Catalogue[device].power
      BY <2>2
    <3>2. \A i \in DOMAIN use : use[i] \in -cap..cap
      BY SMTT(40), <2>11, <3>1
    <3> QED BY <3>1, <3>2 DEF KeepsPower
  <2>14. IsWritten(Catalogue[device], None, use, use)
    BY <2>2 DEF IsWritten
  <2>15. PICK plugged : plugged = IF ready = None THEN None ELSE first
    OBVIOUS
  <2>16. PICK deadline : deadline = IF ready = None THEN None ELSE Max({first + n, ready})
    OBVIOUS
  <2>17. SessionIsRight(Catalogue[device], first, use, plugged, deadline)
         /\ plugged \in Int \cup {None} /\ deadline \in Int \cup {None}
    <3>1. CASE device # "ev"
      BY <2>2, <2>15, <2>16, <3>1 DEF SessionIsRight
    <3>2. CASE device = "ev"
      <4>1. ready \in Int /\ ready # None /\ first + n \in Int
        BY <3>2
      <4>2. PICK a \in Int, b \in Int : a = first + n /\ b = ready
        BY <4>1
      <4>3. Max({a, b}) = IF a <= b THEN b ELSE a
        BY MaxOfTwo
      <4>4. deadline = (IF a <= b THEN b ELSE a) /\ plugged = first
        BY <2>15, <2>16, <4>1, <4>2, <4>3
      <4>5. deadline \in Int /\ first + Len(use) <= deadline
        BY <2>11, <4>2, <4>4
      <4> QED BY <2>2, <3>2, <4>4, <4>5 DEF SessionIsRight
    <3> QED BY <3>1, <3>2
  <2>18. Take(device, None, first, use, use, plugged, deadline)
    BY <1>4, <1>6, <2>9, <2>10, <2>15, <2>16
  <2>19. None \in Programs /\ (None # None => None \in DOMAIN Catalogue[device].programs)
    BY DEF Programs
  <2> QED BY <1>4, <2>11, <2>12, <2>13, <2>14, <2>17, <2>18, <2>19, MeterTakes
<1> QED BY <1>5, <1>6

LEMMA MeterEvInv == GeneratorInv /\ MeterEv => GeneratorInv'
<1> SUFFICES ASSUME GeneratorInv, MeterEv PROVE GeneratorInv'
  OBVIOUS
<1>1. PICK window : window = Span(Day, DayTimes - 3, DayTimes + 2)
  OBVIOUS
<1>2. PICK ready : ready = At(Day + 1, 2)
  OBVIOUS
<1>3. meter # None /\ At_("ev") /\ Run("ev", window, 2, 2, 3, 5, ready)
  BY <1>1, <1>2 DEF MeterEv
<1>4. window \subseteq Period
  BY <1>1 DEF Span
<1>5. ready \in Int /\ ready # None
  BY <1>2, <1>3, AtWork, TimesOfDay, DeviceFileAssumption
<1> QED BY <1>3, <1>4, <1>5, RunInv

LEMMA MeterHeatPumpInv == GeneratorInv /\ MeterHeatPump => GeneratorInv'
<1> SUFFICES ASSUME GeneratorInv, MeterHeatPump PROVE GeneratorInv'
  OBVIOUS
<1>0. PICK ready : ready = None
  OBVIOUS
<1>1. PICK window : window = Span(Day, 0, DayTimes)
  OBVIOUS
<1>2. meter # None /\ At_("heat_pump") /\ Run("heat_pump", window, 1, 2, 4, 3, ready)
  BY <1>0, <1>1 DEF MeterHeatPump
<1>3. window \subseteq Period
  BY <1>1 DEF Span
<1>4. ready \in Int \cup {None} /\ (ready = None <=> "heat_pump" # "ev")
  BY <1>0
<1> QED BY <1>2, <1>3, <1>4, RunInv

LEMMA MeterSpikesInv == GeneratorInv /\ MeterSpikes => GeneratorInv'
<1> SUFFICES ASSUME GeneratorInv, MeterSpikes PROVE GeneratorInv'
  OBVIOUS
<1>0. PICK ready : ready = None
  OBVIOUS
<1>1. PICK window : window = Span(Day, 0, DayTimes)
  OBVIOUS
<1>2. meter # None /\ At_("spikes") /\ Run("hob", window, 2, 1, 1, 2, ready)
  BY <1>0, <1>1 DEF MeterSpikes
<1>3. window \subseteq Period
  BY <1>1 DEF Span
<1>4. ready \in Int \cup {None} /\ (ready = None <=> "hob" # "ev")
  BY <1>0
<1> QED BY <1>2, <1>3, <1>4, RunInv

LEMMA FillInv ==
    ASSUME GeneratorInv, meter # None, NEW step, At_(step),
           NEW device \in ConstantUsers, NEW slots, Fill(device, slots, 1)
    PROVE  GeneratorInv'
<1> DEFINE taken(s) == IF device \in DOMAIN made /\ s \in slots
                       THEN Min({1, Catalogue[device].power - filled[device][s], remaining[s]})
                       ELSE 0
<1>1. /\ filled' = [filled EXCEPT ![device] = [s \in Period |-> @[s] + taken(s)]]
      /\ remaining' = [s \in Period |-> remaining[s] - taken(s)]
      /\ job' = job + 1 /\ washEnd' = None /\ UNCHANGED <<meter, made, actions>>
  BY Zenon DEF Fill
<1>2. MeterTyped
  BY DEF GeneratorInv, MeterInv
<1>3. PICK cap \in Nat : cap = Catalogue[device].power
  <2>1. device \in DOMAIN Catalogue /\ device \in WithProfiles
    BY CatalogueAssumption DEF WithProfiles, ConstantUsers
  <2>2. Catalogue[device].power \in Nat
    BY <2>1, CatalogueIs
  <2> QED BY <2>2
<1>4. ASSUME NEW s \in Period
      PROVE  /\ filled[device][s] \in Nat /\ remaining[s] \in Nat /\ taken(s) \in Nat
             /\ taken(s) + filled[device][s] <= cap /\ taken(s) <= remaining[s]
             /\ taken(s) > 0 => device \in DOMAIN made
  <2>1. PICK f \in Nat, r \in Nat : f = filled[device][s] /\ r = remaining[s] /\ f <= cap
    BY <1>2, <1>3 DEF MeterTyped
  <2>2. CASE device \in DOMAIN made /\ s \in slots
    <3>1. taken(s) = Min({1, cap - f, r})
      BY <1>3, <2>1, <2>2
    <3> HIDE DEF taken
    <3>2. PICK c \in Nat : c = cap - f
      BY <2>1
    <3>3. taken(s) \in {1, c, r} /\ taken(s) <= c /\ taken(s) <= r
      <4>1. Min({1, c, r}) \in {1, c, r} /\ Min({1, c, r}) <= c /\ Min({1, c, r}) <= r
        <5>1. 1 \in Int /\ c \in Int /\ r \in Int
          OBVIOUS
        <5> QED BY <5>1, MinOfThree, Zenon
      <4> QED BY <3>1, <3>2, <4>1
    <3>4. PICK t \in Nat : t = taken(s)
      BY <3>3
    <3> QED BY <2>1, <2>2, <3>2, <3>3, <3>4
  <2>3. CASE ~(device \in DOMAIN made /\ s \in slots)
    <3>1. taken(s) = 0
      BY <2>3
    <3> HIDE DEF taken
    <3> QED BY <2>1, <3>1
  <2> QED BY <2>2, <2>3
<1> HIDE DEF taken
<1>5. /\ DOMAIN filled' = ConstantUsers /\ filled'[device] = [s \in Period |-> filled[device][s] + taken(s)]
      /\ \A d \in ConstantUsers : d # device => filled'[d] = filled[d]
  BY <1>1, <1>2 DEF MeterTyped
<1>6. Open /\ Open' /\ Jobs' = Jobs /\ job' \in 1..(Len(Jobs') + 2)
  <2>1. Jobs' = Jobs
    BY <1>1, JobsStay
  <2> QED BY <1>1, <2>1, AtWork DEF Open
<1>7. Devices' /\ HouseInv' /\ washEnd' \in {None} \cup (Nat \ {0})
  BY <1>1 DEF GeneratorInv, Devices, HouseInv
<1>8. MadeActionsInv'
  <2>1. \A a : Made(a) => Made(a)'
    BY <1>1 DEF Made
  <2> QED BY <1>1, <2>1 DEF GeneratorInv, MadeActionsInv
<1>9. ASSUME NEW d \in ConstantUsers, NEW s \in Period
      PROVE  /\ filled'[d][s] \in Nat /\ filled'[d][s] <= Catalogue[d].power
             /\ filled'[d][s] > 0 => d \in DOMAIN made
  <2>1. CASE d = device
    <3>1. PICK f \in Nat, t \in Nat : /\ f = filled[device][s] /\ t = taken(s) /\ t + f <= cap
                                      /\ t > 0 => device \in DOMAIN made
      BY <1>4
    <3>2. filled'[d][s] = f + t
      BY <1>5, <2>1, <3>1
    <3>3. f > 0 => device \in DOMAIN made
      BY <1>2, <3>1 DEF MeterTyped
    <3> QED BY <1>3, <2>1, <3>1, <3>2, <3>3
  <2>2. CASE d # device
    BY <1>2, <1>5, <2>2 DEF MeterTyped
  <2> QED BY <2>1, <2>2
<1>10. filled' \in [ConstantUsers -> [Period -> Nat]]
  <2>1. ASSUME NEW d \in ConstantUsers PROVE filled'[d] \in [Period -> Nat]
    <3>1. CASE d = device
      <4>1. \A s \in Period : filled[device][s] + taken(s) \in Nat
        BY <1>4
      <4> QED BY <1>5, <3>1, <4>1
    <3>2. CASE d # device
      BY <1>2, <1>5, <3>2 DEF MeterTyped
    <3> QED BY <3>1, <3>2
  <2>2. filled' = [d \in ConstantUsers |-> filled'[d]]
    BY <1>1, <1>2 DEF MeterTyped
  <2> QED BY <2>1, <2>2
<1>11. remaining' \in [Period -> Nat]
  <2>1. \A s \in Period : remaining[s] - taken(s) \in Nat
    BY <1>4
  <2> QED BY <1>1, <2>1
<1>12. MeterTyped'
  <2>1. /\ meter' \in [Period -> Nat] /\ Other \in DOMAIN made'
        /\ \A a \in actions' : a.device \notin ConstantUsers \cup {Other}
    BY <1>1, <1>2, <1>6 DEF MeterTyped
  <2>2. \A d \in ConstantUsers, s \in Period :
           filled'[d][s] <= Catalogue[d].power /\ (filled'[d][s] > 0 => d \in DOMAIN made')
    BY <1>1, <1>9
  <2> QED BY <1>10, <1>11, <2>1, <2>2 DEF MeterTyped
<1>13. \A s \in Period : UsedAt(actions', s) + Shared(s)' = meter'[s]
  <2> SUFFICES ASSUME NEW s \in Period PROVE UsedAt(actions', s) + Shared(s)' = meter'[s]
    OBVIOUS
  <2>1. Shared(s)' = Shared(s)
    <3>1. PICK t \in Nat, r \in Nat : t = taken(s) /\ r = remaining[s]
      BY <1>4
    <3>2. PICK f \in Nat, l \in Nat : f = filled["fridge"][s] /\ l = filled["light"][s]
      BY <1>2 DEF MeterTyped, ConstantUsers
    <3>3. remaining'[s] = r - t
      BY <1>1, <3>1
    <3>4. CASE device = "fridge"
      <4>1. filled'["fridge"][s] = f + t /\ filled'["light"][s] = l
        BY <1>5, <3>1, <3>2, <3>4 DEF ConstantUsers
      <4>2. (f + t) + l + (r - t) = f + l + r
        OBVIOUS
      <4> QED BY <3>1, <3>2, <3>3, <4>1, <4>2 DEF Shared
    <3>5. CASE device = "light"
      <4>1. filled'["light"][s] = l + t /\ filled'["fridge"][s] = f
        BY <1>5, <3>1, <3>2, <3>5 DEF ConstantUsers
      <4>2. f + (l + t) + (r - t) = f + l + r
        OBVIOUS
      <4> QED BY <3>1, <3>2, <3>3, <4>1, <4>2 DEF Shared
    <3> QED BY <3>4, <3>5 DEF ConstantUsers
  <2> QED BY <1>1, <1>6, <2>1 DEF GeneratorInv, MeterInv
<1>14. MeterInv'
  BY <1>6, <1>12, <1>13 DEF MeterInv
<1> QED BY <1>6, <1>7, <1>8, <1>14 DEF GeneratorInv

LEMMA MeterAlwaysOnInv == GeneratorInv /\ MeterAlwaysOn => GeneratorInv'
<1> SUFFICES ASSUME GeneratorInv, MeterAlwaysOn PROVE GeneratorInv'
  OBVIOUS
<1>1. PICK slots : slots = Span(Day, 0, DayTimes)
  OBVIOUS
<1>2. meter # None /\ At_("always_on") /\ Fill("fridge", slots, 1)
  BY <1>1 DEF MeterAlwaysOn
<1>3. "fridge" \in ConstantUsers
  BY DEF ConstantUsers
<1> QED BY <1>2, <1>3, FillInv

LEMMA MeterFillInv == GeneratorInv /\ MeterFill => GeneratorInv'
<1> SUFFICES ASSUME GeneratorInv, MeterFill PROVE GeneratorInv'
  OBVIOUS
<1>1. PICK slots : slots = Span(Day, DayTimes - 2, DayTimes)
  OBVIOUS
<1>2. meter # None /\ At_("fill") /\ Fill("light", slots, 1)
  BY <1>1 DEF MeterFill
<1>3. "light" \in ConstantUsers
  BY DEF ConstantUsers
<1> QED BY <1>2, <1>3, FillInv

-----------------------------------------------------------------------------
(* Constant use and the rest become actions when the readings are divided. *)

LEMMA ImageIsFinite ==
    ASSUME NEW S, IsFiniteSet(S), NEW f
    PROVE  IsFiniteSet({f[x] : x \in S})
<1> DEFINE image(T) == {f[x] : x \in T}
           C == {T \in SUBSET S : IsFiniteSet(image(T))}
<1>1. {} \in C
  <2>1. image({}) = {}
    OBVIOUS
  <2> HIDE DEF image
  <2> QED BY <2>1, FS_EmptySet
<1>2. ASSUME NEW T \in SUBSET S, NEW x \in S, T \in C, x \notin T PROVE T \cup {x} \in C
  <2>1. image(T \cup {x}) = image(T) \cup {f[x]} /\ IsFiniteSet(image(T))
    BY <1>2
  <2> HIDE DEF image
  <2>2. IsFiniteSet(image(T) \cup {f[x]})
    BY <2>1, FS_AddElement
  <2> QED BY <2>1, <2>2
<1>3. S \in C
  <2> HIDE DEF C
  <2> QED BY <1>1, <1>2, InductByElement
<1> QED BY <1>3

\* What the actions of two sets apart take.
LEMMA UsedOfUnion ==
    ASSUME NEW S, NEW T, IsFiniteSet(S), IsFiniteSet(T), S \cap T = {}, \A a \in S \cup T : Shaped(a), NEW s
    PROVE  UsedAt(S \cup T, s) = UsedAt(S, s) + UsedAt(T, s) /\ UsedAt(S, s) \in Int /\ UsedAt(T, s) \in Int
<1>1. PICK f : f = [a \in S \cup T |-> UseIn(a, s)]
  OBVIOUS
<1>2. \A a \in S \cup T : f[a] = UseIn(a, s) /\ f[a] \in Int
  BY <1>1, ShapeIs
<1>3. SumOver(f, S \cup T) = SumOver(f, S) + SumOver(f, T)
  BY <1>2, SumOfUnion
<1>4. SumOver(f, S) \in Int /\ SumOver(f, T) \in Int
  BY <1>2, SumIsNumber
<1>5. UsedAt(S, s) = SumOver(f, S) /\ UsedAt(T, s) = SumOver(f, T)
  <2>1. PICK g : g = [a \in S |-> UseIn(a, s)]
    OBVIOUS
  <2>2. PICK h : h = [a \in T |-> UseIn(a, s)]
    OBVIOUS
  <2>3. SumOver(g, S) = SumOver(f, S)
    BY <1>2, <2>1, SumOfSame
  <2>4. SumOver(h, T) = SumOver(f, T)
    BY <1>2, <2>2, SumOfSame
  <2> QED BY <2>1, <2>2, <2>3, <2>4 DEF UsedAt
<1>6. UsedAt(S \cup T, s) = SumOver(f, S \cup T)
  BY <1>1 DEF UsedAt
<1> QED BY <1>3, <1>4, <1>5, <1>6

\* A sum with one value.
LEMMA SumOfOne ==
    ASSUME NEW S, IsFiniteSet(S), NEW a \in S, NEW f, f[a] \in Int, \A b \in S \ {a} : f[b] = 0
    PROVE  SumOver(f, S) = f[a]
<1>1. PICK T : T = S \ {a}
  OBVIOUS
<1>2. IsFiniteSet(T) /\ a \notin T /\ S = T \cup {a}
  BY <1>1, FS_Subset
<1>3. \A y \in T \cup {a} : f[y] \in Int
  BY <1>1
<1>4. SumOver(f, T \cup {a}) = SumOver(f, T) + f[a]
  BY <1>2, <1>3, SumWith
<1>5. SumOver(f, T) = 0
  BY <1>1, <1>2, SumOfZeros
<1> QED BY <1>2, <1>4, <1>5

\* Actions apart that take the values of v, and cover its slots, take v.
LEMMA CoverTakes ==
    ASSUME NEW S, IsFiniteSet(S), \A a \in S : Shaped(a), NoOverlap(S),
           \A a, b \in S : a.device = b.device, NEW v, NEW s, v[s] \in Nat,
           \A a \in S : s \in Slots(a) => UseIn(a, s) = v[s], v[s] > 0 => \E a \in S : s \in Slots(a)
    PROVE  UsedAt(S, s) = v[s]
<1>1. PICK f : f = [a \in S |-> UseIn(a, s)]
  OBVIOUS
<1>2. UsedAt(S, s) = SumOver(f, S)
  BY <1>1 DEF UsedAt
<1>3. \A a \in S : f[a] = UseIn(a, s) /\ f[a] \in Int /\ (s \notin Slots(a) => f[a] = 0)
  BY <1>1, ShapeIs
<1>4. CASE \E a \in S : s \in Slots(a)
  <2>1. PICK a \in S : s \in Slots(a)
    BY <1>4
  <2>2. \A b \in S \ {a} : f[b] = 0
    BY <1>3, <2>1 DEF NoOverlap
  <2>3. SumOver(f, S) = f[a]
    BY <1>3, <2>2, SumOfOne
  <2> QED BY <1>2, <1>3, <2>1, <2>3
<1>5. CASE ~\E a \in S : s \in Slots(a)
  <2>1. v[s] = 0
    BY <1>5
  <2>2. \A a \in S : f[a] = 0
    BY <1>3, <1>5
  <2>3. SumOver(f, S) = 0
    BY <2>2, SumOfZeros
  <2> QED BY <1>2, <2>1, <2>3
<1> QED BY <1>4, <1>5

\* The actions of a device that takes the values of v in runs.
RunOf(name, v, x) ==
    New(name, None, x[1], Values(v, x[1], x[2]), Values(v, x[1], x[2]), None, None)
Part(name, v, X) == {RunOf(name, v, x) : x \in X}
AreRuns(v, X) ==
    /\ X \subseteq Period \X Period /\ \A x \in X : x[1] <= x[2]
    /\ \A x, y \in X : x # y => (x[1]..x[2]) \cap (y[1]..y[2]) = {}
    /\ \A s \in Period : v[s] > 0 => \E x \in X : s \in x[1]..x[2]
TakesValues(device, v) ==
    /\ DOMAIN device.programs = {} /\ device.producer = FALSE /\ device.type # "ev_charger"
    /\ device.power \in Nat /\ \A s \in Period : v[s] <= device.power

LEMMA RunIs ==
    ASSUME NEW name \in DOMAIN Catalogue, NEW device, NEW v \in [Period -> Nat], TakesValues(device, v),
           NEW first \in Period, NEW last \in Period, first <= last, NEW a, a = RunOf(name, v, <<first, last>>)
    PROVE  /\ Shaped(a) /\ a.device = name /\ RightFor(a, device) /\ a.start = first
           /\ Slots(a) = first..last /\ \A s \in first..last : UseIn(a, s) = v[s]
<1>1. PICK n \in Nat \ {0} : n = last - first + 1
  BY PeriodIs
<1>2. PICK use : use = Values(v, first, last)
  OBVIOUS
<1>3. use = [i \in 1..n |-> v[first + i - 1]]
  BY <1>1, <1>2 DEF Values
<1>4. /\ first \in Nat \ {0} /\ last \in Nat \ {0} /\ first + n <= PeriodSlots + 1 /\ first + n - 1 = last
      /\ first..last \subseteq Period
  BY <1>1, PeriodIs
<1>5. ASSUME NEW i \in 1..n PROVE first + i - 1 \in Period /\ use[i] = v[first + i - 1] /\ use[i] \in Nat
  <2>1. first + i - 1 \in first..last
    BY <1>4
  <2> QED BY <1>3, <1>4, <2>1
<1>6. use \in Seq(Int) /\ Len(use) = n /\ DOMAIN use = 1..n /\ use # << >>
  <2>1. \A i \in 1..n : use[i] \in Int
    BY <1>5
  <2>2. use = [i \in 1..n |-> use[i]] /\ DOMAIN use = 1..n
    BY <1>3
  <2>3. n \in Nat /\ use \in [1..n -> Int]
    BY <2>1, <2>2
  <2>4. use \in Seq(Int)
    BY <2>3
  <2>5. Len(use) = n
    BY <2>2, <2>3, <2>4
  <2> QED BY <2>2, <2>4, <2>5
<1>7. (Total(use) < 0) = device.producer
  <2>1. \A i \in DOMAIN use : use[i] >= 0
    BY <1>5, <1>6
  <2>2. Total(use) \in Nat
    BY <1>6, <2>1, TotalOfPositive
  <2>3. (Total(use) < 0) = FALSE
    BY <2>2
  <2> QED BY <2>3 DEF TakesValues
<1>8. KeepsPower(device, use)
  <2>1. PICK cap \in Nat : cap = device.power
    BY DEF TakesValues
  <2>2. ASSUME NEW i \in DOMAIN use PROVE use[i] \in -cap..cap
    <3>1. use[i] \in Nat /\ use[i] <= cap
      BY <1>5, <1>6, <2>1 DEF TakesValues
    <3> QED BY <3>1
  <2> QED BY <2>1, <2>2 DEF KeepsPower
<1>9. IsWritten(device, None, use, use) /\ SessionIsRight(device, first, use, None, None)
  BY DEF IsWritten, SessionIsRight, TakesValues
<1>10. MayBeMade(name, device, None, first, use, use, None, None)
  BY <1>4, <1>6, <1>7, <1>8, <1>9 DEF MayBeMade, Programs
<1>11. a = New(name, None, first, use, use, None, None)
  BY <1>2 DEF RunOf
<1>12. Shaped(a) /\ a.device = name /\ a.start = first /\ a.use = use /\ RightFor(a, device)
  BY <1>10, <1>11, NewIsMade
<1>13. Slots(a) = first..last
  BY <1>4, <1>6, <1>12, ShapeIs
<1>14. ASSUME NEW s \in first..last PROVE UseIn(a, s) = v[s]
  <2>1. PICK i \in 1..n : i = s - first + 1 /\ first + i - 1 = s
    <3>1. s - first + 1 \in 1..n /\ first + (s - first + 1) - 1 = s
      BY <1>1, <1>4
    <3> QED BY <3>1
  <2> QED BY <1>5, <1>12, <1>13, <2>1 DEF UseIn
<1> QED BY <1>12, <1>13, <1>14

LEMMA PartIs ==
    ASSUME NEW name \in DOMAIN Catalogue, NEW device, NEW v \in [Period -> Nat], TakesValues(device, v),
           NEW X, AreRuns(v, X), NEW S, S = Part(name, v, X)
    PROVE  /\ IsFiniteSet(S) /\ NoOverlap(S) /\ \A a \in S : Shaped(a) /\ a.device = name /\ RightFor(a, device)
           /\ \A s \in Period : UsedAt(S, s) = v[s]
<1>1. PICK f : f = [x \in X |-> RunOf(name, v, x)]
  OBVIOUS
<1>2. S = {f[x] : x \in X}
  BY <1>1 DEF Part
<1>3. IsFiniteSet(S)
  <2>1. IsFiniteSet(Period \X Period)
    BY PeriodIs, FS_Product
  <2>2. IsFiniteSet(X)
    BY <2>1, FS_Subset DEF AreRuns
  <2> QED BY <1>2, <2>2, ImageIsFinite
<1>4. ASSUME NEW x \in X, NEW a, a = f[x]
      PROVE  /\ Shaped(a) /\ a.device = name /\ RightFor(a, device) /\ Slots(a) = x[1]..x[2]
             /\ \A s \in x[1]..x[2] : UseIn(a, s) = v[s]
  <2>1. PICK first \in Period, last \in Period : x = <<first, last>> /\ first = x[1] /\ last = x[2] /\ first <= last
    BY DEF AreRuns
  <2>2. a = RunOf(name, v, <<first, last>>)
    BY <1>1, <1>4, <2>1
  <2>3. /\ Shaped(a) /\ a.device = name /\ RightFor(a, device)
        /\ Slots(a) = first..last /\ \A s \in first..last : UseIn(a, s) = v[s]
    BY <2>1, <2>2, RunIs
  <2> QED BY <2>1, <2>3
<1>5. \A a \in S : Shaped(a) /\ a.device = name /\ RightFor(a, device)
  BY <1>2, <1>4
<1>6. NoOverlap(S)
  <2> SUFFICES ASSUME NEW a \in S, NEW b \in S, a # b PROVE Slots(a) \cap Slots(b) = {}
    BY DEF NoOverlap
  <2>1. PICK x \in X : a = f[x]
    BY <1>2
  <2>2. PICK y \in X : b = f[y]
    BY <1>2
  <2>3. x # y
    BY <2>1, <2>2
  <2>4. Slots(a) = x[1]..x[2] /\ Slots(b) = y[1]..y[2]
    BY <1>4, <2>1, <2>2
  <2>5. (x[1]..x[2]) \cap (y[1]..y[2]) = {}
    BY <2>3 DEF AreRuns
  <2> QED BY <2>4, <2>5
<1>7. ASSUME NEW s \in Period PROVE UsedAt(S, s) = v[s]
  <2>1. \A a, b \in S : a.device = b.device
    BY <1>5
  <2>2. ASSUME NEW a \in S, s \in Slots(a) PROVE UseIn(a, s) = v[s]
    <3>1. PICK x \in X : a = f[x]
      BY <1>2
    <3> QED BY <1>4, <2>2, <3>1
  <2>3. ASSUME v[s] > 0 PROVE \E a \in S : s \in Slots(a)
    <3>1. PICK x \in X : s \in x[1]..x[2]
      BY <2>3 DEF AreRuns
    <3>2. f[x] \in S /\ Slots(f[x]) = x[1]..x[2]
      BY <1>2, <1>4
    <3> QED BY <3>1, <3>2
  <2>4. v[s] \in Nat
    OBVIOUS
  <2> QED BY <1>3, <1>5, <1>6, <2>1, <2>2, <2>3, <2>4, CoverTakes
<1> QED BY <1>3, <1>5, <1>6, <1>7

LEMMA DaysAre ==
    /\ \A s \in Period : Local[s].day \in 1..Days
    /\ \A s, r \in Period : s <= r => Local[s].day <= Local[r].day
<1>1. Period \subseteq DOMAIN Local /\ \A s \in Period : s \in Int
  <2>1. PICK n \in Nat : n = Len(Local) /\ DOMAIN Local = 1..n /\ PeriodSlots \in 1..n
    BY SMTT(40), DeviceFileAssumption
  <2> QED BY <2>1, PeriodIs
<1>2. \A s \in Period : Local[s].day \in 1..Days
  BY GeneratorAssumption DEF ClockAssumption
<1>3. ASSUME NEW s \in Period, NEW r \in Period, s <= r PROVE Local[s].day <= Local[r].day
  <2>1. CASE s < r
    BY <1>1, <2>1, GeneratorAssumption DEF ClockAssumption
  <2>2. CASE ~(s < r)
    <3>1. s = r
      BY <1>1, <1>3, <2>2
    <3>2. Local[s].day \in Int
      BY <1>2, GeneratorAssumption
    <3> QED BY <3>1, <3>2
  <2> QED BY <2>1, <2>2
<1> QED BY <1>2, <1>3

\* Between two slots of a day all are of the day.
LEMMA BetweenIsOfDay ==
    ASSUME NEW a \in Period, NEW b \in Period, SameDay(a, b), NEW s \in a..b
    PROVE  s \in Period /\ SameDay(a, s) /\ SameDay(s, b)
<1>1. s \in Period /\ a <= s /\ s <= b
  BY PeriodIs
<1>2. Local[a].day <= Local[s].day /\ Local[s].day <= Local[b].day
  BY <1>1, DaysAre
<1>3. Local[a].day \in Int /\ Local[s].day \in Int /\ Local[b].day \in Int
  BY <1>1, DaysAre, GeneratorAssumption
<1> QED BY <1>1, <1>2, <1>3 DEF SameDay

\* The runs of a constant user.
On(v, s) == s \in Period /\ v[s] > 0
IsRun(v, a, b) ==
    /\ a <= b /\ SameDay(a, b) /\ \A s \in a..b : On(v, s)
    /\ ~(On(v, a - 1) /\ SameDay(a - 1, a)) /\ ~(On(v, b + 1) /\ SameDay(b + 1, b))

LEMMA RunsAreApart ==
    ASSUME NEW v, NEW a \in Period, NEW b \in Period, NEW c \in Period, NEW d \in Period,
           IsRun(v, a, b), IsRun(v, c, d), NEW s \in (a..b) \cap (c..d)
    PROVE  a = c /\ b = d
<1>1. /\ a \in Int /\ b \in Int /\ c \in Int /\ d \in Int /\ s \in Int
      /\ a <= s /\ s <= b /\ c <= s /\ s <= d
  BY PeriodIs
<1>2. ASSUME a < c PROVE FALSE
  <2>1. c - 1 \in a..b /\ c \in a..b
    BY <1>1, <1>2
  <2>2. On(v, c - 1) /\ c - 1 \in Period
    BY <2>1 DEF IsRun, On
  <2>3. SameDay(a, c - 1) /\ SameDay(a, c)
    BY <2>1, BetweenIsOfDay DEF IsRun
  <2>4. SameDay(c - 1, c)
    BY <2>3 DEF SameDay
  <2> QED BY <2>2, <2>4 DEF IsRun
<1>3. ASSUME c < a PROVE FALSE
  <2>1. a - 1 \in c..d /\ a \in c..d
    BY <1>1, <1>3
  <2>2. On(v, a - 1) /\ a - 1 \in Period
    BY <2>1 DEF IsRun, On
  <2>3. SameDay(c, a - 1) /\ SameDay(c, a)
    BY <2>1, BetweenIsOfDay DEF IsRun
  <2>4. SameDay(a - 1, a)
    BY <2>3 DEF SameDay
  <2> QED BY <2>2, <2>4 DEF IsRun
<1>4. ASSUME b < d PROVE FALSE
  <2>1. b + 1 \in c..d /\ b \in c..d
    BY <1>1, <1>4
  <2>2. On(v, b + 1) /\ b + 1 \in Period
    BY <2>1 DEF IsRun, On
  <2>3. SameDay(c, b + 1) /\ SameDay(c, b)
    BY <2>1, BetweenIsOfDay DEF IsRun
  <2>4. SameDay(b + 1, b)
    BY <2>3 DEF SameDay
  <2> QED BY <2>2, <2>4 DEF IsRun
<1>5. ASSUME d < b PROVE FALSE
  <2>1. d + 1 \in a..b /\ d \in a..b
    BY <1>1, <1>5
  <2>2. On(v, d + 1) /\ d + 1 \in Period
    BY <2>1 DEF IsRun, On
  <2>3. SameDay(a, d + 1) /\ SameDay(a, d)
    BY <2>1, BetweenIsOfDay DEF IsRun
  <2>4. SameDay(d + 1, d)
    BY <2>3 DEF SameDay
  <2> QED BY <2>2, <2>4 DEF IsRun
<1> QED BY <1>1, <1>2, <1>3, <1>4, <1>5

LEMMA RunAround ==
    ASSUME NEW v, NEW s \in Period, v[s] > 0
    PROVE  \E a, b \in Period : IsRun(v, a, b) /\ s \in a..b
<1> DEFINE G == {t \in Period : t <= s /\ \A u \in t..s : On(v, u) /\ SameDay(u, s)}
           H == {t \in Period : s <= t /\ \A u \in s..t : On(v, u) /\ SameDay(u, s)}
<1>1. s \in Nat /\ \A t \in Period : t \in Int
  BY PeriodIs
<1>2. s \in G /\ s \in H
  <2>1. \A u \in s..s : u = s
    BY <1>1
  <2>2. On(v, s) /\ SameDay(s, s)
    BY DEF On, SameDay
  <2> QED BY <1>1, <2>1, <2>2
<1>3. IsFiniteSet(G) /\ IsFiniteSet(H) /\ G \subseteq Int /\ H \subseteq Int
  <2>1. G \subseteq Period /\ H \subseteq Period
    OBVIOUS
  <2> QED BY <1>1, <2>1, PeriodIs, FS_Subset
<1>4. PICK a \in G : \A t \in G : a <= t
  BY <1>2, <1>3, LeastExists
<1>5. PICK b \in H : \A t \in H : t <= b
  BY <1>2, <1>3, MaxIs
<1>6. /\ a \in Period /\ a <= s /\ \A u \in a..s : On(v, u) /\ SameDay(u, s)
      /\ b \in Period /\ s <= b /\ \A u \in s..b : On(v, u) /\ SameDay(u, s)
  BY <1>4, <1>5
<1>7. a \in Int /\ b \in Int
  BY <1>1, <1>6
<1>8. \A u \in a..b : On(v, u) /\ SameDay(u, s)
  <2> SUFFICES ASSUME NEW u \in a..b PROVE On(v, u) /\ SameDay(u, s)
    OBVIOUS
  <2>1. u \in a..s \/ u \in s..b
    BY <1>1, <1>7
  <2> QED BY <1>6, <2>1
<1>9. SameDay(a, b) /\ a <= b
  <2>1. a \in a..b /\ b \in a..b /\ a <= b
    BY <1>1, <1>6, <1>7
  <2> QED BY <1>8, <2>1 DEF SameDay
<1>10. ~(On(v, a - 1) /\ SameDay(a - 1, a))
  <2> SUFFICES ASSUME On(v, a - 1), SameDay(a - 1, a) PROVE FALSE
    OBVIOUS
  <2>1. a - 1 \in Period /\ a - 1 <= s
    BY <1>1, <1>6, <1>7 DEF On
  <2>2. SameDay(a - 1, s)
    <3>1. a \in a..s
      BY <1>1, <1>6, <1>7
    <3> QED BY <1>6, <3>1 DEF SameDay
  <2>3. ASSUME NEW u \in (a - 1)..s PROVE On(v, u) /\ SameDay(u, s)
    <3>1. u = a - 1 \/ u \in a..s
      BY <1>1, <1>7
    <3> QED BY <1>6, <2>2, <3>1
  <2>4. a - 1 \in G
    BY <2>1, <2>3
  <2>5. a <= a - 1
    BY <1>4, <2>4
  <2> QED BY <1>7, <2>5
<1>11. ~(On(v, b + 1) /\ SameDay(b + 1, b))
  <2> SUFFICES ASSUME On(v, b + 1), SameDay(b + 1, b) PROVE FALSE
    OBVIOUS
  <2>1. b + 1 \in Period /\ s <= b + 1
    BY <1>1, <1>6, <1>7 DEF On
  <2>2. SameDay(b + 1, s)
    <3>1. b \in s..b
      BY <1>1, <1>6, <1>7
    <3> QED BY <1>6, <3>1 DEF SameDay
  <2>3. ASSUME NEW u \in s..(b + 1) PROVE On(v, u) /\ SameDay(u, s)
    <3>1. u = b + 1 \/ u \in s..b
      BY <1>1, <1>7
    <3> QED BY <1>6, <2>2, <3>1
  <2>4. b + 1 \in H
    BY <2>1, <2>3
  <2>5. b + 1 <= b
    BY <1>5, <2>4
  <2> QED BY <1>7, <2>5
<1>12. IsRun(v, a, b)
  BY <1>8, <1>9, <1>10, <1>11 DEF IsRun
<1>13. s \in a..b
  BY <1>1, <1>6, <1>7
<1> QED BY <1>6, <1>12, <1>13

LEMMA FilledRunsAre ==
    ASSUME MeterTyped, NEW d \in ConstantUsers
    PROVE  AreRuns(filled[d], FilledRuns(d)) /\ (FilledRuns(d) # {} => d \in DOMAIN made)
<1>1. PICK v \in [Period -> Nat] : v = filled[d]
  BY DEF MeterTyped
<1>2. PICK X : X = FilledRuns(d)
  OBVIOUS
<1>3. X = {x \in Period \X Period : IsRun(v, x[1], x[2])}
  BY <1>1, <1>2 DEF FilledRuns, IsRun, On
<1>4. ASSUME NEW x \in X PROVE x \in Period \X Period /\ IsRun(v, x[1], x[2]) /\ x[1] <= x[2]
  BY <1>3 DEF IsRun
<1>5. ASSUME NEW x \in X, NEW y \in X, x # y PROVE (x[1]..x[2]) \cap (y[1]..y[2]) = {}
  <2> SUFFICES ASSUME NEW s \in (x[1]..x[2]) \cap (y[1]..y[2]) PROVE FALSE
    OBVIOUS
  <2>1. PICK a \in Period, b \in Period : x = <<a, b>> /\ IsRun(v, a, b)
    BY <1>4
  <2>2. PICK c \in Period, e \in Period : y = <<c, e>> /\ IsRun(v, c, e)
    BY <1>4
  <2>3. s \in (a..b) \cap (c..e)
    BY <2>1, <2>2
  <2>4. a = c /\ b = e
    BY <2>1, <2>2, <2>3, RunsAreApart
  <2> QED BY <1>5, <2>1, <2>2, <2>4
<1>6. ASSUME NEW s \in Period, v[s] > 0 PROVE \E x \in X : s \in x[1]..x[2]
  <2>1. PICK a \in Period, b \in Period : IsRun(v, a, b) /\ s \in a..b
    BY <1>6, RunAround
  <2>2. PICK x : x = <<a, b>>
    OBVIOUS
  <2>3. x \in X /\ s \in x[1]..x[2]
    BY <1>3, <2>1, <2>2
  <2> QED BY <2>3
<1>7. AreRuns(v, X)
  BY <1>4, <1>5, <1>6 DEF AreRuns
<1>8. ASSUME NEW x \in X PROVE d \in DOMAIN made
  <2>1. PICK a \in Period, b \in Period : x = <<a, b>> /\ IsRun(v, a, b)
    BY <1>4
  <2>2. a \in a..b
    BY <2>1, PeriodIs DEF IsRun
  <2>3. v[a] > 0
    BY <2>1, <2>2 DEF IsRun, On
  <2> QED BY <1>1, <2>3 DEF MeterTyped
<1> QED BY <1>1, <1>2, <1>7, <1>8

\* The days with something left.
DaysLeft(v) == {slots \in {{s \in Period : Local[s].day = d} : d \in 1..Days} : \E s \in slots : v[s] > 0}
DayRuns(v) == {<<Min(slots), Max(slots)>> : slots \in DaysLeft(v)}

LEMMA DayRunsAre ==
    ASSUME NEW v \in [Period -> Nat]
    PROVE  AreRuns(v, DayRuns(v))
<1>1. ASSUME NEW slots \in DaysLeft(v)
      PROVE  \E d \in 1..Days, a, b \in Period :
                 /\ slots = {s \in Period : Local[s].day = d} /\ a = Min(slots) /\ b = Max(slots)
                 /\ a <= b /\ \A s \in Period : s \in a..b <=> Local[s].day = d
  <2>1. PICK d \in 1..Days : slots = {s \in Period : Local[s].day = d}
    BY DEF DaysLeft
  <2>2. slots # {}
    BY DEF DaysLeft
  <2>3. IsFiniteSet(slots) /\ slots \subseteq Int
    <3>1. slots \subseteq Period
      BY <2>1
    <3>2. IsFiniteSet(slots)
      BY <3>1, PeriodIs, FS_Subset
    <3>3. slots \subseteq Int
      BY <3>1, PeriodIs
    <3> QED BY <3>2, <3>3
  <2>4. PICK a \in slots : a = Min(slots) /\ \A s \in slots : a <= s
    BY <2>2, <2>3, MinIs
  <2>5. PICK b \in slots : b = Max(slots) /\ \A s \in slots : s <= b
    BY <2>2, <2>3, MaxIs
  <2>6. a \in Period /\ b \in Period /\ a <= b /\ SameDay(a, b) /\ Local[a].day = d /\ a \in Int /\ b \in Int
    BY <2>1, <2>3, <2>4, <2>5 DEF SameDay
  <2>7. ASSUME NEW s \in Period PROVE s \in a..b <=> Local[s].day = d
    <3>1. ASSUME s \in a..b PROVE Local[s].day = d
      BY <2>6, <3>1, BetweenIsOfDay DEF SameDay
    <3>2. ASSUME Local[s].day = d PROVE s \in a..b
      <4>1. s \in slots /\ s \in Int
        BY <2>1, <2>3, <3>2
      <4> QED BY <2>4, <2>5, <2>6, <4>1
    <3> QED BY <3>1, <3>2
  <2> QED BY <2>1, <2>4, <2>5, <2>6, <2>7
<1>2. PICK X : X = DayRuns(v)
  OBVIOUS
<1>3. ASSUME NEW x \in X
      PROVE  \E d \in 1..Days, a, b \in Period :
                 /\ a = Min({s \in Period : Local[s].day = d}) /\ b = Max({s \in Period : Local[s].day = d})
                 /\ x = <<a, b>> /\ a <= b /\ \A s \in Period : s \in a..b <=> Local[s].day = d
  <2>1. PICK slots \in DaysLeft(v) : x = <<Min(slots), Max(slots)>>
    BY <1>2 DEF DayRuns
  <2>2. PICK d \in 1..Days, a \in Period, b \in Period :
            /\ slots = {s \in Period : Local[s].day = d} /\ a = Min(slots) /\ b = Max(slots)
            /\ a <= b /\ \A s \in Period : s \in a..b <=> Local[s].day = d
    BY <1>1
  <2>3. /\ a = Min({s \in Period : Local[s].day = d}) /\ b = Max({s \in Period : Local[s].day = d})
        /\ x = <<a, b>>
    BY <2>1, <2>2
  <2> QED BY <2>2, <2>3
<1>4. X \subseteq Period \X Period /\ \A x \in X : x[1] <= x[2]
  <2> SUFFICES ASSUME NEW x \in X PROVE x \in Period \X Period /\ x[1] <= x[2]
    OBVIOUS
  <2>1. PICK a \in Period, b \in Period : x = <<a, b>> /\ a <= b
    BY <1>3
  <2> QED BY <2>1
<1>5. ASSUME NEW x \in X, NEW y \in X, x # y PROVE (x[1]..x[2]) \cap (y[1]..y[2]) = {}
  <2> SUFFICES ASSUME NEW s \in (x[1]..x[2]) \cap (y[1]..y[2]) PROVE FALSE
    OBVIOUS
  <2>1. PICK d \in 1..Days, a \in Period, b \in Period :
            /\ a = Min({r \in Period : Local[r].day = d}) /\ b = Max({r \in Period : Local[r].day = d})
            /\ x = <<a, b>> /\ \A r \in Period : r \in a..b <=> Local[r].day = d
    BY <1>3
  <2>2. PICK e \in 1..Days, f \in Period, g \in Period :
            /\ f = Min({r \in Period : Local[r].day = e}) /\ g = Max({r \in Period : Local[r].day = e})
            /\ y = <<f, g>> /\ \A r \in Period : r \in f..g <=> Local[r].day = e
    BY <1>3
  <2>3. s \in a..b /\ s \in f..g
    BY <2>1, <2>2
  <2>4. s \in Period
    BY <2>3, PeriodIs
  <2>5. d = e
    BY <2>1, <2>2, <2>3, <2>4
  <2> QED BY <1>5, <2>1, <2>2, <2>5
<1>6. ASSUME NEW s \in Period, v[s] > 0 PROVE \E x \in X : s \in x[1]..x[2]
  <2>1. PICK d \in 1..Days : d = Local[s].day
    BY DaysAre
  <2>2. PICK slots : slots = {r \in Period : Local[r].day = d}
    OBVIOUS
  <2>3. s \in slots /\ slots \in DaysLeft(v)
    BY <1>6, <2>1, <2>2 DEF DaysLeft
  <2>4. PICK a \in Period, b \in Period : /\ a = Min(slots) /\ b = Max(slots)
                                          /\ \E e \in 1..Days : /\ slots = {r \in Period : Local[r].day = e}
                                                                /\ \A r \in Period : r \in a..b <=> Local[r].day = e
    BY <1>1, <2>3
  <2>5. s \in a..b
    BY <2>3, <2>4
  <2>6. <<a, b>> \in X
    BY <1>2, <2>3, <2>4 DEF DayRuns
  <2> QED BY <2>5, <2>6
<1>7. AreRuns(v, X)
  BY <1>4, <1>5, <1>6 DEF AreRuns
<1> QED BY <1>2, <1>7

\* What the last step adds of a device, with the devices after it.
LEMMA PartOfConstant ==
    ASSUME GeneratorInv, MeterTyped, NEW d \in ConstantUsers, made'[d] = Catalogue[d],
           DOMAIN made' = DOMAIN made, NEW S, S = Part(d, filled[d], FilledRuns(d))
    PROVE  /\ IsFiniteSet(S) /\ NoOverlap(S) /\ \A a \in S : Made(a)' /\ Shaped(a) /\ a.device = d
           /\ \A s \in Period : UsedAt(S, s) = filled[d][s]
<1>1. PICK X : X = FilledRuns(d)
  OBVIOUS
<1>2. PICK v \in [Period -> Nat] : v = filled[d]
  BY DEF MeterTyped
<1>3. PICK device : device = Catalogue[d]
  OBVIOUS
<1>4. AreRuns(v, X) /\ (X # {} => d \in DOMAIN made)
  BY <1>1, <1>2, FilledRunsAre
<1>5. d \in DOMAIN Catalogue /\ d \in WithProfiles /\ d # "pv" /\ d # "ev"
  BY CatalogueAssumption DEF WithProfiles, ConstantUsers
<1>6. TakesValues(device, v)
  <2>1. /\ DOMAIN device.programs = {} /\ device.producer = FALSE /\ device.type # "ev_charger"
        /\ device.power \in Nat
    BY <1>3, <1>5, CatalogueIs
  <2>2. \A s \in Period : v[s] <= device.power
    BY <1>2, <1>3 DEF MeterTyped
  <2> QED BY <2>1, <2>2 DEF TakesValues
<1>7. S = Part(d, v, X)
  BY <1>1, <1>2
<1>8. /\ IsFiniteSet(S) /\ NoOverlap(S) /\ \A a \in S : Shaped(a) /\ a.device = d /\ RightFor(a, device)
      /\ \A s \in Period : UsedAt(S, s) = v[s]
  BY <1>4, <1>5, <1>6, <1>7, PartIs
<1>9. \A a \in S : d \in DOMAIN made
  BY <1>4, <1>7 DEF Part
<1>10. ASSUME NEW a \in S PROVE Made(a)'
  BY <1>3, <1>8, <1>9 DEF Made
<1> QED BY <1>2, <1>8, <1>10

LEMMA PartOfNone ==
    ASSUME MeterTyped, NEW d \in ConstantUsers, d \notin DOMAIN made,
           NEW S, S = Part(d, filled[d], FilledRuns(d))
    PROVE  /\ IsFiniteSet(S) /\ NoOverlap(S) /\ S = {}
           /\ \A s \in Period : UsedAt(S, s) = filled[d][s]
<1>1. FilledRuns(d) = {}
  BY FilledRunsAre
<1>2. S = {}
  BY <1>1 DEF Part
<1>3. IsFiniteSet(S) /\ NoOverlap(S)
  BY <1>2, FS_EmptySet DEF NoOverlap
<1>4. ASSUME NEW s \in Period PROVE UsedAt(S, s) = filled[d][s]
  <2>1. filled[d][s] \in Nat /\ ~(filled[d][s] > 0)
    BY DEF MeterTyped
  <2>2. filled[d][s] = 0
    BY <2>1
  <2>3. UsedAt(S, s) = 0
    <3>1. PICK f : f = [a \in S |-> UseIn(a, s)]
      OBVIOUS
    <3>2. SumOver(f, {}) = 0
      BY SumOfNone
    <3> QED BY <1>2, <3>1, <3>2 DEF UsedAt
  <2> QED BY <2>2, <2>3
<1> QED BY <1>2, <1>3, <1>4

LEMMA PartOfRest ==
    ASSUME MeterTyped, NEW device, device = made'[Other], IsRest(device), DOMAIN made' = DOMAIN made,
           \A s \in Period : remaining[s] <= device.power, NEW S, S = Part(Other, remaining, DayRuns(remaining))
    PROVE  /\ IsFiniteSet(S) /\ NoOverlap(S) /\ \A a \in S : Made(a)' /\ Shaped(a) /\ a.device = Other
           /\ \A s \in Period : UsedAt(S, s) = remaining[s]
<1>1. PICK v \in [Period -> Nat] : v = remaining
  BY DEF MeterTyped
<1>2. PICK X : X = DayRuns(v) /\ AreRuns(v, X)
  BY DayRunsAre
<1>3. Other \in DOMAIN Catalogue /\ Other # "pv" /\ Other # "ev"
  BY CatalogueAssumption DEF WithProfiles
<1>4. TakesValues(device, v)
  <2>1. /\ DOMAIN device.programs = {} /\ device.producer = FALSE /\ device.type # "ev_charger"
        /\ device.power \in Nat
    BY <1>3, CatalogueIs DEF IsRest
  <2> QED BY <1>1, <2>1 DEF TakesValues
<1>5. S = Part(Other, v, X)
  BY <1>1, <1>2
<1>6. /\ IsFiniteSet(S) /\ NoOverlap(S) /\ \A a \in S : Shaped(a) /\ a.device = Other /\ RightFor(a, device)
      /\ \A s \in Period : UsedAt(S, s) = v[s]
  BY <1>2, <1>3, <1>4, <1>5, PartIs
<1>7. ASSUME NEW a \in S PROVE Made(a)'
  BY <1>6 DEF Made, MeterTyped
<1> QED BY <1>1, <1>6, <1>7

LEMMA NoOverlapOfUnion ==
    ASSUME NEW S, NEW T, NoOverlap(S), NoOverlap(T), \A a \in S, b \in T : a.device # b.device
    PROVE  NoOverlap(S \cup T) /\ S \cap T = {}
BY DEF NoOverlap

\* What the last step adds.
LEMMA FinishAdds ==
    ASSUME Finish, meter # None, MeterTyped
    PROVE  /\ actions' = ((actions \cup Part("fridge", filled["fridge"], FilledRuns("fridge")))
                          \cup Part("light", filled["light"], FilledRuns("light")))
                         \cup Part(Other, remaining, DayRuns(remaining))
           /\ made' = [made EXCEPT ![Other].power = Max({remaining[s] : s \in Period} \cup {1})]
           /\ remaining' = [s \in Period |-> 0]
           /\ job = Len(Jobs) + 1 /\ job' = job + 1 /\ UNCHANGED <<meter, washEnd, filled>>
<1> DEFINE runs(d) == {New(d, None, x[1], Values(filled[d], x[1], x[2]),
                           Values(filled[d], x[1], x[2]), None, None) : x \in FilledRuns(d)}
           constant == UNION {runs(d) : d \in DOMAIN filled}
           rest == {New(Other, None, Min(slots), Values(remaining, Min(slots), Max(slots)),
                        Values(remaining, Min(slots), Max(slots)), None, None) : slots \in DaysLeft(remaining)}
<1>1. /\ actions' = actions \cup constant \cup rest
      /\ made' = [made EXCEPT ![Other].power = Max({remaining[s] : s \in Period} \cup {1})]
      /\ remaining' = [s \in Period |-> 0]
      /\ job = Len(Jobs) + 1 /\ job' = job + 1 /\ UNCHANGED <<meter, washEnd, filled>>
  BY DEF Finish, DaysLeft
<1>2. \A d : runs(d) = Part(d, filled[d], FilledRuns(d))
  BY DEF Part, RunOf
<1>3. DOMAIN filled = {"fridge", "light"}
  BY DEF MeterTyped, ConstantUsers
<1> HIDE DEF runs
<1>4. constant = runs("fridge") \cup runs("light")
  BY <1>3
<1>5. rest = Part(Other, remaining, DayRuns(remaining))
  <2>1. \A slots : New(Other, None, Min(slots), Values(remaining, Min(slots), Max(slots)),
                       Values(remaining, Min(slots), Max(slots)), None, None)
                   = RunOf(Other, remaining, <<Min(slots), Max(slots)>>)
    BY DEF RunOf
  <2>2. rest = {RunOf(Other, remaining, <<Min(slots), Max(slots)>>) : slots \in DaysLeft(remaining)}
    BY <2>1
  <2>3. Part(Other, remaining, DayRuns(remaining))
        = {RunOf(Other, remaining, <<Min(slots), Max(slots)>>) : slots \in DaysLeft(remaining)}
    BY DEF Part, DayRuns
  <2> QED BY <2>2, <2>3
<1> HIDE DEF constant, rest
<1>6. actions' = actions \cup constant \cup rest
  BY <1>1
<1> QED BY <1>1, <1>2, <1>4, <1>5, <1>6

\* The device of the rest has the power that the rest asks for.
LEMMA FinishedDevices ==
    ASSUME GeneratorInv, MeterTyped, NEW M, M = Max({remaining[s] : s \in Period} \cup {1}),
           made' = [made EXCEPT ![Other].power = M]
    PROVE  /\ DOMAIN made' = DOMAIN made /\ \A d \in DOMAIN made : d # Other => made'[d] = made[d]
           /\ IsRest(made'[Other]) /\ \A s \in Period : remaining[s] <= made'[Other].power
<1>1. PICK r \in [Period -> Nat] : r = remaining
  BY DEF MeterTyped
<1>2. PICK T : T = {r[s] : s \in Period}
  OBVIOUS
<1>3. IsFiniteSet(T) /\ T \subseteq Nat
  BY <1>2, PeriodIs, ImageIsFinite
<1>4. IsFiniteSet(T \cup {1})
  BY <1>3, FS_AddElement
<1>5. M \in T \cup {1} /\ \A x \in T \cup {1} : x <= M
  <2>1. T \cup {1} # {} /\ T \cup {1} \subseteq Int
    BY <1>3
  <2>2. Max(T \cup {1}) \in T \cup {1} /\ \A x \in T \cup {1} : x <= Max(T \cup {1})
    BY <1>4, <2>1, MaxIs
  <2>3. M = Max(T \cup {1})
    BY <1>1, <1>2
  <2> QED BY <2>2, <2>3
<1>6. M \in Nat \ {0} /\ \A s \in Period : remaining[s] <= M
  BY <1>1, <1>2, <1>3, <1>5
<1>7. Other \in DOMAIN made /\ IsRest(made[Other])
  BY DEF GeneratorInv, Devices, MeterTyped
<1>8. made'[Other] = [made[Other] EXCEPT !.power = M] /\ DOMAIN made' = DOMAIN made
      /\ \A d \in DOMAIN made : d # Other => made'[d] = made[d]
  BY <1>7
<1>9. PICK old : old = made[Other]
  OBVIOUS
<1>10. PICK new : new = [old EXCEPT !.power = M]
  OBVIOUS
<1>11. DOMAIN old = {"type", "producer", "mode", "power", "window", "shift", "programs"}
  <2>1. Other \in DOMAIN Catalogue
    BY CatalogueAssumption
  <2>2. PICK device : device = Catalogue[Other]
    OBVIOUS
  <2>3. DOMAIN device = {"type", "producer", "mode", "power", "window", "shift", "programs"}
    BY <2>1, <2>2, CatalogueAssumption
  <2> QED BY <1>7, <1>9, <2>2, <2>3 DEF IsRest
<1>12. /\ DOMAIN new = DOMAIN old /\ new.power = M /\ new.type = old.type /\ new.producer = old.producer
       /\ new.mode = old.mode /\ new.window = old.window /\ new.shift = old.shift
       /\ new.programs = old.programs
  BY <1>10, <1>11
<1>13. IsRest(new)
  BY <1>6, <1>7, <1>9, <1>12 DEF IsRest
<1>14. made'[Other] = new
  BY <1>8, <1>9, <1>10
<1>15. IsRest(made'[Other])
  BY <1>13, <1>14
<1>16. \A s \in Period : remaining[s] <= made'[Other].power
  BY <1>6, <1>12, <1>14
<1> QED BY <1>8, <1>15, <1>16

LEMMA FinishInv == GeneratorInv /\ Finish => GeneratorInv'
<1> SUFFICES ASSUME GeneratorInv, Finish PROVE GeneratorInv'
  OBVIOUS
<1>1. /\ job = Len(Jobs) + 1 /\ job' = job + 1 /\ meter' = meter /\ washEnd' = washEnd /\ filled' = filled
      /\ meter = None => UNCHANGED <<actions, remaining, made>>
  BY DEF Finish
<1>2. Open /\ ~Open' /\ Jobs' = Jobs /\ job' \in 1..(Len(Jobs') + 2)
  <2>1. Jobs' = Jobs
    BY <1>1, JobsStay
  <2> QED BY <1>1, <2>1, JobsAre DEF Open
<1>3. CASE meter = None
  <2>1. UNCHANGED <<actions, made>> /\ meter' = None
    BY <1>1, <1>3
  <2>2. \A a : Made(a) => Made(a)'
    BY <2>1 DEF Made
  <2>3. MadeActionsInv'
    BY <2>1, <2>2 DEF GeneratorInv, MadeActionsInv
  <2>4. Devices'
    BY <2>1 DEF GeneratorInv, Devices
  <2>5. HouseInv'
    BY <1>3, <2>1 DEF GeneratorInv, HouseInv
  <2>6. MeterInv'
    BY <2>1 DEF MeterInv
  <2> QED BY <1>1, <1>2, <2>3, <2>4, <2>5, <2>6 DEF GeneratorInv
<1>4. CASE meter # None
  <2>1. MeterTyped /\ \A a \in actions : a.device \notin ConstantUsers \cup {Other}
    BY <1>2, <1>4 DEF GeneratorInv, MeterInv, MeterTyped
  <2>2. PICK F : F = Part("fridge", filled["fridge"], FilledRuns("fridge"))
    OBVIOUS
  <2>3. PICK L : L = Part("light", filled["light"], FilledRuns("light"))
    OBVIOUS
  <2>4. PICK R : R = Part(Other, remaining, DayRuns(remaining))
    OBVIOUS
  <2>5. PICK M : M = Max({remaining[s] : s \in Period} \cup {1})
    OBVIOUS
  <2>6. /\ actions' = ((actions \cup F) \cup L) \cup R /\ made' = [made EXCEPT ![Other].power = M]
        /\ remaining' = [s \in Period |-> 0]
    BY <1>4, <2>1, <2>2, <2>3, <2>4, <2>5, FinishAdds
  <2>7. /\ DOMAIN made' = DOMAIN made /\ \A d \in DOMAIN made : d # Other => made'[d] = made[d]
        /\ IsRest(made'[Other]) /\ \A s \in Period : remaining[s] <= made'[Other].power
    BY <2>1, <2>5, <2>6, FinishedDevices
  <2>8. "fridge" # Other /\ "light" # Other /\ "fridge" \in ConstantUsers /\ "light" \in ConstantUsers
    BY CatalogueAssumption DEF WithProfiles, ConstantUsers
  <2>9. Devices'
    BY <2>7 DEF GeneratorInv, Devices
  <2>10. /\ IsFiniteSet(F) /\ NoOverlap(F) /\ \A a \in F : Made(a)' /\ Shaped(a) /\ a.device = "fridge"
         /\ \A s \in Period : UsedAt(F, s) = filled["fridge"][s]
    <3>1. CASE "fridge" \in DOMAIN made
      <4>1. made'["fridge"] = Catalogue["fridge"]
        BY <2>7, <2>8, <3>1 DEF GeneratorInv, Devices
      <4> QED BY <2>1, <2>2, <2>7, <2>8, <4>1, PartOfConstant
    <3>2. CASE "fridge" \notin DOMAIN made
      BY <2>1, <2>2, <2>8, <3>2, PartOfNone
    <3> QED BY <3>1, <3>2
  <2>11. /\ IsFiniteSet(L) /\ NoOverlap(L) /\ \A a \in L : Made(a)' /\ Shaped(a) /\ a.device = "light"
         /\ \A s \in Period : UsedAt(L, s) = filled["light"][s]
    <3>1. CASE "light" \in DOMAIN made
      <4>1. made'["light"] = Catalogue["light"]
        BY <2>7, <2>8, <3>1 DEF GeneratorInv, Devices
      <4> QED BY <2>1, <2>3, <2>7, <2>8, <4>1, PartOfConstant
    <3>2. CASE "light" \notin DOMAIN made
      BY <2>1, <2>3, <2>8, <3>2, PartOfNone
    <3> QED BY <3>1, <3>2
  <2>12. /\ IsFiniteSet(R) /\ NoOverlap(R) /\ \A a \in R : Made(a)' /\ Shaped(a) /\ a.device = Other
         /\ \A s \in Period : UsedAt(R, s) = remaining[s]
    <3>1. PICK device : device = made'[Other]
      OBVIOUS
    <3> QED BY <2>1, <2>4, <2>7, <3>1, PartOfRest
  <2>13. /\ IsFiniteSet(actions) /\ NoOverlap(actions)
         /\ \A a \in actions : Shaped(a) /\ a.device \notin {"fridge", "light", Other}
    BY <2>1 DEF GeneratorInv, MadeActionsInv, Made, ConstantUsers
  <2>14. \A a \in actions : Made(a)'
    <3> SUFFICES ASSUME NEW a \in actions PROVE Made(a)'
      OBVIOUS
    <3>1. Made(a)
      BY DEF GeneratorInv, MadeActionsInv
    <3>2. a.device \in DOMAIN made' /\ made'[a.device] = made[a.device]
      BY <2>7, <2>13, <3>1 DEF Made
    <3> QED BY <3>1, <3>2 DEF Made
  <2>15. PICK A : A = actions \cup F
    OBVIOUS
  <2>16. PICK B : B = A \cup L
    OBVIOUS
  <2>17. /\ NoOverlap(A) /\ actions \cap F = {} /\ IsFiniteSet(A)
         /\ \A a \in A : Shaped(a) /\ a.device \notin {"light", Other}
    <3>1. NoOverlap(actions \cup F) /\ actions \cap F = {}
      BY <2>10, <2>13, NoOverlapOfUnion
    <3>2. IsFiniteSet(actions \cup F)
      BY <2>10, <2>13, FS_Union
    <3> QED BY <2>8, <2>10, <2>13, <2>15, <3>1, <3>2
  <2>18. NoOverlap(B) /\ A \cap L = {} /\ IsFiniteSet(B) /\ \A a \in B : Shaped(a) /\ a.device # Other
    <3>1. NoOverlap(A \cup L) /\ A \cap L = {}
      BY <2>11, <2>17, NoOverlapOfUnion
    <3>2. IsFiniteSet(A \cup L)
      BY <2>11, <2>17, FS_Union
    <3> QED BY <2>8, <2>11, <2>16, <2>17, <3>1, <3>2
  <2>19. NoOverlap(B \cup R) /\ B \cap R = {} /\ IsFiniteSet(B \cup R)
    <3>1. NoOverlap(B \cup R) /\ B \cap R = {}
      BY <2>12, <2>18, NoOverlapOfUnion
    <3>2. IsFiniteSet(B \cup R)
      BY <2>12, <2>18, FS_Union
    <3> QED BY <3>1, <3>2
  <2>20. actions' = B \cup R /\ \A a \in B \cup R : Made(a)'
    BY <2>6, <2>10, <2>11, <2>12, <2>14, <2>15, <2>16
  <2>21. MadeActionsInv'
    BY <2>19, <2>20 DEF MadeActionsInv
  <2>22. ASSUME NEW s \in Period PROVE UsedAt(actions', s) = meter[s]
    <3>1. PICK f \in Nat, l \in Nat, r \in Nat : f = filled["fridge"][s] /\ l = filled["light"][s] /\ r = remaining[s]
      BY <2>1 DEF MeterTyped, ConstantUsers
    <3>2. UsedAt(A, s) = UsedAt(actions, s) + UsedAt(F, s) /\ UsedAt(actions, s) \in Int
      <4>1. \A a \in actions \cup F : Shaped(a)
        BY <2>10, <2>13
      <4>2. IsFiniteSet(actions) /\ IsFiniteSet(F) /\ actions \cap F = {}
        BY <2>10, <2>13, <2>17
      <4>3. UsedAt(actions \cup F, s) = UsedAt(actions, s) + UsedAt(F, s) /\ UsedAt(actions, s) \in Int
        BY <4>1, <4>2, UsedOfUnion
      <4> QED BY <2>15, <4>3
    <3>3. UsedAt(B, s) = UsedAt(A, s) + UsedAt(L, s)
      BY <2>11, <2>16, <2>17, <2>18, UsedOfUnion
    <3>4. UsedAt(B \cup R, s) = UsedAt(B, s) + UsedAt(R, s)
      BY <2>12, <2>18, <2>19, UsedOfUnion
    <3>5. PICK u \in Int : u = UsedAt(actions, s)
      BY <3>2
    <3>6. u + (f + l + r) = meter[s]
      BY <1>2, <1>4, <3>1, <3>5 DEF GeneratorInv, MeterInv, Shared
    <3>7. UsedAt(F, s) = f /\ UsedAt(L, s) = l /\ UsedAt(R, s) = r
      BY <2>10, <2>11, <2>12, <3>1
    <3> QED BY <2>20, <3>2, <3>3, <3>4, <3>5, <3>6, <3>7
  <2>23. MeterTyped'
    <3>1. remaining' \in [Period -> Nat] /\ Other \in DOMAIN made' /\ meter' \in [Period -> Nat]
          /\ filled' \in [ConstantUsers -> [Period -> Nat]]
      BY <1>1, <2>1, <2>6, <2>7 DEF MeterTyped
    <3>2. \A d \in ConstantUsers, s \in Period :
              filled'[d][s] <= Catalogue[d].power /\ (filled'[d][s] > 0 => d \in DOMAIN made')
      BY <1>1, <2>1, <2>7 DEF MeterTyped
    <3> QED BY <1>2, <3>1, <3>2 DEF MeterTyped
  <2>24. \A s \in Period : UsedAt(actions', s) + 0 = meter'[s]
    <3> SUFFICES ASSUME NEW s \in Period PROVE UsedAt(actions', s) + 0 = meter'[s]
      OBVIOUS
    <3>1. meter[s] \in Nat
      BY <2>1 DEF MeterTyped
    <3> QED BY <1>1, <2>22, <3>1
  <2>25. MeterInv' /\ HouseInv'
    BY <1>1, <1>2, <1>4, <2>23, <2>24 DEF MeterInv, HouseInv
  <2> QED BY <1>1, <1>2, <2>9, <2>21, <2>25 DEF GeneratorInv
<1> QED BY <1>3, <1>4

\* The generator starts and goes on with what it keeps.
LEMMA GeneratorInitInv == GeneratorInit => GeneratorInv
<1> SUFFICES ASSUME GeneratorInit PROVE GeneratorInv
  OBVIOUS
<1>1. PICK full \in BOOLEAN, pv \in BOOLEAN :
          made = [d \in (DOMAIN Catalogue \ ((IF full THEN {} ELSE FullOnly)
                                             \cup (IF pv THEN {} ELSE {"pv"})
                                             \cup (IF meter = None THEN {Other} ELSE {})))
                    |-> Catalogue[d]]
  BY DEF GeneratorInit
<1>2. /\ job = 1 /\ washEnd = None /\ actions = {} /\ meter \in {None} \cup Meters
      /\ remaining = IF meter = None THEN [s \in Period |-> 0] ELSE meter
      /\ filled = [d \in {"fridge", "light"} |-> [s \in Period |-> 0]]
  BY DEF GeneratorInit
<1>3. /\ DOMAIN made \subseteq DOMAIN Catalogue /\ \A d \in DOMAIN made : made[d] = Catalogue[d]
      /\ meter # None => Other \in DOMAIN made
  BY <1>1, CatalogueAssumption DEF WithProfiles, FullOnly
<1>4. Devices
  <2>1. ASSUME NEW device, device = Catalogue[Other] PROVE IsRest(device)
    <3>1. Other \in DOMAIN Catalogue /\ Other \in WithProfiles \cup {Other}
      BY CatalogueAssumption
    <3>2. Catalogue[Other].power \in Nat \ {0}
      BY <3>1, CatalogueIs
    <3> QED BY <2>1, <3>2 DEF IsRest
  <2> QED BY <1>3, <2>1 DEF Devices
<1>5. MadeActionsInv
  BY <1>2, FS_EmptySet DEF MadeActionsInv, NoOverlap
<1>6. \A s : UsedAt({}, s) = 0 /\ LoadAt({}, s) = 0
  <2> TAKE s
  <2>1. PICK f : f = [a \in {} |-> UseIn(a, s)]
    OBVIOUS
  <2>2. PICK g : g = [a \in {} |-> LoadOf(a, s)]
    OBVIOUS
  <2>3. SumOver(f, {}) = 0 /\ SumOver(g, {}) = 0
    BY SumOfNone
  <2> QED BY <2>1, <2>2, <2>3 DEF UsedAt, LoadAt
<1>7. HouseInv
  BY <1>2, <1>6, GeneratorAssumption DEF HouseInv
<1>8. Open /\ job \in 1..(Len(Jobs) + 2)
  BY <1>2, JobsAre DEF Open
<1>9. ASSUME meter # None PROVE MeterInv
  <2>1. meter \in [Period -> Nat] /\ remaining = meter
    BY <1>2, <1>9, GeneratorAssumption
  <2>2. filled \in [ConstantUsers -> [Period -> Nat]] /\ \A d \in ConstantUsers, s \in Period : filled[d][s] = 0
    BY <1>2 DEF ConstantUsers
  <2>3. \A d \in ConstantUsers : Catalogue[d].power \in Nat \ {0}
    <3> SUFFICES ASSUME NEW d \in ConstantUsers PROVE Catalogue[d].power \in Nat \ {0}
      OBVIOUS
    <3>1. d \in DOMAIN Catalogue /\ d \in WithProfiles \cup {Other}
      BY CatalogueAssumption DEF WithProfiles, ConstantUsers
    <3> QED BY <3>1, CatalogueIs
  <2>4. \A d \in ConstantUsers, s \in Period : filled[d][s] <= Catalogue[d].power /\ ~(filled[d][s] > 0)
    BY <2>2, <2>3
  <2>5. MeterTyped
    BY <1>2, <1>3, <1>9, <2>1, <2>2, <2>4 DEF MeterTyped
  <2>6. ASSUME NEW s \in Period PROVE UsedAt(actions, s) + Shared(s) = meter[s]
    <3>1. PICK m \in Nat : m = meter[s] /\ m = remaining[s]
      BY <2>1
    <3>2. filled["fridge"][s] = 0 /\ filled["light"][s] = 0 /\ UsedAt(actions, s) = 0
      BY <1>2, <1>6
    <3> QED BY <3>1, <3>2 DEF Shared
  <2> QED BY <1>8, <2>5, <2>6 DEF MeterInv
<1>10. MeterInv
  BY <1>9 DEF MeterInv
<1> QED BY <1>2, <1>4, <1>5, <1>7, <1>8, <1>10 DEF GeneratorInv

LEMMA GeneratorNextInv == GeneratorInv /\ GeneratorNext => GeneratorInv'
BY AlwaysOnInv, AppliancesInv, WashInv, DryerInv, DishesInv, HeatPumpInv, EvInv, PvInv,
   MeterAlwaysOnInv, MeterWashInv, MeterDryerInv, MeterDishesInv, MeterEvInv,
   MeterHeatPumpInv, MeterFillInv, MeterSpikesInv, FinishInv DEF GeneratorNext

LEMMA GeneratorStays == GeneratorInv /\ UNCHANGED generatorVars => GeneratorInv'
<1> SUFFICES ASSUME GeneratorInv, UNCHANGED generatorVars PROVE GeneratorInv'
  OBVIOUS
<1>1. /\ meter' = meter /\ made' = made /\ job' = job /\ washEnd' = washEnd
      /\ remaining' = remaining /\ filled' = filled /\ actions' = actions
  BY DEF generatorVars
<1>2. Jobs' = Jobs /\ (Open' <=> Open)
  BY <1>1, JobsStay DEF Open
<1>3. \A a : Made(a)' <=> Made(a)
  BY <1>1 DEF Made
<1>4. MadeActionsInv'
  BY <1>1, <1>3 DEF GeneratorInv, MadeActionsInv
<1>5. Devices'
  BY <1>1 DEF GeneratorInv, Devices
<1>6. HouseInv'
  BY <1>1 DEF GeneratorInv, HouseInv
<1>7. MeterTyped' <=> MeterTyped
  BY <1>1, <1>2 DEF MeterTyped
<1>8. \A s : Shared(s)' = Shared(s)
  BY <1>1 DEF Shared
<1>9. MeterInv'
  BY <1>1, <1>2, <1>7, <1>8 DEF GeneratorInv, MeterInv
<1> QED BY <1>1, <1>2, <1>4, <1>5, <1>6, <1>9 DEF GeneratorInv

-----------------------------------------------------------------------------
(* The file that is written: the actions in order, each on a line.         *)

Nth(S, n) == CHOOSE x \in S : Cardinality({y \in S : Earlier(y, x)}) = n - 1
Line(i, a) ==
    [id |-> i, device |-> a.device, program |-> a.program, start |-> a.start, end |-> a.end,
     energy |-> a.energy, profile |-> a.profile, plugged |-> a.plugged, deadline |-> a.deadline]

LEMMA DocumentIs ==
    BuildDocument = [devices |-> made,
                     actions |-> [i \in 1..Cardinality(actions) |-> Line(i, Nth(actions, i))]]
<1> DEFINE inOrder == Ordered(actions, Earlier)
<1>1. inOrder = [n \in 1..Cardinality(actions) |-> Nth(actions, n)]
  BY DEF Ordered, Nth
<1>2. BuildDocument = [devices |-> made, actions |-> [i \in DOMAIN inOrder |-> Line(i, inOrder[i])]]
  BY Zenon DEF BuildDocument, Line
<1> HIDE DEF inOrder
<1>3. DOMAIN inOrder = 1..Cardinality(actions) /\ \A i \in DOMAIN inOrder : inOrder[i] = Nth(actions, i)
  BY <1>1
<1> QED BY <1>2, <1>3

\* Every action has its line, and no two share one.
LEMMA ActionsHaveLines ==
    ASSUME NEW S, IsFiniteSet(S), NoOverlap(S), \A a \in S : Shaped(a), NEW N, N = Cardinality(S)
    PROVE  /\ N \in Nat /\ \A n \in 1..N : Nth(S, n) \in S
           /\ \A m, n \in 1..N : Nth(S, m) = Nth(S, n) => m = n
           /\ \A a \in S : \E n \in 1..N : a = Nth(S, n)
<1> DEFINE R == {p \in S \X S : Earlier(p[1], p[2])}
<1>1. ASSUME NEW a \in S
      PROVE  a.start \in Int /\ a.start \in Slots(a) /\ a.device \in DOMAIN Rank /\ Rank[a.device] \in Int
  <2>1. Shaped(a)
    OBVIOUS
  <2>2. a.start \in Int /\ a.start \in Slots(a)
    BY <2>1, ShapeIs
  <2>3. a.device \in DOMAIN Rank
    BY <2>1, CatalogueAssumption DEF Shaped, MadeActions
  <2> QED BY <2>2, <2>3, DeviceFileAssumption
<1>2. ASSUME NEW a \in S, NEW b \in S, a # b PROVE Earlier(a, b) \/ Earlier(b, a)
  <2>1. a.start = b.start => a.device # b.device
    BY <1>1, <1>2 DEF NoOverlap
  <2>2. a.start = b.start => Rank[a.device] # Rank[b.device]
    BY <1>1, <2>1, DeviceFileAssumption
  <2> QED BY <1>1, <2>2 DEF Earlier
<1>3. ASSUME NEW a \in S PROVE ~Earlier(a, a)
  BY <1>1 DEF Earlier
<1>4. ASSUME NEW a \in S, NEW b \in S, NEW c \in S, Earlier(a, b), Earlier(b, c) PROVE Earlier(a, c)
  <2>1. /\ a.start \in Int /\ b.start \in Int /\ c.start \in Int
        /\ Rank[a.device] \in Int /\ Rank[b.device] \in Int /\ Rank[c.device] \in Int
    BY <1>1
  <2> QED BY <1>4, <2>1 DEF Earlier
<1>5. \A x, y \in S : <<x, y>> \in R <=> Earlier(x, y)
  OBVIOUS
<1>6. StrictOrder(R, S)
  <2> HIDE DEF R
  <2> QED BY <1>2, <1>3, <1>4, <1>5 DEF StrictOrder
<1>7. N \in Nat
  BY FS_CardinalityType
<1>8. ASSUME NEW n \in 1..N
      PROVE  Nth(S, n) \in S /\ Cardinality({y \in S : Earlier(y, Nth(S, n))}) = n - 1
  <2>1. PICK x \in S : Cardinality({y \in S : <<y, x>> \in R}) = n - 1
    <3> HIDE DEF R
    <3> QED BY <1>6, PlacesAreTaken
  <2>2. {y \in S : <<y, x>> \in R} = {y \in S : Earlier(y, x)}
    BY <1>5
  <2> DEFINE IsNth(z) == Cardinality({y \in S : Earlier(y, z)}) = n - 1
  <2>3. Nth(S, n) = CHOOSE z \in S : IsNth(z)
    BY DEF Nth
  <2>4. IsNth(x)
    BY <2>1, <2>2
  <2>5. Nth(S, n) \in S /\ IsNth(Nth(S, n))
    <3> HIDE DEF IsNth
    <3> QED BY <2>3, <2>4
  <2> QED BY <2>5
<1>9. \A m, n \in 1..N : Nth(S, m) = Nth(S, n) => m = n
  <2> SUFFICES ASSUME NEW m \in 1..N, NEW n \in 1..N, Nth(S, m) = Nth(S, n) PROVE m = n
    OBVIOUS
  <2>1. m - 1 = n - 1
    BY <1>8
  <2> QED BY <1>7, <2>1
<1>10. \A a \in S : \E n \in 1..N : a = Nth(S, n)
  <2> DEFINE T == 1..N
             place == [n \in T |-> Nth(S, n)]
  <2>1. IsFiniteSet(T) /\ Cardinality(T) = N
    <3>1. N \in Int /\ IsFiniteSet(1..N)
      BY <1>7, FS_Interval
    <3>2. 1 \in Int /\ N \in Int
      BY <1>7
    <3>3. Cardinality(1..N) = IF 1 > N THEN 0 ELSE N - 1 + 1
      BY <3>2, FS_Interval
    <3> QED BY <1>7, <3>1, <3>3
  <2>2. place \in [T -> S] /\ \A m, n \in T : place[m] = place[n] => m = n
    BY <1>8, <1>9
  <2> HIDE DEF place, T
  <2>3. place \in Injection(T, S)
    BY <2>2 DEF Injection, IsInjective
  <2>4. place \in Surjection(T, S)
    BY <2>1, <2>3, FS_Injection
  <2> QED BY <2>4 DEF Surjection, place, T
<1> QED BY <1>7, <1>8, <1>9, <1>10

\* A line says what its action is.
LEMMA LineIs ==
    ASSUME Devices, NEW i \in Nat, NEW a, Made(a), NEW l, l = Line(i, a)
    PROVE  /\ l.id = i /\ l.device = a.device /\ l.start = a.start /\ l.end = a.end
           /\ Slots(l) = Slots(a) /\ l \in ActionsOfSchema
           /\ l.device \in DOMAIN made /\ 1 <= l.start /\ l.start < l.end /\ l.end <= PeriodSlots + 1
           /\ ActionProfile(l, made[l.device]) = a.use /\ Len(a.use) = l.end - l.start
           /\ ProgramFits(l, made[l.device]) /\ ActionIsRight(l, made[l.device])
<1>1. /\ l.id = i /\ l.device = a.device /\ l.program = a.program /\ l.start = a.start /\ l.end = a.end
      /\ l.energy = a.energy /\ l.profile = a.profile /\ l.plugged = a.plugged /\ l.deadline = a.deadline
  BY DEF Line
<1>2. Slots(l) = Slots(a)
  BY <1>1 DEF Slots
<1>3. a.device \in DOMAIN Catalogue /\ ProgramFits(a, made[a.device])
  BY DEF Made, Shaped, MadeActions, RightFor
<1>4. made[a.device].programs = Catalogue[a.device].programs
  BY DEF Made, Devices, IsRest
<1>5. l \in ActionsOfSchema
  <2>1. a \in MadeActions
    BY DEF Made, Shaped
  <2>2. /\ a.device \in DOMAIN Rank /\ a.start \in Int /\ a.end \in Int /\ a.energy \in Int
        /\ a.profile \in Seq(Int) /\ a.plugged \in Int \cup {None} /\ a.deadline \in Int \cup {None}
    BY <2>1, CatalogueAssumption DEF MadeActions
  <2>3. a.program \in STRING \cup {None}
    BY <1>3, <1>4, ProgramsAssumption DEF ProgramFits
  <2> QED BY <2>2, <2>3 DEF Line, ActionsOfSchema
<1>6. 1 <= l.start /\ l.start < l.end /\ l.end <= PeriodSlots + 1 /\ Len(a.use) = l.end - l.start
  <2>1. a.start \in Nat \ {0} /\ Len(a.use) \in Nat \ {0} /\ a.end = a.start + Len(a.use)
        /\ a.end <= PeriodSlots + 1
    BY MadeIs
  <2> QED BY <1>1, <2>1
<1>7. PICK device : device = made[a.device]
  OBVIOUS
<1>8. a.device \in DOMAIN made /\ RightFor(a, device)
  BY <1>7 DEF Made
<1>9. ActionProfile(l, device) = ActionProfile(a, device)
  BY <1>1 DEF ActionProfile
<1>10. ActionProfile(l, device) = a.use /\ ProgramFits(l, device)
  BY <1>1, <1>8, <1>9 DEF RightFor, ProgramFits
<1>11. ActionIsRight(l, device)
  <2>1. ActionIsRight(a, device)
    BY <1>8 DEF RightFor
  <2>2. SessionFits(l) <=> SessionFits(a)
    BY <1>1 DEF SessionFits
  <2> QED BY <1>1, <1>9, <2>1, <2>2 DEF ActionIsRight
<1> QED BY <1>1, <1>2, <1>5, <1>6, <1>7, <1>8, <1>10, <1>11

\* A sum over the lines is that over what the lines are of.
AllDiffer(N, h) == \A i, j \in 1..N : h[i] = h[j] => i = j
EqualValues(N, f, seq, v, lines) == \A i \in 1..N : f[seq[i]] \in Int /\ v[lines[i]] = f[seq[i]]

LEMMA SumOfLines ==
    ASSUME NEW N \in Nat, NEW seq, NEW lines, AllDiffer(N, seq), AllDiffer(N, lines),
           NEW f, NEW v, EqualValues(N, f, seq, v, lines)
    PROVE  SumOver(v, {lines[i] : i \in 1..N}) = SumOver(f, {seq[i] : i \in 1..N})
<1>1. PICK D : D = 1..N
  OBVIOUS
<1>2. IsFiniteSet(D)
  BY <1>1, FS_Interval
<1>3. PICK g : g = [i \in D |-> f[seq[i]]]
  OBVIOUS
<1>4. SumOver(g, D) = SumOver(f, {seq[i] : i \in D})
  <2>1. /\ \A i, j \in D : seq[i] = seq[j] => i = j
        /\ \A i \in D : f[seq[i]] \in Int /\ g[i] = f[seq[i]]
    BY <1>1, <1>3 DEF AllDiffer, EqualValues
  <2> QED BY <1>2, <2>1, SumAt
<1>5. SumOver(g, D) = SumOver(v, {lines[i] : i \in D})
  <2>1. /\ \A i, j \in D : lines[i] = lines[j] => i = j
        /\ \A i \in D : v[lines[i]] \in Int /\ g[i] = v[lines[i]]
    BY <1>1, <1>3 DEF AllDiffer, EqualValues
  <2> QED BY <1>2, <2>1, SumAt
<1> QED BY <1>1, <1>4, <1>5

\* The lines of a file, with the actions that they are of.
AreLinesOf(d, devices, S, N, seq) ==
    /\ d.devices = devices /\ d.actions = [i \in 1..N |-> Line(i, seq[i])]
    /\ \A i \in 1..N : seq[i] \in S
    /\ \A i, j \in 1..N : seq[i] = seq[j] => i = j
    /\ S = {seq[i] : i \in 1..N}
AreLines(d, devices, S) == \E N \in Nat : \E seq : AreLinesOf(d, devices, S, N, seq)
LinesAre(d) == AreLines(d, made, actions)

LEMMA DocumentHasLines == GeneratorInv => LinesAre(BuildDocument)
<1> SUFFICES ASSUME GeneratorInv PROVE LinesAre(BuildDocument)
  OBVIOUS
<1>1. PICK N : N = Cardinality(actions)
  OBVIOUS
<1>2. PICK seq : seq = [i \in 1..N |-> Nth(actions, i)]
  OBVIOUS
<1>3. IsFiniteSet(actions) /\ NoOverlap(actions) /\ \A a \in actions : Shaped(a)
  BY DEF GeneratorInv, MadeActionsInv, Made
<1>4. /\ N \in Nat /\ \A n \in 1..N : Nth(actions, n) \in actions
      /\ \A m, n \in 1..N : Nth(actions, m) = Nth(actions, n) => m = n
      /\ \A a \in actions : \E n \in 1..N : a = Nth(actions, n)
  BY <1>1, <1>3, ActionsHaveLines
<1>5. /\ \A i \in 1..N : seq[i] \in actions
      /\ \A i, j \in 1..N : seq[i] = seq[j] => i = j
      /\ actions = {seq[i] : i \in 1..N}
  BY <1>2, <1>4
<1>6. PICK d : d = BuildDocument
  OBVIOUS
<1>7. d = [devices |-> made, actions |-> [i \in 1..N |-> Line(i, seq[i])]]
  <2>1. [i \in 1..N |-> Line(i, seq[i])] = [i \in 1..N |-> Line(i, Nth(actions, i))]
    BY <1>2
  <2> QED BY <1>1, <1>6, <2>1, DocumentIs
<1>8. d.devices = made /\ d.actions = [i \in 1..N |-> Line(i, seq[i])]
  BY <1>7
<1> QED BY <1>4, <1>5, <1>6, <1>8 DEF LinesAre, AreLines, AreLinesOf

\* Sums over the actions of the file in a slot.
LEMMA SumsOfFile ==
    ASSUME GeneratorInv, NEW d, LinesAre(d), Counted(d) = Range(d.actions)
    PROVE  \A s \in Period : /\ GridBalance(d)[s] = UsedAt(actions, s)
                             /\ GridLoad(d, s) = LoadAt(actions, s)
<1>0. PICK N \in Nat : \E seq : AreLinesOf(d, made, actions, N, seq)
  BY DEF LinesAre, AreLines
<1>1. PICK seq :
          /\ d.devices = made /\ d.actions = [i \in 1..N |-> Line(i, seq[i])]
          /\ \A i \in 1..N : seq[i] \in actions
          /\ \A i, j \in 1..N : seq[i] = seq[j] => i = j
          /\ actions = {seq[i] : i \in 1..N}
  BY <1>0 DEF AreLinesOf
<1>2. PICK lines : lines = d.actions
  OBVIOUS
<1>3. PICK L : L = {lines[i] : i \in 1..N}
  OBVIOUS
<1>4. Range(d.actions) = L
  BY <1>1, <1>2, <1>3 DEF Range
<1>5. IsFiniteSet(L)
  <2>1. IsFiniteSet(1..N)
    BY FS_Interval
  <2> QED BY <1>3, <2>1, ImageIsFinite
<1>6. ASSUME NEW i \in 1..N
      PROVE  /\ Made(seq[i]) /\ lines[i].id = i /\ lines[i].start = seq[i].start
             /\ Slots(lines[i]) = Slots(seq[i]) /\ SlotsOf(lines[i], d) = seq[i].use
  <2>1. Made(seq[i]) /\ Devices /\ i \in Nat
    BY <1>1 DEF GeneratorInv, MadeActionsInv
  <2>2. PICK l : l = Line(i, seq[i])
    OBVIOUS
  <2>3. lines[i] = l
    BY <1>1, <1>2, <2>2
  <2>4. /\ l.id = i /\ l.start = seq[i].start /\ Slots(l) = Slots(seq[i])
        /\ ActionProfile(l, made[l.device]) = seq[i].use
    BY <2>1, <2>2, LineIs
  <2> QED BY <1>1, <2>1, <2>3, <2>4 DEF SlotsOf
<1>7. \A i, j \in 1..N : lines[i] = lines[j] => i = j
  BY <1>6
<1> SUFFICES ASSUME NEW s \in Period
             PROVE  GridBalance(d)[s] = UsedAt(actions, s) /\ GridLoad(d, s) = LoadAt(actions, s)
  OBVIOUS
<1>8. PICK here : here = {l \in L : s \in Slots(l)}
  OBVIOUS
<1>9. here \in SUBSET L
  BY <1>8
<1>10. GridBalance(d)[s] = UsedAt(actions, s)
  <2>1. PICK f : f = [a \in actions |-> UseIn(a, s)]
    OBVIOUS
  <2>2. PICK v : v = [l \in L |-> IF s \in Slots(l) THEN SlotsOf(l, d)[s - l.start + 1] ELSE 0]
    OBVIOUS
  <2>3. ASSUME NEW i \in 1..N PROVE f[seq[i]] \in Int /\ v[lines[i]] = f[seq[i]]
    <3>1. f[seq[i]] = UseIn(seq[i], s) /\ UseIn(seq[i], s) \in Int
      BY <1>1, <1>6, <2>1, MadeIs
    <3>2. lines[i] \in L
      BY <1>3
    <3>3. v[lines[i]] = UseIn(seq[i], s)
      BY <1>6, <2>2, <3>2 DEF UseIn
    <3> QED BY <3>1, <3>3
  <2>4. SumOver(v, {lines[i] : i \in 1..N}) = SumOver(f, {seq[i] : i \in 1..N})
    <3>1. AllDiffer(N, seq) /\ AllDiffer(N, lines) /\ EqualValues(N, f, seq, v, lines)
      BY <1>1, <1>7, <2>3 DEF AllDiffer, EqualValues
    <3> QED BY <3>1, SumOfLines
  <2>5. SumOver(f, actions) = UsedAt(actions, s)
    BY <2>1 DEF UsedAt
  <2>6. (\A l \in L : v[l] \in Int) /\ (\A l \in L \ here : v[l] = 0)
    BY <1>3, <1>8, <2>2, <2>3
  <2>7. SumOver(v, here) = SumOver(v, L)
    BY <1>5, <1>9, <2>6, SumOfPart
  <2>8. [l \in here |-> SlotsOf(l, d)[s - l.start + 1]] = [l \in here |-> v[l]]
    BY <1>8, <2>2
  <2>9. GridBalance(d)[s] = SumOver(v, here)
    BY <1>4, <1>8, <2>8 DEF GridBalance, SumOver
  <2> QED BY <1>1, <1>3, <2>4, <2>5, <2>7, <2>9
<1>11. GridLoad(d, s) = LoadAt(actions, s)
  <2>1. PICK f : f = [a \in actions |-> LoadOf(a, s)]
    OBVIOUS
  <2>2. PICK v : v = [l \in L |-> IF s \in Slots(l) THEN Max({0, SlotsOf(l, d)[s - l.start + 1]}) ELSE 0]
    OBVIOUS
  <2>3. ASSUME NEW i \in 1..N PROVE f[seq[i]] \in Int /\ v[lines[i]] = f[seq[i]]
    <3>1. f[seq[i]] = LoadOf(seq[i], s) /\ LoadOf(seq[i], s) \in Nat /\ UseIn(seq[i], s) \in Int
      BY <1>1, <1>6, <2>1, MadeIs
    <3>2. lines[i] \in L
      BY <1>3
    <3>3. PICK u \in Int : u = UseIn(seq[i], s)
      BY <3>1
    <3>4. v[lines[i]] = IF s \in Slots(seq[i]) THEN Max({0, u}) ELSE 0
      BY <1>6, <2>2, <3>2, <3>3 DEF UseIn
    <3>5. Max({0, u}) = IF 0 <= u THEN u ELSE 0
      BY MaxOfTwo
    <3>6. LoadOf(seq[i], s) = (IF u > 0 THEN u ELSE 0) /\ (s \notin Slots(seq[i]) => u = 0)
      BY <3>3 DEF LoadOf, UseIn
    <3>7. v[lines[i]] = LoadOf(seq[i], s)
      BY <3>4, <3>5, <3>6
    <3> QED BY <3>1, <3>7
  <2>4. SumOver(v, {lines[i] : i \in 1..N}) = SumOver(f, {seq[i] : i \in 1..N})
    <3>1. AllDiffer(N, seq) /\ AllDiffer(N, lines) /\ EqualValues(N, f, seq, v, lines)
      BY <1>1, <1>7, <2>3 DEF AllDiffer, EqualValues
    <3> QED BY <3>1, SumOfLines
  <2>5. SumOver(f, actions) = LoadAt(actions, s)
    BY <2>1 DEF LoadAt
  <2>6. (\A l \in L : v[l] \in Int) /\ (\A l \in L \ here : v[l] = 0)
    BY <1>3, <1>8, <2>2, <2>3
  <2>7. SumOver(v, here) = SumOver(v, L)
    BY <1>5, <1>9, <2>6, SumOfPart
  <2>8. [l \in here |-> Max({0, ActionProfile(l, d.devices[l.device])[s - l.start + 1]})]
          = [l \in here |-> v[l]]
    BY <1>8, <2>2 DEF SlotsOf
  <2>9. GridLoad(d, s) = SumOver(v, here)
    BY <1>4, <1>8, <2>8 DEF GridLoad, SumOver
  <2> QED BY <1>1, <1>3, <2>4, <2>5, <2>7, <2>9
<1> QED BY <1>10, <1>11

LEMMA DevicesFollowSchema ==
    ASSUME Devices, NEW n \in DOMAIN made
    PROVE  n \in DOMAIN Rank /\ DeviceFollowsSchema(made[n])
<1>1. n \in DOMAIN Catalogue /\ n \in DOMAIN Rank
  BY CatalogueAssumption DEF Devices
<1>2. DeviceFollowsSchema(Catalogue[n])
  BY <1>1, CatalogueIs
<1>3. CASE n # Other
  BY <1>1, <1>2, <1>3 DEF Devices
<1>4. CASE n = Other
  <2>1. PICK device : device = made[n]
    OBVIOUS
  <2>2. IsRest(device)
    BY <1>4, <2>1 DEF Devices
  <2>3. PICK listed : listed = Catalogue[Other]
    OBVIOUS
  <2>4. /\ device.type = listed.type /\ device.producer = listed.producer /\ device.mode = listed.mode
        /\ device.window = listed.window /\ device.shift = listed.shift
        /\ device.programs = listed.programs /\ device.power \in Nat \ {0}
    BY <2>2, <2>3 DEF IsRest
  <2>5. DeviceFollowsSchema(listed)
    BY <1>2, <1>4, <2>3
  <2>6. DeviceFollowsSchema(device)
    BY <2>4, <2>5, DeviceFileAssumption DEF DeviceFollowsSchema
  <2> QED BY <1>1, <2>1, <2>6
<1> QED BY <1>3, <1>4

\* The validator finds nothing in the file; a house keeps to its limit.
LEMMA FileIsValid ==
    ASSUME GeneratorInv, NEW d, LinesAre(d)
    PROVE  ValidateDocument(d, IF meter = None THEN GridLimit ELSE None)
<1>0. PICK N \in Nat : \E seq : AreLinesOf(d, made, actions, N, seq)
  BY DEF LinesAre, AreLines
<1>1. PICK seq :
          /\ d.devices = made /\ d.actions = [i \in 1..N |-> Line(i, seq[i])]
          /\ \A i \in 1..N : seq[i] \in actions
          /\ \A i, j \in 1..N : seq[i] = seq[j] => i = j
          /\ actions = {seq[i] : i \in 1..N}
  BY <1>0 DEF AreLinesOf
<1>2. PICK lines : lines = d.actions
  OBVIOUS
<1>3. DOMAIN lines = 1..N /\ Range(lines) = {lines[i] : i \in 1..N}
  BY <1>1, <1>2 DEF Range
<1>4. ASSUME NEW i \in 1..N
      PROVE  /\ lines[i].id = i /\ lines[i].device = seq[i].device /\ Slots(lines[i]) = Slots(seq[i])
             /\ lines[i] \in ActionsOfSchema
             /\ lines[i].device \in DOMAIN made /\ 1 <= lines[i].start /\ lines[i].start < lines[i].end
             /\ lines[i].end <= PeriodSlots + 1
             /\ ProgramFits(lines[i], made[lines[i].device])
             /\ Len(ActionProfile(lines[i], made[lines[i].device])) = lines[i].end - lines[i].start
             /\ ActionIsRight(lines[i], made[lines[i].device])
  <2>1. Made(seq[i]) /\ Devices /\ i \in Nat
    BY <1>1 DEF GeneratorInv, MadeActionsInv
  <2>2. PICK l : l = Line(i, seq[i])
    OBVIOUS
  <2>3. lines[i] = l
    BY <1>1, <1>2, <2>2
  <2>4. /\ l.id = i /\ l.device = seq[i].device /\ Slots(l) = Slots(seq[i]) /\ l \in ActionsOfSchema
        /\ l.device \in DOMAIN made /\ 1 <= l.start /\ l.start < l.end /\ l.end <= PeriodSlots + 1
        /\ ActionProfile(l, made[l.device]) = seq[i].use /\ Len(seq[i].use) = l.end - l.start
        /\ ProgramFits(l, made[l.device]) /\ ActionIsRight(l, made[l.device])
    BY <2>1, <2>2, LineIs
  <2> QED BY <2>3, <2>4
<1>5. FollowsSchema(d)
  <2>1. \A n \in DOMAIN made : n \in DOMAIN Rank /\ DeviceFollowsSchema(made[n])
    BY DevicesFollowSchema DEF GeneratorInv
  <2>2. lines \in Seq(ActionsOfSchema)
    <3>1. lines = [i \in 1..N |-> lines[i]] /\ \A i \in 1..N : lines[i] \in ActionsOfSchema
      BY <1>1, <1>2, <1>4
    <3> QED BY <3>1
  <2> QED BY <1>1, <1>2, <2>1, <2>2 DEF FollowsSchema
<1>6. \A l \in Range(lines) : l \in Placed(d)
  BY <1>1, <1>2, <1>3, <1>4 DEF Placed
<1>7. Range(d.actions) = Counted(d)
  <2>1. \A l \in Range(lines) : /\ ProgramFits(l, d.devices[l.device])
                                /\ Len(ActionProfile(l, d.devices[l.device])) = l.end - l.start
    BY <1>1, <1>3, <1>4
  <2>2. Counted(d) \subseteq Range(lines)
    BY <1>2 DEF Counted, Placed
  <2>3. Range(lines) \subseteq Counted(d)
    BY <1>6, <2>1 DEF Counted
  <2> QED BY <1>2, <2>2, <2>3
<1>8. \A i, j \in DOMAIN d.actions : i # j => d.actions[i].id # d.actions[j].id
  BY <1>2, <1>3, <1>4
<1>9. \A l \in Counted(d) : ActionIsRight(l, d.devices[l.device])
  BY <1>1, <1>2, <1>3, <1>4, <1>7
<1>10. ASSUME NEW k \in Counted(d), NEW l \in Counted(d), k # l, k.device = l.device
       PROVE  Slots(k) \cap Slots(l) = {}
  <2>1. PICK i \in 1..N, j \in 1..N : k = lines[i] /\ l = lines[j]
    BY <1>2, <1>3, <1>7
  <2>2. seq[i] \in actions /\ seq[j] \in actions /\ seq[i] # seq[j] /\ seq[i].device = seq[j].device
    BY <1>1, <1>4, <1>10, <2>1
  <2>3. Slots(seq[i]) \cap Slots(seq[j]) = {}
    BY <2>2 DEF GeneratorInv, MadeActionsInv, NoOverlap
  <2> QED BY <1>4, <2>1, <2>3
<1>11. meter = None => \A s \in Period : GridLoad(d, s) <= GridLimit
  BY <1>7, SumsOfFile DEF GeneratorInv, HouseInv
<1>12. PICK limit_ : limit_ = IF meter = None THEN GridLimit ELSE None
  OBVIOUS
<1>13. limit_ # None => \A s \in Period : GridLoad(d, s) <= limit_
  BY <1>11, <1>12
<1>14. ValidateDocument(d, limit_)
  BY <1>5, <1>7, <1>8, <1>9, <1>10, <1>13 DEF ValidateDocument
<1> QED BY <1>12, <1>14

\* What the devices of a finished file use is what the meter read.
LEMMA FileAddsUp ==
    ASSUME GeneratorInv, ~Open, meter # None, NEW d, LinesAre(d)
    PROVE  \A s \in Period : GridBalance(d)[s] = meter[s]
<1>1. ValidateDocument(d, IF meter = None THEN GridLimit ELSE None)
  BY FileIsValid
<1>2. Counted(d) = Range(d.actions)
  BY <1>1 DEF ValidateDocument
<1>3. ASSUME NEW s \in Period PROVE GridBalance(d)[s] = meter[s]
  <2>1. GridBalance(d)[s] = UsedAt(actions, s)
    BY <1>2, SumsOfFile
  <2>2. UsedAt(actions, s) + 0 = meter[s]
    BY DEF GeneratorInv, MeterInv
  <2>3. UsedAt(actions, s) \in Int
    <3>1. PICK f : f = [a \in actions |-> UseIn(a, s)]
      OBVIOUS
    <3>2. IsFiniteSet(actions) /\ \A a \in actions : f[a] \in Int
      BY <3>1, MadeIs DEF GeneratorInv, MadeActionsInv
    <3>3. SumOver(f, actions) \in Int
      BY <3>2, SumIsNumber
    <3> QED BY <3>1, <3>3 DEF UsedAt
  <2> QED BY <2>1, <2>2, <2>3
<1> QED BY <1>3

-----------------------------------------------------------------------------
(* The generator on the way of the file.                                   *)

\* The file that no one has edited is that of the generator.
Written == phase = "file" /\ ~edited => ~Open /\ LinesAre(doc)
FileInv == GeneratorInv /\ Written

LEMMA FileInitInv == Init => FileInv
BY GeneratorInitInv DEF Init, FileInv, Written

LEMMA FileNextInv ==
    ASSUME FileInv, [Next]_vars
    PROVE  FileInv'
<1>1. CASE Generate
  <2>1. GeneratorInv'
    BY <1>1, GeneratorNextInv DEF Generate, FileInv
  <2>2. phase' = "generate"
    BY <1>1 DEF Generate, fileVars
  <2> QED BY <2>1, <2>2 DEF FileInv, Written
<1>2. ASSUME UNCHANGED generatorVars
      PROVE  /\ GeneratorInv' /\ Open' = Open
             /\ \A d : LinesAre(d) => LinesAre(d)'
  <2>1. actions' = actions /\ made' = made /\ job' = job /\ meter' = meter
    BY <1>2 DEF generatorVars
  <2>2. Open' = Open
    BY <2>1, JobsStay DEF Open
  <2>3. \A d : LinesAre(d) => LinesAre(d)'
    BY <2>1 DEF LinesAre
  <2> QED BY <1>2, <2>2, <2>3, GeneratorStays DEF FileInv
<1>3. CASE WriteFile
  <2>1. UNCHANGED generatorVars /\ doc' = BuildDocument /\ Finished
    BY <1>3 DEF WriteFile
  <2>2. ~Open
    <3>1. Len(Jobs) \in Nat
      BY JobsAre
    <3> QED BY <2>1, <3>1 DEF Finished, Open
  <2>3. PICK d : d = BuildDocument
    OBVIOUS
  <2>4. LinesAre(d)' /\ doc' = d
    BY <1>2, <2>1, <2>3, DocumentHasLines DEF FileInv
  <2>5. LinesAre(doc)'
    BY <2>4 DEF LinesAre
  <2>6. Written'
    BY <1>2, <2>1, <2>2, <2>5 DEF Written
  <2> QED BY <1>2, <2>1, <2>6 DEF FileInv
<1>4. CASE Edit
  BY <1>2, <1>4 DEF Edit, FileInv, Written
<1>5. CASE Import
  BY <1>2, <1>5 DEF Import, FileInv, Written
<1>6. CASE AskForSchedule
  BY <1>2, <1>6 DEF AskForSchedule, FileInv, Written
<1>7. CASE Schedule
  <2>1. UNCHANGED generatorVars /\ phase' # "file"
    BY <1>7 DEF Schedule, fileVars
  <2> QED BY <1>2, <2>1 DEF FileInv, Written
<1>8. CASE Answer
  BY <1>2, <1>8 DEF Answer, FileInv, Written
<1>9. CASE UNCHANGED vars
  <2>1. UNCHANGED generatorVars /\ phase' = phase /\ edited' = edited /\ doc' = doc
    BY <1>9 DEF vars
  <2>2. LinesAre(doc) => LinesAre(doc)'
    BY <1>2, <2>1 DEF LinesAre
  <2>3. Written'
    BY <1>2, <2>1, <2>2 DEF FileInv, Written
  <2> QED BY <1>2, <2>1, <2>3 DEF FileInv
<1> QED BY <1>1, <1>3, <1>4, <1>5, <1>6, <1>7, <1>8, <1>9 DEF Next

\* THEOREM: the generator keeps its invariant, for a plan and for every reading of a
\* meter, whatever it draws: what it has made is right for the device that it is of, no
\* device is used twice at once, a house keeps to its connection, and of a meter nothing
\* is lost between the actions, the constant use and what remains.
THEOREM GeneratorKeepsItsInvariant == Spec => []FileInv
<1>1. FileInv /\ [Next]_vars => FileInv'
  BY FileNextInv
<1> QED BY <1>1, FileInitInv, PTL DEF Spec

\* THEOREM: the validator of the import finds nothing in a file that the script made
\* and nobody edited, and a planned house keeps the limit of its connection.
THEOREM GeneratedFilesAreValid == Spec => []GeneratedFileIsValid
<1>1. FileInv => GeneratedFileIsValid
  <2> SUFFICES ASSUME FileInv, phase = "file", ~edited
               PROVE  ValidateDocument(doc, IF meter = None THEN GridLimit ELSE None)
    BY DEF GeneratedFileIsValid
  <2>1. PICK d : d = doc
    OBVIOUS
  <2>2. GeneratorInv /\ LinesAre(d)
    BY <2>1 DEF FileInv, Written
  <2>3. ValidateDocument(d, IF meter = None THEN GridLimit ELSE None)
    BY <2>2, FileIsValid
  <2> QED BY <2>1, <2>3
<1> QED BY <1>1, GeneratorKeepsItsInvariant, PTL

\* THEOREM: the devices of a file made from a meter use in every slot exactly what the
\* meter read.
THEOREM DevicesAddUpToTheMeter == Spec => []SumsToMeter
<1>1. FileInv => SumsToMeter
  <2> SUFFICES ASSUME FileInv, phase = "file", ~edited, meter # None, NEW s \in Period
               PROVE  GridBalance(doc)[s] = meter[s]
    BY DEF SumsToMeter
  <2>1. PICK d : d = doc
    OBVIOUS
  <2>2. GeneratorInv /\ ~Open /\ LinesAre(d)
    BY <2>1 DEF FileInv, Written
  <2>3. GridBalance(d)[s] = meter[s]
    BY <2>2, FileAddsUp
  <2> QED BY <2>1, <2>3
<1> QED BY <1>1, GeneratorKeepsItsInvariant, PTL

=============================================================================
