---------------------------- MODULE FiniteOrders ----------------------------
(* Facts about finite sets that the choices and the counts of the modules  *)
(* rest on: a set of naturals has a least element, one of finitely many    *)
(* totally ordered things is above the others, and the folds of the        *)
(* community modules over a finite set of integers sum what they should.   *)
EXTENDS Integers, FiniteSets, FiniteSetsExt, Functions, FiniteSetTheorems,
        WellFoundedInduction, TLAPS

(* Used for the least task id of a pool thread and the first thread of a   *)
(* task in a scan.                                                         *)
LEMMA NatWellOrdered ==
  ASSUME NEW S \in SUBSET Nat, S # {}
  PROVE  \E m \in S : \A n \in S : m <= n
<1> DEFINE Less == {p \in Nat \X Nat : p[1] < p[2]}
<1>1. IsWellFoundedOn(Less, Nat)
  BY NatLessThanWellFounded DEF OpToRel
<1>2. \E m \in S : \A n \in S : ~(<<n, m>> \in Less)
  <2> HIDE DEF Less
  <2> QED BY <1>1, WFMin
<1>3. PICK m \in S : \A n \in S : ~(<<n, m>> \in Less)
  BY <1>2
<1>4. \A n \in S : <<n, m>> \in Less <=> n < m
  OBVIOUS
<1>5. \A n \in S : m <= n
  <2> HIDE DEF Less
  <2>1. \A n \in S : ~(n < m)
    BY <1>3, <1>4
  <2> QED BY <2>1
<1> QED BY <1>5

(* Min of the community modules is what it says, on naturals.              *)
LEMMA MinOfNats ==
  ASSUME NEW S \in SUBSET Nat, S # {}
  PROVE  Min(S) \in S /\ \A n \in S : Min(S) <= n
BY NatWellOrdered DEF Min

(* A strict total order on a finite set has a greatest element: the scans  *)
(* of SparkResourceAdaptorJni.cpp for the highest and the lowest priority  *)
(* find one.  By induction over the subsets of C.                          *)
LEMMA FiniteMaximum ==
  ASSUME NEW C, IsFiniteSet(C), C # {}, NEW R,
         \A u \in C : <<u, u>> \notin R,
         \A u, v \in C : u # v => <<u, v>> \in R \/ <<v, u>> \in R,
         \A u, v, w \in C : <<u, v>> \in R /\ <<v, w>> \in R => <<u, w>> \in R
  PROVE  \E u \in C : \A v \in C \ {u} : <<u, v>> \in R
<1> DEFINE Good(D) == \E u \in D : \A v \in D \ {u} : <<u, v>> \in R
<1> DEFINE Bad == {D \in SUBSET C : D # {} /\ ~Good(D)}
<1> SUFFICES ASSUME Bad # {} PROVE FALSE
  OBVIOUS
<1>1. IsWellFoundedOn(StrictSubsetOrdering(C), SUBSET C)
  <2>1. IsWellFoundedOn(StrictSubsetOrdering(C), FiniteSubsetsOf(C))
    BY FS_StrictSubsetOrderingWellFounded
  <2>2. FiniteSubsetsOf(C) = SUBSET C
    BY FS_FiniteSubsetsOfFinite
  <2> QED BY <2>1, <2>2
<1>2. PICK D \in Bad : \A E \in Bad : ~(<<E, D>> \in StrictSubsetOrdering(C))
  <2> HIDE DEF Bad
  <2>1. Bad \subseteq SUBSET C
    BY DEF Bad
  <2> QED BY <1>1, <2>1, WFMin
<1>3. \A E \in SUBSET D : E # D /\ E # {} => Good(E)
  <2> SUFFICES ASSUME NEW E \in SUBSET D, E # D, E # {}, ~Good(E) PROVE FALSE
    OBVIOUS
  <2>1. E \in Bad
    BY DEF Bad
  <2>2. <<E, D>> \in StrictSubsetOrdering(C)
    BY DEF StrictSubsetOrdering
  <2> QED BY <1>2, <2>1, <2>2
<1>4. PICK d \in D : TRUE
  OBVIOUS
<1>5. CASE D \ {d} = {}
  <2>1. Good(D)
    BY <1>4, <1>5
  <2> QED BY <2>1
<1>6. CASE D \ {d} # {}
  <2>1. Good(D \ {d})
    <3>1. D \ {d} \in SUBSET D /\ D \ {d} # D
      BY <1>4
    <3> HIDE DEF Good
    <3> QED BY <1>3, <1>6, <3>1
  <2>2. PICK m \in D \ {d} : \A v \in (D \ {d}) \ {m} : <<m, v>> \in R
    BY <2>1
  <2>3. CASE <<m, d>> \in R
    <3>1. \A v \in D \ {m} : <<m, v>> \in R
      BY <2>2, <2>3
    <3> QED BY <3>1, <2>2
  <2>4. CASE <<d, m>> \in R
    <3>1. \A v \in D \ {d} : <<d, v>> \in R
      BY <2>2, <2>4
    <3> QED BY <3>1, <1>4
  <2> QED BY <2>2, <2>3, <2>4
<1> QED BY <1>5, <1>6

-----------------------------------------------------------------------------
(* Folds and sums over a finite set. *)

\* The recursion by which the community modules fold F over the subsets of S.
FoldsBy(it, F, base, S) ==
    it = [s \in SUBSET S |-> IF s = {} THEN base
                             ELSE F[<<CHOOSE x \in s : TRUE, it[s \ {CHOOSE x \in s : TRUE}]>>]]

(* The recursion has a solution, and all its values are in G: what a fold  *)
(* never leaves.  By the least size of a subset where it would fail.       *)
LEMMA FoldExists ==
  ASSUME NEW S, IsFiniteSet(S), NEW G, NEW base \in G, NEW F \in [S \X G -> G]
  PROVE  \E it \in [SUBSET S -> G] : FoldsBy(it, F, base, S)
<1> DEFINE c(s) == CHOOSE x \in s : TRUE
           Eq(it, s) == it[s] = IF s = {} THEN base ELSE F[<<c(s), it[s \ {c(s)}]>>]
           Good(n) == \E it \in [SUBSET S -> G] : \A s \in SUBSET S : Cardinality(s) <= n => Eq(it, s)
           Bad == {n \in Nat : ~Good(n)}
<1>1. \A s \in SUBSET S : s # {} => c(s) \in s
  OBVIOUS
<1>2. \A s \in SUBSET S : IsFiniteSet(s) /\ Cardinality(s) \in Nat /\ (Cardinality(s) = 0 <=> s = {})
  BY FS_Subset, FS_CardinalityType, FS_EmptySet
<1> HIDE DEF c
<1>3. \A s \in SUBSET S : s # {} => Cardinality(s \ {c(s)}) = Cardinality(s) - 1 /\ s \ {c(s)} \in SUBSET S
  BY <1>1, <1>2, FS_RemoveElement
<1>4. Good(0)
  <2> DEFINE it == [s \in SUBSET S |-> base]
  <2>1. it \in [SUBSET S -> G]
    OBVIOUS
  <2>2. \A s \in SUBSET S : Cardinality(s) <= 0 => s = {}
    BY <1>2
  <2>3. \A s \in SUBSET S : Cardinality(s) <= 0 => Eq(it, s)
    BY <2>2
  <2> HIDE DEF it, Eq
  <2> QED BY <2>1, <2>3
<1>5. ASSUME NEW n \in Nat, Good(n)
      PROVE  Good(n + 1)
  <2>1. PICK it \in [SUBSET S -> G] : \A s \in SUBSET S : Cardinality(s) <= n => Eq(it, s)
    BY <1>5
  <2> DEFINE next == [s \in SUBSET S |-> IF Cardinality(s) = n + 1 THEN F[<<c(s), it[s \ {c(s)}]>>] ELSE it[s]]
  <2>2. \A s \in SUBSET S : Cardinality(s) = n + 1 => s # {} /\ Cardinality(s \ {c(s)}) = n
    BY <1>2, <1>3
  <2>3. next \in [SUBSET S -> G]
    <3>1. ASSUME NEW s \in SUBSET S, Cardinality(s) = n + 1
          PROVE  F[<<c(s), it[s \ {c(s)}]>>] \in G
      <4>1. c(s) \in S /\ s \ {c(s)} \in SUBSET S
        BY <1>1, <2>2, <3>1
      <4>2. it[s \ {c(s)}] \in G
        BY <4>1
      <4> QED BY <4>1, <4>2
    <3> QED BY <3>1
  <2>4. ASSUME NEW s \in SUBSET S, Cardinality(s) <= n + 1
        PROVE  Eq(next, s)
    <3>1. CASE Cardinality(s) = n + 1
      <4>1. s # {} /\ Cardinality(s \ {c(s)}) # n + 1 /\ s \ {c(s)} \in SUBSET S
        BY <2>2, <3>1, <1>3
      <4>2. next[s \ {c(s)}] = it[s \ {c(s)}]
        BY <4>1
      <4> QED BY <3>1, <4>1, <4>2
    <3>2. CASE Cardinality(s) <= n
      <4>1. next[s] = it[s] /\ Eq(it, s)
        BY <1>2, <2>1, <3>2
      <4>2. CASE s = {}
        BY <4>1, <4>2
      <4>3. CASE s # {}
        <5>1. s \ {c(s)} \in SUBSET S /\ Cardinality(s \ {c(s)}) # n + 1
          BY <1>2, <1>3, <3>2, <4>3
        <5>2. next[s \ {c(s)}] = it[s \ {c(s)}]
          BY <5>1
        <5> HIDE DEF next
        <5> QED BY <4>1, <4>3, <5>2
      <4> QED BY <4>2, <4>3
    <3>3. Cardinality(s) = n + 1 \/ Cardinality(s) <= n
      <4> HIDE DEF Eq, next
      <4>1. Cardinality(s) \in Nat
        BY <1>2
      <4> QED BY <4>1, <2>4
    <3> HIDE DEF Eq, next
    <3> QED BY <3>1, <3>2, <3>3
  <2> HIDE DEF next, Eq
  <2> QED BY <2>3, <2>4
<1> HIDE DEF Good
<1>6. Bad = {}
  <2> SUFFICES ASSUME Bad # {} PROVE FALSE
    OBVIOUS
  <2>1. Bad \in SUBSET Nat
    OBVIOUS
  <2>2. PICK m \in Bad : \A n \in Bad : m <= n
    BY <2>1, NatWellOrdered
  <2>3. m \in Nat /\ m # 0
    BY <1>4
  <2>4. m - 1 \in Nat /\ m - 1 \notin Bad /\ (m - 1) + 1 = m
    BY <2>2, <2>3
  <2> QED BY <1>5, <2>4
<1>7. Good(Cardinality(S))
  BY <1>6, FS_CardinalityType
<1>8. PICK it \in [SUBSET S -> G] : \A s \in SUBSET S : Cardinality(s) <= Cardinality(S) => Eq(it, s)
  BY <1>7 DEF Good
<1>9. \A s \in SUBSET S : Eq(it, s)
  BY <1>8, FS_Subset
<1>10. it = [s \in SUBSET S |-> IF s = {} THEN base ELSE F[<<c(s), it[s \ {c(s)}]>>]]
  <2>1. it = [s \in SUBSET S |-> it[s]]
    OBVIOUS
  <2> HIDE <1>8
  <2> QED BY <1>9, <2>1
<1> QED BY <1>10 DEF FoldsBy, c

\* it[s] is the sum of f over s, for every subset s of S.
SumsOver(it, f, S) ==
    it = [s \in SUBSET S |-> IF s = {} THEN 0
                             ELSE f[CHOOSE x \in s : TRUE] + it[s \ {CHOOSE x \in s : TRUE}]]

(* Two such functions agree where their summands do.  By the least size of *)
(* a subset where they would not.                                          *)
LEMMA SumsAgree ==
  ASSUME NEW S, IsFiniteSet(S), NEW T \in SUBSET S, NEW f, NEW g, \A x \in T : f[x] = g[x],
         NEW it, NEW jt, SumsOver(it, f, S), SumsOver(jt, g, T)
  PROVE  \A s \in SUBSET T : it[s] = jt[s]
<1> DEFINE c(s) == CHOOSE x \in s : TRUE
           Bad == {Cardinality(s) : s \in {u \in SUBSET T : it[u] # jt[u]}}
<1>1. \A s \in SUBSET T : s # {} => c(s) \in s
  OBVIOUS
<1>2. \A s \in SUBSET T : s \in SUBSET S /\ IsFiniteSet(s) /\ Cardinality(s) \in Nat
  BY FS_Subset, FS_CardinalityType
<1>3. \A s \in SUBSET T : it[s] = IF s = {} THEN 0 ELSE f[c(s)] + it[s \ {c(s)}]
  BY DEF SumsOver
<1>4. \A s \in SUBSET T : jt[s] = IF s = {} THEN 0 ELSE g[c(s)] + jt[s \ {c(s)}]
  BY DEF SumsOver
<1> HIDE DEF c
<1>5. SUFFICES ASSUME Bad # {} PROVE FALSE
  OBVIOUS
<1>6. Bad \in SUBSET Nat
  BY <1>2
<1>7. PICK m \in Bad : \A n \in Bad : m <= n
  BY <1>5, <1>6, NatWellOrdered
<1>8. PICK s \in SUBSET T : it[s] # jt[s] /\ Cardinality(s) = m
  BY <1>7
<1>9. s # {}
  BY <1>3, <1>4, <1>8
<1>10. c(s) \in s /\ s \ {c(s)} \in SUBSET T /\ Cardinality(s \ {c(s)}) = m - 1
  BY <1>1, <1>2, <1>8, <1>9, FS_RemoveElement
<1>11. m \in Nat /\ m - 1 \notin Bad
  BY <1>6, <1>7
<1>12. it[s \ {c(s)}] = jt[s \ {c(s)}]
  BY <1>10, <1>11
<1> HIDE DEF Bad
<1> QED BY <1>3, <1>4, <1>8, <1>9, <1>10, <1>12

(* The sums of the community modules are those of a recursion over the     *)
(* subsets, and integers.                                                  *)
LEMMA SumUnfolds ==
  ASSUME NEW S, IsFiniteSet(S), NEW f \in [S -> Int]
  PROVE  \E it \in [SUBSET S -> Int] : SumsOver(it, f, S) /\ SumFunctionOnSet(f, S) = it[S]
<1> DEFINE F == [p \in S \X Int |-> f[p[1]] + p[2]]
           sol == CHOOSE it : SumsOver(it, f, S)
<1>1. F \in [S \X Int -> Int]
  OBVIOUS
<1>2. PICK it \in [SUBSET S -> Int] : FoldsBy(it, F, 0, S)
  <2>1. 0 \in Int
    OBVIOUS
  <2> HIDE DEF F
  <2> QED BY <1>1, <2>1, FoldExists, ZenonT(30)
<1>3. SumsOver(it, f, S)
  <2>1. ASSUME NEW s \in SUBSET S, s # {}
        PROVE  F[<<CHOOSE x \in s : TRUE, it[s \ {CHOOSE x \in s : TRUE}]>>]
               = f[CHOOSE x \in s : TRUE] + it[s \ {CHOOSE x \in s : TRUE}]
    <3>1. PICK x : x = CHOOSE y \in s : TRUE
      OBVIOUS
    <3>2. x \in s
      BY <2>1, <3>1
    <3>3. it[s \ {x}] \in Int
      OBVIOUS
    <3>4. F[<<x, it[s \ {x}]>>] = f[x] + it[s \ {x}]
      BY <3>2, <3>3
    <3> QED BY <3>1, <3>4
  <2> HIDE DEF F
  <2> QED BY <1>2, <2>1 DEF FoldsBy, SumsOver
<1>4. SumsOver(sol, f, S)
  BY <1>3
<1>5. SumFunctionOnSet(f, S) = sol[S]
  BY DEF SumFunctionOnSet, FoldFunctionOnSet, MapThenFoldSet, SumsOver
<1> HIDE DEF sol
<1>6. it[S] = sol[S]
  BY <1>3, <1>4, SumsAgree
<1> QED BY <1>3, <1>5, <1>6

\* Whatever is taken out of s, its value is what the rest falls short of.
AddedLast(it, f, s) == \A y \in s : it[s] = f[y] + it[s \ {y}]

(* The element that is added last does not matter.                         *)
LEMMA SumsCommute ==
  ASSUME NEW S, IsFiniteSet(S), NEW f \in [S -> Int], NEW it \in [SUBSET S -> Int], SumsOver(it, f, S)
  PROVE  \A s \in SUBSET S : AddedLast(it, f, s)
<1> DEFINE c(s) == CHOOSE x \in s : TRUE
           Good(s) == \A y \in s : it[s] = f[y] + it[s \ {y}]
           Bad == {Cardinality(s) : s \in {u \in SUBSET S : ~Good(u)}}
<1>1. \A s \in SUBSET S : s # {} => c(s) \in s
  OBVIOUS
<1>2. \A s \in SUBSET S : IsFiniteSet(s) /\ Cardinality(s) \in Nat
  BY FS_Subset, FS_CardinalityType
<1>3. \A s \in SUBSET S : s # {} => it[s] = f[c(s)] + it[s \ {c(s)}]
  BY DEF SumsOver
<1> HIDE DEF c
<1>4. SUFFICES ASSUME Bad # {} PROVE FALSE
  BY DEF Bad, AddedLast
<1>5. Bad \in SUBSET Nat
  BY <1>2
<1>6. PICK m \in Bad : \A n \in Bad : m <= n
  BY <1>4, <1>5, NatWellOrdered
<1>7. PICK s \in SUBSET S : ~Good(s) /\ Cardinality(s) = m
  BY <1>6
<1>8. \A x \in s : Cardinality(s \ {x}) = m - 1 /\ s \ {x} \in SUBSET S
  BY <1>2, <1>7, FS_RemoveElement
<1>9. m \in Nat /\ m - 1 \notin Bad
  <2> HIDE DEF Bad
  <2>1. m \in Nat
    BY <1>5
  <2>2. ~(m <= m - 1)
    BY <2>1
  <2> QED BY <1>6, <2>1, <2>2
<1>10. \A x \in s : Good(s \ {x})
  BY <1>8, <1>9
<1> HIDE DEF Bad
<1>11. Good(s)
  <2> SUFFICES ASSUME NEW y \in s PROVE it[s] = f[y] + it[s \ {y}]
    OBVIOUS
  <2>1. c(s) \in s /\ it[s] = f[c(s)] + it[s \ {c(s)}]
    BY <1>1, <1>3
  <2>2. CASE y = c(s)
    BY <2>1, <2>2
  <2>3. CASE y # c(s)
    <3>1. it[s \ {c(s)}] = f[y] + it[(s \ {c(s)}) \ {y}]
      BY <1>10, <2>1, <2>3
    <3>2. it[s \ {y}] = f[c(s)] + it[(s \ {y}) \ {c(s)}]
      BY <1>10, <2>1, <2>3
    <3>3. (s \ {c(s)}) \ {y} = (s \ {y}) \ {c(s)}
      OBVIOUS
    <3>4. f[y] \in Int /\ f[c(s)] \in Int /\ it[(s \ {y}) \ {c(s)}] \in Int
      BY <1>8, <2>1
    <3> DEFINE u == it[(s \ {y}) \ {c(s)}]
               v == it[s \ {c(s)}]
               w == it[s \ {y}]
               x == f[c(s)]
               z == f[y]
    <3>5. it[s] = x + v /\ v = z + u /\ w = x + u /\ x \in Int /\ z \in Int /\ u \in Int
      BY <2>1, <3>1, <3>2, <3>3, <3>4
    <3> HIDE DEF Good, u, v, w, x, z
    <3>6. it[s] = z + w
      BY <3>5
    <3> QED BY <3>6 DEF w, z
  <2> QED BY <2>2, <2>3
<1> QED BY <1>7, <1>11

(* Nothing sums to 0.                                                      *)
LEMMA SumOfNothing == ASSUME NEW f \in [{} -> Int] PROVE SumFunctionOnSet(f, {}) = 0
<1>1. IsFiniteSet({})
  BY FS_EmptySet
<1>2. PICK it \in [SUBSET {} -> Int] : SumsOver(it, f, {}) /\ SumFunctionOnSet(f, {}) = it[{}]
  BY <1>1, SumUnfolds
<1> QED BY <1>2 DEF SumsOver

(* A sum grows by the value of an element that is added.                   *)
LEMMA SumOfOneMore ==
  ASSUME NEW T, IsFiniteSet(T), NEW y, y \notin T, NEW f \in [T -> Int], NEW g \in [T \cup {y} -> Int],
         \A x \in T : f[x] = g[x]
  PROVE  SumFunctionOnSet(g, T \cup {y}) = SumFunctionOnSet(f, T) + g[y]
<1>0. PICK S : S = T \cup {y}
  OBVIOUS
<1>1. IsFiniteSet(S)
  BY <1>0, FS_AddElement
<1>2. T \in SUBSET S /\ S \ {y} = T /\ S \in SUBSET S /\ y \in S /\ T \in SUBSET T
  BY <1>0
<1>3. g \in [S -> Int]
  BY <1>0
<1>4. PICK jt \in [SUBSET S -> Int] : SumsOver(jt, g, S) /\ SumFunctionOnSet(g, S) = jt[S]
  BY <1>1, <1>3, SumUnfolds
<1>5. PICK it \in [SUBSET T -> Int] : SumsOver(it, f, T) /\ SumFunctionOnSet(f, T) = it[T]
  BY SumUnfolds
<1>6. jt[S] = g[y] + jt[S \ {y}]
  <2>1. \A s \in SUBSET S : AddedLast(jt, g, s)
    BY <1>1, <1>3, <1>4, SumsCommute
  <2> QED BY <1>2, <2>1 DEF AddedLast
<1>7. \A x \in T : g[x] = f[x]
  OBVIOUS
<1>8. jt[T] = it[T]
  BY <1>1, <1>2, <1>4, <1>5, <1>7, SumsAgree
<1>9. jt[T] \in Int /\ g[y] \in Int
  BY <1>2, <1>3
<1>10. SumFunctionOnSet(g, S) = g[y] + SumFunctionOnSet(f, T)
  BY <1>2, <1>4, <1>5, <1>6, <1>8
<1>11. g[y] \in Int /\ SumFunctionOnSet(f, T) \in Int
  BY <1>5, <1>8, <1>9
<1>12. SumFunctionOnSet(g, S) = SumFunctionOnSet(f, T) + g[y]
  BY <1>10, <1>11
<1> QED BY <1>0, <1>12

(* A sum of integers is one.                                               *)
LEMMA SumIsInt ==
  ASSUME NEW T, IsFiniteSet(T), NEW f \in [T -> Int] PROVE SumFunctionOnSet(f, T) \in Int
<1>1. PICK it \in [SUBSET T -> Int] : SumFunctionOnSet(f, T) = it[T]
  BY SumUnfolds
<1>2. T \in SUBSET T
  OBVIOUS
<1> QED BY <1>1, <1>2

(* Induction over a finite set, of which B are the subsets already done.   *)
LEMMA FiniteInduction ==
  ASSUME NEW S, IsFiniteSet(S), NEW B, {} \in B,
         \A s \in SUBSET S : s # {} => \E x \in s : s \ {x} \in B => s \in B
  PROVE  S \in B
<1> DEFINE Bad == {Cardinality(s) : s \in {u \in SUBSET S : u \notin B}}
<1>1. \A s \in SUBSET S : IsFiniteSet(s) /\ Cardinality(s) \in Nat
  BY FS_Subset, FS_CardinalityType
<1>2. SUFFICES ASSUME Bad # {} PROVE FALSE
  OBVIOUS
<1>3. Bad \in SUBSET Nat
  BY <1>1
<1>4. PICK m \in Bad : \A n \in Bad : m <= n
  BY <1>2, <1>3, NatWellOrdered
<1>5. PICK s \in SUBSET S : s \notin B /\ Cardinality(s) = m
  BY <1>4
<1>6. PICK x \in s : s \ {x} \in B => s \in B
  <2>1. s # {}
    BY <1>5
  <2> HIDE DEF Bad
  <2> QED BY <2>1
<1>7. Cardinality(s \ {x}) = m - 1 /\ s \ {x} \in SUBSET S /\ m \in Nat
  BY <1>1, <1>5, FS_RemoveElement
<1>8. m - 1 \in Bad
  BY <1>5, <1>6, <1>7
<1> HIDE DEF Bad
<1> QED BY <1>4, <1>7, <1>8

(* The sum of a function on a finite set that grows by y.                  *)
LEMMA SumExtended ==
  ASSUME NEW S, IsFiniteSet(S), NEW f \in [S -> Int], NEW T \in SUBSET S, NEW y \in S \ T
  PROVE  /\ SumFunction(Restrict(f, T \cup {y})) = SumFunction(Restrict(f, T)) + f[y]
         /\ SumFunction(Restrict(f, T)) \in Int
<1> DEFINE a == Restrict(f, T)
           b == Restrict(f, T \cup {y})
<1>1. IsFiniteSet(T) /\ DOMAIN a = T /\ DOMAIN b = T \cup {y} /\ y \notin T
  BY FS_Subset DEF Restrict
<1>2. a \in [T -> Int] /\ b \in [T \cup {y} -> Int] /\ b[y] = f[y] /\ \A x \in T : a[x] = b[x]
  BY DEF Restrict
<1> HIDE DEF a, b
<1>3. SumFunctionOnSet(b, T \cup {y}) = SumFunctionOnSet(a, T) + b[y]
  BY <1>1, <1>2, SumOfOneMore
<1>4. SumFunctionOnSet(a, T) \in Int
  BY <1>1, <1>2, SumIsInt
<1>5. SumFunction(b) = SumFunction(a) + f[y] /\ SumFunction(a) \in Int
  BY <1>1, <1>2, <1>3, <1>4 DEF SumFunction
<1> QED BY <1>5 DEF a, b

(* The sum over two disjoint sets.                                         *)
LEMMA SumOfUnion ==
  ASSUME NEW S, IsFiniteSet(S), NEW f \in [S -> Int], NEW T \in SUBSET S, NEW U \in SUBSET S, T \cap U = {}
  PROVE  SumFunction(Restrict(f, T \cup U)) = SumFunction(Restrict(f, T)) + SumFunction(Restrict(f, U))
<1> DEFINE sum(s) == SumFunction(Restrict(f, s))
           B == {s \in SUBSET U : sum(T \cup s) = sum(T) + sum(s)}
<1>1. {} \in B
  <2>1. Restrict(f, {}) \in [{} -> Int] /\ DOMAIN Restrict(f, {}) = {}
    BY DEF Restrict
  <2>2. sum({}) = 0
    BY <2>1, SumOfNothing DEF SumFunction
  <2>3. IsFiniteSet(T) /\ Restrict(f, T) \in [T -> Int] /\ DOMAIN Restrict(f, T) = T
    BY FS_Subset DEF Restrict
  <2>4. sum(T) \in Int
    BY <2>3, SumIsInt DEF SumFunction
  <2>5. T \cup {} = T
    OBVIOUS
  <2> HIDE DEF sum
  <2> QED BY <2>2, <2>4, <2>5
<1>2. \A s \in SUBSET U : s # {} => \E x \in s : s \ {x} \in B => s \in B
  <2> SUFFICES ASSUME NEW s \in SUBSET U, NEW x \in s, s \ {x} \in B PROVE s \in B
    OBVIOUS
  <2> DEFINE r == s \ {x}
  <2>1. r \cup {x} = s /\ (T \cup r) \cup {x} = T \cup s /\ r \in SUBSET S /\ x \in S \ r
        /\ T \cup r \in SUBSET S /\ x \in S \ (T \cup r)
    OBVIOUS
  <2>2. sum(T \cup r) = sum(T) + sum(r)
    OBVIOUS
  <2> HIDE DEF r
  <2>3. sum(r \cup {x}) = sum(r) + f[x] /\ sum(r) \in Int
    BY <2>1, SumExtended
  <2>4. sum((T \cup r) \cup {x}) = sum(T \cup r) + f[x]
    <3> DEFINE w == T \cup r
    <3>1. w \in SUBSET S /\ x \in S \ w
      BY <2>1
    <3> HIDE DEF w
    <3>2. sum(w \cup {x}) = sum(w) + f[x]
      BY <3>1, SumExtended
    <3> QED BY <3>2 DEF w
  <2>5. f[x] \in Int
    BY <2>1
  <2>6. sum(T) \in Int
    <3>1. IsFiniteSet(T) /\ Restrict(f, T) \in [T -> Int] /\ DOMAIN Restrict(f, T) = T
      BY FS_Subset DEF Restrict
    <3> QED BY <3>1, SumIsInt DEF SumFunction
  <2> HIDE DEF sum
  <2>7. sum(s) = sum(r) + f[x] /\ sum(T \cup s) = (sum(T) + sum(r)) + f[x]
    BY <2>1, <2>2, <2>3, <2>4
  <2>8. sum(T \cup s) = sum(T) + sum(s)
    <3> DEFINE i == sum(T)
               j == sum(r)
               k == f[x]
    <3>1. sum(s) = j + k /\ sum(T \cup s) = (i + j) + k /\ i \in Int /\ j \in Int /\ k \in Int
      BY <2>3, <2>5, <2>6, <2>7
    <3> HIDE DEF i, j, k
    <3>2. sum(T \cup s) = i + sum(s)
      BY <3>1
    <3> QED BY <3>2 DEF i
  <2> QED BY <2>8
<1>3. IsFiniteSet(U)
  BY FS_Subset
<1> HIDE DEF B
<1>4. U \in B
  BY <1>1, <1>2, <1>3, FiniteInduction
<1> QED BY <1>4 DEF B

(* Zeroes do not count.                                                    *)
LEMMA SumOfZeroes ==
  ASSUME NEW S, IsFiniteSet(S), NEW f \in [S -> Int], NEW T \in SUBSET S, \A x \in S \ T : f[x] = 0
  PROVE  SumFunction(f) = SumFunction(Restrict(f, T))
<1> DEFINE sum(s) == SumFunction(Restrict(f, s))
           B == {s \in SUBSET (S \ T) : sum(T \cup s) = sum(T)}
<1>1. {} \in B
  <2>1. T \cup {} = T
    OBVIOUS
  <2> QED BY <2>1
<1>2. \A s \in SUBSET (S \ T) : s # {} => \E x \in s : s \ {x} \in B => s \in B
  <2> SUFFICES ASSUME NEW s \in SUBSET (S \ T), NEW x \in s, s \ {x} \in B PROVE s \in B
    OBVIOUS
  <2> DEFINE r == s \ {x}
  <2>1. (T \cup r) \cup {x} = T \cup s /\ T \cup r \in SUBSET S /\ x \in S \ (T \cup r)
    OBVIOUS
  <2>2. sum(T \cup r) = sum(T)
    OBVIOUS
  <2> HIDE DEF r
  <2>3. sum((T \cup r) \cup {x}) = sum(T \cup r) + f[x] /\ sum(T \cup r) \in Int
    BY <2>1, SumExtended
  <2>4. f[x] = 0
    OBVIOUS
  <2> HIDE DEF sum
  <2>5. sum(T \cup s) = sum(T \cup r) + 0 /\ sum(T \cup r) \in Int
    BY <2>1, <2>3, <2>4
  <2>6. sum(T \cup s) = sum(T)
    <3> DEFINE i == sum(T \cup r)
    <3>1. sum(T \cup s) = i + 0 /\ i \in Int /\ sum(T) = i
      BY <2>2, <2>5
    <3> HIDE DEF i
    <3> QED BY <3>1
  <2> QED BY <2>6
<1>3. IsFiniteSet(S \ T)
  BY FS_Subset
<1> HIDE DEF B
<1>4. S \ T \in B
  BY <1>1, <1>2, <1>3, FiniteInduction
<1>5. T \cup (S \ T) = S
  OBVIOUS
<1>6. Restrict(f, S) = f
  BY DEF Restrict
<1> QED BY <1>4, <1>5, <1>6 DEF B

(* A sum changes by as much as one of its summands.                        *)
LEMMA SumChanged ==
  ASSUME NEW S, IsFiniteSet(S), NEW y \in S, NEW f \in [S -> Int], NEW h \in [S -> Int],
         \A x \in S \ {y} : f[x] = h[x]
  PROVE  /\ SumFunction(h) = SumFunction(f) + (h[y] - f[y])
         /\ SumFunction(f) \in Int
<1> DEFINE T == S \ {y}
<1>1. T \in SUBSET S /\ y \in S \ T /\ T \cup {y} = S
  OBVIOUS
<1>2. Restrict(f, T) = Restrict(h, T) /\ Restrict(f, S) = f /\ Restrict(h, S) = h
  BY DEF Restrict
<1>3. f[y] \in Int /\ h[y] \in Int
  OBVIOUS
<1> HIDE DEF T
<1>4. SumFunction(f) = SumFunction(Restrict(f, T)) + f[y] /\ SumFunction(Restrict(f, T)) \in Int
  <2>1. SumFunction(Restrict(f, T \cup {y})) = SumFunction(Restrict(f, T)) + f[y] /\ SumFunction(Restrict(f, T)) \in Int
    BY <1>1, SumExtended
  <2> QED BY <1>1, <1>2, <2>1
<1>5. SumFunction(h) = SumFunction(Restrict(h, T)) + h[y]
  <2>1. SumFunction(Restrict(h, T \cup {y})) = SumFunction(Restrict(h, T)) + h[y]
    BY <1>1, SumExtended
  <2> QED BY <1>1, <1>2, <2>1
<1> QED BY <1>2, <1>3, <1>4, <1>5

(* The sum of what is left when some summands are set to 0.                *)
LEMMA SumWithout ==
  ASSUME NEW S, IsFiniteSet(S), NEW L \in SUBSET S, NEW f \in [S -> Int], NEW g \in [S -> Int],
         \A x \in L : g[x] = 0, \A x \in S \ L : g[x] = f[x]
  PROVE  /\ SumFunction(f) = SumFunction(Restrict(f, L)) + SumFunction(g)
         /\ SumFunction(Restrict(f, L)) \in Int
         /\ SumFunction(g) \in Int
<1> DEFINE R == S \ L
<1>1. R \in SUBSET S /\ L \cap R = {} /\ L \cup R = S /\ \A x \in S \ R : g[x] = 0
  OBVIOUS
<1>2. Restrict(f, S) = f /\ Restrict(f, R) = Restrict(g, R)
  BY DEF Restrict
<1>3. IsFiniteSet(L) /\ Restrict(f, L) \in [L -> Int] /\ DOMAIN Restrict(f, L) = L /\ DOMAIN g = S
  BY FS_Subset DEF Restrict
<1> HIDE DEF R
<1>4. SumFunction(Restrict(f, L \cup R)) = SumFunction(Restrict(f, L)) + SumFunction(Restrict(f, R))
  BY <1>1, SumOfUnion
<1>5. SumFunction(g) = SumFunction(Restrict(g, R))
  BY <1>1, SumOfZeroes
<1>6. SumFunction(Restrict(f, L)) \in Int /\ SumFunction(g) \in Int
  BY <1>3, SumIsInt DEF SumFunction
<1> QED BY <1>1, <1>2, <1>4, <1>5, <1>6

(* A sum does not shrink when no summand does.                             *)
LEMMA SumMonotone ==
  ASSUME NEW S, IsFiniteSet(S), NEW f \in [S -> Int], NEW g \in [S -> Int], \A x \in S : f[x] <= g[x]
  PROVE  SumFunction(f) <= SumFunction(g) /\ SumFunction(f) \in Int /\ SumFunction(g) \in Int
<1> DEFINE a(s) == SumFunction(Restrict(f, s))
           b(s) == SumFunction(Restrict(g, s))
           B == {s \in SUBSET S : a(s) <= b(s) /\ a(s) \in Int /\ b(s) \in Int}
<1>1. {} \in B
  <2>1. /\ Restrict(f, {}) \in [{} -> Int] /\ DOMAIN Restrict(f, {}) = {}
        /\ Restrict(g, {}) \in [{} -> Int] /\ DOMAIN Restrict(g, {}) = {}
    BY DEF Restrict
  <2>2. a({}) = 0 /\ b({}) = 0
    BY <2>1, SumOfNothing DEF SumFunction
  <2> HIDE DEF a, b
  <2> QED BY <2>2
<1>2. \A s \in SUBSET S : s # {} => \E x \in s : s \ {x} \in B => s \in B
  <2> SUFFICES ASSUME NEW s \in SUBSET S, NEW x \in s, s \ {x} \in B PROVE s \in B
    OBVIOUS
  <2> DEFINE r == s \ {x}
  <2>1. r \cup {x} = s /\ r \in SUBSET S /\ x \in S \ r
    OBVIOUS
  <2>2. a(r) <= b(r) /\ a(r) \in Int /\ b(r) \in Int
    OBVIOUS
  <2> HIDE DEF r
  <2>3. a(r \cup {x}) = a(r) + f[x] /\ b(r \cup {x}) = b(r) + g[x]
    BY <2>1, SumExtended
  <2>4. PICK i \in Int, j \in Int, y \in Int, z \in Int : i = a(r) /\ j = b(r) /\ y = f[x] /\ z = g[x]
    BY <2>1, <2>2
  <2> HIDE DEF a, b
  <2>5. a(s) = i + y /\ b(s) = j + z
    BY <2>1, <2>3, <2>4
  <2>6. i <= j /\ y <= z
    BY <2>1, <2>2, <2>4
  <2> QED BY <2>5, <2>6
<1> HIDE DEF B
<1>3. S \in B
  BY <1>1, <1>2, FiniteInduction
<1>4. Restrict(f, S) = f /\ Restrict(g, S) = g
  BY DEF Restrict
<1> QED BY <1>3, <1>4 DEF B
=============================================================================
