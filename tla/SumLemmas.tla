------------------------------ MODULE SumLemmas ------------------------------
(***************************************************************************)
(* Sums of a function over a finite set (SumFunctionOnSet, of the          *)
(* community modules): the sum of nothing is 0, an element can be taken    *)
(* out of a sum, and sums of amounts grow with the set.                    *)
(*                                                                         *)
(* The sum is defined by recursion over subsets.  Induction is used in its *)
(* first-order form: a nonempty collection of subsets of a finite set has  *)
(* a least member.                                                         *)
(***************************************************************************)
EXTENDS Integers, FiniteSets, FiniteSetsExt, FiniteSetTheorems, TLAPS

(* Every nonempty collection of subsets of a finite set has a least one.   *)
LEMMA LeastSubset ==
  ASSUME NEW S, IsFiniteSet(S), NEW B, \A T \in B : T \subseteq S, B # {}
  PROVE  \E T \in B : \A U \in B : U \subseteq T => U = T
<1>1. B \subseteq SUBSET S /\ B \subseteq FiniteSubsetsOf(S)
  BY FS_FiniteSubsetsOfFinite
<1>2. PICK T \in B : \A U \in B : ~ (<<U, T>> \in StrictSubsetOrdering(S))
  BY <1>1, WFMin, FS_StrictSubsetOrderingWellFounded
<1>3. \A U \in B : U \subseteq T /\ U # T => <<U, T>> \in StrictSubsetOrdering(S)
  BY <1>1 DEF StrictSubsetOrdering
<1>4. \A U \in B : U \subseteq T => U = T
  <2> TAKE U \in B
  <2>1. ~ (U \subseteq T /\ U # T)
    BY <1>2, <1>3
  <2> QED BY <2>1
<1> QED BY <1>4

-----------------------------------------------------------------------------
(* The element a sum takes next, and the table of the sums of all subsets. *)
Pick(s) == CHOOSE x \in s : TRUE

Table(f, S, g) ==
  g = [s \in SUBSET S |-> IF s = {} THEN 0 ELSE f[Pick(s)] + g[s \ {Pick(s)}]]

(* What a sum takes next is in its set.                                    *)
LEMMA PickIsMember == ASSUME NEW s, s # {} PROVE Pick(s) \in s
BY DEF Pick

(* A table at one subset.                                                  *)
LEMMA TableAt ==
  ASSUME NEW f, NEW S, NEW g, Table(f, S, g), NEW s \in SUBSET S
  PROVE  g[s] = IF s = {} THEN 0 ELSE f[Pick(s)] + g[s \ {Pick(s)}]
<1> DEFINE row(t) == IF t = {} THEN 0 ELSE f[Pick(t)] + g[t \ {Pick(t)}]
<1>1. g = [t \in SUBSET S |-> row(t)]
  BY DEF Table
<1> HIDE DEF row
<1>2. g[s] = row(s)
  BY <1>1
<1> QED BY <1>2 DEF row

(* Two tables agree wherever both are defined.                             *)
LEMMA TablesAgree ==
  ASSUME NEW f, NEW S, IsFiniteSet(S), NEW V, NEW g, NEW h,
         Table(f, S, g), Table(f, V, h),
         NEW T \in SUBSET S, T \in SUBSET V
  PROVE  g[T] = h[T]
<1> DEFINE Bad == {s \in SUBSET S : s \in SUBSET V /\ g[s] # h[s]}
<1>1. SUFFICES ASSUME Bad # {} PROVE FALSE
  OBVIOUS
<1>2. PICK s \in Bad : \A u \in Bad : u \subseteq s => u = s
  <2>1. \A s \in Bad : s \subseteq S
    OBVIOUS
  <2> HIDE DEF Bad
  <2> QED BY <1>1, <2>1, LeastSubset
<1>3. s # {} => s \ {Pick(s)} \notin Bad
  BY <1>2, PickIsMember
<1>4. s \in SUBSET S /\ s \in SUBSET V /\ g[s] # h[s]
  BY <1>2
<1>5. s # {} => g[s \ {Pick(s)}] = h[s \ {Pick(s)}]
  BY <1>3, <1>4
<1>6. /\ g[s] = IF s = {} THEN 0 ELSE f[Pick(s)] + g[s \ {Pick(s)}]
      /\ h[s] = IF s = {} THEN 0 ELSE f[Pick(s)] + h[s \ {Pick(s)}]
  BY <1>4, TableAt
<1> QED BY <1>4, <1>5, <1>6

LEMMA TableExists ==
  ASSUME NEW f, NEW S, IsFiniteSet(S)
  PROVE  \E g : Table(f, S, g)
<1> DEFINE Bad == {T \in SUBSET S : ~ \E g : Table(f, T, g)}
<1>1. SUFFICES ASSUME Bad # {} PROVE FALSE
  OBVIOUS
<1>2. PICK T \in Bad : \A U \in Bad : U \subseteq T => U = T
  <2>1. \A T \in Bad : T \subseteq S
    OBVIOUS
  <2> HIDE DEF Bad
  <2> QED BY <1>1, <2>1, LeastSubset
<1> DEFINE G(U) == CHOOSE g : Table(f, U, g)
           rest(s) == s \ {Pick(s)}
           val(s) == IF s = {} THEN 0 ELSE f[Pick(s)] + G(rest(s))[rest(s)]
           h == [s \in SUBSET T |-> val(s)]
<1>3. \A U \in SUBSET T : U # T => Table(f, U, G(U)) /\ IsFiniteSet(U)
  BY <1>2, FS_Subset
<1>4. ASSUME NEW s \in SUBSET T, s # {}
      PROVE  rest(s) \in SUBSET T /\ rest(s) # T /\ h[rest(s)] = G(rest(s))[rest(s)]
  <2> DEFINE u == rest(s)
  <2>1. u \in SUBSET T /\ u # T
    BY <1>4, PickIsMember
  <2>2. Table(f, u, G(u)) /\ IsFiniteSet(u)
    BY <1>3, <2>1
  <2>3. G(u)[u] = IF u = {} THEN 0 ELSE f[Pick(u)] + G(u)[rest(u)]
    <3> HIDE DEF u, G
    <3> QED BY <2>2, TableAt
  <2>4. u # {} => G(u)[rest(u)] = G(rest(u))[rest(u)]
    <3> SUFFICES ASSUME u # {} PROVE G(u)[rest(u)] = G(rest(u))[rest(u)]
      OBVIOUS
    <3> DEFINE w == rest(u)
    <3>1. w \in SUBSET u /\ w \in SUBSET T /\ w # T
      BY <2>1, PickIsMember
    <3>2. Table(f, w, G(w))
      BY <1>3, <3>1
    <3> HIDE DEF w, u, G
    <3>3. G(u)[w] = G(w)[w]
      BY <2>2, <3>1, <3>2, TablesAgree
    <3> QED BY <3>3 DEF w
  <2>5. h[u] = val(u)
    <3> HIDE DEF val, u
    <3> QED BY <2>1
  <2>6. val(u) = G(u)[u]
    <3> HIDE DEF u, G, rest
    <3> QED BY <2>3, <2>4
  <2> QED BY <2>1, <2>5, <2>6
<1>5. \A s \in SUBSET T : val(s) = IF s = {} THEN 0 ELSE f[Pick(s)] + h[s \ {Pick(s)}]
  <2> TAKE s \in SUBSET T
  <2> HIDE DEF h, G
  <2> QED BY <1>4
<1>6. Table(f, T, h)
  <2> HIDE DEF val
  <2> QED BY <1>5 DEF Table
<1> QED BY <1>2, <1>6

-----------------------------------------------------------------------------
(* A sum over a finite set is the last entry of its table.                 *)
LEMMA SumIsTable ==
  ASSUME NEW f, NEW S, IsFiniteSet(S)
  PROVE  \E g : Table(f, S, g) /\ SumFunctionOnSet(f, S) = g[S]
<1>1. SumFunctionOnSet(f, S) = (CHOOSE g : Table(f, S, g))[S]
  BY DEF SumFunctionOnSet, FoldFunctionOnSet, MapThenFoldSet, Table, Pick
<1>2. Table(f, S, CHOOSE g : Table(f, S, g))
  BY TableExists
<1> QED BY <1>1, <1>2

(* A sum of nothing.                                                       *)
LEMMA SumOfNothing == ASSUME NEW f PROVE SumFunctionOnSet(f, {}) = 0
<1>1. PICK g : Table(f, {}, g) /\ SumFunctionOnSet(f, {}) = g[{}]
  BY SumIsTable, FS_EmptySet
<1> QED BY <1>1, TableAt

(* A sum is its next element and the sum of the rest.                      *)
LEMMA SumPicks ==
  ASSUME NEW f, NEW S, IsFiniteSet(S), S # {}
  PROVE  SumFunctionOnSet(f, S) = f[Pick(S)] + SumFunctionOnSet(f, S \ {Pick(S)})
<1> DEFINE R == S \ {Pick(S)}
<1>1. R \in SUBSET S /\ IsFiniteSet(R)
  BY FS_Subset
<1>2. PICK g : Table(f, S, g) /\ SumFunctionOnSet(f, S) = g[S]
  BY SumIsTable
<1> HIDE DEF R
<1>3. PICK h : Table(f, R, h) /\ SumFunctionOnSet(f, R) = h[R]
  BY <1>1, SumIsTable
<1>4. g[R] = h[R]
  BY <1>1, <1>2, <1>3, TablesAgree
<1>5. g[S] = f[Pick(S)] + g[R]
  BY <1>2, TableAt DEF R
<1> QED BY <1>2, <1>3, <1>4, <1>5 DEF R

(* Sums of integers are integers.                                          *)
LEMMA SumIsInteger ==
  ASSUME NEW f, NEW S, IsFiniteSet(S), \A x \in S : f[x] \in Int
  PROVE  SumFunctionOnSet(f, S) \in Int
<1> DEFINE Bad == {T \in SUBSET S : SumFunctionOnSet(f, T) \notin Int}
<1>1. SUFFICES ASSUME Bad # {} PROVE FALSE
  OBVIOUS
<1>2. PICK T \in Bad : \A U \in Bad : U \subseteq T => U = T
  <2>1. \A T \in Bad : T \subseteq S
    OBVIOUS
  <2> HIDE DEF Bad
  <2> QED BY <1>1, <2>1, LeastSubset
<1>3. T # {}
  BY <1>2, SumOfNothing
<1>4. Pick(T) \in T /\ T \ {Pick(T)} \notin Bad /\ IsFiniteSet(T)
  BY <1>2, <1>3, PickIsMember, FS_Subset
<1>5. SumFunctionOnSet(f, T) = f[Pick(T)] + SumFunctionOnSet(f, T \ {Pick(T)})
  BY <1>3, <1>4, SumPicks
<1>6. SumFunctionOnSet(f, T \ {Pick(T)}) \in Int /\ f[Pick(T)] \in Int
  BY <1>4
<1> QED BY <1>2, <1>5, <1>6

(* Any element may be taken out of a sum.                                  *)
LEMMA SumTakesOut ==
  ASSUME NEW f, NEW S, IsFiniteSet(S), \A x \in S : f[x] \in Int, NEW x \in S
  PROVE  SumFunctionOnSet(f, S) = f[x] + SumFunctionOnSet(f, S \ {x})
<1> DEFINE Sum(T) == SumFunctionOnSet(f, T)
           Bad == {T \in SUBSET S : \E y \in T : Sum(T) # f[y] + Sum(T \ {y})}
<1>1. SUFFICES ASSUME Bad # {} PROVE FALSE
  OBVIOUS
<1>2. PICK T \in Bad : \A U \in Bad : U \subseteq T => U = T
  <2>1. \A T \in Bad : T \subseteq S
    OBVIOUS
  <2> HIDE DEF Bad
  <2> QED BY <1>1, <2>1, LeastSubset
<1>3. PICK y \in T : Sum(T) # f[y] + Sum(T \ {y})
  BY <1>2
<1> DEFINE p == Pick(T)
<1>4. /\ IsFiniteSet(T) /\ IsFiniteSet(T \ {p}) /\ IsFiniteSet(T \ {y})
      /\ IsFiniteSet((T \ {p}) \ {y}) /\ T \in SUBSET S /\ p \in T
  BY <1>2, <1>3, FS_Subset, FS_RemoveElement, PickIsMember
<1>5. Sum(T) = f[p] + Sum(T \ {p})
  BY <1>4, SumPicks
<1> HIDE DEF p
<1>6. y # p
  BY <1>3, <1>5
<1>7. T \ {p} \notin Bad /\ T \ {y} \notin Bad
  BY <1>2, <1>3, <1>4
<1>8. Sum(T \ {p}) = f[y] + Sum((T \ {p}) \ {y})
  BY <1>3, <1>4, <1>6, <1>7
<1>9. Sum(T \ {y}) = f[p] + Sum((T \ {y}) \ {p})
  BY <1>3, <1>4, <1>6, <1>7
<1>10. (T \ {y}) \ {p} = (T \ {p}) \ {y}
  OBVIOUS
<1>11. Sum((T \ {p}) \ {y}) \in Int
  BY <1>4, SumIsInteger
<1>12. f[p] \in Int /\ f[y] \in Int
  BY <1>4
<1>13. Sum((T \ {y}) \ {p}) = Sum((T \ {p}) \ {y})
  BY <1>10
<1> HIDE DEF Sum, Bad
<1>14. \A a, b, c \in Int : a + (b + c) = b + (a + c)
  OBVIOUS
<1>15. Sum(T) = f[p] + (f[y] + Sum((T \ {p}) \ {y}))
  BY <1>5, <1>8
<1>16. f[y] + Sum(T \ {y}) = f[y] + (f[p] + Sum((T \ {p}) \ {y}))
  BY <1>9, <1>13
<1> QED BY <1>3, <1>11, <1>12, <1>14, <1>15, <1>16

(* An element added to a set is added to the sum.                          *)
LEMMA SumAdds ==
  ASSUME NEW f, NEW S, IsFiniteSet(S), NEW x, x \notin S,
         \A y \in S \cup {x} : f[y] \in Int
  PROVE  SumFunctionOnSet(f, S \cup {x}) = f[x] + SumFunctionOnSet(f, S)
<1>1. IsFiniteSet(S \cup {x}) /\ (S \cup {x}) \ {x} = S
  BY FS_AddElement
<1> QED BY <1>1, SumTakesOut

(* Only the values on the set count.                                       *)
LEMMA SumsAgree ==
  ASSUME NEW f, NEW g, NEW S, IsFiniteSet(S), \A x \in S : f[x] = g[x]
  PROVE  SumFunctionOnSet(f, S) = SumFunctionOnSet(g, S)
<1> DEFINE Bad == {T \in SUBSET S : SumFunctionOnSet(f, T) # SumFunctionOnSet(g, T)}
<1>1. SUFFICES ASSUME Bad # {} PROVE FALSE
  OBVIOUS
<1>2. PICK T \in Bad : \A U \in Bad : U \subseteq T => U = T
  <2>1. \A T \in Bad : T \subseteq S
    OBVIOUS
  <2> HIDE DEF Bad
  <2> QED BY <1>1, <2>1, LeastSubset
<1>3. T # {}
  BY <1>2, SumOfNothing
<1>4. Pick(T) \in T /\ T \ {Pick(T)} \notin Bad /\ IsFiniteSet(T)
  BY <1>2, <1>3, PickIsMember, FS_Subset
<1>5. /\ SumFunctionOnSet(f, T) = f[Pick(T)] + SumFunctionOnSet(f, T \ {Pick(T)})
      /\ SumFunctionOnSet(g, T) = g[Pick(T)] + SumFunctionOnSet(g, T \ {Pick(T)})
  BY <1>3, <1>4, SumPicks
<1> QED BY <1>2, <1>4, <1>5

(* Amounts not below 0 sum up to no less over more.                        *)
LEMMA SumGrows ==
  ASSUME NEW f, NEW S, IsFiniteSet(S), \A x \in S : f[x] \in Nat, NEW R \in SUBSET S
  PROVE  SumFunctionOnSet(f, R) <= SumFunctionOnSet(f, S)
<1> DEFINE Sum(T) == SumFunctionOnSet(f, T)
           Bad == {T \in SUBSET S : R \subseteq T /\ ~(Sum(R) <= Sum(T))}
<1>1. SUFFICES ASSUME Bad # {} PROVE FALSE
  OBVIOUS
<1>2. PICK T \in Bad : \A U \in Bad : U \subseteq T => U = T
  <2>1. \A T \in Bad : T \subseteq S
    OBVIOUS
  <2> HIDE DEF Bad
  <2> QED BY <1>1, <2>1, LeastSubset
<1>3. T \in SUBSET S /\ R \subseteq T /\ ~(Sum(R) <= Sum(T))
  BY <1>2
<1>4. \A U \in SUBSET S : Sum(U) \in Int
  <2> TAKE U \in SUBSET S
  <2>1. IsFiniteSet(U) /\ \A x \in U : f[x] \in Int
    BY FS_Subset
  <2> QED BY <2>1, SumIsInteger
<1>5. PICK y \in T : y \notin R
  <2>1. Sum(R) \in Int
    BY <1>4
  <2>2. R # T
    <3> HIDE DEF Sum
    <3> QED BY <1>3, <2>1
  <2> QED BY <1>3, <2>2
<1>6. T \ {y} \notin Bad /\ R \subseteq T \ {y} /\ T \ {y} \in SUBSET S
  BY <1>2, <1>3, <1>5
<1>7. Sum(R) <= Sum(T \ {y})
  BY <1>6
<1>8. Sum(T) = f[y] + Sum(T \ {y})
  <2>1. IsFiniteSet(T) /\ \A x \in T : f[x] \in Int
    BY <1>3, FS_Subset
  <2> QED BY <2>1, SumTakesOut
<1>9. Sum(R) \in Int /\ Sum(T \ {y}) \in Int /\ f[y] \in Nat
  BY <1>3, <1>4, <1>6
<1> HIDE DEF Sum
<1> QED BY <1>3, <1>7, <1>8, <1>9
=============================================================================
