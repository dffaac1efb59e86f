-------------------------------- MODULE Sums --------------------------------
(***************************************************************************)
(* Sums over finite sets: the laws of the community modules' SumFunction   *)
(* that the proofs about the counters need.  The sum is defined by a       *)
(* recursion over the subsets of its domain that takes the elements in the *)
(* order CHOOSE gives; that any order gives the same sum is proved here    *)
(* by induction over finite sets.                                          *)
(***************************************************************************)
EXTENDS Integers, FiniteSets, Functions, FiniteSetTheorems, WellFoundedInduction, TLAPS

(* The recursion behind SumFunctionOnSet. *)
First(s) == CHOOSE x \in s : TRUE
Unfold(f, S, g) ==
    g = [s \in SUBSET S |-> IF s = {} THEN 0 ELSE f[First(s)] + g[s \ {First(s)}]]
Partial(f, S) == CHOOSE g : Unfold(f, S, g)

(* A sum is the last value of the recursion. *)
LEMMA SumIsPartial == \A f, S : SumFunctionOnSet(f, S) = Partial(f, S)[S]
BY DEF SumFunctionOnSet, FoldFunctionOnSet, MapThenFoldSet, Partial, Unfold, First

(* CHOOSE takes a member. *)
LEMMA FirstIn == ASSUME NEW s, s # {} PROVE First(s) \in s
BY DEF First

(* A family of subsets of a finite set has a smallest member. *)
LEMMA SmallestSet ==
    ASSUME NEW S, IsFiniteSet(S), NEW B, B \subseteq SUBSET S, B # {}
    PROVE  \E T \in B : \A U \in SUBSET T : U # T => U \notin B
<1>1. SUBSET S = FiniteSubsetsOf(S)
  BY FS_FiniteSubsetsOfFinite
<1>2. IsWellFoundedOn(StrictSubsetOrdering(S), FiniteSubsetsOf(S))
  BY FS_StrictSubsetOrderingWellFounded
<1>3. PICK T \in B : \A U \in B : ~(<<U, T>> \in StrictSubsetOrdering(S))
  BY <1>1, <1>2, WFMin
<1>4. ASSUME NEW U \in SUBSET T, U # T, U \in B PROVE FALSE
  <2>1. <<U, T>> \in StrictSubsetOrdering(S)
    BY <1>4 DEF StrictSubsetOrdering
  <2> QED
    BY <1>3, <1>4, <2>1
<1> QED
  BY <1>3, <1>4

(* A family that holds the empty set, and with a set each of its extensions, holds the set. *)
LEMMA SetInduction ==
    ASSUME NEW S, IsFiniteSet(S), NEW G, {} \in G,
           \A T \in SUBSET S : \A x \in S \ T : T \in G => T \cup {x} \in G
    PROVE  S \in G
<1> SUFFICES ASSUME S \notin G PROVE FALSE
  OBVIOUS
<1> DEFINE B == (SUBSET S) \ G
<1>1. B # {} /\ B \subseteq SUBSET S
  OBVIOUS
<1> HIDE DEF B
<1>2. PICK T \in B : \A U \in SUBSET T : U # T => U \notin B
  BY <1>1, SmallestSet
<1>3. PICK x \in T : TRUE
  BY <1>2 DEF B
<1>4. T \ {x} \in SUBSET T /\ T \ {x} # T /\ T \ {x} \in SUBSET S /\ x \in S \ (T \ {x})
  BY <1>1, <1>3
<1>5. T \ {x} \in G
  BY <1>2, <1>4 DEF B
<1>6. (T \ {x}) \cup {x} = T
  BY <1>3
<1> QED
  BY <1>4, <1>5, <1>6 DEF B

(* The recursion over a subset gives the same values. *)
LEMMA PartialAgree ==
    ASSUME NEW f, NEW S, IsFiniteSet(S), NEW T, T \subseteq S, NEW g, NEW h, Unfold(f, S, g), Unfold(f, T, h),
           NEW s \in SUBSET T
    PROVE  g[s] = h[s]
<1> DEFINE B == {t \in SUBSET T : g[t] # h[t]}
<1> SUFFICES ASSUME B # {} PROVE FALSE
  OBVIOUS
<1>1. IsFiniteSet(T)
  BY FS_Subset
<1>2. PICK t \in B : \A u \in SUBSET t : u # t => u \notin B
  BY <1>1, SmallestSet
<1>3. t # {} 
  BY <1>2 DEF Unfold
<1>4. First(t) \in t
  BY <1>3, FirstIn
<1>5. g[t \ {First(t)}] = h[t \ {First(t)}]
  BY <1>2, <1>4
<1>6. g[t] = f[First(t)] + g[t \ {First(t)}] /\ h[t] = f[First(t)] + h[t \ {First(t)}]
  BY <1>2, <1>3 DEF Unfold
<1> QED
  BY <1>2, <1>5, <1>6

(* The recursion has a solution. *)
LEMMA PartialExists ==
    ASSUME NEW f, NEW S, IsFiniteSet(S)
    PROVE  Unfold(f, S, Partial(f, S))
<1> DEFINE B == {T \in SUBSET S : ~ \E g : Unfold(f, T, g)}
<1> SUFFICES B = {}
  <2>1. S \notin B
    OBVIOUS
  <2> QED
    BY <2>1 DEF Partial
<1> SUFFICES ASSUME B # {} PROVE FALSE
  OBVIOUS
<1>0. B \subseteq SUBSET S
  OBVIOUS
<1> HIDE DEF B
<1>1. PICK T \in B : \A U \in SUBSET T : U # T => U \notin B
  BY <1>0, SmallestSet
<1> USE DEF B
<1>2. \A U \in SUBSET T : U # T => Unfold(f, U, Partial(f, U))
  BY <1>1 DEF Partial
<1> DEFINE G == [s \in SUBSET T |->
                   IF s = {} THEN 0 ELSE f[First(s)] + Partial(f, s \ {First(s)})[s \ {First(s)}]]
<1>3. ASSUME NEW s \in SUBSET T, s # T PROVE G[s] = Partial(f, s)[s]
  <2>1. CASE s = {}
    BY <1>2, <1>3, <2>1 DEF Unfold
  <2>2. CASE s # {}
    <3>1. First(s) \in s
      BY <2>2, FirstIn
    <3> DEFINE u == s \ {First(s)}
    <3>2. Unfold(f, s, Partial(f, s)) /\ Unfold(f, u, Partial(f, u))
      BY <1>2, <1>3, <3>1
    <3>3. IsFiniteSet(s)
      BY FS_Subset
    <3>4. Partial(f, s)[u] = Partial(f, u)[u]
      BY <3>2, <3>3, PartialAgree
    <3>5. Partial(f, s)[s] = f[First(s)] + Partial(f, s)[u]
      BY <2>2, <3>2 DEF Unfold
    <3> QED
      BY <2>2, <3>4, <3>5
  <2> QED
    BY <2>1, <2>2
<1>4. ASSUME NEW s \in SUBSET T, s # {} PROVE G[s] = f[First(s)] + G[s \ {First(s)}]
  <2>1. First(s) \in s
    BY <1>4, FirstIn
  <2>2. s \ {First(s)} \in SUBSET T /\ s \ {First(s)} # T
    BY <2>1
  <2>3. G[s \ {First(s)}] = Partial(f, s \ {First(s)})[s \ {First(s)}]
    BY <1>3, <2>2
  <2> QED
    BY <1>4, <2>3
<1>5. Unfold(f, T, G)
  BY <1>4 DEF Unfold
<1> QED
  BY <1>1, <1>5

(* The equation of the sum, with the element CHOOSE takes first. *)
LEMMA SumFirst ==
    ASSUME NEW f, NEW S, IsFiniteSet(S)
    PROVE  SumFunctionOnSet(f, S) =
             IF S = {} THEN 0 ELSE f[First(S)] + SumFunctionOnSet(f, S \ {First(S)})
<1>1. Unfold(f, S, Partial(f, S))
  BY PartialExists
<1>2. CASE S = {}
  BY <1>1, <1>2, SumIsPartial DEF Unfold
<1>3. CASE S # {}
  <2> DEFINE u == S \ {First(S)}
  <2>1. First(S) \in S
    BY <1>3, FirstIn
  <2>2. IsFiniteSet(u) 
    BY FS_Subset
  <2>3. Unfold(f, u, Partial(f, u)) /\ u \subseteq S
    BY <2>2, PartialExists
  <2>5. Partial(f, S)[u] = Partial(f, u)[u]
    <3> HIDE DEF u
    <3> QED
      BY <1>1, <2>3, PartialAgree
  <2>4. Partial(f, S)[S] = f[First(S)] + Partial(f, S)[u]
    BY <1>1, <1>3 DEF Unfold
  <2> QED
    BY <1>3, <2>4, <2>5, SumIsPartial
<1> QED
  BY <1>2, <1>3

(* Any element may be taken first. *)
LEMMA SumTake ==
    ASSUME NEW f, NEW S, IsFiniteSet(S), \A y \in S : f[y] \in Int
    PROVE  /\ SumFunctionOnSet(f, S) \in Int
           /\ \A x \in S : SumFunctionOnSet(f, S) = f[x] + SumFunctionOnSet(f, S \ {x})
<1> DEFINE Sum(T) == SumFunctionOnSet(f, T)
           B == {T \in SUBSET S : ~(Sum(T) \in Int /\ \A x \in T : Sum(T) = f[x] + Sum(T \ {x}))}
<1> SUFFICES ASSUME B # {} PROVE FALSE
  OBVIOUS
<1>1. \A T \in SUBSET S : IsFiniteSet(T)
  BY FS_Subset
<1>2. \A T \in SUBSET S : Sum(T) = IF T = {} THEN 0 ELSE f[First(T)] + Sum(T \ {First(T)})
  BY <1>1, SumFirst
<1> HIDE DEF Sum
<1>3. B \subseteq SUBSET S
  OBVIOUS
<1> HIDE DEF B
<1>4. PICK T \in B : \A U \in SUBSET T : U # T => U \notin B
  BY <1>3, SmallestSet
<1>5. T \in SUBSET S /\ ~(Sum(T) \in Int /\ \A x \in T : Sum(T) = f[x] + Sum(T \ {x}))
  BY <1>4 DEF B
<1>6. \A U \in SUBSET T : U # T => Sum(U) \in Int /\ \A x \in U : Sum(U) = f[x] + Sum(U \ {x})
  BY <1>4, <1>5 DEF B
<1>7. T # {}
  <2>1. SUFFICES ASSUME T = {} PROVE FALSE
    OBVIOUS
  <2>2. Sum(T) = 0
    BY <1>2, <1>5, <2>1
  <2> QED
    BY <1>5, <2>1, <2>2
<1> DEFINE c == First(T)
<1>8. c \in T
  BY <1>7, FirstIn
<1>9. Sum(T) = f[c] + Sum(T \ {c})
  BY <1>2, <1>5, <1>7
<1> HIDE DEF c
<1>10. Sum(T \ {c}) \in Int /\ f[c] \in Int
  BY <1>5, <1>6, <1>8
<1>11. Sum(T) \in Int
  BY <1>9, <1>10
<1>12. ASSUME NEW x \in T PROVE Sum(T) = f[x] + Sum(T \ {x})
  <2>1. CASE x = c
    BY <1>9, <2>1
  <2>2. CASE x # c
    <3> DEFINE V == (T \ {c}) \ {x}
    <3>1. Sum(T \ {c}) = f[x] + Sum(V)
      BY <1>6, <1>8, <2>2
    <3>2. (T \ {x}) \ {c} = V /\ c \in T \ {x} /\ T \ {x} \in SUBSET T /\ T \ {x} # T
      BY <1>8, <2>2
    <3>3. Sum(T \ {x}) = f[c] + Sum(V)
      BY <1>6, <3>2
    <3>4. V \in SUBSET T /\ V # T
      BY <1>12
    <3>5. Sum(V) \in Int /\ f[x] \in Int
      BY <1>5, <1>6, <3>4
    <3> HIDE DEF V
    <3> QED
      BY <1>9, <1>10, <3>1, <3>3, <3>5
  <2> QED
    BY <2>1, <2>2
<1> QED
  BY <1>5, <1>11, <1>12

(* The sum of nothing. *)
LEMMA SumEmpty == \A f : SumFunctionOnSet(f, {}) = 0
<1> SUFFICES ASSUME NEW f PROVE SumFunctionOnSet(f, {}) = 0
  OBVIOUS
<1> QED
  BY FS_EmptySet, SumFirst

(* One element more. *)
LEMMA SumAdd ==
    ASSUME NEW f, NEW S, IsFiniteSet(S), NEW x, x \notin S, \A y \in S \cup {x} : f[y] \in Int
    PROVE  /\ SumFunctionOnSet(f, S) \in Int
           /\ SumFunctionOnSet(f, S \cup {x}) = f[x] + SumFunctionOnSet(f, S)
<1>1. IsFiniteSet(S \cup {x}) /\ (S \cup {x}) \ {x} = S
  BY FS_AddElement
<1> QED
  BY <1>1, SumTake

(* The sum of values that are added up. *)
LEMMA SumPlus ==
    ASSUME NEW f, NEW g, NEW h, NEW S, IsFiniteSet(S),
           \A x \in S : f[x] \in Int /\ g[x] \in Int /\ h[x] = f[x] + g[x]
    PROVE  SumFunctionOnSet(h, S) = SumFunctionOnSet(f, S) + SumFunctionOnSet(g, S)
<1> DEFINE F(T) == SumFunctionOnSet(f, T)
           H(T) == SumFunctionOnSet(h, T)
           E(T) == SumFunctionOnSet(g, T)
           G == {T \in SUBSET S : H(T) = F(T) + E(T)}
<1>1. {} \in G
  BY SumEmpty
<1>2. ASSUME NEW T \in SUBSET S, NEW x \in S \ T, T \in G PROVE T \cup {x} \in G
  <2>1. IsFiniteSet(T) /\ x \notin T /\ T \cup {x} \in SUBSET S
    BY FS_Subset
  <2>2. \A y \in T \cup {x} : f[y] \in Int /\ g[y] \in Int /\ h[y] \in Int
    BY <2>1
  <2>3. F(T) \in Int /\ F(T \cup {x}) = f[x] + F(T)
    BY <2>1, <2>2, SumAdd
  <2>4. E(T) \in Int /\ E(T \cup {x}) = g[x] + E(T)
    BY <2>1, <2>2, SumAdd
  <2>5. H(T) \in Int /\ H(T \cup {x}) = h[x] + H(T)
    BY <2>1, <2>2, SumAdd
  <2>6. H(T) = F(T) + E(T) /\ h[x] = f[x] + g[x] /\ f[x] \in Int /\ g[x] \in Int
    BY <1>2
  <2> HIDE DEF F, E, H
  <2> QED
    BY <2>1, <2>3, <2>4, <2>5, <2>6
<1> HIDE DEF G
<1>3. S \in G
  BY <1>1, <1>2, SetInduction
<1> QED
  BY <1>3 DEF G

(* Smaller values have a smaller sum. *)
LEMMA SumLeq ==
    ASSUME NEW f, NEW g, NEW S, IsFiniteSet(S),
           \A x \in S : f[x] \in Int /\ g[x] \in Int /\ f[x] <= g[x]
    PROVE  SumFunctionOnSet(f, S) <= SumFunctionOnSet(g, S)
<1> DEFINE F(T) == SumFunctionOnSet(f, T)
           E(T) == SumFunctionOnSet(g, T)
           G == {T \in SUBSET S : F(T) <= E(T)}
<1>1. {} \in G
  BY SumEmpty
<1>2. ASSUME NEW T \in SUBSET S, NEW x \in S \ T, T \in G PROVE T \cup {x} \in G
  <2>1. IsFiniteSet(T) /\ x \notin T /\ T \cup {x} \in SUBSET S
    BY FS_Subset
  <2>2. \A y \in T \cup {x} : f[y] \in Int /\ g[y] \in Int
    BY <2>1
  <2>3. F(T) \in Int /\ F(T \cup {x}) = f[x] + F(T)
    BY <2>1, <2>2, SumAdd
  <2>4. E(T) \in Int /\ E(T \cup {x}) = g[x] + E(T)
    BY <2>1, <2>2, SumAdd
  <2>5. F(T) <= E(T) /\ f[x] <= g[x] /\ f[x] \in Int /\ g[x] \in Int
    BY <1>2
  <2> HIDE DEF F, E
  <2> QED
    BY <2>1, <2>3, <2>4, <2>5
<1> HIDE DEF G
<1>3. S \in G
  BY <1>1, <1>2, SetInduction
<1> QED
  BY <1>3 DEF G

(* Equal values have equal sums. *)
LEMMA SumEqual ==
    ASSUME NEW f, NEW g, NEW S, IsFiniteSet(S), \A x \in S : g[x] \in Int /\ f[x] = g[x]
    PROVE  SumFunctionOnSet(f, S) = SumFunctionOnSet(g, S)
<1>1. SumFunctionOnSet(f, S) <= SumFunctionOnSet(g, S)
  BY SumLeq
<1>2. SumFunctionOnSet(g, S) <= SumFunctionOnSet(f, S)
  BY SumLeq
<1>3. SumFunctionOnSet(f, S) \in Int /\ SumFunctionOnSet(g, S) \in Int
  BY SumTake
<1> QED
  BY <1>1, <1>2, <1>3

(* A sum of naturals is at least each of them. *)
LEMMA SumNat ==
    ASSUME NEW f, NEW S, IsFiniteSet(S), \A x \in S : f[x] \in Nat
    PROVE  SumFunctionOnSet(f, S) \in Nat /\ \A x \in S : f[x] <= SumFunctionOnSet(f, S)
<1> DEFINE F(T) == SumFunctionOnSet(f, T)
           G == {T \in SUBSET S : F(T) \in Nat /\ \A x \in T : f[x] <= F(T)}
<1>1. {} \in G
  BY SumEmpty
<1>2. ASSUME NEW T \in SUBSET S, NEW x \in S \ T, T \in G PROVE T \cup {x} \in G
  <2>1. IsFiniteSet(T) /\ x \notin T /\ T \cup {x} \in SUBSET S
    BY FS_Subset
  <2>2. F(T \cup {x}) = f[x] + F(T)
    BY <2>1, SumAdd
  <2>3. f[x] \in Nat /\ F(T) \in Nat /\ \A y \in T : f[y] <= F(T) /\ f[y] \in Nat
    BY <1>2
  <2> HIDE DEF F
  <2>4. \A y \in T \cup {x} : f[y] <= F(T \cup {x})
    BY <2>2, <2>3
  <2> QED
    BY <2>1, <2>2, <2>3, <2>4
<1> HIDE DEF G
<1>3. S \in G
  BY <1>1, <1>2, SetInduction
<1> QED
  BY <1>3 DEF G

(* What is 0 outside of a set adds up inside of it. *)
LEMMA SumInside ==
    ASSUME NEW f, NEW S, IsFiniteSet(S), NEW T \in SUBSET S,
           \A x \in S : f[x] \in Int, \A x \in S \ T : f[x] = 0
    PROVE  SumFunctionOnSet(f, S) = SumFunctionOnSet(f, T)
<1> DEFINE F(U) == SumFunctionOnSet(f, U)
           G == {U \in SUBSET (S \ T) : F(T \cup U) = F(T)}
<1>1. {} \in G
  <2>1. T \cup {} = T
    OBVIOUS
  <2> QED
    BY <2>1
<1>2. ASSUME NEW U \in SUBSET (S \ T), NEW x \in (S \ T) \ U, U \in G PROVE U \cup {x} \in G
  <2> DEFINE V == T \cup U
  <2>1. IsFiniteSet(V) /\ x \notin V /\ U \cup {x} \in SUBSET (S \ T) /\ T \cup (U \cup {x}) = V \cup {x}
    <3>1. V \in SUBSET S
      OBVIOUS
    <3> QED
      BY <3>1, FS_Subset
  <2>2. \A y \in V \cup {x} : f[y] \in Int
    OBVIOUS
  <2>3. F(V) = F(T) /\ f[x] = 0
    BY <1>2
  <2> HIDE DEF V
  <2>4. F(V) \in Int /\ F(V \cup {x}) = f[x] + F(V)
    BY <2>1, <2>2, SumAdd
  <2> HIDE DEF F
  <2>5. F(V \cup {x}) = F(T)
    BY <2>3, <2>4
  <2>6. F(T \cup (U \cup {x})) = F(T)
    BY <2>1, <2>5
  <2> QED
    BY <2>1, <2>6
<1>3. IsFiniteSet(S \ T)
  BY FS_Subset
<1> HIDE DEF G
<1>4. S \ T \in G
  BY <1>1, <1>2, <1>3, SetInduction
<1>5. T \cup (S \ T) = S
  OBVIOUS
<1> QED
  BY <1>4, <1>5 DEF G

(* Only the value at x differs. *)
LEMMA SumUpdate ==
    ASSUME NEW f, NEW g, NEW S, IsFiniteSet(S), NEW x \in S,
           \A y \in S : f[y] \in Int /\ g[y] \in Int, \A y \in S \ {x} : f[y] = g[y]
    PROVE  SumFunctionOnSet(f, S) = SumFunctionOnSet(g, S) - g[x] + f[x]
<1>1. IsFiniteSet(S \ {x})
  BY FS_Subset
<1>2. SumFunctionOnSet(f, S \ {x}) = SumFunctionOnSet(g, S \ {x})
  BY <1>1, SumEqual
<1>3. SumFunctionOnSet(f, S) = f[x] + SumFunctionOnSet(f, S \ {x})
  BY SumTake
<1>4. SumFunctionOnSet(g, S) = g[x] + SumFunctionOnSet(g, S \ {x})
  BY SumTake
<1>5. SumFunctionOnSet(g, S \ {x}) \in Int /\ f[x] \in Int /\ g[x] \in Int
  BY <1>1, SumTake
<1> QED
  BY <1>2, <1>3, <1>4, <1>5

(* A table with rows R[a] and columns C[b], and the sums of each. *)
Table(A, B, R, C, row, col) ==
    /\ IsFiniteSet(A) /\ IsFiniteSet(B)
    /\ \A a \in A : \A b \in B : R[a][b] \in Int /\ C[b][a] = R[a][b]
    /\ \A a \in A : row[a] = SumFunctionOnSet(R[a], B)
    /\ \A b \in B : col[b] = SumFunctionOnSet(C[b], A)

(* A table is added up by its rows or by its columns. *)
LEMMA SumSwap ==
    ASSUME NEW A, NEW B, NEW R, NEW C, NEW row, NEW col, Table(A, B, R, C, row, col)
    PROVE  SumFunctionOnSet(row, A) = SumFunctionOnSet(col, B)
<1> USE DEF Table
<1> DEFINE part(T) == [b \in B |-> SumFunctionOnSet(C[b], T)]
           G == {T \in SUBSET A : SumFunctionOnSet(row, T) = SumFunctionOnSet(part(T), B)}
<1>1. \A a \in A : row[a] \in Int
  BY SumTake
<1>2. \A T \in SUBSET A : IsFiniteSet(T)
  BY FS_Subset
<1>3. {} \in G
  <2> DEFINE zero == part({})
  <2>1. \A b \in B : zero[b] = 0
    BY SumEmpty
  <2>2. SumFunctionOnSet(zero, B) = SumFunctionOnSet(zero, {})
    <3> HIDE DEF zero
    <3> QED
      BY <2>1, SumInside
  <2> QED
    BY <2>2, SumEmpty
<1>4. ASSUME NEW T \in SUBSET A, NEW x \in A \ T, T \in G PROVE T \cup {x} \in G
  <2>1. IsFiniteSet(T) /\ x \notin T /\ T \cup {x} \in SUBSET A
    BY <1>2
  <2>2. SumFunctionOnSet(row, T \cup {x}) = row[x] + SumFunctionOnSet(row, T) /\ SumFunctionOnSet(row, T) \in Int
    BY <1>1, <2>1, SumAdd
  <2> DEFINE before == part(T)
             after == part(T \cup {x})
  <2>3. ASSUME NEW b \in B
        PROVE  R[x][b] \in Int /\ before[b] \in Int /\ after[b] = R[x][b] + before[b]
    <3>1. \A y \in T \cup {x} : C[b][y] \in Int
      BY <2>1
    <3>2. SumFunctionOnSet(C[b], T) \in Int /\ SumFunctionOnSet(C[b], T \cup {x}) = C[b][x] + SumFunctionOnSet(C[b], T)
      BY <2>1, <3>1, SumAdd
    <3> QED
      BY <3>2
  <2>4. SumFunctionOnSet(row, T) = SumFunctionOnSet(before, B)
    BY <1>4
  <2>5. SumFunctionOnSet(after, B) = SumFunctionOnSet(R[x], B) + SumFunctionOnSet(before, B)
    <3> HIDE DEF before, after
    <3> QED
      BY <2>3, SumPlus
  <2>6. row[x] = SumFunctionOnSet(R[x], B)
    OBVIOUS
  <2> HIDE DEF part
  <2> QED
    BY <2>1, <2>2, <2>4, <2>5, <2>6
<1> HIDE DEF G
<1>5. A \in G
  BY <1>3, <1>4, SetInduction
<1>6. SumFunctionOnSet(row, A) = SumFunctionOnSet(part(A), B)
  BY <1>5 DEF G
<1> DEFINE all == part(A)
<1>7. \A b \in B : all[b] \in Int /\ col[b] = all[b]
  BY SumTake
<1> HIDE DEF all
<1>8. SumFunctionOnSet(col, B) = SumFunctionOnSet(all, B)
  BY <1>7, SumEqual
<1> QED
  BY <1>6, <1>8 DEF all

(* The groups of a partition by k, and the sum g of each. *)
Groups(f, S, k, D, g) ==
    /\ IsFiniteSet(S) /\ IsFiniteSet(D)
    /\ \A x \in S : f[x] \in Int /\ k[x] \in D
    /\ \A d \in D : g[d] = SumFunctionOnSet(f, {x \in S : k[x] = d})

(* A sum is the sum of the sums over the groups. *)
LEMMA SumGroups ==
    ASSUME NEW f, NEW S, NEW k, NEW D, NEW g, Groups(f, S, k, D, g)
    PROVE  SumFunctionOnSet(g, D) = SumFunctionOnSet(f, S)
<1> USE DEF Groups
<1> DEFINE R == [d \in D |-> [x \in S |-> IF k[x] = d THEN f[x] ELSE 0]]
           C == [x \in S |-> [d \in D |-> IF k[x] = d THEN f[x] ELSE 0]]
<1>1. \A d \in D : \A x \in S : R[d][x] \in Int /\ C[x][d] = R[d][x]
  OBVIOUS
<1>2. ASSUME NEW d \in D PROVE g[d] = SumFunctionOnSet(R[d], S)
  <2> DEFINE T == {x \in S : k[x] = d}
             r == R[d]
  <2>1. T \in SUBSET S /\ (\A x \in S : r[x] \in Int) /\ (\A x \in S \ T : r[x] = 0)
    OBVIOUS
  <2>2. \A x \in T : f[x] \in Int /\ r[x] = f[x]
    OBVIOUS
  <2>3. IsFiniteSet(T)
    BY FS_Subset
  <2>4. g[d] = SumFunctionOnSet(f, T)
    OBVIOUS
  <2> HIDE DEF r, T
  <2>5. SumFunctionOnSet(r, S) = SumFunctionOnSet(r, T)
    BY <2>1, SumInside
  <2>6. SumFunctionOnSet(r, T) = SumFunctionOnSet(f, T)
    BY <2>2, <2>3, SumEqual
  <2> QED
    BY <2>4, <2>5, <2>6 DEF r
<1>3. ASSUME NEW x \in S PROVE f[x] = SumFunctionOnSet(C[x], D)
  <2> DEFINE c == C[x]
  <2>1. {k[x]} \in SUBSET D /\ (\A d \in D : c[d] \in Int) /\ (\A d \in D \ {k[x]} : c[d] = 0) /\ c[k[x]] = f[x]
    OBVIOUS
  <2>2. {k[x]} \ {k[x]} = {} /\ IsFiniteSet({k[x]}) /\ f[x] \in Int
    BY FS_Singleton
  <2> HIDE DEF c
  <2>3. SumFunctionOnSet(c, D) = SumFunctionOnSet(c, {k[x]})
    BY <2>1, SumInside
  <2>4. SumFunctionOnSet(c, {k[x]}) = c[k[x]] + SumFunctionOnSet(c, {k[x]} \ {k[x]})
    BY <2>1, <2>2, SumTake
  <2>5. SumFunctionOnSet(c, {k[x]} \ {k[x]}) = 0
    BY <2>2, SumEmpty
  <2>6. f[x] = SumFunctionOnSet(c, D)
    BY <2>1, <2>2, <2>3, <2>4, <2>5
  <2> QED
    BY <2>6 DEF c
<1>4. (\A d \in D : g[d] = SumFunctionOnSet(R[d], S)) /\ (\A x \in S : f[x] = SumFunctionOnSet(C[x], D))
  BY <1>2, <1>3
<1> HIDE DEF R, C
<1>5. Table(D, S, R, C, g, f)
  BY <1>1, <1>4 DEF Table
<1> QED
  BY <1>5, SumSwap

---------------------------------------------------------------------------
(* The same laws for the sum over the whole domain of a function. *)

(* The same laws for SumFunction, the sum over the domain of a function. *)
LEMMA FunInt ==
    ASSUME NEW S, IsFiniteSet(S), NEW f \in [S -> Int]
    PROVE  SumFunction(f) \in Int
BY SumTake DEF SumFunction

(* A sum of naturals is at least each of them. *)
LEMMA FunNat ==
    ASSUME NEW S, IsFiniteSet(S), NEW f \in [S -> Nat]
    PROVE  SumFunction(f) \in Nat /\ \A x \in S : f[x] <= SumFunction(f)
BY SumNat DEF SumFunction

(* A sum of zeros. *)
LEMMA FunZero ==
    ASSUME NEW S, IsFiniteSet(S), NEW f \in [S -> Int], \A x \in S : f[x] = 0
    PROVE  SumFunction(f) = 0
<1>1. {} \in SUBSET S /\ SumFunctionOnSet(f, S) = SumFunctionOnSet(f, {})
  BY SumInside
<1> QED
  BY <1>1, SumEmpty DEF SumFunction

(* h is the sum of f and g, f is nowhere above g, f and g differ only at x. *)
Adds(S, f, g, h) ==
    /\ IsFiniteSet(S) /\ f \in [S -> Int] /\ g \in [S -> Int] /\ h \in [S -> Int]
    /\ \A x \in S : h[x] = f[x] + g[x]

Below(S, f, g) ==
    /\ IsFiniteSet(S) /\ f \in [S -> Int] /\ g \in [S -> Int]
    /\ \A x \in S : f[x] <= g[x]

Differ(S, f, g, x) ==
    /\ IsFiniteSet(S) /\ f \in [S -> Int] /\ g \in [S -> Int] /\ x \in S
    /\ \A y \in S \ {x} : f[y] = g[y]

(* The sum of the sums. *)
LEMMA FunPlus ==
    ASSUME NEW S, NEW f, NEW g, NEW h, Adds(S, f, g, h)
    PROVE  SumFunction(h) = SumFunction(f) + SumFunction(g)
BY SumPlus DEF SumFunction, Adds

(* Smaller values have a smaller sum. *)
LEMMA FunLeq ==
    ASSUME NEW S, NEW f, NEW g, Below(S, f, g)
    PROVE  SumFunction(f) <= SumFunction(g)
BY SumLeq DEF SumFunction, Below

(* One value changes. *)
LEMMA FunUpdate ==
    ASSUME NEW S, NEW f, NEW g, NEW x, Differ(S, f, g, x)
    PROVE  SumFunction(f) = SumFunction(g) - g[x] + f[x]
BY SumUpdate DEF SumFunction, Differ

(* Only one value counts. *)
LEMMA FunOne ==
    ASSUME NEW S, IsFiniteSet(S), NEW f \in [S -> Int], NEW x \in S,
           \A y \in S \ {x} : f[y] = 0
    PROVE  SumFunction(f) = f[x]
<1> DEFINE z == [y \in S |-> 0]
<1>1. SumFunction(z) = 0
  BY FunZero
<1>2. SumFunction(f) = SumFunction(z) - z[x] + f[x]
  BY FunUpdate DEF Differ
<1> QED
  BY <1>1, <1>2

(* A table with rows R[a] and columns C[b], and the sums of each. *)
Sheet(A, B, R, C, row, col) ==
    /\ IsFiniteSet(A) /\ IsFiniteSet(B)
    /\ R \in [A -> [B -> Int]] /\ C \in [B -> [A -> Int]]
    /\ \A a \in A : \A b \in B : C[b][a] = R[a][b]
    /\ DOMAIN row = A /\ \A a \in A : row[a] = SumFunction(R[a])
    /\ DOMAIN col = B /\ \A b \in B : col[b] = SumFunction(C[b])

(* The sum by rows is the sum by columns. *)
LEMMA FunSwap ==
    ASSUME NEW A, NEW B, NEW R, NEW C, NEW row, NEW col, Sheet(A, B, R, C, row, col)
    PROVE  SumFunction(row) = SumFunction(col)
<1>1. Table(A, B, R, C, row, col)
  BY DEF Table, Sheet, SumFunction
<1>2. SumFunctionOnSet(row, A) = SumFunctionOnSet(col, B)
  BY <1>1, SumSwap
<1> QED
  BY <1>2 DEF SumFunction, Sheet

(* g is f on a part of its domain. *)
Part(S, f, T, g) ==
    /\ IsFiniteSet(S) /\ f \in [S -> Nat] /\ T \in SUBSET S
    /\ g \in [T -> Nat] /\ \A x \in T : g[x] = f[x]

(* A part of a sum of naturals. *)
LEMMA FunPart ==
    ASSUME NEW S, NEW f, NEW T, NEW g, Part(S, f, T, g)
    PROVE  /\ IsFiniteSet(T)
           /\ SumFunction(g) <= SumFunction(f)
           /\ (\A x \in S \ T : f[x] = 0) => SumFunction(g) = SumFunction(f)
<1> USE DEF Part
<1> DEFINE z == [x \in S |-> IF x \in T THEN f[x] ELSE 0]
<1>1. IsFiniteSet(T)
  BY FS_Subset
<1>2. z \in [S -> Int] /\ f \in [S -> Int] /\ \A x \in S : z[x] <= f[x]
  OBVIOUS
<1>3. \A x \in S \ T : z[x] = 0
  OBVIOUS
<1>4. \A x \in T : z[x] \in Int /\ g[x] = z[x]
  OBVIOUS
<1>5. DOMAIN z = S /\ DOMAIN g = T /\ DOMAIN f = S
  OBVIOUS
<1>6. ASSUME \A x \in S \ T : f[x] = 0 PROVE z = f
  BY <1>6
<1> HIDE DEF z
<1>7. SumFunctionOnSet(z, S) = SumFunctionOnSet(z, T)
  BY <1>2, <1>3, SumInside
<1>8. SumFunctionOnSet(g, T) = SumFunctionOnSet(z, T)
  BY <1>1, <1>4, SumEqual
<1>9. SumFunction(z) <= SumFunction(f)
  BY <1>2, FunLeq DEF Below
<1> QED
  BY <1>1, <1>5, <1>6, <1>7, <1>8, <1>9 DEF SumFunction

(* A sum of naturals, in two parts. *)
LEMMA FunSplit ==
    ASSUME NEW S, NEW f, NEW T, NEW g, NEW h, Part(S, f, T, g), Part(S, f, S \ T, h)
    PROVE  SumFunction(f) = SumFunction(g) + SumFunction(h)
<1> DEFINE y == [x \in S |-> IF x \in T THEN f[x] ELSE 0]
           z == [x \in S |-> IF x \in T THEN 0 ELSE f[x]]
<1>1. Part(S, y, T, g) /\ \A x \in S \ T : y[x] = 0
  BY DEF Part
<1>2. Part(S, z, S \ T, h) /\ \A x \in S \ (S \ T) : z[x] = 0
  BY DEF Part
<1>3. Adds(S, y, z, f)
  BY DEF Adds, Part
<1> HIDE DEF y, z
<1>4. SumFunction(g) = SumFunction(y)
  BY <1>1, FunPart
<1>5. SumFunction(h) = SumFunction(z)
  BY <1>2, FunPart
<1> QED
  BY <1>3, <1>4, <1>5, FunPlus

=============================================================================
