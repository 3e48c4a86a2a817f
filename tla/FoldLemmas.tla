----------------------------- MODULE FoldLemmas -----------------------------
(***************************************************************************)
(* Facts about the folds and sums the modules use, for every finite set of *)
(* indices.  Induction is stated about sets (of numbers, of subsets), so   *)
(* that a proof names the set of cases it covers.                          *)
(***************************************************************************)
EXTENDS Integers, Sequences, SequencesExt, FiniteSets, FiniteSetTheorems, FiniteSetsExt,
        Functions, TLAPS

(* Induction on the naturals, for a set of cases: were m missing, the cases *)
(* missing up to m would inject, each to its predecessor, into themselves   *)
(* without m.                                                               *)
LEMMA StepInduction ==
  ASSUME NEW S, 0 \in S, \A n \in Nat : n \in S => n + 1 \in S
  PROVE  \A n \in Nat : n \in S
<1> SUFFICES ASSUME NEW m \in Nat PROVE m \in S
  OBVIOUS
<1> SUFFICES ASSUME m \notin S PROVE FALSE
  OBVIOUS
<1> DEFINE A == {i \in 0..m : i \notin S}
           f == [i \in A |-> i - 1]
<1>1. IsFiniteSet(A)
  <2>1. IsFiniteSet(0..m) /\ A \in SUBSET (0..m)
    BY FS_Interval
  <2> HIDE DEF A
  <2> QED BY <2>1, FS_Subset
<1>2. /\ IsFiniteSet(A \ {m}) /\ Cardinality(A \ {m}) = Cardinality(A) - 1
      /\ Cardinality(A) \in Nat
  <2>1. m \in A
    OBVIOUS
  <2> HIDE DEF A
  <2> QED BY <1>1, <2>1, FS_RemoveElement, FS_CardinalityType
<1>3. f \in [A -> A \ {m}]
  <2> SUFFICES ASSUME NEW i \in A PROVE i - 1 \in A \ {m}
    OBVIOUS
  <2>1. i \in Nat /\ i <= m /\ i \notin S /\ i # 0
    OBVIOUS
  <2>2. i - 1 \in Nat /\ (i - 1) + 1 = i
    BY <2>1
  <2>3. i - 1 \notin S
    BY <2>1, <2>2
  <2> QED BY <2>1, <2>2, <2>3
<1>4. PICK x, y \in A : x # y /\ f[x] = f[y]
  <2> HIDE DEF A, f
  <2> QED BY <1>1, <1>2, <1>3, FS_PigeonHole
<1> QED BY <1>4

(* Induction on the subsets of a finite set.                                *)
LEMMA SubsetInduction ==
  ASSUME NEW D, IsFiniteSet(D), NEW C, {} \in C,
         \A s \in SUBSET D : s # {} /\ (\A x \in s : s \ {x} \in C) => s \in C
  PROVE  SUBSET D \subseteq C
<1> DEFINE S == {i \in Nat : \A s \in SUBSET D : Cardinality(s) = i => s \in C}
<1>1. \A s \in SUBSET D : IsFiniteSet(s) /\ Cardinality(s) \in Nat
  BY FS_Subset, FS_CardinalityType
<1>2. 0 \in S
  BY <1>1, FS_EmptySet
<1>3. \A n \in Nat : n \in S => n + 1 \in S
  <2> SUFFICES ASSUME NEW n \in Nat, n \in S PROVE n + 1 \in S
    OBVIOUS
  <2> SUFFICES ASSUME NEW s \in SUBSET D, Cardinality(s) = n + 1 PROVE s \in C
    OBVIOUS
  <2>1. s # {}
    BY <1>1, FS_EmptySet
  <2>2. ASSUME NEW x \in s PROVE s \ {x} \in C
    <3>1. Cardinality(s \ {x}) = n
      BY <1>1, FS_RemoveElement
    <3> QED BY <3>1
  <2> QED BY <2>1, <2>2
<1>4. \A n \in Nat : n \in S
  <2> HIDE DEF S
  <2> QED BY <1>2, <1>3, StepInduction
<1> QED BY <1>1, <1>4

(* A fold over a finite set exists, whichever element it takes first.       *)
Folds(it, D, V, base, step, pick) ==
    /\ it \in [SUBSET D -> V]
    /\ \A s \in SUBSET D :
         it[s] = IF s = {} THEN base ELSE step[<<pick[s], it[s \ {pick[s]}]>>]

Picks(pick, D) == \A s \in SUBSET D : s # {} => pick[s] \in s

LEMMA FoldExists ==
  ASSUME NEW D, IsFiniteSet(D), NEW V, NEW base \in V, NEW step \in [D \X V -> V],
         NEW pick, Picks(pick, D)
  PROVE  \E it : Folds(it, D, V, base, step, pick)
<1> DEFINE Upto(it, n) == \A s \in SUBSET D : Cardinality(s) <= n =>
                it[s] = IF s = {} THEN base ELSE step[<<pick[s], it[s \ {pick[s]}]>>]
           S == {i \in Nat : \E it \in [SUBSET D -> V] : Upto(it, i)}
<1>1. \A s \in SUBSET D : /\ IsFiniteSet(s) /\ Cardinality(s) \in Nat
                          /\ Cardinality(s) <= Cardinality(D)
  BY FS_Subset, FS_CardinalityType
<1>2. 0 \in S
  <2>1. [s \in SUBSET D |-> base] \in [SUBSET D -> V]
    OBVIOUS
  <2>2. Upto([s \in SUBSET D |-> base], 0)
    BY <1>1, FS_EmptySet
  <2> QED BY <2>1, <2>2
<1>3. \A n \in Nat : n \in S => n + 1 \in S
  <2> SUFFICES ASSUME NEW n \in Nat, n \in S PROVE n + 1 \in S
    OBVIOUS
  <2>1. PICK it \in [SUBSET D -> V] : Upto(it, n)
    OBVIOUS
  <2> DEFINE next(s) == IF s = {} THEN base ELSE step[<<pick[s], it[s \ {pick[s]}]>>]
             jt == [s \in SUBSET D |-> next(s)]
  <2>2. jt \in [SUBSET D -> V]
    BY DEF Picks
  <2>3. \A s \in SUBSET D : Cardinality(s) <= n => jt[s] = it[s]
    BY <2>1
  <2>4. ASSUME NEW s \in SUBSET D, Cardinality(s) <= n + 1, s # {}
        PROVE  jt[s \ {pick[s]}] = it[s \ {pick[s]}]
    <3>1. pick[s] \in s /\ s \ {pick[s]} \in SUBSET D
      BY <2>4 DEF Picks
    <3>2. Cardinality(s \ {pick[s]}) <= n
      BY <1>1, <2>4, <3>1, FS_RemoveElement
    <3> QED BY <2>3, <3>1, <3>2
  <2>5. Upto(jt, n + 1)
    BY <2>4
  <2>6. \E kt \in [SUBSET D -> V] : Upto(kt, n + 1)
    <3> HIDE DEF jt, Upto
    <3> QED BY <2>2, <2>5
  <2> QED
    <3> HIDE DEF Upto
    <3> QED BY <2>6
<1>4. Cardinality(D) \in S
  <2> HIDE DEF S
  <2>1. \A n \in Nat : n \in S
    BY <1>2, <1>3, StepInduction
  <2> QED BY <1>1, <2>1
<1> QED BY <1>1, <1>4 DEF Folds

-----------------------------------------------------------------------------
(* Sums, which do not depend on the order of the fold.                      *)

Totals(it, f, D) ==
    /\ it \in [SUBSET D -> Int]
    /\ it[{}] = 0
    /\ \A s \in SUBSET D : \A x \in s : it[s] = f[x] + it[s \ {x}]

(* What SumFunctionOnSet computes on the way.                               *)
Adds(it, f, D) ==
    /\ it \in [SUBSET D -> Int]
    /\ \A s \in SUBSET D :
         it[s] = IF s = {} THEN 0
                 ELSE f[CHOOSE x \in s : TRUE] + it[s \ {CHOOSE x \in s : TRUE}]

LEMMA SumFolds ==
  ASSUME NEW D, IsFiniteSet(D), NEW f, \A i \in D : f[i] \in Int
  PROVE  \E it : Adds(it, f, D) /\ SumFunctionOnSet(f, D) = it[D]
<1> DEFINE first == [s \in SUBSET D |-> CHOOSE x \in s : TRUE]
           step == [w \in D \X Int |-> f[w[1]] + w[2]]
           Equals(it) == it = [s \in SUBSET D |-> IF s = {} THEN 0
                      ELSE f[CHOOSE x \in s : TRUE] + it[s \ {CHOOSE x \in s : TRUE}]]
           iter == CHOOSE it : Equals(it)
<1>1. \A s \in SUBSET D : s # {} => (CHOOSE x \in s : TRUE) \in s
  OBVIOUS
<1>2. Picks(first, D)
  BY <1>1 DEF Picks
<1>3. step \in [D \X Int -> Int]
  OBVIOUS
<1>4. PICK it : Folds(it, D, Int, 0, step, first)
  <2> DEFINE V == Int
  <2>1. step \in [D \X V -> V] /\ 0 \in V
    BY <1>3
  <2> HIDE DEF step, first, V
  <2>2. \E it : Folds(it, D, V, 0, step, first)
    BY <1>2, <2>1, FoldExists
  <2> QED BY <2>2 DEF V
<1>5. Equals(it)
  <2>1. ASSUME NEW s \in SUBSET D, s # {}
        PROVE  /\ (CHOOSE x \in s : TRUE) \in s
               /\ s \ {CHOOSE x \in s : TRUE} \in SUBSET D
               /\ it[s] = f[CHOOSE x \in s : TRUE] + it[s \ {CHOOSE x \in s : TRUE}]
    BY <1>1, <1>4, <2>1 DEF Folds
  <2> QED BY <1>4, <2>1 DEF Folds
<1>6. Equals(iter)
  <2> HIDE DEF Equals
  <2> QED BY <1>5
<1>7. \A s \in SUBSET D : iter[s] = IF s = {} THEN 0
             ELSE f[CHOOSE x \in s : TRUE] + iter[s \ {CHOOSE x \in s : TRUE}]
  <2> HIDE DEF iter
  <2> QED BY <1>6
<1>8. \A s \in SUBSET D : iter[s] \in Int
  <2> DEFINE C == {s \in SUBSET D : iter[s] \in Int}
  <2> HIDE DEF iter
  <2>1. {} \in SUBSET D /\ iter[{}] = 0
    BY <1>7
  <2>2. ASSUME NEW s \in SUBSET D, s # {}, \A x \in s : s \ {x} \in C PROVE s \in C
    <3>1. /\ (CHOOSE x \in s : TRUE) \in s
          /\ iter[s \ {CHOOSE x \in s : TRUE}] \in Int
      BY <1>1, <2>2
    <3>2. f[CHOOSE x \in s : TRUE] \in Int
      BY <3>1
    <3> QED BY <1>7, <2>2, <3>1, <3>2
  <2>4. {} \in C
    BY <2>1
  <2> HIDE DEF C
  <2>3. SUBSET D \subseteq C
    BY <2>2, <2>4, SubsetInduction
  <2> QED BY <2>3 DEF C
<1>9. iter \in [SUBSET D -> Int]
  <2> HIDE DEF iter
  <2> QED BY <1>6, <1>8
<1>10. SumFunctionOnSet(f, D) = iter[D]
  BY DEF SumFunctionOnSet, FoldFunctionOnSet, MapThenFoldSet
<1>11. Adds(iter, f, D)
  <2> HIDE DEF iter
  <2> QED BY <1>7, <1>9 DEF Adds
<1> QED BY <1>10, <1>11

LEMMA SumTotals ==
  ASSUME NEW D, IsFiniteSet(D), NEW f, \A i \in D : f[i] \in Int
  PROVE  \E it : Totals(it, f, D) /\ SumFunctionOnSet(f, D) = it[D]
<1>1. PICK it : Adds(it, f, D) /\ SumFunctionOnSet(f, D) = it[D]
  BY SumFolds
<1> DEFINE C == {s \in SUBSET D : \A x \in s : it[s] = f[x] + it[s \ {x}]}
<1>2. ASSUME NEW s \in SUBSET D, s # {}, \A x \in s : s \ {x} \in C PROVE s \in C
  <2> DEFINE y == CHOOSE x \in s : TRUE
  <2>1. y \in s /\ it[s] = f[y] + it[s \ {y}]
    BY <1>1, <1>2 DEF Adds
  <2> HIDE DEF y
  <2>2. ASSUME NEW x \in s, x # y PROVE it[s] = f[x] + it[s \ {x}]
    <3>1. it[s \ {y}] = f[x] + it[(s \ {y}) \ {x}]
      BY <1>2, <2>1, <2>2
    <3>2. it[s \ {x}] = f[y] + it[(s \ {x}) \ {y}]
      BY <1>2, <2>1, <2>2
    <3>3. (s \ {y}) \ {x} = (s \ {x}) \ {y}
      OBVIOUS
    <3> DEFINE a == it[(s \ {x}) \ {y}]
    <3>4. a \in Int /\ f[x] \in Int /\ f[y] \in Int
      <4>1. (s \ {x}) \ {y} \in SUBSET D /\ x \in D /\ y \in D
        BY <2>1
      <4> QED BY <1>1, <4>1 DEF Adds
    <3>5. it[s] = f[y] + (f[x] + a) /\ it[s \ {x}] = f[y] + a
      BY <2>1, <3>1, <3>2, <3>3
    <3> HIDE DEF a
    <3> QED BY <3>4, <3>5
  <2> QED BY <2>1, <2>2
<1>3. SUBSET D \subseteq C
  <2>1. {} \in C
    OBVIOUS
  <2> HIDE DEF C
  <2> QED BY <1>2, <2>1, SubsetInduction
<1>4. it \in [SUBSET D -> Int] /\ it[{}] = 0
  BY <1>1 DEF Adds
<1>5. Totals(it, f, D)
  BY <1>3, <1>4 DEF Totals
<1> QED BY <1>1, <1>5

(* Two families of totals agree where what they add agrees.                 *)
LEMMA TotalsAgree ==
  ASSUME NEW D, IsFiniteSet(D), NEW E \in SUBSET D, NEW f, NEW g,
         \A i \in E : f[i] = g[i],
         NEW it, Totals(it, f, D), NEW jt, Totals(jt, g, E)
  PROVE  it[E] = jt[E]
<1> DEFINE C == {s \in SUBSET E : it[s] = jt[s]}
<1>1. {} \in C
  BY DEF Totals
<1>2. ASSUME NEW s \in SUBSET E, s # {}, \A x \in s : s \ {x} \in C PROVE s \in C
  <2>1. PICK x \in s : TRUE
    BY <1>2
  <2>2. s \in SUBSET D /\ x \in E /\ f[x] = g[x] /\ it[s \ {x}] = jt[s \ {x}]
    BY <1>2, <2>1
  <2>3. it[s] = f[x] + it[s \ {x}] /\ jt[s] = g[x] + jt[s \ {x}]
    BY <2>1, <2>2 DEF Totals
  <2> QED BY <2>2, <2>3
<1>3. IsFiniteSet(E)
  BY FS_Subset
<1>4. SUBSET E \subseteq C
  <2> HIDE DEF C
  <2> QED BY <1>1, <1>2, <1>3, SubsetInduction
<1> QED BY <1>4

(* The sum over no index is zero; over finitely many it is an integer, it   *)
(* is what one index adds and the sum over the others, and it depends on    *)
(* the function's values on the indices alone.                              *)
LEMMA SumEmpty == ASSUME NEW f PROVE SumFunctionOnSet(f, {}) = 0
<1>1. \A i \in {} : f[i] \in Int
  OBVIOUS
<1> QED BY <1>1, SumTotals, FS_EmptySet DEF Totals

LEMMA SumType ==
  ASSUME NEW D, IsFiniteSet(D), NEW f, \A i \in D : f[i] \in Int
  PROVE  SumFunctionOnSet(f, D) \in Int
<1>1. PICK it : Totals(it, f, D) /\ SumFunctionOnSet(f, D) = it[D]
  BY SumTotals
<1>2. it \in [SUBSET D -> Int] /\ D \in SUBSET D
  BY <1>1 DEF Totals
<1> QED BY <1>1, <1>2

LEMMA SumSplit ==
  ASSUME NEW D, IsFiniteSet(D), NEW f, \A i \in D : f[i] \in Int, NEW x \in D
  PROVE  SumFunctionOnSet(f, D) = f[x] + SumFunctionOnSet(f, D \ {x})
<1>1. PICK it : Totals(it, f, D) /\ SumFunctionOnSet(f, D) = it[D]
  BY SumTotals
<1>2. IsFiniteSet(D \ {x}) /\ D \ {x} \in SUBSET D
  BY FS_Subset
<1>3. PICK jt : Totals(jt, f, D \ {x}) /\ SumFunctionOnSet(f, D \ {x}) = jt[D \ {x}]
  BY <1>2, SumTotals
<1>4. it[D \ {x}] = jt[D \ {x}]
  BY <1>1, <1>2, <1>3, TotalsAgree
<1> QED BY <1>1, <1>3, <1>4 DEF Totals

LEMMA SumSame ==
  ASSUME NEW D, IsFiniteSet(D), NEW f, NEW g, \A i \in D : f[i] = g[i] /\ f[i] \in Int
  PROVE  SumFunctionOnSet(f, D) = SumFunctionOnSet(g, D)
<1>1. PICK it : Totals(it, f, D) /\ SumFunctionOnSet(f, D) = it[D]
  BY SumTotals
<1>2. PICK jt : Totals(jt, g, D) /\ SumFunctionOnSet(g, D) = jt[D]
  BY SumTotals
<1> QED BY <1>1, <1>2, TotalsAgree

(* One value changes: so does the sum, by as much.                          *)
LEMMA SumChange ==
  ASSUME NEW D, IsFiniteSet(D), NEW x \in D,
         NEW f, \A i \in D : f[i] \in Int,
         NEW g, g[x] \in Int, \A i \in D \ {x} : g[i] = f[i]
  PROVE  SumFunctionOnSet(g, D) = SumFunctionOnSet(f, D) + (g[x] - f[x])
<1>1. IsFiniteSet(D \ {x})
  BY FS_Subset
<1>2. \A i \in D : g[i] \in Int
  OBVIOUS
<1>3. SumFunctionOnSet(f, D \ {x}) = SumFunctionOnSet(g, D \ {x})
  BY <1>1, SumSame
<1>4. SumFunctionOnSet(f, D) = f[x] + SumFunctionOnSet(f, D \ {x})
  BY SumSplit
<1>5. SumFunctionOnSet(g, D) = g[x] + SumFunctionOnSet(g, D \ {x})
  BY <1>2, SumSplit
<1>6. SumFunctionOnSet(f, D \ {x}) \in Int
  BY <1>1, SumType
<1> QED BY <1>2, <1>3, <1>4, <1>5, <1>6

(* The indices are renamed, each to one of its own.                         *)
Renames(h, D, E) ==
    /\ \A i \in D : h[i] \in E
    /\ \A j \in E : \E i \in D : h[i] = j
    /\ \A i, j \in D : h[i] = h[j] => i = j

LEMMA SumRename ==
  ASSUME NEW D, IsFiniteSet(D), NEW E, IsFiniteSet(E), NEW h, Renames(h, D, E),
         NEW f, NEW g, \A i \in D : f[i] = g[h[i]] /\ f[i] \in Int
  PROVE  SumFunctionOnSet(f, D) = SumFunctionOnSet(g, E)
<1> DEFINE Image(s) == {h[i] : i \in s}
           C == {s \in SUBSET D : SumFunctionOnSet(f, s) = SumFunctionOnSet(g, Image(s))}
<1>0. /\ \A i \in D : h[i] \in E
      /\ \A j \in E : \E i \in D : h[i] = j
      /\ \A i, j \in D : h[i] = h[j] => i = j
  BY DEF Renames
<1>1. {} \in C
  <2>1. Image({}) = {}
    OBVIOUS
  <2> QED BY <2>1, SumEmpty
<1>2. ASSUME NEW s \in SUBSET D, s # {}, \A x \in s : s \ {x} \in C PROVE s \in C
  <2>1. PICK x \in s : TRUE
    BY <1>2
  <2>2. IsFiniteSet(s) /\ IsFiniteSet(Image(s))
    <3>1. Image(s) \in SUBSET E
      BY <1>0
    <3> QED BY <3>1, FS_Subset
  <2>3. Image(s) \ {h[x]} = Image(s \ {x})
    BY <1>0, <2>1
  <2>4. SumFunctionOnSet(f, s) = f[x] + SumFunctionOnSet(f, s \ {x})
    BY <2>1, <2>2, SumSplit
  <2>5. SumFunctionOnSet(g, Image(s)) = g[h[x]] + SumFunctionOnSet(g, Image(s) \ {h[x]})
    <3>1. \A j \in Image(s) : g[j] \in Int
      OBVIOUS
    <3>2. h[x] \in Image(s)
      BY <2>1
    <3> HIDE DEF Image
    <3> QED BY <2>2, <3>1, <3>2, SumSplit
  <2>6. SumFunctionOnSet(f, s \ {x}) = SumFunctionOnSet(g, Image(s \ {x}))
    BY <1>2, <2>1
  <2>7. f[x] = g[h[x]]
    BY <2>1
  <2> HIDE DEF Image
  <2> QED BY <2>3, <2>4, <2>5, <2>6, <2>7
<1>3. D \in C
  <2> HIDE DEF C
  <2> QED BY <1>1, <1>2, SubsetInduction
<1>4. Image(D) = E
  BY <1>0
<1> HIDE DEF Image
<1> QED BY <1>3, <1>4

(* Elements counted by where they are mapped to add up to their number.     *)
LEMMA SumOfCounts ==
  ASSUME NEW D, IsFiniteSet(D), NEW I, IsFiniteSet(I), NEW h, \A i \in I : h[i] \in D
  PROVE  SumFunctionOnSet([d \in D |-> Cardinality({i \in I : h[i] = d})], D) = Cardinality(I)
<1> DEFINE Count(s) == [d \in D |-> Cardinality({i \in s : h[i] = d})]
           C == {s \in SUBSET I : SumFunctionOnSet(Count(s), D) = Cardinality(s)}
<1>1. ASSUME NEW s \in SUBSET I, NEW d \in D
      PROVE  /\ IsFiniteSet(s) /\ Cardinality(s) \in Nat
             /\ IsFiniteSet({i \in s : h[i] = d})
             /\ Count(s)[d] \in Nat
  <2>1. IsFiniteSet(s)
    BY FS_Subset
  <2>2. IsFiniteSet({i \in s : h[i] = d})
    BY <2>1, FS_Subset
  <2> QED BY <2>1, <2>2, FS_CardinalityType
<1>2. {} \in C
  <2> DEFINE zero == [d \in D |-> 0]
             Z == {s \in SUBSET D : SumFunctionOnSet(zero, s) = 0}
  <2>1. {} \in Z
    BY SumEmpty
  <2>2. ASSUME NEW s \in SUBSET D, s # {}, \A x \in s : s \ {x} \in Z PROVE s \in Z
    <3>1. PICK x \in s : TRUE
      BY <2>2
    <3>2. IsFiniteSet(s) /\ (\A i \in s : zero[i] \in Int) /\ zero[x] = 0
      BY <3>1, FS_Subset
    <3>3. SumFunctionOnSet(zero, s \ {x}) = 0
      BY <2>2, <3>1
    <3> HIDE DEF zero
    <3>4. SumFunctionOnSet(zero, s) = zero[x] + SumFunctionOnSet(zero, s \ {x})
      BY <3>1, <3>2, SumSplit
    <3> QED BY <3>2, <3>3, <3>4
  <2>3. D \in Z
    <3> HIDE DEF Z
    <3> QED BY <2>1, <2>2, SubsetInduction
  <2>4. Count({}) = zero
    BY FS_EmptySet
  <2> QED BY <2>3, <2>4, FS_EmptySet
<1>3. ASSUME NEW s \in SUBSET I, s # {}, \A x \in s : s \ {x} \in C PROVE s \in C
  <2>1. PICK x \in s : TRUE
    BY <1>3
  <2> DEFINE t == s \ {x}
  <2>2. h[x] \in D /\ t \in SUBSET I
    BY <2>1
  <2>3. Count(s)[h[x]] = Count(t)[h[x]] + 1
    <3> DEFINE A == {i \in s : h[i] = h[x]}
               B == {i \in t : h[i] = h[x]}
    <3>1. B = A \ {x} /\ x \in A
      BY <2>1
    <3>2. IsFiniteSet(A)
      BY <1>1, <2>2
    <3>3. Count(s)[h[x]] = Cardinality(A) /\ Count(t)[h[x]] = Cardinality(B)
      BY <2>2
    <3> HIDE DEF A, B, Count
    <3>4. Cardinality(A) \in Nat /\ Cardinality(B) = Cardinality(A) - 1
      BY <3>1, <3>2, FS_RemoveElement, FS_CardinalityType
    <3> QED BY <3>3, <3>4
  <2>4. ASSUME NEW d \in D \ {h[x]} PROVE Count(s)[d] = Count(t)[d]
    <3>1. {i \in t : h[i] = d} = {i \in s : h[i] = d}
      OBVIOUS
    <3> QED BY <3>1
  <2>5. \A d \in D : Count(t)[d] \in Int /\ Count(s)[d] \in Int
    <3> SUFFICES ASSUME NEW d \in D PROVE Count(t)[d] \in Nat /\ Count(s)[d] \in Nat
      OBVIOUS
    <3> HIDE DEF t
    <3> QED BY <1>1, <2>2
  <2>6. Cardinality(t) = Cardinality(s) - 1 /\ Cardinality(s) \in Nat
    BY <1>1, <2>1, <2>2, FS_RemoveElement
  <2>7. SumFunctionOnSet(Count(t), D) = Cardinality(t)
    BY <1>3, <2>1
  <2>8. SumFunctionOnSet(Count(s), D)
          = SumFunctionOnSet(Count(t), D) + (Count(s)[h[x]] - Count(t)[h[x]])
    <3> HIDE DEF Count, t
    <3> QED BY <2>2, <2>4, <2>5, SumChange
  <2>9. Count(t)[h[x]] \in Int
    BY <2>2, <2>5
  <2> HIDE DEF Count, t
  <2>10. SumFunctionOnSet(Count(s), D) = Cardinality(s)
    BY <2>3, <2>6, <2>7, <2>8, <2>9
  <2> QED BY <2>10
<1>4. I \in C
  <2> HIDE DEF C
  <2> QED BY <1>2, <1>3, SubsetInduction
<1> QED BY <1>4

(* Moving a finite set of numbers keeps its size.                           *)
LEMMA ShiftCardinality ==
  ASSUME NEW A, A \subseteq Int, IsFiniteSet(A), NEW k \in Int,
         NEW B, B \subseteq Int, IsFiniteSet(B), \A i \in Int : i \in A <=> i + k \in B
  PROVE  Cardinality(A) = Cardinality(B)
<1> DEFINE f == [i \in A |-> i + k]
<1>1. f \in Injection(A, B)
  BY DEF Injection, IsInjective
<1>2. f \in Surjection(A, B)
  <2>1. ASSUME NEW j \in B PROVE \E i \in A : f[i] = j
    <3>1. j - k \in A /\ (j - k) + k = j
      OBVIOUS
    <3> QED BY <3>1
  <2> QED BY <1>1, <2>1 DEF Injection, Surjection
<1> HIDE DEF f
<1> QED BY <1>1, <1>2, FS_Injection

-----------------------------------------------------------------------------
(* The size of an interval, and the smallest of a set of numbers.           *)
LEMMA IntervalSize ==
  ASSUME NEW a \in Int, NEW b \in Int, a <= b + 1
  PROVE  IsFiniteSet(a..b) /\ Cardinality(a..b) = b - a + 1
BY FS_Interval

LEMMA SmallestOf ==
  ASSUME NEW W \in SUBSET Nat, W # {}
  PROVE  \E m \in W : \A i \in W : m <= i
<1> SUFFICES ASSUME \A m \in W : \E i \in W : i < m PROVE FALSE
  OBVIOUS
<1> DEFINE S == {i \in Nat : \A j \in W : i <= j}
<1>1. 0 \in S
  OBVIOUS
<1>2. ASSUME NEW n \in Nat, n \in S PROVE n + 1 \in S
  BY <1>2
<1>3. \A n \in Nat : n \in S
  <2> HIDE DEF S
  <2> QED BY <1>1, <1>2, StepInduction
<1>4. PICK w \in W : TRUE
  OBVIOUS
<1> QED BY <1>3, <1>4

(* The largest of a bounded set of numbers, and of two.                     *)
LEMMA LargestOf ==
  ASSUME NEW n \in Nat, NEW W \in SUBSET Nat, W # {}, \A i \in W : i <= n
  PROVE  Max(W) \in W /\ \A i \in W : i <= Max(W)
<1> DEFINE Gaps == {n - i : i \in W}
<1>1. Gaps \in SUBSET Nat /\ Gaps # {}
  <2>1. ASSUME NEW i \in W PROVE n - i \in Nat
    <3>1. i \in Nat /\ i <= n
      OBVIOUS
    <3> QED BY <3>1
  <2> QED BY <2>1
<1>2. PICK g \in Gaps : \A h \in Gaps : g <= h
  <2> HIDE DEF Gaps
  <2> QED BY <1>1, SmallestOf
<1>3. PICK m \in W : g = n - m
  OBVIOUS
<1>4. \A i \in W : m >= i
  <2> SUFFICES ASSUME NEW i \in W PROVE m >= i
    OBVIOUS
  <2>1. n - m <= n - i
    BY <1>2, <1>3
  <2> QED BY <2>1
<1>5. Max(W) \in W /\ \A i \in W : Max(W) >= i
  BY <1>4 DEF Max
<1> QED BY <1>5

LEMMA MaxOf == ASSUME NEW a \in Int, NEW b \in Int
               PROVE  Max({a, b}) = IF a >= b THEN a ELSE b
<1> DEFINE m == IF a >= b THEN a ELSE b
<1>1. m \in {a, b} /\ \A y \in {a, b} : m >= y
  OBVIOUS
<1>2. \A x \in {a, b} : (\A y \in {a, b} : x >= y) => x = m
  OBVIOUS
<1> HIDE DEF m
<1>3. Max({a, b}) = m
  BY <1>1, <1>2 DEF Max
<1> QED BY <1>3 DEF m

LEMMA MinOf == ASSUME NEW a \in Int, NEW b \in Int
               PROVE  Min({a, b}) = IF a <= b THEN a ELSE b
<1> DEFINE m == IF a <= b THEN a ELSE b
<1>1. m \in {a, b} /\ \A y \in {a, b} : m <= y
  OBVIOUS
<1>2. \A x \in {a, b} : (\A y \in {a, b} : x <= y) => x = m
  OBVIOUS
<1> HIDE DEF m
<1>3. Min({a, b}) = m
  BY <1>1, <1>2 DEF Min
<1> QED BY <1>3 DEF m

-----------------------------------------------------------------------------
(* A sum of naturals is one.                                                *)
LEMMA SumNat ==
  ASSUME NEW D, IsFiniteSet(D), NEW f, \A i \in D : f[i] \in Nat
  PROVE  SumFunctionOnSet(f, D) \in Nat
<1> DEFINE C == {s \in SUBSET D : SumFunctionOnSet(f, s) \in Nat}
<1>1. {} \in C
  BY SumEmpty
<1>2. ASSUME NEW s \in SUBSET D, s # {}, \A x \in s : s \ {x} \in C PROVE s \in C
  <2>1. PICK x \in s : TRUE
    BY <1>2
  <2>2. IsFiniteSet(s) /\ (\A i \in s : f[i] \in Int) /\ f[x] \in Nat
    BY <2>1, FS_Subset
  <2>3. SumFunctionOnSet(f, s) = f[x] + SumFunctionOnSet(f, s \ {x})
    BY <2>1, <2>2, SumSplit
  <2>4. SumFunctionOnSet(f, s \ {x}) \in Nat
    BY <1>2, <2>1
  <2> QED BY <2>2, <2>3, <2>4
<1>3. D \in C
  <2> HIDE DEF C
  <2> QED BY <1>1, <1>2, SubsetInduction
<1> QED BY <1>3

(* Sums over the places of a list: one more element, or zeros behind it.    *)
LEMMA SumAppended ==
  ASSUME NEW n \in Nat, NEW f, NEW g, \A i \in 1..n + 1 : g[i] \in Int,
         \A i \in 1..n : f[i] = g[i]
  PROVE  SumFunctionOnSet(g, 1..n + 1) = SumFunctionOnSet(f, 1..n) + g[n + 1]
<1> DEFINE D == 1..n + 1
           E == 1..n
<1>1. /\ n + 1 \in D /\ D \ {n + 1} = E /\ \A i \in E : i \in D
      /\ g[n + 1] \in Int
  OBVIOUS
<1>2. IsFiniteSet(D) /\ IsFiniteSet(E)
  BY IntervalSize
<1>3. (\A i \in D : g[i] \in Int) /\ \A i \in E : f[i] = g[i]
  OBVIOUS
<1> HIDE DEF D, E
<1>4. SumFunctionOnSet(g, D) = g[n + 1] + SumFunctionOnSet(g, E)
  BY <1>1, <1>2, <1>3, SumSplit
<1>5. SumFunctionOnSet(f, E) = SumFunctionOnSet(g, E)
  BY <1>1, <1>2, <1>3, SumSame
<1>6. SumFunctionOnSet(g, E) \in Int
  BY <1>1, <1>2, <1>3, SumType
<1>7. SumFunctionOnSet(g, D) = SumFunctionOnSet(f, E) + g[n + 1]
  BY <1>1, <1>4, <1>5, <1>6
<1> QED BY <1>7 DEF D, E

LEMMA SumPadded ==
  ASSUME NEW n \in Nat, NEW m \in Nat, NEW f, NEW g,
         \A i \in 1..n : f[i] = g[i] /\ f[i] \in Int,
         \A k \in 1..m : g[n + k] = 0
  PROVE  SumFunctionOnSet(g, 1..n + m) = SumFunctionOnSet(f, 1..n)
<1> DEFINE total == SumFunctionOnSet(f, 1..n)
           C == {j \in Nat : j <= m => SumFunctionOnSet(g, 1..n + j) = total}
<1>0. IsFiniteSet(1..n) /\ total \in Int
  <2>1. IsFiniteSet(1..n)
    BY IntervalSize
  <2> QED BY <2>1, SumType
<1>1. 0 \in C
  <2>1. n + 0 = n
    OBVIOUS
  <2>2. SumFunctionOnSet(g, 1..n) = total
    BY <1>0, SumSame
  <2> QED BY <2>1, <2>2
<1>2. ASSUME NEW j \in Nat, j \in C PROVE j + 1 \in C
  <2> SUFFICES ASSUME j + 1 <= m PROVE SumFunctionOnSet(g, 1..n + (j + 1)) = total
    OBVIOUS
  <2> DEFINE k == n + j
  <2>1. k \in Nat /\ k + 1 = n + (j + 1) /\ j + 1 \in 1..m
    OBVIOUS
  <2>2. g[k + 1] = 0
    BY <2>1
  <2>3. SumFunctionOnSet(g, 1..k) = total
    BY <1>2
  <2>4. \A i \in 1..k + 1 : g[i] \in Int
    <3> SUFFICES ASSUME NEW i \in 1..k + 1 PROVE g[i] \in Int
      OBVIOUS
    <3>1. CASE i \in 1..n
      BY <3>1
    <3>2. CASE i \notin 1..n
      <4> DEFINE l == i - n
      <4>1. l \in 1..m /\ i = n + l
        BY <3>2
      <4> HIDE DEF l
      <4> QED BY <4>1
    <3> QED BY <3>1, <3>2
  <2> HIDE DEF k, total
  <2>5. SumFunctionOnSet(g, 1..k + 1) = SumFunctionOnSet(g, 1..k) + g[k + 1]
    BY <2>1, <2>4, SumAppended
  <2> QED BY <1>0, <2>1, <2>2, <2>3, <2>5
<1>3. m \in C
  <2> HIDE DEF C
  <2> QED BY <1>1, <1>2, StepInduction
<1> QED BY <1>3

-----------------------------------------------------------------------------
(* The elements of a list that are in S, in their order.                    *)
Filter(list, S) ==
    FoldLeft(LAMBDA kept, x : IF x \in S THEN Append(kept, x) ELSE kept, <<>>, list)

(* Filter, one element of the list after the other.                           *)
Filters(it, V, list, S, n) ==
    /\ it \in [0..n -> Seq(V)]
    /\ it[0] = << >>
    /\ \A k \in 1..n :
          it[k] = IF list[k] \in S THEN Append(it[k - 1], list[k]) ELSE it[k - 1]

LEMMA FilterUnfolds ==
  ASSUME NEW V, NEW list \in Seq(V), NEW S
  PROVE  \E it : Filters(it, V, list, S, Len(list)) /\ Filter(list, S) = it[Len(list)]
<1> DEFINE n == Len(list)
           D == 1..n
           step == [w \in D \X Seq(V) |->
                      IF list[w[1]] \in S THEN Append(w[2], list[w[1]]) ELSE w[2]]
           last == [s \in SUBSET D |-> Max(s)]
           next(it, s) == IF s = {} THEN << >>
                          ELSE IF list[Max(s)] \in S
                               THEN Append(it[s \ {Max(s)}], list[Max(s)])
                               ELSE it[s \ {Max(s)}]
           Equals(it) == it = [s \in SUBSET D |-> next(it, s)]
           iter == CHOOSE it : Equals(it)
<1>1. n \in Nat /\ DOMAIN list = D /\ IsFiniteSet(D) /\ \A i \in D : list[i] \in V
  BY FS_Interval
<1>2. Filter(list, S) = iter[D]
  BY <1>1 DEF Filter, FoldLeft, MapThenFoldSet
<1>3. \A s \in SUBSET D : s # {} => Max(s) \in s
  <2> SUFFICES ASSUME NEW s \in SUBSET D, s # {} PROVE Max(s) \in s
    OBVIOUS
  <2>1. s \in SUBSET Nat /\ \A i \in s : i <= n
    BY <1>1
  <2> HIDE DEF n
  <2> QED BY <1>1, <2>1, LargestOf
<1>4. PICK it : Folds(it, D, Seq(V), << >>, step, last)
  <2> DEFINE W == Seq(V)
  <2>1. step \in [D \X W -> W] /\ << >> \in W
    <3>1. ASSUME NEW w \in D \X W PROVE step[w] \in W
      <4>1. w[2] \in Seq(V) /\ list[w[1]] \in V
        BY <1>1
      <4>2. Append(w[2], list[w[1]]) \in Seq(V)
        BY <4>1
      <4>3. step[w] = IF list[w[1]] \in S THEN Append(w[2], list[w[1]]) ELSE w[2]
        OBVIOUS
      <4> QED BY <4>1, <4>2, <4>3
    <3> QED BY <3>1
  <2>2. Picks(last, D)
    BY <1>3 DEF Picks
  <2> HIDE DEF step, last, W, D
  <2>3. \E jt : Folds(jt, D, W, << >>, step, last)
    BY <1>1, <2>1, <2>2, FoldExists
  <2> QED BY <2>3 DEF W
<1>5. Equals(it)
  <2>1. it \in [SUBSET D -> Seq(V)]
    BY <1>4 DEF Folds
  <2>2. ASSUME NEW s \in SUBSET D, s # {} PROVE it[s] = next(it, s)
    <3>1. Max(s) \in D /\ s \ {Max(s)} \in SUBSET D /\ last[s] = Max(s)
      BY <1>3, <2>2
    <3>2. it[s \ {Max(s)}] \in Seq(V)
      BY <2>1, <3>1
    <3>3. it[s] = step[<<Max(s), it[s \ {Max(s)}]>>]
      <4> HIDE DEF step, last
      <4> QED BY <1>4, <2>2, <3>1 DEF Folds
    <3>4. step[<<Max(s), it[s \ {Max(s)}]>>]
            = IF list[Max(s)] \in S THEN Append(it[s \ {Max(s)}], list[Max(s)])
                                    ELSE it[s \ {Max(s)}]
      BY <3>1, <3>2
    <3> QED BY <2>2, <3>3, <3>4
  <2>3. it[{}] = << >>
    BY <1>4 DEF Folds
  <2> QED BY <2>1, <2>2, <2>3
<1>6. Equals(iter)
  <2> HIDE DEF Equals
  <2> QED BY <1>5
<1>7. \A s \in SUBSET D : iter[s] = next(iter, s)
  <2> HIDE DEF iter, next
  <2> QED BY <1>6
<1> DEFINE kt == [k \in 0..n |-> iter[1..k]]
<1>8. kt[0] = << >>
  <2>1. 1..0 = {} /\ {} \in SUBSET D /\ 0 \in 0..n
    BY <1>1
  <2> HIDE DEF iter
  <2> QED BY <1>7, <2>1
<1>9. ASSUME NEW k \in 1..n
      PROVE  kt[k] = IF list[k] \in S THEN Append(kt[k - 1], list[k]) ELSE kt[k - 1]
  <2>1. k \in Nat /\ k - 1 \in 0..n /\ k \in 0..n /\ 1..k \in SUBSET D /\ 1..k # {}
    <3> HIDE DEF n, kt, iter
    <3>1. k \in Nat /\ 1 <= k /\ k <= n /\ n \in Nat
      BY <1>1
    <3>2. \A i \in 1..k : i \in 1..n
      BY <3>1
    <3>3. k \in 1..k
      BY <3>1
    <3>4. k - 1 \in 0..n /\ k \in 0..n
      BY <3>1
    <3>5. 1..k \in SUBSET (1..n) /\ 1..k # {}
      BY <3>2, <3>3
    <3> QED BY <3>1, <3>4, <3>5
  <2>2. Max(1..k) = k
    <3>1. 1..k \in SUBSET Nat /\ (\A i \in 1..k : i <= k) /\ k \in 1..k
      BY <2>1
    <3>2. Max(1..k) \in 1..k /\ \A i \in 1..k : i <= Max(1..k)
      BY <2>1, <3>1, LargestOf
    <3> QED BY <2>1, <3>1, <3>2
  <2>3. (1..k) \ {k} = 1..(k - 1)
    BY <2>1
  <2>4. iter[1..k] = next(iter, 1..k)
    BY <1>7, <2>1
  <2> HIDE DEF iter
  <2> QED BY <2>1, <2>2, <2>3, <2>4
<1>10. kt \in [0..n -> Seq(V)]
  <2> DEFINE C == {k \in Nat : k <= n => kt[k] \in Seq(V)}
  <2>1. 0 \in C
    BY <1>8
  <2>2. ASSUME NEW k \in Nat, k \in C PROVE k + 1 \in C
    <3> SUFFICES ASSUME k + 1 <= n PROVE kt[k + 1] \in Seq(V)
      OBVIOUS
    <3>1. k + 1 \in 1..n /\ (k + 1) - 1 = k /\ kt[k] \in Seq(V)
      BY <1>1, <2>2
    <3>2. list[k + 1] \in V
      BY <1>1, <3>1
    <3>3. kt[k + 1] = IF list[k + 1] \in S THEN Append(kt[k], list[k + 1]) ELSE kt[k]
      <4> HIDE DEF kt
      <4> QED BY <1>9, <3>1
    <3> HIDE DEF kt, n
    <3>4. Append(kt[k], list[k + 1]) \in Seq(V)
      BY <3>1, <3>2
    <3> QED BY <3>1, <3>3, <3>4
  <2>3. \A k \in Nat : k \in C
    <3> HIDE DEF C
    <3> QED BY <2>1, <2>2, StepInduction
  <2>4. \A k \in 0..n : kt[k] \in Seq(V)
    <3> HIDE DEF kt
    <3> QED BY <1>1, <2>3
  <2> QED BY <2>4
<1>11. Filter(list, S) = kt[n]
  <2> HIDE DEF iter
  <2> QED BY <1>1, <1>2
<1> HIDE DEF kt
<1>12. Filters(kt, V, list, S, n)
  <2> HIDE DEF n
  <2> QED BY <1>8, <1>9, <1>10 DEF Filters
<1> QED BY <1>11, <1>12

(* Where in a list there is an element of U.                                *)
PlacesOf(list, U) == {i \in DOMAIN list : list[i] \in U}

(* Filter keeps what is in S: the same elements, each as often.             *)
LEMMA FilterKeeps ==
  ASSUME NEW V, NEW list \in Seq(V), NEW S
  PROVE  /\ Filter(list, S) \in Seq(V)
         /\ \A i \in DOMAIN Filter(list, S) :
               Filter(list, S)[i] \in S /\ \E j \in DOMAIN list : Filter(list, S)[i] = list[j]
         /\ \A U : Cardinality(PlacesOf(Filter(list, S), U)) = Cardinality(PlacesOf(list, S \cap U))
<1> DEFINE n == Len(list)
<1>1. n \in Nat /\ DOMAIN list = 1..n /\ \A i \in 1..n : list[i] \in V
  OBVIOUS
<1>2. PICK it : Filters(it, V, list, S, n) /\ Filter(list, S) = it[n]
  BY FilterUnfolds
<1>6. /\ it \in [0..n -> Seq(V)] /\ it[0] = << >>
      /\ \A k \in 1..n :
            it[k] = IF list[k] \in S THEN Append(it[k - 1], list[k]) ELSE it[k - 1]
  BY <1>2 DEF Filters
<1> HIDE DEF n
<1> DEFINE Good(k) ==
             /\ \A i \in DOMAIN it[k] : it[k][i] \in S /\ \E j \in 1..k : it[k][i] = list[j]
             /\ \A U : Cardinality({i \in DOMAIN it[k] : it[k][i] \in U})
                      = Cardinality({i \in 1..k : list[i] \in S /\ list[i] \in U})
           C == {k \in Nat : k <= n => Good(k)}
<1>3. 0 \in C
  <2>1. DOMAIN it[0] = {} /\ 1..0 = {}
    BY <1>6
  <2>2. \A U : /\ {i \in DOMAIN it[0] : it[0][i] \in U} = {}
               /\ {i \in 1..0 : list[i] \in S /\ list[i] \in U} = {}
    BY <2>1
  <2>3. Good(0)
    BY <2>1, <2>2
  <2> QED BY <2>3
<1>4. ASSUME NEW k \in Nat, k \in C PROVE k + 1 \in C
  <2> SUFFICES ASSUME k + 1 <= n PROVE Good(k + 1)
    <3> HIDE DEF Good
    <3> QED OBVIOUS
  <2>1. /\ Good(k) /\ k + 1 \in 1..n /\ k \in 0..n /\ (k + 1) - 1 = k
        /\ it[k] \in Seq(V) /\ list[k + 1] \in V
    <3>1. k <= n /\ k + 1 \in 1..n /\ k \in 0..n /\ (k + 1) - 1 = k
      BY <1>1
    <3>2. Good(k)
      <4> HIDE DEF Good
      <4> QED BY <1>4, <3>1
    <3> HIDE DEF Good
    <3> QED BY <1>1, <1>6, <3>1, <3>2
  <2>2. it[k + 1] = IF list[k + 1] \in S THEN Append(it[k], list[k + 1]) ELSE it[k]
    BY <1>6, <2>1
  <2> DEFINE Had(U) == {i \in DOMAIN it[k] : it[k][i] \in U}
             Has(U) == {i \in DOMAIN it[k + 1] : it[k + 1][i] \in U}
             From(U) == {i \in 1..k : list[i] \in S /\ list[i] \in U}
             To(U) == {i \in 1..k + 1 : list[i] \in S /\ list[i] \in U}
             m == Len(it[k])
  <2>3. /\ m \in Nat /\ DOMAIN it[k] = 1..m
        /\ \A U : /\ IsFiniteSet(Had(U)) /\ Had(U) \in SUBSET (1..m)
                  /\ IsFiniteSet(From(U)) /\ From(U) \in SUBSET (1..k)
    <3>1. m \in Nat /\ DOMAIN it[k] = 1..m
      BY <2>1
    <3>2. IsFiniteSet(1..m) /\ IsFiniteSet(1..k)
      <4> HIDE DEF m
      <4> QED BY <3>1, IntervalSize
    <3> SUFFICES ASSUME NEW U PROVE IsFiniteSet(Had(U)) /\ IsFiniteSet(From(U))
      BY <3>1
    <3>3. Had(U) \in SUBSET (1..m) /\ From(U) \in SUBSET (1..k)
      BY <3>1
    <3> HIDE DEF Had, From, m
    <3> QED BY <3>2, <3>3, FS_Subset
  <2>4. \A U : Cardinality(Had(U)) = Cardinality(From(U))
    BY <2>1
  <2>5. \A i \in 1..k + 1 : i \in 1..k \/ i = k + 1
    OBVIOUS
  <2>6. CASE list[k + 1] \in S
    <3>1. /\ DOMAIN it[k + 1] = 1..m + 1
          /\ \A i \in 1..m : it[k + 1][i] = it[k][i]
          /\ it[k + 1][m + 1] = list[k + 1]
          /\ \A i \in 1..m + 1 : i \in 1..m \/ i = m + 1
      BY <2>1, <2>2, <2>3, <2>6
    <3>2. \A i \in DOMAIN it[k + 1] :
             it[k + 1][i] \in S /\ \E j \in 1..k + 1 : it[k + 1][i] = list[j]
      BY <2>1, <2>3, <2>6, <3>1
    <3>3. ASSUME NEW U PROVE Cardinality(Has(U)) = Cardinality(To(U))
      <4>1. CASE list[k + 1] \in U
        <5>1. Has(U) = Had(U) \cup {m + 1} /\ m + 1 \notin Had(U)
          BY <2>3, <3>1, <4>1
        <5>2. To(U) = From(U) \cup {k + 1} /\ k + 1 \notin From(U)
          BY <2>5, <2>6, <4>1
        <5>3. IsFiniteSet(Had(U)) /\ IsFiniteSet(From(U))
                /\ Cardinality(Had(U)) = Cardinality(From(U))
          BY <2>3, <2>4
        <5> HIDE DEF Had, Has, From, To, m
        <5>4. Cardinality(Has(U)) = Cardinality(Had(U)) + 1
          BY <5>1, <5>3, FS_AddElement
        <5>5. Cardinality(To(U)) = Cardinality(From(U)) + 1
          BY <5>2, <5>3, FS_AddElement
        <5> QED BY <5>3, <5>4, <5>5
      <4>2. CASE list[k + 1] \notin U
        <5>1. Has(U) = Had(U) /\ To(U) = From(U)
          BY <2>3, <2>5, <3>1, <4>2
        <5> HIDE DEF Had, Has, From, To
        <5> QED BY <2>4, <5>1
      <4> QED BY <4>1, <4>2
    <3> QED BY <3>2, <3>3
  <2>7. CASE list[k + 1] \notin S
    <3>1. it[k + 1] = it[k]
      BY <2>2, <2>7
    <3>2. \A U : Has(U) = Had(U) /\ To(U) = From(U)
      BY <2>5, <2>7, <3>1
    <3>3. \A i \in DOMAIN it[k + 1] :
             it[k + 1][i] \in S /\ \E j \in 1..k + 1 : it[k + 1][i] = list[j]
      BY <2>1, <3>1
    <3>4. \A U : Cardinality(Has(U)) = Cardinality(To(U))
      BY <2>4, <3>2
    <3> QED BY <3>3, <3>4
  <2> QED BY <2>6, <2>7
<1>5. Good(n)
  <2>1. \A k \in Nat : k \in C
    <3> HIDE DEF C
    <3> QED BY <1>3, <1>4, StepInduction
  <2> HIDE DEF Good
  <2> QED BY <1>1, <2>1
<1>7. it[n] \in Seq(V)
  BY <1>1, <1>6
<1>8. ASSUME NEW U
      PROVE  Cardinality(PlacesOf(Filter(list, S), U)) = Cardinality(PlacesOf(list, S \cap U))
  <2>1. PlacesOf(Filter(list, S), U) = {i \in DOMAIN it[n] : it[n][i] \in U}
    BY <1>2 DEF PlacesOf
  <2>2. PlacesOf(list, S \cap U) = {i \in 1..n : list[i] \in S /\ list[i] \in U}
    BY <1>1 DEF PlacesOf
  <2> QED BY <1>5, <2>1, <2>2
<1> QED BY <1>1, <1>2, <1>5, <1>7, <1>8

(* How many elements of a list are in U.                                    *)
Among(list, U) == Cardinality(PlacesOf(list, U))

LEMMA AmongType ==
  ASSUME NEW V, NEW list \in Seq(V), NEW U
  PROVE  IsFiniteSet(PlacesOf(list, U)) /\ Among(list, U) \in Nat /\ Among(list, U) <= Len(list)
<1> DEFINE n == Len(list)
<1>1. n \in Nat /\ PlacesOf(list, U) \in SUBSET (1..n)
  BY DEF PlacesOf
<1>2. IsFiniteSet(1..n) /\ Cardinality(1..n) = n
  <2> HIDE DEF n
  <2>1. Cardinality(1..n) = n - 1 + 1 /\ IsFiniteSet(1..n)
    BY <1>1, IntervalSize
  <2> QED BY <1>1, <2>1
<1>3. IsFiniteSet(PlacesOf(list, U)) /\ Cardinality(PlacesOf(list, U)) <= n
  <2> HIDE DEF n
  <2> QED BY <1>1, <1>2, FS_Subset
<1> QED BY <1>3, FS_CardinalityType DEF Among

(* Of two lists, one behind the other.                                      *)
LEMMA AmongBoth ==
  ASSUME NEW V, NEW a \in Seq(V), NEW b \in Seq(V), NEW U
  PROVE  Among(a \o b, U) <= Among(a, U) + Among(b, U)
<1> DEFINE m == Len(a)
           n == Len(b)
           A == PlacesOf(a, U)
           B == PlacesOf(b, U)
           C == PlacesOf(a \o b, U)
           later == C \ A
<1>1. /\ m \in Nat /\ n \in Nat /\ DOMAIN a = 1..m /\ DOMAIN b = 1..n
      /\ DOMAIN (a \o b) = 1..m + n /\ a \o b \in Seq(V)
      /\ \A i \in 1..m : (a \o b)[i] = a[i]
      /\ \A i \in 1..n : (a \o b)[m + i] = b[i]
  OBVIOUS
<1>2. /\ IsFiniteSet(A) /\ IsFiniteSet(B) /\ IsFiniteSet(C)
      /\ Cardinality(A) \in Nat /\ Cardinality(B) \in Nat
  BY <1>1, AmongType DEF Among
<1>3. A \in SUBSET C /\ A \in SUBSET (1..m)
  BY <1>1 DEF PlacesOf
<1>4. later \in SUBSET C /\ IsFiniteSet(later)
  <2> HIDE DEF C
  <2> QED BY <1>2, FS_Subset
<1>5. \A i \in Int : i \in B <=> i + m \in later
  <2> SUFFICES ASSUME NEW i \in Int PROVE i \in B <=> i + m \in later
    OBVIOUS
  <2>1. ASSUME i \in B PROVE i + m \in later
    <3>1. i \in 1..n /\ b[i] \in U
      BY <1>1, <2>1 DEF PlacesOf
    <3>2. i + m \in 1..m + n /\ i + m \notin 1..m /\ i + m = m + i
      BY <1>1, <3>1
    <3> QED BY <1>1, <1>3, <3>1, <3>2 DEF PlacesOf
  <2>2. ASSUME i + m \in later PROVE i \in B
    <3>1. i + m \in 1..m + n /\ (a \o b)[i + m] \in U /\ i + m \notin A
      BY <1>1, <2>2 DEF PlacesOf
    <3>2. i + m \notin 1..m
      BY <1>1, <3>1 DEF PlacesOf
    <3>3. i \in 1..n /\ i + m = m + i
      BY <1>1, <3>1, <3>2
    <3> QED BY <1>1, <3>1, <3>3 DEF PlacesOf
  <2> QED BY <2>1, <2>2
<1>6. B \subseteq Int /\ later \subseteq Int
  BY <1>1 DEF PlacesOf
<1> HIDE DEF later
<1>7. Cardinality(later) = Cardinality(B)
  <2> HIDE DEF A, B, C, m
  <2>1. m \in Int
    BY <1>1
  <2> QED BY <1>2, <1>4, <1>5, <1>6, <2>1, ShiftCardinality
<1>8. C = A \cup later /\ A \cap later = {}
  <2> HIDE DEF A, C
  <2> QED BY <1>3 DEF later
<1>9. Cardinality(C) <= Cardinality(A) + Cardinality(B)
  <2> HIDE DEF A, B, C
  <2>1. Cardinality(A \cup later) = Cardinality(A) + Cardinality(later) - Cardinality(A \cap later)
    BY <1>2, <1>4, FS_Union
  <2>2. Cardinality(A \cap later) = 0
    BY <1>8, FS_EmptySet
  <2> QED BY <1>2, <1>7, <1>8, <2>1, <2>2
<1> QED BY <1>9 DEF Among

(* What is filtered out of two lists begins with what is filtered out of    *)
(* the first.                                                               *)
Begins(s, t) == Len(s) <= Len(t) /\ \A i \in 1..Len(s) : t[i] = s[i]

LEMMA FilterBegins ==
  ASSUME NEW V, NEW a \in Seq(V), NEW b \in Seq(V), NEW S
  PROVE  Begins(Filter(a, S), Filter(a \o b, S))
<1> DEFINE c == a \o b
           m == Len(a)
           n == Len(c)
<1>1. /\ m \in Nat /\ n \in Nat /\ m <= n /\ c \in Seq(V)
      /\ \A i \in 1..m : c[i] = a[i]
      /\ \A i \in 1..n : c[i] \in V
  OBVIOUS
<1>2. PICK it : Filters(it, V, c, S, n) /\ Filter(c, S) = it[n]
  BY <1>1, FilterUnfolds
<1>3. PICK jt : Filters(jt, V, a, S, m) /\ Filter(a, S) = jt[m]
  BY FilterUnfolds
<1> HIDE DEF m, n, c
<1>4. /\ it[0] = << >> /\ it \in [0..n -> Seq(V)]
      /\ \A k \in 1..n : it[k] = IF c[k] \in S THEN Append(it[k - 1], c[k]) ELSE it[k - 1]
  BY <1>2 DEF Filters
<1>5. /\ jt[0] = << >>
      /\ \A k \in 1..m : jt[k] = IF a[k] \in S THEN Append(jt[k - 1], a[k]) ELSE jt[k - 1]
  BY <1>3 DEF Filters
<1>6. it[m] = jt[m]
  <2> DEFINE C == {k \in Nat : k <= m => it[k] = jt[k]}
  <2>1. 0 \in C
    BY <1>4, <1>5
  <2>2. ASSUME NEW k \in Nat, k \in C PROVE k + 1 \in C
    <3> SUFFICES ASSUME k + 1 <= m PROVE it[k + 1] = jt[k + 1]
      OBVIOUS
    <3>1. k + 1 \in 1..m /\ k + 1 \in 1..n /\ (k + 1) - 1 = k /\ it[k] = jt[k]
      BY <1>1, <2>2
    <3> QED BY <1>1, <1>4, <1>5, <3>1
  <2>3. \A k \in Nat : k \in C
    <3> HIDE DEF C
    <3> QED BY <2>1, <2>2, StepInduction
  <2> QED BY <1>1, <2>3
<1>7. Begins(it[m], it[n])
  <2> DEFINE C == {k \in Nat : m <= k /\ k <= n => Begins(it[m], it[k])}
  <2>1. \A s \in Seq(V) : Begins(s, s)
    BY DEF Begins
  <2>2. \A s, t \in Seq(V), x \in V : Begins(s, t) => Begins(s, Append(t, x))
    BY DEF Begins
  <2>3. m \in 0..n
    BY <1>1
  <2>4. 0 \in C
    <3> SUFFICES ASSUME m <= 0 PROVE Begins(it[m], it[0])
      OBVIOUS
    <3>1. m = 0
      BY <1>1
    <3> QED BY <1>4, <2>1, <2>3, <3>1
  <2>5. ASSUME NEW k \in Nat, k \in C PROVE k + 1 \in C
    <3> SUFFICES ASSUME m <= k + 1, k + 1 <= n PROVE Begins(it[m], it[k + 1])
      OBVIOUS
    <3>1. CASE m = k + 1
      BY <1>4, <2>1, <2>3, <3>1
    <3>2. CASE m # k + 1
      <4>1. m <= k /\ k <= n /\ k + 1 \in 1..n /\ (k + 1) - 1 = k /\ k \in 0..n
        <5>1. m \in Nat /\ n \in Nat /\ m <= k + 1 /\ k + 1 <= n /\ m # k + 1
          BY <1>1, <3>2
        <5> HIDE DEF C
        <5> QED BY <5>1
      <4>2. Begins(it[m], it[k]) /\ it[k] \in Seq(V) /\ it[m] \in Seq(V) /\ c[k + 1] \in V
        BY <1>1, <1>4, <2>3, <2>5, <4>1
      <4>3. it[k + 1] = IF c[k + 1] \in S THEN Append(it[k], c[k + 1]) ELSE it[k]
        BY <1>4, <4>1
      <4> QED BY <2>2, <4>2, <4>3
    <3> QED BY <3>1, <3>2
  <2>6. \A k \in Nat : k \in C
    <3> HIDE DEF C
    <3> QED BY <2>4, <2>5, StepInduction
  <2> QED BY <1>1, <2>6
<1> QED BY <1>2, <1>3, <1>6, <1>7 DEF c

(* Everything of a list that is in S is among what is filtered out of it,   *)
(* which is as long as there are such elements.                             *)
LEMMA FilterHas ==
  ASSUME NEW V, NEW list \in Seq(V), NEW S
  PROVE  /\ Len(Filter(list, S)) = Among(list, S)
         /\ \A i \in DOMAIN list : list[i] \in S =>
               \E j \in DOMAIN Filter(list, S) : Filter(list, S)[j] = list[i]
<1> DEFINE kept == Filter(list, S)
           n == Len(kept)
<1>1. /\ kept \in Seq(V) /\ n \in Nat /\ DOMAIN kept = 1..n
      /\ \A i \in 1..n : kept[i] \in S
      /\ \A U : Cardinality(PlacesOf(kept, U)) = Cardinality(PlacesOf(list, S \cap U))
  BY FilterKeeps
<1> HIDE DEF kept
<1>2. n = Among(list, S)
  <2>1. PlacesOf(kept, S) = 1..n
    BY <1>1 DEF PlacesOf
  <2>2. Cardinality(1..n) = n
    <3> HIDE DEF n
    <3>1. Cardinality(1..n) = n - 1 + 1
      BY <1>1, IntervalSize
    <3> QED BY <1>1, <3>1
  <2>3. S \cap S = S
    OBVIOUS
  <2>4. Cardinality(PlacesOf(kept, S)) = Cardinality(PlacesOf(list, S))
    BY <1>1, <2>3
  <2> QED BY <2>1, <2>2, <2>4 DEF Among
<1>3. ASSUME NEW i \in DOMAIN list, list[i] \in S
      PROVE  \E j \in DOMAIN kept : kept[j] = list[i]
  <2> DEFINE U == {list[i]}
  <2>1. i \in PlacesOf(list, S \cap U)
    BY <1>3 DEF PlacesOf
  <2>2. IsFiniteSet(PlacesOf(list, S \cap U))
    BY AmongType
  <2>3. Cardinality(PlacesOf(list, S \cap U)) # 0
    BY <2>1, <2>2, FS_EmptySet
  <2>4. Cardinality(PlacesOf(kept, U)) # 0
    <3> HIDE DEF U
    <3> QED BY <1>1, <2>3
  <2>5. PlacesOf(kept, U) # {}
    BY <2>4, FS_EmptySet
  <2> QED BY <2>5 DEF PlacesOf
<1> QED BY <1>2, <1>3 DEF kept

-----------------------------------------------------------------------------
(* Signs of sums, and values that add nothing.                              *)
LEMMA SumPositive ==
  ASSUME NEW D, IsFiniteSet(D), NEW f, \A i \in D : f[i] \in Nat, NEW x \in D, f[x] > 0
  PROVE  SumFunctionOnSet(f, D) > 0
<1>1. SumFunctionOnSet(f, D) = f[x] + SumFunctionOnSet(f, D \ {x})
  BY SumSplit
<1>2. IsFiniteSet(D \ {x})
  BY FS_Subset
<1>3. SumFunctionOnSet(f, D \ {x}) \in Nat
  BY <1>2, SumNat
<1> QED BY <1>1, <1>3

LEMMA SumOpposite ==
  ASSUME NEW D, IsFiniteSet(D), NEW f, NEW g, \A i \in D : f[i] \in Int /\ g[i] = -f[i]
  PROVE  SumFunctionOnSet(g, D) = -SumFunctionOnSet(f, D)
<1> DEFINE C == {s \in SUBSET D : SumFunctionOnSet(g, s) = -SumFunctionOnSet(f, s)}
<1>1. {} \in C
  BY SumEmpty
<1>2. ASSUME NEW s \in SUBSET D, s # {}, \A x \in s : s \ {x} \in C PROVE s \in C
  <2>1. PICK x \in s : TRUE
    BY <1>2
  <2>2. IsFiniteSet(s) /\ IsFiniteSet(s \ {x})
    BY FS_Subset
  <2>3. \A i \in s : f[i] \in Int /\ g[i] \in Int /\ g[i] = -f[i]
    OBVIOUS
  <2>4. SumFunctionOnSet(f, s) = f[x] + SumFunctionOnSet(f, s \ {x})
    BY <2>1, <2>2, <2>3, SumSplit
  <2>5. SumFunctionOnSet(g, s) = g[x] + SumFunctionOnSet(g, s \ {x})
    BY <2>1, <2>2, <2>3, SumSplit
  <2>6. SumFunctionOnSet(f, s \ {x}) \in Int
    BY <2>2, <2>3, SumType
  <2>7. SumFunctionOnSet(g, s \ {x}) = -SumFunctionOnSet(f, s \ {x})
    BY <1>2, <2>1
  <2>8. SumFunctionOnSet(g, s) = -SumFunctionOnSet(f, s)
    BY <2>1, <2>3, <2>4, <2>5, <2>6, <2>7
  <2> QED BY <2>8
<1>3. D \in C
  <2> HIDE DEF C
  <2> QED BY <1>1, <1>2, SubsetInduction
<1> QED BY <1>3

LEMMA SumWithoutZeros ==
  ASSUME NEW D, IsFiniteSet(D), NEW S \in SUBSET D,
         NEW f, \A i \in D : f[i] \in Int, \A i \in D \ S : f[i] = 0
  PROVE  SumFunctionOnSet(f, D) = SumFunctionOnSet(f, S)
<1> DEFINE E == D \ S
           C == {s \in SUBSET E : SumFunctionOnSet(f, S \cup s) = SumFunctionOnSet(f, S)}
<1>1. {} \in C
  OBVIOUS
<1>2. ASSUME NEW s \in SUBSET E, s # {}, \A x \in s : s \ {x} \in C PROVE s \in C
  <2>1. PICK x \in s : TRUE
    BY <1>2
  <2>2. /\ x \in S \cup s /\ (S \cup s) \ {x} = S \cup (s \ {x}) /\ f[x] = 0
        /\ S \cup s \in SUBSET D /\ S \cup (s \ {x}) \in SUBSET D
    BY <2>1
  <2>3. IsFiniteSet(S \cup s) /\ IsFiniteSet(S \cup (s \ {x}))
    <3> HIDE DEF E
    <3> QED BY <2>2, FS_Subset
  <2>4. SumFunctionOnSet(f, S \cup s) = f[x] + SumFunctionOnSet(f, (S \cup s) \ {x})
    <3> DEFINE T == S \cup s
    <3>1. x \in T /\ \A i \in T : f[i] \in Int
      BY <2>2
    <3> HIDE DEF T
    <3>2. SumFunctionOnSet(f, T) = f[x] + SumFunctionOnSet(f, T \ {x})
      BY <2>3, <3>1, SumSplit DEF T
    <3> QED BY <3>2 DEF T
  <2>5. SumFunctionOnSet(f, S \cup (s \ {x})) \in Int
    <3> DEFINE T == S \cup (s \ {x})
    <3>1. \A i \in T : f[i] \in Int
      BY <2>2
    <3> HIDE DEF T
    <3>2. SumFunctionOnSet(f, T) \in Int
      BY <2>3, <3>1, SumType DEF T
    <3> QED BY <3>2 DEF T
  <2>6. SumFunctionOnSet(f, S \cup (s \ {x})) = SumFunctionOnSet(f, S)
    BY <1>2, <2>1
  <2>7. SumFunctionOnSet(f, S \cup s) = SumFunctionOnSet(f, S)
    <3> DEFINE T == S \cup (s \ {x})
               a == SumFunctionOnSet(f, S)
               b == SumFunctionOnSet(f, T)
    <3>1. (S \cup s) \ {x} = T /\ f[x] = 0
      BY <2>2
    <3>2. SumFunctionOnSet(f, S \cup s) = 0 + b
      <4> HIDE DEF T, E, C
      <4> QED BY <3>1, <2>4
    <3>3. b \in Int /\ b = a
      BY <2>5, <2>6
    <3> HIDE DEF a, b
    <3>4. SumFunctionOnSet(f, S \cup s) = a
      BY <3>2, <3>3
    <3> QED BY <3>4 DEF a
  <2> QED BY <2>7
<1>3. IsFiniteSet(E)
  BY FS_Subset
<1>4. E \in C
  <2> HIDE DEF C, E
  <2> QED BY <1>1, <1>2, <1>3, SubsetInduction
<1>5. S \cup E = D
  OBVIOUS
<1> QED BY <1>4, <1>5

-----------------------------------------------------------------------------
(* A finite set of things that carry a number can be listed, the largest    *)
(* number first.                                                            *)
LEMMA LargestValue ==
  ASSUME NEW D, IsFiniteSet(D), D # {}, NEW f, \A x \in D : f[x] \in Int
  PROVE  \E m \in D : \A x \in D : f[x] <= f[m]
<1> DEFINE C == {s \in SUBSET D : s # {} => \E m \in s : \A x \in s : f[x] <= f[m]}
<1>1. {} \in C
  OBVIOUS
<1>2. ASSUME NEW s \in SUBSET D, s # {}, \A x \in s : s \ {x} \in C PROVE s \in C
  <2>1. PICK y \in s : TRUE
    BY <1>2
  <2>2. f[y] \in Int /\ \A x \in s : f[x] \in Int
    BY <2>1
  <2>3. CASE s \ {y} = {}
    <3>1. \A x \in s : x = y
      BY <2>3
    <3>2. \A x \in s : f[x] <= f[y]
      BY <2>2, <3>1
    <3> QED BY <2>1, <3>2
  <2>4. CASE s \ {y} # {}
    <3>1. PICK m \in s \ {y} : \A x \in s \ {y} : f[x] <= f[m]
      BY <1>2, <2>1, <2>4
    <3>2. CASE f[m] <= f[y]
      <4>1. \A x \in s : f[x] <= f[y]
        BY <2>2, <3>1, <3>2
      <4> QED BY <2>1, <4>1
    <3>3. CASE ~(f[m] <= f[y])
      <4>1. \A x \in s : f[x] <= f[m]
        BY <2>2, <3>1, <3>3
      <4> QED BY <3>1, <4>1
    <3> QED BY <3>2, <3>3
  <2> QED BY <2>3, <2>4
<1>3. D \in C
  <2> HIDE DEF C
  <2> QED BY <1>1, <1>2, SubsetInduction
<1> QED BY <1>3

LEMMA Listed ==
  ASSUME NEW S, IsFiniteSet(S), NEW f, \A x \in S : f[x] \in Int
  PROVE  \E list \in [1..Cardinality(S) -> S] :
            /\ Range(list) = S
            /\ \A i, j \in DOMAIN list : i < j => f[list[i]] >= f[list[j]]
<1> DEFINE Ordered(s, list) ==
              /\ list \in [1..Cardinality(s) -> s] /\ Range(list) = s
              /\ \A i, j \in 1..Cardinality(s) : i < j => f[list[i]] >= f[list[j]]
           C == {s \in SUBSET S : \E list : Ordered(s, list)}
<1>1. {} \in C
  <2> DEFINE none == [i \in {} |-> i]
  <2>1. Cardinality({}) = 0 /\ 1..0 = {}
    BY FS_EmptySet
  <2>2. none \in [1..Cardinality({}) -> {}] /\ Range(none) = {}
    BY <2>1 DEF Range
  <2>3. Ordered({}, none)
    BY <2>1, <2>2
  <2> QED BY <2>3
<1>2. ASSUME NEW s \in SUBSET S, s # {}, \A x \in s : s \ {x} \in C PROVE s \in C
  <2> DEFINE g == [x \in s |-> -f[x]]
             n == Cardinality(s)
  <2>1. IsFiniteSet(s) /\ n \in Nat /\ \A x \in s : g[x] \in Int
    BY FS_Subset, FS_CardinalityType
  <2>2. PICK m \in s : \A x \in s : g[x] <= g[m]
    <3> HIDE DEF g
    <3> QED BY <1>2, <2>1, LargestValue
  <2>3. \A x \in s : f[x] >= f[m]
    BY <2>2
  <2>4. Cardinality(s \ {m}) = n - 1
    BY <2>1, FS_RemoveElement
  <2>5. PICK short : Ordered(s \ {m}, short)
    BY <1>2
  <2> HIDE DEF n, g
  <2>6. /\ short \in [1..n - 1 -> s \ {m}] /\ Range(short) = s \ {m}
        /\ \A i, j \in 1..n - 1 : i < j => f[short[i]] >= f[short[j]]
    BY <2>4, <2>5
  <2>7. n # 0
    BY <1>2, <2>1, FS_EmptySet DEF n
  <2> DEFINE list == [i \in 1..n |-> IF i = n THEN m ELSE short[i]]
  <2>8. \A i \in 1..n : i = n \/ i \in 1..n - 1
    BY <2>1
  <2>9. n \in 1..n /\ \A i \in 1..n - 1 : i \in 1..n /\ i # n
    BY <2>1, <2>7
  <2>10. list \in [1..n -> s]
    BY <2>6, <2>8
  <2>11. /\ DOMAIN list = 1..n /\ list[n] = m
         /\ \A i \in 1..n - 1 : list[i] = short[i]
    BY <2>9
  <2> HIDE DEF list
  <2>12. Range(list) = s
    <3>1. \A x \in s : \E i \in 1..n : list[i] = x
      <4> SUFFICES ASSUME NEW x \in s PROVE \E i \in 1..n : list[i] = x
        OBVIOUS
      <4>1. CASE x = m
        BY <2>9, <2>11, <4>1
      <4>2. CASE x # m
        <5>1. x \in Range(short) /\ DOMAIN short = 1..n - 1
          BY <2>6, <4>2
        <5>2. PICK i \in 1..n - 1 : short[i] = x
          BY <5>1 DEF Range
        <5> QED BY <2>9, <2>11, <5>2
      <4> QED BY <4>1, <4>2
    <3> QED BY <2>10, <2>11, <3>1 DEF Range
  <2>13. \A i, j \in 1..n : i < j => f[list[i]] >= f[list[j]]
    <3> SUFFICES ASSUME NEW i \in 1..n, NEW j \in 1..n, i < j
                 PROVE  f[list[i]] >= f[list[j]]
      OBVIOUS
    <3>1. i \in 1..n - 1
      BY <2>1
    <3>2. CASE j = n
      BY <2>3, <2>10, <2>11, <3>2
    <3>3. CASE j # n
      <4>1. j \in 1..n - 1
        BY <2>8, <3>3
      <4> QED BY <2>6, <2>11, <3>1, <4>1
    <3> QED BY <3>2, <3>3
  <2>14. Ordered(s, list)
    BY <2>10, <2>12, <2>13 DEF n
  <2> QED BY <2>14
<1>3. S \in C
  <2> HIDE DEF C
  <2> QED BY <1>1, <1>2, SubsetInduction
<1>4. PICK list : Ordered(S, list)
  BY <1>3
<1>5. DOMAIN list = 1..Cardinality(S)
  BY <1>4
<1> QED BY <1>4, <1>5

=============================================================================
