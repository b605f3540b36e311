----------------------------- MODULE SumLemmas -----------------------------
(* Sums of bytes over finite sets, as the byte counters of the store add   *)
(* them up.  MapThenSumSet is a fold that takes the elements in an order   *)
(* of its own; shown here are the laws that do not depend on that order.   *)
(* The proofs take a smallest set that breaks a law.                       *)
EXTENDS Integers, Sequences, FiniteSetsExt, FiniteSetTheorems, WellFoundedInduction, TLAPS

(* The bytes of the elements of S, w giving each its record.               *)
BytesIn(w, S) == MapThenSumSet(LAMBDA k : w[k].bytes, S)

(* The recursive function behind the fold, on the subsets of S.            *)
Chosen(s) == CHOOSE x \in s : TRUE
Folds(g, w, S) ==
  g = [s \in SUBSET S |->
         IF s = {} THEN 0 ELSE w[Chosen(s)].bytes + g[s \ {Chosen(s)}]]

(* A set of finite sets has one that contains no other.                    *)
LEMMA SmallestSet ==
  ASSUME NEW S, IsFiniteSet(S), NEW T, T \subseteq SUBSET S, T # {}
  PROVE  \E x \in T : \A y \in T : y \subseteq x => y = x
<1>1. IsWellFoundedOn(StrictSubsetOrdering(S), FiniteSubsetsOf(S))
  BY FS_StrictSubsetOrderingWellFounded
<1>2. FiniteSubsetsOf(S) = SUBSET S BY FS_FiniteSubsetsOfFinite
<1>3. \E x \in T : \A y \in T : <<y, x>> \notin StrictSubsetOrdering(S)
  BY <1>1, <1>2, WFMin
<1> QED BY <1>3 DEF StrictSubsetOrdering

(* The fold is the value of that function.                                 *)
LEMMA FoldDefinition ==
  ASSUME NEW w, NEW S
  PROVE  BytesIn(w, S) = (CHOOSE g : Folds(g, w, S))[S]
BY DEF BytesIn, MapThenSumSet, MapThenFoldSet, Folds, Chosen

(* Such functions agree where they are both defined.                       *)
LEMMA FoldsAgree ==
  ASSUME NEW w, NEW S, NEW U, IsFiniteSet(S), NEW g, NEW h, Folds(g, w, S), Folds(h, w, U)
  PROVE  \A s \in SUBSET S : s \subseteq U => g[s] = h[s]
<1> DEFINE T == {s \in SUBSET S : s \subseteq U /\ g[s] # h[s]}
<1> SUFFICES ASSUME T # {} PROVE FALSE
  OBVIOUS
<1>1. PICK s \in T : \A t \in T : t \subseteq s => t = s
  <2>1. T \subseteq SUBSET S OBVIOUS
  <2> HIDE DEF T
  <2> QED BY <2>1, SmallestSet
<1>2. CASE s = {} BY <1>2 DEF Folds
<1>3. CASE s # {}
  <2> DEFINE r == s \ {Chosen(s)}
  <2>1. Chosen(s) \in s BY <1>3 DEF Chosen
  <2>2. r \in SUBSET S /\ r \subseteq U /\ r # s /\ r \subseteq s BY <2>1
  <2>3. g[r] = h[r] BY <1>1, <2>2
  <2>4. g[s] = w[Chosen(s)].bytes + g[r] BY <1>3, <2>2 DEF Folds
  <2>5. h[s] = w[Chosen(s)].bytes + h[r] BY <1>3, <2>2 DEF Folds
  <2> QED BY <2>3, <2>4, <2>5
<1> QED BY <1>2, <1>3

(* There is such a function on every finite set.                           *)
LEMMA FoldExists ==
  ASSUME NEW w, NEW S, IsFiniteSet(S)
  PROVE  \E g : Folds(g, w, S)
<1> DEFINE T == {U \in SUBSET S : ~ \E g : Folds(g, w, U)}
<1> SUFFICES ASSUME T # {} PROVE FALSE
  OBVIOUS
<1>1. PICK U \in T : \A V \in T : V \subseteq U => V = U
  <2>1. T \subseteq SUBSET S OBVIOUS
  <2> HIDE DEF T
  <2> QED BY <2>1, SmallestSet
<1> DEFINE below(s) == s \ {Chosen(s)}
           part(s) == CHOOSE h : Folds(h, w, s)
           g == [s \in SUBSET U |->
                   IF s = {} THEN 0 ELSE w[Chosen(s)].bytes + part(below(s))[below(s)]]
<1>2. \A s \in SUBSET U : s # {} =>
        below(s) \in SUBSET U /\ below(s) # U /\ Chosen(s) \in s
  BY DEF Chosen
<1>3. \A s \in SUBSET U : s # U => Folds(part(s), w, s)
  BY <1>1
<1>4. \A s \in SUBSET U : IsFiniteSet(s)
  BY FS_Subset
<1>5. ASSUME NEW s \in SUBSET U, s # U
      PROVE  g[s] = part(s)[s]
  <2>1. Folds(part(s), w, s) BY <1>3, <1>5
  <2>2. CASE s = {} BY <2>1, <2>2 DEF Folds
  <2>3. CASE s # {}
    <3> DEFINE r == below(s)
    <3>1. r \in SUBSET U /\ r # U /\ r \in SUBSET s BY <1>2, <2>3
    <3>2. Folds(part(r), w, r) BY <1>3, <3>1
    <3>3. part(s)[r] = part(r)[r]
      <4> HIDE DEF part, r
      <4>1. IsFiniteSet(s) /\ r \subseteq r BY <1>4
      <4> QED BY <2>1, <3>1, <3>2, <4>1, FoldsAgree
    <3>4. part(s)[s] = w[Chosen(s)].bytes + part(s)[r]
      <4> HIDE DEF part
      <4> QED BY <2>1, <2>3 DEF Folds
    <3>5. g[s] = w[Chosen(s)].bytes + part(r)[r] BY <2>3
    <3> QED BY <3>3, <3>4, <3>5
  <2> QED BY <2>2, <2>3
<1>6. Folds(g, w, U)
  <2>1. ASSUME NEW s \in SUBSET U, s # {}
        PROVE  g[below(s)] = part(below(s))[below(s)]
    <3> DEFINE r == below(s)
    <3>1. r \in SUBSET U /\ r # U BY <1>2, <2>1
    <3>2. g[r] = part(r)[r]
      <4> HIDE DEF g, part, r
      <4> QED BY <1>5, <3>1
    <3> QED BY <3>2
  <2>2. \A s \in SUBSET U :
          g[s] = IF s = {} THEN 0 ELSE w[Chosen(s)].bytes + g[below(s)]
    <3>1. \A s \in SUBSET U :
            g[s] = IF s = {} THEN 0 ELSE w[Chosen(s)].bytes + part(below(s))[below(s)]
      OBVIOUS
    <3> HIDE DEF g, part, below
    <3> QED BY <2>1, <3>1
  <2>3. g = [s \in SUBSET U |-> g[s]] OBVIOUS
  <2> HIDE DEF g
  <2> QED BY <2>2, <2>3 DEF Folds
<1> QED BY <1>1, <1>6

(* A sum is that of the chosen element and of the rest.                    *)
LEMMA SumByChoice ==
  ASSUME NEW w, NEW S, IsFiniteSet(S)
  PROVE  BytesIn(w, S) =
           IF S = {} THEN 0 ELSE w[Chosen(S)].bytes + BytesIn(w, S \ {Chosen(S)})
<1> DEFINE R == S \ {Chosen(S)}
           g == CHOOSE f : Folds(f, w, S)
           h == CHOOSE f : Folds(f, w, R)
<1>1. Folds(g, w, S) BY FoldExists
<1>2. R \in SUBSET S /\ IsFiniteSet(R) BY FS_Subset
<1>3. Folds(h, w, R) BY <1>2, FoldExists
<1>4. BytesIn(w, S) = g[S] /\ BytesIn(w, R) = h[R] BY FoldDefinition
<1> HIDE DEF g, h
<1>5. g[R] = h[R]
  <2> HIDE DEF R
  <2>1. R \subseteq R OBVIOUS
  <2> QED BY <1>1, <1>2, <1>3, <2>1, FoldsAgree
<1> QED BY <1>1, <1>4, <1>5 DEF Folds

-----------------------------------------------------------------------------
(* The laws the store relies on.                                           *)

(* Nothing adds up to nothing.                                             *)
LEMMA SumEmpty ==
  ASSUME NEW w
  PROVE  BytesIn(w, {}) = 0
BY SumByChoice, FS_EmptySet

(* A sum of naturals is one.                                               *)
LEMMA SumType ==
  ASSUME NEW w, NEW S, IsFiniteSet(S), \A x \in S : w[x].bytes \in Nat
  PROVE  BytesIn(w, S) \in Nat
<1> DEFINE T == {U \in SUBSET S : BytesIn(w, U) \notin Nat}
<1> SUFFICES ASSUME T # {} PROVE FALSE
  OBVIOUS
<1>1. PICK U \in T : \A V \in T : V \subseteq U => V = U
  <2>1. T \subseteq SUBSET S OBVIOUS
  <2> HIDE DEF T
  <2> QED BY <2>1, SmallestSet
<1>2. IsFiniteSet(U) BY FS_Subset
<1>3. U # {} BY SumEmpty
<1>4. Chosen(U) \in U BY <1>3 DEF Chosen
<1>5. BytesIn(w, U \ {Chosen(U)}) \in Nat BY <1>1, <1>4
<1>6. w[Chosen(U)].bytes \in Nat BY <1>4
<1> QED BY <1>2, <1>3, <1>5, <1>6, SumByChoice

(* Any element may be taken out of a sum.                                  *)
LEMMA SumRemove ==
  ASSUME NEW w, NEW S, IsFiniteSet(S), \A x \in S : w[x].bytes \in Nat, NEW x \in S
  PROVE  BytesIn(w, S) = w[x].bytes + BytesIn(w, S \ {x})
<1> DEFINE T == {U \in SUBSET S :
                   \E y \in U : BytesIn(w, U) # w[y].bytes + BytesIn(w, U \ {y})}
<1> SUFFICES ASSUME T # {} PROVE FALSE
  OBVIOUS
<1>1. PICK U \in T : \A V \in T : V \subseteq U => V = U
  <2>1. T \subseteq SUBSET S OBVIOUS
  <2> HIDE DEF T
  <2> QED BY <2>1, SmallestSet
<1>2. PICK y \in U : BytesIn(w, U) # w[y].bytes + BytesIn(w, U \ {y})
  OBVIOUS
<1>3. \A V \in SUBSET S : IsFiniteSet(V) /\ BytesIn(w, V) \in Nat BY FS_Subset, SumType
<1> DEFINE c == Chosen(U)
<1>4. c \in U BY DEF Chosen
<1>5. BytesIn(w, U) = w[c].bytes + BytesIn(w, U \ {c}) BY <1>3, SumByChoice
<1> HIDE DEF c
<1>6. y # c BY <1>2, <1>5
<1>7. ASSUME NEW a \in U, NEW b \in U, a # b
      PROVE  BytesIn(w, U \ {a}) = w[b].bytes + BytesIn(w, (U \ {a}) \ {b})
  <2> DEFINE V == U \ {a}
  <2>1. V \in SUBSET S /\ V \subseteq U /\ V # U /\ b \in V BY <1>7
  <2>2. V \notin T BY <1>1, <2>1
  <2> HIDE DEF V
  <2>3. BytesIn(w, V) = w[b].bytes + BytesIn(w, V \ {b}) BY <2>1, <2>2
  <2> QED BY <2>3 DEF V
<1>8. /\ BytesIn(w, U \ {c}) = w[y].bytes + BytesIn(w, (U \ {c}) \ {y})
      /\ BytesIn(w, U \ {y}) = w[c].bytes + BytesIn(w, (U \ {y}) \ {c})
  BY <1>4, <1>6, <1>7
<1>9. (U \ {c}) \ {y} = (U \ {y}) \ {c} OBVIOUS
<1>10. /\ w[c].bytes \in Nat /\ w[y].bytes \in Nat
       /\ BytesIn(w, (U \ {y}) \ {c}) \in Nat
  <2>1. (U \ {y}) \ {c} \in SUBSET S OBVIOUS
  <2> QED BY <1>3, <1>4, <2>1
<1> DEFINE rest == BytesIn(w, (U \ {y}) \ {c})
<1>11. BytesIn(w, U \ {c}) = w[y].bytes + rest /\ BytesIn(w, U \ {y}) = w[c].bytes + rest
  BY <1>8, <1>9
<1>12. rest \in Nat BY <1>10
<1> HIDE DEF T, rest
<1>13. BytesIn(w, U) = w[y].bytes + BytesIn(w, U \ {y}) BY <1>5, <1>10, <1>11, <1>12
<1> QED BY <1>2, <1>13

(* A sum depends on the bytes of its elements only.                        *)
LEMMA SumSame ==
  ASSUME NEW w, NEW v, NEW S, IsFiniteSet(S), \A x \in S : w[x].bytes = v[x].bytes
  PROVE  BytesIn(w, S) = BytesIn(v, S)
<1> DEFINE T == {U \in SUBSET S : BytesIn(w, U) # BytesIn(v, U)}
<1> SUFFICES ASSUME T # {} PROVE FALSE
  OBVIOUS
<1>1. PICK U \in T : \A V \in T : V \subseteq U => V = U
  <2>1. T \subseteq SUBSET S OBVIOUS
  <2> HIDE DEF T
  <2> QED BY <2>1, SmallestSet
<1>2. IsFiniteSet(U) BY FS_Subset
<1>3. U # {} BY SumEmpty
<1>4. Chosen(U) \in U BY <1>3 DEF Chosen
<1>5. BytesIn(w, U \ {Chosen(U)}) = BytesIn(v, U \ {Chosen(U)}) BY <1>1, <1>4
<1> QED BY <1>2, <1>3, <1>4, <1>5, SumByChoice

(* Fewer elements do not add up to more.                                   *)
LEMMA SumSubset ==
  ASSUME NEW w, NEW S, IsFiniteSet(S), \A x \in S : w[x].bytes \in Nat, NEW R \in SUBSET S
  PROVE  BytesIn(w, R) <= BytesIn(w, S)
<1> DEFINE T == {U \in SUBSET S : R \subseteq U /\ ~(BytesIn(w, R) <= BytesIn(w, U))}
<1> SUFFICES ASSUME T # {} PROVE FALSE
  OBVIOUS
<1>1. PICK U \in T : \A V \in T : V \subseteq U => V = U
  <2>1. T \subseteq SUBSET S OBVIOUS
  <2> HIDE DEF T
  <2> QED BY <2>1, SmallestSet
<1>2. \A V \in SUBSET S : IsFiniteSet(V) /\ BytesIn(w, V) \in Nat BY FS_Subset, SumType
<1>3. U # R BY <1>2
<1>4. PICK x \in U : x \notin R BY <1>3
<1>5. U \ {x} \notin T BY <1>1, <1>4
<1>6. BytesIn(w, R) <= BytesIn(w, U \ {x}) BY <1>4, <1>5
<1>7. BytesIn(w, U) = w[x].bytes + BytesIn(w, U \ {x}) BY <1>2, SumRemove
<1>8. w[x].bytes \in Nat /\ BytesIn(w, U \ {x}) \in Nat /\ BytesIn(w, R) \in Nat BY <1>2
<1>9. ~(BytesIn(w, R) <= BytesIn(w, U)) OBVIOUS
<1> QED BY ONLY <1>6, <1>7, <1>8, <1>9, SMT

(* A sum does not depend on what its elements are called.                  *)
Renamed(h, S) == {h[x] : x \in S}
(* The new names of finitely many elements are finitely many.              *)
LEMMA RenamedFinite ==
  ASSUME NEW S, IsFiniteSet(S), NEW h
  PROVE  IsFiniteSet(Renamed(h, S))
<1> DEFINE f == [x \in S |-> h[x]]
<1>1. f \in Surjection(S, Renamed(h, S)) BY DEF Surjection, Renamed
<1> QED BY <1>1, FS_Surjection

(* Given each its own name and its size under it, they weigh the same.     *)
LEMMA SumRenamed ==
  ASSUME NEW w, NEW v, NEW h, NEW S, IsFiniteSet(S),
         \A x \in S : w[x].bytes \in Nat /\ w[x].bytes = v[h[x]].bytes,
         \A x, y \in S : h[x] = h[y] => x = y
  PROVE  BytesIn(w, S) = BytesIn(v, Renamed(h, S))
<1> DEFINE T == {U \in SUBSET S : BytesIn(w, U) # BytesIn(v, Renamed(h, U))}
<1> SUFFICES ASSUME T # {} PROVE FALSE
  OBVIOUS
<1>1. PICK U \in T : \A V \in T : V \subseteq U => V = U
  <2>1. T \subseteq SUBSET S OBVIOUS
  <2> HIDE DEF T
  <2> QED BY <2>1, SmallestSet
<1>2. IsFiniteSet(U) /\ IsFiniteSet(Renamed(h, U)) BY FS_Subset, RenamedFinite
<1>3. U # {}
  <2>1. Renamed(h, {}) = {} BY DEF Renamed
  <2> QED BY <2>1, SumEmpty
<1>4. PICK x \in U : TRUE BY <1>3
<1>5. U \ {x} \notin T BY <1>1, <1>4
<1>6. BytesIn(w, U \ {x}) = BytesIn(v, Renamed(h, U \ {x})) BY <1>5
<1>7. Renamed(h, U \ {x}) = Renamed(h, U) \ {h[x]} /\ h[x] \in Renamed(h, U)
  BY <1>4 DEF Renamed
<1>8. BytesIn(w, U) = w[x].bytes + BytesIn(w, U \ {x}) BY <1>2, <1>4, SumRemove
<1>9. \A y \in Renamed(h, U) : v[y].bytes \in Nat BY DEF Renamed
<1>10. BytesIn(v, Renamed(h, U)) = v[h[x]].bytes + BytesIn(v, Renamed(h, U) \ {h[x]})
  BY <1>2, <1>7, <1>9, SumRemove
<1>11. w[x].bytes = v[h[x]].bytes /\ BytesIn(w, U) # BytesIn(v, Renamed(h, U)) BY <1>4
<1> QED BY ONLY <1>6, <1>7, <1>8, <1>10, <1>11

(* What costs at most c more each costs at most c times their number more. *)
LEMMA SumOverhead ==
  ASSUME NEW w, NEW v, NEW S, IsFiniteSet(S), NEW c \in Nat,
         \A x \in S : /\ w[x].bytes \in Nat /\ v[x].bytes \in Nat
                      /\ w[x].bytes <= v[x].bytes + c
  PROVE  BytesIn(w, S) <= BytesIn(v, S) + c * Cardinality(S)
<1> DEFINE T == {U \in SUBSET S : ~(BytesIn(w, U) <= BytesIn(v, U) + c * Cardinality(U))}
<1> SUFFICES ASSUME T # {} PROVE FALSE
  OBVIOUS
<1>1. PICK U \in T : \A V \in T : V \subseteq U => V = U
  <2>1. T \subseteq SUBSET S OBVIOUS
  <2> HIDE DEF T
  <2> QED BY <2>1, SmallestSet
<1>2. \A V \in SUBSET S : /\ IsFiniteSet(V) /\ Cardinality(V) \in Nat
                          /\ BytesIn(w, V) \in Nat /\ BytesIn(v, V) \in Nat
  BY FS_Subset, FS_CardinalityType, SumType
<1>3. U # {}
  <2>1. c * 0 = 0 OBVIOUS
  <2>2. BytesIn(w, {}) = 0 /\ BytesIn(v, {}) = 0 /\ Cardinality({}) = 0
    BY SumEmpty, FS_EmptySet
  <2>3. BytesIn(w, {}) <= BytesIn(v, {}) + c * Cardinality({}) BY <2>1, <2>2
  <2> QED BY <2>3
<1>4. PICK x \in U : TRUE BY <1>3
<1> DEFINE R == U \ {x}
<1>5. R \notin T /\ R \in SUBSET S BY <1>1, <1>4
<1>6. BytesIn(w, R) <= BytesIn(v, R) + c * Cardinality(R) BY <1>5
<1>7. /\ BytesIn(w, U) = w[x].bytes + BytesIn(w, R)
      /\ BytesIn(v, U) = v[x].bytes + BytesIn(v, R)
  BY <1>2, <1>4, SumRemove
<1>8. Cardinality(U) = Cardinality(R) + 1 BY <1>2, <1>4, <1>5, FS_RemoveElement
<1>9. c * (Cardinality(R) + 1) = c * Cardinality(R) + c /\ c * Cardinality(R) \in Nat
  BY <1>2, <1>5
<1>10. /\ w[x].bytes \in Nat /\ v[x].bytes \in Nat /\ w[x].bytes <= v[x].bytes + c
       /\ BytesIn(w, R) \in Nat /\ BytesIn(v, R) \in Nat
  BY <1>2, <1>4, <1>5
<1>11. ~(BytesIn(w, U) <= BytesIn(v, U) + c * Cardinality(U)) OBVIOUS
<1> DEFINE a == c * Cardinality(R)  b == c * Cardinality(U)
<1>12. b = a + c /\ a \in Nat BY <1>8, <1>9
<1> HIDE DEF T, R, a, b
<1> QED BY <1>6, <1>7, <1>10, <1>11, <1>12 DEF a, b

-----------------------------------------------------------------------------
(* Sums over lists of files.                                               *)

(* One more at the end.                                                    *)
LEMMA SumAppend ==
  ASSUME NEW s, NEW R, s \in Seq(R), \A i \in DOMAIN s : s[i].bytes \in Nat,
         NEW x, x.bytes \in Nat
  PROVE  BytesIn(Append(s, x), DOMAIN Append(s, x)) = BytesIn(s, DOMAIN s) + x.bytes
<1> DEFINE a == Append(s, x)  n == Len(s) + 1
<1>1. /\ n \in Nat /\ DOMAIN a = 1..n /\ DOMAIN s = 1..(n - 1) /\ a[n] = x
      /\ \A i \in DOMAIN s : a[i] = s[i]
  OBVIOUS
<1>2. IsFiniteSet(1..n) /\ IsFiniteSet(1..(n - 1)) BY <1>1, FS_Interval
<1> HIDE DEF a, n
<1>3. (1..n) \ {n} = 1..(n - 1) /\ n \in 1..n
  <2>1. n >= 1 BY DEF n
  <2> QED BY <1>1, <2>1
<1>4. \A i \in 1..n : a[i].bytes \in Nat
  <2>1. \A i \in 1..n : i = n \/ i \in 1..(n - 1) BY <1>1
  <2> QED BY <1>1, <2>1
<1>5. BytesIn(a, 1..n) = a[n].bytes + BytesIn(a, 1..(n - 1))
  <2> DEFINE S == 1..n
  <2>1. IsFiniteSet(S) /\ (\A i \in S : a[i].bytes \in Nat) /\ n \in S BY <1>2, <1>3, <1>4
  <2> HIDE DEF S
  <2>2. BytesIn(a, S) = a[n].bytes + BytesIn(a, S \ {n}) BY <2>1, SumRemove
  <2> QED BY <1>3, <2>2 DEF S
<1>6. BytesIn(a, 1..(n - 1)) = BytesIn(s, 1..(n - 1)) BY <1>1, <1>2, SumSame
<1>7. BytesIn(s, 1..(n - 1)) \in Nat BY <1>1, <1>2, SumType
<1>8. BytesIn(a, DOMAIN a) = BytesIn(s, DOMAIN s) + x.bytes BY <1>1, <1>5, <1>6, <1>7
<1> QED BY <1>8 DEF a

-----------------------------------------------------------------------------
(* Naturals.                                                               *)

(* There is a least one in every set of them.                              *)
LEMMA LeastNatural ==
  ASSUME NEW S, S \subseteq Nat, S # {}
  PROVE  Min(S) \in S /\ \A y \in S : Min(S) <= y
<1>1. PICK top \in S : TRUE OBVIOUS
<1> DEFINE D == 0..top
           T == {U \in SUBSET D : \E x \in S : U = 0..x}
<1>2. 0..top \in T BY <1>1
<1>3. IsFiniteSet(D)
  <2>1. top \in Int /\ 0 \in Int BY <1>1
  <2> QED BY <2>1, FS_Interval
<1>4. PICK U \in T : \A V \in T : V \subseteq U => V = U
  <2>1. T \subseteq SUBSET D /\ T # {} BY <1>2
  <2> HIDE DEF T, D
  <2> QED BY <1>3, <2>1, SmallestSet
<1>5. PICK x \in S : U = 0..x BY <1>4
<1>6. ASSUME NEW y \in S PROVE x <= y
  <2>1. x \in Nat /\ y \in Nat OBVIOUS
  <2>2. SUFFICES ASSUME y < x PROVE FALSE BY <2>1
  <2>3. 0..y \subseteq 0..x BY <2>1, <2>2
  <2>4. 0..y \in T BY <1>5, <2>3
  <2>5. 0..y = 0..x BY <1>4, <1>5, <2>3, <2>4
  <2>6. x \in 0..x /\ x \notin 0..y BY <2>1, <2>2
  <2> QED BY <2>5, <2>6
<1>7. \E z \in S : \A y \in S : z <= y BY <1>5, <1>6
<1> QED BY <1>7 DEF Min

=============================================================================
