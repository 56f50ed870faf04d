-------------------------- MODULE AttributionProofs --------------------------
(***************************************************************************)
(* Proofs about the queues and the ledger of Attribution, for any finite   *)
(* set of instances, any messages, limits and failures.                    *)
(***************************************************************************)
EXTENDS Attribution, FiniteSetTheorems, SequenceTheorems, TLAPS

-----------------------------------------------------------------------------
(* Sums.                                                                   *)

Units(S, n) == UNION {{q} \X (1..n[q]) : q \in S}

LEMMA UnitsFacts ==
  ASSUME NEW S, IsFiniteSet(S), NEW n \in [S -> Nat]
  PROVE  /\ \A u : u \in Units(S, n) <=> \E q \in S : \E i \in 1..n[q] : u = <<q, i>>
         /\ IsFiniteSet(Units(S, n)) /\ Total(S, n) = Cardinality(Units(S, n))
         /\ Total(S, n) \in Nat
<1>1. \A u : u \in Units(S, n) <=> \E q \in S : \E i \in 1..n[q] : u = <<q, i>>
  BY DEF Units
<1> DEFINE rows == {{q} \X (1..n[q]) : q \in S}
           row == [q \in S |-> {q} \X (1..n[q])]
<1>2. row \in Surjection(S, rows)
  BY DEF Surjection
<1>3. IsFiniteSet(rows)
  BY <1>2, FS_Surjection
<1>4. \A r \in rows : IsFiniteSet(r)
  <2> SUFFICES ASSUME NEW q \in S PROVE IsFiniteSet({q} \X (1..n[q]))
    OBVIOUS
  <2>1. IsFiniteSet({q})
    BY FS_Singleton
  <2>2. IsFiniteSet(1..n[q])
    BY FS_Interval
  <2> QED
    BY <2>1, <2>2, FS_Product
<1>5. IsFiniteSet(Units(S, n))
  BY <1>3, <1>4, FS_UNION DEF Units
<1>6. Total(S, n) = Cardinality(Units(S, n))
  BY DEF Total, Units
<1> QED
  BY <1>1, <1>5, <1>6, FS_CardinalityType

(* Counts that grow for the queues of T make the sum grow by as much.      *)
LEMMA TotalGrows ==
  ASSUME NEW S, IsFiniteSet(S), NEW T \in SUBSET S, NEW a \in [S -> Nat],
         NEW d \in [T -> Nat], NEW c \in [S -> Nat],
         \A q \in S : c[q] = IF q \in T THEN a[q] + d[q] ELSE a[q]
  PROVE  Total(S, c) = Total(S, a) + Total(T, d)
<1>1. IsFiniteSet(T)
  BY FS_Subset
<1> DEFINE A == Units(S, a)
           C == Units(S, c)
           D == Units(T, d)
<1>2. /\ \A u : u \in A <=> \E q \in S : \E i \in 1..a[q] : u = <<q, i>>
      /\ IsFiniteSet(A) /\ Total(S, a) = Cardinality(A)
  BY UnitsFacts
<1>3. /\ \A u : u \in C <=> \E q \in S : \E i \in 1..c[q] : u = <<q, i>>
      /\ IsFiniteSet(C) /\ Total(S, c) = Cardinality(C)
  BY UnitsFacts
<1>4. /\ \A u : u \in D <=> \E q \in T : \E i \in 1..d[q] : u = <<q, i>>
      /\ IsFiniteSet(D) /\ Total(T, d) = Cardinality(D)
  BY <1>1, UnitsFacts
<1> HIDE DEF A, C, D
<1>5. A \subseteq C
  <2> SUFFICES ASSUME NEW q \in S, NEW i \in 1..a[q] PROVE i \in 1..c[q]
    BY <1>2, <1>3
  <2> QED
    <3>1. CASE q \in T
      <4>1. a[q] \in Nat /\ d[q] \in Nat /\ c[q] = a[q] + d[q]
        BY <3>1
      <4> QED
        BY <4>1
    <3>2. CASE q \notin T
      BY <3>2
    <3> QED
      BY <3>1, <3>2
<1> DEFINE shift == [u \in D |-> <<u[1], a[u[1]] + u[2]>>]
<1>6. \A q \in T : \A i \in 1..d[q] :
        <<q, i>> \in D /\ shift[<<q, i>>] = <<q, a[q] + i>>
  BY <1>4
<1> HIDE DEF shift
<1>7. shift \in Bijection(D, C \ A)
  <2>1. ASSUME NEW u \in D PROVE shift[u] \in C \ A
    <3>0. PICK q \in T : \E i \in 1..d[q] : u = <<q, i>>
      BY <1>4
    <3>1. PICK i \in 1..d[q] : u = <<q, i>>
      BY <3>0
    <3>2. shift[u] = <<q, a[q] + i>> /\ a[q] \in Nat /\ d[q] \in Nat /\ c[q] = a[q] + d[q]
      BY <1>6, <3>1
    <3>3. a[q] + i \in 1..c[q] /\ a[q] + i \notin 1..a[q]
      BY <3>2
    <3>4. shift[u] \in C
      BY <1>3, <3>2, <3>3
    <3>5. shift[u] \notin A
      BY <1>2, <3>2, <3>3
    <3> QED
      BY <3>4, <3>5
  <2>2. ASSUME NEW u \in D, NEW v \in D, shift[u] = shift[v] PROVE u = v
    <3>0. PICK q \in T : \E i \in 1..d[q] : u = <<q, i>>
      BY <1>4
    <3>1. PICK i \in 1..d[q] : u = <<q, i>>
      BY <3>0
    <3>6. PICK r \in T : \E j \in 1..d[r] : v = <<r, j>>
      BY <1>4
    <3>2. PICK j \in 1..d[r] : v = <<r, j>>
      BY <3>6
    <3>3. shift[u] = <<q, a[q] + i>> /\ shift[v] = <<r, a[r] + j>>
      BY <1>6, <3>1, <3>2
    <3>7. <<q, a[q] + i>> = <<r, a[r] + j>>
      BY <2>2, <3>3
    <3>8. q = r
      BY <3>7
    <3>9. a[q] + i = a[r] + j
      BY <3>7
    <3>4. q = r /\ a[q] + i = a[q] + j /\ a[q] \in Nat
      BY <3>8, <3>9
    <3>5. i = j
      BY <3>4
    <3> QED
      BY <3>1, <3>2, <3>4, <3>5
  <2>3. ASSUME NEW v \in C \ A PROVE \E u \in D : shift[u] = v
    <3>0. PICK q \in S : \E i \in 1..c[q] : v = <<q, i>>
      BY <1>3
    <3>1. PICK i \in 1..c[q] : v = <<q, i>>
      BY <3>0
    <3>2. i \notin 1..a[q]
      BY <1>2, <3>1
    <3>3. q \in T /\ a[q] \in Nat /\ d[q] \in Nat /\ c[q] = a[q] + d[q]
      BY <3>2
    <3>4. i - a[q] \in 1..d[q] /\ a[q] + (i - a[q]) = i
      BY <3>2, <3>3
    <3>5. <<q, i - a[q]>> \in D /\ shift[<<q, i - a[q]>>] = <<q, i>>
      BY <1>6, <3>3, <3>4
    <3> QED
      BY <3>1, <3>5
  <2>4. shift \in [D -> C \ A]
    BY <2>1 DEF shift
  <2> QED
    BY <2>2, <2>3, <2>4 DEF Bijection, Injection, Surjection, IsInjective
<1>8. Cardinality(C \ A) = Cardinality(D)
  BY <1>4, <1>7, FS_Bijection DEF ExistsBijection
<1>9. Cardinality(C \ A) = Cardinality(C) - Cardinality(C \cap A) /\ C \cap A = A
  BY <1>3, <1>5, FS_Difference
<1>10. Cardinality(A) \in Nat /\ Cardinality(C) \in Nat
  BY <1>2, <1>3, FS_CardinalityType
<1> HIDE DEF shift
<1>11. Cardinality(D) = Cardinality(C) - Cardinality(A)
  BY <1>8, <1>9
<1>12. Cardinality(C) = Cardinality(A) + Cardinality(D)
  BY <1>10, <1>11
<1> QED
  BY <1>2, <1>3, <1>4, <1>12

LEMMA TotalOfOne == ASSUME NEW q, NEW n \in [{q} -> Nat] PROVE Total({q}, n) = n[q]
<1>1. UNION {{r} \X (1..n[r]) : r \in {q}} = {q} \X (1..n[q])
  OBVIOUS
<1>2. IsFiniteSet({q}) /\ Cardinality({q}) = 1
  BY FS_Singleton
<1>3. IsFiniteSet(1..n[q]) /\ Cardinality(1..n[q]) = n[q]
  BY FS_Interval
<1>4. Cardinality({q} \X (1..n[q])) = 1 * n[q]
  <2> DEFINE S == {q}
             T == 1..n[q]
  <2>1. IsFiniteSet(S) /\ IsFiniteSet(T) /\ Cardinality(S) = 1 /\ Cardinality(T) = n[q]
    BY <1>2, <1>3
  <2> HIDE DEF S, T
  <2>2. Cardinality(S \X T) = 1 * n[q]
    BY <2>1, FS_Product
  <2> QED
    BY <2>2 DEF S, T
<1>5. 1 * n[q] = n[q]
  OBVIOUS
<1> QED
  BY <1>1, <1>4, <1>5 DEF Total

LEMMA TotalAtLeast ==
  ASSUME NEW S, IsFiniteSet(S), NEW n \in [S -> Nat], NEW q \in S
  PROVE  n[q] <= Total(S, n)
<1>1. /\ \A u : u \in Units(S, n) <=> \E r \in S : \E i \in 1..n[r] : u = <<r, i>>
      /\ IsFiniteSet(Units(S, n)) /\ Total(S, n) = Cardinality(Units(S, n))
  BY UnitsFacts
<1>2. {q} \X (1..n[q]) \subseteq Units(S, n)
  BY <1>1
<1>3. Cardinality({q} \X (1..n[q])) = n[q]
  <2>1. IsFiniteSet({q}) /\ Cardinality({q}) = 1
    BY FS_Singleton
  <2>2. IsFiniteSet(1..n[q]) /\ Cardinality(1..n[q]) = n[q]
    BY FS_Interval
  <2> DEFINE S1 == {q}
             T1 == 1..n[q]
  <2> HIDE DEF S1, T1
  <2>3. Cardinality(S1 \X T1) = 1 * n[q]
    <3>1. /\ IsFiniteSet(S1) /\ Cardinality(S1) = 1
          /\ IsFiniteSet(T1) /\ Cardinality(T1) = n[q]
      BY <2>1, <2>2 DEF S1, T1
    <3> QED
      BY <3>1, FS_Product
  <2>4. 1 * n[q] = n[q]
    OBVIOUS
  <2> USE DEF S1, T1
  <2> QED
    BY <2>3, <2>4
<1> QED
  BY <1>1, <1>2, <1>3, FS_Subset

LEMMA TotalOfZeros ==
  ASSUME NEW S, NEW n, \A q \in S : n[q] = 0 PROVE Total(S, n) = 0
<1>1. UNION {{q} \X (1..n[q]) : q \in S} = {}
  <2>1. \A q \in S : 1..n[q] = {}
    OBVIOUS
  <2> QED
    BY <2>1
<1> QED
  BY <1>1, FS_EmptySet DEF Total

LEMMA MoreFacts ==
  ASSUME NEW before \in Nat, NEW now \in Nat
  PROVE  /\ More(before, now) = IF now >= before THEN now - before ELSE 0
         /\ More(before, now) \in Nat
<1> DEFINE S == {0, now - before}
           m == IF now >= before THEN now - before ELSE 0
<1>1. m \in S /\ \A y \in S : m >= y
  OBVIOUS
<1>2. \A x \in S : (\A y \in S : x >= y) => x = m
  OBVIOUS
<1>3. Max(S) = m
  BY <1>1, <1>2 DEF Max
<1> QED
  BY <1>3 DEF More

-----------------------------------------------------------------------------
(* Rows.                                                                   *)

NoDup(rows) == \A i, j \in DOMAIN rows : rows[i] = rows[j] => i = j

(* What goes is what was to go; the others stay, once each.                *)
WithoutFactsHold(rows, gone, E) ==
  /\ Without(rows, gone) \in Seq(E) /\ Len(Without(rows, gone)) <= Len(rows)
  /\ ToSet(Without(rows, gone)) = ToSet(rows) \ gone
  /\ NoDup(rows) => NoDup(Without(rows, gone))
  /\ Len(Without(rows, gone)) = Len(rows) => ToSet(rows) \cap gone = {}

LEMMA WithoutFacts ==
  ASSUME NEW E, NEW rows \in Seq(E), NEW gone
  PROVE  /\ WithoutFactsHold(rows, gone, E)
         /\ Len(Without(rows, gone)) = Cardinality({i \in DOMAIN rows : rows[i] \notin gone})
<1> DEFINE kept == {i \in DOMAIN rows : rows[i] \notin gone}
           size == Cardinality(kept)
           rank == [i \in kept |-> Cardinality({j \in kept : j <= i})]
           at == [n \in 1..size |->
                    CHOOSE i \in kept : Cardinality({j \in kept : j <= i}) = n]
           rest == Without(rows, gone)
<1>0. DOMAIN rows = 1..Len(rows) /\ Len(rows) \in Nat
  OBVIOUS
<1>1. kept \in SUBSET (1..Len(rows)) /\ IsFiniteSet(1..Len(rows))
      /\ Cardinality(1..Len(rows)) = Len(rows)
  BY <1>0, FS_Interval
<1>2. IsFiniteSet(kept) /\ size \in Nat /\ size <= Len(rows)
      /\ (size = Len(rows) => kept = 1..Len(rows))
  BY <1>1, FS_Subset, FS_CardinalityType
<1>3. \A i \in kept : i \in Int
  BY <1>1
<1> HIDE DEF kept
<1>4. \A i \in kept : rank[i] \in 1..size
  <2> SUFFICES ASSUME NEW i \in kept PROVE Cardinality({j \in kept : j <= i}) \in 1..size
    OBVIOUS
  <2> DEFINE S == {j \in kept : j <= i}
  <2>1. S \in SUBSET kept /\ i \in S
    BY <1>3
  <2> HIDE DEF S
  <2>2. IsFiniteSet(S) /\ Cardinality(S) <= size /\ Cardinality(S) \in Nat
    BY <1>2, <2>1, FS_Subset, FS_CardinalityType
  <2>3. Cardinality(S) # 0
    BY <2>1, <2>2, FS_EmptySet
  <2>4. Cardinality(S) \in 1..size
    BY <1>2, <2>2, <2>3
  <2> QED
    BY <2>4 DEF S
<1>5. \A i, j \in kept : i < j => rank[i] < rank[j]
  <2> SUFFICES ASSUME NEW i \in kept, NEW j \in kept, i < j
               PROVE  Cardinality({k \in kept : k <= i}) < Cardinality({k \in kept : k <= j})
    OBVIOUS
  <2> DEFINE S == {k \in kept : k <= i}
             T == {k \in kept : k <= j}
  <2>1. S \in SUBSET T /\ S # T /\ T \in SUBSET kept
    BY <1>3
  <2> HIDE DEF S, T
  <2>2. IsFiniteSet(T)
    BY <1>2, <2>1, FS_Subset
  <2>3. IsFiniteSet(S) /\ Cardinality(S) <= Cardinality(T) /\ Cardinality(S) # Cardinality(T)
    BY <2>1, <2>2, FS_Subset
  <2>4. Cardinality(S) \in Nat /\ Cardinality(T) \in Nat
    BY <2>2, <2>3, FS_CardinalityType
  <2>5. Cardinality(S) < Cardinality(T)
    BY <2>3, <2>4
  <2> QED
    BY <2>5 DEF S, T
<1>6. \A i, j \in kept : rank[i] = rank[j] => i = j
  <2> SUFFICES ASSUME NEW i \in kept, NEW j \in kept, i # j PROVE rank[i] # rank[j]
    OBVIOUS
  <2>1. rank[i] \in Int /\ rank[j] \in Int
    BY <1>4
  <2>2. i < j \/ j < i
    BY <1>3
  <2> HIDE DEF rank
  <2> QED
    BY <1>5, <2>1, <2>2
<1>7. rank \in [kept -> 1..size]
  BY <1>4
<1>8. rank \in Injection(kept, 1..size)
  BY <1>6, <1>7 DEF Injection, IsInjective
<1>9. \A n \in 1..size : \E i \in kept : rank[i] = n
  <2>1. IsFiniteSet(1..size) /\ Cardinality(1..size) = size
    BY <1>2, FS_Interval
  <2>2. rank \in Surjection(kept, 1..size)
    BY <1>8, <2>1, FS_Injection
  <2> QED
    BY <2>2 DEF Surjection
<1>10. \A n \in 1..size : at[n] \in kept /\ rank[at[n]] = n
  <2> SUFFICES ASSUME NEW n \in 1..size PROVE at[n] \in kept /\ rank[at[n]] = n
    OBVIOUS
  <2>1. \E i \in kept : Cardinality({j \in kept : j <= i}) = n
    BY <1>9
  <2>2. at[n] \in kept /\ Cardinality({j \in kept : j <= at[n]}) = n
    BY <2>1
  <2> HIDE DEF at
  <2> QED
    BY <2>2
<1>11. \A i \in kept : at[rank[i]] = i
  BY <1>4, <1>6, <1>10
<1>12. rest = [n \in 1..size |-> rows[at[n]]]
  <2> DEFINE from(n) == CHOOSE i \in kept : Cardinality({j \in kept : j <= i}) = n
  <2>1. rest = [n \in 1..size |-> rows[from(n)]]
    BY DEF Without, kept
  <2>2. \A n \in 1..size : at[n] = from(n)
    OBVIOUS
  <2> HIDE DEF from, at, rest, size
  <2> QED
    BY <2>1, <2>2
<1> HIDE DEF rank, at, size, rest
<1>13. \A i \in kept : i \in DOMAIN rows /\ rows[i] \in E /\ rows[i] \notin gone
  BY DEF kept
<1>14. rest \in Seq(E) /\ Len(rest) = size /\ DOMAIN rest = 1..size
       /\ \A n \in 1..size : rest[n] = rows[at[n]]
  BY <1>2, <1>10, <1>12, <1>13
<1>15. ToSet(rest) = ToSet(rows) \ gone
  <2>1. \A n \in 1..size : rest[n] \in ToSet(rows) \ gone
    BY <1>10, <1>13, <1>14 DEF ToSet
  <2>2. \A i \in DOMAIN rows : rows[i] \notin gone => rows[i] \in ToSet(rest)
    <3> SUFFICES ASSUME NEW i \in DOMAIN rows, rows[i] \notin gone PROVE rows[i] \in ToSet(rest)
      OBVIOUS
    <3>1. i \in kept
      BY DEF kept
    <3>2. rank[i] \in DOMAIN rest /\ rest[rank[i]] = rows[i]
      BY <1>4, <1>11, <1>14, <3>1
    <3> QED
      BY <3>2 DEF ToSet
  <2> QED
    BY <1>14, <2>1, <2>2 DEF ToSet
<1>16. NoDup(rows) => NoDup(rest)
  <2> SUFFICES ASSUME NoDup(rows), NEW m \in 1..size, NEW n \in 1..size, rest[m] = rest[n]
               PROVE  m = n
    BY <1>14 DEF NoDup
  <2>1. at[m] = at[n]
    BY <1>10, <1>13, <1>14 DEF NoDup
  <2> QED
    BY <1>10, <2>1
<1>17. Len(rest) = Len(rows) => ToSet(rows) \cap gone = {}
  <2> SUFFICES ASSUME kept = 1..Len(rows) PROVE ToSet(rows) \cap gone = {}
    BY <1>2, <1>14
  <2> QED
    BY <1>13 DEF ToSet
<1>18. WithoutFactsHold(rows, gone, E)
  BY <1>2, <1>14, <1>15, <1>16, <1>17 DEF WithoutFactsHold, rest
<1> QED
  BY <1>14, <1>18 DEF rest, size, kept

(* A pending row that is settled is one row less.                          *)
LEMMA WithoutOne ==
  ASSUME NEW E, NEW rows \in Seq(E), NEW m, NoDup(rows)
  PROVE  Len(Without(rows, {m})) = IF m \in ToSet(rows) THEN Len(rows) - 1 ELSE Len(rows)
<1> DEFINE kept == {i \in DOMAIN rows : rows[i] \notin {m}}
<1>1. Len(Without(rows, {m})) = Cardinality(kept)
  BY WithoutFacts
<1>2. IsFiniteSet(1..Len(rows)) /\ Cardinality(1..Len(rows)) = Len(rows)
  <2> DEFINE n == Len(rows)
  <2>1. n \in Nat
    OBVIOUS
  <2> HIDE DEF n
  <2>2. IsFiniteSet(1..n) /\ Cardinality(1..n) = n
    BY <2>1, FS_Interval
  <2> QED
    BY <2>2 DEF n
<1>3. DOMAIN rows = 1..Len(rows)
  OBVIOUS
<1>4. CASE m \in ToSet(rows)
  <2>1. PICK i \in DOMAIN rows : rows[i] = m
    BY <1>4 DEF ToSet
  <2>2. kept = (1..Len(rows)) \ {i}
    BY <1>3, <2>1 DEF NoDup
  <2>3. Cardinality((1..Len(rows)) \ {i}) = Len(rows) - 1
    <3> DEFINE all == 1..Len(rows)
    <3>1. IsFiniteSet(all) /\ i \in all /\ Cardinality(all) = Len(rows)
      BY <1>2, <1>3, <2>1
    <3> HIDE DEF all
    <3>2. Cardinality(all \ {i}) = Cardinality(all) - 1
      BY <3>1, FS_RemoveElement
    <3> QED
      BY <3>1, <3>2 DEF all
  <2> QED
    BY <1>1, <1>4, <2>2, <2>3
<1>5. CASE m \notin ToSet(rows)
  <2>1. kept = 1..Len(rows)
    BY <1>3, <1>5 DEF ToSet
  <2> QED
    BY <1>1, <1>2, <1>5, <2>1
<1> QED
  BY <1>4, <1>5

NewestFactsHold(rows, max, E) ==
  /\ Newest(rows, max) \in Seq(E) /\ Len(Newest(rows, max)) <= Len(rows)
  /\ NoDup(rows) => NoDup(Newest(rows, max))
  /\ Len(Newest(rows, max)) = Len(rows) => Newest(rows, max) = rows

LEMMA NewestFacts ==
  ASSUME NEW E, NEW rows \in Seq(E), NEW max \in Nat \ {0}
  PROVE  NewestFactsHold(rows, max, E)
<1>1. CASE Len(rows) > max
  <2> DEFINE first == Len(rows) - max + 1
             last == Len(rows)
             rest == SubSeq(rows, first, last)
  <2>1. first \in 2..last /\ last \in Nat
    BY <1>1
  <2>2. \A i \in first..last : rows[i] \in E
    BY <2>1
  <2>3. /\ rest \in Seq(E) /\ Len(rest) = max
        /\ \A i \in 1..max : rest[i] = rows[first + i - 1]
    <3>1. /\ rest \in Seq(E) /\ Len(rest) = IF first <= last THEN last - first + 1 ELSE 0
          /\ \A i \in 1..(last - first + 1) : rest[i] = rows[first + i - 1]
      BY <2>1, <2>2, SubSeqProperties
    <3>2. last - first + 1 = max /\ first <= last
      BY <2>1
    <3> QED
      BY <3>1, <3>2
  <2>4. rest = Newest(rows, max)
    BY <1>1 DEF Newest
  <2> HIDE DEF rest
  <2>5. NoDup(rows) => NoDup(rest)
    <3> SUFFICES ASSUME NoDup(rows), NEW i \in 1..max, NEW j \in 1..max, rest[i] = rest[j]
                 PROVE  i = j
      BY <2>3 DEF NoDup
    <3> DEFINE a == first + i - 1
               b == first + j - 1
    <3>1. a \in DOMAIN rows /\ b \in DOMAIN rows
      BY <2>1
    <3>2. rows[a] = rest[i] /\ rows[b] = rest[j]
      BY <2>3
    <3>3. a = b => i = j
      BY <2>1
    <3> HIDE DEF a, b
    <3>4. a = b
      BY <3>1, <3>2 DEF NoDup
    <3> QED
      BY <3>3, <3>4
  <2> QED
    BY <1>1, <2>3, <2>4, <2>5 DEF NewestFactsHold
<1>2. CASE ~(Len(rows) > max)
  BY <1>2 DEF Newest, NewestFactsHold
<1> QED
  BY <1>1, <1>2
-----------------------------------------------------------------------------
(* The queues.                                                             *)

State ==
  [tasks : Seq(Work),
   pc : {"idle", "start", "work", "settle", "persist", "ended", "dead"},
   work : Work \cup {NoWork}, ok : BOOLEAN, closed : BOOLEAN,
   pendingCount : Nat, failed : Nat, dropped : Nat, saved : Counts]

Shaped(store) ==
  /\ store = [observations |-> store.observations, pending |-> store.pending,
              old |-> store.old, failed |-> store.failed, dropped |-> store.dropped,
              truncated |-> store.truncated, sessions |-> store.sessions]
  /\ store.sessions \in [Queue -> Counts]

(* What a queue counts as outstanding is there; what it is about to save,  *)
(* or has saved last, is all that it counts, except for what it will save  *)
(* in its next round, or not at all because it is closed.                  *)
Consistent(state, saved) ==
  /\ state.pendingCount = Len(state.tasks) + (IF state.pc \in {"work", "settle"} THEN 1 ELSE 0)
  /\ state.pc \in {"idle", "dead"} => state.tasks = <<>>
  /\ state.pc = "work" => state.work \in Work
  /\ state.pc # "dead" => saved.failed <= state.failed /\ saved.dropped <= state.dropped
  /\ state.pc \in {"persist", "ended"} =>
       /\ state.saved.failed = state.failed
       /\ saved.dropped <= state.saved.dropped /\ state.saved.dropped <= state.dropped
       /\ state.saved.dropped = state.dropped \/ state.closed \/ state.tasks # <<>>
  /\ state.pc = "ended" /\ state.ok => saved = state.saved
  /\ state.pc = "idle" /\ ~state.closed /\ saved.failed = state.failed =>
       saved.dropped = state.dropped

QueueInv ==
  /\ dispatched \in [Message -> Nat] /\ \A m \in Message : dispatched[m] <= MaxStep[m]
  /\ queue \in [Queue -> State] /\ Shaped(ledger)
  /\ \A q \in Queue : Consistent(queue[q], ledger.sessions[q])

LEMMA QueueInit == Init => QueueInv
<1> SUFFICES ASSUME Init PROVE QueueInv
  OBVIOUS
<1>1. Zero \in Counts /\ Zero.failed = 0 /\ Zero.dropped = 0
  BY DEF Zero, Counts
<1>2. NewQueue \in State /\ NewQueue.tasks = <<>> /\ NewQueue.pc = "idle"
      /\ NewQueue.pendingCount = 0 /\ NewQueue.failed = 0 /\ NewQueue.dropped = 0
  BY <1>1 DEF NewQueue, State
<1>3. Shaped(ledger) /\ \A q \in Queue : ledger.sessions[q] = Zero
  BY <1>1 DEF Init, Shaped
<1>4. Consistent(NewQueue, Zero)
  BY <1>1, <1>2 DEF Consistent
<1>5. dispatched \in [Message -> Nat] /\ \A m \in Message : dispatched[m] <= MaxStep[m]
  BY AttributionAssumption DEF Init
<1> QED
  BY <1>2, <1>3, <1>4, <1>5 DEF Init, QueueInv

(* The head of the runner's loop.                                          *)
LEMMA LoopingFacts ==
  ASSUME NEW state \in State, NEW saved \in Counts,
         state.pendingCount = Len(state.tasks), saved.failed <= state.failed,
         saved.dropped <= state.dropped
  PROVE  Looping(state) \in State /\ Consistent(Looping(state), saved)
<1>1. CASE state.tasks # <<>>
  <2> DEFINE next == [state EXCEPT !.pc = "work", !.work = Head(state.tasks), !.tasks = Tail(@)]
  <2>1. /\ state.tasks \in Seq(Work) /\ Head(state.tasks) \in Work
        /\ Tail(state.tasks) \in Seq(Work) /\ Len(state.tasks) = Len(Tail(state.tasks)) + 1
    BY <1>1 DEF State
  <2>2. /\ next \in State /\ next.pc = "work" /\ next.tasks = Tail(state.tasks)
        /\ next.pendingCount = state.pendingCount /\ next.failed = state.failed
        /\ next.dropped = state.dropped /\ next.work = Head(state.tasks)
    BY <2>1 DEF State
  <2> HIDE DEF next
  <2>3. Consistent(next, saved)
    BY <2>1, <2>2 DEF Consistent
  <2> QED
    BY <1>1, <2>2, <2>3 DEF Looping, next
<1>2. CASE state.tasks = <<>>
  <2> DEFINE next == [state EXCEPT !.pc = "persist", !.work = NoWork,
                                   !.saved = [failed |-> state.failed, dropped |-> state.dropped]]
  <2>1. [failed |-> state.failed, dropped |-> state.dropped] \in Counts
    BY DEF State, Counts
  <2>2. /\ next \in State /\ next.pc = "persist" /\ next.tasks = state.tasks
        /\ next.pendingCount = state.pendingCount /\ next.failed = state.failed
        /\ next.dropped = state.dropped
        /\ next.saved.failed = state.failed /\ next.saved.dropped = state.dropped
    BY <2>1 DEF State
  <2> HIDE DEF next
  <2>3. Consistent(next, saved)
    <3>1. saved.dropped \in Nat /\ state.dropped \in Nat
      BY DEF Counts, State
    <3> QED
      BY <2>2, <3>1 DEF Consistent
  <2> QED
    BY <1>2, <2>2, <2>3 DEF Looping, next
<1> QED
  BY <1>1, <1>2

(* A queue takes work or drops it: an idle one that is open takes it.      *)
LEMMA EnqueuedFacts ==
  ASSUME NEW state \in State, NEW saved \in Counts, NEW work \in Work,
         Consistent(state, saved), state.pc # "dead"
  PROVE  Enqueued(state, work) \in State /\ Consistent(Enqueued(state, work), saved)
<1>1. CASE state.closed \/ state.pendingCount >= Limit
  <2> DEFINE next == [state EXCEPT !.dropped = @ + 1]
  <2>1. /\ next \in State /\ next.pc = state.pc /\ next.tasks = state.tasks
        /\ next.pendingCount = state.pendingCount /\ next.failed = state.failed
        /\ next.saved = state.saved /\ next.closed = state.closed /\ next.ok = state.ok
        /\ next.dropped = state.dropped + 1 /\ next.work = state.work
    BY DEF State
  <2>2. ~state.closed /\ state.pc \notin {"work", "settle"} => state.tasks # <<>>
    BY <1>1, AttributionAssumption DEF Consistent
  <2> HIDE DEF next
  <2>3. Consistent(next, saved)
    <3>1. /\ saved.dropped \in Nat /\ state.dropped \in Nat /\ state.saved.dropped \in Nat
          /\ saved.dropped <= state.dropped => saved.dropped <= state.dropped + 1
          /\ state.saved.dropped <= state.dropped => state.saved.dropped <= state.dropped + 1
      BY DEF Counts, State
    <3> QED
      BY <2>1, <2>2, <3>1 DEF Consistent
  <2> QED
    BY <1>1, <2>1, <2>3 DEF Enqueued, next
<1>2. CASE ~(state.closed \/ state.pendingCount >= Limit)
  <2> DEFINE next == [state EXCEPT !.tasks = Append(@, work), !.pendingCount = @ + 1,
                                   !.pc = IF @ = "idle" THEN "start" ELSE @]
  <2>1. /\ state.tasks \in Seq(Work) /\ Append(state.tasks, work) \in Seq(Work)
        /\ Len(Append(state.tasks, work)) = Len(state.tasks) + 1
        /\ Append(state.tasks, work) # <<>>
    BY DEF State
  <2>3. next = [state EXCEPT !.tasks = Append(state.tasks, work),
                             !.pendingCount = state.pendingCount + 1,
                             !.pc = IF state.pc = "idle" THEN "start" ELSE state.pc]
    BY DEF State
  <2>2. /\ next \in State /\ next.tasks = Append(state.tasks, work)
        /\ next.pc = IF state.pc = "idle" THEN "start" ELSE state.pc
        /\ next.pendingCount = state.pendingCount + 1 /\ next.failed = state.failed
        /\ next.dropped = state.dropped /\ next.closed = state.closed
        /\ next.saved = state.saved /\ next.ok = state.ok /\ next.work = state.work
    <3> DEFINE pc == IF state.pc = "idle" THEN "start" ELSE state.pc
    <3>1. pc \in {"idle", "start", "work", "settle", "persist", "ended", "dead"}
      BY DEF State
    <3>2. state.pendingCount + 1 \in Nat
      BY DEF State
    <3> HIDE DEF pc
    <3>3. next = [state EXCEPT !.tasks = Append(state.tasks, work),
                               !.pendingCount = state.pendingCount + 1, !.pc = pc]
      BY <2>3 DEF pc
    <3> HIDE DEF next
    <3>4. next \in State /\ next.pc = pc
      BY <2>1, <3>1, <3>2, <3>3 DEF State
    <3> QED
      BY <3>3, <3>4 DEF State, pc
  <2> HIDE DEF next
  <2>4. Consistent(next, saved)
    BY <2>1, <2>2 DEF Consistent, State
  <2> QED
    BY <1>2, <2>2, <2>4 DEF Enqueued, next
<1> QED
  BY <1>1, <1>2

(* What is not about diagnostics leaves the saved counters alone.          *)
LEMMA PrunedFacts ==
  ASSUME NEW store, Shaped(store)
  PROVE  Shaped(Pruned(store)) /\ Pruned(store).sessions = store.sessions
<1> DEFINE observations == Newest(Without(store.observations, store.old), MaxRecords)
           pending == Newest(Without(store.pending, store.old), MaxPending)
           lost == Len(store.observations) + Len(store.pending)
                     - Len(observations) - Len(pending)
           dropped == store.dropped + lost
           truncated == store.truncated \/ lost > 0
<1>1. Pruned(store) = [store EXCEPT !.observations = observations, !.pending = pending,
                                    !.old = {}, !.dropped = dropped, !.truncated = truncated]
  BY DEF Pruned
<1> HIDE DEF observations, pending, lost, dropped, truncated
<1> QED
  BY <1>1 DEF Shaped

LEMMA UpsertedFacts ==
  ASSUME NEW store, Shaped(store), NEW work
  PROVE  Shaped(Upserted(store, work)) /\ Upserted(store, work).sessions = store.sessions
<1>1. CASE work.done
  BY <1>1 DEF Shaped, Upserted
<1>2. CASE ~work.done
  BY <1>2 DEF Shaped, Upserted
<1> QED
  BY <1>1, <1>2

(* A step of one queue.                                                    *)
LEMMA QueueStep ==
  ASSUME QueueInv, NEW q \in Queue, NEW state \in State, Become(q, state),
         Shaped(ledger'), \A r \in Queue \ {q} : ledger'.sessions[r] = ledger.sessions[r],
         Consistent(state, ledger'.sessions[q]), UNCHANGED dispatched
  PROVE  QueueInv'
<1>1. /\ queue' \in [Queue -> State] /\ queue'[q] = state
      /\ \A r \in Queue \ {q} : queue'[r] = queue[r]
  BY DEF Become, QueueInv
<1>2. \A r \in Queue : Consistent(queue'[r], ledger'.sessions[r])
  BY <1>1 DEF QueueInv
<1> QED
  BY <1>1, <1>2 DEF QueueInv

LEMMA RunStep == ASSUME QueueInv, NEW q \in Queue, Run(q) PROVE QueueInv'
<1> DEFINE state == queue[q]
           saved == ledger.sessions[q]
<1>1. /\ state \in State /\ saved \in Counts /\ Consistent(state, saved) /\ Shaped(ledger)
      /\ saved.failed \in Nat /\ state.failed \in Nat /\ state.pendingCount \in Nat
      /\ state.tasks \in Seq(Work)
  BY DEF QueueInv, Shaped, State, Counts
<1>2. CASE Start(q)
  <2>1. /\ state.pc = "start" /\ Become(q, Looping(state)) /\ UNCHANGED <<host, ledger>>
    BY <1>2 DEF Start
  <2>2. Looping(state) \in State /\ Consistent(Looping(state), saved)
    <3>1. /\ state.pendingCount = Len(state.tasks) /\ saved.failed <= state.failed
          /\ saved.dropped <= state.dropped
      BY <1>1, <2>1 DEF Consistent
    <3> QED
      BY <1>1, <3>1, LoopingFacts
  <2> QED
    BY <1>1, <2>1, <2>2, QueueStep DEF host
<1>3. CASE Record(q)
  <2>1. PICK ok \in BOOLEAN :
          /\ state.pc = "work" /\ Become(q, [state EXCEPT !.pc = "settle", !.ok = ok])
          /\ UNCHANGED host
          /\ ledger' = ledger \/ ledger' = Pruned(Upserted(Pruned(ledger), state.work))
    BY <1>3 DEF Record
  <2> DEFINE next == [state EXCEPT !.pc = "settle", !.ok = ok]
  <2>2. /\ next \in State /\ next.pc = "settle" /\ next.tasks = state.tasks
        /\ next.pendingCount = state.pendingCount /\ next.failed = state.failed
        /\ next.dropped = state.dropped
    BY <1>1 DEF State
  <2>3. Shaped(ledger') /\ ledger'.sessions = ledger.sessions
    BY <1>1, <2>1, PrunedFacts, UpsertedFacts
  <2> HIDE DEF next
  <2>4. Consistent(next, saved)
    BY <1>1, <2>1, <2>2 DEF Consistent
  <2> QED
    BY <2>1, <2>2, <2>3, <2>4, QueueStep DEF host, next
<1>4. CASE Settle(q)
  <2> DEFINE next == [state EXCEPT !.pendingCount = @ - 1, !.ok = TRUE,
                                   !.failed = IF state.ok THEN @ ELSE @ + 1]
  <2>1. state.pc = "settle" /\ Become(q, Looping(next)) /\ UNCHANGED <<host, ledger>>
    BY <1>4 DEF Settle
  <2>2. state.pendingCount = Len(state.tasks) + 1 /\ saved.failed <= state.failed
        /\ saved.dropped <= state.dropped
    BY <1>1, <2>1 DEF Consistent
  <2>3. /\ next \in State /\ next.tasks = state.tasks
        /\ next.pendingCount = Len(state.tasks) /\ next.failed >= state.failed
        /\ next.failed \in Nat /\ next.dropped = state.dropped
    <3> DEFINE failed == IF state.ok THEN state.failed ELSE state.failed + 1
    <3>1. failed \in Nat /\ failed >= state.failed
      BY <1>1 DEF State
    <3>2. state.pendingCount - 1 = Len(state.tasks) /\ Len(state.tasks) \in Nat
      BY <1>1, <2>2
    <3> HIDE DEF failed
    <3>3. next = [state EXCEPT !.pendingCount = Len(state.tasks), !.ok = TRUE, !.failed = failed]
      BY <1>1, <3>2 DEF failed, State
    <3> HIDE DEF next
    <3> QED
      BY <1>1, <3>1, <3>2, <3>3 DEF State
  <2> HIDE DEF next
  <2>4. Looping(next) \in State /\ Consistent(Looping(next), saved)
    <3>1. saved.failed <= next.failed /\ saved.dropped <= next.dropped
      BY <1>1, <2>2, <2>3
    <3> QED
      BY <1>1, <2>3, <3>1, LoopingFacts
  <2> QED
    BY <1>1, <2>1, <2>4, QueueStep DEF host
<1>5. CASE Persist(q)
  <2>1. PICK done \in BOOLEAN, ok \in BOOLEAN :
          /\ state.pc = "persist" /\ Become(q, [state EXCEPT !.pc = "ended", !.ok = ok])
          /\ ok => done
          /\ UNCHANGED host
          /\ ~done => ledger' = ledger
          /\ done => \E f, d, t : ledger' = [Pruned(ledger) EXCEPT !.failed = f, !.dropped = d,
                                               !.truncated = t, !.sessions[q] = state.saved]
    <3>1. PICK done \in BOOLEAN, ok \in BOOLEAN :
            LET store == Pruned(ledger)
            IN /\ Outcome(q, done, ok)
               /\ Become(q, [state EXCEPT !.pc = "ended", !.ok = ok])
               /\ ledger' = IF ~done THEN ledger
                            ELSE [store EXCEPT
                              !.failed = @ + More(store.sessions[q].failed, state.saved.failed),
                              !.dropped = @ + More(store.sessions[q].dropped, state.saved.dropped),
                              !.truncated = @ \/ state.saved.dropped > 0,
                              !.sessions[q] = state.saved]
      BY <1>5 DEF Persist
    <3>2. done => \E f, d, t : ledger' = [Pruned(ledger) EXCEPT !.failed = f, !.dropped = d,
                                             !.truncated = t, !.sessions[q] = state.saved]
      BY <3>1
    <3>3. state.pc = "persist" /\ UNCHANGED host
      BY <1>5 DEF Persist
    <3> QED
      BY <3>1, <3>2, <3>3 DEF Outcome
  <2> DEFINE next == [state EXCEPT !.pc = "ended", !.ok = ok]
  <2>2. /\ next \in State /\ next.pc = "ended" /\ next.tasks = state.tasks
        /\ next.pendingCount = state.pendingCount /\ next.failed = state.failed
        /\ next.saved = state.saved /\ next.ok = ok /\ next.dropped = state.dropped
        /\ next.closed = state.closed /\ state.saved \in Counts
    BY <1>1 DEF State
  <2>3. Shaped(Pruned(ledger)) /\ Pruned(ledger).sessions = ledger.sessions
    BY <1>1, PrunedFacts
  <2>4. /\ Shaped(ledger')
        /\ ledger'.sessions = IF done THEN [ledger.sessions EXCEPT ![q] = state.saved]
                                      ELSE ledger.sessions
    <3>1. CASE ~done
      BY <1>1, <2>1, <3>1
    <3>2. CASE done
      <4>1. [ledger.sessions EXCEPT ![q] = state.saved] \in [Queue -> Counts]
        BY <1>1, <2>2 DEF Shaped
      <4> QED
        BY <2>1, <2>3, <3>2, <4>1 DEF Shaped
    <3> QED
      BY <3>1, <3>2
  <2>5. /\ \A r \in Queue \ {q} : ledger'.sessions[r] = ledger.sessions[r]
        /\ ledger'.sessions[q] = IF done THEN state.saved ELSE saved
    BY <1>1, <2>4 DEF Shaped
  <2> HIDE DEF next
  <2>6. Consistent(next, ledger'.sessions[q])
    <3>1. /\ state.pendingCount = Len(state.tasks) /\ saved.failed <= state.failed
          /\ saved.dropped <= state.saved.dropped /\ state.saved.dropped <= state.dropped
          /\ state.saved.failed = state.failed
          /\ state.saved.dropped = state.dropped \/ state.closed \/ state.tasks # <<>>
      <4>1. state.pc = "persist"
        BY <2>1
      <4>2. state.pendingCount = Len(state.tasks) /\ saved.failed <= state.failed
        BY <1>1, <4>1 DEF Consistent
      <4>3. /\ state.saved.failed = state.failed
            /\ saved.dropped <= state.saved.dropped /\ state.saved.dropped <= state.dropped
            /\ state.saved.dropped = state.dropped \/ state.closed \/ state.tasks # <<>>
        BY <1>1, <4>1 DEF Consistent
      <4> QED
        BY <4>2, <4>3
    <3>2. ledger'.sessions[q].failed <= next.failed
      <4>1. CASE done
        BY <1>1, <2>2, <2>5, <3>1, <4>1
      <4>2. CASE ~done
        BY <1>1, <2>2, <2>5, <3>1, <4>2
      <4> QED
        BY <4>1, <4>2
    <3>4. /\ ledger'.sessions[q].dropped <= next.dropped
          /\ ledger'.sessions[q].dropped <= next.saved.dropped
          /\ next.saved.dropped <= next.dropped
      <4>1. saved.dropped \in Nat /\ state.saved.dropped \in Nat /\ state.dropped \in Nat
        BY <1>1 DEF State, Counts
      <4>2. CASE done
        BY <2>2, <2>5, <3>1, <4>1, <4>2
      <4>3. CASE ~done
        BY <2>2, <2>5, <3>1, <4>1, <4>3
      <4> QED
        BY <4>2, <4>3
    <3>3. next.ok => ledger'.sessions[q] = next.saved
      BY <2>1, <2>2, <2>5
    <3> QED
      BY <2>2, <3>1, <3>2, <3>3, <3>4 DEF Consistent
  <2> QED
    BY <2>1, <2>2, <2>4, <2>5, <2>6, QueueStep DEF host, next
<1>6. CASE Finish(q)
  <2> DEFINE next == [state EXCEPT !.failed = IF state.ok THEN @ ELSE @ + 1,
                                   !.ok = TRUE, !.saved = Zero,
                                   !.pc = IF state.tasks = <<>> THEN "idle" ELSE "start"]
  <2>1. state.pc = "ended" /\ Become(q, next) /\ UNCHANGED <<host, ledger>>
    BY <1>6 DEF Finish
  <2>2. /\ next \in State /\ next.tasks = state.tasks
        /\ next.pc = IF state.tasks = <<>> THEN "idle" ELSE "start"
        /\ next.pendingCount = state.pendingCount
        /\ next.failed = IF state.ok THEN state.failed ELSE state.failed + 1
        /\ next.dropped = state.dropped /\ next.closed = state.closed
    <3> DEFINE failed == IF state.ok THEN state.failed ELSE state.failed + 1
               pc == IF state.tasks = <<>> THEN "idle" ELSE "start"
    <3>1. failed \in Nat /\ Zero \in Counts
          /\ pc \in {"idle", "start", "work", "settle", "persist", "ended", "dead"}
      BY <1>1 DEF State, Zero, Counts
    <3> HIDE DEF failed, pc
    <3>2. next = [state EXCEPT !.failed = failed, !.ok = TRUE, !.saved = Zero, !.pc = pc]
      BY <1>1 DEF failed, pc, State
    <3> HIDE DEF next
    <3>3. /\ next \in State /\ next.tasks = state.tasks /\ next.pc = pc
          /\ next.pendingCount = state.pendingCount /\ next.failed = failed
          /\ next.dropped = state.dropped /\ next.closed = state.closed
      BY <1>1, <3>1, <3>2 DEF State
    <3> QED
      BY <3>3 DEF failed, pc
  <2> HIDE DEF next
  <2>3. Consistent(next, saved)
    <3>1. /\ state.pendingCount = Len(state.tasks) /\ saved.failed <= state.failed
          /\ saved.dropped <= state.dropped
          /\ state.ok => saved = state.saved
          /\ state.saved.dropped = state.dropped \/ state.closed \/ state.tasks # <<>>
      BY <1>1, <2>1 DEF Consistent
    <3>2. saved.failed <= next.failed /\ (saved.failed = next.failed => state.ok)
      BY <1>1, <2>2, <3>1
    <3> QED
      BY <2>2, <3>1, <3>2 DEF Consistent
  <2> QED
    BY <1>1, <2>1, <2>2, <2>3, QueueStep DEF host
<1> QED
  BY <1>2, <1>3, <1>4, <1>5, <1>6 DEF Run

LEMMA EnqueueStep ==
  ASSUME QueueInv, NEW q \in Queue, Alive(q), NEW work \in Work,
         Become(q, Enqueued(queue[q], work)), UNCHANGED ledger,
         dispatched' \in [Message -> Nat], \A m \in Message : dispatched'[m] <= MaxStep[m]
  PROVE  QueueInv'
<1> DEFINE next == Enqueued(queue[q], work)
<1>1. next \in State /\ Consistent(next, ledger.sessions[q])
  <2>1. /\ queue[q] \in State /\ ledger.sessions[q] \in Counts
        /\ Consistent(queue[q], ledger.sessions[q]) /\ queue[q].pc # "dead"
    BY DEF QueueInv, Shaped, Alive
  <2> QED
    BY <2>1, EnqueuedFacts
<1> HIDE DEF next
<1>2. /\ queue' \in [Queue -> State] /\ queue'[q] = next
      /\ \A r \in Queue \ {q} : queue'[r] = queue[r]
  BY <1>1 DEF Become, QueueInv, next
<1>3. \A r \in Queue : Consistent(queue'[r], ledger'.sessions[r])
  BY <1>1, <1>2 DEF QueueInv
<1> QED
  BY <1>2, <1>3 DEF QueueInv

LEMMA DispatchStep == ASSUME QueueInv, NEW m \in Message, Dispatch(m) PROVE QueueInv'
<1> DEFINE work == [step |-> <<m, dispatched'[m]>>, done |-> FALSE]
<1>1. /\ Alive(QueueOf[m]) /\ QueueOf[m] \in Queue /\ UNCHANGED ledger
      /\ dispatched' = [dispatched EXCEPT ![m] = @ + 1] /\ dispatched[m] < MaxStep[m]
      /\ Become(QueueOf[m], Enqueued(queue[QueueOf[m]], work))
  BY AttributionAssumption DEF Dispatch
<1>2. dispatched' \in [Message -> Nat] /\ \A x \in Message : dispatched'[x] <= MaxStep[x]
  <2>1. /\ dispatched \in [Message -> Nat] /\ MaxStep \in [Message -> Nat]
        /\ \A x \in Message : dispatched[x] <= MaxStep[x]
    BY AttributionAssumption DEF QueueInv
  <2>2. dispatched[m] + 1 \in Nat /\ dispatched[m] + 1 <= MaxStep[m]
    BY <1>1, <2>1
  <2>3. dispatched' = [dispatched EXCEPT ![m] = dispatched[m] + 1]
    BY <1>1
  <2>4. \A x \in Message : dispatched'[x] <= MaxStep[x]
    BY <2>1, <2>2, <2>3
  <2> QED
    BY <2>1, <2>2, <2>3, <2>4
<1>3. dispatched'[m] \in 1..MaxStep[m]
  <2>1. /\ dispatched[m] \in Nat /\ MaxStep[m] \in Nat /\ dispatched'[m] = dispatched[m] + 1
    BY <1>1, AttributionAssumption DEF QueueInv
  <2> QED
    BY <1>1, <2>1
<1>4. work \in Work
  BY <1>3 DEF Work, Step
<1> HIDE DEF work
<1> QED
  BY <1>1, <1>2, <1>4, EnqueueStep

LEMMA HearStep == ASSUME QueueInv, NEW s \in Step, Hear(s) PROVE QueueInv'
<1> DEFINE q == QueueOf[s[1]]
           work == [step |-> s, done |-> TRUE]
<1>1. Alive(q) /\ UNCHANGED <<dispatched, ledger>>
  BY DEF Hear
<1>2. q \in Queue
  BY AttributionAssumption DEF Step
<1>3. work \in Work
  BY DEF Work
<1>4. Become(q, Enqueued(queue[q], work))
  BY DEF Hear
<1> HIDE DEF q, work
<1> QED
  BY <1>1, <1>2, <1>3, <1>4, EnqueueStep DEF QueueInv

LEMMA CloseStep == ASSUME QueueInv, NEW q \in Queue, Close(q) PROVE QueueInv'
<1> DEFINE state == queue[q]
           next == [state EXCEPT !.closed = TRUE]
<1>1. state \in State /\ Consistent(state, ledger.sessions[q]) /\ Shaped(ledger)
  BY DEF QueueInv
<1>2. /\ next \in State /\ next.pc = state.pc /\ next.tasks = state.tasks
      /\ next.pendingCount = state.pendingCount /\ next.failed = state.failed
      /\ next.saved = state.saved /\ next.closed = TRUE /\ next.ok = state.ok
      /\ next.dropped = state.dropped /\ next.work = state.work
  BY <1>1 DEF State
<1>3. Become(q, next) /\ UNCHANGED <<dispatched, ledger>>
  BY DEF Close, host
<1> HIDE DEF next
<1>4. Consistent(next, ledger.sessions[q])
  BY <1>1, <1>2 DEF Consistent
<1> QED
  BY <1>1, <1>2, <1>3, <1>4, QueueStep

LEMMA CrashStep == ASSUME QueueInv, NEW q \in Queue, Crash(q) PROVE QueueInv'
<1> DEFINE next == [NewQueue EXCEPT !.pc = "dead"]
<1>1. Zero \in Counts
  BY DEF Zero, Counts
<1>2. next \in State /\ next.pc = "dead" /\ next.tasks = <<>> /\ next.pendingCount = 0
  <2>1. NewQueue \in State /\ NewQueue.tasks = <<>> /\ NewQueue.pendingCount = 0
    BY <1>1 DEF NewQueue, State
  <2> QED
    BY <2>1 DEF State
<1>3. Become(q, next) /\ UNCHANGED <<dispatched, ledger>>
  BY DEF Crash, host
<1> HIDE DEF next
<1>4. Consistent(next, ledger.sessions[q])
  BY <1>2 DEF Consistent
<1> QED
  BY <1>2, <1>3, <1>4, QueueStep DEF QueueInv

LEMMA AgeStep == ASSUME QueueInv, Age PROVE QueueInv'
<1>1. PICK rows : ledger' = [ledger EXCEPT !.old = rows] /\ UNCHANGED <<dispatched, queue>>
  BY DEF Age, host
<1>2. Shaped(ledger') /\ ledger'.sessions = ledger.sessions
  BY <1>1 DEF QueueInv, Shaped
<1> QED
  BY <1>1, <1>2 DEF QueueInv

LEMMA QueueInvStep == QueueInv /\ [Next]_vars => QueueInv'
<1> SUFFICES ASSUME QueueInv, [Next]_vars PROVE QueueInv'
  OBVIOUS
<1>1. CASE UNCHANGED vars
  BY <1>1 DEF vars, host, QueueInv
<1>2. ASSUME NEW m \in Message, Route(m) PROVE QueueInv'
  BY <1>2 DEF Route, QueueInv
<1>3. ASSUME NEW q \in Queue, Leave(q) PROVE QueueInv'
  BY <1>3 DEF Leave, QueueInv
<1> QED
  BY <1>1, <1>2, <1>3, RunStep, CloseStep, CrashStep, DispatchStep, HearStep, AgeStep DEF Next

(* A queue that is idle has nothing outstanding, whatever came while it    *)
(* was working or saving; and unless a save of it failed, what it dropped  *)
(* while it was open is in the ledger (flush, persist).                    *)
THEOREM IdleQueuesAreSaved == Spec => []IdleIsSaved
<1>1. QueueInv => IdleIsSaved
  <2> SUFFICES ASSUME QueueInv, NEW q \in Queue, queue[q].pc = "idle"
               PROVE  /\ queue[q].tasks = <<>> /\ queue[q].pendingCount = 0
                      /\ ~queue[q].closed /\ ledger.sessions[q].failed = queue[q].failed =>
                           ledger.sessions[q].dropped = queue[q].dropped
    BY DEF IdleIsSaved
  <2>1. Consistent(queue[q], ledger.sessions[q])
    BY DEF QueueInv
  <2>2. queue[q].tasks = <<>> /\ queue[q].pendingCount = Len(queue[q].tasks)
    BY <2>1 DEF Consistent, QueueInv, State
  <2>3. Len(<<>>) = 0
    OBVIOUS
  <2> QED
    BY <2>1, <2>2, <2>3 DEF Consistent
<1> QED
  BY <1>1, QueueInit, QueueInvStep, PTL DEF Spec

-----------------------------------------------------------------------------
(* The ledger.                                                             *)

Book ==
  [observations : Seq(Step), pending : Seq(Message), old : SUBSET (Step \cup Message),
   failed : Nat, dropped : Nat, truncated : BOOLEAN, sessions : [Queue -> Counts]]

SavedFailures(store) == Total(Queue, [q \in Queue |-> store.sessions[q].failed])
SavedDrops(store) == Total(Queue, [q \in Queue |-> store.sessions[q].dropped])
Rows(store) == Len(store.observations) + Len(store.pending) + store.dropped

(* A ledger's own counters are those that the queues saved, but for the    *)
(* rows it dropped itself; whoever saved a drop has truncated it.          *)
Sound(store) ==
  /\ store \in Book /\ NoDup(store.pending)
  /\ store.failed = SavedFailures(store)
  /\ SavedDrops(store) <= store.dropped
  /\ \A q \in Queue : store.sessions[q].dropped > 0 => store.truncated

LEMMA SavedTypes ==
  ASSUME NEW store \in Book
  PROVE  SavedFailures(store) \in Nat /\ SavedDrops(store) \in Nat
<1>1. /\ [q \in Queue |-> store.sessions[q].failed] \in [Queue -> Nat]
      /\ [q \in Queue |-> store.sessions[q].dropped] \in [Queue -> Nat]
  BY DEF Book, Counts
<1> QED
  BY <1>1, UnitsFacts, AttributionAssumption DEF SavedFailures, SavedDrops

(* What the counters and the rows of a ledger become when it is pruned.    *)
PrunedHolds(store) ==
  /\ Sound(Pruned(store)) /\ Rows(Pruned(store)) = Rows(store)
  /\ Pruned(store).sessions = store.sessions /\ Pruned(store).failed = store.failed
  /\ store.dropped <= Pruned(store).dropped
  /\ store.truncated => Pruned(store).truncated
  /\ ~Pruned(store).truncated =>
       /\ ToSet(Pruned(store).observations) = ToSet(store.observations)
       /\ ToSet(Pruned(store).pending) = ToSet(store.pending)

LEMMA PrunedSound == ASSUME NEW store, Sound(store) PROVE PrunedHolds(store)
<1> DEFINE young == Without(store.observations, store.old)
           waiting == Without(store.pending, store.old)
           observations == Newest(young, MaxRecords)
           pending == Newest(waiting, MaxPending)
           lost == Len(store.observations) + Len(store.pending)
                     - Len(observations) - Len(pending)
           dropped == store.dropped + lost
           truncated == store.truncated \/ lost > 0
           next == [store EXCEPT !.observations = observations, !.pending = pending,
                                 !.old = {}, !.dropped = dropped, !.truncated = truncated]
<1>1. Pruned(store) = next
  BY DEF Pruned
<1>2. /\ store \in Book /\ store.observations \in Seq(Step) /\ store.pending \in Seq(Message)
      /\ store.dropped \in Nat /\ store.truncated \in BOOLEAN /\ NoDup(store.pending)
  BY DEF Sound, Book
<1>3. WithoutFactsHold(store.observations, store.old, Step)
  BY <1>2, WithoutFacts
<1>4. WithoutFactsHold(store.pending, store.old, Message)
  BY <1>2, WithoutFacts
<1>5. /\ young \in Seq(Step) /\ Len(young) <= Len(store.observations)
      /\ ToSet(young) = ToSet(store.observations) \ store.old
      /\ Len(young) = Len(store.observations) => ToSet(store.observations) \cap store.old = {}
  BY <1>3 DEF WithoutFactsHold
<1>6. /\ waiting \in Seq(Message) /\ Len(waiting) <= Len(store.pending) /\ NoDup(waiting)
      /\ ToSet(waiting) = ToSet(store.pending) \ store.old
      /\ Len(waiting) = Len(store.pending) => ToSet(store.pending) \cap store.old = {}
  BY <1>2, <1>4 DEF WithoutFactsHold
<1> HIDE DEF young, waiting
<1>7. NewestFactsHold(young, MaxRecords, Step)
  BY <1>5, NewestFacts, AttributionAssumption
<1>8. NewestFactsHold(waiting, MaxPending, Message)
  BY <1>6, NewestFacts, AttributionAssumption
<1>9. /\ observations \in Seq(Step) /\ Len(observations) <= Len(young)
      /\ Len(observations) = Len(young) => observations = young
  BY <1>7 DEF NewestFactsHold
<1>10. /\ pending \in Seq(Message) /\ Len(pending) <= Len(waiting) /\ NoDup(pending)
       /\ Len(pending) = Len(waiting) => pending = waiting
  BY <1>6, <1>8 DEF NewestFactsHold
<1> HIDE DEF observations, pending
<1>11. /\ Len(store.observations) \in Nat /\ Len(store.pending) \in Nat /\ Len(young) \in Nat
       /\ Len(waiting) \in Nat /\ Len(observations) \in Nat /\ Len(pending) \in Nat
  BY <1>2, <1>5, <1>6, <1>9, <1>10
<1>12. /\ lost \in Nat /\ dropped \in Nat /\ store.dropped <= dropped
       /\ lost = 0 => Len(observations) = Len(young) /\ Len(young) = Len(store.observations)
       /\ lost = 0 => Len(pending) = Len(waiting) /\ Len(waiting) = Len(store.pending)
       /\ Len(observations) + Len(pending) + dropped
            = Len(store.observations) + Len(store.pending) + store.dropped
  <2> DEFINE a == Len(store.observations)
             b == Len(store.pending)
             c == Len(observations)
             d == Len(pending)
             e == Len(young)
             f == store.dropped
             g == Len(waiting)
  <2>1. /\ a \in Nat /\ b \in Nat /\ c \in Nat /\ d \in Nat /\ e \in Nat /\ f \in Nat
        /\ c <= e /\ e <= a
    BY <1>2, <1>5, <1>9, <1>11
  <2>2. g \in Nat /\ d <= g /\ g <= b
    BY <1>6, <1>10, <1>11
  <2> HIDE DEF a, b, c, d, e, f, g
  <2>3. /\ a + b - c - d \in Nat /\ f + (a + b - c - d) \in Nat
        /\ f <= f + (a + b - c - d)
        /\ a + b - c - d = 0 => c = e /\ e = a
        /\ a + b - c - d = 0 => d = g /\ g = b
        /\ c + d + (f + (a + b - c - d)) = a + b + f
    BY <2>1, <2>2
  <2> QED
    BY <2>3 DEF a, b, c, d, e, f, g
<1>13. truncated \in BOOLEAN /\ (store.truncated => truncated) /\ (~truncated => lost = 0)
  <2> HIDE DEF lost
  <2>1. lost > 0 \/ lost = 0
    BY <1>12
  <2>2. truncated \in BOOLEAN
    BY <1>2
  <2> QED
    BY <2>1, <2>2
<1>14. ~truncated => /\ ToSet(observations) = ToSet(store.observations)
                     /\ ToSet(pending) = ToSet(store.pending)
  <2>1. ~truncated => ToSet(observations) = ToSet(store.observations)
    BY <1>5, <1>9, <1>12, <1>13
  <2>2. ~truncated => ToSet(pending) = ToSet(store.pending)
    BY <1>6, <1>10, <1>12, <1>13
  <2> QED
    BY <2>1, <2>2
<1> HIDE DEF lost, dropped, truncated
<1>15. next \in Book
  BY <1>2, <1>9, <1>10, <1>12, <1>13 DEF Book
<1>16. /\ next.observations = observations /\ next.pending = pending /\ next.dropped = dropped
       /\ next.failed = store.failed /\ next.sessions = store.sessions
  BY <1>2 DEF Book
<1>17. next.truncated = truncated
  BY <1>2 DEF Book
<1> HIDE DEF next
<1>18. SavedFailures(next) = SavedFailures(store) /\ SavedDrops(next) = SavedDrops(store)
  BY <1>16 DEF SavedFailures, SavedDrops
<1>19. Sound(next)
  <2>1. next.failed = SavedFailures(next)
    BY <1>16, <1>18 DEF Sound
  <2>2. SavedDrops(next) <= next.dropped
    <3>1. SavedDrops(store) \in Nat /\ SavedDrops(store) <= store.dropped
      BY <1>2, SavedTypes DEF Sound
    <3> QED
      BY <1>2, <1>12, <1>16, <1>18, <3>1
  <2>3. \A q \in Queue : next.sessions[q].dropped > 0 => next.truncated
    BY <1>13, <1>16, <1>17 DEF Sound
  <2>4. NoDup(next.pending)
    BY <1>10, <1>16
  <2> QED
    BY <1>15, <2>1, <2>2, <2>3, <2>4 DEF Sound
<1>20. Rows(next) = Rows(store)
  BY <1>12, <1>16 DEF Rows
<1>21. ~next.truncated => /\ ToSet(next.observations) = ToSet(store.observations)
                          /\ ToSet(next.pending) = ToSet(store.pending)
  BY <1>14, <1>16, <1>17
<1>22. store.truncated => next.truncated
  BY <1>13, <1>17
<1> QED
  BY <1>1, <1>12, <1>16, <1>19, <1>20, <1>21, <1>22 DEF PrunedHolds

(* A row that is put into a ledger, and the pending row it settles.        *)
UpsertedHolds(store, work) ==
  /\ Sound(Upserted(store, work))
  /\ Rows(Upserted(store, work)) =
       Rows(store) + (IF IsNew(store, work) THEN 1 ELSE 0)
         - (IF work.done /\ MessageOf(work) \in ToSet(store.pending) THEN 1 ELSE 0)
  /\ Upserted(store, work).sessions = store.sessions
  /\ Upserted(store, work).truncated = store.truncated
  /\ ToSet(store.observations) \subseteq ToSet(Upserted(store, work).observations)
  /\ work.done => work.step \in ToSet(Upserted(store, work).observations)
  /\ \A x \in ToSet(store.pending) :
       x \in ToSet(Upserted(store, work).pending) \/ (work.done /\ x = MessageOf(work))
  /\ ~work.done => MessageOf(work) \in ToSet(Upserted(store, work).pending)

LEMMA AppendedFacts ==
  ASSUME NEW E, NEW rows \in Seq(E), NEW x \in E
  PROVE  /\ Append(rows, x) \in Seq(E) /\ Len(Append(rows, x)) = Len(rows) + 1
         /\ ToSet(Append(rows, x)) = ToSet(rows) \cup {x}
         /\ NoDup(rows) /\ x \notin ToSet(rows) => NoDup(Append(rows, x))
<1> DEFINE more == Append(rows, x)
<1>1. /\ more \in Seq(E) /\ Len(more) = Len(rows) + 1 /\ Len(rows) \in Nat
      /\ DOMAIN rows = 1..Len(rows) /\ DOMAIN more = 1..(Len(rows) + 1)
      /\ \A i \in 1..Len(rows) : more[i] = rows[i]
      /\ more[Len(rows) + 1] = x
  OBVIOUS
<1> HIDE DEF more
<1>2. \A i \in DOMAIN more : i \in DOMAIN rows \/ i = Len(rows) + 1
  BY <1>1
<1>3. ToSet(more) = ToSet(rows) \cup {x}
  <2>1. \A i \in DOMAIN more : more[i] \in ToSet(rows) \cup {x}
    BY <1>1, <1>2 DEF ToSet
  <2>2. \A i \in DOMAIN rows : rows[i] \in ToSet(more)
    BY <1>1 DEF ToSet
  <2>3. x \in ToSet(more)
    BY <1>1 DEF ToSet
  <2> QED
    BY <2>1, <2>2, <2>3 DEF ToSet
<1>4. NoDup(rows) /\ x \notin ToSet(rows) => NoDup(more)
  <2> SUFFICES ASSUME NoDup(rows), x \notin ToSet(rows), NEW i \in DOMAIN more,
                      NEW j \in DOMAIN more, more[i] = more[j]
               PROVE  i = j
    BY DEF NoDup
  <2>1. \A k \in DOMAIN rows : rows[k] # x
    BY DEF ToSet
  <2> QED
    BY <1>1, <1>2, <2>1 DEF NoDup
<1> QED
  BY <1>1, <1>3, <1>4 DEF more

LEMMA UpsertedSound ==
  ASSUME NEW store, Sound(store), NEW work \in Work
  PROVE  UpsertedHolds(store, work)
<1> DEFINE m == MessageOf(work)
           new == IsNew(store, work)
           next == Upserted(store, work)
<1>1. /\ store \in Book /\ store.observations \in Seq(Step) /\ store.pending \in Seq(Message)
      /\ store.dropped \in Nat /\ NoDup(store.pending)
  BY DEF Sound, Book
<1>2. work.step \in Step /\ m \in Message /\ work.done \in BOOLEAN
  BY DEF Work, MessageOf, Step
<1>3. ASSUME NEW obs \in Seq(Step), NEW pend \in Seq(Message), NoDup(pend),
             next = [store EXCEPT !.observations = obs, !.pending = pend]
      PROVE  /\ Sound(next) /\ next.observations = obs /\ next.pending = pend
             /\ next.dropped = store.dropped /\ next.sessions = store.sessions
             /\ next.truncated = store.truncated
  <2> HIDE DEF next
  <2>1. /\ next \in Book /\ next.observations = obs /\ next.pending = pend
        /\ next.dropped = store.dropped /\ next.sessions = store.sessions
        /\ next.failed = store.failed
    BY <1>1, <1>3 DEF Book
  <2>2. next.truncated = store.truncated
    BY <1>1, <1>3 DEF Book
  <2>3. SavedFailures(next) = SavedFailures(store) /\ SavedDrops(next) = SavedDrops(store)
    BY <2>1 DEF SavedFailures, SavedDrops
  <2>4. Sound(next)
    BY <1>3, <2>1, <2>2, <2>3 DEF Sound
  <2> QED
    BY <2>1, <2>2, <2>4
<1> HIDE DEF m, new
<1>4. CASE work.done
  <2> DEFINE obs == IF new THEN Append(store.observations, work.step) ELSE store.observations
             pend == Without(store.pending, {m})
  <2>1. next = [store EXCEPT !.observations = obs, !.pending = pend]
    <3>1. next = [store EXCEPT !.observations = IF new THEN Append(@, work.step) ELSE @,
                               !.pending = Without(@, {m})]
      BY <1>4 DEF Upserted, m, new
    <3> QED
      BY <1>1, <3>1 DEF Book
  <2>2. new <=> work.step \notin ToSet(store.observations)
    BY <1>4 DEF new, IsNew
  <2>3. /\ obs \in Seq(Step)
        /\ Len(obs) = Len(store.observations) + (IF new THEN 1 ELSE 0)
        /\ ToSet(store.observations) \subseteq ToSet(obs) /\ work.step \in ToSet(obs)
    <3>1. CASE new
      BY <1>1, <1>2, <3>1, AppendedFacts
    <3>2. CASE ~new
      BY <1>1, <2>2, <3>2
    <3> QED
      BY <3>1, <3>2
  <2>4. pend \in Seq(Message) /\ NoDup(pend) /\ ToSet(pend) = ToSet(store.pending) \ {m}
    <3>1. WithoutFactsHold(store.pending, {m}, Message)
      BY <1>1, WithoutFacts
    <3> QED
      BY <1>1, <3>1 DEF WithoutFactsHold
  <2>5. Len(pend) = IF m \in ToSet(store.pending) THEN Len(store.pending) - 1
                                                  ELSE Len(store.pending)
    BY <1>1, WithoutOne
  <2> HIDE DEF obs, pend, next
  <2>6. /\ Sound(next) /\ next.observations = obs /\ next.pending = pend
        /\ next.dropped = store.dropped /\ next.sessions = store.sessions
        /\ next.truncated = store.truncated
    BY <1>3, <2>1, <2>3, <2>4
  <2>7. Rows(next) = Rows(store) + (IF new THEN 1 ELSE 0)
                       - (IF work.done /\ m \in ToSet(store.pending) THEN 1 ELSE 0)
    <3>0. store.dropped \in Nat
      BY <1>1
    <3>1. Len(store.observations) \in Nat /\ Len(store.pending) \in Nat
      BY <1>1
    <3> DEFINE more == IF new THEN 1 ELSE 0
               less == IF m \in ToSet(store.pending) THEN 1 ELSE 0
    <3>2. more \in Int /\ less \in Int
      OBVIOUS
    <3>3. Len(obs) = Len(store.observations) + more
      BY <2>3
    <3>4. Len(pend) = Len(store.pending) - less
      BY <2>5, <3>1
    <3>5. less = IF work.done /\ m \in ToSet(store.pending) THEN 1 ELSE 0
      BY <1>4
    <3> HIDE DEF more, less
    <3>7. Rows(next) = Len(obs) + Len(pend) + store.dropped
      BY <2>6 DEF Rows
    <3>8. Rows(store) = Len(store.observations) + Len(store.pending) + store.dropped
      BY DEF Rows
    <3> DEFINE a == Len(store.observations)
               b == Len(store.pending)
               c == store.dropped
    <3>9. /\ a \in Int /\ b \in Int /\ c \in Int
          /\ Rows(next) = (a + more) + (b - less) + c /\ Rows(store) = a + b + c
      BY <3>0, <3>1, <3>3, <3>4, <3>7, <3>8
    <3> HIDE DEF a, b, c
    <3>6. Rows(next) = Rows(store) + more - less
      BY <3>2, <3>9
    <3> QED
      BY <3>5, <3>6 DEF more
  <2>8. \A x \in ToSet(store.pending) : x \in ToSet(next.pending) \/ (work.done /\ x = m)
    BY <1>4, <2>4, <2>6
  <2> QED
    BY <1>4, <2>3, <2>6, <2>7, <2>8 DEF UpsertedHolds, next, m, new
<1>5. CASE ~work.done
  <2> DEFINE pend == IF new THEN Append(store.pending, m) ELSE store.pending
  <2>1. next = [store EXCEPT !.observations = store.observations, !.pending = pend]
    <3>1. next = [store EXCEPT !.pending = IF new THEN Append(@, m) ELSE @]
      BY <1>5 DEF Upserted, m, new
    <3> QED
      BY <1>1, <3>1 DEF Book
  <2>2. new <=> m \notin ToSet(store.pending)
    BY <1>5 DEF new, IsNew, m
  <2>3. /\ pend \in Seq(Message) /\ NoDup(pend)
        /\ Len(pend) = Len(store.pending) + (IF new THEN 1 ELSE 0)
        /\ ToSet(store.pending) \subseteq ToSet(pend) /\ m \in ToSet(pend)
    <3>1. CASE new
      BY <1>1, <1>2, <2>2, <3>1, AppendedFacts
    <3>2. CASE ~new
      BY <1>1, <2>2, <3>2
    <3> QED
      BY <3>1, <3>2
  <2> HIDE DEF pend, next
  <2>6. /\ Sound(next) /\ next.observations = store.observations /\ next.pending = pend
        /\ next.dropped = store.dropped /\ next.sessions = store.sessions
        /\ next.truncated = store.truncated
    BY <1>1, <1>3, <2>1, <2>3
  <2>7. Rows(next) = Rows(store) + (IF new THEN 1 ELSE 0)
                       - (IF work.done /\ m \in ToSet(store.pending) THEN 1 ELSE 0)
    <3>0. store.dropped \in Nat
      BY <1>1
    <3>1. Len(store.observations) \in Nat /\ Len(store.pending) \in Nat
      BY <1>1
    <3> DEFINE more == IF new THEN 1 ELSE 0
    <3>2. more \in Int
      OBVIOUS
    <3>3. Len(pend) = Len(store.pending) + more
      BY <2>3
    <3> HIDE DEF more
    <3>7. Rows(next) = Len(store.observations) + Len(pend) + store.dropped
      BY <2>6 DEF Rows
    <3>8. Rows(store) = Len(store.observations) + Len(store.pending) + store.dropped
      BY DEF Rows
    <3> DEFINE a == Len(store.observations)
               b == Len(store.pending)
               c == store.dropped
    <3>9. /\ a \in Int /\ b \in Int /\ c \in Int
          /\ Rows(next) = a + (b + more) + c /\ Rows(store) = a + b + c
      BY <3>0, <3>1, <3>3, <3>7, <3>8
    <3> HIDE DEF a, b, c
    <3>6. Rows(next) = Rows(store) + more - 0
      BY <3>2, <3>9
    <3> QED
      BY <1>5, <3>6 DEF more
  <2>8. ToSet(store.pending) \subseteq ToSet(next.pending) /\ m \in ToSet(next.pending)
    BY <2>3, <2>6
  <2> QED
    BY <1>5, <2>6, <2>7, <2>8 DEF UpsertedHolds, next, m, new
<1> QED
  BY <1>4, <1>5

(* The ledger is sound, and the rows that are owed are those that are in   *)
(* it or that it dropped itself.                                           *)
BooksInv == Sound(ledger) /\ owed = Rows(ledger) - SavedDrops(ledger)

(* What a step may do to the observations: lose some if it says so.        *)
Remembered ==
  /\ ledger.truncated => ledger'.truncated
  /\ ledger'.truncated \/ ToSet(ledger.observations) \subseteq ToSet(ledger'.observations)

LEMMA RowsType == ASSUME NEW store \in Book PROVE Rows(store) \in Int
<1>1. /\ store.observations \in Seq(Step) /\ store.pending \in Seq(Message)
      /\ store.dropped \in Nat
  BY DEF Book
<1>2. Len(store.observations) \in Int /\ Len(store.pending) \in Int
  BY <1>1
<1> DEFINE a == Len(store.observations)
           b == Len(store.pending)
           c == store.dropped
<1>3. a \in Int /\ b \in Int /\ c \in Int
  BY <1>1, <1>2
<1> HIDE DEF a, b, c
<1>4. a + b + c \in Int
  BY <1>3
<1> QED
  BY <1>4 DEF Rows, a, b, c

LEMMA BooksInit == Init => BooksInv
<1> SUFFICES ASSUME Init PROVE BooksInv
  OBVIOUS
<1> DEFINE sessions == [q \in Queue |-> Zero]
<1>1. ledger = [observations |-> <<>>, pending |-> <<>>, old |-> {}, failed |-> 0,
                dropped |-> 0, truncated |-> FALSE, sessions |-> sessions] /\ owed = 0
  BY DEF Init
<1>2. /\ sessions \in [Queue -> Counts]
      /\ \A q \in Queue : sessions[q].failed = 0 /\ sessions[q].dropped = 0
  BY DEF Zero, Counts
<1> HIDE DEF sessions
<1>3. ledger \in Book
  BY <1>1, <1>2 DEF Book
<1>4. SavedFailures(ledger) = 0 /\ SavedDrops(ledger) = 0
  <2>1. \A q \in Queue : [r \in Queue |-> ledger.sessions[r].failed][q] = 0
    BY <1>1, <1>2
  <2>2. \A q \in Queue : [r \in Queue |-> ledger.sessions[r].dropped][q] = 0
    BY <1>1, <1>2
  <2> QED
    BY <2>1, <2>2, TotalOfZeros DEF SavedFailures, SavedDrops
<1>5. Rows(ledger) = 0 /\ NoDup(ledger.pending)
  BY <1>1 DEF Rows, NoDup
<1>6. ledger.failed = 0 /\ ledger.dropped = 0 /\ \A q \in Queue : ledger.sessions[q].dropped = 0
  BY <1>1, <1>2
<1>7. Sound(ledger)
  BY <1>3, <1>4, <1>5, <1>6 DEF Sound
<1> QED
  BY <1>1, <1>4, <1>5, <1>7 DEF BooksInv

LEMMA SameBooks ==
  ASSUME BooksInv, UNCHANGED <<ledger, owed>> PROVE BooksInv' /\ Remembered
BY DEF BooksInv, Sound, Book, Rows, SavedFailures, SavedDrops, Remembered, NoDup, ToSet

LEMMA RecordBooks ==
  ASSUME QueueInv, BooksInv, NEW q \in Queue, Record(q)
  PROVE  BooksInv' /\ Remembered
<1> DEFINE store == Pruned(ledger)
           work == queue[q].work
           full == Upserted(store, work)
           new == IF IsNew(store, work) THEN 1 ELSE 0
           completes == work.done /\ MessageOf(work) \in ToSet(store.pending)
           less == IF completes THEN 1 ELSE 0
<1>1. \/ UNCHANGED <<ledger, owed>>
      \/ ledger' = Pruned(full) /\ owed' = owed + new - less
  BY DEF Record
<1>2. work \in Work
  BY DEF Record, QueueInv, Consistent
<1>3. Sound(ledger) /\ owed = Rows(ledger) - SavedDrops(ledger)
  BY DEF BooksInv
<1>4. PrunedHolds(ledger)
  BY <1>3, PrunedSound
<1>5. Sound(store)
  BY <1>4 DEF PrunedHolds
<1> HIDE DEF work, store
<1>6. UpsertedHolds(store, work)
  BY <1>2, <1>5, UpsertedSound
<1>7. Sound(full)
  BY <1>6 DEF UpsertedHolds
<1> HIDE DEF full
<1>8. PrunedHolds(full)
  BY <1>7, PrunedSound
<1>9. CASE UNCHANGED <<ledger, owed>>
  BY <1>9, SameBooks
<1>10. CASE ledger' = Pruned(full) /\ owed' = owed + new - less
  <2>1. Rows(Pruned(full)) = Rows(ledger) + new - less
    <3>1. Rows(Pruned(full)) = Rows(full)
      BY <1>8 DEF PrunedHolds
    <3>2. Rows(full) = Rows(store) + new - less
      BY <1>6 DEF UpsertedHolds, full
    <3>3. Rows(store) = Rows(ledger)
      BY <1>4 DEF PrunedHolds, store
    <3> QED
      BY <3>1, <3>2, <3>3
  <2>2. Pruned(full).sessions = ledger.sessions
    <3>1. Pruned(full).sessions = full.sessions
      BY <1>8 DEF PrunedHolds
    <3>2. full.sessions = store.sessions
      BY <1>6 DEF UpsertedHolds, full
    <3>3. store.sessions = ledger.sessions
      BY <1>4 DEF PrunedHolds, store
    <3> QED
      BY <3>1, <3>2, <3>3
  <2>3. SavedDrops(Pruned(full)) = SavedDrops(ledger)
    BY <2>2 DEF SavedDrops
  <2>4. owed' = Rows(Pruned(full)) - SavedDrops(Pruned(full))
    <3> DEFINE rows == Rows(ledger)
               drops == SavedDrops(ledger)
    <3>1. rows \in Int /\ drops \in Int
      BY <1>3, RowsType, SavedTypes DEF Sound
    <3>2. new \in Int /\ less \in Int
      OBVIOUS
    <3>3. owed' = (rows - drops) + new - less
      BY <1>3, <1>10
    <3> HIDE DEF rows, drops, new, less
    <3>4. (rows - drops) + new - less = (rows + new - less) - drops
      BY <3>1, <3>2
    <3> QED
      BY <2>1, <2>3, <3>3, <3>4 DEF rows, drops
  <2>5. Sound(Pruned(full))
    BY <1>8 DEF PrunedHolds
  <2>6. BooksInv'
    <3>1. Sound(ledger') /\ owed' = Rows(ledger') - SavedDrops(ledger')
      BY <1>10, <2>4, <2>5
    <3> QED
      BY <3>1 DEF BooksInv, Sound, Book, Rows, SavedFailures, SavedDrops, NoDup
  <2>7. ledger.truncated => Pruned(full).truncated
    <3>1. ledger.truncated => store.truncated
      BY <1>4 DEF PrunedHolds, store
    <3>2. full.truncated = store.truncated
      BY <1>6 DEF UpsertedHolds, full
    <3>3. full.truncated => Pruned(full).truncated
      BY <1>8 DEF PrunedHolds
    <3> QED
      BY <3>1, <3>2, <3>3
  <2>8. ~Pruned(full).truncated =>
          ToSet(ledger.observations) \subseteq ToSet(Pruned(full).observations)
    <3> SUFFICES ASSUME ~Pruned(full).truncated
                 PROVE  ToSet(ledger.observations) \subseteq ToSet(Pruned(full).observations)
      OBVIOUS
    <3>1. ToSet(Pruned(full).observations) = ToSet(full.observations) /\ ~full.truncated
      BY <1>8 DEF PrunedHolds
    <3>2. /\ ToSet(store.observations) \subseteq ToSet(full.observations)
          /\ full.truncated = store.truncated
      BY <1>6 DEF UpsertedHolds, full
    <3>3. ToSet(store.observations) = ToSet(ledger.observations)
      BY <1>4, <3>1, <3>2 DEF PrunedHolds, store
    <3> QED
      BY <3>1, <3>2, <3>3
  <2> QED
    BY <1>10, <2>6, <2>7, <2>8 DEF Remembered
<1> QED
  BY <1>1, <1>9, <1>10

(* A completion that is recorded is in the ledger, or the ledger says that *)
(* it dropped rows.                                                        *)
LEMMA RecordedIsThere ==
  ASSUME NEW store, Sound(store), NEW work \in Work, work.done
  PROVE  LET after == Pruned(Upserted(Pruned(store), work))
         IN  work.step \in ToSet(after.observations) \/ after.truncated
<1> DEFINE young == Pruned(store)
           full == Upserted(young, work)
<1>1. Sound(young)
  BY PrunedSound DEF PrunedHolds
<1> HIDE DEF young
<1>2. UpsertedHolds(young, work)
  BY <1>1, UpsertedSound
<1>3. Sound(full) /\ work.step \in ToSet(full.observations)
  BY <1>2 DEF UpsertedHolds
<1> HIDE DEF full
<1>4. PrunedHolds(full)
  BY <1>3, PrunedSound
<1>5. work.step \in ToSet(Pruned(full).observations) \/ Pruned(full).truncated
  BY <1>3, <1>4 DEF PrunedHolds
<1> QED
  BY <1>5 DEF full, young

(* What one queue saves adds to the sum what it had not saved.             *)
LEMMA SavedGrows ==
  ASSUME NEW q \in Queue, NEW before \in [Queue -> Nat], NEW n \in Nat, before[q] <= n
  PROVE  Total(Queue, [before EXCEPT ![q] = n]) = Total(Queue, before) + (n - before[q])
<1> DEFINE more == [r \in {q} |-> n - before[q]]
           after == [before EXCEPT ![q] = n]
<1>1. n - before[q] \in Nat
  OBVIOUS
<1>2. more \in [{q} -> Nat] /\ more[q] = n - before[q]
  BY <1>1
<1>3. after \in [Queue -> Nat] /\ after[q] = n /\ \A r \in Queue \ {q} : after[r] = before[r]
  OBVIOUS
<1> HIDE DEF more, after
<1>4. \A r \in Queue : after[r] = IF r \in {q} THEN before[r] + more[r] ELSE before[r]
  <2>1. before[q] + more[q] = n
    BY <1>2
  <2> QED
    BY <1>3, <2>1
<1>5. {q} \in SUBSET Queue
  OBVIOUS
<1>6. Total(Queue, after) = Total(Queue, before) + Total({q}, more)
  <2> DEFINE one == {q}
  <2>1. /\ one \in SUBSET Queue /\ more \in [one -> Nat] /\ IsFiniteSet(Queue)
        /\ \A r \in Queue : after[r] = IF r \in one THEN before[r] + more[r] ELSE before[r]
    BY <1>2, <1>4, <1>5, AttributionAssumption
  <2> HIDE DEF one
  <2>2. Total(Queue, after) = Total(Queue, before) + Total(one, more)
    BY <1>3, <2>1, TotalGrows
  <2> QED
    BY <2>2 DEF one
<1>7. Total({q}, more) = more[q]
  BY <1>2, TotalOfOne
<1> QED
  BY <1>2, <1>6, <1>7 DEF after

LEMMA PersistBooks ==
  ASSUME QueueInv, BooksInv, NEW q \in Queue, Persist(q)
  PROVE  BooksInv' /\ Remembered
<1> DEFINE store == Pruned(ledger)
           saved == queue[q].saved
           before == store.sessions[q]
           next == [store EXCEPT
                     !.failed = @ + More(store.sessions[q].failed, saved.failed),
                     !.dropped = @ + More(store.sessions[q].dropped, saved.dropped),
                     !.truncated = @ \/ saved.dropped > 0,
                     !.sessions[q] = saved]
<1>1. (ledger' = ledger \/ ledger' = next) /\ owed' = owed
  BY DEF Persist
<1>2. Sound(ledger) /\ owed = Rows(ledger) - SavedDrops(ledger)
  BY DEF BooksInv
<1>3. PrunedHolds(ledger)
  BY <1>2, PrunedSound
<1>4. Sound(store) /\ Rows(store) = Rows(ledger) /\ store.sessions = ledger.sessions
      /\ (ledger.truncated => store.truncated)
      /\ (~store.truncated => ToSet(store.observations) = ToSet(ledger.observations))
  BY <1>3 DEF PrunedHolds
<1>5. saved \in Counts /\ ledger.sessions[q].failed <= saved.failed
      /\ ledger.sessions[q].dropped <= saved.dropped
  <2>1. queue[q] \in State /\ Consistent(queue[q], ledger.sessions[q]) /\ queue[q].pc = "persist"
    BY DEF Persist, QueueInv
  <2>2. queue[q].saved \in Counts /\ queue[q].failed \in Nat
    BY <2>1 DEF State
  <2>3. /\ ledger.sessions[q].failed <= queue[q].failed
        /\ queue[q].saved.failed = queue[q].failed
        /\ ledger.sessions[q].dropped <= queue[q].saved.dropped
    BY <2>1 DEF Consistent
  <2> QED
    BY <2>2, <2>3
<1> HIDE DEF store, saved
<1>6. /\ store \in Book /\ store.failed \in Nat /\ store.dropped \in Nat /\ NoDup(store.pending)
      /\ store.sessions \in [Queue -> Counts] /\ before \in Counts /\ store.truncated \in BOOLEAN
      /\ saved.failed \in Nat /\ saved.dropped \in Nat
      /\ before.failed \in Nat /\ before.dropped \in Nat
      /\ before.failed <= saved.failed /\ before.dropped <= saved.dropped
  <2>1. store \in Book /\ NoDup(store.pending)
    BY <1>4 DEF Sound
  <2>2. /\ store.failed \in Nat /\ store.dropped \in Nat /\ store.truncated \in BOOLEAN
        /\ store.sessions \in [Queue -> Counts]
    BY <2>1 DEF Book
  <2>3. before \in Counts
    BY <2>2
  <2>4. before.failed \in Nat /\ before.dropped \in Nat
    BY <2>3 DEF Counts
  <2>5. saved.failed \in Nat /\ saved.dropped \in Nat
    BY <1>5 DEF Counts
  <2>6. before.failed <= saved.failed /\ before.dropped <= saved.dropped
    BY <1>4, <1>5
  <2> QED
    BY <2>1, <2>2, <2>3, <2>4, <2>5, <2>6
<1>7. /\ More(before.failed, saved.failed) = saved.failed - before.failed
      /\ More(before.dropped, saved.dropped) = saved.dropped - before.dropped
  BY <1>6, MoreFacts
<1> DEFINE failed == store.failed + (saved.failed - before.failed)
           dropped == store.dropped + (saved.dropped - before.dropped)
           truncated == store.truncated \/ saved.dropped > 0
           sessions == [store.sessions EXCEPT ![q] = saved]
<1>8. next = [store EXCEPT !.failed = failed, !.dropped = dropped, !.truncated = truncated,
                           !.sessions = sessions]
  BY <1>6, <1>7 DEF Book
<1>9. failed \in Nat /\ dropped \in Nat /\ truncated \in BOOLEAN
      /\ (store.truncated => truncated)
  BY <1>6
<1>10. sessions \in [Queue -> Counts] /\ sessions[q] = saved
       /\ \A r \in Queue \ {q} : sessions[r] = store.sessions[r]
  BY <1>5, <1>6
<1>11. Total(Queue, [r \in Queue |-> sessions[r].failed])
         = SavedFailures(store) + (saved.failed - before.failed)
  <2> DEFINE old == [r \in Queue |-> store.sessions[r].failed]
  <2>1. old \in [Queue -> Nat] /\ old[q] = before.failed
    BY <1>6 DEF Counts
  <2>2. [r \in Queue |-> sessions[r].failed] = [old EXCEPT ![q] = saved.failed]
    BY <1>10
  <2> HIDE DEF old
  <2>3. Total(Queue, [old EXCEPT ![q] = saved.failed])
          = Total(Queue, old) + (saved.failed - old[q])
    BY <1>6, <2>1, SavedGrows
  <2> QED
    BY <2>1, <2>2, <2>3 DEF SavedFailures, old
<1>12. Total(Queue, [r \in Queue |-> sessions[r].dropped])
         = SavedDrops(store) + (saved.dropped - before.dropped)
  <2> DEFINE old == [r \in Queue |-> store.sessions[r].dropped]
  <2>1. old \in [Queue -> Nat] /\ old[q] = before.dropped
    BY <1>6 DEF Counts
  <2>2. [r \in Queue |-> sessions[r].dropped] = [old EXCEPT ![q] = saved.dropped]
    BY <1>10
  <2> HIDE DEF old
  <2>3. Total(Queue, [old EXCEPT ![q] = saved.dropped])
          = Total(Queue, old) + (saved.dropped - old[q])
    BY <1>6, <2>1, SavedGrows
  <2> QED
    BY <2>1, <2>2, <2>3 DEF SavedDrops, old
<1> HIDE DEF failed, dropped, truncated, sessions
<1> HIDE DEF next
<1>13. /\ next \in Book /\ next.failed = failed /\ next.dropped = dropped
       /\ next.sessions = sessions /\ next.pending = store.pending
       /\ next.observations = store.observations
  BY <1>6, <1>8, <1>9, <1>10 DEF Book
<1>14. next.truncated = truncated
  BY <1>6, <1>8 DEF Book
<1>15. /\ SavedFailures(next) = SavedFailures(store) + (saved.failed - before.failed)
       /\ SavedDrops(next) = SavedDrops(store) + (saved.dropped - before.dropped)
  BY <1>11, <1>12, <1>13 DEF SavedFailures, SavedDrops
<1>16. SavedFailures(store) \in Nat /\ SavedDrops(store) \in Nat
       /\ store.failed = SavedFailures(store) /\ SavedDrops(store) <= store.dropped
  BY <1>4, <1>6, SavedTypes DEF Sound
<1> HIDE DEF before
<1>17. Sound(next)
  <2>1. next.failed = SavedFailures(next)
    BY <1>13, <1>15, <1>16 DEF failed
  <2>2. SavedDrops(next) <= next.dropped
    BY <1>6, <1>13, <1>15, <1>16 DEF dropped
  <2>3. \A r \in Queue : next.sessions[r].dropped > 0 => next.truncated
    <3>1. \A r \in Queue : store.sessions[r].dropped > 0 => store.truncated
      BY <1>4 DEF Sound
    <3>2. saved.dropped > 0 => truncated
      BY DEF truncated
    <3> QED
      BY <1>9, <1>10, <1>13, <1>14, <3>1, <3>2
  <2> QED
    BY <1>6, <1>13, <2>1, <2>2, <2>3 DEF Sound
<1>18. Rows(next) - SavedDrops(next) = Rows(ledger) - SavedDrops(ledger)
  <2> DEFINE a == Len(store.observations) + Len(store.pending)
             b == store.dropped
             c == SavedDrops(store)
             d == saved.dropped - before.dropped
  <2>1. a \in Int /\ b \in Int /\ c \in Int /\ d \in Int
    <3>1. Len(store.observations) \in Nat /\ Len(store.pending) \in Nat
      BY <1>6 DEF Book
    <3> QED
      BY <1>6, <1>16, <3>1
  <2>2. Rows(next) = a + (b + d) /\ Rows(store) = a + b
    BY <1>13 DEF Rows, dropped
  <2>3. SavedDrops(next) = c + d
    BY <1>15
  <2>4. SavedDrops(store) = SavedDrops(ledger)
    BY <1>4 DEF SavedDrops
  <2> HIDE DEF a, b, d
  <2>5. SavedDrops(ledger) = c
    BY <2>4
  <2> HIDE DEF c
  <2>6. (a + (b + d)) - (c + d) = (a + b) - c
    BY <2>1
  <2> QED
    BY <1>4, <2>2, <2>3, <2>5, <2>6
<1>19. CASE ledger' = ledger
  BY <1>1, <1>19, SameBooks
<1>20. CASE ledger' = next
  <2>1. Sound(ledger') /\ owed' = Rows(ledger') - SavedDrops(ledger')
    BY <1>1, <1>2, <1>17, <1>18, <1>20
  <2>2. BooksInv'
    BY <2>1 DEF BooksInv, Sound, Book, Rows, SavedFailures, SavedDrops, NoDup
  <2>3. Remembered
    BY <1>4, <1>9, <1>13, <1>14, <1>20 DEF Remembered
  <2> QED
    BY <2>2, <2>3
<1> QED
  BY <1>1, <1>19, <1>20

LEMMA AgeBooks == ASSUME BooksInv, Age PROVE BooksInv' /\ Remembered
<1>1. PICK rows \in SUBSET (Step \cup Message) :
        ledger' = [ledger EXCEPT !.old = rows] /\ UNCHANGED owed
  <2> DEFINE rows == ToSet(ledger.observations) \cup ToSet(ledger.pending)
  <2>1. ledger.observations \in Seq(Step) /\ ledger.pending \in Seq(Message)
    BY DEF BooksInv, Sound, Book
  <2>2. rows \in SUBSET (Step \cup Message)
    BY <2>1 DEF ToSet
  <2> QED
    BY <2>2 DEF Age
<1>2. Sound(ledger) /\ owed = Rows(ledger) - SavedDrops(ledger)
  BY DEF BooksInv
<1>3. /\ ledger' \in Book /\ ledger'.observations = ledger.observations
      /\ ledger'.pending = ledger.pending /\ ledger'.failed = ledger.failed
      /\ ledger'.dropped = ledger.dropped /\ ledger'.sessions = ledger.sessions
  BY <1>1, <1>2 DEF Sound, Book
<1>4. ledger'.truncated = ledger.truncated
  BY <1>1, <1>2 DEF Sound, Book
<1>5. /\ SavedFailures(ledger') = SavedFailures(ledger)
      /\ SavedDrops(ledger') = SavedDrops(ledger) /\ Rows(ledger') = Rows(ledger)
  BY <1>3 DEF SavedFailures, SavedDrops, Rows
<1>6. Sound(ledger') /\ owed' = Rows(ledger') - SavedDrops(ledger')
  BY <1>1, <1>2, <1>3, <1>4, <1>5 DEF Sound
<1>7. BooksInv'
  BY <1>6 DEF BooksInv, Sound, Book, Rows, SavedFailures, SavedDrops, NoDup
<1> QED
  BY <1>3, <1>4, <1>7 DEF Remembered

LEMMA BooksStep == QueueInv /\ BooksInv /\ [Next]_vars => BooksInv' /\ Remembered
<1> SUFFICES ASSUME QueueInv, BooksInv, [Next]_vars PROVE BooksInv' /\ Remembered
  OBVIOUS
<1>1. CASE UNCHANGED vars
  BY <1>1, SameBooks DEF vars
<1>2. ASSUME NEW q \in Queue, Run(q) PROVE BooksInv' /\ Remembered
  BY <1>2, RecordBooks, PersistBooks, SameBooks DEF Run, Start, Settle, Finish
<1>3. ASSUME NEW q \in Queue, Close(q) \/ Crash(q) PROVE BooksInv' /\ Remembered
  BY <1>3, SameBooks DEF Close, Crash
<1>4. ASSUME NEW m \in Message, Route(m) \/ Dispatch(m) PROVE BooksInv' /\ Remembered
  BY <1>4, SameBooks DEF Route, Dispatch
<1>5. ASSUME NEW s \in Step, Hear(s) PROVE BooksInv' /\ Remembered
  BY <1>5, SameBooks DEF Hear
<1>6. ASSUME NEW q \in Queue, Leave(q) PROVE BooksInv' /\ Remembered
  BY <1>6, SameBooks DEF Leave
<1> QED
  BY <1>1, <1>2, <1>3, <1>4, <1>5, <1>6, AgeBooks DEF Next

-----------------------------------------------------------------------------
(* The completions that were put to a queue.                               *)

Completion(s) == [step |-> s, done |-> TRUE]
Heard == {s \in Step : heard[s] > 0}

(* A completion waits in the queue, or the queue counts something that it  *)
(* did not do.                                                             *)
Awaited(state, s) ==
  \/ state.failed > 0 \/ state.dropped > 0
  \/ \E i \in DOMAIN state.tasks : state.tasks[i] = Completion(s)

(* Or it is being recorded, or that has failed.                            *)
Underway(state, s) ==
  \/ Awaited(state, s)
  \/ state.pc = "work" /\ state.work = Completion(s)
  \/ state.pc = "settle" /\ ~state.ok

InLedger(s) == s \in ToSet(ledger.observations) \/ ledger.truncated

HeardInv ==
  \A q \in Queue : Alive(q) =>
    \A s \in Heard : QueueOf[s[1]] = q => InLedger(s) \/ Underway(queue[q], s)

HostInv ==
  /\ current \in [Queue -> Message \cup {None}]
  /\ heard \in [Step -> 0..Deliveries] /\ settled \in [Message -> Nat]
  /\ \A m \in Message : settled[m] <= dispatched[m]

LEMMA LoopingUnderway ==
  ASSUME NEW state \in State, NEW s, Awaited(state, s)
  PROVE  Underway(Looping(state), s)
<1>1. CASE state.tasks # <<>>
  <2> DEFINE next == [state EXCEPT !.pc = "work", !.work = Head(state.tasks), !.tasks = Tail(@)]
  <2>1. /\ next.pc = "work" /\ next.work = Head(state.tasks) /\ next.tasks = Tail(state.tasks)
        /\ next.failed = state.failed /\ next.dropped = state.dropped
    BY DEF State
  <2>2. /\ state.tasks \in Seq(Work) /\ Len(state.tasks) \in Nat \ {0}
        /\ Head(state.tasks) = state.tasks[1] /\ Len(Tail(state.tasks)) = Len(state.tasks) - 1
        /\ \A i \in 1..(Len(state.tasks) - 1) : Tail(state.tasks)[i] = state.tasks[i + 1]
    BY <1>1 DEF State
  <2>3. /\ DOMAIN state.tasks = 1..Len(state.tasks)
        /\ DOMAIN Tail(state.tasks) = 1..(Len(state.tasks) - 1)
    BY <1>1, <2>2
  <2> HIDE DEF next
  <2>4. Underway(next, s)
    <3>1. CASE state.failed > 0 \/ state.dropped > 0
      BY <2>1, <3>1 DEF Underway, Awaited
    <3>2. CASE \E i \in DOMAIN state.tasks : state.tasks[i] = Completion(s)
      <4>1. PICK i \in 1..Len(state.tasks) : state.tasks[i] = Completion(s)
        BY <2>3, <3>2
      <4>2. CASE i = 1
        BY <2>1, <2>2, <4>1, <4>2 DEF Underway
      <4>3. CASE i # 1
        <5>1. i - 1 \in 1..(Len(state.tasks) - 1) /\ (i - 1) + 1 = i
          BY <2>2, <4>3
        <5>2. Tail(state.tasks)[i - 1] = Completion(s)
          BY <2>2, <4>1, <5>1
        <5>3. i - 1 \in DOMAIN next.tasks /\ next.tasks[i - 1] = Completion(s)
          BY <2>1, <2>3, <5>1, <5>2
        <5> QED
          BY <5>3 DEF Underway, Awaited
      <4> QED
        BY <4>2, <4>3
    <3> QED
      BY <3>1, <3>2 DEF Awaited
  <2> QED
    BY <1>1, <2>4 DEF Looping, next
<1>2. CASE state.tasks = <<>>
  <2> DEFINE next == [state EXCEPT !.pc = "persist", !.work = NoWork,
                                   !.saved = [failed |-> state.failed, dropped |-> state.dropped]]
  <2>1. next.tasks = state.tasks /\ next.failed = state.failed /\ next.dropped = state.dropped
    BY DEF State
  <2> HIDE DEF next
  <2> QED
    BY <1>2, <2>1 DEF Looping, Underway, Awaited, next
<1> QED
  BY <1>1, <1>2

LEMMA EnqueuedUnderway ==
  ASSUME NEW state \in State, NEW work \in Work
  PROVE  /\ \A s : Underway(state, s) => Underway(Enqueued(state, work), s)
         /\ \A s : work = Completion(s) => Underway(Enqueued(state, work), s)
<1>1. CASE state.closed \/ state.pendingCount >= Limit
  <2> DEFINE next == [state EXCEPT !.dropped = @ + 1]
  <2>1. next.dropped = state.dropped + 1 /\ state.dropped \in Nat
    BY DEF State
  <2> HIDE DEF next
  <2>2. \A s : Underway(next, s)
    BY <2>1 DEF Underway, Awaited
  <2> QED
    BY <1>1, <2>2 DEF Enqueued, next
<1>2. CASE ~(state.closed \/ state.pendingCount >= Limit)
  <2> DEFINE next == [state EXCEPT !.tasks = Append(@, work), !.pendingCount = @ + 1,
                                   !.pc = IF @ = "idle" THEN "start" ELSE @]
  <2>1. /\ next.tasks = Append(state.tasks, work) /\ next.failed = state.failed
        /\ next.dropped = state.dropped /\ next.work = state.work /\ next.ok = state.ok
        /\ next.pc = IF state.pc = "idle" THEN "start" ELSE state.pc
    BY DEF State
  <2>2. /\ state.tasks \in Seq(Work) /\ Len(state.tasks) \in Nat
        /\ DOMAIN state.tasks = 1..Len(state.tasks)
        /\ DOMAIN Append(state.tasks, work) = 1..(Len(state.tasks) + 1)
        /\ Append(state.tasks, work)[Len(state.tasks) + 1] = work
        /\ \A i \in 1..Len(state.tasks) : Append(state.tasks, work)[i] = state.tasks[i]
    BY DEF State
  <2> HIDE DEF next
  <2>3. ASSUME NEW s, Underway(state, s) PROVE Underway(next, s)
    <3>1. CASE \E i \in DOMAIN state.tasks : state.tasks[i] = Completion(s)
      <4>1. PICK i \in DOMAIN state.tasks : state.tasks[i] = Completion(s)
        BY <3>1
      <4>2. i \in DOMAIN next.tasks /\ next.tasks[i] = Completion(s)
        BY <2>1, <2>2, <4>1
      <4> QED
        BY <4>2 DEF Underway, Awaited
    <3>2. CASE ~\E i \in DOMAIN state.tasks : state.tasks[i] = Completion(s)
      BY <2>1, <2>3, <3>2 DEF Underway, Awaited
    <3> QED
      BY <3>1, <3>2
  <2>4. ASSUME NEW s, work = Completion(s) PROVE Underway(next, s)
    <3>1. Len(state.tasks) + 1 \in DOMAIN next.tasks /\ next.tasks[Len(state.tasks) + 1] = work
      BY <2>1, <2>2
    <3> QED
      BY <2>4, <3>1 DEF Underway, Awaited
  <2> QED
    BY <1>2, <2>3, <2>4 DEF Enqueued, next
<1> QED
  BY <1>1, <1>2

(* A step of one queue that forgets nothing it was told of.                *)
LEMMA HeardByOne ==
  ASSUME QueueInv, HeardInv, Remembered, NEW q \in Queue, NEW state, Become(q, state),
         UNCHANGED Heard, state.pc # "dead" => Alive(q),
         \A s \in Heard : QueueOf[s[1]] = q /\ Alive(q) /\ state.pc # "dead"
                            /\ Underway(queue[q], s) => Underway(state, s) \/ InLedger(s)'
  PROVE  HeardInv'
<1>1. queue'[q] = state /\ \A r \in Queue \ {q} : queue'[r] = queue[r]
  BY DEF Become, QueueInv
<1>2. \A s : InLedger(s) => InLedger(s)'
  BY DEF InLedger, Remembered
<1> SUFFICES ASSUME NEW r \in Queue, Alive(r)', NEW s \in Heard, QueueOf[s[1]] = r
             PROVE  InLedger(s)' \/ Underway(queue'[r], s)
  BY DEF HeardInv, Underway, Awaited
<1>3. Alive(r)
  BY <1>1 DEF Alive
<1>4. InLedger(s) \/ Underway(queue[r], s)
  BY <1>3 DEF HeardInv
<1>5. CASE r # q
  <2>1. queue'[r] = queue[r]
    BY <1>1, <1>5
  <2> QED
    BY <1>2, <1>4, <2>1
<1>6. CASE r = q
  <2>1. queue'[r] = state /\ state.pc # "dead"
    BY <1>1, <1>6 DEF Alive
  <2> QED
    BY <1>2, <1>3, <1>4, <1>6, <2>1
<1> QED
  BY <1>5, <1>6

(* The queues and what was Heard stay as they are.                         *)
LEMMA HeardBySame ==
  ASSUME HeardInv, Remembered, UNCHANGED <<queue, Heard>> PROVE HeardInv'
<1>1. \A s : InLedger(s) => InLedger(s)'
  BY DEF InLedger, Remembered
<1> SUFFICES ASSUME NEW r \in Queue, Alive(r)', NEW s \in Heard, QueueOf[s[1]] = r
             PROVE  InLedger(s)' \/ Underway(queue'[r], s)
  BY DEF HeardInv, Underway, Awaited
<1>2. Alive(r) /\ queue'[r] = queue[r]
  BY DEF Alive
<1> QED
  BY <1>1, <1>2 DEF HeardInv

LEMMA RunHeard ==
  ASSUME QueueInv, BooksInv, HeardInv, Remembered, NEW q \in Queue, Run(q)
  PROVE  HeardInv'
<1> DEFINE state == queue[q]
<1>1. /\ state \in State /\ Consistent(state, ledger.sessions[q])
      /\ state.failed \in Nat /\ state.dropped \in Nat /\ UNCHANGED Heard
  BY DEF QueueInv, State, Run, Start, Record, Settle, Persist, Finish, host, Heard
<1>2. CASE Start(q)
  <2>1. state.pc = "start" /\ Become(q, Looping(state))
    BY <1>2 DEF Start
  <2>2. \A s \in Heard : Underway(state, s) => Underway(Looping(state), s)
    BY <1>1, <2>1, LoopingUnderway DEF Underway
  <2> QED
    BY <1>1, <2>1, <2>2, HeardByOne DEF Alive
<1>3. CASE Record(q)
  <2> DEFINE work == state.work
             after == Pruned(Upserted(Pruned(ledger), work))
  <2>1. PICK done \in BOOLEAN, ok \in BOOLEAN :
          /\ state.pc = "work" /\ Become(q, [state EXCEPT !.pc = "settle", !.ok = ok])
          /\ ok => done
          /\ done => ledger' = after
    BY <1>3 DEF Record, Outcome
  <2> DEFINE next == [state EXCEPT !.pc = "settle", !.ok = ok]
  <2>2. /\ next.pc = "settle" /\ next.ok = ok /\ next.tasks = state.tasks
        /\ next.failed = state.failed /\ next.dropped = state.dropped
    BY <1>1 DEF State
  <2> HIDE DEF next, after, work
  <2>3. ASSUME NEW s \in Heard, Underway(state, s)
        PROVE  Underway(next, s) \/ InLedger(s)'
    <3>1. CASE Awaited(state, s)
      BY <2>2, <3>1 DEF Underway, Awaited
    <3>2. CASE work = Completion(s)
      <4>1. CASE ok
        <5>1. work \in Work /\ work.done /\ work.step = s
          BY <1>1, <2>1, <3>2 DEF Consistent, Completion, work
        <5>2. s \in ToSet(after.observations) \/ after.truncated
          BY <5>1, RecordedIsThere DEF BooksInv, after
        <5>3. ledger' = after
          BY <2>1, <4>1
        <5> QED
          BY <5>2, <5>3 DEF InLedger, ToSet
      <4>2. CASE ~ok
        BY <2>2, <4>2 DEF Underway
      <4> QED
        BY <4>1, <4>2
    <3> QED
      BY <2>1, <2>3, <3>1, <3>2 DEF Underway, work
  <2>4. next.pc # "dead" => Alive(q)
    BY <2>1 DEF Alive
  <2>5. Become(q, next)
    BY <2>1 DEF next
  <2> QED
    BY <1>1, <2>3, <2>4, <2>5, HeardByOne
<1>4. CASE Settle(q)
  <2> DEFINE next == [state EXCEPT !.pendingCount = @ - 1, !.ok = TRUE,
                                   !.failed = IF state.ok THEN @ ELSE @ + 1]
  <2>1. state.pc = "settle" /\ Become(q, Looping(next))
    BY <1>4 DEF Settle
  <2>2. state.pendingCount - 1 \in Nat
    BY <1>1, <2>1 DEF Consistent, State
  <2>3. /\ next \in State /\ next.tasks = state.tasks /\ next.dropped = state.dropped
        /\ next.failed = IF state.ok THEN state.failed ELSE state.failed + 1
    <3> DEFINE failed == IF state.ok THEN state.failed ELSE state.failed + 1
               left == state.pendingCount - 1
    <3>1. failed \in Nat
      BY <1>1
    <3>2. next = [state EXCEPT !.pendingCount = left, !.ok = TRUE, !.failed = failed]
      BY <1>1 DEF State
    <3> HIDE DEF failed, left, next
    <3>3. left \in Nat
      BY <2>2 DEF left
    <3>4. next \in State /\ next.tasks = state.tasks /\ next.dropped = state.dropped
          /\ next.failed = failed
      BY <1>1, <3>1, <3>2, <3>3 DEF State
    <3> QED
      BY <3>4 DEF failed
  <2> HIDE DEF next
  <2>4. ASSUME NEW s \in Heard, Underway(state, s) PROVE Underway(Looping(next), s)
    <3>1. Awaited(next, s)
      BY <1>1, <2>1, <2>3, <2>4 DEF Underway, Awaited
    <3> QED
      BY <2>3, <3>1, LoopingUnderway
  <2>5. Alive(q)
    BY <2>1 DEF Alive
  <2>6. Become(q, Looping(next))
    BY <2>1 DEF next
  <2> QED
    BY <1>1, <2>4, <2>5, <2>6, HeardByOne
<1>5. CASE Persist(q)
  <2>1. PICK ok \in BOOLEAN :
          state.pc = "persist" /\ Become(q, [state EXCEPT !.pc = "ended", !.ok = ok])
    BY <1>5 DEF Persist
  <2> DEFINE next == [state EXCEPT !.pc = "ended", !.ok = ok]
  <2>2. /\ next.tasks = state.tasks /\ next.failed = state.failed
        /\ next.dropped = state.dropped
    BY <1>1 DEF State
  <2> HIDE DEF next
  <2>3. \A s \in Heard : Underway(state, s) => Underway(next, s)
    BY <2>1, <2>2 DEF Underway, Awaited
  <2>4. Become(q, next) /\ Alive(q)
    BY <2>1 DEF next, Alive
  <2> QED
    BY <1>1, <2>3, <2>4, HeardByOne
<1>6. CASE Finish(q)
  <2> DEFINE next == [state EXCEPT !.failed = IF state.ok THEN @ ELSE @ + 1,
                                   !.ok = TRUE, !.saved = Zero,
                                   !.pc = IF state.tasks = <<>> THEN "idle" ELSE "start"]
  <2>1. state.pc = "ended" /\ Become(q, next)
    BY <1>6 DEF Finish
  <2>2. /\ next.tasks = state.tasks /\ next.dropped = state.dropped
        /\ next.failed = IF state.ok THEN state.failed ELSE state.failed + 1
    BY <1>1 DEF State
  <2> HIDE DEF next
  <2>3. \A s \in Heard : Underway(state, s) => Underway(next, s)
    BY <1>1, <2>1, <2>2 DEF Underway, Awaited
  <2>4. Alive(q)
    BY <2>1 DEF Alive
  <2> QED
    BY <1>1, <2>1, <2>3, <2>4, HeardByOne
<1> QED
  BY <1>2, <1>3, <1>4, <1>5, <1>6 DEF Run

LEMMA EnqueueHeard ==
  ASSUME QueueInv, HeardInv, Remembered, NEW q \in Queue, Alive(q), NEW work \in Work,
         Become(q, Enqueued(queue[q], work)),
         \A s \in Heard' : s \in Heard \/ (QueueOf[s[1]] = q /\ work = Completion(s))
  PROVE  HeardInv'
<1> DEFINE state == Enqueued(queue[q], work)
<1>1. queue[q] \in State
  BY DEF QueueInv
<1>2. /\ \A s : Underway(queue[q], s) => Underway(state, s)
      /\ \A s : work = Completion(s) => Underway(state, s)
  BY <1>1, EnqueuedUnderway
<1> HIDE DEF state
<1>3. queue'[q] = state /\ \A r \in Queue \ {q} : queue'[r] = queue[r]
  BY DEF Become, QueueInv, state
<1>4. \A s : InLedger(s) => InLedger(s)'
  BY DEF InLedger, Remembered
<1> SUFFICES ASSUME NEW r \in Queue, Alive(r)', NEW s \in Heard', QueueOf[s[1]] = r
             PROVE  InLedger(s)' \/ Underway(queue'[r], s)
  BY DEF HeardInv, Underway, Awaited
<1>5. CASE r # q
  <2>1. s \in Heard /\ queue'[r] = queue[r]
    BY <1>3, <1>5
  <2>2. InLedger(s) \/ Underway(queue[r], s)
    BY <2>1 DEF HeardInv, Alive
  <2> QED
    BY <1>4, <2>1, <2>2
<1>6. CASE r = q
  <2>1. CASE s \in Heard
    <3>1. InLedger(s) \/ Underway(queue[q], s)
      BY <1>6, <2>1 DEF HeardInv
    <3> QED
      BY <1>2, <1>3, <1>4, <1>6, <3>1
  <2>2. CASE work = Completion(s)
    BY <1>2, <1>3, <1>6, <2>2
  <2> QED
    BY <2>1, <2>2
<1> QED
  BY <1>5, <1>6

LEMMA HeardStep ==
  QueueInv /\ BooksInv /\ HostInv /\ HeardInv /\ [Next]_vars => HeardInv'
<1> SUFFICES ASSUME QueueInv, BooksInv, HostInv, HeardInv, [Next]_vars PROVE HeardInv'
  OBVIOUS
<1>1. Remembered
  BY BooksStep
<1>2. CASE UNCHANGED vars
  BY <1>1, <1>2, HeardBySame DEF vars, host, Heard
<1>3. ASSUME NEW q \in Queue, Close(q) PROVE HeardInv'
  <2> DEFINE next == [queue[q] EXCEPT !.closed = TRUE]
  <2>1. /\ next.pc = queue[q].pc /\ next.tasks = queue[q].tasks /\ next.work = queue[q].work
        /\ next.failed = queue[q].failed /\ next.dropped = queue[q].dropped
        /\ next.ok = queue[q].ok
    BY DEF QueueInv, State
  <2>2. Become(q, next) /\ UNCHANGED Heard /\ Alive(q)
    BY <1>3 DEF Close, host, Heard
  <2> HIDE DEF next
  <2>3. \A s \in Heard : Underway(queue[q], s) => Underway(next, s)
    BY <2>1 DEF Underway, Awaited
  <2> QED
    BY <1>1, <2>2, <2>3, HeardByOne
<1>4. ASSUME NEW q \in Queue, Crash(q) PROVE HeardInv'
  <2> DEFINE next == [NewQueue EXCEPT !.pc = "dead"]
  <2>1. Become(q, next) /\ UNCHANGED Heard /\ next.pc = "dead"
    BY <1>4 DEF Crash, host, NewQueue, Heard
  <2> HIDE DEF next
  <2> QED
    BY <1>1, <2>1, HeardByOne
<1>5. ASSUME NEW m \in Message, Route(m) PROVE HeardInv'
  BY <1>1, <1>5, HeardBySame DEF Route, Heard
<1>6. ASSUME NEW m \in Message, Dispatch(m) PROVE HeardInv'
  <2> DEFINE work == [step |-> <<m, dispatched'[m]>>, done |-> FALSE]
  <2>1. /\ Alive(QueueOf[m]) /\ QueueOf[m] \in Queue /\ UNCHANGED Heard
        /\ dispatched' = [dispatched EXCEPT ![m] = @ + 1] /\ dispatched[m] < MaxStep[m]
        /\ Become(QueueOf[m], Enqueued(queue[QueueOf[m]], work))
    BY <1>6, AttributionAssumption DEF Dispatch, Heard
  <2>2. dispatched'[m] \in 1..MaxStep[m]
    <3>1. /\ dispatched[m] \in Nat /\ MaxStep[m] \in Nat /\ dispatched'[m] = dispatched[m] + 1
      BY <2>1, AttributionAssumption DEF QueueInv
    <3> QED
      BY <2>1, <3>1
  <2>3. work \in Work
    BY <2>2 DEF Work, Step
  <2> HIDE DEF work
  <2> QED
    BY <1>1, <2>1, <2>3, EnqueueHeard
<1>7. ASSUME NEW s \in Step, Hear(s) PROVE HeardInv'
  <2> DEFINE q == QueueOf[s[1]]
             work == [step |-> s, done |-> TRUE]
  <2>1. q \in Queue /\ Alive(q)
    BY <1>7, AttributionAssumption DEF Step, Hear
  <2>2. work \in Work /\ work = Completion(s)
    BY DEF Work, Completion
  <2>3. heard' = [heard EXCEPT ![s] = @ + 1] /\ Become(q, Enqueued(queue[q], work))
    BY <1>7 DEF Hear
  <2>4. \A t \in Heard' : t \in Heard \/ t = s
    BY <2>3 DEF Heard, HostInv
  <2>5. \A t \in Heard' : t \in Heard \/ (QueueOf[t[1]] = q /\ work = Completion(t))
    BY <2>2, <2>4
  <2> HIDE DEF q, work
  <2> QED
    BY <1>1, <2>1, <2>2, <2>3, <2>5, EnqueueHeard
<1>8. CASE Age
  BY <1>1, <1>8, HeardBySame DEF Age, host, Heard
<1>9. ASSUME NEW q \in Queue, Run(q) PROVE HeardInv'
  BY <1>1, <1>9, RunHeard
<1>10. ASSUME NEW q \in Queue, Leave(q) PROVE HeardInv'
  BY <1>1, <1>10, HeardBySame DEF Leave, Heard
<1> QED
  BY <1>2, <1>3, <1>4, <1>5, <1>6, <1>7, <1>8, <1>9, <1>10 DEF Next

LEMMA HostStep == QueueInv /\ HostInv /\ [Next]_vars => HostInv'
<1> SUFFICES ASSUME QueueInv, HostInv, [Next]_vars PROVE HostInv'
  OBVIOUS
<1>1. CASE UNCHANGED <<current, dispatched, heard, settled>>
  BY <1>1 DEF HostInv
<1>2. ASSUME NEW m \in Message, Route(m) PROVE HostInv'
  BY <1>2 DEF Route, HostInv
<1>3. ASSUME NEW q \in Queue, Leave(q) PROVE HostInv'
  BY <1>3 DEF Leave, HostInv
<1>4. ASSUME NEW s \in Step, Hear(s) PROVE HostInv'
  <2>1. /\ heard' = [heard EXCEPT ![s] = @ + 1] /\ heard[s] < Deliveries
        /\ settled' = [settled EXCEPT ![s[1]] = dispatched[s[1]]]
        /\ UNCHANGED <<current, dispatched>>
    BY <1>4 DEF Hear
  <2>2. heard[s] + 1 \in 0..Deliveries
    <3>1. heard[s] \in 0..Deliveries /\ Deliveries \in Nat
      BY AttributionAssumption DEF HostInv
    <3> QED
      BY <2>1, <3>1
  <2>3. heard' \in [Step -> 0..Deliveries]
    BY <2>1, <2>2 DEF HostInv
  <2>4. \A m \in Message : dispatched[m] \in Nat
    BY DEF QueueInv
  <2>5. settled' \in [Message -> Nat] /\ \A m \in Message : settled'[m] <= dispatched[m]
    <3>1. s[1] \in Message /\ dispatched[s[1]] \in Nat
      BY <2>4 DEF Step
    <3>2. settled' \in [Message -> Nat]
      BY <2>1, <3>1 DEF HostInv
    <3>3. \A m \in Message : settled'[m] = IF m = s[1] THEN dispatched[m] ELSE settled[m]
      BY <2>1, <3>1 DEF HostInv
    <3>4. \A m \in Message : settled'[m] <= dispatched[m]
      BY <2>4, <3>3 DEF HostInv
    <3> QED
      BY <3>2, <3>4
  <2> QED
    BY <2>1, <2>3, <2>5 DEF HostInv
<1>5. ASSUME NEW q \in Queue, Run(q) \/ Close(q) \/ Crash(q) PROVE HostInv'
  BY <1>1, <1>5 DEF Run, Start, Record, Settle, Persist, Finish, Close, Crash, host
<1>6. ASSUME NEW m \in Message, Dispatch(m) PROVE HostInv'
  <2>1. dispatched' = [dispatched EXCEPT ![m] = @ + 1] /\ UNCHANGED <<current, heard, settled>>
    BY <1>6 DEF Dispatch
  <2>2. \A x \in Message : dispatched[x] \in Nat /\ settled[x] \in Nat
    BY DEF QueueInv, HostInv
  <2>3. \A x \in Message : settled[x] <= dispatched'[x]
    BY <2>1, <2>2 DEF QueueInv, HostInv
  <2> QED
    BY <2>1, <2>3 DEF HostInv
<1>7. CASE Age
  BY <1>1, <1>7 DEF Age, host
<1> QED
  BY <1>1, <1>2, <1>3, <1>4, <1>5, <1>6, <1>7 DEF Next, vars, host

-----------------------------------------------------------------------------
(* The pending rows of the steps that were dispatched.                     *)

IsCapture(work, m) == ~work.done /\ MessageOf(work) = m
IsCompletion(work, m) == work.done /\ MessageOf(work) = m

NoCompletion(tasks, m) == \A i \in DOMAIN tasks : ~IsCompletion(tasks[i], m)

(* A capture of the message waits, and no completion of it behind.         *)
CaptureIsLast(tasks, m) ==
  \E i \in DOMAIN tasks :
    /\ IsCapture(tasks[i], m)
    /\ \A j \in DOMAIN tasks : j > i => ~IsCompletion(tasks[j], m)

(* With nothing at work: the capture waits, the row is there for good, or  *)
(* something was lost and counted.                                         *)
RowIsDue(store, state, m) ==
  \/ store.truncated \/ state.failed > 0 \/ state.dropped > 0
  \/ CaptureIsLast(state.tasks, m)
  \/ NoCompletion(state.tasks, m) /\ m \in ToSet(store.pending)

(* The same while something is at work.                                    *)
RowIsSafe(store, state, m) ==
  \/ store.truncated \/ state.failed > 0 \/ state.dropped > 0
  \/ CaptureIsLast(state.tasks, m)
  \/ state.pc = "work" /\ IsCapture(state.work, m) /\ NoCompletion(state.tasks, m)
  \/ state.pc = "settle" /\ ~state.ok
  \/ /\ NoCompletion(state.tasks, m) /\ m \in ToSet(store.pending)
     /\ ~(state.pc = "work" /\ IsCompletion(state.work, m))

(* A step that was dispatched after the last completion of its message was *)
(* heard has its pending row, or will have it, or the lack is counted.     *)
PendingInv ==
  \A m \in Message : Alive(QueueOf[m]) /\ dispatched[m] > settled[m] =>
    RowIsSafe(ledger, queue[QueueOf[m]], m)

(* A queue works for the messages of its own instance.                     *)
Owns(state, q) ==
  /\ \A i \in DOMAIN state.tasks : QueueOf[MessageOf(state.tasks[i])] = q
  /\ state.pc = "work" => QueueOf[MessageOf(state.work)] = q

OwnInv == \A q \in Queue : Owns(queue[q], q)

(* What the head of the runner's loop takes is the first of its tasks.     *)
LoopedFrom(state) ==
  LET next == Looping(state) IN
  /\ next.failed = state.failed /\ next.dropped = state.dropped
  /\ \/ /\ state.tasks # <<>> /\ next.pc = "work" /\ next.work = state.tasks[1]
        /\ DOMAIN state.tasks = 1..Len(state.tasks) /\ Len(state.tasks) \in Nat \ {0}
        /\ DOMAIN next.tasks = 1..(Len(state.tasks) - 1)
        /\ \A i \in 1..(Len(state.tasks) - 1) : next.tasks[i] = state.tasks[i + 1]
     \/ next.pc = "persist" /\ next.tasks = state.tasks /\ state.tasks = <<>>

LEMMA LoopingTakes == ASSUME NEW state \in State PROVE LoopedFrom(state)
<1>1. CASE state.tasks # <<>>
  <2> DEFINE next == [state EXCEPT !.pc = "work", !.work = Head(state.tasks), !.tasks = Tail(@)]
  <2>1. /\ next.pc = "work" /\ next.work = Head(state.tasks) /\ next.tasks = Tail(state.tasks)
        /\ next.failed = state.failed /\ next.dropped = state.dropped
    BY DEF State
  <2>2. /\ state.tasks \in Seq(Work) /\ Len(state.tasks) \in Nat \ {0}
        /\ Head(state.tasks) = state.tasks[1] /\ Len(Tail(state.tasks)) = Len(state.tasks) - 1
        /\ \A i \in 1..(Len(state.tasks) - 1) : Tail(state.tasks)[i] = state.tasks[i + 1]
    BY <1>1 DEF State
  <2>3. /\ DOMAIN state.tasks = 1..Len(state.tasks)
        /\ DOMAIN Tail(state.tasks) = 1..(Len(state.tasks) - 1)
    BY <1>1, <2>2
  <2>4. Looping(state) = next
    BY <1>1 DEF Looping
  <2> HIDE DEF next
  <2> QED
    BY <1>1, <2>1, <2>2, <2>3, <2>4 DEF LoopedFrom
<1>2. CASE state.tasks = <<>>
  <2> DEFINE next == [state EXCEPT !.pc = "persist", !.work = NoWork,
                                   !.saved = [failed |-> state.failed, dropped |-> state.dropped]]
  <2>1. /\ next.pc = "persist" /\ next.tasks = state.tasks
        /\ next.failed = state.failed /\ next.dropped = state.dropped
    BY DEF State
  <2>2. Looping(state) = next
    BY <1>2 DEF Looping
  <2> HIDE DEF next
  <2> QED
    BY <1>2, <2>1, <2>2 DEF LoopedFrom
<1> QED
  BY <1>1, <1>2

LEMMA LoopingOwns ==
  ASSUME NEW state \in State, NEW q, \A i \in DOMAIN state.tasks : QueueOf[MessageOf(state.tasks[i])] = q
  PROVE  Owns(Looping(state), q)
<1> DEFINE next == Looping(state)
<1>1. LoopedFrom(state)
  BY LoopingTakes
<1>2. CASE state.tasks # <<>>
  <2>1. /\ next.pc = "work" /\ next.work = state.tasks[1]
        /\ DOMAIN state.tasks = 1..Len(state.tasks) /\ Len(state.tasks) \in Nat \ {0}
        /\ DOMAIN next.tasks = 1..(Len(state.tasks) - 1)
        /\ \A i \in 1..(Len(state.tasks) - 1) : next.tasks[i] = state.tasks[i + 1]
    BY <1>1, <1>2 DEF LoopedFrom
  <2> HIDE DEF next
  <2>2. 1 \in DOMAIN state.tasks
        /\ \A i \in 1..(Len(state.tasks) - 1) : i + 1 \in DOMAIN state.tasks
    BY <2>1
  <2>3. QueueOf[MessageOf(next.work)] = q
    BY <2>1, <2>2
  <2>4. ASSUME NEW i \in DOMAIN next.tasks PROVE QueueOf[MessageOf(next.tasks[i])] = q
    <3>1. i + 1 \in DOMAIN state.tasks /\ next.tasks[i] = state.tasks[i + 1]
      BY <2>1, <2>2
    <3> QED
      BY <3>1
  <2>5. Owns(next, q)
    BY <2>3, <2>4 DEF Owns
  <2> QED
    BY <2>5 DEF next
<1>3. CASE state.tasks = <<>>
  <2>1. next.pc = "persist" /\ next.tasks = state.tasks
    BY <1>1, <1>3 DEF LoopedFrom
  <2> QED
    BY <2>1 DEF Owns
<1> QED
  BY <1>2, <1>3

LEMMA LoopingKeepsRow ==
  ASSUME NEW state \in State, NEW store, NEW m, RowIsDue(store, state, m)
  PROVE  RowIsSafe(store, Looping(state), m)
<1> DEFINE next == Looping(state)
<1>1. LoopedFrom(state) /\ next.failed = state.failed /\ next.dropped = state.dropped
  BY LoopingTakes DEF LoopedFrom
<1> HIDE DEF next
<1>2. CASE store.truncated \/ state.failed > 0 \/ state.dropped > 0
  BY <1>1, <1>2 DEF RowIsSafe, next
<1>3. CASE state.tasks = <<>>
  <2>1. next.pc = "persist" /\ next.tasks = state.tasks
    BY <1>1, <1>3 DEF LoopedFrom, next
  <2> QED
    BY <1>2, <2>1 DEF RowIsDue, RowIsSafe, next
<1>4. CASE state.tasks # <<>>
  <2> DEFINE n == Len(state.tasks)
  <2>1. /\ next.pc = "work" /\ next.work = state.tasks[1]
        /\ DOMAIN state.tasks = 1..n /\ n \in Nat \ {0}
        /\ DOMAIN next.tasks = 1..(n - 1)
        /\ \A i \in 1..(n - 1) : next.tasks[i] = state.tasks[i + 1]
    BY <1>1, <1>4 DEF LoopedFrom, next
  <2> HIDE DEF n
  <2>2. /\ 1 \in DOMAIN state.tasks
        /\ \A i \in DOMAIN next.tasks : i + 1 \in DOMAIN state.tasks /\ i + 1 > 1
    BY <2>1
  <2>3. CASE NoCompletion(state.tasks, m) /\ m \in ToSet(store.pending)
    <3>1. NoCompletion(next.tasks, m) /\ ~IsCompletion(next.work, m)
      BY <2>1, <2>2, <2>3 DEF NoCompletion
    <3> QED
      BY <2>3, <3>1 DEF RowIsSafe, next
  <2>4. CASE CaptureIsLast(state.tasks, m)
    <3>1. PICK i \in 1..n : /\ IsCapture(state.tasks[i], m)
                            /\ \A j \in 1..n : j > i => ~IsCompletion(state.tasks[j], m)
      BY <2>1, <2>4 DEF CaptureIsLast
    <3>2. CASE i = 1
      <4>1. NoCompletion(next.tasks, m)
        BY <2>1, <2>2, <3>1, <3>2 DEF NoCompletion
      <4> QED
        BY <2>1, <3>1, <3>2, <4>1 DEF RowIsSafe, next
    <3>3. CASE i # 1
      <4>1. i - 1 \in 1..(n - 1) /\ (i - 1) + 1 = i
        BY <2>1, <3>3
      <4>2. IsCapture(next.tasks[i - 1], m)
        BY <2>1, <3>1, <4>1
      <4>3. \A j \in 1..(n - 1) : j > i - 1 => j + 1 \in 1..n /\ j + 1 > i
        BY <2>1, <3>3
      <4>4. \A j \in 1..(n - 1) : j > i - 1 => ~IsCompletion(next.tasks[j], m)
        BY <2>1, <3>1, <4>3
      <4>5. CaptureIsLast(next.tasks, m)
        BY <2>1, <4>1, <4>2, <4>4 DEF CaptureIsLast
      <4> QED
        BY <4>5 DEF RowIsSafe, next
    <3> QED
      BY <3>2, <3>3
  <2> QED
    BY <1>2, <2>3, <2>4 DEF RowIsDue
<1> QED
  BY <1>3, <1>4

(* A queue that is given work drops it and counts that, or has it last.    *)
EnqueuedTo(state, work) ==
  LET next == Enqueued(state, work) IN
  \/ /\ next.dropped = state.dropped + 1 /\ state.dropped \in Nat
     /\ next.tasks = state.tasks /\ next.pc = state.pc /\ next.work = state.work
  \/ /\ next.failed = state.failed /\ next.dropped = state.dropped
     /\ next.work = state.work /\ next.ok = state.ok
     /\ next.pc = (IF state.pc = "idle" THEN "start" ELSE state.pc)
     /\ Len(state.tasks) \in Nat /\ DOMAIN state.tasks = 1..Len(state.tasks)
     /\ DOMAIN next.tasks = 1..(Len(state.tasks) + 1)
     /\ next.tasks[Len(state.tasks) + 1] = work
     /\ \A i \in 1..Len(state.tasks) : next.tasks[i] = state.tasks[i]

LEMMA EnqueuedAppends == ASSUME NEW state \in State, NEW work \in Work PROVE EnqueuedTo(state, work)
<1>1. CASE state.closed \/ state.pendingCount >= Limit
  <2> DEFINE next == [state EXCEPT !.dropped = @ + 1]
  <2>1. /\ next.dropped = state.dropped + 1 /\ state.dropped \in Nat
        /\ next.tasks = state.tasks /\ next.pc = state.pc /\ next.work = state.work
    BY DEF State
  <2>2. Enqueued(state, work) = next
    BY <1>1 DEF Enqueued
  <2> HIDE DEF next
  <2> QED
    BY <2>1, <2>2 DEF EnqueuedTo
<1>2. CASE ~(state.closed \/ state.pendingCount >= Limit)
  <2> DEFINE next == [state EXCEPT !.tasks = Append(@, work), !.pendingCount = @ + 1,
                                   !.pc = IF @ = "idle" THEN "start" ELSE @]
  <2>1. /\ next.tasks = Append(state.tasks, work) /\ next.failed = state.failed
        /\ next.dropped = state.dropped /\ next.work = state.work /\ next.ok = state.ok
        /\ next.pc = IF state.pc = "idle" THEN "start" ELSE state.pc
    BY DEF State
  <2>2. /\ Len(state.tasks) \in Nat /\ DOMAIN state.tasks = 1..Len(state.tasks)
        /\ DOMAIN Append(state.tasks, work) = 1..(Len(state.tasks) + 1)
        /\ Append(state.tasks, work)[Len(state.tasks) + 1] = work
        /\ \A i \in 1..Len(state.tasks) : Append(state.tasks, work)[i] = state.tasks[i]
    BY DEF State
  <2>3. Enqueued(state, work) = next
    BY <1>2 DEF Enqueued
  <2> HIDE DEF next
  <2> QED
    BY <2>1, <2>2, <2>3 DEF EnqueuedTo
<1> QED
  BY <1>1, <1>2

LEMMA EnqueuedOwns ==
  ASSUME NEW state \in State, NEW work \in Work, NEW q, Owns(state, q),
         QueueOf[MessageOf(work)] = q
  PROVE  Owns(Enqueued(state, work), q)
<1> DEFINE next == Enqueued(state, work)
           n == Len(state.tasks)
<1>1. EnqueuedTo(state, work)
  BY EnqueuedAppends
<1> HIDE DEF next
<1>2. CASE next.tasks = state.tasks /\ next.pc = state.pc /\ next.work = state.work
  BY <1>2 DEF Owns, next
<1>3. CASE /\ next.work = state.work
           /\ next.pc = (IF state.pc = "idle" THEN "start" ELSE state.pc)
           /\ n \in Nat /\ DOMAIN state.tasks = 1..n /\ DOMAIN next.tasks = 1..(n + 1)
           /\ next.tasks[n + 1] = work /\ \A i \in 1..n : next.tasks[i] = state.tasks[i]
  <2> HIDE DEF n
  <2>1. \A i \in 1..(n + 1) : i \in 1..n \/ i = n + 1
    BY <1>3
  <2>2. \A i \in DOMAIN next.tasks : QueueOf[MessageOf(next.tasks[i])] = q
    BY <1>3, <2>1 DEF Owns
  <2>3. next.pc = "work" => state.pc = "work"
    BY <1>3
  <2> QED
    BY <1>3, <2>2, <2>3 DEF Owns, next
<1> QED
  BY <1>1, <1>2, <1>3 DEF EnqueuedTo, next

LEMMA EnqueuedKeepsRow ==
  ASSUME NEW state \in State, NEW work \in Work, NEW store, NEW m,
         \/ IsCapture(work, m)
         \/ RowIsSafe(store, state, m) /\ ~IsCompletion(work, m)
  PROVE  RowIsSafe(store, Enqueued(state, work), m)
<1> DEFINE next == Enqueued(state, work)
           n == Len(state.tasks)
<1>1. EnqueuedTo(state, work)
  BY EnqueuedAppends
<1> HIDE DEF next
<1>2. CASE next.dropped = state.dropped + 1 /\ state.dropped \in Nat
  <2>1. next.dropped > 0
    BY <1>2
  <2> QED
    BY <2>1 DEF RowIsSafe, next
<1>3. CASE /\ next.failed = state.failed /\ next.dropped = state.dropped
           /\ next.work = state.work /\ next.ok = state.ok
           /\ next.pc = (IF state.pc = "idle" THEN "start" ELSE state.pc)
           /\ n \in Nat /\ DOMAIN state.tasks = 1..n /\ DOMAIN next.tasks = 1..(n + 1)
           /\ next.tasks[n + 1] = work /\ \A i \in 1..n : next.tasks[i] = state.tasks[i]
  <2> HIDE DEF n
  <2>1. /\ \A i \in 1..(n + 1) : i \in 1..n \/ i = n + 1
        /\ \A i \in 1..(n + 1) : ~(i > n + 1)
        /\ n + 1 \in 1..(n + 1) /\ \A i \in 1..n : i \in 1..(n + 1)
    BY <1>3
  <2>2. CASE IsCapture(work, m)
    <3>1. CaptureIsLast(next.tasks, m)
      BY <1>3, <2>1, <2>2 DEF CaptureIsLast
    <3> QED
      BY <3>1 DEF RowIsSafe, next
  <2>3. CASE RowIsSafe(store, state, m) /\ ~IsCompletion(work, m)
    <3>1. NoCompletion(state.tasks, m) => NoCompletion(next.tasks, m)
      BY <1>3, <2>1, <2>3 DEF NoCompletion
    <3>2. CaptureIsLast(state.tasks, m) => CaptureIsLast(next.tasks, m)
      <4> SUFFICES ASSUME NEW i \in 1..n, IsCapture(state.tasks[i], m),
                          \A j \in 1..n : j > i => ~IsCompletion(state.tasks[j], m)
                   PROVE  CaptureIsLast(next.tasks, m)
        BY <1>3 DEF CaptureIsLast
      <4>1. IsCapture(next.tasks[i], m) /\ i \in 1..(n + 1)
        BY <1>3, <2>1
      <4>2. \A j \in 1..(n + 1) : j > i => ~IsCompletion(next.tasks[j], m)
        BY <1>3, <2>1, <2>3
      <4> QED
        BY <1>3, <4>1, <4>2 DEF CaptureIsLast
    <3>3. /\ state.pc = "work" <=> next.pc = "work"
          /\ state.pc = "settle" => next.pc = "settle"
      BY <1>3
    <3> QED
      BY <1>3, <2>3, <3>1, <3>2, <3>3 DEF RowIsSafe, next
  <2> QED
    BY <2>2, <2>3
<1> QED
  BY <1>1, <1>2, <1>3 DEF EnqueuedTo, next

(* What recording a work leaves of the pending rows.                       *)
LEMMA RecordedRows ==
  ASSUME NEW store, Sound(store), NEW work \in Work
  PROVE  LET after == Pruned(Upserted(Pruned(store), work)) IN
         after.truncated
           \/ /\ \A m \in ToSet(store.pending) :
                   m \in ToSet(after.pending) \/ IsCompletion(work, m)
              /\ ~work.done => MessageOf(work) \in ToSet(after.pending)
<1> DEFINE young == Pruned(store)
           full == Upserted(young, work)
           after == Pruned(full)
<1>1. Sound(young) /\ (~young.truncated => ToSet(young.pending) = ToSet(store.pending))
  BY PrunedSound DEF PrunedHolds
<1> HIDE DEF young
<1>2. UpsertedHolds(young, work)
  BY <1>1, UpsertedSound
<1>3. /\ Sound(full) /\ full.truncated = young.truncated
      /\ \A m \in ToSet(young.pending) : m \in ToSet(full.pending) \/ IsCompletion(work, m)
      /\ ~work.done => MessageOf(work) \in ToSet(full.pending)
  BY <1>2 DEF UpsertedHolds, IsCompletion
<1> HIDE DEF full
<1>4. PrunedHolds(full)
  BY <1>3, PrunedSound
<1>5. /\ full.truncated => after.truncated
      /\ ~after.truncated => ToSet(after.pending) = ToSet(full.pending)
  BY <1>4 DEF PrunedHolds
<1> HIDE DEF after
<1>6. after.truncated
        \/ /\ \A m \in ToSet(store.pending) : m \in ToSet(after.pending) \/ IsCompletion(work, m)
           /\ ~work.done => MessageOf(work) \in ToSet(after.pending)
  BY <1>1, <1>3, <1>5
<1> QED
  BY <1>6 DEF after, full, young

(* The row of a message is there afterwards if it was, or rows are missing *)
(* and the ledger says so.                                                 *)
RowStays(m) ==
  ledger'.truncated \/ (m \in ToSet(ledger.pending) => m \in ToSet(ledger'.pending))

LEMMA RowStaysSafe ==
  ASSUME Remembered, NEW m, RowStays(m), NEW state, RowIsSafe(ledger, state, m)
  PROVE  RowIsSafe(ledger', state, m)
BY DEF Remembered, RowStays, RowIsSafe

(* A step of one queue that keeps the rows of its own messages safe and    *)
(* those of the others where they are.                                     *)
LEMMA PendingByOne ==
  ASSUME QueueInv, PendingInv, Remembered, NEW q \in Queue, NEW state, Become(q, state),
         UNCHANGED <<dispatched, settled>>, state.pc # "dead" => Alive(q),
         \A m \in Message : QueueOf[m] # q => RowStays(m),
         \A m \in Message : QueueOf[m] = q /\ state.pc # "dead" /\ RowIsSafe(ledger, queue[q], m)
                              => RowIsSafe(ledger', state, m)
  PROVE  PendingInv'
<1>1. queue'[q] = state /\ \A r \in Queue \ {q} : queue'[r] = queue[r]
  BY DEF Become, QueueInv
<1> SUFFICES ASSUME NEW m \in Message, Alive(QueueOf[m])', dispatched[m] > settled[m]
             PROVE  RowIsSafe(ledger', queue'[QueueOf[m]], m)
  BY DEF PendingInv, RowIsSafe
<1> DEFINE r == QueueOf[m]
<1>2. r \in Queue
  BY AttributionAssumption
<1>3. CASE r # q
  <2>1. queue'[r] = queue[r] /\ Alive(r)
    BY <1>1, <1>2, <1>3 DEF Alive
  <2>2. RowIsSafe(ledger, queue[r], m) /\ RowStays(m)
    BY <1>3, <2>1 DEF PendingInv
  <2> QED
    BY <2>1, <2>2, RowStaysSafe
<1>4. CASE r = q
  <2>1. queue'[r] = state /\ state.pc # "dead" /\ Alive(r)
    BY <1>1, <1>4 DEF Alive
  <2>2. RowIsSafe(ledger, queue[q], m)
    BY <1>4, <2>1 DEF PendingInv
  <2> QED
    BY <1>4, <2>1, <2>2
<1> QED
  BY <1>3, <1>4

(* The queues stay as they are, and so do the pending rows.                *)
LEMMA PendingBySame ==
  ASSUME PendingInv, Remembered, UNCHANGED <<queue, dispatched, settled>>,
         \A m \in Message : RowStays(m)
  PROVE  PendingInv'
<1> SUFFICES ASSUME NEW m \in Message, Alive(QueueOf[m])', dispatched[m] > settled[m]
             PROVE  RowIsSafe(ledger', queue'[QueueOf[m]], m)
  BY DEF PendingInv, RowIsSafe
<1>1. Alive(QueueOf[m]) /\ queue'[QueueOf[m]] = queue[QueueOf[m]]
  BY DEF Alive
<1>2. RowIsSafe(ledger, queue[QueueOf[m]], m)
  BY <1>1 DEF PendingInv
<1> QED
  BY <1>1, <1>2, RowStaysSafe

LEMMA OwnByOne ==
  ASSUME QueueInv, OwnInv, NEW q \in Queue, NEW state, Become(q, state), Owns(state, q)
  PROVE  OwnInv'
<1>1. queue'[q] = state /\ \A r \in Queue \ {q} : queue'[r] = queue[r]
  BY DEF Become, QueueInv
<1> SUFFICES ASSUME NEW r \in Queue PROVE Owns(queue'[r], r)
  BY DEF OwnInv, Owns
<1> QED
  BY <1>1 DEF OwnInv

LEMMA StartRows ==
  ASSUME QueueInv, OwnInv, PendingInv, Remembered, NEW q \in Queue, Start(q)
  PROVE  OwnInv' /\ PendingInv'
<1> DEFINE state == queue[q]
           next == Looping(state)
<1>1. /\ state \in State /\ Owns(state, q) /\ state.pc = "start" /\ Become(q, next)
      /\ UNCHANGED <<dispatched, settled, ledger>>
  BY DEF QueueInv, OwnInv, Start, host
<1>2. Owns(next, q)
  BY <1>1, LoopingOwns DEF Owns
<1>3. ASSUME NEW m \in Message, RowIsSafe(ledger, state, m) PROVE RowIsSafe(ledger, next, m)
  <2>1. RowIsDue(ledger, state, m)
    BY <1>1, <1>3 DEF RowIsSafe, RowIsDue
  <2> QED
    BY <1>1, <2>1, LoopingKeepsRow
<1>4. \A m \in Message : RowStays(m)
  BY <1>1 DEF RowStays
<1> HIDE DEF next
<1>5. OwnInv'
  BY <1>1, <1>2, OwnByOne
<1>6. PendingInv'
  BY <1>1, <1>3, <1>4, PendingByOne DEF Alive
<1> QED
  BY <1>5, <1>6

LEMMA RecordRows ==
  ASSUME QueueInv, BooksInv, OwnInv, PendingInv, Remembered, NEW q \in Queue, Record(q)
  PROVE  OwnInv' /\ PendingInv'
<1> DEFINE state == queue[q]
           work == state.work
           after == Pruned(Upserted(Pruned(ledger), work))
<1>1. PICK done \in BOOLEAN, ok \in BOOLEAN :
        /\ state.pc = "work" /\ Become(q, [state EXCEPT !.pc = "settle", !.ok = ok])
        /\ ok => done
        /\ ledger' = IF done THEN after ELSE ledger
  BY DEF Record, Outcome
<1> DEFINE next == [state EXCEPT !.pc = "settle", !.ok = ok]
<1>2. state \in State /\ Owns(state, q) /\ work \in Work /\ UNCHANGED <<dispatched, settled>>
  BY <1>1 DEF QueueInv, OwnInv, Consistent, Record, host
<1>3. /\ next.pc = "settle" /\ next.ok = ok /\ next.tasks = state.tasks
      /\ next.failed = state.failed /\ next.dropped = state.dropped
  BY <1>2 DEF State
<1>4. Become(q, next) /\ Alive(q)
  BY <1>1 DEF Alive
<1> HIDE DEF next
<1>5. after.truncated
        \/ /\ \A m \in ToSet(ledger.pending) : m \in ToSet(after.pending) \/ IsCompletion(work, m)
           /\ ~work.done => MessageOf(work) \in ToSet(after.pending)
  <2> HIDE DEF after, work
  <2> QED
    BY <1>2, RecordedRows DEF BooksInv, after
<1> HIDE DEF after
<1>6. \A m \in Message : RowStays(m) \/ IsCompletion(work, m)
  BY <1>1, <1>5 DEF RowStays
<1>7. \A m \in Message : QueueOf[m] # q => RowStays(m)
  BY <1>1, <1>2, <1>6 DEF Owns, IsCompletion
<1>8. ASSUME NEW m \in Message, RowIsSafe(ledger, state, m) PROVE RowIsSafe(ledger', next, m)
  <2>1. CASE ledger.truncated
    BY <2>1 DEF Remembered, RowIsSafe
  <2>2. CASE state.failed > 0 \/ state.dropped > 0 \/ CaptureIsLast(state.tasks, m)
    BY <1>3, <2>2 DEF RowIsSafe
  <2>3. CASE IsCapture(work, m) /\ NoCompletion(state.tasks, m)
    <3>1. CASE ~ok
      BY <1>3, <3>1 DEF RowIsSafe
    <3>2. CASE ok
      <4>1. ledger' = after
        BY <1>1, <3>2
      <4>2. after.truncated \/ m \in ToSet(after.pending)
        BY <1>5, <2>3 DEF IsCapture
      <4> QED
        BY <1>3, <2>3, <4>1, <4>2 DEF RowIsSafe
    <3> QED
      BY <3>1, <3>2
  <2>4. CASE /\ NoCompletion(state.tasks, m) /\ m \in ToSet(ledger.pending)
             /\ ~IsCompletion(work, m)
    <3>1. ledger'.truncated \/ m \in ToSet(ledger'.pending)
      BY <1>6, <2>4 DEF RowStays
    <3> QED
      BY <1>3, <2>4, <3>1 DEF RowIsSafe
  <2> QED
    BY <1>1, <1>8, <2>1, <2>2, <2>3, <2>4 DEF RowIsSafe
<1>9. Owns(next, q)
  BY <1>2, <1>3 DEF Owns
<1>10. OwnInv'
  BY <1>4, <1>9, OwnByOne
<1>11. PendingInv'
  BY <1>2, <1>4, <1>7, <1>8, PendingByOne
<1> QED
  BY <1>10, <1>11

LEMMA SettleRows ==
  ASSUME QueueInv, OwnInv, PendingInv, Remembered, NEW q \in Queue, Settle(q)
  PROVE  OwnInv' /\ PendingInv'
<1> DEFINE state == queue[q]
           failed == IF state.ok THEN state.failed ELSE state.failed + 1
           left == state.pendingCount - 1
           before == [state EXCEPT !.pendingCount = left, !.ok = TRUE, !.failed = failed]
           next == Looping(before)
<1>1. /\ state \in State /\ Owns(state, q) /\ state.pc = "settle"
      /\ Consistent(state, ledger.sessions[q]) /\ UNCHANGED <<dispatched, settled, ledger>>
  BY DEF QueueInv, OwnInv, Settle, host
<1>2. Become(q, next)
  <2>1. before = [state EXCEPT !.pendingCount = @ - 1, !.ok = TRUE,
                               !.failed = IF state.ok THEN @ ELSE @ + 1]
    BY <1>1 DEF State
  <2> QED
    BY <2>1 DEF Settle
<1>3. /\ failed \in Nat /\ (~state.ok => failed > 0) /\ (state.failed > 0 => failed > 0)
  BY <1>1 DEF State
<1>4. left \in Nat
  BY <1>1 DEF Consistent, State
<1> HIDE DEF failed, left
<1>5. /\ before \in State /\ before.tasks = state.tasks /\ before.failed = failed
      /\ before.dropped = state.dropped
  BY <1>1, <1>3, <1>4 DEF State
<1> HIDE DEF before
<1>6. Owns(next, q)
  BY <1>1, <1>5, LoopingOwns DEF Owns
<1>7. ASSUME NEW m \in Message, RowIsSafe(ledger, state, m) PROVE RowIsSafe(ledger, next, m)
  <2>1. RowIsDue(ledger, before, m)
    BY <1>1, <1>3, <1>5, <1>7 DEF RowIsSafe, RowIsDue
  <2> QED
    BY <1>5, <2>1, LoopingKeepsRow
<1>8. \A m \in Message : RowStays(m)
  BY <1>1 DEF RowStays
<1> HIDE DEF next
<1>9. OwnInv'
  BY <1>2, <1>6, OwnByOne
<1>10. PendingInv'
  BY <1>1, <1>2, <1>7, <1>8, PendingByOne DEF Alive
<1> QED
  BY <1>9, <1>10

(* A step that leaves a queue its tasks.                                   *)
LEMMA SameTasksRows ==
  ASSUME QueueInv, OwnInv, PendingInv, Remembered, NEW q \in Queue, NEW next, Become(q, next),
         UNCHANGED <<dispatched, settled>>, \A m \in Message : RowStays(m), Alive(q),
         next.tasks = queue[q].tasks, next.work = queue[q].work \/ next.pc # "work",
         next.failed >= queue[q].failed, next.dropped = queue[q].dropped,
         next.failed \in Nat, queue[q].failed \in Nat,
         \/ next.pc = queue[q].pc /\ next.ok = queue[q].ok
         \/ queue[q].pc \notin {"work", "settle"} /\ next.pc # "work"
  PROVE  OwnInv' /\ PendingInv'
<1>1. Owns(next, q)
  BY DEF OwnInv, Owns
<1>2. queue[q].failed > 0 => next.failed > 0
  OBVIOUS
<1>3. ASSUME NEW m \in Message, RowIsSafe(ledger, queue[q], m)
      PROVE  RowIsSafe(ledger, next, m)
  BY <1>2, <1>3 DEF RowIsSafe
<1>4. ASSUME NEW m \in Message, RowIsSafe(ledger, queue[q], m)
      PROVE  RowIsSafe(ledger', next, m)
  BY <1>3, <1>4, RowStaysSafe
<1>5. OwnInv'
  BY <1>1, OwnByOne
<1>6. PendingInv'
  BY <1>4, PendingByOne
<1> QED
  BY <1>5, <1>6

LEMMA PersistRows ==
  ASSUME QueueInv, BooksInv, OwnInv, PendingInv, Remembered, NEW q \in Queue, Persist(q)
  PROVE  OwnInv' /\ PendingInv'
<1> DEFINE state == queue[q]
           store == Pruned(ledger)
           saved == state.saved
<1>1. PICK done \in BOOLEAN, ok \in BOOLEAN :
        /\ state.pc = "persist" /\ Become(q, [state EXCEPT !.pc = "ended", !.ok = ok])
        /\ ledger' = IF ~done THEN ledger
                     ELSE [store EXCEPT
                            !.failed = @ + More(store.sessions[q].failed, saved.failed),
                            !.dropped = @ + More(store.sessions[q].dropped, saved.dropped),
                            !.truncated = @ \/ saved.dropped > 0,
                            !.sessions[q] = saved]
  BY DEF Persist
<1> DEFINE next == [state EXCEPT !.pc = "ended", !.ok = ok]
<1>2. state \in State /\ UNCHANGED <<dispatched, settled>>
  BY DEF QueueInv, Persist, host
<1>3. /\ next.pc = "ended" /\ next.tasks = state.tasks /\ next.work = state.work
      /\ next.failed = state.failed /\ next.dropped = state.dropped /\ state.failed \in Nat
  BY <1>2 DEF State
<1>4. /\ store \in Book
      /\ ~store.truncated => ToSet(store.pending) = ToSet(ledger.pending)
  BY PrunedSound DEF BooksInv, PrunedHolds, Sound
<1> HIDE DEF store
<1>5. done => ledger'.pending = store.pending /\ (store.truncated => ledger'.truncated)
  BY <1>1, <1>4 DEF Book
<1>6. \A m \in Message : RowStays(m)
  BY <1>1, <1>4, <1>5 DEF RowStays
<1>7. Become(q, next) /\ Alive(q)
  BY <1>1 DEF Alive
<1> HIDE DEF next
<1>8. next.failed >= state.failed
  BY <1>3
<1> QED
  BY <1>1, <1>2, <1>3, <1>6, <1>7, <1>8, SameTasksRows

LEMMA FinishRows ==
  ASSUME QueueInv, OwnInv, PendingInv, Remembered, NEW q \in Queue, Finish(q)
  PROVE  OwnInv' /\ PendingInv'
<1> DEFINE state == queue[q]
           next == [state EXCEPT !.failed = IF state.ok THEN @ ELSE @ + 1,
                                 !.ok = TRUE, !.saved = Zero,
                                 !.pc = IF state.tasks = <<>> THEN "idle" ELSE "start"]
<1>1. /\ state \in State /\ state.failed \in Nat /\ state.pc = "ended" /\ Become(q, next)
      /\ UNCHANGED <<dispatched, settled, ledger>>
  BY DEF QueueInv, Finish, host, State
<1>2. /\ next.tasks = state.tasks /\ next.dropped = state.dropped /\ next.work = state.work
      /\ next.failed = (IF state.ok THEN state.failed ELSE state.failed + 1)
      /\ next.pc = (IF state.tasks = <<>> THEN "idle" ELSE "start")
  BY <1>1 DEF State
<1> HIDE DEF next
<1>3. next.failed \in Nat /\ next.failed >= state.failed /\ next.pc # "work"
  BY <1>1, <1>2
<1>4. \A m \in Message : RowStays(m)
  BY <1>1 DEF RowStays
<1> QED
  BY <1>1, <1>2, <1>3, <1>4, SameTasksRows DEF Alive

(* Work of the instance's own message: a capture of it, or work that is    *)
(* not a completion of a message that has more steps than were settled.    *)
LEMMA EnqueueRows ==
  ASSUME QueueInv, OwnInv, PendingInv, Remembered, UNCHANGED ledger,
         NEW q \in Queue, Alive(q), NEW work \in Work, QueueOf[MessageOf(work)] = q,
         Become(q, Enqueued(queue[q], work)),
         \A m \in Message : dispatched'[m] > settled'[m] =>
           \/ IsCapture(work, m)
           \/ dispatched[m] > settled[m] /\ ~IsCompletion(work, m)
  PROVE  OwnInv' /\ PendingInv'
<1> DEFINE next == Enqueued(queue[q], work)
<1>1. queue[q] \in State /\ Owns(queue[q], q)
  BY DEF QueueInv, OwnInv
<1>2. Owns(next, q)
  BY <1>1, EnqueuedOwns
<1>3. \A m \in Message : /\ IsCapture(work, m) => RowIsSafe(ledger, next, m)
                         /\ RowIsSafe(ledger, queue[q], m) /\ ~IsCompletion(work, m)
                              => RowIsSafe(ledger, next, m)
  BY <1>1, EnqueuedKeepsRow
<1> HIDE DEF next
<1>4. Become(q, next)
  BY DEF next
<1>5. queue'[q] = next /\ \A r \in Queue \ {q} : queue'[r] = queue[r]
  BY <1>4 DEF Become, QueueInv
<1>6. OwnInv'
  BY <1>2, <1>4, OwnByOne
<1>7. PendingInv'
  <2> SUFFICES ASSUME NEW m \in Message, Alive(QueueOf[m])', dispatched'[m] > settled'[m]
               PROVE  RowIsSafe(ledger, queue'[QueueOf[m]], m)
    BY DEF PendingInv, RowIsSafe
  <2>1. QueueOf[m] \in Queue
    BY AttributionAssumption
  <2>2. CASE QueueOf[m] # q
    <3>1. queue'[QueueOf[m]] = queue[QueueOf[m]] /\ Alive(QueueOf[m])
      BY <1>5, <2>1, <2>2 DEF Alive
    <3>2. dispatched[m] > settled[m]
      BY <2>2 DEF IsCapture
    <3> QED
      BY <3>1, <3>2 DEF PendingInv
  <2>3. CASE QueueOf[m] = q
    BY <1>3, <1>5, <2>3 DEF PendingInv
  <2> QED
    BY <2>2, <2>3
<1> QED
  BY <1>6, <1>7

LEMMA DispatchRows ==
  ASSUME QueueInv, HostInv, OwnInv, PendingInv, Remembered, NEW m \in Message, Dispatch(m)
  PROVE  OwnInv' /\ PendingInv'
<1> DEFINE work == [step |-> <<m, dispatched'[m]>>, done |-> FALSE]
<1>1. /\ Alive(QueueOf[m]) /\ QueueOf[m] \in Queue /\ UNCHANGED <<settled, ledger>>
      /\ dispatched' = [dispatched EXCEPT ![m] = @ + 1] /\ dispatched[m] < MaxStep[m]
      /\ Become(QueueOf[m], Enqueued(queue[QueueOf[m]], work))
  BY AttributionAssumption DEF Dispatch
<1>2. dispatched'[m] \in 1..MaxStep[m]
  <2>1. dispatched[m] \in Nat /\ MaxStep[m] \in Nat /\ dispatched'[m] = dispatched[m] + 1
    BY <1>1, AttributionAssumption DEF QueueInv
  <2> QED
    BY <1>1, <2>1
<1>3. work \in Work /\ MessageOf(work) = m /\ ~work.done
  BY <1>2 DEF Work, Step, MessageOf
<1>4. \A x \in Message : dispatched'[x] = dispatched[x] \/ x = m
  BY <1>1 DEF QueueInv
<1> HIDE DEF work
<1>5. \A x \in Message : dispatched'[x] > settled'[x] =>
        \/ IsCapture(work, x)
        \/ dispatched[x] > settled[x] /\ ~IsCompletion(work, x)
  BY <1>1, <1>3, <1>4 DEF IsCapture, IsCompletion
<1> QED
  BY <1>1, <1>3, <1>5, EnqueueRows

LEMMA HearRows ==
  ASSUME QueueInv, HostInv, OwnInv, PendingInv, Remembered, NEW s \in Step, Hear(s)
  PROVE  OwnInv' /\ PendingInv'
<1> DEFINE work == [step |-> s, done |-> TRUE]
           m == s[1]
<1>1. /\ Alive(QueueOf[m]) /\ UNCHANGED <<dispatched, ledger>>
      /\ settled' = [settled EXCEPT ![m] = dispatched[m]]
      /\ Become(QueueOf[m], Enqueued(queue[QueueOf[m]], work))
  BY DEF Hear
<1>2. m \in Message /\ QueueOf[m] \in Queue
  BY AttributionAssumption DEF Step
<1>3. work \in Work /\ MessageOf(work) = m
  BY DEF Work, MessageOf
<1>4. settled'[m] = dispatched[m] /\ dispatched[m] \in Nat
      /\ \A x \in Message : settled'[x] = settled[x] \/ x = m
  BY <1>1, <1>2 DEF HostInv, QueueInv
<1> HIDE DEF work, m
<1>5. ~(dispatched'[m] > settled'[m])
  BY <1>1, <1>4
<1>6. \A x \in Message : dispatched'[x] > settled'[x] =>
        \/ IsCapture(work, x)
        \/ dispatched[x] > settled[x] /\ ~IsCompletion(work, x)
  BY <1>1, <1>3, <1>4, <1>5 DEF IsCompletion
<1> QED
  BY <1>1, <1>2, <1>3, <1>6, EnqueueRows

LEMMA RowsStep ==
  /\ QueueInv /\ BooksInv /\ HostInv /\ OwnInv /\ PendingInv /\ [Next]_vars
  => OwnInv' /\ PendingInv'
<1> SUFFICES ASSUME QueueInv, BooksInv, HostInv, OwnInv, PendingInv, [Next]_vars
             PROVE  OwnInv' /\ PendingInv'
  OBVIOUS
<1>1. Remembered
  BY BooksStep
<1>2. ASSUME UNCHANGED <<queue, dispatched, settled>>, UNCHANGED ledger
      PROVE  OwnInv' /\ PendingInv'
  <2>1. \A m \in Message : RowStays(m)
    BY <1>2 DEF RowStays
  <2>2. OwnInv'
    BY <1>2 DEF OwnInv, Owns
  <2> QED
    BY <1>1, <1>2, <2>1, <2>2, PendingBySame
<1>3. CASE UNCHANGED vars
  BY <1>2, <1>3 DEF vars, host
<1>4. ASSUME NEW q \in Queue, Run(q) PROVE OwnInv' /\ PendingInv'
  BY <1>1, <1>4, StartRows, RecordRows, SettleRows, PersistRows, FinishRows DEF Run
<1>5. ASSUME NEW q \in Queue, Close(q) PROVE OwnInv' /\ PendingInv'
  <2> DEFINE next == [queue[q] EXCEPT !.closed = TRUE]
  <2>1. /\ next.pc = queue[q].pc /\ next.tasks = queue[q].tasks /\ next.work = queue[q].work
        /\ next.failed = queue[q].failed /\ next.dropped = queue[q].dropped
        /\ next.ok = queue[q].ok /\ queue[q].failed \in Nat
    BY DEF QueueInv, State
  <2>2. Become(q, next) /\ UNCHANGED <<dispatched, settled, ledger>> /\ Alive(q)
    BY <1>5 DEF Close, host
  <2> HIDE DEF next
  <2>3. \A m \in Message : RowStays(m)
    BY <2>2 DEF RowStays
  <2>4. next.failed >= queue[q].failed
    BY <2>1
  <2> QED
    BY <1>1, <2>1, <2>2, <2>3, <2>4, SameTasksRows
<1>6. ASSUME NEW q \in Queue, Crash(q) PROVE OwnInv' /\ PendingInv'
  <2> DEFINE next == [NewQueue EXCEPT !.pc = "dead"]
  <2>1. /\ Become(q, next) /\ UNCHANGED <<dispatched, settled, ledger>>
        /\ next.pc = "dead" /\ next.tasks = <<>>
    BY <1>6 DEF Crash, host, NewQueue
  <2> HIDE DEF next
  <2>2. Owns(next, q)
    BY <2>1 DEF Owns
  <2>3. \A m \in Message : RowStays(m)
    BY <2>1 DEF RowStays
  <2>4. OwnInv'
    BY <2>1, <2>2, OwnByOne
  <2>5. PendingInv'
    BY <1>1, <2>1, <2>3, PendingByOne
  <2> QED
    BY <2>4, <2>5
<1>7. ASSUME NEW m \in Message, Route(m) PROVE OwnInv' /\ PendingInv'
  BY <1>2, <1>7 DEF Route
<1>8. ASSUME NEW q \in Queue, Leave(q) PROVE OwnInv' /\ PendingInv'
  BY <1>2, <1>8 DEF Leave
<1>9. CASE Age
  <2>1. UNCHANGED <<queue, dispatched, settled>>
    BY <1>9 DEF Age, host
  <2>2. ledger'.pending = ledger.pending
    BY <1>9 DEF Age, BooksInv, Sound, Book
  <2>3. \A m \in Message : RowStays(m)
    BY <2>2 DEF RowStays
  <2>4. OwnInv'
    BY <2>1 DEF OwnInv, Owns
  <2> QED
    BY <1>1, <2>1, <2>3, <2>4, PendingBySame
<1> QED
  BY <1>1, <1>3, <1>4, <1>5, <1>6, <1>7, <1>8, <1>9, DispatchRows, HearRows DEF Next

AttributionInv ==
  QueueInv /\ BooksInv /\ HostInv /\ HeardInv /\ OwnInv /\ PendingInv

LEMMA AttributionInvariant == Spec => []AttributionInv
<1>1. Init => AttributionInv
  <2> SUFFICES ASSUME Init PROVE HostInv /\ HeardInv /\ OwnInv /\ PendingInv
    BY QueueInit, BooksInit DEF AttributionInv
  <2>1. Deliveries \in Nat /\ 0 \in 0..Deliveries
    BY AttributionAssumption
  <2>2. HostInv /\ HeardInv
    BY <2>1 DEF Init, HostInv, HeardInv, Heard
  <2>3. \A q \in Queue : queue[q].tasks = <<>> /\ queue[q].pc = "idle"
    BY DEF Init, NewQueue
  <2>4. OwnInv
    BY <2>3 DEF OwnInv, Owns
  <2>5. PendingInv
    BY DEF Init, PendingInv
  <2> QED
    BY <2>2, <2>4, <2>5
<1>2. AttributionInv /\ [Next]_vars => AttributionInv'
  BY QueueInvStep, BooksStep, HostStep, HeardStep, RowsStep DEF AttributionInv
<1> QED
  BY <1>1, <1>2, PTL DEF Spec

-----------------------------------------------------------------------------
(* What a reader is told.                                                  *)

LEMMA AliveSaved ==
  ASSUME AttributionInv, NEW q \in Queue, Alive(q)
  PROVE  /\ ledger.sessions[q].failed \in Nat /\ queue[q].failed \in Nat
         /\ ledger.sessions[q].dropped \in Nat /\ queue[q].dropped \in Nat
         /\ More(ledger.sessions[q].failed, queue[q].failed)
              = queue[q].failed - ledger.sessions[q].failed
         /\ More(ledger.sessions[q].dropped, queue[q].dropped)
              = queue[q].dropped - ledger.sessions[q].dropped
         /\ ledger.sessions[q].failed <= queue[q].failed
         /\ ledger.sessions[q].dropped <= queue[q].dropped
<1>1. /\ queue[q] \in State /\ Consistent(queue[q], ledger.sessions[q])
      /\ ledger.sessions[q] \in Counts
  BY DEF AttributionInv, QueueInv, Shaped
<1>2. /\ ledger.sessions[q].failed \in Nat /\ queue[q].failed \in Nat
      /\ ledger.sessions[q].dropped \in Nat /\ queue[q].dropped \in Nat
  BY <1>1 DEF State, Counts
<1>3. /\ ledger.sessions[q].failed <= queue[q].failed
      /\ ledger.sessions[q].dropped <= queue[q].dropped
  BY <1>1 DEF Consistent, Alive
<1> QED
  BY <1>2, <1>3, MoreFacts

LEMMA OwedRows ==
  ASSUME AttributionInv
  PROVE  /\ owed = Len(ledger.observations) + Len(ledger.pending)
                     + ledger.dropped - SavedDrops(ledger)
         /\ owed \in Nat
<1> DEFINE a == Len(ledger.observations)
           b == Len(ledger.pending)
           c == ledger.dropped
           d == SavedDrops(ledger)
<1>1. Sound(ledger) /\ owed = Rows(ledger) - SavedDrops(ledger)
  BY DEF AttributionInv, BooksInv
<1>2. ledger \in Book
  BY <1>1 DEF Sound
<1>3. a \in Nat /\ b \in Nat /\ c \in Nat
  BY <1>2 DEF Book
<1>4. d \in Nat /\ d <= c
  BY <1>1, <1>2, SavedTypes DEF Sound
<1>5. owed = (a + b + c) - d
  BY <1>1 DEF Rows
<1> HIDE DEF a, b, c, d
<1>6. owed = a + b + c - d /\ owed \in Nat
  BY <1>3, <1>4, <1>5
<1> QED
  BY <1>6 DEF a, b, c, d

(* The step counters, queues and ledger keep their shape.                  *)
THEOREM TypesHold == Spec => []TypeOK
<1>1. AttributionInv => TypeOK
  <2> SUFFICES ASSUME AttributionInv PROVE TypeOK
    OBVIOUS
  <2>1. /\ current \in [Queue -> Message \cup {None}]
        /\ heard \in [Step -> 0..Deliveries]
        /\ \A m \in Message : settled[m] \in 0..dispatched[m]
    BY DEF AttributionInv, HostInv, QueueInv
  <2>2. \A m \in Message : dispatched[m] \in 0..MaxStep[m]
    BY AttributionAssumption DEF AttributionInv, QueueInv
  <2>3. DOMAIN queue = Queue /\ \A q \in Queue : queue[q] \in State
    BY DEF AttributionInv, QueueInv
  <2>4. ASSUME NEW q \in Queue
        PROVE  /\ queue[q].pc \in {"idle", "start", "work", "settle", "persist", "ended", "dead"}
               /\ queue[q].tasks \in Seq(Work) /\ queue[q].work \in Work \cup {NoWork}
               /\ queue[q].ok \in BOOLEAN /\ queue[q].closed \in BOOLEAN
               /\ queue[q].pendingCount \in Nat /\ CountsOf(q) \in Counts
               /\ queue[q].saved \in Counts
    <3>1. queue[q] \in State
      BY <2>3
    <3>2. CountsOf(q) \in Counts
      BY <3>1 DEF State, CountsOf, Counts
    <3>3. queue[q].ok \in BOOLEAN /\ queue[q].closed \in BOOLEAN
      BY <3>1 DEF State
    <3>4. /\ queue[q].pc \in {"idle", "start", "work", "settle", "persist", "ended", "dead"}
          /\ queue[q].tasks \in Seq(Work) /\ queue[q].work \in Work \cup {NoWork}
          /\ queue[q].pendingCount \in Nat /\ queue[q].saved \in Counts
      BY <3>1 DEF State
    <3> QED
      BY <3>2, <3>3, <3>4
  <2>5. ledger \in Book
    BY DEF AttributionInv, BooksInv, Sound
  <2>6. /\ ledger.observations \in Seq(Step) /\ ledger.pending \in Seq(Message)
        /\ ledger.old \subseteq Step \cup Message
        /\ ledger.failed \in Nat /\ ledger.dropped \in Nat
        /\ ledger.sessions \in [Queue -> Counts]
    BY <2>5 DEF Book
  <2>7. ledger.truncated \in BOOLEAN
    BY <2>5 DEF Book
  <2>8. owed \in Nat
    BY OwedRows
  <2> QED
    BY <2>1, <2>2, <2>3, <2>4, <2>6, <2>7, <2>8 DEF TypeOK
<1> QED
  BY <1>1, AttributionInvariant, PTL

(* No row is lost without being counted: what entered the ledger is there, *)
(* was settled by its completion or was dropped by a pruning, whatever was *)
(* saved, retried or recorded twice (upsertUsageObservation, prune).       *)
THEOREM RowsStayAccountedFor == Spec => []RowsAreAccountedFor
<1>1. AttributionInv => RowsAreAccountedFor
  BY OwedRows DEF SavedDrops, RowsAreAccountedFor
<1> QED
  BY <1>1, AttributionInvariant, PTL

(* The failures a reader is told of are those of his own instances and     *)
(* what the others saved, each once, however often a save was tried and    *)
(* whether it failed before or after its rename                            *)
(* (persistAttributionDiagnostics, readUsageAttribution).                  *)
THEOREM FailuresStayCounted == Spec => []FailuresAreCountedOnce
<1>1. AttributionInv => FailuresAreCountedOnce
  <2> SUFFICES ASSUME AttributionInv, NEW Own \in SUBSET {q \in Queue : Alive(q)}
               PROVE  FailedCount(Own) =
                        Total(Queue, [q \in Queue |-> IF q \in Own THEN queue[q].failed
                                                      ELSE ledger.sessions[q].failed])
    BY DEF FailuresAreCountedOnce
  <2> DEFINE a == [q \in Queue |-> ledger.sessions[q].failed]
             d == [q \in Own |-> More(ledger.sessions[q].failed, queue[q].failed)]
             c == [q \in Queue |-> IF q \in Own THEN queue[q].failed
                                   ELSE ledger.sessions[q].failed]
  <2>1. Sound(ledger) /\ ledger.sessions \in [Queue -> Counts]
    BY DEF AttributionInv, BooksInv, Sound, Book
  <2>2. ledger.failed = Total(Queue, a)
    BY <2>1 DEF Sound, SavedFailures
  <2>3. FailedCount(Own) = ledger.failed + Total(Own, d)
    BY DEF FailedCount
  <2>4. \A q \in Own : /\ q \in Queue /\ d[q] \in Nat /\ queue[q].failed \in Nat
                       /\ queue[q].failed = ledger.sessions[q].failed + d[q]
    <3> SUFFICES ASSUME NEW q \in Own
                 PROVE  /\ q \in Queue /\ d[q] \in Nat /\ queue[q].failed \in Nat
                        /\ queue[q].failed = ledger.sessions[q].failed + d[q]
      OBVIOUS
    <3>1. q \in Queue /\ Alive(q)
      OBVIOUS
    <3>2. /\ ledger.sessions[q].failed \in Nat /\ queue[q].failed \in Nat
          /\ More(ledger.sessions[q].failed, queue[q].failed)
               = queue[q].failed - ledger.sessions[q].failed
          /\ ledger.sessions[q].failed <= queue[q].failed
      BY <3>1, AliveSaved
    <3> QED
      BY <3>1, <3>2
  <2>5. a \in [Queue -> Nat]
    BY <2>1 DEF Counts
  <2>6. c \in [Queue -> Nat]
    BY <2>1, <2>4 DEF Counts
  <2>7. d \in [Own -> Nat]
    BY <2>4
  <2>8. \A q \in Queue : c[q] = IF q \in Own THEN a[q] + d[q] ELSE a[q]
    BY <2>4
  <2>9. Own \in SUBSET Queue /\ IsFiniteSet(Queue)
    BY AttributionAssumption
  <2> HIDE DEF a, c, d
  <2>10. Total(Queue, c) = Total(Queue, a) + Total(Own, d)
    BY <2>5, <2>6, <2>7, <2>8, <2>9, TotalGrows
  <2> QED
    BY <2>2, <2>3, <2>10 DEF c
<1> QED
  BY <1>1, AttributionInvariant, PTL

(* A record that does not call itself partial has an observation of every  *)
(* step that the reader's instance dispatched, whether its completion was  *)
(* told in time, too late or never, although queues drop, operations fail  *)
(* and the ledger is pruned.  The exception is a step that was not heard   *)
(* of and that was dispatched before a completion of its message was: it   *)
(* took the message's one pending row                                      *)
(* (chat.params, event, upsertUsageObservation).                           *)
THEOREM CompleteStaysRecorded == Spec => []CompleteMeansRecorded
<1>1. AttributionInv => CompleteMeansRecorded
  <2> SUFFICES ASSUME AttributionInv, NEW q \in Queue, Alive(q), ~Partial({q}),
                      NEW m \in Message, QueueOf[m] = q, NEW n \in 1..dispatched[m],
                      heard[<<m, n>>] > 0 \/ n > settled[m]
               PROVE  <<m, n>> \in ToSet(ledger.observations)
    BY DEF CompleteMeansRecorded
  <2> DEFINE store == Pruned(ledger)
             f == [r \in {q} |-> More(ledger.sessions[r].failed, queue[r].failed)]
             d == [r \in {q} |-> More(ledger.sessions[r].dropped, queue[r].dropped)]
             p == [r \in {q} |-> queue[r].pendingCount]
  <2>1. Sound(ledger) /\ PrunedHolds(ledger)
    BY PrunedSound DEF AttributionInv, BooksInv
  <2>2. /\ store.sessions = ledger.sessions /\ store.failed = ledger.failed
        /\ (ledger.truncated => store.truncated) /\ store \in Book
        /\ ~store.truncated => ToSet(store.pending) = ToSet(ledger.pending)
    BY <2>1 DEF PrunedHolds, Sound
  <2>3. /\ ~store.truncated /\ store.pending = <<>> /\ ~(Total({q}, p) > 0)
        /\ ~(ledger.failed + Total({q}, f) > 0) /\ ~(Total({q}, d) > 0)
    BY DEF Partial, FailedCount
  <2>4. /\ ledger.sessions[q].failed \in Nat /\ queue[q].failed \in Nat
        /\ ledger.sessions[q].dropped \in Nat /\ queue[q].dropped \in Nat
        /\ f[q] = queue[q].failed - ledger.sessions[q].failed
        /\ d[q] = queue[q].dropped - ledger.sessions[q].dropped
        /\ f[q] \in Nat /\ d[q] \in Nat
    BY AliveSaved
  <2>5. /\ queue[q] \in State /\ Consistent(queue[q], ledger.sessions[q])
        /\ queue[q].pendingCount \in Nat /\ p[q] = queue[q].pendingCount
    BY DEF AttributionInv, QueueInv, State
  <2>6. Total({q}, f) = f[q] /\ Total({q}, d) = d[q] /\ Total({q}, p) = p[q]
    <3>1. f \in [{q} -> Nat] /\ d \in [{q} -> Nat] /\ p \in [{q} -> Nat]
      BY <2>4, <2>5
    <3> HIDE DEF f, d, p
    <3> QED
      BY <3>1, TotalOfOne
  <2> HIDE DEF f, d, p, store
  <2>7. queue[q].pendingCount = 0 /\ ToSet(ledger.pending) = {}
    <3>1. queue[q].pendingCount = 0
      BY <2>3, <2>5, <2>6
    <3>2. ToSet(store.pending) = {}
      BY <2>3 DEF ToSet
    <3> QED
      BY <2>2, <2>3, <3>1, <3>2
  <2>8. ledger.failed = 0 /\ queue[q].failed = ledger.sessions[q].failed
    <3> DEFINE x == ledger.failed
               y == f[q]
    <3>1. x \in Nat /\ y \in Nat
      BY <2>1, <2>4 DEF Sound, Book
    <3>2. ~(x + y > 0)
      BY <2>3, <2>6
    <3> HIDE DEF x, y
    <3>3. x = 0 /\ y = 0
      BY <3>1, <3>2
    <3> QED
      BY <2>4, <3>3 DEF x, y
  <2>9. queue[q].failed = 0
    <3> DEFINE a == [r \in Queue |-> ledger.sessions[r].failed]
    <3>1. a \in [Queue -> Nat] /\ a[q] = ledger.sessions[q].failed
      BY <2>1 DEF Sound, Book, Counts
    <3>2. ledger.failed = Total(Queue, a)
      BY <2>1 DEF Sound, SavedFailures
    <3> HIDE DEF a
    <3>3. a[q] <= Total(Queue, a)
      BY <3>1, TotalAtLeast, AttributionAssumption
    <3> QED
      BY <2>4, <2>8, <3>1, <3>2, <3>3
  <2>10. queue[q].dropped = 0
    <3>1. queue[q].dropped = ledger.sessions[q].dropped
      BY <2>3, <2>4, <2>6
    <3>2. ~(ledger.sessions[q].dropped > 0)
      BY <2>1, <2>2, <2>3 DEF Sound
    <3> QED
      BY <2>4, <3>1, <3>2
  <2>11. queue[q].tasks = <<>> /\ queue[q].pc \notin {"work", "settle"}
    <3>1. queue[q].tasks \in Seq(Work) /\ Len(queue[q].tasks) \in Nat
      BY <2>5 DEF State
    <3>2. queue[q].pendingCount =
            Len(queue[q].tasks) + (IF queue[q].pc \in {"work", "settle"} THEN 1 ELSE 0)
      BY <2>5 DEF Consistent
    <3>3. Len(queue[q].tasks) = 0 /\ queue[q].pc \notin {"work", "settle"}
      <4> DEFINE size == Len(queue[q].tasks)
                 one == IF queue[q].pc \in {"work", "settle"} THEN 1 ELSE 0
      <4>1. size \in Nat /\ one \in Nat /\ size + one = 0
        BY <2>7, <3>1, <3>2
      <4>2. one = 0 => queue[q].pc \notin {"work", "settle"}
        OBVIOUS
      <4> HIDE DEF size, one
      <4>3. size = 0 /\ one = 0
        BY <4>1
      <4> QED
        BY <4>2, <4>3 DEF size
    <3> QED
      BY <3>1, <3>3
  <2>12. CASE n > settled[m]
    <3>1. dispatched[m] > settled[m]
      <4>1. dispatched[m] \in Nat /\ settled[m] \in Nat /\ n \in Nat /\ n <= dispatched[m]
        BY DEF AttributionInv, QueueInv, HostInv
      <4> QED
        BY <2>12, <4>1
    <3>2. RowIsSafe(ledger, queue[q], m)
      BY <3>1 DEF AttributionInv, PendingInv
    <3>3. ~CaptureIsLast(queue[q].tasks, m)
      BY <2>11 DEF CaptureIsLast
    <3> QED
      BY <2>2, <2>3, <2>7, <2>9, <2>10, <2>11, <3>2, <3>3 DEF RowIsSafe
  <2>13. CASE heard[<<m, n>>] > 0
    <3> DEFINE s == <<m, n>>
    <3>1. s \in Heard /\ QueueOf[s[1]] = q
      <4>1. n \in 1..MaxStep[m]
        BY AttributionAssumption DEF AttributionInv, QueueInv
      <4>2. s \in Step
        BY <4>1 DEF Step
      <4> QED
        BY <2>13, <4>2 DEF Heard
    <3>2. ~Underway(queue[q], s)
      BY <2>9, <2>10, <2>11 DEF Underway, Awaited
    <3> HIDE DEF s
    <3>3. InLedger(s)
      BY <3>1, <3>2 DEF AttributionInv, HeardInv
    <3> QED
      BY <2>2, <2>3, <3>3 DEF InLedger, s
  <2> QED
    BY <2>12, <2>13
<1> QED
  BY <1>1, AttributionInvariant, PTL
=============================================================================
