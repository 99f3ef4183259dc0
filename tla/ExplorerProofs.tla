--------------------------- MODULE ExplorerProofs ---------------------------
(***************************************************************************)
(* Proofs about `lx inspect` and `lx find`, for every finite set of PIDs,  *)
(* every set of sockets and services, every set of faults and every number *)
(* of host steps between two calls.                                        *)
(***************************************************************************)
EXTENDS Explorer, FiniteSetTheorems, TLAPS

-----------------------------------------------------------------------------
(* Logs: what sorting, adding and cutting them does to their entries. *)

(* As many places as entries, and no two entries at one place: every place *)
(* is taken.                                                               *)
LEMMA EveryPlaceTaken ==
  ASSUME NEW S, IsFiniteSet(S), NEW f \in [S -> 1..Cardinality(S)],
         \A x, y \in S : f[x] = f[y] => x = y
  PROVE  \A k \in 1..Cardinality(S) : \E x \in S : f[x] = k
<1>1. Cardinality(S) \in Nat
  BY FS_CardinalityType
<1>2. IsFiniteSet(1..Cardinality(S)) /\ Cardinality(1..Cardinality(S)) = Cardinality(S)
  BY <1>1, FS_Interval
<1>3. f \in Injection(S, 1..Cardinality(S))
  BY DEF Injection, IsInjective
<1>4. f \in Surjection(S, 1..Cardinality(S))
  BY <1>2, <1>3, FS_Injection, Zenon
<1>5. QED
  BY <1>4 DEF Surjection

(* A strictly larger finite set has more elements. *)
LEMMA FewerElements ==
  ASSUME NEW S, IsFiniteSet(S), NEW T \in SUBSET S, NEW x \in S \ T
  PROVE  /\ Cardinality(T) \in Nat /\ Cardinality(S) \in Nat
         /\ Cardinality(T) < Cardinality(S)
<1>1. IsFiniteSet(T) /\ Cardinality(T) <= Cardinality(S) /\ Cardinality(T) # Cardinality(S)
  BY FS_Subset
<1>2. QED
  BY <1>1, FS_CardinalityType

Rank(S, n) == Cardinality({m \in S : m <= n})

(* The ranks of the elements of a finite set of numbers. *)
LEMMA Ranks ==
  ASSUME NEW S \in SUBSET Nat, IsFiniteSet(S)
  PROVE  /\ Cardinality(S) \in Nat
         /\ \A n \in S : Rank(S, n) \in 1..Cardinality(S)
         /\ \A m, n \in S : m < n => Rank(S, m) < Rank(S, n)
         /\ \A m, n \in S : Rank(S, m) = Rank(S, n) => m = n
         /\ \A k \in 1..Cardinality(S) : \E n \in S : Rank(S, n) = k
<1>1. ASSUME NEW n \in S PROVE Rank(S, n) \in 1..Cardinality(S)
  <2>1. {m \in S : m <= n} \in SUBSET S /\ n \in {m \in S : m <= n} /\ {} \in SUBSET {m \in S : m <= n}
    OBVIOUS
  <2>2. /\ IsFiniteSet({m \in S : m <= n})
        /\ Cardinality({m \in S : m <= n}) <= Cardinality(S)
    BY <2>1, FS_Subset
  <2>3. Cardinality({}) < Cardinality({m \in S : m <= n})
    BY <2>1, <2>2, FewerElements
  <2>4. Rank(S, n) \in Nat /\ Cardinality(S) \in Nat /\ Cardinality({}) = 0
    BY <2>2, FS_CardinalityType, FS_EmptySet DEF Rank
  <2>5. QED
    BY <2>2, <2>3, <2>4 DEF Rank
<1>2. ASSUME NEW m \in S, NEW n \in S, m < n PROVE Rank(S, m) < Rank(S, n)
  <2>1. {k \in S : k <= m} \in SUBSET {k \in S : k <= n}
    <3>1. \A k \in S : k \in Nat /\ (k <= m => k <= n)
      BY <1>2
    <3>2. QED
      BY <3>1
  <2>2. n \in {k \in S : k <= n} \ {k \in S : k <= m}
    BY <1>2
  <2>3. IsFiniteSet({k \in S : k <= n})
    BY FS_Subset
  <2>4. QED
    BY <2>1, <2>2, <2>3, FewerElements DEF Rank
<1>3. ASSUME NEW m \in S, NEW n \in S, Rank(S, m) = Rank(S, n) PROVE m = n
  <2>1. m \in Nat /\ n \in Nat /\ Rank(S, m) \in Nat /\ Rank(S, n) \in Nat
    BY <1>1
  <2>2. ~(m < n) /\ ~(n < m)
    BY <1>2, <1>3, <2>1
  <2>3. QED
    BY <2>1, <2>2
<1>4. Cardinality(S) \in Nat
  BY FS_CardinalityType
<1>5. \A k \in 1..Cardinality(S) : \E n \in S : Rank(S, n) = k
  <2>. DEFINE f == [n \in S |-> Rank(S, n)]
  <2>1. f \in [S -> 1..Cardinality(S)] /\ \A m, n \in S : f[m] = f[n] => m = n
    BY <1>1, <1>3
  <2>. HIDE DEF f
  <2>2. \A k \in 1..Cardinality(S) : \E n \in S : f[n] = k
    BY <2>1, EveryPlaceTaken
  <2>3. QED
    BY <2>2 DEF f
<1>6. QED
  BY <1>1, <1>2, <1>3, <1>4, <1>5

(* No entry of a log is there twice. *)
Distinct(logs) == \A i, j \in DOMAIN logs : logs[i] = logs[j] => i = j

LEMMA EntriesFacts == IsFiniteSet(Entries) /\ Entries \subseteq Nat
<1>1. 1 \in Int /\ Len(LogUnit) \in Int
  BY ExplorerAssumption
<1>2. IsFiniteSet(1..Len(LogUnit)) /\ 1..Len(LogUnit) \subseteq Nat
  BY <1>1, FS_Interval
<1>3. QED
  BY <1>2 DEF Entries

(* Putting entries in order neither loses nor repeats one. *)
LEMMA InOrderFacts ==
  ASSUME NEW S \in SUBSET Entries
  PROVE  /\ InOrder(S) \in Seq(Entries)
         /\ Shown(InOrder(S)) = S
         /\ Distinct(InOrder(S))
<1>1. S \in SUBSET Nat /\ IsFiniteSet(S)
  <2>1. IsFiniteSet(Entries) /\ Entries \subseteq Nat
    BY EntriesFacts
  <2>2. QED
    BY <2>1, FS_Subset
<1>2. /\ Cardinality(S) \in Nat
      /\ \A n \in S : Rank(S, n) \in 1..Cardinality(S)
      /\ \A m, n \in S : Rank(S, m) = Rank(S, n) => m = n
      /\ \A k \in 1..Cardinality(S) : \E n \in S : Rank(S, n) = k
  BY <1>1, Ranks
<1>3. InOrder(S) = [k \in 1..Cardinality(S) |-> CHOOSE n \in S : Rank(S, n) = k]
  BY DEF InOrder, Rank
<1>4. ASSUME NEW k \in 1..Cardinality(S)
      PROVE  InOrder(S)[k] \in S /\ Rank(S, InOrder(S)[k]) = k
  <2>1. \E n \in S : Rank(S, n) = k
    BY <1>2
  <2>2. InOrder(S)[k] = CHOOSE n \in S : Rank(S, n) = k
    BY <1>3
  <2>3. QED
    BY <2>1, <2>2
<1>5. DOMAIN InOrder(S) = 1..Cardinality(S)
  BY <1>3
<1>6. InOrder(S) \in Seq(Entries)
  <2>1. InOrder(S) \in [1..Cardinality(S) -> Entries]
    BY <1>3, <1>4
  <2>2. QED
    BY <1>2, <2>1
<1>7. Distinct(InOrder(S))
  BY <1>4, <1>5 DEF Distinct
<1>8. ASSUME NEW n \in S PROVE n \in Shown(InOrder(S))
  <2>1. Rank(S, n) \in 1..Cardinality(S)
    BY <1>2
  <2>2. InOrder(S)[Rank(S, n)] = n
    BY <1>2, <1>4, <2>1
  <2>3. QED
    BY <1>5, <2>1, <2>2 DEF Shown
<1>9. QED
  BY <1>4, <1>5, <1>6, <1>7, <1>8 DEF Shown

(* LogService::read leaves out an entry only for at least LogLimit newer   *)
(* ones that it returns.                                                   *)
LEMMA LeftOutForNewer ==
  ASSUME NEW x, NEW n \in Scope(x, written) \ Newest(x)
  PROVE  /\ IsFiniteSet({m \in Newest(x) : m > n})
         /\ Cardinality({m \in Newest(x) : m > n}) >= LogLimit
<1>. DEFINE A == {m \in Scope(x, written) : m > n}
            c == Cardinality(A)
            T == {m \in A : Rank(A, m) > c - LogLimit}
<1>1. IsFiniteSet(Scope(x, written)) /\ Scope(x, written) \in SUBSET Nat /\ n \in Nat
  <2>1. IsFiniteSet(Entries) /\ Entries \subseteq Nat
    BY EntriesFacts
  <2>2. QED
    BY <2>1, FS_Subset DEF Scope
<1>2. A \in SUBSET Nat /\ IsFiniteSet(A)
  BY <1>1, FS_Subset
<1>3. c \in Nat /\ c >= LogLimit /\ LogLimit \in Nat \ {0}
  BY <1>2, FS_CardinalityType, ExplorerAssumption DEF Newest
<1>4. /\ \A m \in A : Rank(A, m) \in 1..c
      /\ \A k, m \in A : Rank(A, k) = Rank(A, m) => k = m
      /\ \A k \in 1..c : \E m \in A : Rank(A, m) = k
  BY <1>2, Ranks
<1>5. ASSUME NEW m \in T PROVE m \in Newest(x)
  <2>1. m \in A /\ Rank(A, m) > c - LogLimit /\ m \in Nat
    BY <1>2
  <2>2. {k \in Scope(x, written) : k > m} = A \ {k \in A : k <= m}
    BY <1>1, <2>1
  <2>3. Cardinality(A \ {k \in A : k <= m}) = c - Cardinality(A \cap {k \in A : k <= m})
    BY <1>2, FS_Difference
  <2>4. A \cap {k \in A : k <= m} = {k \in A : k <= m}
    OBVIOUS
  <2>5. Cardinality({k \in Scope(x, written) : k > m}) = c - Rank(A, m)
    BY <2>2, <2>3, <2>4 DEF Rank
  <2>6. Rank(A, m) \in Nat
    BY <1>4, <2>1
  <2>7. QED
    BY <1>3, <2>1, <2>5, <2>6 DEF Newest
<1>6. Cardinality(T) = LogLimit /\ IsFiniteSet(T)
  <2>1. IsFiniteSet(T)
    BY <1>2, FS_Subset
  <2>. DEFINE f == [m \in T |-> Rank(A, m)]
              R == (c - LogLimit + 1)..c
  <2>2. f \in Bijection(T, R)
    <3>1. f \in [T -> R]
      BY <1>3, <1>4
    <3>2. \A k, m \in T : f[k] = f[m] => k = m
      BY <1>4
    <3>3. \A k \in R : \E m \in T : f[m] = k
      <4>1. SUFFICES ASSUME NEW k \in R PROVE \E m \in T : f[m] = k
        OBVIOUS
      <4>2. k \in 1..c /\ k > c - LogLimit
        BY <1>3
      <4>3. PICK m \in A : Rank(A, m) = k
        BY <1>4, <4>2
      <4>4. m \in T
        BY <4>2, <4>3
      <4>5. QED
        BY <4>3, <4>4
    <3>. HIDE DEF f, R, T
    <3>4. QED
      BY <3>1, <3>2, <3>3 DEF Bijection, Injection, Surjection, IsInjective
  <2>. HIDE DEF f, T
  <2>3. Cardinality(R) = Cardinality(T)
    BY <2>1, <2>2, FS_Bijection DEF ExistsBijection
  <2>4. Cardinality(R) = LogLimit
    <3>1. c - LogLimit + 1 \in Int /\ c \in Int /\ ~(c - LogLimit + 1 > c)
      BY <1>3
    <3>2. Cardinality(R) = c - (c - LogLimit + 1) + 1
      BY <3>1, FS_Interval
    <3>3. QED
      BY <1>3, <3>2
  <2>5. QED
    BY <2>1, <2>3, <2>4
<1>7. T \in SUBSET {m \in Newest(x) : m > n}
  BY <1>5
<1>8. IsFiniteSet({m \in Newest(x) : m > n})
  BY <1>1, FS_Subset DEF Newest
<1>9. QED
  <2>. HIDE DEF T
  <2>1. Cardinality(T) <= Cardinality({m \in Newest(x) : m > n})
    BY <1>7, <1>8, FS_Subset
  <2>2. QED
    BY <1>3, <1>6, <1>8, <2>1, FS_CardinalityType

(* std::stable_sort: every entry has a place of its own, an older one an   *)
(* earlier one, and every place is taken.                                  *)
LEMMA Places ==
  ASSUME NEW logs \in Seq(Nat)
  PROVE  /\ \A i \in 1..Len(logs) : Place(logs, i) \in 1..Len(logs)
         /\ \A i, j \in 1..Len(logs) : logs[i] < logs[j] => Place(logs, i) < Place(logs, j)
         /\ \A i, j \in 1..Len(logs) : Place(logs, i) = Place(logs, j) => i = j
         /\ \A k \in 1..Len(logs) : \E i \in 1..Len(logs) : Place(logs, i) = k
<1>. DEFINE I == 1..Len(logs)
            Upto(i) == {j \in I : logs[j] < logs[i] \/ (logs[j] = logs[i] /\ j <= i)}
<1>1. /\ Len(logs) \in Nat /\ DOMAIN logs = I
      /\ \A i \in I : logs[i] \in Nat /\ i \in Nat
  OBVIOUS
<1>2. IsFiniteSet(I) /\ Cardinality(I) = Len(logs)
  BY <1>1, FS_Interval
<1>3. \A i \in I : Place(logs, i) = Cardinality(Upto(i))
  BY <1>1 DEF Place
<1>4. ASSUME NEW i \in I
      PROVE  /\ IsFiniteSet(Upto(i)) /\ i \in Upto(i) /\ Upto(i) \in SUBSET I
             /\ Place(logs, i) \in 1..Len(logs)
  <2>1. i \in Upto(i) /\ Upto(i) \in SUBSET I /\ {} \in SUBSET Upto(i)
    BY <1>1
  <2>. HIDE DEF Upto
  <2>2. IsFiniteSet(Upto(i)) /\ Cardinality(Upto(i)) <= Cardinality(I)
    BY <1>2, <2>1, FS_Subset
  <2>3. Cardinality(Upto(i)) \in Nat /\ Cardinality({}) < Cardinality(Upto(i))
    BY <2>1, <2>2, FewerElements
  <2>4. QED
    BY <1>1, <1>2, <1>3, <2>1, <2>2, <2>3, FS_EmptySet
<1>5. ASSUME NEW i \in I, NEW j \in I, logs[i] < logs[j] \/ (logs[i] = logs[j] /\ i < j)
      PROVE  Place(logs, i) < Place(logs, j)
  <2>1. \A k \in I : k \in Upto(i) => k \in Upto(j)
    BY <1>1, <1>5
  <2>2. j \notin Upto(i)
    BY <1>1, <1>5
  <2>3. Upto(i) \in SUBSET Upto(j)
    BY <2>1
  <2>. HIDE DEF Upto
  <2>4. j \in Upto(j) \ Upto(i) /\ IsFiniteSet(Upto(j))
    BY <1>4, <2>2
  <2>5. QED
    BY <1>3, <2>3, <2>4, FewerElements
<1>6. ASSUME NEW i \in I, NEW j \in I, Place(logs, i) = Place(logs, j) PROVE i = j
  <2>1. i \in Nat /\ j \in Nat /\ logs[i] \in Nat /\ logs[j] \in Nat /\ Place(logs, i) \in Nat
    BY <1>1, <1>4
  <2>2. /\ ~(logs[i] < logs[j] \/ (logs[i] = logs[j] /\ i < j))
        /\ ~(logs[j] < logs[i] \/ (logs[j] = logs[i] /\ j < i))
    BY <1>5, <1>6, <2>1
  <2>3. QED
    BY <2>1, <2>2
<1>7. \A k \in I : \E i \in I : Place(logs, i) = k
  <2>. DEFINE f == [i \in I |-> Place(logs, i)]
  <2>1. f \in [I -> 1..Cardinality(I)] /\ \A i, j \in I : f[i] = f[j] => i = j
    BY <1>2, <1>4, <1>6
  <2>. HIDE DEF f
  <2>2. \A k \in 1..Cardinality(I) : \E i \in I : f[i] = k
    BY <1>2, <2>1, EveryPlaceTaken
  <2>3. QED
    BY <1>2, <2>2 DEF f
<1>8. QED
  BY <1>4, <1>5, <1>6, <1>7

(* finalizeLogs keeps every entry at most once; what it erases is older    *)
(* than all it keeps, and then it keeps LogLimit of them; fewer than       *)
(* LogLimit entries are newer than one it keeps.                           *)
LEMMA FinalFacts ==
  ASSUME NEW logs \in Seq(Entries), Distinct(logs)
  PROVE  LET kept == FinalizeLogs(logs)
         IN  /\ kept \in Seq(Entries) /\ Distinct(kept)
             /\ Shown(kept) \subseteq Shown(logs)
             /\ Len(logs) >= LogLimit => Len(kept) = LogLimit
             /\ \A n \in Shown(logs) \ Shown(kept) :
                  Len(kept) = LogLimit /\ \A m \in Shown(kept) : m > n
             /\ \A n \in Shown(kept) :
                  Cardinality({i \in 1..Len(logs) : logs[i] > n}) < LogLimit
<1>. DEFINE N == Len(logs)
            erased == IF N > LogLimit THEN N - LogLimit ELSE 0
            at(k) == CHOOSE i \in 1..N : Place(logs, i) = k
            kept == FinalizeLogs(logs)
<1>1. /\ N \in Nat /\ LogLimit \in Nat /\ Entries \subseteq Nat
      /\ logs \in Seq(Nat) /\ DOMAIN logs = 1..N
      /\ \A i \in 1..N : logs[i] \in Entries
  BY ExplorerAssumption DEF Entries
<1>2. N \in Nat /\ LogLimit \in Nat
  BY <1>1
<1>3. \A i \in 1..N : Place(logs, i) \in 1..N
  BY <1>1, Places
<1>4. N = Len(logs)
  OBVIOUS
<1>. HIDE DEF N
<1>5. /\ erased \in Nat /\ erased <= N
      /\ N >= LogLimit => N - erased = LogLimit
      /\ erased > 0 => N - erased = LogLimit
      /\ N - erased <= LogLimit /\ N - erased \in Nat
  BY <1>2
<1>. HIDE DEF erased
<1>6. kept = [k \in 1..(N - erased) |-> logs[at(erased + k)]]
  BY <1>1, <1>4 DEF FinalizeLogs, erased
<1>7. ASSUME NEW k \in 1..N PROVE at(k) \in 1..N /\ Place(logs, at(k)) = k
  <2>1. \E i \in 1..N : Place(logs, i) = k
    BY <1>1, <1>4, Places
  <2>2. QED
    BY <2>1
<1>. HIDE DEF at
<1>8. ASSUME NEW k \in 1..(N - erased)
      PROVE  /\ erased + k \in 1..N /\ kept[k] = logs[at(erased + k)]
             /\ at(erased + k) \in 1..N /\ Place(logs, at(erased + k)) = erased + k
  <2>1. erased + k \in 1..N
    BY <1>2, <1>5
  <2>2. kept[k] = logs[at(erased + k)]
    BY <1>6
  <2>3. QED
    BY <1>7, <2>1, <2>2
<1>. HIDE DEF kept
<1>9. DOMAIN kept = 1..(N - erased) /\ kept \in [1..(N - erased) -> Entries]
  BY <1>1, <1>6, <1>8
<1>10. kept \in Seq(Entries) /\ Len(kept) = N - erased
  BY <1>5, <1>9
<1>11. ASSUME NEW i \in 1..N, NEW j \in 1..N, Place(logs, i) < Place(logs, j)
      PROVE  logs[i] < logs[j]
  <2>1. Place(logs, i) \in Nat /\ Place(logs, j) \in Nat
    BY <1>2, <1>3
  <2>2. ~(logs[j] < logs[i]) /\ i # j
    <3>1. logs[j] < logs[i] => Place(logs, j) < Place(logs, i)
      BY <1>1, <1>4, Places
    <3>2. QED
      BY <1>11, <2>1, <3>1
  <2>3. logs[i] # logs[j] /\ logs[i] \in Nat /\ logs[j] \in Nat
    BY <1>1, <2>2 DEF Distinct
  <2>4. QED
    BY <2>2, <2>3
<1>12. Distinct(kept)
  <2>1. SUFFICES ASSUME NEW k \in 1..(N - erased), NEW l \in 1..(N - erased), kept[k] = kept[l]
                 PROVE  k = l
    BY <1>9 DEF Distinct
  <2>2. at(erased + k) = at(erased + l)
    BY <1>1, <1>8, <2>1 DEF Distinct
  <2>3. erased + k = erased + l
    BY <1>8, <2>2
  <2>4. QED
    BY <1>5, <2>3
<1>13. Shown(kept) \subseteq Shown(logs)
  BY <1>1, <1>8, <1>9 DEF Shown
<1>14. ASSUME NEW n \in Shown(logs) \ Shown(kept)
       PROVE  Len(kept) = LogLimit /\ \A m \in Shown(kept) : m > n
  <2>1. PICK i \in 1..N : logs[i] = n
    BY <1>1, <1>14 DEF Shown
  <2>2. Place(logs, i) \in 1..N
    BY <1>3
  <2>3. Place(logs, i) <= erased
    <3>1. SUFFICES ASSUME Place(logs, i) > erased PROVE FALSE
      BY <1>5, <2>2
    <3>2. Place(logs, i) - erased \in 1..(N - erased) /\ erased + (Place(logs, i) - erased) = Place(logs, i)
      BY <1>2, <1>5, <2>2, <3>1
    <3>3. kept[Place(logs, i) - erased] = logs[at(Place(logs, i))]
      BY <1>8, <3>2
    <3>4. at(Place(logs, i)) = i
      BY <1>1, <1>4, <1>7, <2>2, Places
    <3>5. n \in Shown(kept)
      BY <1>9, <2>1, <3>2, <3>3, <3>4 DEF Shown
    <3>6. QED
      BY <1>14, <3>5
  <2>4. Len(kept) = LogLimit
    BY <1>5, <1>10, <2>2, <2>3
  <2>5. ASSUME NEW m \in Shown(kept) PROVE m > n
    <3>1. PICK k \in 1..(N - erased) : m = kept[k]
      BY <1>9 DEF Shown
    <3>2. Place(logs, i) < Place(logs, at(erased + k))
      <4>1. Place(logs, at(erased + k)) = erased + k
        BY <1>8
      <4>2. QED
        BY <1>2, <1>5, <2>2, <2>3, <4>1
    <3>3. logs[i] < logs[at(erased + k)]
      BY <1>8, <1>11, <3>2
    <3>4. QED
      BY <1>1, <1>8, <2>1, <3>1, <3>3
  <2>6. QED
    BY <2>4, <2>5
<1>15. ASSUME NEW n \in Shown(kept)
       PROVE  Cardinality({i \in 1..N : logs[i] > n}) < LogLimit
  <2>1. PICK k \in 1..(N - erased) : n = kept[k]
    BY <1>9 DEF Shown
  <2>. DEFINE g == at(erased + k)
              Old == {j \in 1..N : logs[j] < logs[g] \/ (logs[j] = logs[g] /\ j <= g)}
  <2>2. g \in 1..N /\ n = logs[g] /\ Place(logs, g) = erased + k /\ k \in Nat \ {0}
    BY <1>5, <1>8, <2>1
  <2>3. Cardinality(Old) = erased + k
    BY <1>1, <2>2 DEF Place
  <2>4. \A i \in 1..N : logs[i] > n <=> i \notin Old
    <3>1. \A i \in 1..N : logs[i] \in Nat /\ (logs[i] = logs[g] => i = g) /\ i \in Nat
      BY <1>1, <2>2 DEF Distinct
    <3>2. QED
      BY <1>1, <2>2, <3>1
  <2>. HIDE DEF Old
  <2>5. {i \in 1..N : logs[i] > n} = (1..N) \ Old
    BY <2>4
  <2>6. Old \subseteq 1..N
    BY DEF Old
  <2>7. IsFiniteSet(1..N) /\ Cardinality(1..N) = N
    BY <1>2, FS_Interval
  <2>8. Cardinality((1..N) \ Old) = N - Cardinality((1..N) \cap Old)
    BY <2>7, FS_Difference
  <2>9. (1..N) \cap Old = Old
    BY <2>6
  <2>10. QED
    <3>1. Cardinality({i \in 1..N : logs[i] > n}) = N - (erased + k)
      BY <2>3, <2>5, <2>8, <2>9
    <3>2. QED
      BY <1>2, <1>5, <2>2, <3>1
<1>16. QED
  <2>1. Len(logs) >= LogLimit => Len(kept) = LogLimit
    BY <1>5, <1>10, <1>4
  <2>2. QED
    BY <1>10, <1>12, <1>13, <1>14, <1>15, <1>4, <2>1 DEF kept

(* As many entries as positions. *)
LEMMA DistinctCount ==
  ASSUME NEW logs \in Seq(Entries), Distinct(logs), NEW I \in SUBSET (1..Len(logs))
  PROVE  /\ IsFiniteSet(I) /\ IsFiniteSet({logs[i] : i \in I})
         /\ Cardinality({logs[i] : i \in I}) = Cardinality(I)
<1>. DEFINE f == [i \in I |-> logs[i]]
            T == {logs[i] : i \in I}
<1>1. IsFiniteSet(I)
  <2>1. 1 \in Int /\ Len(logs) \in Int
    OBVIOUS
  <2>2. IsFiniteSet(1..Len(logs))
    BY <2>1, FS_Interval
  <2>3. QED
    BY <2>2, FS_Subset
<1>2. f \in [I -> T] /\ \A i, j \in I : f[i] = f[j] => i = j
  BY DEF Distinct
<1>3. \A n \in T : \E i \in I : f[i] = n
  OBVIOUS
<1>. HIDE DEF f, T
<1>4. f \in Bijection(I, T)
  BY <1>2, <1>3 DEF Bijection, Injection, Surjection, IsInjective
<1>5. IsFiniteSet(T) /\ Cardinality(T) = Cardinality(I)
  BY <1>1, <1>4, FS_Bijection DEF ExistsBijection
<1>6. QED
  BY <1>1, <1>5 DEF T

(* addLogs adds the newest entries of one unit or PID, none twice. *)
LEMMA AddFacts ==
  ASSUME NEW logs \in Seq(Entries), Distinct(logs), NEW x
  PROVE  /\ AddLogs(logs, x) \in Seq(Entries) /\ Distinct(AddLogs(logs, x))
         /\ Shown(AddLogs(logs, x)) = Shown(logs) \cup Newest(x)
<1>. DEFINE S == Newest(x) \ Shown(logs)
            new == InOrder(S)
            both == logs \o new
<1>1. S \in SUBSET Entries
  BY DEF Newest, Scope
<1>. HIDE DEF S
<1>2. new \in Seq(Entries) /\ Shown(new) = S /\ Distinct(new)
  BY <1>1, InOrderFacts
<1>. HIDE DEF new
<1>3. /\ both \in Seq(Entries) /\ Len(both) = Len(logs) + Len(new)
      /\ Len(logs) \in Nat /\ Len(new) \in Nat
      /\ DOMAIN both = 1..Len(both) /\ DOMAIN logs = 1..Len(logs) /\ DOMAIN new = 1..Len(new)
      /\ \A i \in 1..Len(logs) : both[i] = logs[i]
      /\ \A i \in 1..Len(both) : i > Len(logs) => both[i] = new[i - Len(logs)]
      /\ \A i \in 1..Len(new) : both[Len(logs) + i] = new[i]
  BY <1>2
<1>. HIDE DEF both
<1>4. ASSUME NEW i \in DOMAIN both
      PROVE  \/ i \in 1..Len(logs) /\ both[i] = logs[i] /\ both[i] \in Shown(logs)
             \/ /\ i - Len(logs) \in 1..Len(new) /\ both[i] = new[i - Len(logs)]
                /\ i \in Nat /\ both[i] \in S
  <2>1. CASE i <= Len(logs)
    BY <1>3, <2>1 DEF Shown
  <2>2. CASE ~(i <= Len(logs))
    <3>1. i - Len(logs) \in 1..Len(new) /\ both[i] = new[i - Len(logs)] /\ i \in Nat
      BY <1>3, <2>2
    <3>2. both[i] \in Shown(new)
      BY <1>3, <3>1 DEF Shown
    <3>3. QED
      BY <1>2, <3>1, <3>2
  <2>3. QED
    BY <2>1, <2>2
<1>5. Distinct(both)
  <2>1. SUFFICES ASSUME NEW i \in DOMAIN both, NEW j \in DOMAIN both, both[i] = both[j]
                 PROVE  i = j
    BY DEF Distinct
  <2>2. CASE both[i] \in Shown(logs)
    <3>1. i \in 1..Len(logs) /\ j \in 1..Len(logs) /\ both[i] = logs[i] /\ both[j] = logs[j]
      BY <1>4, <2>1, <2>2 DEF S
    <3>2. QED
      BY <1>3, <2>1, <3>1 DEF Distinct
  <2>3. CASE both[i] \notin Shown(logs)
    <3>1. /\ i - Len(logs) \in 1..Len(new) /\ both[i] = new[i - Len(logs)] /\ i \in Nat
          /\ j - Len(logs) \in 1..Len(new) /\ both[j] = new[j - Len(logs)] /\ j \in Nat
      BY <1>4, <2>1, <2>3
    <3>2. i - Len(logs) = j - Len(logs)
      BY <1>2, <1>3, <2>1, <3>1 DEF Distinct
    <3>3. QED
      BY <1>3, <3>1, <3>2
  <2>4. QED
    BY <2>2, <2>3
<1>6. Shown(both) = Shown(logs) \cup Newest(x)
  <2>1. Shown(both) \subseteq Shown(logs) \cup S
    BY <1>4 DEF Shown
  <2>2. Shown(logs) \subseteq Shown(both)
    BY <1>3 DEF Shown
  <2>3. Shown(new) \subseteq Shown(both)
    <3>1. SUFFICES ASSUME NEW i \in 1..Len(new) PROVE new[i] \in Shown(both)
      BY <1>3 DEF Shown
    <3>2. Len(logs) + i \in 1..Len(both)
      BY <1>3
    <3>3. QED
      BY <1>3, <3>2 DEF Shown
  <2>4. QED
    BY <1>2, <2>1, <2>2, <2>3 DEF S
<1>7. QED
  BY <1>3, <1>5, <1>6 DEF AddLogs, both, new, S

(* Collected: shown, or left out for at least LogLimit newer ones. *)
Collected(n, logs) ==
  n \in Shown(logs) \/ Cardinality({m \in Shown(logs) : m > n}) >= LogLimit

(* It stays so when more is shown. *)
LEMMA CollectedBy ==
  ASSUME NEW logs \in Seq(Entries), Distinct(logs), NEW n, NEW A \in SUBSET Shown(logs),
         Cardinality({m \in A : m > n}) >= LogLimit
  PROVE  Collected(n, logs)
<1>. DEFINE B == {m \in Shown(logs) : m > n}
            C == {m \in A : m > n}
<1>1. IsFiniteSet(Shown(logs))
  <2>1. Shown(logs) = {logs[i] : i \in 1..Len(logs)} /\ 1..Len(logs) \in SUBSET (1..Len(logs))
    BY DEF Shown
  <2>2. QED
    BY <2>1, DistinctCount
<1>2. C \in SUBSET B /\ B \in SUBSET Shown(logs) /\ Cardinality(C) >= LogLimit
  OBVIOUS
<1>. HIDE DEF B, C
<1>3. IsFiniteSet(B) /\ IsFiniteSet(C) /\ Cardinality(C) <= Cardinality(B)
  BY <1>1, <1>2, FS_Subset
<1>4. Cardinality(B) \in Nat /\ Cardinality(C) \in Nat /\ LogLimit \in Nat
  BY <1>3, FS_CardinalityType, ExplorerAssumption
<1>5. Cardinality(B) >= LogLimit
  BY <1>2, <1>3, <1>4
<1>6. QED
  BY <1>5 DEF Collected, B

(* Sorting and cutting to the limit keeps the newest of what was collected *)
(* from the logs read one after the other.                                 *)
LEMMA NewestOfAll ==
  ASSUME NEW E \in SUBSET Entries, NEW logs \in Seq(Entries), Distinct(logs),
         \A n \in E : Collected(n, logs)
  PROVE  LET kept == FinalizeLogs(logs)
         IN  /\ Cardinality(Shown(kept)) = Len(kept)
             /\ \A n \in E \ Shown(kept) : Len(kept) = LogLimit /\ \A m \in Shown(kept) : m > n
<1>. DEFINE kept == FinalizeLogs(logs)
            N == Len(logs)
<1>1. /\ kept \in Seq(Entries) /\ Distinct(kept)
      /\ N >= LogLimit => Len(kept) = LogLimit
      /\ \A n \in Shown(logs) \ Shown(kept) :
           Len(kept) = LogLimit /\ \A m \in Shown(kept) : m > n
      /\ \A n \in Shown(kept) : Cardinality({i \in 1..N : logs[i] > n}) < LogLimit
  BY FinalFacts
<1>2. /\ N \in Nat /\ LogLimit \in Nat /\ Entries \subseteq Nat
      /\ DOMAIN logs = 1..N /\ \A i \in 1..N : logs[i] \in Entries
  BY ExplorerAssumption DEF Entries
<1>. HIDE DEF kept, N
<1>3. Cardinality(Shown(kept)) = Len(kept)
  <2>1. Len(kept) \in Nat /\ DOMAIN kept = 1..Len(kept) /\ 1..Len(kept) \in SUBSET (1..Len(kept))
    BY <1>1
  <2>2. Shown(kept) = {kept[i] : i \in 1..Len(kept)}
    BY <2>1 DEF Shown
  <2>3. Cardinality(Shown(kept)) = Cardinality(1..Len(kept))
    BY <1>1, <2>1, <2>2, DistinctCount
  <2>4. Cardinality(1..Len(kept)) = Len(kept)
    <3>1. 1 \in Int /\ Len(kept) \in Int /\ (1 > Len(kept) => Len(kept) = 0)
      BY <2>1
    <3>2. Cardinality(1..Len(kept)) = IF 1 > Len(kept) THEN 0 ELSE Len(kept) - 1 + 1
      BY <3>1, FS_Interval
    <3>3. QED
      BY <2>1, <3>1, <3>2
  <2>5. QED
    BY <2>3, <2>4
<1>4. ASSUME NEW n \in E, n \notin Shown(kept)
      PROVE  Len(kept) = LogLimit /\ \A m \in Shown(kept) : m > n
  <2>1. CASE n \in Shown(logs)
    BY <1>1, <1>4, <2>1
  <2>2. CASE n \notin Shown(logs)
    <3>. DEFINE I == {i \in 1..N : logs[i] > n}
                A == {m \in Shown(logs) : m > n}
    <3>1. Cardinality(A) >= LogLimit
      BY <1>4, <2>2 DEF Collected
    <3>2. A \subseteq {logs[i] : i \in I}
      <4>1. SUFFICES ASSUME NEW m \in A PROVE m \in {logs[i] : i \in I}
        OBVIOUS
      <4>2. m \in Shown(logs)
        BY <1>4
      <4>3. PICK i \in 1..N : m = logs[i]
        BY <1>2, <4>2 DEF Shown
      <4>4. QED
        BY <4>3
    <3>3. I \in SUBSET (1..Len(logs))
      BY DEF N
    <3>. HIDE DEF I, A
    <3>4. /\ IsFiniteSet(I) /\ IsFiniteSet({logs[i] : i \in I})
          /\ Cardinality({logs[i] : i \in I}) = Cardinality(I)
      BY <3>3, DistinctCount
    <3>5. IsFiniteSet(A) /\ Cardinality(A) <= Cardinality({logs[i] : i \in I})
      BY <3>2, <3>4, FS_Subset
    <3>6. Cardinality(I) >= LogLimit /\ Cardinality(I) \in Nat
      <4>1. Cardinality(A) \in Nat /\ Cardinality(I) \in Nat
        BY <3>4, <3>5, FS_CardinalityType
      <4>2. QED
        BY <1>2, <3>1, <3>4, <3>5, <4>1
    <3>7. Cardinality(I) <= N
      <4>1. IsFiniteSet(1..N) /\ Cardinality(1..N) = N
        BY <1>2, FS_Interval
      <4>2. I \in SUBSET (1..N)
        BY DEF I
      <4>3. QED
        BY <4>1, <4>2, FS_Subset
    <3>8. Len(kept) = LogLimit
      BY <1>1, <1>2, <3>6, <3>7
    <3>9. ASSUME NEW m \in Shown(kept), ~(m > n) PROVE FALSE
      <4>. DEFINE J == {i \in 1..N : logs[i] > m}
      <4>1. m \in Nat /\ n \in Nat
        <5>1. \A i \in DOMAIN kept : kept[i] \in Entries
          BY <1>1
        <5>2. m \in Entries /\ n \in Entries
          BY <5>1 DEF Shown
        <5>3. QED
          BY <1>2, <5>2
      <4>2. \A i \in 1..N : logs[i] > n => logs[i] > m
        <5>1. \A i \in 1..N : logs[i] \in Nat
          BY <1>2
        <5>2. QED
          BY <3>9, <4>1, <5>1
      <4>3. I \in SUBSET J
        BY <4>2 DEF I
      <4>4. Cardinality(J) < LogLimit
        BY <1>1
      <4>5. J \in SUBSET (1..N) /\ IsFiniteSet(1..N)
        BY <1>2, FS_Interval
      <4>. HIDE DEF J
      <4>6. IsFiniteSet(J) /\ Cardinality(J) \in Nat
        BY <4>5, FS_Subset, FS_CardinalityType
      <4>7. Cardinality(I) <= Cardinality(J)
        BY <4>3, <4>6, FS_Subset
      <4>8. QED
        BY <1>2, <3>6, <4>4, <4>6, <4>7
    <3>10. QED
      BY <3>8, <3>9
  <2>3. QED
    BY <2>1, <2>2
<1>5. QED
  BY <1>3, <1>4 DEF kept
-----------------------------------------------------------------------------
(* Types, those of the log of the answer aside: see LogsInv.               *)

GraphOK(g) ==
  /\ g = [procs |-> g.procs, svcs |-> g.svcs, ports |-> g.ports, logs |-> g.logs]
  /\ g.procs \in SUBSET Pids
  /\ g.svcs \in SUBSET Units
  /\ g.ports \in SUBSET Inodes

AnyUnit == Units \cup {NoUnit}
Notes == {"none", "silent", "warning"}
Roots == [kind : {"none", "port", "pid", "unit"}, pid : Pids, unit : AnyUnit]
Probes == [unit : AnyUnit, exists : BOOLEAN, failed : BOOLEAN]

\* The variables of the command, the places it can be at and the ends it can
\* have aside.
DataOK ==
  /\ HostTypeOK
  /\ root \in Roots
  /\ probe \in Probes
  /\ socks \in SUBSET Inodes
  /\ owned \in [Inodes -> SUBSET Pids]
  /\ unvisited \in SUBSET (Pids \cup Units)
  /\ service \in [Pids -> AnyUnit]
  /\ portsOk \in BOOLEAN
  /\ GraphOK(graph)
  /\ written \in LogStart..Len(LogUnit)
  /\ note \in Notes \/ (note = "dropped" /\ xpc = "over")

(* Each field of a graph can be replaced without touching the others. *)
LEMMA GraphFields ==
  ASSUME NEW g, GraphOK(g), NEW x
  PROVE  /\ [g EXCEPT !.procs = x] =
              [procs |-> x, svcs |-> g.svcs, ports |-> g.ports, logs |-> g.logs]
         /\ [g EXCEPT !.svcs = x] =
              [procs |-> g.procs, svcs |-> x, ports |-> g.ports, logs |-> g.logs]
         /\ [g EXCEPT !.ports = x] =
              [procs |-> g.procs, svcs |-> g.svcs, ports |-> x, logs |-> g.logs]
         /\ [g EXCEPT !.logs = x] =
              [procs |-> g.procs, svcs |-> g.svcs, ports |-> g.ports, logs |-> x]
BY DEF GraphOK

(* What the command is asked about, as Explore and the resolver write it. *)
LEMMA RootFields ==
  ASSUME NEW k, NEW p, NEW u
  PROVE  /\ NoRoot = [kind |-> "none", pid |-> Number, unit |-> NoUnit]
         /\ [NoRoot EXCEPT !.kind = k] = [kind |-> k, pid |-> Number, unit |-> NoUnit]
         /\ [NoRoot EXCEPT !.kind = k, !.pid = p] \in [kind : {k}, pid : {p}, unit : {NoUnit}]
         /\ [NoRoot EXCEPT !.kind = k, !.unit = u] \in [kind : {k}, pid : {Number}, unit : {u}]
<1>1. [NoRoot EXCEPT !.kind = k] = [kind |-> k, pid |-> Number, unit |-> NoUnit]
  BY DEF NoRoot
<1>2. [NoRoot EXCEPT !.kind = k, !.pid = p] \in [kind : {k}, pid : {p}, unit : {NoUnit}]
  BY DEF NoRoot
<1>3. [NoRoot EXCEPT !.kind = k, !.unit = u] \in [kind : {k}, pid : {Number}, unit : {u}]
  BY DEF NoRoot
<1>4. QED
  BY <1>1, <1>2, <1>3 DEF NoRoot

(* Where a command starts. *)
LEMMA ExploreFacts ==
  ASSUME Explore
  PROVE  \/ /\ ask' = "empty" /\ xpc' = "over" /\ xend' = "InvalidArgument"
            /\ root' = root
         \/ /\ ask' = "port:" /\ xpc' = "dump" /\ xend' = xend
            /\ root' = [kind |-> "port", pid |-> Number, unit |-> NoUnit]
         \/ /\ ask' = "pid:" /\ xpc' = "process" /\ xend' = xend
            /\ root' = [kind |-> "pid", pid |-> Number, unit |-> NoUnit]
         \/ /\ ask' = "service:" /\ xpc' = "service" /\ xend' = xend
            /\ root' \in [kind : {"unit"}, pid : {Number}, unit : AnyUnit]
         \/ /\ ask' = "number" /\ xpc' = "probe" /\ xend' = xend /\ root' = root
         \/ /\ ask' = "name" /\ xpc' = "name" /\ xend' = xend /\ root' = root
         \/ /\ ask' = "find" /\ xpc' = "services" /\ xend' = xend /\ root' = root
<1>. USE DEF Explore, To, Over
<1>1. CASE ask' = "empty"
  BY <1>1
<1>2. CASE ask' = "port:"
  BY <1>2, RootFields
<1>3. CASE ask' = "pid:"
  BY <1>3, RootFields
<1>4. CASE ask' = "service:"
  <2>1. PICK u \in Units \cup {NoUnit} : root' = [NoRoot EXCEPT !.kind = "unit", !.unit = u]
    BY <1>4
  <2>2. root' \in [kind : {"unit"}, pid : {Number}, unit : {u}]
    BY <2>1, RootFields
  <2>3. QED
    BY <1>4, <2>2 DEF AnyUnit
<1>5. CASE ask' = "number"
  BY <1>5
<1>6. CASE ask' = "name"
  BY <1>6
<1>7. CASE ask' = "find"
  BY <1>7
<1>8. ask' \in LookupKinds
  BY ExplorerAssumption
<1>9. QED
  BY <1>1, <1>2, <1>3, <1>4, <1>5, <1>6, <1>7, <1>8 DEF LookupKinds

(* Reading a log leaves the rest of the answer alone. *)
LEMMA LogKeeps ==
  ASSUME NEW g, GraphOK(g), NEW x, NEW read
  PROVE  /\ GraphOK(WithLog(g, x, read))
         /\ WithLog(g, x, read).procs = g.procs
         /\ WithLog(g, x, read).svcs = g.svcs
         /\ WithLog(g, x, read).ports = g.ports
<1>1. CASE read
  <2>1. WithLog(g, x, read) = [procs |-> g.procs, svcs |-> g.svcs, ports |-> g.ports,
                               logs |-> AddLogs(g.logs, x)]
    BY <1>1, GraphFields DEF WithLog
  <2>2. QED
    BY <2>1 DEF GraphOK
<1>2. CASE ~read
  BY <1>2 DEF WithLog
<1>3. QED
  BY <1>1, <1>2

(* A related service is added to the answer when systemd knows it. *)
LEMMA ServiceAdded ==
  ASSUME NEW g, GraphOK(g), NEW u, NEW a \in GetService(u), u \in AnyUnit
  PROVE  /\ GraphOK(WithService(g, u, a))
         /\ WithService(g, u, a).procs = g.procs
         /\ g.svcs \subseteq WithService(g, u, a).svcs
         /\ a \in {"ok", "partial"} => u \in WithService(g, u, a).svcs /\ u # NoUnit
         /\ WithService(g, u, a).ports = g.ports
<1>1. CASE a \in {"ok", "partial"}
  <2>1. u \in Units
    BY <1>1 DEF GetService, AnyUnit
  <2>2. WithService(g, u, a) = [procs |-> g.procs, svcs |-> g.svcs \cup {u},
                                ports |-> g.ports, logs |-> g.logs]
    BY <1>1, GraphFields DEF WithService
  <2>3. QED
    BY <2>1, <2>2, HostAssumption DEF GraphOK
<1>2. CASE a \notin {"ok", "partial"}
  BY <1>2 DEF WithService
<1>3. QED
  BY <1>1, <1>2

(* What a call that inspects a process can have answered. *)
LEMMA InspectFacts ==
  ASSUME DataOK, NEW p \in Pids, NEW a \in InspectProcess(p)
  PROVE  /\ a.ok \in BOOLEAN /\ a.note \in Notes
         /\ a.unit \in {unitOf[p], NoUnit}
         /\ a.unit \in AnyUnit
         /\ a.note = "none" => a.ok /\ p \in alive /\ a.unit = unitOf[p]
         /\ ~a.ok => a.note = "warning"
         /\ ~a.ok => p \notin alive \/ Fails("process")
<1>1. a \in [ok : BOOLEAN, unit : {unitOf[p], NoUnit}, note : {"none", "silent", "warning"}]
  BY DEF InspectProcess
<1>2. unitOf[p] \in AnyUnit
  BY DEF DataOK, HostTypeOK, AnyUnit
<1>3. a.ok \in BOOLEAN /\ a.unit \in {unitOf[p], NoUnit} /\ a.note \in Notes
  BY <1>1 DEF Notes
<1>4. CASE ~a.ok
  <2>1. (p \notin alive \/ Fails("process")) /\ a.unit = NoUnit /\ a.note = "warning"
    BY <1>4 DEF InspectProcess
  <2>2. QED
    BY <2>1, <1>2, <1>3, <1>4 DEF AnyUnit
<1>5. CASE a.ok /\ a.note = "none"
  <2>1. p \in alive /\ a.unit = unitOf[p]
    BY <1>5 DEF InspectProcess
  <2>2. QED
    BY <2>1, <1>2, <1>3, <1>5
<1>6. CASE a.ok /\ a.note # "none"
  BY <1>2, <1>3, <1>6 DEF AnyUnit
<1>7. QED
  BY <1>3, <1>4, <1>5, <1>6

(* What a list of processes can hold. *)
LEMMA ListFacts ==
  ASSUME DataOK, NEW a \in ListProcesses
  PROVE  /\ a.rows \in SUBSET Pids /\ a.note \in Notes
         /\ a.rows \subseteq alive
         /\ a.note = "none" => a.rows = alive /\ a.unitless = {}
<1>1. a \in [rows : SUBSET alive, unitless : SUBSET alive, note : {"none", "silent", "warning"}]
  BY DEF ListProcesses
<1>2. a.rows \in SUBSET alive /\ a.note \in Notes
  BY <1>1 DEF Notes
<1>3. a.note = "none" => a.rows = alive /\ a.unitless = {}
  BY DEF ListProcesses
<1>4. QED
  BY <1>2, <1>3 DEF DataOK, HostTypeOK

LEMMA WorseFacts ==
  ASSUME note \in Notes, NEW n \in Notes
  PROVE  /\ Worse(n) \in Notes
         /\ Worse(n) = "none" => note = "none" /\ n = "none"
BY DEF Worse, Notes

LEMMA ExplorerDataInit == ExplorerInit => DataOK
<1> SUFFICES ASSUME ExplorerInit PROVE DataOK
  OBVIOUS
<1>1. HostTypeOK
  BY HostAssumption DEF ExplorerInit, HostInit, HostTypeOK, Bound
<1>2. root \in Roots
  BY ExplorerAssumption DEF ExplorerInit, NoRoot, Roots, AnyUnit
<1>3. probe \in Probes
  BY DEF ExplorerInit, Probes, AnyUnit
<1>4. GraphOK(graph)
  BY DEF ExplorerInit, NoGraph, GraphOK
<1>5. service \in [Pids -> AnyUnit] /\ owned \in [Inodes -> SUBSET Pids]
  BY DEF ExplorerInit, NoServices, AnyUnit
<1>6. written \in LogStart..Len(LogUnit)
  BY ExplorerAssumption DEF ExplorerInit
<1>7. QED
  BY <1>1, <1>2, <1>3, <1>4, <1>5, <1>6 DEF ExplorerInit, DataOK, Notes

LEMMA HostKeepsTypes == HostTypeOK /\ HostNext => HostTypeOK'
<1> SUFFICES ASSUME HostTypeOK, HostNext PROVE HostTypeOK'
  OBVIOUS
<1>. USE HostAssumption DEF HostTypeOK
<1>1. ASSUME NEW p \in Pids, Exit(p) PROVE HostTypeOK'
  BY <1>1 DEF Exit
<1>2. ASSUME NEW p \in Pids, Spawn(p) PROVE HostTypeOK'
  BY <1>2 DEF Spawn, Move
<1>3. ASSUME NEW p \in Pids, NEW i \in Inodes, Bind(p, i) PROVE HostTypeOK'
  BY <1>3 DEF Bind, Move
<1>4. ASSUME NEW p \in Pids, NEW i \in Inodes, Share(p, i) PROVE HostTypeOK'
  BY <1>4 DEF Share, Move
<1>5. ASSUME NEW p \in Pids, NEW i \in Inodes, Close(p, i) PROVE HostTypeOK'
  BY <1>5 DEF Close, Move
<1>6. QED
  BY <1>1, <1>2, <1>3, <1>4, <1>5 DEF HostNext

(* The types of the command's variables follow its steps. *)
LEMMA ExplorerDataNext == DataOK /\ [ExplorerNext]_xVars => DataOK'
<1> SUFFICES ASSUME DataOK, [ExplorerNext]_xVars PROVE DataOK'
  OBVIOUS
<1>. USE DEF worldVars, hostVars, callVars, pastVars
<1>0. NoRoot \in Roots /\ NoServices \in [Pids -> AnyUnit]
  BY ExplorerAssumption DEF NoRoot, Roots, AnyUnit, NoServices
<1>1. ASSUME HostGoesOn PROVE DataOK'
  <2>1. HostTypeOK'
    BY <1>1, HostKeepsTypes DEF HostGoesOn, JournalGrows, DataOK, HostTypeOK
  <2>2. written' \in LogStart..Len(LogUnit)
    BY <1>1, ExplorerAssumption DEF HostGoesOn, JournalGrows, DataOK
  <2>3. QED
    BY <1>1, <2>1, <2>2 DEF HostGoesOn, DataOK
<1>2. ASSUME Explore PROVE DataOK'
  <2>1. root' \in Roots
    BY <1>2, ExploreFacts, ExplorerAssumption DEF DataOK, Roots, AnyUnit
  <2>2. probe' \in Probes
    <3>1. PICK u \in IF ask' \in {"name", "find"} THEN NamedUnits ELSE {NoUnit} :
            probe' = [probe EXCEPT !.unit = u]
      BY <1>2 DEF Explore
    <3>2. u \in AnyUnit
      BY ExplorerAssumption DEF AnyUnit
    <3>3. QED
      BY <3>1, <3>2 DEF DataOK, Probes
  <2>3. QED
    BY <1>2, <2>1, <2>2 DEF Explore, DataOK, HostTypeOK
<1>3. ASSUME ProbeProcess PROVE DataOK'
  <2>1. probe' \in Probes
    <3>1. PICK a \in InspectProcess(Number) :
            probe' = [probe EXCEPT !.exists = a.ok, !.failed = ~a.ok /\ Number \in alive]
      BY <1>3 DEF ProbeProcess
    <3>2. a.ok \in BOOLEAN
      BY InspectFacts, ExplorerAssumption
    <3>3. QED
      BY <3>1, <3>2 DEF DataOK, Probes
  <2>2. QED
    BY <1>3, <2>1 DEF ProbeProcess, DataOK, HostTypeOK
<1>4. ASSUME NumberResolved PROVE DataOK'
  <2>1. root' \in Roots
    BY <1>0, <1>4 DEF NumberResolved, DataOK, Roots
  <2>2. probe' \in Probes
    BY <1>4 DEF NumberResolved, DataOK, Probes
  <2>3. QED
    BY <1>4, <2>1, <2>2 DEF NumberResolved, DataOK, Notes, HostTypeOK
<1>5. ASSUME NameLookedUp PROVE DataOK'
  <2>1. NamedUnit \in AnyUnit
    BY DEF DataOK, Probes, NamedUnit
  <2>2. root' \in Roots
    BY <1>0, <1>5, <2>1 DEF NameLookedUp, DataOK, Roots
  <2>3. probe' \in Probes
    BY <1>5 DEF NameLookedUp, DataOK, Probes
  <2>4. QED
    BY <1>5, <2>2, <2>3 DEF NameLookedUp, DataOK, HostTypeOK
<1>6. ASSUME NamesListed PROVE DataOK'
  <2>1. CASE UNCHANGED <<root, probe>>
    BY <1>6, <2>1 DEF NamesListed, DataOK, HostTypeOK
  <2>2. CASE \E a \in ListProcesses :
               /\ \/ \E p \in a.rows : root' = [NoRoot EXCEPT !.kind = "pid", !.pid = p]
                  \/ UNCHANGED root
               /\ probe' = [probe EXCEPT !.failed = @ \/ a.rows # alive]
    <3>1. root' \in Roots
      <4>1. CASE UNCHANGED root
        BY <4>1 DEF DataOK
      <4>2. CASE \E p \in Pids : root' = [NoRoot EXCEPT !.kind = "pid", !.pid = p]
        BY <4>2, RootFields, ZenonT(30) DEF Roots, AnyUnit
      <4>3. QED
        BY <2>2, <4>1, <4>2, ListFacts
    <3>2. probe' \in Probes
      BY <2>2 DEF DataOK, Probes
    <3>3. QED
      BY <1>6, <3>1, <3>2 DEF NamesListed, DataOK, HostTypeOK
  <2>3. QED
    BY <1>6, <2>1, <2>2 DEF NamesListed
<1>7. ASSUME DumpSockets PROVE DataOK'
  <2>1. socks' \in SUBSET Inodes
    BY <1>7 DEF DumpSockets, PortsFailed, Wanted, Bound, DataOK
  <2>2. probe' \in Probes
    BY <1>7 DEF DumpSockets, PortsFailed, DataOK, Probes
  <2>3. note' \in Notes /\ portsOk' \in BOOLEAN /\ UNCHANGED <<owned, unvisited>>
    BY <1>7 DEF DumpSockets, PortsFailed, DataOK, Notes, Worse
  <2>4. QED
    BY <1>0, <1>7, <2>1, <2>2, <2>3 DEF DumpSockets, DataOK, HostTypeOK
<1>8. ASSUME ResolveOwners PROVE DataOK'
  <2>1. CASE PortsFailed
    <3>1. probe' \in Probes
      BY <2>1 DEF PortsFailed, DataOK, Probes
    <3>2. QED
      BY <1>8, <2>1, <3>1 DEF ResolveOwners, PortsFailed, DataOK, HostTypeOK
  <2>2. CASE /\ \E hidden \in SUBSET alive :
                  /\ owned' = [i \in Inodes |-> IF i \in socks THEN holders[i] \ hidden ELSE {}]
                  /\ note' = IF hidden = {} THEN note ELSE "warning"
             /\ unvisited' = UNION {owned'[i] : i \in socks}
             /\ UNCHANGED <<probe, socks, portsOk>>
    <3>0. xpc = "scan"
      BY <1>8 DEF ResolveOwners
    <3>1. owned' \in [Inodes -> SUBSET Pids] /\ note' \in Notes
      BY <2>2, <3>0 DEF DataOK, HostTypeOK, Notes
    <3>2. unvisited' \in SUBSET (Pids \cup Units)
      BY <2>2, <3>1 DEF DataOK
    <3>3. QED
      BY <1>8, <2>2, <3>1, <3>2 DEF ResolveOwners, DataOK, HostTypeOK
  <2>3. QED
    BY <1>8, <2>1, <2>2 DEF ResolveOwners
<1>9. ASSUME PortsInspected \/ CallThrows PROVE DataOK'
  BY <1>9 DEF PortsInspected, CallThrows, DataOK, HostTypeOK
<1>10. ASSUME NEW p \in Pids, InspectOwner(p) PROVE DataOK'
  <2>1. PICK a \in InspectProcess(p) :
          /\ service' = [service EXCEPT ![p] = a.unit]
          /\ note' = Worse(a.note)
          /\ graph' = IF a.ok /\ root.kind = "port"
                        THEN [graph EXCEPT !.procs = graph.procs \cup {p}] ELSE graph
    BY <1>10 DEF InspectOwner
  <2>2. a.unit \in AnyUnit /\ a.note \in Notes
    BY InspectFacts
  <2>3. service' \in [Pids -> AnyUnit]
    BY <2>1, <2>2 DEF DataOK
  <2>4. note' \in Notes
    BY <1>10, <2>1, <2>2, WorseFacts DEF InspectOwner, DataOK
  <2>5. GraphOK(graph')
    BY <2>1, GraphFields DEF DataOK, GraphOK
  <2>6. QED
    BY <1>10, <2>3, <2>4, <2>5 DEF InspectOwner, DataOK, HostTypeOK
<1>11. ASSUME NEW p \in Pids, VisitPid(p) PROVE DataOK'
  <2>1. GraphOK(graph')
    BY <1>11, LogKeeps DEF VisitPid, DataOK
  <2>2. QED
    BY <1>11, <2>1 DEF VisitPid, DataOK, HostTypeOK, Notes
<1>12. ASSUME NEW u \in Units, VisitUnit(u) PROVE DataOK'
  <2>1. GraphOK(graph')
    BY <1>12, LogKeeps, ServiceAdded DEF VisitUnit, DataOK, AnyUnit
  <2>2. QED
    BY <1>12, <2>1 DEF VisitUnit, DataOK, HostTypeOK, Notes
<1>13. ASSUME NEW u \in Units, RelatedService(u) PROVE DataOK'
  <2>1. GraphOK(graph')
    BY <1>13, ServiceAdded DEF RelatedService, DataOK, AnyUnit
  <2>2. QED
    BY <1>13, <2>1 DEF RelatedService, DataOK, HostTypeOK, Notes
<1>14. ASSUME PortRoot PROVE DataOK'
  <2>1. GraphOK(graph')
    BY <1>14, GraphFields, ZenonT(30) DEF PortRoot, DataOK, GraphOK
  <2>2. unvisited' \in SUBSET (Pids \cup Units)
    BY <1>14 DEF PortRoot, DataOK, GraphOK, AnyUnit
  <2>3. note' \in Notes \/ (note' = "dropped" /\ xpc' = "over")
    BY <1>14 DEF PortRoot, Dropped, Over, DataOK, Notes
  <2>4. QED
    BY <1>14, <2>1, <2>2, <2>3 DEF PortRoot, DataOK, HostTypeOK
<1>15. ASSUME ProcessRoot PROVE DataOK'
  <2>1. root.pid \in Pids
    BY DEF DataOK, Roots
  <2>2. PICK a \in InspectProcess(root.pid) :
          \/ UNCHANGED <<graph, note, unvisited>>
          \/ /\ graph' = [graph EXCEPT !.procs = {root.pid}]
             /\ note' = Worse(a.note)
             /\ unvisited' = {a.unit} \ {NoUnit}
    BY <1>15 DEF ProcessRoot
  <2>3. a.unit \in AnyUnit /\ a.note \in Notes
    BY <2>1, InspectFacts
  <2>4. GraphOK(graph')
    <3>1. GraphOK([graph EXCEPT !.procs = {root.pid}])
      BY <2>1, GraphFields DEF DataOK, GraphOK
    <3>2. QED
      BY <2>2, <3>1 DEF DataOK
  <2>5. note' \in Notes /\ unvisited' \in SUBSET (Pids \cup Units)
    BY <1>15, <2>2, <2>3, WorseFacts DEF ProcessRoot, DataOK, AnyUnit
  <2>6. QED
    BY <1>15, <2>4, <2>5 DEF ProcessRoot, DataOK, HostTypeOK
<1>16. ASSUME ServiceRoot PROVE DataOK'
  <2>1. root.unit \in AnyUnit
    BY DEF DataOK, Roots
  <2>2. GraphOK(graph') /\ note' \in Notes
    BY <1>16, <2>1, ServiceAdded DEF ServiceRoot, DataOK, Notes
  <2>3. QED
    BY <1>16, <2>2 DEF ServiceRoot, DataOK, HostTypeOK
<1>17. ASSUME Members PROVE DataOK'
  <2>1. CASE note' = "warning" /\ UNCHANGED graph
    BY <1>17, <2>1 DEF Members, DataOK, HostTypeOK, Notes
  <2>2. CASE \E a \in ListProcesses :
               /\ graph' = [graph EXCEPT !.procs = {p \in a.rows : UnitIn(a, p) = root.unit}]
               /\ note' = Worse(a.note)
    <3>1. PICK a \in ListProcesses :
               /\ graph' = [graph EXCEPT !.procs = {p \in a.rows : UnitIn(a, p) = root.unit}]
               /\ note' = Worse(a.note)
      BY <2>2
    <3>2. GraphOK(graph')
      BY <3>1, ListFacts, GraphFields DEF DataOK, GraphOK
    <3>3. note' \in Notes
      BY <1>17, <3>1, ListFacts, WorseFacts DEF Members, DataOK
    <3>4. QED
      BY <1>17, <3>2, <3>3 DEF Members, DataOK, HostTypeOK
  <2>3. QED
    BY <1>17, <2>1, <2>2 DEF Members
<1>18. ASSUME RelatedPorts PROVE DataOK'
  <2>1. GraphOK(graph')
    BY <1>18, GraphFields DEF RelatedPorts, DataOK, GraphOK
  <2>2. QED
    BY <1>18, <2>1 DEF RelatedPorts, DataOK, HostTypeOK, Notes
<1>19. ASSUME RootLogs PROVE DataOK'
  <2>1. GraphOK(graph')
    BY <1>19, LogKeeps DEF RootLogs, DataOK
  <2>2. QED
    BY <1>19, <2>1 DEF RootLogs, DataOK, HostTypeOK, Notes
<1>20. ASSUME Finalize PROVE DataOK'
  <2>1. GraphOK(graph')
    BY <1>20, GraphFields DEF Finalize, DataOK, GraphOK
  <2>2. QED
    BY <1>20, <2>1 DEF Finalize, DataOK, HostTypeOK
<1>21. ASSUME FindServices PROVE DataOK'
  <2>1. NamedUnit \in AnyUnit
    BY DEF DataOK, Probes, NamedUnit
  <2>2. GraphOK(graph')
    <3>1. {NamedUnit} \ {NoUnit} \in SUBSET Units
      BY <2>1 DEF AnyUnit
    <3>2. GraphOK([graph EXCEPT !.svcs = {NamedUnit} \ {NoUnit}])
      BY <3>1, GraphFields DEF DataOK, GraphOK
    <3>3. QED
      BY <1>21, <3>2 DEF FindServices, DataOK
  <2>3. QED
    BY <1>21, <2>2 DEF FindServices, DataOK, HostTypeOK, Notes
<1>22. ASSUME FindProcesses PROVE DataOK'
  <2>1. CASE Over("failed") /\ note' = Dropped(note) /\ UNCHANGED graph
    BY <1>22, <2>1 DEF FindProcesses, Over, Dropped, DataOK, HostTypeOK, Notes
  <2>2. CASE \E a \in ListProcesses :
               /\ \E S \in SUBSET a.rows : graph' = [graph EXCEPT !.procs = S]
               /\ note' = Worse(a.note)
    <3>1. PICK a \in ListProcesses :
               /\ \E S \in SUBSET a.rows : graph' = [graph EXCEPT !.procs = S]
               /\ note' = Worse(a.note)
      BY <2>2
    <3>2. GraphOK(graph')
      BY <3>1, ListFacts, GraphFields DEF DataOK, GraphOK
    <3>3. note' \in Notes
      BY <1>22, <3>1, ListFacts, WorseFacts DEF FindProcesses, DataOK
    <3>4. QED
      BY <1>22, <3>2, <3>3 DEF FindProcesses, DataOK, HostTypeOK
  <2>3. QED
    BY <1>22, <2>1, <2>2 DEF FindProcesses
<1>23. ASSUME FindPorts PROVE DataOK'
  <2>1. GraphOK(graph')
    BY <1>23, GraphFields DEF FindPorts, FoundPorts, DataOK, GraphOK
  <2>2. note' \in Notes \/ (note' = "dropped" /\ xpc' = "over")
    BY <1>23 DEF FindPorts, Dropped, Over, DataOK, Notes
  <2>3. QED
    BY <1>23, <2>1, <2>2 DEF FindPorts, DataOK, HostTypeOK
<1>24. ASSUME UNCHANGED xVars PROVE DataOK'
  BY <1>24 DEF xVars, DataOK, HostTypeOK
<1>25. QED
  BY <1>1, <1>2, <1>3, <1>4, <1>5, <1>6, <1>7, <1>8, <1>9, <1>10, <1>11, <1>12, <1>13,
     <1>14, <1>15, <1>16, <1>17, <1>18, <1>19, <1>20, <1>21, <1>22, <1>23, <1>24
     DEF ExplorerNext

-----------------------------------------------------------------------------
(* What has been there all along: the host lets go of it, and brings       *)
(* nothing of it back.                                                     *)

PastInv ==
  /\ \A i \in Inodes : holders[i] \subseteq alive
  /\ Bound \subseteq spent
  /\ before0 \subseteq spent
  /\ \A pr \in steadyProcs : pr[1] \in alive /\ pr = <<pr[1], birth[pr[1]]>>
  /\ \A h \in steadyHolds : h[1] \in before0 /\ h[2] \in SteadyPids
  /\ \A h \in steadyHolds : h[2] \in holders[h[1]]

LEMMA PastInit == ExplorerInit => PastInv
<1> SUFFICES ASSUME ExplorerInit PROVE PastInv
  OBVIOUS
<1>1. \A i \in Inodes : holders[i] \subseteq alive
  BY DEF ExplorerInit, HostInit
<1>2. QED
  BY <1>1 DEF ExplorerInit, HostInit, PastInv, Bound

(* A step of the host: no inode is used twice, and a PID keeps its process *)
(* and its unit for as long as it is in use.                               *)
LEMMA HostStepFacts ==
  ASSUME HostTypeOK, HostNext, Bound \subseteq spent,
         \A i \in Inodes : holders[i] \subseteq alive
  PROVE  /\ \A i \in Inodes : holders'[i] \subseteq alive'
         /\ spent \subseteq spent'
         /\ Bound' \subseteq spent'
         /\ Bound' \cap spent \subseteq Bound
         /\ \A p \in alive : birth'[p] = birth[p] /\ unitOf'[p] = unitOf[p]
<1>. USE DEF HostTypeOK, Bound
<1>1. ASSUME NEW p \in Pids, Exit(p)
      PROVE  /\ \A i \in Inodes : holders'[i] \subseteq alive'
             /\ spent' = spent /\ Bound' \subseteq Bound
             /\ UNCHANGED <<birth, unitOf>>
  BY <1>1 DEF Exit
<1>2. ASSUME NEW p \in Pids, Spawn(p)
      PROVE  /\ \A i \in Inodes : holders'[i] \subseteq alive'
             /\ spent' = spent /\ Bound' \subseteq Bound
             /\ \A q \in alive : birth'[q] = birth[q] /\ unitOf'[q] = unitOf[q]
  BY <1>2 DEF Spawn
<1>3. ASSUME NEW p \in Pids, NEW i \in Inodes, Bind(p, i)
      PROVE  /\ \A j \in Inodes : holders'[j] \subseteq alive'
             /\ spent' = spent \cup {i} /\ i \notin spent /\ Bound' \subseteq Bound \cup {i}
             /\ UNCHANGED <<birth, unitOf>>
  BY <1>3 DEF Bind
<1>4. ASSUME NEW p \in Pids, NEW i \in Inodes, Share(p, i)
      PROVE  /\ \A j \in Inodes : holders'[j] \subseteq alive'
             /\ spent' = spent /\ Bound' \subseteq Bound
             /\ UNCHANGED <<birth, unitOf>>
  BY <1>4 DEF Share
<1>5. ASSUME NEW p \in Pids, NEW i \in Inodes, Close(p, i)
      PROVE  /\ \A j \in Inodes : holders'[j] \subseteq alive'
             /\ spent' = spent /\ Bound' \subseteq Bound
             /\ UNCHANGED <<birth, unitOf>>
  BY <1>5 DEF Close
<1>. USE ONLY HostNext, <1>1, <1>2, <1>3, <1>4, <1>5, Bound \subseteq spent
<1>6. CASE \E p \in Pids : Exit(p) \/ Spawn(p)
  BY <1>6
<1>7. CASE \E p \in Pids, i \in Inodes : Bind(p, i) \/ Share(p, i) \/ Close(p, i)
  BY <1>7
<1>8. QED
  BY <1>6, <1>7 DEF HostNext

(* Whatever has been there all along after a step of the host had been     *)
(* there before it, as the same process of the same unit.                  *)
LEMMA HostPast ==
  ASSUME DataOK, PastInv, HostGoesOn
  PROVE  /\ PastInv'
         /\ steadyProcs' \subseteq steadyProcs
         /\ steadyHolds' \subseteq steadyHolds
         /\ SteadyPids' \subseteq SteadyPids
         /\ SteadySocks' \subseteq SteadySocks
         /\ \A p \in SteadyPids' : birth'[p] = birth[p] /\ unitOf'[p] = unitOf[p]
<1>1. /\ \A i \in Inodes : holders'[i] \subseteq alive'
      /\ spent \subseteq spent'
      /\ Bound' \subseteq spent'
      /\ Bound' \cap spent \subseteq Bound
      /\ \A p \in alive : birth'[p] = birth[p] /\ unitOf'[p] = unitOf[p]
  <2>1. CASE HostNext
    BY <2>1, HostStepFacts DEF DataOK, PastInv
  <2>2. CASE JournalGrows
    BY <2>2 DEF JournalGrows, hostVars, PastInv, Bound
  <2>3. QED
    BY <2>1, <2>2 DEF HostGoesOn
<1>2. /\ steadyProcs' = {pr \in steadyProcs : pr[1] \in alive'}
      /\ steadyHolds' = {h \in steadyHolds : h[2] \in holders'[h[1]]}
      /\ before0' = before0
  BY DEF HostGoesOn
<1>3. before0 \subseteq spent' /\ before0 \subseteq Inodes
  BY <1>1 DEF PastInv, DataOK, HostTypeOK
<1>4. \A pr \in steadyProcs' : pr[1] \in alive' /\ pr = <<pr[1], birth'[pr[1]]>>
  BY <1>1, <1>2 DEF PastInv
<1>5. ASSUME NEW h \in steadyHolds'
      PROVE  h[1] \in before0' /\ h[2] \in SteadyPids' /\ h[2] \in holders'[h[1]]
  <2>1. h \in steadyHolds /\ h[2] \in holders'[h[1]] /\ h[1] \in before0
    BY <1>2 DEF PastInv
  <2>2. h[2] \in alive'
    BY <1>1, <1>3, <2>1
  <2>3. PICK pr \in steadyProcs : pr[1] = h[2]
    BY <2>1 DEF PastInv, SteadyPids
  <2>4. pr \in steadyProcs'
    BY <1>2, <2>2, <2>3
  <2>5. QED
    BY <1>2, <2>1, <2>3, <2>4 DEF SteadyPids
<1>6. PastInv'
  BY <1>1, <1>2, <1>3, <1>4, <1>5 DEF PastInv
<1>7. SteadySocks' \subseteq SteadySocks
  BY <1>1, <1>2 DEF SteadySocks, PastInv
<1>8. SteadyPids' \subseteq SteadyPids
  BY <1>2 DEF SteadyPids
<1>9. \A p \in SteadyPids' : p \in alive
  BY <1>8 DEF SteadyPids, PastInv
<1>10. QED
  BY <1>1, <1>2, <1>6, <1>7, <1>8, <1>9

(* A call leaves it alone. *)
LEMMA PastFrame ==
  ASSUME UNCHANGED <<worldVars, pastVars>>
  PROVE  /\ SteadyPids' = SteadyPids /\ SteadySocks' = SteadySocks
         /\ steadyProcs' = steadyProcs /\ steadyHolds' = steadyHolds
         /\ alive' = alive /\ birth' = birth /\ unitOf' = unitOf /\ holders' = holders
         /\ PastInv => PastInv'
BY DEF worldVars, hostVars, pastVars, SteadyPids, SteadySocks, Bound, PastInv

LEMMA PastExplore ==
  ASSUME DataOK, PastInv, Explore
  PROVE  PastInv'
<1>1. /\ steadyProcs' = {<<p, birth[p]>> : p \in alive}
      /\ steadyHolds' = {h \in Inodes \X Pids : h[2] \in holders[h[1]]}
      /\ before0' = Bound
      /\ UNCHANGED <<alive, birth, holders, spent>>
  BY DEF Explore, worldVars, hostVars
<1>2. \A pr \in steadyProcs' : pr[1] \in alive' /\ pr = <<pr[1], birth'[pr[1]]>>
  BY <1>1
<1>3. ASSUME NEW h \in steadyHolds'
      PROVE  h[1] \in before0' /\ h[2] \in SteadyPids' /\ h[2] \in holders'[h[1]]
  <2>1. h[1] \in Inodes /\ h[2] \in holders[h[1]]
    BY <1>1
  <2>2. h[1] \in Bound
    BY <2>1 DEF Bound
  <2>3. h[2] \in alive
    BY <2>1 DEF PastInv
  <2>4. <<h[2], birth[h[2]]>> \in steadyProcs'
    BY <1>1, <2>3
  <2>5. h[2] \in SteadyPids'
    BY <2>4 DEF SteadyPids
  <2>6. QED
    BY <1>1, <2>1, <2>2, <2>5
<1>4. QED
  BY <1>1, <1>2, <1>3 DEF PastInv, Bound

(* The calls of the command, as against what the host does between them. *)
LEMMA CallOrHost ==
  ASSUME ExplorerNext
  PROVE  Explore \/ HostGoesOn \/ UNCHANGED <<worldVars, pastVars>>
<1>1. ASSUME \/ ProbeProcess \/ NumberResolved \/ NameLookedUp \/ NamesListed
             \/ DumpSockets \/ ResolveOwners \/ PortsInspected \/ CallThrows
      PROVE  UNCHANGED <<worldVars, pastVars>>
  BY <1>1 DEF ProbeProcess, NumberResolved, NameLookedUp, NamesListed, DumpSockets,
              ResolveOwners, PortsInspected, CallThrows
<1>2. ASSUME \E p \in Pids : InspectOwner(p) \/ VisitPid(p)
      PROVE  UNCHANGED <<worldVars, pastVars>>
  BY <1>2 DEF InspectOwner, VisitPid
<1>3. ASSUME \E u \in Units : VisitUnit(u) \/ RelatedService(u)
      PROVE  UNCHANGED <<worldVars, pastVars>>
  BY <1>3 DEF VisitUnit, RelatedService
<1>4. ASSUME \/ PortRoot \/ ProcessRoot \/ ServiceRoot \/ Members \/ RelatedPorts
             \/ RootLogs \/ Finalize \/ FindServices \/ FindProcesses \/ FindPorts
      PROVE  UNCHANGED <<worldVars, pastVars>>
  BY <1>4 DEF PortRoot, ProcessRoot, ServiceRoot, Members, RelatedPorts, RootLogs,
              Finalize, FindServices, FindProcesses, FindPorts
<1>5. QED
  BY <1>1, <1>2, <1>3, <1>4 DEF ExplorerNext

LEMMA PastNext == DataOK /\ PastInv /\ [ExplorerNext]_xVars => PastInv'
<1> SUFFICES ASSUME DataOK, PastInv, [ExplorerNext]_xVars PROVE PastInv'
  OBVIOUS
<1>1. CASE UNCHANGED <<worldVars, pastVars>>
  BY <1>1, PastFrame
<1>2. QED
  BY <1>1, CallOrHost, HostPast, PastExplore DEF xVars

-----------------------------------------------------------------------------
(* What was resolved, by where the command is. *)

PortsPcs == {"dump", "scan", "owners", "ports"}

KindInv ==
  /\ xpc \in {"idle", "probe", "name", "names", "services", "processes"} => root.kind = "none"
  /\ xpc = "visit" => root.kind = "port"
  /\ xpc \in {"process", "related"} => root.kind = "pid"
  /\ xpc \in {"service", "members"} => root.kind = "unit"
  /\ xpc \in {"logs", "finalize"} => root.kind \in {"pid", "unit"}
  /\ xpc = "probe" => ask = "number"
  /\ xpc \in {"name", "names"} => ask = "name"
  /\ xpc \in {"services", "processes"} => ask = "find"
  /\ xpc \in PortsPcs /\ root.kind = "none" => ask \in {"number", "find"}
  /\ ask = "find" => root.kind = "none"
  /\ ask = "port:" /\ xpc \notin {"idle", "over"} => root.kind = "port"
  /\ xend # "none" => xpc = "over"

LEMMA KindInit == ExplorerInit => KindInv
BY DEF ExplorerInit, NoRoot, KindInv, PortsPcs

(* The four ways a bare number is resolved. *)
LEMMA NumberFacts ==
  ASSUME DataOK, NumberResolved
  PROVE  /\ \/ /\ xpc' = "over" /\ xend' \in {"Conflict", "NotFound"} /\ root' = root
            \/ /\ ~probe.exists
               /\ xpc' = "dump" /\ xend' = xend
               /\ root' = [kind |-> "port", pid |-> Number, unit |-> NoUnit]
            \/ /\ ~(portsOk /\ socks # {})
               /\ xpc' = "process" /\ xend' = xend
               /\ root' = [kind |-> "pid", pid |-> Number, unit |-> NoUnit]
         /\ probe'.failed = (probe.failed \/ ~portsOk \/ note = "warning")
         /\ probe'.unit = probe.unit /\ probe'.exists = probe.exists
         /\ note' = "none" /\ ask' = ask
<1>1. probe' = [probe EXCEPT !.failed = probe.failed \/ ~portsOk \/ note = "warning"]
  BY DEF NumberResolved
<1>2. /\ probe'.failed = (probe.failed \/ ~portsOk \/ note = "warning")
      /\ probe'.unit = probe.unit /\ probe'.exists = probe.exists
  BY <1>1 DEF DataOK, Probes
<1>3. \/ Over("Conflict") /\ UNCHANGED root
      \/ Over("NotFound") /\ UNCHANGED root
      \/ ~probe.exists /\ root' = [NoRoot EXCEPT !.kind = "port"] /\ To("dump")
      \/ ~(portsOk /\ socks # {}) /\ root' = [NoRoot EXCEPT !.kind = "pid"] /\ To("process")
  BY DEF NumberResolved
<1>4. QED
  BY <1>2, <1>3, RootFields DEF NumberResolved, Over, To

(* The process a name stands for is the only one that bears it. *)
LEMMA NamesFacts ==
  ASSUME DataOK, NamesListed
  PROVE  /\ \/ /\ xpc' = "over" /\ xend' \in {"Conflict", "NotFound", "failed"}
               /\ root' = root
            \/ /\ xpc' = "process" /\ xend' = xend
               /\ \E p \in Pids :
                    /\ root' \in [kind : {"pid"}, pid : {p}, unit : {NoUnit}]
                    /\ ~probe'.failed =>
                         {q \in alive : <<q, birth[q]>> \in Named} \subseteq {p}
         /\ probe'.unit = probe.unit /\ (probe.failed => probe'.failed)
         /\ ask' = ask
<1>1. CASE Over("failed") /\ UNCHANGED <<root, probe>>
  BY <1>1 DEF NamesListed, Over
<1>2. ASSUME NEW a \in ListProcesses, NEW found,
             found = {p \in a.rows : <<p, birth[p]>> \in Named},
             CASE Cardinality(found) = 1 ->
                    /\ \E p \in found : root' = [NoRoot EXCEPT !.kind = "pid", !.pid = p]
                    /\ To("process")
               [] found = {} -> Over("NotFound") /\ UNCHANGED root
               [] OTHER -> Over("Conflict") /\ UNCHANGED root,
             probe' = [probe EXCEPT !.failed = probe.failed \/ a.rows # alive]
      PROVE  /\ \/ /\ xpc' = "over" /\ xend' \in {"Conflict", "NotFound", "failed"}
                   /\ root' = root
                \/ /\ xpc' = "process" /\ xend' = xend
                   /\ \E p \in Pids :
                        /\ root' \in [kind : {"pid"}, pid : {p}, unit : {NoUnit}]
                        /\ ~probe'.failed =>
                             {q \in alive : <<q, birth[q]>> \in Named} \subseteq {p}
             /\ probe'.unit = probe.unit /\ (probe.failed => probe'.failed)
  <2>1. /\ probe'.failed = (probe.failed \/ a.rows # alive)
        /\ probe'.unit = probe.unit
    BY <1>2 DEF DataOK, Probes
  <2>2. found \in SUBSET Pids
    BY <1>2, ListFacts
  <2>3. IsFiniteSet(found)
    BY <2>2, FS_Subset, ExplorerAssumption
  <2>4. CASE Cardinality(found) = 1
    <3>1. PICK x : found = {x}
      BY <2>3, <2>4, FS_Singleton
    <3>2. found # {}
      BY <3>1
    <3>3. (\E p \in found : root' = [NoRoot EXCEPT !.kind = "pid", !.pid = p]) /\ To("process")
      BY <1>2, <2>4, <3>2
    <3>4. root' = [NoRoot EXCEPT !.kind = "pid", !.pid = x] /\ x \in Pids
      BY <2>2, <3>1, <3>3
    <3>5. root' \in [kind : {"pid"}, pid : {x}, unit : {NoUnit}]
      BY <3>4, RootFields
    <3>6. ~probe'.failed => {q \in alive : <<q, birth[q]>> \in Named} \subseteq {x}
      BY <1>2, <2>1, <3>1
    <3>7. QED
      BY <2>1, <3>3, <3>4, <3>5, <3>6 DEF To
  <2>5. CASE Cardinality(found) # 1
    BY <1>2, <2>1, <2>5 DEF Over
  <2>6. QED
    BY <2>4, <2>5
<1>3. QED
  BY <1>1, <1>2 DEF NamesListed

LEMMA KindNext == DataOK /\ KindInv /\ [ExplorerNext]_xVars => KindInv'
<1> SUFFICES ASSUME DataOK, KindInv, [ExplorerNext]_xVars PROVE KindInv'
  OBVIOUS
<1>. USE DEF KindInv, PortsPcs, To, Over
<1>1. ASSUME Explore PROVE KindInv'
  <2>1. root.kind = "none" /\ xend = "none"
    BY <1>1 DEF Explore
  <2>2. QED
    BY <1>1, <2>1, ExploreFacts
<1>2. ASSUME ProbeProcess \/ CallThrows \/ PortsInspected \/ HostGoesOn PROVE KindInv'
  BY <1>2 DEF ProbeProcess, CallThrows, PortsInspected, HostGoesOn
<1>3. ASSUME NumberResolved PROVE KindInv'
  <2>1. ask = "number" /\ xpc = "ports" /\ xend = "none"
    BY <1>3 DEF NumberResolved
  <2>2. QED
    BY <1>3, <2>1, NumberFacts
<1>4. ASSUME NameLookedUp PROVE KindInv'
  <2>1. \/ To("names") /\ UNCHANGED root
        \/ root' = [NoRoot EXCEPT !.kind = "unit", !.unit = NamedUnit] /\ To("service")
    BY <1>4 DEF NameLookedUp
  <2>2. \/ To("names") /\ UNCHANGED root
        \/ root' \in [kind : {"unit"}, pid : {Number}, unit : {NamedUnit}] /\ To("service")
    BY <2>1, RootFields
  <2>3. ask = "name" /\ ask' = ask /\ root.kind = "none" /\ xend = "none"
    BY <1>4 DEF NameLookedUp
  <2>4. QED
    BY <2>2, <2>3
<1>5. ASSUME NamesListed PROVE KindInv'
  <2>1. ask = "name" /\ root.kind = "none" /\ xend = "none"
    BY <1>5 DEF NamesListed
  <2>2. QED
    BY <1>5, <2>1, NamesFacts
<1>6. ASSUME DumpSockets PROVE KindInv'
  BY <1>6 DEF DumpSockets, PortsFailed
<1>7. ASSUME ResolveOwners PROVE KindInv'
  BY <1>7 DEF ResolveOwners, PortsFailed
<1>8. ASSUME NEW p \in Pids, InspectOwner(p) \/ VisitPid(p) PROVE KindInv'
  BY <1>8 DEF InspectOwner, VisitPid
<1>9. ASSUME NEW u \in Units, VisitUnit(u) \/ RelatedService(u) PROVE KindInv'
  BY <1>9 DEF VisitUnit, RelatedService
<1>10. ASSUME PortRoot \/ ProcessRoot \/ ServiceRoot \/ Members PROVE KindInv'
  BY <1>10 DEF PortRoot, ProcessRoot, ServiceRoot, Members
<1>11. ASSUME RelatedPorts \/ RootLogs \/ Finalize PROVE KindInv'
  BY <1>11 DEF RelatedPorts, RootLogs, Finalize
<1>12. ASSUME FindServices \/ FindProcesses \/ FindPorts PROVE KindInv'
  BY <1>12 DEF FindServices, FindProcesses, FindPorts
<1>13. ASSUME UNCHANGED xVars PROVE KindInv'
  BY <1>13 DEF xVars
<1>14. QED
  BY <1>1, <1>2, <1>3, <1>4, <1>5, <1>6, <1>7, <1>8, <1>9, <1>10, <1>11, <1>12, <1>13
     DEF ExplorerNext

-----------------------------------------------------------------------------
(* The sockets of a dump. *)

\* The sockets PortService::inspect is asked for.
Sought == IF ask # "find" /\ root.kind \in {"none", "port"} THEN AtPort ELSE Inodes

\* A dump that was not reported as partial has every socket sought that has been
\* there all along.
SocksInv ==
  xpc \in {"scan", "owners", "ports"} /\ portsOk /\ (note = "none" \/ ~probe.failed) =>
    SteadySocks \cap Sought \subseteq socks

(* Only these steps lead into a call of PortService::inspect, or stay there. *)
LEMMA Landing ==
  ASSUME DataOK, ExplorerNext
  PROVE  \/ HostGoesOn \/ DumpSockets \/ ResolveOwners \/ PortsInspected
         \/ \E p \in Pids : InspectOwner(p)
         \/ xpc' \notin {"scan", "owners", "ports"}
<1>. USE DEF To, Over
<1>1. ASSUME Explore \/ ProbeProcess \/ NameLookedUp PROVE xpc' \notin {"scan", "owners", "ports"}
  BY <1>1, ExploreFacts DEF ProbeProcess, NameLookedUp
<1>2. ASSUME NumberResolved \/ NamesListed PROVE xpc' \notin {"scan", "owners", "ports"}
  BY <1>2, NumberFacts, NamesFacts
<1>3. ASSUME NEW p \in Pids, VisitPid(p) PROVE xpc' \notin {"scan", "owners", "ports"}
  BY <1>3 DEF VisitPid
<1>4. ASSUME NEW u \in Units, VisitUnit(u) \/ RelatedService(u)
      PROVE  xpc' \notin {"scan", "owners", "ports"}
  BY <1>4 DEF VisitUnit, RelatedService
<1>5. ASSUME CallThrows \/ PortRoot \/ ProcessRoot \/ ServiceRoot \/ Members \/ RelatedPorts
      PROVE  xpc' \notin {"scan", "owners", "ports"}
  BY <1>5 DEF CallThrows, PortRoot, ProcessRoot, ServiceRoot, Members, RelatedPorts
<1>6. ASSUME RootLogs \/ Finalize \/ FindServices \/ FindProcesses \/ FindPorts
      PROVE  xpc' \notin {"scan", "owners", "ports"}
  BY <1>6 DEF RootLogs, Finalize, FindServices, FindProcesses, FindPorts
<1>7. QED
  BY <1>1, <1>2, <1>3, <1>4, <1>5, <1>6 DEF ExplorerNext

(* What inspecting one owner changes. *)
LEMMA OwnerFacts ==
  ASSUME DataOK, NEW p \in Pids, InspectOwner(p)
  PROVE  /\ xpc = "owners" /\ p \in unvisited /\ unvisited' = unvisited \ {p}
         /\ UNCHANGED <<worldVars, xpc, ask, root, probe, socks, owned, portsOk, xend, pastVars>>
         /\ note' = "none" => /\ note = "none" /\ service'[p] = unitOf[p]
                              /\ root.kind = "port" => p \in graph'.procs
         /\ \A q \in Pids \ {p} : service'[q] = service[q]
         /\ graph.procs \subseteq graph'.procs
         /\ graph'.svcs = graph.svcs /\ graph'.ports = graph.ports
         /\ root.kind # "port" => graph' = graph
<1>1. PICK a \in InspectProcess(p) :
        /\ service' = [service EXCEPT ![p] = a.unit]
        /\ note' = Worse(a.note)
        /\ graph' = IF a.ok /\ root.kind = "port"
                      THEN [graph EXCEPT !.procs = graph.procs \cup {p}] ELSE graph
  BY DEF InspectOwner
<1>2. /\ a.note \in Notes
      /\ a.note = "none" => a.ok /\ a.unit = unitOf[p]
  BY InspectFacts
<1>3. note' = "none" => note = "none" /\ a.note = "none"
  BY <1>1, <1>2, WorseFacts DEF InspectOwner, DataOK
<1>4. service'[p] = a.unit /\ \A q \in Pids \ {p} : service'[q] = service[q]
  BY <1>1 DEF DataOK
<1>5. /\ graph.procs \subseteq graph'.procs
      /\ graph'.svcs = graph.svcs /\ graph'.ports = graph.ports
      /\ a.ok /\ root.kind = "port" => p \in graph'.procs
  <2>1. CASE a.ok /\ root.kind = "port"
    BY <1>1, <2>1, GraphFields DEF DataOK
  <2>2. CASE ~(a.ok /\ root.kind = "port")
    BY <1>1, <2>2
  <2>3. QED
    BY <2>1, <2>2
<1>6. QED
  BY <1>1, <1>2, <1>3, <1>4, <1>5 DEF InspectOwner

(* What finding the owners changes. *)
LEMMA ResolveFacts ==
  ASSUME DataOK, ResolveOwners
  PROVE  /\ xpc = "scan" /\ UNCHANGED <<worldVars, ask, root, socks, service, graph, pastVars>>
         /\ xend' = xend
         /\ note' = "none" => note = "none"
         /\ probe.failed => probe'.failed
         /\ probe'.unit = probe.unit /\ probe'.exists = probe.exists
         /\ \/ xpc' = "ports" /\ portsOk' = FALSE
            \/ /\ xpc' = "owners" /\ portsOk' = portsOk /\ probe' = probe
               /\ note' = "none" => \A i \in socks : owned'[i] = holders[i]
               /\ unvisited' = UNION {owned'[i] : i \in socks}
<1>1. xpc = "scan" /\ UNCHANGED <<worldVars, ask, root, service, graph, pastVars>>
  BY DEF ResolveOwners
<1>2. CASE PortsFailed
  <2>1. probe' = [probe EXCEPT !.failed = TRUE]
    BY <1>2 DEF PortsFailed
  <2>2. probe'.failed /\ probe'.unit = probe.unit /\ probe'.exists = probe.exists
    BY <2>1 DEF DataOK, Probes
  <2>3. QED
    BY <1>1, <1>2, <2>2 DEF PortsFailed, To
<1>3. ASSUME NEW hidden \in SUBSET alive,
             owned' = [i \in Inodes |-> IF i \in socks THEN holders[i] \ hidden ELSE {}],
             note' = (IF hidden = {} THEN note ELSE "warning")
      PROVE  /\ note' = "none" => note = "none"
             /\ note' = "none" => \A i \in socks : owned'[i] = holders[i]
  <2>1. socks \subseteq Inodes
    BY DEF DataOK
  <2>2. CASE hidden = {}
    BY <1>3, <2>1, <2>2
  <2>3. CASE hidden # {}
    BY <1>3, <2>3
  <2>4. QED
    BY <2>2, <2>3
<1>4. CASE ~PortsFailed
  BY <1>1, <1>3, <1>4 DEF ResolveOwners, To
<1>5. QED
  BY <1>2, <1>4

(* What a dump changes. *)
LEMMA DumpFacts ==
  ASSUME DataOK, DumpSockets
  PROVE  /\ xpc = "dump"
         /\ UNCHANGED <<worldVars, ask, root, owned, unvisited, graph, xend, pastVars>>
         /\ note' = "none" => note = "none"
         /\ probe.failed => probe'.failed
         /\ probe'.unit = probe.unit /\ probe'.exists = probe.exists
         /\ \/ xpc' = "ports" /\ portsOk' = FALSE
            \/ xpc' = "scan" /\ portsOk' = TRUE /\ socks' = Wanted
            \/ xpc' = "scan" /\ portsOk' = TRUE /\ note' # "none" /\ probe'.failed
<1>1. xpc = "dump" /\ UNCHANGED <<worldVars, ask, root, owned, unvisited, graph, xend, pastVars>>
  BY DEF DumpSockets, PortsFailed, To
<1>2. \/ probe' = probe
      \/ probe' = [probe EXCEPT !.failed = TRUE]
  BY DEF DumpSockets, PortsFailed
<1>3. /\ probe.failed => probe'.failed
      /\ probe'.unit = probe.unit /\ probe'.exists = probe.exists
  BY <1>2 DEF DataOK, Probes
<1>4. \/ xpc' = "ports" /\ portsOk' = FALSE /\ note' = note
      \/ xpc' = "scan" /\ portsOk' = TRUE /\ socks' = Wanted /\ note' = note
      \/ /\ xpc' = "scan" /\ portsOk' = TRUE /\ note' # "none"
         /\ probe' = [probe EXCEPT !.failed = TRUE]
  BY DEF DumpSockets, PortsFailed, To, Worse
<1>5. probe' = [probe EXCEPT !.failed = TRUE] => probe'.failed
  BY DEF DataOK, Probes
<1>6. QED
  BY <1>1, <1>3, <1>4, <1>5

LEMMA SocksNext ==
  DataOK /\ PastInv /\ KindInv /\ SocksInv /\ [ExplorerNext]_xVars => SocksInv'
<1> SUFFICES ASSUME DataOK, PastInv, KindInv, SocksInv, [ExplorerNext]_xVars PROVE SocksInv'
  OBVIOUS
<1>1. ASSUME HostGoesOn PROVE SocksInv'
  <2>1. UNCHANGED <<xpc, ask, root, probe, socks, portsOk, note>>
    BY <1>1 DEF HostGoesOn, callVars
  <2>2. SteadySocks' \subseteq SteadySocks
    BY <1>1, HostPast
  <2>3. QED
    BY <2>1, <2>2 DEF SocksInv, Sought
<1>2. ASSUME DumpSockets PROVE SocksInv'
  <2>1. Wanted = Bound \cap Sought
    BY ExplorerAssumption DEF Wanted, Sought, Bound
  <2>2. UNCHANGED <<SteadySocks, Sought>>
    BY <1>2, DumpFacts, PastFrame DEF Sought
  <2>3. QED
    BY <1>2, <2>1, <2>2, DumpFacts DEF SocksInv, SteadySocks
<1>3. ASSUME ResolveOwners PROVE SocksInv'
  <2>1. UNCHANGED <<SteadySocks, Sought, socks>>
    BY <1>3, ResolveFacts, PastFrame DEF Sought
  <2>2. QED
    BY <1>3, <2>1, ResolveFacts DEF SocksInv
<1>4. ASSUME PortsInspected PROVE SocksInv'
  <2>1. UNCHANGED <<SteadySocks, Sought, socks, portsOk, note, probe>> /\ xpc = "owners"
    BY <1>4, PastFrame DEF Sought, PortsInspected, callVars
  <2>2. QED
    BY <2>1 DEF SocksInv
<1>5. ASSUME NEW p \in Pids, InspectOwner(p) PROVE SocksInv'
  <2>1. UNCHANGED <<SteadySocks, Sought, socks, portsOk, probe>>
    BY <1>5, OwnerFacts, PastFrame DEF Sought
  <2>2. QED
    BY <1>5, <2>1, OwnerFacts DEF SocksInv
<1>6. CASE xpc' \notin {"scan", "owners", "ports"}
  BY <1>6 DEF SocksInv
<1>7. CASE UNCHANGED xVars
  <2>1. UNCHANGED <<SteadySocks, Sought, socks, portsOk, note, probe, xpc>>
    BY <1>7, PastFrame DEF Sought, xVars, callVars
  <2>2. QED
    BY <2>1 DEF SocksInv
<1>8. QED
  BY <1>1, <1>2, <1>3, <1>4, <1>5, <1>6, <1>7, Landing

-----------------------------------------------------------------------------
(* NeverAGuess. *)

\* What the resolver has found out so far: the number is no process, the name no
\* service.
GuessInv ==
  /\ NeverAGuess
  /\ ~probe.failed =>
       /\ ask = "number" /\ xpc \notin {"idle", "probe", "over"} /\ ~probe.exists =>
            Number \notin SteadyPids
       /\ xpc = "names" => NamedUnit = NoUnit

LEMMA GuessInit == ExplorerInit => GuessInv
BY DEF ExplorerInit, NoRoot, GuessInv, NeverAGuess

(* A step that leaves what was asked and resolved alone, and begins or ends *)
(* no lookup of the resolver.                                               *)
LEMMA GuessFrame ==
  ASSUME GuessInv, UNCHANGED <<ask, root>>,
         probe'.unit = probe.unit /\ probe'.exists = probe.exists,
         probe.failed => probe'.failed,
         SteadyPids' \subseteq SteadyPids, SteadySocks' \subseteq SteadySocks,
         steadyProcs' \subseteq steadyProcs,
         xpc' # "over" => xpc \notin {"idle", "probe", "over"} \/ xpc' = xpc,
         xpc' = "names" => xpc = "names"
  PROVE  GuessInv'
<1>1. NeverAGuess'
  BY DEF GuessInv, NeverAGuess, NamedUnit
<1>2. QED
  BY <1>1 DEF GuessInv, NamedUnit

LEMMA GuessNext ==
  DataOK /\ PastInv /\ KindInv /\ SocksInv /\ GuessInv /\ [ExplorerNext]_xVars => GuessInv'
<1> SUFFICES ASSUME DataOK, PastInv, KindInv, SocksInv, GuessInv, [ExplorerNext]_xVars
             PROVE  GuessInv'
  OBVIOUS
<1>. USE DEF To, Over
<1>1. ASSUME Explore PROVE GuessInv'
  <2>1. root.kind = "none"
    BY <1>1 DEF Explore, KindInv
  <2>2. QED
    BY <1>1, <2>1, ExploreFacts DEF GuessInv, NeverAGuess
<1>2. ASSUME ProbeProcess PROVE GuessInv'
  <2>1. PICK a \in InspectProcess(Number) :
          probe' = [probe EXCEPT !.exists = a.ok, !.failed = ~a.ok /\ Number \in alive]
    BY <1>2 DEF ProbeProcess
  <2>2. probe'.exists = a.ok /\ probe'.failed = (~a.ok /\ Number \in alive)
    BY <2>1 DEF DataOK, Probes
  <2>3. Number \notin alive => Number \notin SteadyPids'
    BY <1>2, PastFrame DEF ProbeProcess, SteadyPids, PastInv
  <2>4. ask = "number" /\ root.kind = "none" /\ UNCHANGED <<ask, root>> /\ xpc' = "dump"
    BY <1>2 DEF ProbeProcess, KindInv
  <2>5. QED
    BY <2>2, <2>3, <2>4 DEF GuessInv, NeverAGuess
<1>3. ASSUME NumberResolved PROVE GuessInv'
  <2>1. ask = "number" /\ xpc = "ports" /\ root = NoRoot
    BY <1>3 DEF NumberResolved
  <2>2. root.kind = "none"
    BY <2>1 DEF NoRoot
  <2>3. UNCHANGED <<SteadyPids, SteadySocks>>
    BY <1>3, PastFrame DEF NumberResolved
  <2>4. ~probe.failed /\ ~probe.exists => Number \notin SteadyPids
    BY <2>1 DEF GuessInv
  <2>5. portsOk /\ socks = {} /\ ~probe.failed => SteadySocks \cap AtPort = {}
    BY <2>1, <2>2 DEF SocksInv, Sought
  <2>6. /\ ~probe'.failed => ~probe.failed /\ portsOk
        /\ probe'.exists = probe.exists
        /\ ask' = "number" /\ xpc' # "names"
    BY <1>3, <2>1, NumberFacts
  <2>7. ~probe'.failed /\ ~probe'.exists => Number \notin SteadyPids'
    BY <2>3, <2>4, <2>6
  <2>8. ~probe'.failed /\ root'.kind = "port" => Number \notin SteadyPids'
    BY <1>3, <2>2, <2>3, <2>4, <2>6, NumberFacts
  <2>9. ~probe'.failed /\ root'.kind = "pid" => SteadySocks' \cap AtPort = {}
    BY <1>3, <2>2, <2>3, <2>5, <2>6, NumberFacts
  <2>10. QED
    BY <2>6, <2>7, <2>8, <2>9 DEF GuessInv, NeverAGuess
<1>4. ASSUME NameLookedUp PROVE GuessInv'
  <2>1. ask' = "name" /\ root.kind = "none"
    BY <1>4 DEF NameLookedUp, KindInv
  <2>2. PICK a \in GetService(NamedUnit) :
          \/ /\ root' = [NoRoot EXCEPT !.kind = "unit", !.unit = NamedUnit]
             /\ xpc' = "service"
          \/ /\ a \notin {"ok", "partial"} /\ root' = root /\ xpc' = "names"
             /\ probe' = [probe EXCEPT !.failed = (a = "failed")]
    BY <1>4 DEF NameLookedUp
  <2>3. CASE root' = [NoRoot EXCEPT !.kind = "unit", !.unit = NamedUnit] /\ xpc' = "service"
    <3>1. root'.kind = "unit"
      <4>1. root' \in [kind : {"unit"}, pid : {Number}, unit : {NamedUnit}]
        BY <2>3, RootFields
      <4>2. QED
        BY <4>1
    <3>2. QED
      BY <2>1, <2>3, <3>1 DEF GuessInv, NeverAGuess
  <2>4. CASE /\ a \notin {"ok", "partial"} /\ root' = root /\ xpc' = "names"
             /\ probe' = [probe EXCEPT !.failed = (a = "failed")]
    <3>1. probe'.failed = (a = "failed") /\ probe'.unit = probe.unit
      BY <2>4 DEF DataOK, Probes
    <3>2. a # "failed" => NamedUnit = NoUnit
      BY <2>4 DEF GetService
    <3>3. QED
      BY <2>1, <2>4, <3>1, <3>2 DEF GuessInv, NeverAGuess, NamedUnit
  <2>5. QED
    BY <2>2, <2>3, <2>4
<1>5. ASSUME NamesListed PROVE GuessInv'
  <2>1. ask' = "name" /\ root.kind = "none" /\ xpc = "names"
    BY <1>5, NamesFacts DEF NamesListed, KindInv
  <2>2. CASE xpc' = "over" /\ root' = root
    BY <2>1, <2>2 DEF GuessInv, NeverAGuess
  <2>3. ASSUME NEW p \in Pids, xpc' = "process",
               root' \in [kind : {"pid"}, pid : {p}, unit : {NoUnit}],
               ~probe'.failed => {q \in alive : <<q, birth[q]>> \in Named} \subseteq {p}
        PROVE  GuessInv'
    <3>1. ~probe'.failed => NamedUnit' = NoUnit
      BY <1>5, <2>1, NamesFacts DEF GuessInv, NamedUnit
    <3>2. ~probe'.failed =>
            steadyProcs' \cap Named \subseteq {<<p, b>> : b \in 0..MaxBirth}
      <4>1. steadyProcs' = steadyProcs
        BY <1>5, PastFrame DEF NamesListed
      <4>2. \A pr \in steadyProcs : pr[1] \in alive /\ pr = <<pr[1], birth[pr[1]]>>
        BY DEF PastInv
      <4>3. \A q \in alive : birth[q] \in 0..MaxBirth
        BY DEF DataOK, HostTypeOK
      <4>4. ASSUME ~probe'.failed, NEW pr \in steadyProcs' \cap Named
            PROVE  pr \in {<<p, b>> : b \in 0..MaxBirth}
        <5>1. pr[1] \in alive /\ pr = <<pr[1], birth[pr[1]]>> /\ pr \in Named
          BY <4>1, <4>2, <4>4
        <5>2. pr[1] \in {q \in alive : <<q, birth[q]>> \in Named}
          BY <5>1
        <5>3. pr[1] = p
          BY <2>3, <4>4, <5>2
        <5>4. QED
          BY <4>3, <5>1, <5>3
      <4>5. QED
        BY <4>4
    <3>3. root'.kind = "pid" /\ root'.pid = p
      BY <2>3
    <3>4. QED
      BY <2>1, <2>3, <3>1, <3>2, <3>3 DEF GuessInv, NeverAGuess
  <2>4. QED
    BY <1>5, <2>2, <2>3, NamesFacts
<1>6. ASSUME DumpSockets PROVE GuessInv'
  BY <1>6, DumpFacts, PastFrame, GuessFrame
<1>7. ASSUME ResolveOwners PROVE GuessInv'
  BY <1>7, ResolveFacts, PastFrame, GuessFrame
<1>8. ASSUME HostGoesOn PROVE GuessInv'
  <2>1. UNCHANGED <<xpc, ask, root, probe>>
    BY <1>8 DEF HostGoesOn
  <2>2. QED
    BY <1>8, <2>1, HostPast, GuessFrame
<1>9. ASSUME UNCHANGED <<ask, root, probe, worldVars, pastVars>>,
             xpc \notin {"idle", "probe", "over"} \/ xpc' = "over" \/ xpc' = xpc,
             xpc' = "names" => xpc = "names"
      PROVE  GuessInv'
  BY <1>9, PastFrame, GuessFrame
<1>10. ASSUME CallThrows \/ PortsInspected PROVE GuessInv'
  BY <1>9, <1>10 DEF CallThrows, PortsInspected
<1>11. ASSUME NEW p \in Pids, InspectOwner(p) \/ VisitPid(p) PROVE GuessInv'
  BY <1>9, <1>11 DEF InspectOwner, VisitPid
<1>12. ASSUME NEW u \in Units, VisitUnit(u) \/ RelatedService(u) PROVE GuessInv'
  BY <1>9, <1>12 DEF VisitUnit, RelatedService
<1>13. ASSUME PortRoot \/ ProcessRoot \/ ServiceRoot \/ Members PROVE GuessInv'
  BY <1>9, <1>13 DEF PortRoot, ProcessRoot, ServiceRoot, Members
<1>14. ASSUME RelatedPorts \/ RootLogs \/ Finalize PROVE GuessInv'
  BY <1>9, <1>14 DEF RelatedPorts, RootLogs, Finalize
<1>15. ASSUME FindServices \/ FindProcesses \/ FindPorts PROVE GuessInv'
  BY <1>9, <1>15 DEF FindServices, FindProcesses, FindPorts
<1>16. ASSUME UNCHANGED xVars PROVE GuessInv'
  BY <1>9, <1>16 DEF xVars
<1>17. QED
  BY <1>1, <1>2, <1>3, <1>4, <1>5, <1>6, <1>7, <1>8, <1>10, <1>11, <1>12, <1>13, <1>14,
     <1>15, <1>16 DEF ExplorerNext

-----------------------------------------------------------------------------
(* The owners of the sockets. *)

LEMMA HoldFacts ==
  ASSUME DataOK, PastInv, NEW h \in steadyHolds
  PROVE  /\ h[1] \in SteadySocks /\ h[1] \in Inodes
         /\ h[2] \in SteadyPids /\ h[2] \in alive /\ h[2] \in Pids
         /\ h[2] \in holders[h[1]]
<1>1. h[1] \in Inodes /\ h[1] \in before0 /\ h[2] \in holders[h[1]] /\ h[2] \in SteadyPids
  BY DEF PastInv, DataOK, HostTypeOK
<1>2. h[1] \in SteadySocks
  BY <1>1 DEF SteadySocks, Bound
<1>3. h[2] \in alive
  BY <1>1 DEF PastInv
<1>4. QED
  BY <1>1, <1>2, <1>3 DEF DataOK, HostTypeOK

\* Who has held a socket all along is among its owners; for a port, it is still to
\* be asked about, or known with its unit.
OwnersInv ==
  /\ xpc = "ports" /\ portsOk => unvisited = {}
  /\ xpc \in {"owners", "ports"} /\ portsOk /\ note = "none" =>
       /\ \A h \in steadyHolds : h[1] \in socks => h[2] \in owned[h[1]]
       /\ root.kind = "port" =>
            \A h \in steadyHolds : h[1] \in AtPort =>
              \/ h[2] \in unvisited
              \/ h[2] \in graph.procs /\ service[h[2]] = unitOf[h[2]]

LEMMA OwnersNext ==
  DataOK /\ PastInv /\ KindInv /\ SocksInv /\ OwnersInv /\ [ExplorerNext]_xVars => OwnersInv'
<1> SUFFICES ASSUME DataOK, PastInv, KindInv, SocksInv, OwnersInv, [ExplorerNext]_xVars
             PROVE  OwnersInv'
  OBVIOUS
<1>1. ASSUME HostGoesOn PROVE OwnersInv'
  <2>1. UNCHANGED <<xpc, root, socks, owned, unvisited, service, portsOk, graph, note>>
    BY <1>1 DEF HostGoesOn, callVars
  <2>2. steadyHolds' \subseteq steadyHolds
    BY <1>1, HostPast
  <2>3. \A h \in steadyHolds' : unitOf'[h[2]] = unitOf[h[2]]
    BY <1>1, HostPast DEF PastInv
  <2>4. QED
    BY <2>1, <2>2, <2>3 DEF OwnersInv
<1>2. ASSUME DumpSockets PROVE OwnersInv'
  BY <1>2, DumpFacts DEF OwnersInv
<1>3. ASSUME ResolveOwners PROVE OwnersInv'
  <2>1. CASE xpc' = "ports" /\ portsOk' = FALSE
    BY <2>1 DEF OwnersInv
  <2>2. ASSUME xpc' = "owners", portsOk, note' = "none"
        PROVE  /\ \A h \in steadyHolds : h[1] \in socks => h[2] \in owned'[h[1]]
               /\ root.kind = "port" =>
                    \A h \in steadyHolds : h[1] \in AtPort => h[2] \in unvisited'
    <3>1. /\ xpc = "scan" /\ note = "none"
          /\ \A i \in socks : owned'[i] = holders[i]
          /\ unvisited' = UNION {owned'[i] : i \in socks}
      BY <1>3, <2>2, ResolveFacts
    <3>2. SteadySocks \cap Sought \subseteq socks
      BY <2>2, <3>1 DEF SocksInv
    <3>3. root.kind = "port" => Sought = AtPort
      BY DEF KindInv, Sought
    <3>4. \A h \in steadyHolds : h[1] \in socks => h[2] \in owned'[h[1]]
      BY <3>1, HoldFacts
    <3>5. QED
      BY <3>1, <3>2, <3>3, <3>4, HoldFacts
  <2>3. UNCHANGED <<socks, root, steadyHolds>>
    BY <1>3, ResolveFacts DEF pastVars
  <2>4. CASE xpc' = "owners" /\ portsOk' = portsOk
    <3>1. CASE portsOk /\ note' = "none"
      BY <2>2, <2>3, <2>4, <3>1 DEF OwnersInv
    <3>2. CASE ~(portsOk /\ note' = "none")
      BY <2>4, <3>2 DEF OwnersInv
    <3>3. QED
      BY <3>1, <3>2
  <2>5. QED
    BY <1>3, <2>1, <2>4, ResolveFacts
<1>4. ASSUME PortsInspected PROVE OwnersInv'
  BY <1>4 DEF PortsInspected, To, OwnersInv, worldVars, hostVars, callVars, pastVars
<1>5. ASSUME NEW p \in Pids, InspectOwner(p) PROVE OwnersInv'
  <2>1. UNCHANGED <<socks, owned, portsOk, root, steadyHolds, unitOf, xpc>>
    BY <1>5, OwnerFacts DEF worldVars, hostVars, pastVars
  <2>2. xpc = "owners"
    BY <1>5, OwnerFacts
  <2>3. ASSUME portsOk, note' = "none", root.kind = "port",
               NEW h \in steadyHolds, h[1] \in AtPort
        PROVE  \/ h[2] \in unvisited'
               \/ h[2] \in graph'.procs /\ service'[h[2]] = unitOf[h[2]]
    <3>1. CASE h[2] = p
      BY <1>5, <2>3, <3>1, OwnerFacts
    <3>2. CASE h[2] # p
      <4>1. /\ note = "none" /\ unvisited' = unvisited \ {p}
            /\ graph.procs \subseteq graph'.procs
            /\ service'[h[2]] = service[h[2]]
        BY <1>5, <2>3, <3>2, OwnerFacts, HoldFacts
      <4>2. QED
        BY <2>2, <2>3, <3>2, <4>1 DEF OwnersInv
    <3>3. QED
      BY <3>1, <3>2
  <2>4. note' = "none" => note = "none"
    BY <1>5, OwnerFacts
  <2>5. QED
    BY <2>1, <2>2, <2>3, <2>4 DEF OwnersInv
<1>6. CASE xpc' \notin {"scan", "owners", "ports"}
  BY <1>6 DEF OwnersInv
<1>7. CASE UNCHANGED xVars
  BY <1>7 DEF xVars, OwnersInv, worldVars, hostVars, callVars, pastVars
<1>8. QED
  BY <1>1, <1>2, <1>3, <1>4, <1>5, <1>6, <1>7, Landing

\* Visiting what is related to a port: the sockets and their owners are in the
\* answer, the units of these are there or still to come.
VisitInv ==
  xpc = "visit" /\ note = "none" =>
    /\ SteadySocks \cap AtPort \subseteq graph.ports
    /\ \A h \in steadyHolds : h[1] \in AtPort =>
         /\ h[2] \in graph.procs
         /\ unitOf[h[2]] \in {NoUnit} \cup graph.svcs \cup unvisited

(* Only these steps lead to the visits, or stay there. *)
LEMMA VisitLanding ==
  ASSUME DataOK, ExplorerNext, xpc' = "visit"
  PROVE  \/ HostGoesOn \/ PortRoot
         \/ \E p \in Pids : VisitPid(p)
         \/ \E u \in Units : VisitUnit(u)
<1>. USE DEF To, Over
<1>1. ~Explore /\ ~ProbeProcess /\ ~NameLookedUp
  BY ExploreFacts DEF ProbeProcess, NameLookedUp
<1>2. ~NumberResolved /\ ~NamesListed
  BY NumberFacts, NamesFacts
<1>3. ~DumpSockets /\ ~ResolveOwners /\ ~PortsInspected /\ ~CallThrows
  BY DumpFacts, ResolveFacts DEF PortsInspected, CallThrows
<1>4. \A p \in Pids : ~InspectOwner(p)
  BY DEF InspectOwner
<1>5. \A u \in Units : ~RelatedService(u)
  BY DEF RelatedService
<1>6. ~ProcessRoot /\ ~ServiceRoot /\ ~Members /\ ~RelatedPorts
  BY DEF ProcessRoot, ServiceRoot, Members, RelatedPorts
<1>7. ~RootLogs /\ ~Finalize /\ ~FindServices /\ ~FindProcesses /\ ~FindPorts
  BY DEF RootLogs, Finalize, FindServices, FindProcesses, FindPorts
<1>8. QED
  BY <1>1, <1>2, <1>3, <1>4, <1>5, <1>6, <1>7 DEF ExplorerNext

LEMMA VisitNext ==
  /\ DataOK /\ PastInv /\ KindInv /\ SocksInv /\ OwnersInv /\ VisitInv
  /\ [ExplorerNext]_xVars
  => VisitInv'
<1> SUFFICES ASSUME DataOK, PastInv, KindInv, SocksInv, OwnersInv, VisitInv,
                    [ExplorerNext]_xVars
             PROVE  VisitInv'
  OBVIOUS
<1>1. ASSUME HostGoesOn PROVE VisitInv'
  <2>1. UNCHANGED <<xpc, unvisited, graph, note>>
    BY <1>1 DEF HostGoesOn, callVars
  <2>2. steadyHolds' \subseteq steadyHolds /\ SteadySocks' \subseteq SteadySocks
    BY <1>1, HostPast
  <2>3. \A h \in steadyHolds' : unitOf'[h[2]] = unitOf[h[2]]
    BY <1>1, HostPast DEF PastInv
  <2>4. QED
    BY <2>1, <2>2, <2>3 DEF VisitInv
<1>2. ASSUME PortRoot, xpc' = "visit", note' = "none" PROVE VisitInv'
  <2>1. /\ xpc = "ports" /\ root.kind = "port" /\ portsOk /\ note = "none"
        /\ graph' = [graph EXCEPT !.ports = socks]
        /\ unvisited' = {IF service[p] = NoUnit THEN p ELSE service[p] : p \in graph.procs}
        /\ UNCHANGED <<worldVars, pastVars>>
    BY <1>2 DEF PortRoot, Over
  <2>2. graph'.ports = socks /\ graph'.procs = graph.procs
    BY <2>1, GraphFields DEF DataOK
  <2>3. SteadySocks \cap AtPort \subseteq socks
    BY <2>1 DEF SocksInv, Sought, KindInv
  <2>4. ASSUME NEW h \in steadyHolds, h[1] \in AtPort
        PROVE  h[2] \in graph.procs /\ unitOf[h[2]] \in {NoUnit} \cup unvisited'
    <3>1. h[2] \in graph.procs /\ service[h[2]] = unitOf[h[2]]
      BY <2>1, <2>4 DEF OwnersInv
    <3>2. QED
      BY <2>1, <3>1
  <2>5. steadyHolds' = steadyHolds /\ SteadySocks' = SteadySocks /\ unitOf' = unitOf
    BY <2>1, PastFrame
  <2>6. QED
    BY <2>2, <2>3, <2>4, <2>5 DEF VisitInv
<1>3. ASSUME NEW u \in Units, VisitUnit(u), note' = "none" PROVE VisitInv'
  <2>1. PICK a \in GetService(u), read \in Reads :
          /\ graph' = WithLog(WithService(graph, u, a), u, read)
          /\ note' = IF a = "ok" /\ read THEN note ELSE "warning"
    BY <1>3 DEF VisitUnit
  <2>2. a = "ok" /\ note = "none"
    BY <1>3, <2>1
  <2>3. u \in AnyUnit
    BY DEF AnyUnit
  <2>4. GraphOK(WithService(graph, u, a))
    BY <2>3, ServiceAdded DEF DataOK
  <2>5. /\ graph'.procs = graph.procs /\ graph'.ports = graph.ports
        /\ graph.svcs \subseteq graph'.svcs /\ u \in graph'.svcs
    BY <2>1, <2>2, <2>3, <2>4, LogKeeps, ServiceAdded DEF DataOK
  <2>6. /\ xpc = "visit" /\ unvisited' = unvisited \ {u} /\ UNCHANGED <<worldVars, pastVars>>
    BY <1>3 DEF VisitUnit
  <2>7. steadyHolds' = steadyHolds /\ SteadySocks' = SteadySocks /\ unitOf' = unitOf
    BY <2>6, PastFrame
  <2>8. QED
    BY <2>2, <2>5, <2>6, <2>7 DEF VisitInv
<1>4. ASSUME NEW p \in Pids, VisitPid(p), note' = "none" PROVE VisitInv'
  <2>1. /\ xpc = "visit" /\ unvisited \cap Units = {} /\ UNCHANGED <<worldVars, pastVars>>
        /\ note = "none"
    BY <1>4 DEF VisitPid
  <2>2. graph'.procs = graph.procs /\ graph'.ports = graph.ports /\ graph'.svcs = graph.svcs
    BY <1>4, LogKeeps DEF VisitPid, DataOK
  <2>3. steadyHolds' = steadyHolds /\ SteadySocks' = SteadySocks /\ unitOf' = unitOf
    BY <2>1, PastFrame
  <2>4. \A h \in steadyHolds : unitOf[h[2]] \in Units \cup {NoUnit}
    BY HoldFacts DEF DataOK, HostTypeOK
  <2>5. \A h \in steadyHolds : h[1] \in AtPort => unitOf[h[2]] \in {NoUnit} \cup graph.svcs
    BY <2>1, <2>4 DEF VisitInv
  <2>6. QED
    BY <2>1, <2>2, <2>3, <2>5 DEF VisitInv
<1>5. CASE UNCHANGED xVars
  <2>1. UNCHANGED <<xpc, note, graph, unvisited, steadyHolds, SteadySocks, unitOf>>
    BY <1>5, PastFrame DEF xVars, callVars
  <2>2. QED
    BY <2>1 DEF VisitInv
<1>6. CASE ~(xpc' = "visit" /\ note' = "none")
  BY <1>6 DEF VisitInv
<1>7. QED
  BY <1>1, <1>2, <1>3, <1>4, <1>5, <1>6, VisitLanding

-----------------------------------------------------------------------------
(* The processes and services of the answer. *)

AnswerPcs == {"logs", "finalize"} \cup PortsPcs

\* For a process: it is the one process, and its unit is there, or is asked for.
PidInv ==
  root.kind = "pid" =>
    /\ xpc \in {"related"} \cup AnswerPcs => graph.procs = {root.pid}
    /\ note = "none" /\ root.pid \in SteadyPids =>
         /\ xpc = "related" => unvisited = {unitOf[root.pid]}
         /\ xpc \in AnswerPcs => unitOf[root.pid] \in {NoUnit} \cup graph.svcs

\* For a service: it is there, and so are its processes.
ServiceInv ==
  root.kind = "unit" /\ note = "none" =>
    /\ xpc \in {"members"} \cup AnswerPcs => root.unit \in graph.svcs
    /\ xpc \in AnswerPcs => \A p \in SteadyPids : unitOf[p] = root.unit => p \in graph.procs

\* For `find`: the service of that name, its processes and those of that name.
FindInv ==
  ask = "find" /\ note = "none" =>
    /\ xpc \in {"processes"} \cup PortsPcs => {NamedUnit} \ {NoUnit} \subseteq graph.svcs
    /\ xpc \in PortsPcs =>
         \A p \in SteadyPids :
           <<p, birth[p]>> \in Named \/ unitOf[p] \in {NamedUnit} \ {NoUnit} =>
             p \in graph.procs

RelatedInv == PidInv /\ ServiceInv /\ FindInv

(* A step that leaves these parts of the answer alone. *)
LEMMA RelatedFrame ==
  ASSUME RelatedInv, UNCHANGED <<ask, root>>, probe'.unit = probe.unit,
         graph'.procs = graph.procs, graph'.svcs = graph.svcs,
         note' = "none" => note = "none",
         SteadyPids' \subseteq SteadyPids,
         \A p \in SteadyPids' : birth'[p] = birth[p] /\ unitOf'[p] = unitOf[p],
         \/ xpc' = xpc /\ unvisited' = unvisited
         \/ xpc \in PortsPcs /\ xpc' \in PortsPcs
         \/ xpc \in AnswerPcs /\ xpc' \in {"logs", "finalize"}
  PROVE  RelatedInv'
<1>. USE DEF AnswerPcs, PortsPcs
<1>1. PidInv'
  BY DEF RelatedInv, PidInv
<1>2. ServiceInv'
  BY DEF RelatedInv, ServiceInv
<1>3. FindInv'
  BY DEF RelatedInv, FindInv, NamedUnit
<1>4. QED
  BY <1>1, <1>2, <1>3 DEF RelatedInv

(* A step to a place where nothing is claimed of them. *)
LEMMA AnswerElsewhere ==
  ASSUME \/ xpc' \notin {"related", "members", "processes"} \cup AnswerPcs
         \/ root'.kind \in {"none", "port"} /\ ask' # "find"
  PROVE  RelatedInv'
BY DEF RelatedInv, PidInv, ServiceInv, FindInv, AnswerPcs

LEMMA RelatedNext ==
  DataOK /\ PastInv /\ KindInv /\ RelatedInv /\ [ExplorerNext]_xVars => RelatedInv'
<1> SUFFICES ASSUME DataOK, PastInv, KindInv, RelatedInv, [ExplorerNext]_xVars
             PROVE  RelatedInv'
  OBVIOUS
<1>. USE DEF AnswerPcs, PortsPcs, To, Over
<1>1. ASSUME HostGoesOn PROVE RelatedInv'
  <2>1. UNCHANGED <<xpc, ask, root, probe, unvisited, graph, note>>
    BY <1>1 DEF HostGoesOn, callVars
  <2>2. QED
    BY <1>1, <2>1, HostPast, RelatedFrame
<1>2. ASSUME Explore PROVE RelatedInv'
  BY <1>2, ExploreFacts, AnswerElsewhere
<1>3. ASSUME ProbeProcess PROVE RelatedInv'
  <2>1. root'.kind = "none" /\ ask' = "number"
    BY <1>3 DEF ProbeProcess, KindInv
  <2>2. QED
    BY <2>1, AnswerElsewhere
<1>4. ASSUME NumberResolved PROVE RelatedInv'
  <2>1. ask' = "number"
    BY <1>4 DEF NumberResolved
  <2>2. QED
    BY <1>4, <2>1, NumberFacts, AnswerElsewhere
<1>5. ASSUME NameLookedUp \/ CallThrows PROVE RelatedInv'
  BY <1>5, AnswerElsewhere DEF NameLookedUp, CallThrows
<1>6. ASSUME NamesListed PROVE RelatedInv'
  BY <1>6, NamesFacts, AnswerElsewhere
<1>7. ASSUME DumpSockets PROVE RelatedInv'
  BY <1>7, DumpFacts, PastFrame, RelatedFrame
<1>8. ASSUME ResolveOwners PROVE RelatedInv'
  BY <1>8, ResolveFacts, PastFrame, RelatedFrame
<1>9. ASSUME PortsInspected PROVE RelatedInv'
  BY <1>9, PastFrame, RelatedFrame DEF PortsInspected, callVars
<1>10. ASSUME NEW p \in Pids, InspectOwner(p) PROVE RelatedInv'
  <2>1. UNCHANGED <<ask, root, probe, xpc>> /\ xpc = "owners" /\ UNCHANGED <<worldVars, pastVars>>
    BY <1>10, OwnerFacts
  <2>2. CASE root.kind = "port"
    <3>1. root'.kind = "port" /\ ask' # "find"
      BY <2>1, <2>2 DEF KindInv
    <3>2. QED
      BY <3>1, AnswerElsewhere
  <2>3. CASE root.kind # "port"
    <3>1. graph' = graph /\ (note' = "none" => note = "none")
      BY <1>10, <2>3, OwnerFacts
    <3>2. QED
      BY <2>1, <3>1, PastFrame, RelatedFrame
  <2>4. QED
    BY <2>2, <2>3
<1>11. ASSUME NEW p \in Pids, VisitPid(p) PROVE RelatedInv'
  BY <1>11, AnswerElsewhere DEF VisitPid
<1>12. ASSUME NEW u \in Units, VisitUnit(u) PROVE RelatedInv'
  BY <1>12, AnswerElsewhere DEF VisitUnit
<1>13. ASSUME PortRoot \/ Finalize \/ FindPorts PROVE RelatedInv'
  BY <1>13, AnswerElsewhere DEF PortRoot, Finalize, FindPorts
<1>14. ASSUME ProcessRoot PROVE RelatedInv'
  <2>1. root.kind = "pid" /\ root.pid \in Pids /\ ask # "find" /\ UNCHANGED <<ask, root>>
    BY <1>14 DEF ProcessRoot, KindInv, DataOK, Roots
  <2>2. PICK a \in InspectProcess(root.pid) :
          \/ xpc' = "over"
          \/ /\ graph' = [graph EXCEPT !.procs = {root.pid}]
             /\ note' = Worse(a.note)
             /\ unvisited' = {a.unit} \ {NoUnit}
             /\ xpc' = (IF a.unit = NoUnit THEN "dump" ELSE "related")
    BY <1>14 DEF ProcessRoot
  <2>3. CASE xpc' = "over"
    BY <2>3, AnswerElsewhere
  <2>4. CASE xpc' # "over"
    <3>1. graph'.procs = {root.pid}
      <4>1. graph' = [graph EXCEPT !.procs = {root.pid}]
        BY <2>2, <2>4
      <4>2. GraphOK(graph)
        BY DEF DataOK
      <4>3. [graph EXCEPT !.procs = {root.pid}].procs = {root.pid}
        BY <4>2, GraphFields
      <4>4. QED
        BY <4>1, <4>3
    <3>2. note' = "none" => a.unit = unitOf[root.pid]
      BY <1>14, <2>1, <2>2, <2>4, InspectFacts, WorseFacts DEF ProcessRoot, DataOK
    <3>3. unitOf' = unitOf
      BY <1>14 DEF ProcessRoot, worldVars, hostVars
    <3>4. QED
      BY <2>1, <2>2, <2>4, <3>1, <3>2, <3>3 DEF RelatedInv, PidInv, ServiceInv, FindInv
  <2>5. QED
    BY <2>3, <2>4
<1>15. ASSUME NEW u \in Units, RelatedService(u) PROVE RelatedInv'
  <2>1. /\ xpc = "related" /\ u \in unvisited /\ xpc' = "dump"
        /\ UNCHANGED <<ask, root, worldVars, pastVars>>
        /\ root.kind = "pid" /\ ask # "find"
    BY <1>15 DEF RelatedService, KindInv
  <2>2. PICK a \in GetService(u) :
          /\ graph' = WithService(graph, u, a)
          /\ note' = IF a = "ok" THEN note ELSE "warning"
    BY <1>15 DEF RelatedService
  <2>3. u \in AnyUnit
    BY DEF AnyUnit
  <2>4. graph'.procs = graph.procs /\ (a = "ok" => u \in graph'.svcs)
    BY <2>2, <2>3, ServiceAdded DEF DataOK
  <2>5. SteadyPids' = SteadyPids /\ unitOf' = unitOf
    BY <2>1, PastFrame
  <2>6. QED
    BY <2>1, <2>2, <2>4, <2>5 DEF RelatedInv, PidInv, ServiceInv, FindInv
<1>16. ASSUME ServiceRoot PROVE RelatedInv'
  <2>1. root.kind = "unit" /\ root.unit \in AnyUnit /\ ask # "find" /\ UNCHANGED <<ask, root>>
    BY <1>16 DEF ServiceRoot, KindInv, DataOK, Roots
  <2>2. PICK a \in GetService(root.unit) :
          \/ xpc' = "over"
          \/ /\ a \in {"ok", "partial"}
             /\ graph' = WithService(graph, root.unit, a)
             /\ xpc' = "members"
    BY <1>16 DEF ServiceRoot
  <2>3. CASE xpc' = "over"
    BY <2>3, AnswerElsewhere
  <2>4. CASE xpc' # "over"
    <3>1. root.unit \in graph'.svcs
      BY <2>1, <2>2, <2>4, ServiceAdded DEF DataOK
    <3>2. QED
      BY <2>1, <2>2, <2>4, <3>1 DEF RelatedInv, PidInv, ServiceInv, FindInv
  <2>5. QED
    BY <2>3, <2>4
<1>17. ASSUME Members PROVE RelatedInv'
  <2>1. /\ xpc = "members" /\ xpc' = "dump" /\ UNCHANGED <<ask, root, worldVars, pastVars>>
        /\ root.kind = "unit" /\ ask # "find"
    BY <1>17 DEF Members, KindInv
  <2>2. CASE note' = "warning"
    BY <2>1, <2>2 DEF RelatedInv, PidInv, ServiceInv, FindInv
  <2>3. ASSUME NEW a \in ListProcesses,
               graph' = [graph EXCEPT !.procs = {p \in a.rows : UnitIn(a, p) = root.unit}],
               note' = Worse(a.note)
        PROVE  RelatedInv'
    <3>1. /\ graph'.procs = {p \in a.rows : UnitIn(a, p) = root.unit}
          /\ graph'.svcs = graph.svcs
      BY <2>3, GraphFields DEF DataOK
    <3>2. note' = "none" => note = "none" /\ a.rows = alive /\ a.unitless = {}
      BY <2>1, <2>3, ListFacts, WorseFacts DEF DataOK
    <3>3. note' = "none" => graph'.procs = {p \in alive : unitOf[p] = root.unit}
      BY <3>1, <3>2 DEF UnitIn
    <3>4. SteadyPids' \subseteq alive /\ unitOf' = unitOf
      BY <2>1, PastFrame DEF SteadyPids, PastInv
    <3>5. QED
      BY <2>1, <3>1, <3>2, <3>3, <3>4 DEF RelatedInv, PidInv, ServiceInv, FindInv
  <2>4. QED
    BY <1>17, <2>2, <2>3 DEF Members
<1>18. ASSUME RelatedPorts PROVE RelatedInv'
  <2>1. graph'.procs = graph.procs /\ graph'.svcs = graph.svcs
    BY <1>18, GraphFields DEF RelatedPorts, DataOK
  <2>2. QED
    BY <1>18, <2>1, PastFrame, RelatedFrame DEF RelatedPorts
<1>19. ASSUME RootLogs PROVE RelatedInv'
  <2>1. graph'.procs = graph.procs /\ graph'.svcs = graph.svcs
    BY <1>19, LogKeeps DEF RootLogs, DataOK
  <2>2. QED
    BY <1>19, <2>1, PastFrame, RelatedFrame DEF RootLogs
<1>20. ASSUME FindServices PROVE RelatedInv'
  <2>1. PICK a \in ListServices :
          /\ graph' = (IF a = "failed" THEN graph
                       ELSE [graph EXCEPT !.svcs = {NamedUnit} \ {NoUnit}])
          /\ note' = (IF a = "ok" THEN note ELSE "warning")
    BY <1>20 DEF FindServices
  <2>2. note' = "none" => graph'.svcs = {NamedUnit} \ {NoUnit}
    BY <2>1, GraphFields DEF DataOK
  <2>3. xpc' = "processes" /\ root'.kind = "none" /\ NamedUnit' = NamedUnit
    BY <1>20 DEF FindServices, KindInv, NamedUnit
  <2>4. QED
    BY <2>2, <2>3 DEF RelatedInv, PidInv, ServiceInv, FindInv
<1>21. ASSUME FindProcesses PROVE RelatedInv'
  <2>1. /\ xpc = "processes" /\ UNCHANGED <<ask, root, probe, worldVars, pastVars>>
        /\ root.kind = "none" /\ ask = "find" /\ NamedUnit' = NamedUnit
    BY <1>21 DEF FindProcesses, KindInv, NamedUnit
  <2>2. CASE xpc' = "over"
    BY <2>2, AnswerElsewhere
  <2>3. ASSUME NEW a \in ListProcesses,
               graph' = [graph EXCEPT !.procs =
                 {p \in a.rows : <<p, birth[p]>> \in Named \/ UnitIn(a, p) \in graph.svcs}],
               note' = Worse(a.note), xpc' = "dump"
        PROVE  RelatedInv'
    <3>1. /\ graph'.procs = {p \in a.rows : <<p, birth[p]>> \in Named \/ UnitIn(a, p) \in graph.svcs}
          /\ graph'.svcs = graph.svcs
      BY <2>3, GraphFields DEF DataOK
    <3>2. note' = "none" => note = "none" /\ a.rows = alive /\ a.unitless = {}
      BY <2>1, <2>3, ListFacts, WorseFacts DEF DataOK
    <3>3. note' = "none" =>
            graph'.procs = {p \in alive : <<p, birth[p]>> \in Named \/ unitOf[p] \in graph.svcs}
      BY <3>1, <3>2 DEF UnitIn
    <3>4. SteadyPids' \subseteq alive /\ unitOf' = unitOf /\ birth' = birth
      BY <2>1, PastFrame DEF SteadyPids, PastInv
    <3>5. note' = "none" => {NamedUnit} \ {NoUnit} \subseteq graph.svcs
      BY <2>1, <3>2 DEF RelatedInv, FindInv
    <3>6. FindInv'
      BY <2>1, <2>3, <3>1, <3>3, <3>4, <3>5 DEF FindInv
    <3>7. QED
      BY <2>1, <3>6 DEF RelatedInv, PidInv, ServiceInv
  <2>4. QED
    BY <1>21, <2>2, <2>3 DEF FindProcesses
<1>22. CASE UNCHANGED xVars
  BY <1>22, PastFrame, RelatedFrame DEF xVars, callVars
<1>23. QED
  BY <1>1, <1>2, <1>3, <1>4, <1>5, <1>6, <1>7, <1>8, <1>9, <1>10, <1>11, <1>12, <1>13,
     <1>14, <1>15, <1>16, <1>17, <1>18, <1>19, <1>20, <1>21, <1>22 DEF ExplorerNext

-----------------------------------------------------------------------------
(* CompleteOrWarned. *)

\* The ports of a process or a service: what its processes have held all along.
PortsInv ==
  note = "none" /\ xpc \in {"logs", "finalize"} =>
    \A h \in steadyHolds : h[2] \in graph.procs => h[1] \in graph.ports

(* Only these steps lead to the log of the answer, or stay there. *)
LEMMA LogsLanding ==
  ASSUME DataOK, ExplorerNext, xpc' \in {"logs", "finalize"}
  PROVE  HostGoesOn \/ RelatedPorts \/ RootLogs
<1>. USE DEF To, Over
<1>1. ~Explore /\ ~ProbeProcess /\ ~NameLookedUp
  BY ExploreFacts DEF ProbeProcess, NameLookedUp
<1>2. ~NumberResolved /\ ~NamesListed
  BY NumberFacts, NamesFacts
<1>3. ~DumpSockets /\ ~ResolveOwners /\ ~PortsInspected /\ ~CallThrows
  BY DumpFacts, ResolveFacts DEF PortsInspected, CallThrows
<1>4. \A p \in Pids : ~InspectOwner(p) /\ ~VisitPid(p)
  BY DEF InspectOwner, VisitPid
<1>5. \A u \in Units : ~RelatedService(u) /\ ~VisitUnit(u)
  BY DEF RelatedService, VisitUnit
<1>6. ~PortRoot /\ ~ProcessRoot /\ ~ServiceRoot /\ ~Members
  BY DEF PortRoot, ProcessRoot, ServiceRoot, Members
<1>7. ~Finalize /\ ~FindServices /\ ~FindProcesses /\ ~FindPorts
  BY DEF Finalize, FindServices, FindProcesses, FindPorts
<1>8. QED
  BY <1>1, <1>2, <1>3, <1>4, <1>5, <1>6, <1>7 DEF ExplorerNext

LEMMA PortsNext ==
  /\ DataOK /\ PastInv /\ KindInv /\ SocksInv /\ OwnersInv /\ PortsInv
  /\ [ExplorerNext]_xVars
  => PortsInv'
<1> SUFFICES ASSUME DataOK, PastInv, KindInv, SocksInv, OwnersInv, PortsInv,
                    [ExplorerNext]_xVars
             PROVE  PortsInv'
  OBVIOUS
<1>1. ASSUME HostGoesOn PROVE PortsInv'
  <2>1. UNCHANGED <<xpc, graph, note>> /\ steadyHolds' \subseteq steadyHolds
    BY <1>1, HostPast DEF HostGoesOn
  <2>2. QED
    BY <2>1 DEF PortsInv
<1>2. ASSUME RelatedPorts, note' = "none" PROVE PortsInv'
  <2>1. /\ xpc = "ports" /\ root.kind \in {"pid", "unit"} /\ portsOk /\ note = "none"
        /\ graph' = [graph EXCEPT !.ports = {i \in socks : owned[i] \cap graph.procs # {}}]
        /\ steadyHolds' = steadyHolds
    BY <1>2 DEF RelatedPorts, pastVars
  <2>2. /\ graph'.procs = graph.procs
        /\ graph'.ports = {i \in socks : owned[i] \cap graph.procs # {}}
    BY <2>1, GraphFields DEF DataOK
  <2>3. SteadySocks \cap Inodes \subseteq socks
    BY <2>1 DEF SocksInv, Sought
  <2>4. \A h \in steadyHolds : h[1] \in socks /\ h[2] \in owned[h[1]]
    BY <2>1, <2>3, HoldFacts DEF OwnersInv
  <2>5. QED
    BY <2>1, <2>2, <2>4 DEF PortsInv
<1>3. ASSUME RootLogs PROVE PortsInv'
  <2>1. graph'.procs = graph.procs /\ graph'.ports = graph.ports
    BY <1>3, LogKeeps DEF RootLogs, DataOK
  <2>2. QED
    BY <1>3, <2>1 DEF RootLogs, PortsInv, pastVars
<1>4. CASE UNCHANGED xVars
  BY <1>4 DEF xVars, pastVars, PortsInv
<1>5. CASE ~(xpc' \in {"logs", "finalize"} /\ note' = "none")
  BY <1>5 DEF PortsInv
<1>6. QED
  BY <1>1, <1>2, <1>3, <1>4, <1>5, LogsLanding

(* The steps that end with an answer that has to be complete. *)
LEMMA AnswerSteps ==
  ASSUME DataOK, KindInv, ExplorerNext, xpc' = "over",
         xend' = "ok" \/ (xend' = "NotFound" /\ ask' \in {"port:", "find"})
  PROVE  Finalize \/ FindPorts \/ PortRoot
<1>. USE DEF To, Over
<1>1. ~Explore /\ ~ProbeProcess /\ ~NameLookedUp
  BY ExploreFacts DEF ProbeProcess, NameLookedUp
<1>2. ~NumberResolved
  <2>1. NumberResolved => ask' = "number" /\ xend' # "ok"
    BY NumberFacts DEF NumberResolved
  <2>2. QED
    BY <2>1
<1>3. ~NamesListed
  <2>1. NamesListed => ask' = "name" /\ xend' # "ok"
    BY NamesFacts DEF NamesListed, KindInv
  <2>2. QED
    BY <2>1
<1>4. ~DumpSockets /\ ~ResolveOwners /\ ~PortsInspected /\ ~CallThrows
  BY DumpFacts, ResolveFacts DEF PortsInspected, CallThrows
<1>5. \A p \in Pids : ~InspectOwner(p) /\ ~VisitPid(p)
  BY DEF InspectOwner, VisitPid
<1>6. \A u \in Units : ~RelatedService(u) /\ ~VisitUnit(u)
  BY DEF RelatedService, VisitUnit
<1>7. ~ProcessRoot /\ ~ServiceRoot /\ ~Members /\ ~RelatedPorts
  BY DEF ProcessRoot, ServiceRoot, Members, RelatedPorts
<1>8. ~RootLogs /\ ~FindServices /\ ~FindProcesses /\ ~HostGoesOn
  BY DEF RootLogs, FindServices, FindProcesses, HostGoesOn
<1>9. QED
  BY <1>1, <1>2, <1>3, <1>4, <1>5, <1>6, <1>7, <1>8 DEF ExplorerNext

(* The answer about a port. *)
LEMMA PortComplete ==
  ASSUME root.kind = "port",
         SteadySocks \cap AtPort \subseteq graph.ports,
         \A h \in steadyHolds : h[1] \in AtPort =>
           h[2] \in graph.procs /\ unitOf[h[2]] \in {NoUnit} \cup graph.svcs,
         ask # "find"
  PROVE  Complete
<1>1. Related = LET owners == {h[2] : h \in {h \in steadyHolds : h[1] \in AtPort}}
                IN  [procs |-> owners, ports |-> SteadySocks \cap AtPort,
                     svcs |-> {unitOf[p] : p \in owners} \ {NoUnit}]
  BY DEF Related
<1>2. QED
  BY <1>1 DEF Complete

LEMMA PidComplete ==
  ASSUME root.kind = "pid", ask # "find", graph.procs = {root.pid},
         root.pid \in SteadyPids => unitOf[root.pid] \in {NoUnit} \cup graph.svcs,
         \A h \in steadyHolds : h[2] \in graph.procs => h[1] \in graph.ports
  PROVE  Complete
<1>1. Related = [procs |-> {root.pid}, ports |-> HeldBy({root.pid} \cap SteadyPids),
                 svcs |-> {unitOf[p] : p \in {root.pid} \cap SteadyPids} \ {NoUnit}]
  BY DEF Related
<1>2. QED
  BY <1>1 DEF Complete, HeldBy

LEMMA ServiceComplete ==
  ASSUME root.kind = "unit", ask # "find", root.unit \in graph.svcs,
         \A p \in SteadyPids : unitOf[p] = root.unit => p \in graph.procs,
         \A h \in steadyHolds : h[2] \in graph.procs => h[1] \in graph.ports
  PROVE  Complete
<1>1. Related = LET members == {p \in SteadyPids : unitOf[p] = root.unit}
                IN  [procs |-> members, ports |-> HeldBy(members), svcs |-> {root.unit}]
  BY DEF Related
<1>2. QED
  BY <1>1 DEF Complete, HeldBy

LEMMA FindComplete ==
  ASSUME root.kind = "none", ask = "find", {NamedUnit} \ {NoUnit} \subseteq graph.svcs,
         \A p \in SteadyPids :
           <<p, birth[p]>> \in Named \/ unitOf[p] \in {NamedUnit} \ {NoUnit} =>
             p \in graph.procs,
         \A h \in steadyHolds : h[2] \in graph.procs => h[1] \in graph.ports,
         SteadySocks \cap AtPort \subseteq graph.ports
  PROVE  Complete
<1>1. Related = LET named == {p \in SteadyPids :
                         <<p, birth[p]>> \in Named \/ unitOf[p] \in {NamedUnit} \ {NoUnit}}
                IN  [procs |-> named, ports |-> HeldBy(named) \cup (SteadySocks \cap AtPort),
                     svcs |-> {NamedUnit} \ {NoUnit}]
  BY DEF Related
<1>2. QED
  BY <1>1 DEF Complete, HeldBy

\* What has to be said of an answer, by what was asked.
DoneInv ==
  /\ xpc = "over" /\ note = "none"
  /\ xend = "ok" \/ (xend = "NotFound" /\ ask \in {"port:", "find"})
  =>
    /\ root.kind = "none" => ask = "find"
    /\ root.kind = "port" =>
         /\ SteadySocks \cap AtPort \subseteq graph.ports
         /\ \A h \in steadyHolds : h[1] \in AtPort =>
              h[2] \in graph.procs /\ unitOf[h[2]] \in {NoUnit} \cup graph.svcs
    /\ root.kind = "pid" =>
         /\ graph.procs = {root.pid}
         /\ root.pid \in SteadyPids => unitOf[root.pid] \in {NoUnit} \cup graph.svcs
    /\ root.kind = "unit" =>
         /\ root.unit \in graph.svcs
         /\ \A p \in SteadyPids : unitOf[p] = root.unit => p \in graph.procs
    /\ root.kind # "port" =>
         \A h \in steadyHolds : h[2] \in graph.procs => h[1] \in graph.ports
    /\ ask = "find" =>
         /\ {NamedUnit} \ {NoUnit} \subseteq graph.svcs
         /\ \A p \in SteadyPids :
              <<p, birth[p]>> \in Named \/ unitOf[p] \in {NamedUnit} \ {NoUnit} =>
                p \in graph.procs
         /\ SteadySocks \cap AtPort \subseteq graph.ports

LEMMA DoneComplete == DataOK /\ KindInv /\ DoneInv => CompleteOrWarned
<1> SUFFICES ASSUME DataOK, KindInv, DoneInv, note = "none",
                    xend = "ok" \/ (xend = "NotFound" /\ ask \in {"port:", "find"})
             PROVE  Complete
  BY DEF CompleteOrWarned
<1>1. xpc = "over"
  BY DEF KindInv
<1>2. root.kind \in {"none", "port", "pid", "unit"} /\ (ask = "find" => root.kind = "none")
  BY DEF DataOK, Roots, KindInv
<1>3. CASE root.kind = "none"
  BY <1>1, <1>3, FindComplete DEF DoneInv
<1>4. CASE root.kind = "port"
  BY <1>1, <1>2, <1>4, PortComplete DEF DoneInv
<1>5. CASE root.kind = "pid"
  BY <1>1, <1>2, <1>5, PidComplete DEF DoneInv
<1>6. CASE root.kind = "unit"
  BY <1>1, <1>2, <1>6, ServiceComplete DEF DoneInv
<1>7. QED
  BY <1>2, <1>3, <1>4, <1>5, <1>6

-----------------------------------------------------------------------------
(* The log put together for a port. *)

\* Whose logs are read: the units of the owners, and the owners without one.
Key(p) == IF service[p] = NoUnit THEN p ELSE service[p]
Keys == {Key(p) : p \in graph.procs}

LogsInv ==
  /\ graph.logs \in Seq(Entries) /\ Distinct(graph.logs)
  /\ xpc \notin {"visit", "finalize", "over"} => graph.logs = <<>>
  /\ xpc = "visit" =>
       /\ unvisited \subseteq Keys
       /\ note = "none" => \A x \in Keys \ unvisited : \A n \in Scope(x, LogStart) :
                              Collected(n, graph.logs)
  /\ RecentLogsWhole

(* Only these steps touch the log. *)
LEMMA LogsKept ==
  ASSUME DataOK, ExplorerNext
  PROVE  \/ graph'.logs = graph.logs
         \/ \E p \in Pids : VisitPid(p)
         \/ \E u \in Units : VisitUnit(u)
         \/ RootLogs \/ Finalize
<1>0. GraphOK(graph)
  BY DEF DataOK
<1>1. ASSUME \/ Explore \/ ProbeProcess \/ NumberResolved \/ NameLookedUp \/ NamesListed
             \/ DumpSockets \/ ResolveOwners \/ PortsInspected \/ CallThrows \/ HostGoesOn
      PROVE  graph' = graph
  BY <1>1 DEF Explore, ProbeProcess, NumberResolved, NameLookedUp, NamesListed, DumpSockets,
              ResolveOwners, PortsInspected, CallThrows, HostGoesOn
<1>2. ASSUME NEW p \in Pids, InspectOwner(p) PROVE graph'.logs = graph.logs
  BY <1>0, <1>2, GraphFields DEF InspectOwner
<1>3. ASSUME NEW g, NEW u, NEW a, g = WithService(graph, u, a) PROVE g.logs = graph.logs
  BY <1>0, <1>3, GraphFields DEF WithService
<1>4. ASSUME NEW u \in Units, RelatedService(u) PROVE graph'.logs = graph.logs
  BY <1>3, <1>4 DEF RelatedService
<1>5. ASSUME ServiceRoot PROVE graph'.logs = graph.logs
  BY <1>3, <1>5 DEF ServiceRoot
<1>6. ASSUME PortRoot PROVE graph'.logs = graph.logs
  BY <1>0, <1>6, GraphFields DEF PortRoot
<1>7. ASSUME ProcessRoot PROVE graph'.logs = graph.logs
  BY <1>0, <1>7, GraphFields DEF ProcessRoot
<1>8. ASSUME Members PROVE graph'.logs = graph.logs
  BY <1>0, <1>8, GraphFields DEF Members
<1>9. ASSUME RelatedPorts PROVE graph'.logs = graph.logs
  BY <1>0, <1>9, GraphFields DEF RelatedPorts
<1>10. ASSUME FindServices \/ FindProcesses \/ FindPorts PROVE graph'.logs = graph.logs
  BY <1>0, <1>10, GraphFields DEF FindServices, FindProcesses, FindPorts
<1>11. QED
  BY <1>1, <1>2, <1>4, <1>5, <1>6, <1>7, <1>8, <1>9, <1>10 DEF ExplorerNext

(* Once the owners are visited or the log is read, what is left is to end. *)
LEMMA NoWayBack ==
  ASSUME ExplorerNext, xpc \in {"visit", "finalize", "over"}
  PROVE  /\ xpc' \in {"visit", "finalize", "over"}
         /\ ~RootLogs
<1>. USE DEF To, Over
<1>1. ~Explore /\ ~ProbeProcess /\ ~NumberResolved /\ ~NameLookedUp /\ ~NamesListed
  BY DEF Explore, ProbeProcess, NumberResolved, NameLookedUp, NamesListed
<1>2. ~DumpSockets /\ ~ResolveOwners /\ ~PortsInspected /\ ~PortRoot
  BY DEF DumpSockets, ResolveOwners, PortsInspected, PortRoot
<1>3. \A p \in Pids : ~InspectOwner(p) /\ (VisitPid(p) => xpc' = "visit")
  BY DEF InspectOwner, VisitPid
<1>4. \A u \in Units : ~RelatedService(u) /\ (VisitUnit(u) => xpc' = "visit")
  BY DEF RelatedService, VisitUnit
<1>5. ~ProcessRoot /\ ~ServiceRoot /\ ~Members /\ ~RelatedPorts /\ ~RootLogs
  BY DEF ProcessRoot, ServiceRoot, Members, RelatedPorts, RootLogs
<1>6. ~FindServices /\ ~FindProcesses /\ ~FindPorts
  BY DEF FindServices, FindProcesses, FindPorts
<1>7. CallThrows \/ Finalize => xpc' = "over"
  BY DEF CallThrows, Finalize
<1>8. HostGoesOn => xpc' = xpc
  BY DEF HostGoesOn
<1>9. QED
  BY <1>1, <1>2, <1>3, <1>4, <1>5, <1>6, <1>7, <1>8 DEF ExplorerNext

(* One log read: the entries are added, once each. *)
LEMMA LogRead ==
  ASSUME NEW g, GraphOK(g), g.logs \in Seq(Entries), Distinct(g.logs), NEW x, NEW read
  PROVE  /\ WithLog(g, x, read).logs \in Seq(Entries) /\ Distinct(WithLog(g, x, read).logs)
         /\ read => Shown(WithLog(g, x, read).logs) = Shown(g.logs) \cup Newest(x)
<1>1. CASE read
  <2>1. WithLog(g, x, read).logs = AddLogs(g.logs, x)
    BY <1>1, GraphFields DEF WithLog
  <2>2. QED
    BY <2>1, AddFacts
<1>2. CASE ~read
  BY <1>2 DEF WithLog
<1>3. QED
  BY <1>1, <1>2

(* One owner's unit or one owner visited. *)
LEMMA KeyVisited ==
  ASSUME DataOK, LogsInv, NEW x \in unvisited, xpc = "visit", xpc' = "visit",
         xend' = xend, service' = service, unvisited' = unvisited \ {x},
         NEW g, GraphOK(g), g.logs = graph.logs, g.procs = graph.procs,
         NEW read, graph' = WithLog(g, x, read), xend # "ok",
         note' = "none" => note = "none" /\ read
  PROVE  LogsInv'
<1>1. /\ graph'.logs \in Seq(Entries) /\ Distinct(graph'.logs)
      /\ read => Shown(graph'.logs) = Shown(graph.logs) \cup Newest(x)
  BY LogRead DEF LogsInv
<1>2. graph'.procs = graph.procs
  BY LogKeeps
<1>3. Keys' = Keys
  BY <1>2 DEF Keys, Key
<1>4. x \in Keys /\ unvisited \subseteq Keys
  BY DEF LogsInv
<1>5. Keys' \ unvisited' = (Keys \ unvisited) \cup {x}
  BY <1>3, <1>4
<1>6. ASSUME note' = "none"
      PROVE  \A y \in Keys' \ unvisited' : \A n \in Scope(y, LogStart) :
               Collected(n, graph'.logs)
  <2>1. Shown(graph'.logs) = Shown(graph.logs) \cup Newest(x) /\ note = "none"
    BY <1>1, <1>6
  <2>2. SUFFICES ASSUME NEW y \in Keys' \ unvisited', NEW n \in Scope(y, LogStart)
                 PROVE  Collected(n, graph'.logs)
    OBVIOUS
  <2>3. CASE n \in Shown(graph'.logs)
    BY <2>3 DEF Collected
  <2>4. CASE n \notin Shown(graph'.logs) /\ y \in Keys \ unvisited
    <3>1. Collected(n, graph.logs)
      BY <2>1, <2>4 DEF LogsInv
    <3>2. Cardinality({m \in Shown(graph.logs) : m > n}) >= LogLimit
      BY <2>1, <2>4, <3>1 DEF Collected
    <3>3. Shown(graph.logs) \in SUBSET Shown(graph'.logs)
      BY <2>1
    <3>4. QED
      BY <1>1, <3>2, <3>3, CollectedBy
  <2>5. CASE n \notin Shown(graph'.logs) /\ y = x
    <3>1. n \in Scope(x, written) \ Newest(x)
      <4>1. n \in Entries /\ n <= LogStart /\ LogStart <= written
        BY DEF Scope, DataOK
      <4>2. n \in Int /\ LogStart \in Int /\ written \in Int
        BY <4>1, ExplorerAssumption DEF DataOK, Entries
      <4>3. n <= written
        BY <4>1, <4>2
      <4>4. QED
        BY <2>1, <2>5, <4>3 DEF Scope
    <3>2. Cardinality({m \in Newest(x) : m > n}) >= LogLimit
      BY <3>1, LeftOutForNewer
    <3>3. Newest(x) \in SUBSET Shown(graph'.logs)
      BY <2>1
    <3>4. QED
      BY <1>1, <3>2, <3>3, CollectedBy
  <2>6. QED
    BY <1>5, <2>3, <2>4, <2>5
<1>7. RecentLogsWhole'
  BY DEF RecentLogsWhole
<1>8. QED
  BY <1>1, <1>3, <1>4, <1>6, <1>7 DEF LogsInv

LEMMA LogsNext == DataOK /\ KindInv /\ LogsInv /\ [ExplorerNext]_xVars => LogsInv'
<1> SUFFICES ASSUME DataOK, KindInv, LogsInv, [ExplorerNext]_xVars PROVE LogsInv'
  OBVIOUS
<1>. USE DEF To, Over
<1>0. GraphOK(graph) /\ KindInv' /\ DataOK'
  BY KindNext, ExplorerDataNext DEF DataOK
<1>1. ASSUME NEW p \in Pids, VisitPid(p) PROVE LogsInv'
  <2>1. /\ xpc = "visit" /\ p \in unvisited /\ unvisited' = unvisited \ {p}
        /\ UNCHANGED <<xpc, xend, service>>
    BY <1>1 DEF VisitPid
  <2>2. PICK read \in Reads : /\ graph' = WithLog(graph, p, read)
                              /\ note' = IF read THEN note ELSE "warning"
    BY <1>1 DEF VisitPid
  <2>3. (note' = "none" => note = "none" /\ read) /\ xend # "ok"
    BY <2>1, <2>2 DEF KindInv
  <2>4. QED
    BY <1>0, <2>1, <2>2, <2>3, KeyVisited
<1>2. ASSUME NEW u \in Units, VisitUnit(u) PROVE LogsInv'
  <2>1. /\ xpc = "visit" /\ u \in unvisited /\ unvisited' = unvisited \ {u}
        /\ UNCHANGED <<xpc, xend, service>>
    BY <1>2 DEF VisitUnit
  <2>2. PICK a \in GetService(u), read \in Reads :
          /\ graph' = WithLog(WithService(graph, u, a), u, read)
          /\ note' = IF a = "ok" /\ read THEN note ELSE "warning"
    BY <1>2 DEF VisitUnit
  <2>3. (note' = "none" => note = "none" /\ read) /\ xend # "ok"
    BY <2>1, <2>2 DEF KindInv
  <2>4. /\ GraphOK(WithService(graph, u, a)) /\ WithService(graph, u, a).procs = graph.procs
    BY <1>0, ServiceAdded DEF AnyUnit
  <2>5. WithService(graph, u, a).logs = graph.logs
    BY <1>0, GraphFields DEF WithService
  <2>6. QED
    BY <2>1, <2>2, <2>3, <2>4, <2>5, KeyVisited
<1>3. ASSUME RootLogs PROVE LogsInv'
  <2>1. xpc = "logs" /\ xpc' = "finalize" /\ xend' = xend
    BY <1>3 DEF RootLogs
  <2>2. PICK read \in Reads :
          graph' = WithLog(graph, IF root.kind = "pid" THEN root.pid ELSE root.unit, read)
    BY <1>3 DEF RootLogs
  <2>3. graph'.logs \in Seq(Entries) /\ Distinct(graph'.logs)
    BY <1>0, <2>2, LogRead DEF LogsInv
  <2>4. xend' # "ok"
    BY <2>1 DEF KindInv
  <2>5. QED
    BY <2>1, <2>3, <2>4 DEF LogsInv, RecentLogsWhole
<1>4. ASSUME Finalize PROVE LogsInv'
  <2>1. /\ xpc' = "over" /\ UNCHANGED <<root, note, service>>
        /\ graph' = [graph EXCEPT !.logs = FinalizeLogs(graph.logs)]
        /\ xpc = "finalize" \/ (xpc = "visit" /\ unvisited = {})
    BY <1>4 DEF Finalize, callVars
  <2>2. graph'.logs = FinalizeLogs(graph.logs) /\ graph'.procs = graph.procs
    BY <1>0, <2>1, GraphFields
  <2>3. graph'.logs \in Seq(Entries) /\ Distinct(graph'.logs)
    BY <2>2, FinalFacts DEF LogsInv
  <2>4. ASSUME root.kind = "port", note = "none" PROVE RecentLogsWhole'
    <3>1. xpc = "visit" /\ Keys \ unvisited = Keys
      BY <2>1, <2>4 DEF KindInv
    <3>. DEFINE E == UNION {Scope(x, LogStart) : x \in Keys}
    <3>2. E \in SUBSET Entries /\ \A n \in E : Collected(n, graph.logs)
      BY <2>4, <3>1 DEF LogsInv, Scope
    <3>. HIDE DEF E
    <3>3. /\ Cardinality(Shown(graph'.logs)) = Len(graph'.logs)
          /\ \A n \in E \ Shown(graph'.logs) :
               Len(graph'.logs) = LogLimit /\ \A m \in Shown(graph'.logs) : m > n
      BY <2>2, <3>2, NewestOfAll DEF LogsInv
    <3>4. E = UNION {Scope(IF service[p] = NoUnit THEN p ELSE service[p], LogStart) :
                       p \in graph.procs}
      BY DEF E, Keys, Key
    <3>5. QED
      BY <2>1, <2>2, <3>3, <3>4 DEF RecentLogsWhole
  <2>5. RecentLogsWhole'
    BY <2>1, <2>4 DEF RecentLogsWhole
  <2>6. QED
    BY <2>1, <2>3, <2>5 DEF LogsInv
<1>5. ASSUME PortRoot PROVE LogsInv'
  <2>1. xpc = "ports" /\ graph.logs = <<>>
    BY <1>5 DEF PortRoot, LogsInv
  <2>2. graph'.logs = graph.logs
    BY <1>0, <1>5, GraphFields DEF PortRoot
  <2>3. RecentLogsWhole'
    BY <1>5, <2>1 DEF PortRoot, KindInv, RecentLogsWhole
  <2>4. ASSUME xpc' = "visit"
        PROVE  unvisited' = Keys'
    <3>1. /\ graph' = [graph EXCEPT !.ports = socks] /\ service' = service
          /\ unvisited' = {IF service[p] = NoUnit THEN p ELSE service[p] : p \in graph.procs}
      BY <1>5, <2>4 DEF PortRoot
    <3>2. graph'.procs = graph.procs
      BY <1>0, <3>1, GraphFields
    <3>3. QED
      BY <3>1, <3>2 DEF Keys, Key
  <2>5. QED
    BY <2>1, <2>2, <2>3, <2>4 DEF LogsInv
<1>6. ASSUME HostGoesOn PROVE LogsInv'
  <2>1. UNCHANGED <<xpc, root, unvisited, service, graph, note, xend>>
    BY <1>6 DEF HostGoesOn, callVars
  <2>2. QED
    BY <2>1 DEF LogsInv, RecentLogsWhole, Keys, Key
<1>7. ASSUME ExplorerNext, graph'.logs = graph.logs, ~PortRoot, ~HostGoesOn, ~Finalize,
             \A p \in Pids : ~VisitPid(p), \A u \in Units : ~VisitUnit(u)
      PROVE  LogsInv'
  <2>1. xpc' # "visit"
    BY <1>7, VisitLanding
  <2>2. xpc' \notin {"visit", "finalize", "over"} => xpc \notin {"visit", "finalize", "over"}
    BY <1>7, NoWayBack
  <2>3. RecentLogsWhole'
    <3>1. SUFFICES ASSUME root'.kind = "port", xend' = "ok" PROVE FALSE
      BY DEF RecentLogsWhole
    <3>2. xpc' = "over"
      BY <1>0, <3>1 DEF KindInv
    <3>3. FindPorts
      BY <1>7, <3>1, <3>2, AnswerSteps
    <3>4. ask = "find" /\ root' = root
      BY <3>3 DEF FindPorts
    <3>5. QED
      BY <3>1, <3>4 DEF KindInv
  <2>4. QED
    BY <1>7, <2>1, <2>2, <2>3 DEF LogsInv
<1>8. CASE UNCHANGED xVars
  BY <1>8 DEF LogsInv, RecentLogsWhole, Keys, Key, xVars, callVars
<1>9. QED
  BY <1>1, <1>2, <1>3, <1>4, <1>5, <1>6, <1>7, <1>8, LogsKept

-----------------------------------------------------------------------------
(* Where a command can be and how it can end. *)

WhereOK ==
  /\ xpc \in {"idle", "probe", "name", "names", "process", "related", "service",
              "members", "dump", "scan", "owners", "ports", "visit", "logs",
              "finalize", "services", "processes", "over"}
  /\ ask \in LookupKinds
  /\ xend \in {"none", "ok", "InvalidArgument", "NotFound", "Conflict", "failed",
                 "aborted"}

LEMMA WhereNext == DataOK /\ WhereOK /\ [ExplorerNext]_xVars => WhereOK'
<1> SUFFICES ASSUME DataOK, WhereOK, [ExplorerNext]_xVars PROVE WhereOK'
  OBVIOUS
<1>. USE DEF To, Over, WhereOK
<1>1. ASSUME Explore PROVE WhereOK'
  BY <1>1, ExploreFacts DEF LookupKinds
<1>2. ASSUME ProbeProcess \/ NameLookedUp \/ PortsInspected \/ CallThrows \/ HostGoesOn
      PROVE  WhereOK'
  BY <1>2 DEF ProbeProcess, NameLookedUp, PortsInspected, CallThrows, HostGoesOn
<1>3. ASSUME NumberResolved \/ NamesListed PROVE WhereOK'
  BY <1>3, NumberFacts, NamesFacts
<1>4. ASSUME DumpSockets \/ ResolveOwners PROVE WhereOK'
  BY <1>4, DumpFacts, ResolveFacts
<1>5. ASSUME NEW p \in Pids, InspectOwner(p) \/ VisitPid(p) PROVE WhereOK'
  BY <1>5 DEF InspectOwner, VisitPid
<1>6. ASSUME NEW u \in Units, VisitUnit(u) \/ RelatedService(u) PROVE WhereOK'
  BY <1>6 DEF VisitUnit, RelatedService
<1>7. ASSUME PortRoot \/ ServiceRoot \/ Members \/ RelatedPorts \/ RootLogs \/ Finalize
      PROVE  WhereOK'
  BY <1>7 DEF PortRoot, ServiceRoot, Members, RelatedPorts, RootLogs, Finalize
<1>8. ASSUME ProcessRoot PROVE WhereOK'
  BY <1>8 DEF ProcessRoot
<1>9. ASSUME FindServices \/ FindProcesses \/ FindPorts PROVE WhereOK'
  BY <1>9 DEF FindServices, FindProcesses, FindPorts
<1>10. CASE UNCHANGED xVars
  BY <1>10 DEF xVars
<1>11. QED
  BY <1>1, <1>2, <1>3, <1>4, <1>5, <1>6, <1>7, <1>8, <1>9, <1>10 DEF ExplorerNext

-----------------------------------------------------------------------------

ExplorerInv ==
  /\ DataOK /\ PastInv /\ KindInv /\ SocksInv /\ GuessInv /\ OwnersInv /\ VisitInv
  /\ RelatedInv /\ PortsInv /\ DoneInv /\ LogsInv /\ WhereOK

LEMMA DoneNext == ExplorerInv /\ [ExplorerNext]_xVars => DoneInv'
<1> SUFFICES ASSUME ExplorerInv, [ExplorerNext]_xVars PROVE DoneInv'
  OBVIOUS
<1>. USE DEF ExplorerInv
<1>1. ASSUME Finalize, note' = "none" PROVE DoneInv'
  <2>1. /\ xpc = "finalize" \/ (xpc = "visit" /\ unvisited = {})
        /\ note = "none" /\ UNCHANGED <<ask, root, probe, worldVars, pastVars>>
        /\ graph' = [graph EXCEPT !.logs = FinalizeLogs(graph.logs)]
    BY <1>1 DEF Finalize
  <2>2. graph'.procs = graph.procs /\ graph'.svcs = graph.svcs /\ graph'.ports = graph.ports
    BY <2>1, GraphFields DEF DataOK
  <2>3. /\ SteadyPids' = SteadyPids /\ SteadySocks' = SteadySocks /\ unitOf' = unitOf
        /\ steadyHolds' = steadyHolds
    BY <2>1, PastFrame
  <2>4. CASE xpc = "visit" /\ unvisited = {}
    <3>1. root.kind = "port" /\ ask # "find"
      BY <2>4 DEF KindInv
    <3>2. QED
      BY <2>1, <2>2, <2>3, <2>4, <3>1 DEF VisitInv, DoneInv
  <2>5. CASE xpc = "finalize"
    <3>1. root.kind \in {"pid", "unit"} /\ ask # "find"
      BY <2>5 DEF KindInv
    <3>2. \A h \in steadyHolds : h[2] \in graph.procs => h[1] \in graph.ports
      BY <2>1, <2>5 DEF PortsInv
    <3>3. root.kind = "pid" =>
            /\ graph.procs = {root.pid}
            /\ root.pid \in SteadyPids => unitOf[root.pid] \in {NoUnit} \cup graph.svcs
      BY <2>1, <2>5 DEF RelatedInv, PidInv, AnswerPcs
    <3>4. root.kind = "unit" =>
            /\ root.unit \in graph.svcs
            /\ \A p \in SteadyPids : unitOf[p] = root.unit => p \in graph.procs
      BY <2>1, <2>5 DEF RelatedInv, ServiceInv, AnswerPcs
    <3>5. QED
      BY <2>1, <2>2, <2>3, <3>1, <3>2, <3>3, <3>4 DEF DoneInv
  <2>6. QED
    BY <2>1, <2>4, <2>5
<1>2. ASSUME FindPorts, note' = "none" PROVE DoneInv'
  <2>1. /\ xpc = "ports" /\ ask = "find" /\ root.kind = "none" /\ portsOk /\ note = "none"
        /\ graph' = [graph EXCEPT !.ports = FoundPorts]
        /\ UNCHANGED <<ask, root, probe, worldVars, pastVars>>
    BY <1>2 DEF FindPorts, Dropped, KindInv
  <2>2. graph'.procs = graph.procs /\ graph'.svcs = graph.svcs /\ graph'.ports = FoundPorts
    BY <2>1, GraphFields DEF DataOK
  <2>3. /\ SteadyPids' = SteadyPids /\ SteadySocks' = SteadySocks /\ unitOf' = unitOf
        /\ steadyHolds' = steadyHolds /\ birth' = birth /\ NamedUnit' = NamedUnit
    BY <2>1, PastFrame DEF NamedUnit
  <2>4. SteadySocks \cap Inodes \subseteq socks
    BY <2>1 DEF SocksInv, Sought
  <2>5. \A h \in steadyHolds : h[1] \in socks /\ h[2] \in owned[h[1]]
    BY <2>1, <2>4, HoldFacts DEF OwnersInv
  <2>6. \A h \in steadyHolds : h[2] \in graph.procs => h[1] \in FoundPorts
    BY <2>5 DEF FoundPorts
  <2>7. SteadySocks \cap AtPort \subseteq FoundPorts
    BY <2>4, ExplorerAssumption DEF FoundPorts
  <2>8. /\ {NamedUnit} \ {NoUnit} \subseteq graph.svcs
        /\ \A p \in SteadyPids :
             <<p, birth[p]>> \in Named \/ unitOf[p] \in {NamedUnit} \ {NoUnit} =>
               p \in graph.procs
    BY <2>1 DEF RelatedInv, FindInv, PortsPcs
  <2>9. QED
    BY <2>1, <2>2, <2>3, <2>6, <2>7, <2>8 DEF DoneInv
<1>3. ASSUME PortRoot, note' = "none", xpc' = "over", xend' \in {"ok", "NotFound"}
      PROVE  DoneInv'
  <2>1. /\ xpc = "ports" /\ root.kind = "port" /\ portsOk /\ note = "none" /\ socks = {}
        /\ UNCHANGED <<ask, root, graph, worldVars, pastVars>>
    BY <1>3 DEF PortRoot, Dropped, Over, To
  <2>2. ask # "find" /\ Sought = AtPort
    BY <2>1 DEF KindInv, Sought
  <2>3. SteadySocks \cap AtPort = {}
    BY <2>1, <2>2 DEF SocksInv
  <2>4. \A h \in steadyHolds : h[1] \notin AtPort
    BY <2>3, HoldFacts
  <2>5. SteadySocks' = SteadySocks /\ steadyHolds' = steadyHolds
    BY <2>1, PastFrame
  <2>6. QED
    BY <2>1, <2>2, <2>3, <2>4, <2>5 DEF DoneInv
<1>4. CASE UNCHANGED xVars
  <2>1. /\ UNCHANGED <<xpc, ask, root, graph, note, xend>>
        /\ SteadyPids' = SteadyPids /\ SteadySocks' = SteadySocks /\ unitOf' = unitOf
        /\ steadyHolds' = steadyHolds /\ birth' = birth /\ NamedUnit' = NamedUnit
    BY <1>4, PastFrame DEF xVars, NamedUnit
  <2>2. QED
    BY <2>1 DEF DoneInv
<1>5. CASE ~(/\ xpc' = "over" /\ note' = "none"
             /\ xend' = "ok" \/ (xend' = "NotFound" /\ ask' \in {"port:", "find"}))
  BY <1>5 DEF DoneInv
<1>6. QED
  BY <1>1, <1>2, <1>3, <1>4, <1>5, AnswerSteps

-----------------------------------------------------------------------------
(* Theorems. *)

LEMMA ExplorerInvInit == ExplorerInit => ExplorerInv
<1> SUFFICES ASSUME ExplorerInit PROVE ExplorerInv
  OBVIOUS
<1>1. xpc = "idle"
  BY DEF ExplorerInit
<1>2. SocksInv /\ OwnersInv /\ VisitInv /\ PortsInv /\ DoneInv
  BY <1>1 DEF SocksInv, OwnersInv, VisitInv, PortsInv, DoneInv
<1>3. RelatedInv
  BY <1>1 DEF RelatedInv, PidInv, ServiceInv, FindInv, AnswerPcs, PortsPcs
<1>4. LogsInv
  BY <1>1 DEF ExplorerInit, NoGraph, LogsInv, RecentLogsWhole, Distinct
<1>5. WhereOK
  BY DEF ExplorerInit, WhereOK, LookupKinds
<1>6. QED
  BY <1>2, <1>3, <1>4, <1>5, ExplorerDataInit, PastInit, KindInit, GuessInit DEF ExplorerInv

LEMMA ExplorerInvNext == ExplorerInv /\ [ExplorerNext]_xVars => ExplorerInv'
<1> SUFFICES ASSUME ExplorerInv, [ExplorerNext]_xVars PROVE ExplorerInv'
  OBVIOUS
<1>1. DataOK' /\ PastInv' /\ KindInv' /\ SocksInv'
  BY ExplorerDataNext, PastNext, KindNext, SocksNext DEF ExplorerInv
<1>2. GuessInv' /\ OwnersInv' /\ VisitInv'
  BY GuessNext, OwnersNext, VisitNext DEF ExplorerInv
<1>3. RelatedInv' /\ PortsInv' /\ DoneInv' /\ LogsInv' /\ WhereOK'
  BY RelatedNext, PortsNext, DoneNext, LogsNext, WhereNext DEF ExplorerInv
<1>4. QED
  BY <1>1, <1>2, <1>3 DEF ExplorerInv

LEMMA ExplorerInvHolds == ExplorerSpec => []ExplorerInv
BY ExplorerInvInit, ExplorerInvNext, PTL DEF ExplorerSpec

(* The variables of `lx inspect` and `lx find` keep their types: every      *)
(* answer is made of processes, sockets, services and journal entries.     *)
THEOREM ExplorerTypes == ExplorerSpec => []ExplorerTypeOK
<1>1. ExplorerInv => ExplorerTypeOK
  BY DEF ExplorerInv, DataOK, GraphOK, LogsInv, WhereOK, ExplorerTypeOK, Roots, Probes,
         AnyUnit, Notes
<1>2. QED
  BY <1>1, ExplorerInvHolds, PTL

(* ResourceResolver::resolve: whatever the host does between its lookups,  *)
(* a bare number or name that stands for two things which were both there  *)
(* all along is not taken for one of them, unless a lookup failed.         *)
THEOREM NoSilentGuess == ExplorerSpec => []NeverAGuess
<1>1. ExplorerInv => NeverAGuess
  BY DEF ExplorerInv, GuessInv
<1>2. QED
  BY <1>1, ExplorerInvHolds, PTL

(* InspectService::inspect and FindService::find: when no call gave a      *)
(* warning or left something out in silence, the answer has every related  *)
(* process, port and service that was there all along, although each was   *)
(* observed at another moment, and "not found" is true.  A "not found"     *)
(* whose warnings were dropped is no such answer: note is "dropped" then.  *)
THEOREM NothingLeftOut == ExplorerSpec => []CompleteOrWarned
<1>1. ExplorerInv => CompleteOrWarned
  BY DoneComplete DEF ExplorerInv
<1>2. QED
  BY <1>1, ExplorerInvHolds, PTL

(* addLogs and finalizeLogs: the recent log of a port's owners, put        *)
(* together from one query per unit and one per remaining PID while the    *)
(* journal grows, has no entry twice, and of the entries that were there   *)
(* before the first query it leaves out only those older than all it shows *)
(* once the limit is reached.                                              *)
THEOREM LogsWhole == ExplorerSpec => []RecentLogsWhole
<1>1. ExplorerInv => RecentLogsWhole
  BY DEF ExplorerInv, LogsInv
<1>2. QED
  BY <1>1, ExplorerInvHolds, PTL

-----------------------------------------------------------------------------
(* Why an answer is found. *)

\* The resolver looks ports up before anything is resolved (kind "none"),
\* InspectService and FindService after that.
ExplorerPlace(pc, kind) ==
  CASE pc = "idle" -> 0
    [] pc \in {"probe", "name", "services"} -> 1
    [] pc \in {"names", "processes"} -> 2
    [] pc = "dump" -> IF kind = "none" THEN 3 ELSE 9
    [] pc = "scan" -> IF kind = "none" THEN 4 ELSE 10
    [] pc = "owners" -> IF kind = "none" THEN 5 ELSE 11
    [] pc = "ports" -> IF kind = "none" THEN 6 ELSE 12
    [] pc \in {"process", "service"} -> 7
    [] pc \in {"related", "members"} -> 8
    [] pc \in {"visit", "logs"} -> 13
    [] pc = "finalize" -> 14
    [] OTHER -> 15

\* Further on, or one owner or unit less to visit.
ExplorerOnward ==
  \/ ExplorerPlace(xpc', root'.kind) > ExplorerPlace(xpc, root.kind)
  \/ xpc' = xpc /\ root' = root /\ unvisited' \subseteq unvisited /\ unvisited' # unvisited

(* No step of `inspect` or `find` leads back: what was resolved is not     *)
(* resolved again, ports are looked up at most once before and once after  *)
(* that, and no owner or unit is visited twice.                            *)
THEOREM ExplorerGoesOn == ExplorerSpec => [][ExplorerOnward \/ HostGoesOn]_xVars
<1>1. ASSUME ExplorerInv, [ExplorerNext]_xVars PROVE [ExplorerOnward \/ HostGoesOn]_xVars
  <2> SUFFICES ASSUME ExplorerNext, ~HostGoesOn PROVE ExplorerOnward
    BY <1>1
  <2>. USE DEF To, Over
  <2>1. DataOK /\ KindInv
    BY <1>1 DEF ExplorerInv
  <2>2. CASE Explore
    <3>1. xpc = "idle" /\ xpc' # "idle"
      BY <2>2, ExplorerAssumption DEF Explore, LookupKinds
    <3>2. QED
      BY <3>1 DEF ExplorerOnward, ExplorerPlace
  <2>3. CASE ProbeProcess \/ NameLookedUp \/ FindServices \/ FindProcesses
    <3>1. /\ xpc \in {"probe", "name", "services", "processes"}
          /\ xpc = "probe" => xpc' = "dump"
          /\ xpc = "name" => xpc' \in {"service", "names"}
          /\ xpc = "services" => xpc' = "processes"
          /\ xpc = "processes" => xpc' \in {"dump", "over"}
      BY <2>3 DEF ProbeProcess, NameLookedUp, FindServices, FindProcesses
    <3>2. QED
      BY <3>1 DEF ExplorerOnward, ExplorerPlace
  <2>4. CASE NumberResolved
    <3>1. xpc = "ports" /\ root.kind = "none"
      BY <2>4 DEF NumberResolved, NoRoot
    <3>2. \/ xpc' \in {"over", "process"}
          \/ xpc' = "dump" /\ root'.kind = "port"
      BY <2>1, <2>4, NumberFacts
    <3>3. QED
      BY <3>1, <3>2 DEF ExplorerOnward, ExplorerPlace
  <2>5. CASE NamesListed
    <3>1. xpc = "names" /\ xpc' \in {"process", "over"}
      BY <2>5 DEF NamesListed
    <3>2. QED
      BY <3>1 DEF ExplorerOnward, ExplorerPlace
  <2>6. CASE DumpSockets \/ ResolveOwners \/ PortsInspected
    <3>1. /\ root' = root
          /\ \/ xpc = "dump" /\ xpc' \in {"scan", "ports"}
             \/ xpc = "scan" /\ xpc' \in {"owners", "ports"}
             \/ xpc = "owners" /\ xpc' = "ports"
      BY <2>6 DEF DumpSockets, ResolveOwners, PortsInspected, PortsFailed
    <3>2. QED
      BY <3>1 DEF ExplorerOnward, ExplorerPlace
  <2>7. CASE CallThrows
    <3>1. xpc \in {"names", "members", "processes", "owners", "probe", "process"} /\ xpc' = "over"
      BY <2>7 DEF CallThrows
    <3>2. QED
      BY <3>1 DEF ExplorerOnward, ExplorerPlace
  <2>8. ASSUME NEW x, x \in unvisited, unvisited' = unvisited \ {x}, UNCHANGED <<xpc, root>>
        PROVE  ExplorerOnward
    BY <2>8 DEF ExplorerOnward
  <2>9. ASSUME NEW p \in Pids, InspectOwner(p) \/ VisitPid(p) PROVE ExplorerOnward
    BY <2>8, <2>9 DEF InspectOwner, VisitPid
  <2>10. ASSUME NEW u \in Units, VisitUnit(u) PROVE ExplorerOnward
    BY <2>8, <2>10 DEF VisitUnit
  <2>11. CASE ProcessRoot \/ ServiceRoot \/ Members \/ \E u \in Units : RelatedService(u)
    <3>1. /\ root' = root
          /\ \/ xpc = "process" /\ xpc' \in {"over", "related", "dump"}
             \/ xpc = "service" /\ xpc' \in {"over", "members"}
             \/ xpc \in {"members", "related"} /\ xpc' = "dump"
      BY <2>11 DEF ProcessRoot, ServiceRoot, Members, RelatedService
    <3>2. root.kind # "none"
      BY <2>1, <3>1 DEF KindInv
    <3>3. QED
      BY <3>1, <3>2 DEF ExplorerOnward, ExplorerPlace
  <2>12. CASE PortRoot \/ RelatedPorts \/ FindPorts
    <3>1. xpc = "ports" /\ xpc' \in {"over", "visit", "logs"}
      BY <2>12 DEF PortRoot, RelatedPorts, FindPorts
    <3>2. QED
      BY <3>1 DEF ExplorerOnward, ExplorerPlace
  <2>13. CASE RootLogs \/ Finalize
    <3>1. \/ xpc = "logs" /\ xpc' = "finalize"
          \/ xpc \in {"visit", "finalize"} /\ xpc' = "over"
      BY <2>13 DEF RootLogs, Finalize
    <3>2. QED
      BY <3>1 DEF ExplorerOnward, ExplorerPlace
  <2>14. QED
    BY <2>2, <2>3, <2>4, <2>5, <2>6, <2>7, <2>9, <2>10, <2>11, <2>12, <2>13 DEF ExplorerNext
<1>2. QED
  BY <1>1, ExplorerInvHolds, PTL DEF ExplorerSpec

=============================================================================
