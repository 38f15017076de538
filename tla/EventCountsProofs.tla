------------------------- MODULE EventCountsProofs -------------------------
(***************************************************************************)
(* How often an event is settled and notified, for any events and limit of *)
(* retries, under all faults, with one replica: what the code promises of  *)
(* the number of rows, dead letters and notifications.                     *)
(***************************************************************************)
EXTENDS EventPipelineProofs

-----------------------------------------------------------------------------
(* Sums over the retry counts *)

Count  == 0..MaxRetries
Counts == [Count -> Nat]

\* f[r] tokens for every r, and how many that are.
Tokens(f) == UNION {{r} \X (1..f[r]) : r \in Count}
Sum(f) == Cardinality(Tokens(f))

\* f with n more at k.
Plus(f, k, n) == [f EXCEPT ![k] = @ + n]

\* f weighted with what a message with r retries has left of n.
Weighted(f, n) == [r \in Count |-> (n - r) * f[r]]

LEMMA TokenData ==
  ASSUME NEW f
  PROVE  \A t : t \in Tokens(f) <=> \E r \in Count : \E j \in 1..f[r] : t = <<r, j>>
  BY DEF Tokens

\* A sum is a natural number.
LEMMA SumType ==
  ASSUME NEW f \in Counts
  PROVE  IsFiniteSet(Tokens(f)) /\ Sum(f) \in Nat
<1> DEFINE D == {{r} \X (1..f[r]) : r \in Count}
           F == [r \in Count |-> {r} \X (1..f[r])]
<1>1. IsFiniteSet(Count)
  BY PipelineAssumption, FS_Interval DEF Count
<1>2. F \in Surjection(Count, D)
  BY DEF Surjection
<1>3. IsFiniteSet(D)
  BY <1>1, <1>2, FS_Surjection
<1>4. ASSUME NEW r \in Count
      PROVE  IsFiniteSet({r} \X (1..f[r]))
  <2>1. 1 \in Int /\ f[r] \in Int
    BY DEF Counts
  <2>2. IsFiniteSet(1..f[r]) /\ IsFiniteSet({r})
    BY <2>1, FS_Interval, FS_Singleton
  <2>3. QED
    BY <2>2, FS_Product
<1>5. IsFiniteSet(UNION D)
  BY <1>3, <1>4, FS_UNION
<1>6. QED
  BY <1>5, FS_CardinalityType DEF Tokens, Sum

\* A sum grows with its terms.
LEMMA SumLe ==
  ASSUME NEW f \in Counts, NEW g \in Counts, \A r \in Count : f[r] <= g[r]
  PROVE  Sum(f) <= Sum(g)
<1>1. Tokens(f) \in SUBSET Tokens(g)
  <2>1. \A r \in Count : \A j \in 1..f[r] : j \in 1..g[r]
    BY DEF Counts
  <2>2. QED
    BY <2>1, TokenData
<1>2. QED
  BY <1>1, SumType, FS_Subset DEF Sum

\* The sum of the sums.
LEMMA SumAdd ==
  ASSUME NEW f \in Counts, NEW g \in Counts
  PROVE  /\ [r \in Count |-> f[r] + g[r]] \in Counts
         /\ Sum([r \in Count |-> f[r] + g[r]]) = Sum(f) + Sum(g)
<1> DEFINE h == [r \in Count |-> f[r] + g[r]]
           More == {t \in Tokens(h) : t \notin Tokens(f)}
           F == [t \in Tokens(g) |-> <<t[1], f[t[1]] + t[2]>>]
<1>1. h \in Counts /\ \A r \in Count : f[r] \in Nat /\ g[r] \in Nat /\ h[r] = f[r] + g[r]
  BY DEF Counts
<1> HIDE DEF h
<1>2. Tokens(f) \in SUBSET Tokens(h)
  <2>1. \A r \in Count : \A j \in 1..f[r] : j \in 1..h[r]
    BY <1>1
  <2>2. QED
    BY <2>1, TokenData
<1>3. \A t \in Tokens(g) : t[1] \in Count /\ t[2] \in 1..g[t[1]] /\ t = <<t[1], t[2]>>
  BY TokenData
<1>4. \A t \in Tokens(g) : F[t] \in More
  <2>1. SUFFICES ASSUME NEW t \in Tokens(g)
                 PROVE  <<t[1], f[t[1]] + t[2]>> \in Tokens(h) /\ <<t[1], f[t[1]] + t[2]>> \notin Tokens(f)
    OBVIOUS
  <2>2. PICK r \in Count : \E j \in 1..g[r] : t = <<r, j>>
    BY TokenData
  <2>3. PICK j \in 1..g[r] : t = <<r, j>>
    BY <2>2
  <2>4. f[r] + j \in 1..h[r] /\ f[r] + j \notin 1..f[r]
    BY <1>1
  <2>5. <<r, f[r] + j>> \in Tokens(h) /\ <<r, f[r] + j>> \notin Tokens(f)
    BY <2>4, TokenData
  <2>6. QED
    BY <2>3, <2>5
<1>5. \A t, u \in Tokens(g) : F[t] = F[u] => t = u
  <2>1. SUFFICES ASSUME NEW t \in Tokens(g), NEW u \in Tokens(g), F[t] = F[u]
                 PROVE  t = u
    OBVIOUS
  <2>2. t[1] = u[1] /\ f[t[1]] + t[2] = f[u[1]] + u[2]
    BY <2>1
  <2>3. t[2] = u[2]
    BY <1>1, <1>3, <2>2
  <2>4. QED
    BY <1>3, <2>2, <2>3
<1>6. \A t \in More : \E u \in Tokens(g) : F[u] = t
  <2>1. SUFFICES ASSUME NEW t \in More
                 PROVE  \E u \in Tokens(g) : F[u] = t
    OBVIOUS
  <2>2. PICK r \in Count : \E j \in 1..h[r] : t = <<r, j>>
    BY TokenData
  <2>3. PICK j \in 1..h[r] : t = <<r, j>>
    BY <2>2
  <2>4. j \notin 1..f[r]
    BY <2>3, TokenData
  <2>5. j - f[r] \in 1..g[r] /\ f[r] + (j - f[r]) = j
    BY <1>1, <2>4
  <2>6. <<r, j - f[r]>> \in Tokens(g)
    BY <2>5, TokenData
  <2>7. F[<<r, j - f[r]>>] = t
    BY <2>3, <2>5, <2>6
  <2>8. QED
    BY <2>6, <2>7
<1>7. F \in Bijection(Tokens(g), More)
  <2>1. F \in [Tokens(g) -> More]
    BY <1>4
  <2> HIDE DEF F
  <2>2. QED
    BY <2>1, <1>5, <1>6 DEF Bijection, Injection, Surjection, IsInjective
<1>8. IsFiniteSet(More) /\ Cardinality(More) = Sum(g)
  BY <1>7, SumType, FS_Bijection DEF ExistsBijection, Sum
<1>9. Tokens(h) = Tokens(f) \cup More /\ Tokens(f) \cap More = {}
  BY <1>2
<1>10. Cardinality(Tokens(f) \cup More) = Sum(f) + Sum(g) - Cardinality(Tokens(f) \cap More)
  BY <1>8, SumType, FS_Union DEF Sum
<1>11. Sum(f) \in Nat /\ Sum(g) \in Nat /\ Cardinality({}) = 0
  BY SumType, FS_EmptySet
<1>12. Sum(h) = Sum(f) + Sum(g)
  <2>1. Sum(h) = Cardinality(Tokens(f) \cup More) /\ Cardinality(Tokens(f) \cap More) = 0
    BY <1>9, <1>11, Zenon DEF Sum
  <2> HIDE DEF More
  <2>2. QED
    BY <1>10, <1>11, <2>1
<1>13. QED
  BY <1>1, <1>12 DEF h

\* The tokens at k, and the others.
Others(f, k) == {t \in Tokens(f) : t[1] # k}

LEMMA SumSplit ==
  ASSUME NEW f \in Counts, NEW k \in Count
  PROVE  Cardinality(Others(f, k)) \in Nat /\ Sum(f) = Cardinality(Others(f, k)) + f[k]
<1> DEFINE A == Others(f, k)
           B == {k} \X (1..f[k])
<1>1. f[k] \in Nat
  BY DEF Counts
<1>2. IsFiniteSet(B) /\ Cardinality(B) = f[k]
  <2>1. 1 \in Int /\ f[k] \in Int
    BY <1>1
  <2>2. IsFiniteSet(1..f[k]) /\ Cardinality(1..f[k]) = IF 1 > f[k] THEN 0 ELSE f[k] - 1 + 1
    BY <2>1, FS_Interval
  <2>3. Cardinality(1..f[k]) = f[k]
    BY <1>1, <2>2
  <2>4. IsFiniteSet({k}) /\ Cardinality({k}) = 1
    BY FS_Singleton
  <2>5. IsFiniteSet(B) /\ Cardinality(B) = Cardinality({k}) * Cardinality(1..f[k])
    BY <2>2, <2>4, FS_Product
  <2>6. Cardinality(B) = 1 * f[k]
    BY <2>3, <2>4, <2>5
  <2>7. QED
    BY <1>1, <2>5, <2>6
<1>3. IsFiniteSet(A) /\ Cardinality(A) \in Nat
  <2>1. A \in SUBSET Tokens(f)
    BY DEF Others
  <2>2. QED
    BY <2>1, SumType, FS_Subset, FS_CardinalityType
<1>4. Tokens(f) = A \cup B /\ A \cap B = {}
  <2>1. \A t \in B : t[1] = k /\ t \in Tokens(f)
    BY TokenData
  <2>2. \A t \in Tokens(f) : t[1] = k => t \in B
    BY TokenData
  <2>3. QED
    BY <2>1, <2>2 DEF Others
<1>5. Cardinality(A \cup B) = Cardinality(A) + Cardinality(B) - Cardinality(A \cap B)
  BY <1>2, <1>3, FS_Union
<1>6. Sum(f) = Cardinality(A \cup B) /\ Cardinality(A \cap B) = 0
  BY <1>4, FS_EmptySet, Zenon DEF Sum
<1> HIDE DEF A, B
<1>7. Cardinality(A) \in Nat /\ Sum(f) = Cardinality(A) + f[k]
  BY <1>1, <1>2, <1>3, <1>5, <1>6
<1>8. QED
  BY <1>7 DEF A

\* A sum when one term changes.
LEMMA SumPlus ==
  ASSUME NEW f \in Counts, NEW k \in Count, NEW n \in Int, f[k] + n \in Nat
  PROVE  Plus(f, k, n) \in Counts /\ Sum(Plus(f, k, n)) = Sum(f) + n
<1> DEFINE g == Plus(f, k, n)
<1>1. g \in Counts /\ g[k] = f[k] + n /\ \A r \in Count : r # k => g[r] = f[r]
  BY DEF Plus, Counts
<1> HIDE DEF g
<1>2. Others(g, k) = Others(f, k)
  <2>1. \A t : t \in Others(g, k) <=> t \in Others(f, k)
    BY <1>1, TokenData DEF Others
  <2>2. QED
    BY <2>1 DEF Others
<1>3. /\ Cardinality(Others(f, k)) \in Nat /\ Sum(f) = Cardinality(Others(f, k)) + f[k]
      /\ Sum(g) = Cardinality(Others(f, k)) + g[k]
  BY <1>1, <1>2, SumSplit
<1>4. Sum(g) = Sum(f) + n
  BY <1>1, <1>3 DEF Counts
<1>5. QED
  BY <1>1, <1>4 DEF g

Nothing == [r \in Count |-> 0]

LEMMA SumNothing == Nothing \in Counts /\ Sum(Nothing) = 0
<1>1. Nothing \in Counts
  BY DEF Nothing, Counts
<1>2. Tokens(Nothing) = {}
  <2>1. \A r \in Count : 1..Nothing[r] = {}
    BY DEF Nothing
  <2>2. QED
    BY <2>1, TokenData
<1>3. QED
  BY <1>1, <1>2, FS_EmptySet, Zenon DEF Sum

\* A set of numbers has a least one.
LEMMA LeastNumber ==
  ASSUME NEW S, S \subseteq Nat, S # {}
  PROVE  \E e \in S : \A d \in S : e <= d
<1>1. PICK n \in S : n \in Nat
  OBVIOUS
<1> DEFINE T == {d \in S : d <= n}
<1>2. T \subseteq Nat /\ IsFiniteSet(T) /\ T # {}
  <2>1. T \in SUBSET Nat /\ n \in Nat /\ \A d \in T : d <= n
    BY <1>1
  <2>2. IsFiniteSet(T)
    BY <2>1, FS_BoundedSetOfNaturals
  <2>3. n <= n
    BY <1>1
  <2>4. n \in T
    BY <2>3
  <2>5. QED
    BY <2>1, <2>2, <2>4
<1>3. Cardinality(T) \in Nat /\ Cardinality(T) # 0
  BY <1>2, FS_CardinalityType, FS_EmptySet
<1>4. 1 \in 1..Cardinality(T) /\ 1 - 1 = 0
  BY <1>3
<1>5. PICK e \in T : Cardinality({d \in T : d < e}) = 0
  BY <1>2, <1>4, RankIsOnto
<1>6. {d \in T : d < e} \in SUBSET T
  OBVIOUS
<1>7. {d \in T : d < e} = {}
  BY <1>2, <1>5, <1>6, FS_Subset, FS_EmptySet
<1>8. ASSUME NEW d \in S
      PROVE  e <= d
  <2>1. e \in Nat /\ d \in Nat /\ e <= n /\ n \in Nat
    BY <1>1
  <2>2. CASE d \in T
    BY <1>7, <2>1, <2>2
  <2>3. CASE d \notin T
    BY <2>1, <2>3
  <2>4. QED
    BY <2>2, <2>3
<1>9. QED
  BY <1>8

\* The sum of a multiple.
LEMMA SumTimes ==
  ASSUME NEW f \in Counts, NEW n \in Nat
  PROVE  /\ [r \in Count |-> n * f[r]] \in Counts
         /\ Sum([r \in Count |-> n * f[r]]) = n * Sum(f)
<1> DEFINE T(k) == [r \in Count |-> k * f[r]]
           Bad == {k \in Nat : Sum(T(k)) # k * Sum(f)}
<1>1. Sum(f) \in Nat /\ \A r \in Count : f[r] \in Nat
  BY SumType DEF Counts
<1>2. \A k \in Nat : T(k) \in Counts
  <2>1. \A k \in Nat : \A r \in Count : k * f[r] \in Nat
    BY <1>1
  <2>2. QED
    BY <2>1 DEF Counts
<1>3. Sum(T(0)) = 0 * Sum(f)
  <2>1. T(0) = Nothing
    BY <1>1 DEF Nothing
  <2>2. 0 * Sum(f) = 0
    BY <1>1
  <2>3. QED
    BY <2>1, <2>2, SumNothing, Zenon
<1>4. ASSUME NEW k \in Nat, Sum(T(k)) = k * Sum(f)
      PROVE  Sum(T(k + 1)) = (k + 1) * Sum(f)
  <2>1. T(k + 1) = [r \in Count |-> T(k)[r] + f[r]]
    <3>1. \A x \in Nat : (k + 1) * x = k * x + x
      OBVIOUS
    <3>2. \A r \in Count : (k + 1) * f[r] = k * f[r] + f[r]
      BY <1>1, <3>1, Zenon
    <3>3. QED
      BY <3>2
  <2>2. Sum([r \in Count |-> T(k)[r] + f[r]]) = Sum(T(k)) + Sum(f)
    BY <1>2, SumAdd
  <2>3. Sum(T(k + 1)) = Sum(T(k)) + Sum(f)
    BY <2>1, <2>2, Zenon
  <2>4. QED
    BY <1>1, <1>4, <2>3
<1>5. Bad = {}
  <2>1. SUFFICES ASSUME Bad # {}
                 PROVE  FALSE
    OBVIOUS
  <2>2. PICK k \in Bad : \A d \in Bad : k <= d
    BY <2>1, LeastNumber
  <2>3. k \in Nat /\ k # 0
    BY <1>3
  <2>4. k - 1 \in Nat /\ k - 1 \notin Bad /\ (k - 1) + 1 = k
    BY <2>2, <2>3
  <2>5. Sum(T(k - 1)) = (k - 1) * Sum(f)
    BY <2>4
  <2>6. QED
    BY <1>4, <2>4, <2>5
<1>6. QED
  BY <1>2, <1>5

LEMMA WeightedType ==
  ASSUME NEW f \in Counts, NEW n \in Nat, MaxRetries <= n
  PROVE  /\ Weighted(f, n) \in Counts
         /\ \A r \in Count : n - r \in Nat /\ f[r] \in Nat /\ Weighted(f, n)[r] = (n - r) * f[r]
<1>1. \A r \in Count : n - r \in Nat /\ f[r] \in Nat
  BY PipelineAssumption DEF Count, Counts
<1>2. \A r \in Count : (n - r) * f[r] \in Nat
  BY <1>1
<1>3. QED
  BY <1>1, <1>2 DEF Weighted, Counts

\* A weighted sum when one term changes.
LEMMA WeightedPlus ==
  ASSUME NEW f \in Counts, NEW n \in Nat, MaxRetries <= n,
         NEW k \in Count, NEW d \in Int, f[k] + d \in Nat
  PROVE  Sum(Weighted(Plus(f, k, d), n)) = Sum(Weighted(f, n)) + (n - k) * d
<1> DEFINE w == Weighted(f, n)
<1>1. /\ w \in Counts /\ Plus(f, k, d) \in Counts
      /\ \A r \in Count : n - r \in Nat /\ f[r] \in Nat /\ w[r] = (n - r) * f[r]
  BY WeightedType, SumPlus
<1>2. (n - k) * d \in Int /\ w[k] + (n - k) * d = (n - k) * (f[k] + d)
  BY <1>1
<1>3. (n - k) * (f[k] + d) \in Nat
  BY <1>1
<1>4. Weighted(Plus(f, k, d), n) = Plus(w, k, (n - k) * d)
  <2>1. Plus(f, k, d)[k] = f[k] + d /\ \A r \in Count : r # k => Plus(f, k, d)[r] = f[r]
    BY DEF Plus, Counts
  <2>2. Plus(w, k, (n - k) * d)[k] = w[k] + (n - k) * d
        /\ \A r \in Count : r # k => Plus(w, k, (n - k) * d)[r] = w[r]
    BY <1>1 DEF Plus, Counts
  <2>3. \A r \in Count : Weighted(Plus(f, k, d), n)[r] = Plus(w, k, (n - k) * d)[r]
    BY <1>1, <1>2, <2>1, <2>2 DEF Weighted
  <2>4. Weighted(Plus(f, k, d), n) \in Counts /\ Plus(w, k, (n - k) * d) \in Counts
    BY <1>1, <1>2, <1>3, WeightedType, SumPlus
  <2>5. QED
    BY <2>3, <2>4 DEF Counts
<1>5. QED
  BY <1>1, <1>2, <1>3, <1>4, SumPlus

LEMMA LessTimes ==
  ASSUME NEW a \in Nat, NEW b \in Nat, NEW c \in Nat, a <= b
  PROVE  a * c <= b * c
<1>1. PICK d \in Nat : b = a + d
  <2>1. b - a \in Nat /\ b = a + (b - a)
    OBVIOUS
  <2>2. QED
    BY <2>1
<1>2. b * c = a * c + d * c /\ d * c \in Nat /\ a * c \in Nat
  BY <1>1
<1>3. QED
  BY <1>2

\* A weighted sum grows by as much as the full weight of what is added.
LEMMA WeightedLe ==
  ASSUME NEW f \in Counts, NEW g \in Counts, NEW a \in Counts,
         \A r \in Count : g[r] <= f[r] + a[r], NEW n \in Nat, MaxRetries <= n
  PROVE  Sum(Weighted(g, n)) <= Sum(Weighted(f, n)) + n * Sum(a)
<1> DEFINE b == [r \in Count |-> n * a[r]]
           h == [r \in Count |-> Weighted(f, n)[r] + b[r]]
<1>1. /\ Weighted(f, n) \in Counts /\ Weighted(g, n) \in Counts
      /\ \A r \in Count : /\ n - r \in Nat /\ f[r] \in Nat /\ g[r] \in Nat /\ a[r] \in Nat
                          /\ Weighted(f, n)[r] = (n - r) * f[r]
                          /\ Weighted(g, n)[r] = (n - r) * g[r]
  BY WeightedType DEF Counts
<1>2. b \in Counts /\ Sum(b) = n * Sum(a)
  BY SumTimes
<1>3. h \in Counts /\ Sum(h) = Sum(Weighted(f, n)) + Sum(b)
  BY <1>1, <1>2, SumAdd
<1>4. ASSUME NEW r \in Count
      PROVE  Weighted(g, n)[r] <= h[r]
  <2>1. /\ n - r \in Nat /\ n - r <= n /\ f[r] + a[r] \in Nat /\ g[r] <= f[r] + a[r]
        /\ f[r] \in Nat /\ g[r] \in Nat /\ a[r] \in Nat
    BY <1>1 DEF Count
  <2>2. g[r] * (n - r) <= (f[r] + a[r]) * (n - r)
    BY <2>1, LessTimes
  <2>3. (n - r) * a[r] <= n * a[r]
    BY <2>1, LessTimes
  <2>4. (n - r) * g[r] <= (n - r) * f[r] + n * a[r]
    BY <2>1, <2>2, <2>3
  <2>5. QED
    BY <1>1, <2>4
<1>5. Sum(Weighted(g, n)) <= Sum(h)
  BY <1>1, <1>3, <1>4, SumLe
<1>6. QED
  BY <1>2, <1>3, <1>5

-----------------------------------------------------------------------------
(* Frames on the wire *)

\* The places of f in w, and how many they are.
Places(w, f) == {i \in DOMAIN w : w[i] = f}
Times(w, f) == Cardinality(Places(w, f))

LEMMA PlacesFinite ==
  ASSUME NEW w \in Seq(Frame), NEW f
  PROVE  IsFiniteSet(Places(w, f)) /\ Times(w, f) \in Nat
<1>1. Len(w) \in Nat /\ DOMAIN w = 1..Len(w)
  OBVIOUS
<1>2. 1 \in Int /\ Len(w) \in Int
  BY <1>1
<1>3. IsFiniteSet(1..Len(w))
  BY <1>2, FS_Interval
<1>4. Places(w, f) \in SUBSET (1..Len(w))
  BY <1>1 DEF Places
<1>5. QED
  BY <1>3, <1>4, FS_Subset, FS_CardinalityType DEF Times

LEMMA TimesNothing == \A f : Times(<< >>, f) = 0
<1>1. \A f : Places(<< >>, f) = {}
  BY DEF Places
<1>2. QED
  BY <1>1, FS_EmptySet, Zenon DEF Times

LEMMA TimesAppend ==
  ASSUME NEW w \in Seq(Frame), NEW g \in Frame, NEW f
  PROVE  Times(Append(w, g), f) = Times(w, f) + IF g = f THEN 1 ELSE 0
<1>1. /\ DOMAIN Append(w, g) = (DOMAIN w) \cup {Len(w) + 1}
      /\ \A i \in DOMAIN w : Append(w, g)[i] = w[i]
      /\ Append(w, g)[Len(w) + 1] = g
      /\ Len(w) + 1 \notin DOMAIN w
  BY Appended
<1>2. Len(w) + 1 \notin Places(w, f)
  BY <1>1 DEF Places
<1>3. CASE g = f
  <2>1. Places(Append(w, g), f) = Places(w, f) \cup {Len(w) + 1}
    BY <1>1, <1>3 DEF Places
  <2>2. Cardinality(Places(w, f) \cup {Len(w) + 1}) = Times(w, f) + 1
    BY <1>2, PlacesFinite, FS_AddElement, ZenonT(30) DEF Times
  <2>3. QED
    BY <1>3, <2>1, <2>2 DEF Times
<1>4. CASE g # f
  <2>1. Places(Append(w, g), f) = Places(w, f)
    BY <1>1, <1>4 DEF Places
  <2>2. QED
    BY <1>4, <2>1, PlacesFinite DEF Times
<1>5. QED
  BY <1>3, <1>4

LEMMA TimesTail ==
  ASSUME NEW w \in Seq(Frame), w # << >>, NEW f
  PROVE  Times(Tail(w), f) = Times(w, f) - IF Head(w) = f THEN 1 ELSE 0
<1> DEFINE A == Places(Tail(w), f)
           B == Places(w, f)
           F == [i \in A |-> i + 1]
<1>1. /\ Len(w) \in Nat /\ Len(w) >= 1 /\ DOMAIN w = 1..Len(w)
      /\ DOMAIN Tail(w) = 1..(Len(w) - 1) /\ Tail(w) \in Seq(Frame)
      /\ \A i \in 1..(Len(w) - 1) : Tail(w)[i] = w[i + 1]
      /\ w[1] = Head(w)
  OBVIOUS
<1>2. F \in Bijection(A, B \ {1})
  <2>1. \A i \in A : i \in Nat /\ i + 1 \in B \ {1}
    BY <1>1 DEF Places
  <2>2. \A j \in B \ {1} : j - 1 \in A /\ (j - 1) + 1 = j
    BY <1>1 DEF Places
  <2>3. F \in [A -> B \ {1}]
    BY <2>1
  <2>4. \A i, j \in A : F[i] = F[j] => i = j
    BY <2>1
  <2>5. \A j \in B \ {1} : \E i \in A : F[i] = j
    BY <2>2
  <2> HIDE DEF F
  <2>6. QED
    BY <2>3, <2>4, <2>5 DEF Bijection, Injection, Surjection, IsInjective
<1>3. IsFiniteSet(A) /\ IsFiniteSet(B) /\ Cardinality(B) \in Nat
  BY <1>1, PlacesFinite DEF Times
<1>4. Cardinality(B \ {1}) = Cardinality(A)
  BY <1>2, <1>3, FS_Bijection DEF ExistsBijection
<1>5. Cardinality(B \ {1}) = IF 1 \in B THEN Cardinality(B) - 1 ELSE Cardinality(B)
  BY <1>3, FS_RemoveElement, ZenonT(30)
<1>6. 1 \in B <=> Head(w) = f
  BY <1>1 DEF Places
<1>7. QED
  BY <1>3, <1>4, <1>5, <1>6 DEF Times

\* What settles a delivery is an ack or a nack.
LEMMA TimesSettles ==
  ASSUME NEW w \in Seq(Frame), NEW x
  PROVE  Cardinality(Settles(w, x)) =
           Times(w, [op |-> "ack", slot |-> x]) + Times(w, [op |-> "nack", slot |-> x])
<1> DEFINE A == Places(w, [op |-> "ack", slot |-> x])
           N == Places(w, [op |-> "nack", slot |-> x])
<1>1. \A i \in DOMAIN w : w[i] \in Frame
  OBVIOUS
<1>2. ASSUME NEW f \in Frame
      PROVE  f.op \in {"ack", "nack"} /\ f.slot = x
               <=> f = [op |-> "ack", slot |-> x] \/ f = [op |-> "nack", slot |-> x]
  BY DEF Frame
<1>3. Settles(w, x) = A \cup N
  BY <1>1, <1>2 DEF Settles, Places
<1>4. A \cap N = {}
  BY DEF Places
<1>5. IsFiniteSet(A) /\ IsFiniteSet(N) /\ Cardinality(A) \in Nat /\ Cardinality(N) \in Nat
  BY PlacesFinite DEF Times
<1>6. Cardinality(A \cup N) = Cardinality(A) + Cardinality(N) - Cardinality(A \cap N)
  BY <1>5, FS_Union
<1>7. Cardinality(Settles(w, x)) = Cardinality(A \cup N) /\ Cardinality(A \cap N) = 0
  BY <1>3, <1>4, FS_EmptySet, Zenon
<1> HIDE DEF A, N
<1>8. Cardinality(Settles(w, x)) = Cardinality(A) + Cardinality(N)
  BY <1>5, <1>6, <1>7
<1>9. QED
  BY <1>8 DEF A, N, Times

-----------------------------------------------------------------------------
(* Copies of a message *)

Message(e, r) == [ev |-> e, retry |-> r]

Sent(m)    == [op |-> "publish", msg |-> m]
AckOf(x)   == [op |-> "ack", slot |-> x]
NackOf(x)  == [op |-> "nack", slot |-> x]

LEMMA FrameKinds ==
  /\ \A m, k : Sent(m) = Sent(k) <=> m = k
  /\ \A m, x : Sent(m) # AckOf(x) /\ Sent(m) # NackOf(x)
  /\ \A x, y : AckOf(x) # NackOf(y) /\ (AckOf(x) = AckOf(y) <=> x = y)
  /\ \A x, y : NackOf(x) = NackOf(y) <=> x = y
<1>1. /\ \A m : Sent(m).op = "publish" /\ Sent(m).msg = m
      /\ \A x : AckOf(x).op = "ack" /\ AckOf(x).slot = x /\ NackOf(x).op = "nack" /\ NackOf(x).slot = x
  BY DEF Sent, AckOf, NackOf
<1>2. "publish" # "ack" /\ "publish" # "nack" /\ "ack" # "nack"
  OBVIOUS
<1>3. \A m, k : Sent(m) = Sent(k) <=> m = k
  BY <1>1
<1>4. \A m, x : Sent(m) # AckOf(x) /\ Sent(m) # NackOf(x)
  BY <1>1, <1>2
<1>5. \A x, y : AckOf(x) # NackOf(y) /\ (AckOf(x) = AckOf(y) <=> x = y)
  BY <1>1, <1>2
<1>6. \A x, y : NackOf(x) = NackOf(y) <=> x = y
  BY <1>1
<1>7. QED
  BY <1>3, <1>4, <1>5, <1>6

LEMMA MessageData ==
  /\ \A e \in Event, r \in Count : Message(e, r) \in Msg
                                   /\ Message(e, r).ev = e /\ Message(e, r).retry = r
  /\ \A m \in Msg : m.ev \in Event /\ m.retry \in Count /\ m = Message(m.ev, m.retry)
  /\ \A e \in Event, r \in Count, m \in Msg : Message(e, r) = m <=> e = m.ev /\ r = m.retry
  /\ \A q \in Queue, m \in Msg : <<q, m>> \in Slot
  BY DEF Message, Msg, Count, Slot

LEMMA OnWire ==
  /\ \A m \in Msg : Sent(m) \in Frame
  /\ \A x \in Slot : AckOf(x) \in Frame /\ NackOf(x) \in Frame
  BY FramesAreFrames DEF Sent, AckOf, NackOf

\* Whether the consumer of q is at k with m.
At(s, q, k, m) == IF consumer[s][q].pc = k /\ consumer[s][q].msg = m THEN 1 ELSE 0

\* The copies of m delivered from q to s that may still be settled otherwise
\* than by an ack: of a connection that is no longer used only what has been
\* written counts, and what is still in the hands of the handler.
Open(s, q, m) ==
  IF s \in connected
  THEN unacked[s][<<q, m>>] - Times(wire[s], AckOf(<<q, m>>)) - At(s, q, "ack", m)
  ELSE Times(wire[s], NackOf(<<q, m>>)) + At(s, q, "handle", m)

Copies(s, q, m) == ready[<<q, m>>] + Open(s, q, m)
Pubs(s, m) == Times(wire[s], Sent(m))

\* The next publish of e by the relay, if it has not been marked.
ToCome(s, e) ==
  IF status[e] # "sent" /\ ~(relay[s].pc = "mark" /\ Head(relay[s].rows) = e) THEN 1 ELSE 0

LEMMA AtType == \A s, q, k, m : At(s, q, k, m) \in {0, 1}
  BY DEF At

LEMMA OpenUnfolds ==
  ASSUME NEW s, NEW q, NEW m
  PROVE  /\ s \in connected =>
              Open(s, q, m) = unacked[s][<<q, m>>] - Times(wire[s], AckOf(<<q, m>>)) - At(s, q, "ack", m)
         /\ s \notin connected =>
              Open(s, q, m) = Times(wire[s], NackOf(<<q, m>>)) + At(s, q, "handle", m)
         /\ s \in connected' =>
              Open(s, q, m)' =
                unacked'[s][<<q, m>>] - Times(wire[s], AckOf(<<q, m>>))' - At(s, q, "ack", m)'
         /\ s \notin connected' =>
              Open(s, q, m)' = Times(wire[s], NackOf(<<q, m>>))' + At(s, q, "handle", m)'
  BY DEF Open

\* What is owed is open.
LEMMA OpenType ==
  ASSUME TypesInv, NEW s \in Server, NEW q \in Queue, NEW m \in Msg
  PROVE  /\ Open(s, q, m) \in Nat /\ ready[<<q, m>>] \in Nat /\ unacked[s][<<q, m>>] \in Nat
         /\ Copies(s, q, m) \in Nat /\ Pubs(s, m) \in Nat
         /\ Times(wire[s], AckOf(<<q, m>>)) \in Nat /\ Times(wire[s], NackOf(<<q, m>>)) \in Nat
         /\ At(s, q, "handle", m) <= Open(s, q, m)
         /\ Times(wire[s], NackOf(<<q, m>>)) <= Open(s, q, m)
<1> DEFINE x == <<q, m>>
           acks == Times(wire[s], AckOf(x))
           nacks == Times(wire[s], NackOf(x))
<1>1. x \in Slot /\ x[1] = q /\ x[2] = m /\ WiresOK
  BY MessageData DEF TypesInv
<1>2. wire[s] \in Seq(Frame) /\ ready[x] \in Nat /\ unacked[s][x] \in Nat
  BY <1>1 DEF WiresOK
<1>3. acks \in Nat /\ nacks \in Nat /\ Pubs(s, m) \in Nat
  BY <1>2, PlacesFinite DEF Pubs
<1>4. Cardinality(Settles(wire[s], x)) = acks + nacks
  BY <1>2, TimesSettles DEF AckOf, NackOf
<1>5. acks + nacks + (IF Holds(s, x) THEN 1 ELSE 0) <= unacked[s][x]
  BY <1>1, <1>4 DEF WiresOK, Owed
<1>6. At(s, q, "handle", m) \in {0, 1} /\ At(s, q, "ack", m) \in {0, 1}
  BY AtType
<1>7. CASE s \in connected
  <2>1. At(s, q, "handle", m) + At(s, q, "ack", m) <= IF Holds(s, x) THEN 1 ELSE 0
    BY <1>1, <1>7 DEF At, Holds, InHand
  <2>2. Open(s, q, m) = unacked[s][x] - acks - At(s, q, "ack", m)
    BY <1>7 DEF Open
  <2> HIDE DEF x, acks, nacks
  <2>3. /\ Open(s, q, m) \in Nat /\ At(s, q, "handle", m) <= Open(s, q, m)
        /\ nacks <= Open(s, q, m)
    BY <1>2, <1>3, <1>5, <1>6, <2>1, <2>2
  <2>4. QED
    BY <1>2, <1>3, <2>3 DEF x, acks, nacks, Copies
<1>8. CASE s \notin connected
  <2>1. Open(s, q, m) = nacks + At(s, q, "handle", m)
    BY <1>8 DEF Open
  <2> HIDE DEF x, acks, nacks
  <2>2. /\ Open(s, q, m) \in Nat /\ At(s, q, "handle", m) <= Open(s, q, m)
        /\ nacks <= Open(s, q, m)
    BY <1>3, <1>6, <2>1
  <2>3. QED
    BY <1>2, <1>3, <2>2 DEF x, acks, nacks, Copies
<1>9. QED
  BY <1>7, <1>8

-----------------------------------------------------------------------------
(* What a step does to the copies *)

\* n copies more of m are in queue q, or on the wire of s.
Moved(s, q, m, n) ==
  \A k \in Msg : Copies(s, q, k)' = Copies(s, q, k) + IF k = m THEN n ELSE 0
Sends(s, m, n) ==
  \A k \in Msg : Pubs(s, k)' = Pubs(s, k) + IF k = m THEN n ELSE 0

Keeps(s, q) == \A k \in Msg : Copies(s, q, k)' = Copies(s, q, k)
SendsNothing(s) == \A k \in Msg : Pubs(s, k)' = Pubs(s, k)
Awaits(s) == \A e \in Event : ToCome(s, e)' = ToCome(s, e)

\* No event gains but what again counts for it.
Thins(s) ==
  /\ \A k \in Msg : Pubs(s, k)' <= Pubs(s, k)
  /\ \A e \in Event : dead'[e] <= dead[e]
  /\ UNCHANGED sinks
  /\ \E u \in [Slot -> Nat] :
       /\ \A q \in Queue, k \in Msg : Copies(s, q, k)' <= Copies(s, q, k) + u[<<q, k>>]
       /\ \A e \in Event :
            /\ ToCome(s, e)' + again["audit"][e] + Total(u, "audit", e)
                 <= ToCome(s, e) + again'["audit"][e]
            /\ again["notification"][e] + Total(u, "notification", e) <= again'["notification"][e]

\* A row is published.
Starts(s) ==
  \E e \in Event :
    /\ Sends(s, Message(e, 0), 1) /\ Keeps(s, "audit") /\ Keeps(s, "notification")
    /\ \A d \in Event : ToCome(s, d)' = ToCome(s, d) - IF d = e THEN 1 ELSE 0
    /\ UNCHANGED <<dead, sinks, again>>

\* A message reaches its queues.
Routes(s) ==
  \E m \in Msg :
    /\ Sends(s, m, -1) /\ Moved(s, "audit", m, 1)
    /\ Moved(s, "notification", m, IF m.ev \in Notifies THEN 1 ELSE 0)
    /\ Awaits(s) /\ UNCHANGED <<dead, sinks, again>>

\* A copy goes on with one retry more.
Resends(s) ==
  \E m \in Msg :
    /\ m.retry < MaxRetries /\ Sends(s, Retried(m), 1)
    /\ Moved(s, "audit", m, -1) /\ Keeps(s, "notification")
    /\ Awaits(s) /\ UNCHANGED <<dead, sinks, again>>

\* A copy ends as a row or as a dead letter.
Ends(s) ==
  \E m \in Msg :
    /\ SendsNothing(s) /\ Moved(s, "audit", m, -1) /\ Keeps(s, "notification")
    /\ \A e \in Event : audited'[e] + dead'[e] = audited[e] + dead[e] + IF e = m.ev THEN 1 ELSE 0
    /\ Awaits(s) /\ UNCHANGED <<notified, again>>

\* A copy ends as a notification.
Notices(s) ==
  \E m \in Msg :
    /\ SendsNothing(s) /\ Keeps(s, "audit") /\ Moved(s, "notification", m, -1)
    /\ \A e \in Event : notified'[e] = notified[e] + IF e = m.ev THEN 1 ELSE 0
    /\ Awaits(s) /\ UNCHANGED <<dead, audited, again>>

LEMMA SameSlots ==
  ASSUME UNCHANGED <<consumer, connected, wire, ready, unacked>>, NEW s
  PROVE  Keeps(s, "audit") /\ Keeps(s, "notification") /\ SendsNothing(s)
  BY DEF Keeps, SendsNothing, Copies, Pubs, Open, At

LEMMA Turns ==
  ASSUME ConsumersOK, NEW s \in Server, NEW q \in Queue, NEW c,
         consumer' = [consumer EXCEPT ![s][q] = c]
  PROVE  /\ \A k, m : At(s, q, k, m)' = IF c.pc = k /\ c.msg = m THEN 1 ELSE 0
         /\ \A p \in Queue : p # q => \A k, m : At(s, p, k, m)' = At(s, p, k, m)
<1>1. consumer \in [Server -> [Queue -> Consumers]]
  BY DEF ConsumersOK
<1>2. consumer'[s][q] = c /\ \A p \in Queue : p # q => consumer'[s][p] = consumer[s][p]
  BY <1>1
<1>3. QED
  BY <1>2 DEF At

\* The frames of s after one more, and after one less.
LEMMA WireAdds ==
  ASSUME WiresOK, NEW s \in Server, NEW f \in Frame, wire'[s] = Append(wire[s], f)
  PROVE  /\ \A g : Times(wire[s], g) \in Nat
         /\ \A g : f = g => Times(wire[s], g)' = Times(wire[s], g) + 1
         /\ \A g : f # g => Times(wire[s], g)' = Times(wire[s], g)
<1>1. wire[s] \in Seq(Frame) /\ \A g : Times(wire[s], g) \in Nat
  BY PlacesFinite DEF WiresOK
<1>2. \A g : Times(wire'[s], g) = Times(wire[s], g) + IF f = g THEN 1 ELSE 0
  BY <1>1, TimesAppend
<1>3. /\ \A g : f = g => Times(wire'[s], g) = Times(wire[s], g) + 1
      /\ \A g : f # g => Times(wire'[s], g) = Times(wire[s], g)
  BY <1>1, <1>2
<1>4. QED
  BY <1>1, <1>3

LEMMA WireDrops ==
  ASSUME WiresOK, NEW s \in Server, wire[s] # << >>, wire'[s] = Tail(wire[s])
  PROVE  /\ \A g : Times(wire[s], g) \in Nat
         /\ \A g : Head(wire[s]) = g => Times(wire[s], g)' = Times(wire[s], g) - 1
         /\ \A g : Head(wire[s]) # g => Times(wire[s], g)' = Times(wire[s], g)
<1>1. wire[s] \in Seq(Frame) /\ \A g : Times(wire[s], g) \in Nat
  BY PlacesFinite DEF WiresOK
<1>2. \A g : Times(wire'[s], g) = Times(wire[s], g) - IF Head(wire[s]) = g THEN 1 ELSE 0
  BY <1>1, TimesTail
<1>3. /\ \A g : Head(wire[s]) = g => Times(wire'[s], g) = Times(wire[s], g) - 1
      /\ \A g : Head(wire[s]) # g => Times(wire'[s], g) = Times(wire[s], g)
  BY <1>1, <1>2
<1>4. QED
  BY <1>1, <1>3

-----------------------------------------------------------------------------
(* Types of the processes and of the history *)

\* The terms that Total adds up.
Terms(h, q, e) == [r \in Count |-> h[<<q, Message(e, r)>>]]

LEMMA TotalIsSum ==
  ASSUME NEW h \in [Slot -> Nat], NEW q \in Queue, NEW e \in Event
  PROVE  Terms(h, q, e) \in Counts /\ Total(h, q, e) = Sum(Terms(h, q, e)) /\ Total(h, q, e) \in Nat
<1>1. Terms(h, q, e) \in Counts
  BY MessageData DEF Terms, Counts
<1>2. Total(h, q, e) = Cardinality(UNION {{r} \X (1..h[<<q, Message(e, r)>>]) : r \in Count})
  BY DEF Total, Message, Count
<1>3. Tokens(Terms(h, q, e)) = UNION {{r} \X (1..h[<<q, Message(e, r)>>]) : r \in Count}
  BY DEF Tokens, Terms
<1>4. Total(h, q, e) = Sum(Terms(h, q, e))
  BY <1>2, <1>3, Zenon DEF Sum
<1>5. QED
  BY <1>1, <1>4, SumType

ProcessesOK ==
  /\ process \in [Server -> {"up", "down"}]
  /\ connected \subseteq {s \in Server : process[s] = "up"}
  /\ \A s \in Server : process[s] = "down" => relay[s].pc = "off"

HistoryOK == again \in [Queue -> [Event -> Nat]] /\ faults \in 0..MaxFaults

LEMMA NextProcesses ==
  ASSUME TypesInv, ProcessesOK, [Next]_vars
  PROVE  ProcessesOK'
<1>0. relay \in [Server -> Relays]
  BY DEF TypesInv, RelaysOK
<1>1. ASSUME NEW s \in Server, FetchPending(s) \/ Publish(s) \/ MarkSent(s) \/ MarkSentFails(s)
      PROVE  ProcessesOK'
  <2>1. UNCHANGED <<process, connected>> /\ \A t \in Server : t # s => relay'[t] = relay[t]
    BY <1>0, <1>1 DEF FetchPending, Publish, MarkSent, MarkSentFails
  <2>2. relay[s].pc # "off"
    BY <1>1, OffWait DEF FetchPending, Publish, MarkSent, MarkSentFails
  <2>3. QED
    BY <2>1, <2>2 DEF ProcessesOK
<1>2. ASSUME NEW s \in Server, NEW q \in Queue,
             \/ ReadFrame(s) \/ Requeue(s) \/ HandleFails(s)
             \/ ConsumerStep(s, q) \/ \E m \in Msg : Deliver(s, q, m)
      PROVE  ProcessesOK'
  <2>1. UNCHANGED <<process, connected, relay>>
    BY <1>2 DEF ReadFrame, Requeue, HandleFails, ConsumerStep, HandleAudit, HandleNotification,
                Republish, Settle, Deliver
  <2>2. QED
    BY <2>1 DEF ProcessesOK
<1>3. ASSUME NEW s \in Server, Crash(s)
      PROVE  ProcessesOK'
  BY <1>0, <1>3, OffWait DEF Crash, ProcessesOK
<1>4. ASSUME NEW s \in Server, Boot(s)
      PROVE  ProcessesOK'
  BY <1>0, <1>4 DEF Boot, ProcessesOK
<1>5. ASSUME NEW s \in Server, BootAlone(s)
      PROVE  ProcessesOK'
  BY <1>5 DEF BootAlone, ProcessesOK
<1>6. ASSUME NEW s \in Server, Disconnect(s)
      PROVE  ProcessesOK'
  BY <1>6 DEF Disconnect, ProcessesOK
<1>7. ASSUME BrokerRestart
      PROVE  ProcessesOK'
  BY <1>7 DEF BrokerRestart, ProcessesOK
<1>8. ASSUME NEW e \in Event, CommitEvent(e)
      PROVE  ProcessesOK'
  BY <1>8 DEF CommitEvent, ProcessesOK
<1>9. CASE UNCHANGED vars
  BY <1>9 DEF vars, ProcessesOK
<1>10. QED
  BY <1>1, <1>2, <1>3, <1>4, <1>5, <1>6, <1>7, <1>8, <1>9 DEF Next, RelayStep, Queue

LEMMA HistoryTypes ==
  ASSUME TypesInv, HistoryOK, NEW s \in Server
  PROVE  GivenBack(s) \in [Queue -> [Event -> Nat]] /\ PublishedAgain(s) \in [Queue -> [Event -> Nat]]
<1>1. unacked[s] \in [Slot -> Nat]
  BY DEF TypesInv, WiresOK
<1>2. \A q \in Queue, e \in Event : again[q][e] + Total(unacked[s], q, e) \in Nat
  BY <1>1, TotalIsSum DEF HistoryOK
<1>3. GivenBack(s) \in [Queue -> [Event -> Nat]]
  BY <1>2 DEF GivenBack
<1>4. CASE relay[s].pc = "mark"
  <2>1. "audit" \in Queue /\ Head(relay[s].rows) \in Event
    BY <1>4, RelayData DEF TypesInv, Queue
  <2>2. QED
    BY <1>3, <1>4, <2>1 DEF HistoryOK, PublishedAgain
<1>5. CASE relay[s].pc # "mark"
  BY <1>3, <1>5 DEF HistoryOK, PublishedAgain
<1>6. QED
  BY <1>4, <1>5

LEMMA NextHistory ==
  ASSUME TypesInv, HistoryOK, [Next]_vars
  PROVE  HistoryOK'
<1>1. ASSUME NEW k, Fault(k)
      PROVE  faults' \in 0..MaxFaults
  BY <1>1, PipelineAssumption DEF Fault, HistoryOK
<1>2. ASSUME NEW s \in Server, NEW q \in Queue,
             \/ RelayStep(s) \/ ReadFrame(s) \/ Boot(s)
             \/ ConsumerStep(s, q) \/ \E m \in Msg : Deliver(s, q, m)
      PROVE  HistoryOK'
  <2>1. UNCHANGED <<again, faults>>
    BY <1>2 DEF RelayStep, FetchPending, Publish, MarkSent, ReadFrame, Boot, ConsumerStep,
                HandleAudit, HandleNotification, Republish, Settle, Deliver
  <2>2. QED
    BY <2>1 DEF HistoryOK
<1>3. ASSUME NEW s \in Server, HandleFails(s) \/ BootAlone(s) \/ BrokerRestart
      PROVE  HistoryOK'
  <2>1. again' = again /\ faults' \in 0..MaxFaults
    BY <1>1, <1>3 DEF HandleFails, BootAlone, BrokerRestart
  <2>2. QED
    BY <2>1 DEF HistoryOK
<1>4. ASSUME NEW s \in Server, Requeue(s) \/ Disconnect(s)
      PROVE  HistoryOK'
  <2>1. again' = GivenBack(s) /\ faults' \in 0..MaxFaults
    BY <1>1, <1>4 DEF Requeue, Disconnect, HistoryOK
  <2>2. QED
    BY <2>1, HistoryTypes DEF HistoryOK
<1>5. ASSUME NEW s \in Server, MarkSentFails(s) \/ Crash(s)
      PROVE  HistoryOK'
  <2>1. again' = PublishedAgain(s) /\ faults' \in 0..MaxFaults
    BY <1>1, <1>5 DEF MarkSentFails, Crash
  <2>2. QED
    BY <2>1, HistoryTypes DEF HistoryOK
<1>6. ASSUME NEW e \in Event, CommitEvent(e)
      PROVE  HistoryOK'
  BY <1>6 DEF CommitEvent, HistoryOK
<1>7. ASSUME BrokerRestart
      PROVE  HistoryOK'
  <2>1. again' = again /\ faults' \in 0..MaxFaults
    BY <1>1, <1>7 DEF BrokerRestart
  <2>2. QED
    BY <2>1 DEF HistoryOK
<1>8. CASE UNCHANGED vars
  BY <1>8 DEF vars, HistoryOK
<1>9. QED
  BY <1>2, <1>3, <1>4, <1>5, <1>6, <1>7, <1>8 DEF Next, Queue

CountsInv == TypesInv /\ ProcessesOK /\ HistoryOK

LEMMA InitCounts == Init => CountsInv
<1>1. ASSUME Init
      PROVE  ProcessesOK /\ HistoryOK
  <2>1. ProcessesOK
    BY <1>1, OffWait DEF Init, ProcessesOK
  <2>2. 0 \in 0..MaxFaults
    BY PipelineAssumption
  <2>3. HistoryOK
    BY <1>1, <2>2 DEF Init, HistoryOK
  <2>4. QED
    BY <2>1, <2>3
<1>2. QED
  BY <1>1, InitTypes DEF CountsInv

LEMMA NextCounts ==
  ASSUME CountsInv, [Next]_vars
  PROVE  CountsInv'
  BY NextTypes, NextProcesses, NextHistory DEF CountsInv

\* Every variable has its type: of the code, that no delivery is settled twice
\* (unacked stays a natural number), that a message is republished only below
\* maxRetries, and that only a process that is up has a connection.
\* (rabbitmq.Consume, Relay.relayBatch)
THEOREM PipelineTypes == Spec => []TypeOK
<1>1. CountsInv => TypeOK
  BY DEF CountsInv, TypesInv, RelaysOK, ConsumersOK, WiresOK, SinksOK, ProcessesOK, HistoryOK, TypeOK
<1>2. QED
  BY <1>1, InitCounts, NextCounts, PTL DEF Spec

-----------------------------------------------------------------------------
(* One replica's batch, and what its consumer of notifications never does *)

\* No row of a batch is there twice.
LEMMA RowsDiffer ==
  LET rows == Ordered(Oldest(Pending, BatchSize))
  IN \A i, j \in DOMAIN rows : rows[i] = rows[j] => i = j
<1> DEFINE S == Oldest(Pending, BatchSize)
           E(i) == CHOOSE e \in S : Cardinality({d \in S : d < e}) = i - 1
<1>1. Pending \subseteq Event /\ Event \subseteq Nat /\ IsFiniteSet(Pending)
  BY PipelineAssumption, FS_Subset DEF Pending
<1>2. S \subseteq Nat /\ IsFiniteSet(S)
  BY <1>1, FS_Subset DEF Oldest
<1>3. Cardinality(S) \in Nat
  BY <1>2, FS_CardinalityType
<1> HIDE DEF S
<1>4. \A i \in 1..Cardinality(S) : Cardinality({d \in S : d < E(i)}) = i - 1
  BY <1>2, RankIsOnto
<1>5. DOMAIN Ordered(S) = 1..Cardinality(S) /\ \A i \in 1..Cardinality(S) : Ordered(S)[i] = E(i)
  BY DEF Ordered
<1> HIDE DEF E
<1>6. ASSUME NEW i \in 1..Cardinality(S), NEW j \in 1..Cardinality(S), E(i) = E(j)
      PROVE  i = j
  <2>1. i - 1 = j - 1
    BY <1>4, <1>6
  <2>2. QED
    BY <1>3, <2>1
<1>7. QED
  BY <1>5, <1>6 DEF S

\* The rows that s has still to go through are unsent, and differ.
BatchOK(s) ==
  relay[s].pc \in {"publish", "mark"} =>
    \A i \in DOMAIN relay[s].rows :
      /\ status[relay[s].rows[i]] # "sent"
      /\ \A j \in DOMAIN relay[s].rows : relay[s].rows[i] = relay[s].rows[j] => i = j

\* The other rows, once the first is done with.
LEMMA BatchGoesOn ==
  ASSUME RelaysOK, NEW s \in Server, BatchOK(s), relay[s].pc \in {"publish", "mark"}
  PROVE  /\ relay[s].rows[1] = Head(relay[s].rows) /\ 1 \in DOMAIN relay[s].rows
         /\ NextRow(s).pc \in {"publish", "mark"} =>
              \A i \in DOMAIN NextRow(s).rows :
                /\ NextRow(s).rows[i] # Head(relay[s].rows)
                /\ status[NextRow(s).rows[i]] # "sent"
                /\ \A j \in DOMAIN NextRow(s).rows : NextRow(s).rows[i] = NextRow(s).rows[j] => i = j
<1>1. relay[s].rows \in Seq(Event) /\ relay[s].rows # << >>
  BY RelayData
<1> DEFINE w == relay[s].rows
<1>2. /\ w[1] = Head(w) /\ 1 \in DOMAIN w
      /\ \A i \in DOMAIN Tail(w) : i \in Nat /\ i + 1 \in DOMAIN w /\ i + 1 # 1 /\ Tail(w)[i] = w[i + 1]
  BY <1>1
<1>3. ASSUME NextRow(s).pc \in {"publish", "mark"}, NEW i \in DOMAIN NextRow(s).rows
      PROVE  /\ NextRow(s).rows[i] # Head(relay[s].rows)
             /\ status[NextRow(s).rows[i]] # "sent"
             /\ \A j \in DOMAIN NextRow(s).rows : NextRow(s).rows[i] = NextRow(s).rows[j] => i = j
  <2>1. NextRow(s).rows = Tail(w)
    BY <1>3, RelayData
  <2>2. /\ \A k \in DOMAIN w : status[w[k]] # "sent"
        /\ \A k, l \in DOMAIN w : w[k] = w[l] => k = l
    BY DEF BatchOK
  <2> HIDE DEF w
  <2>3. ASSUME NEW j \in DOMAIN Tail(w), Tail(w)[i] = Tail(w)[j]
        PROVE  i = j
    <3>1. i + 1 = j + 1 /\ i \in Nat /\ j \in Nat
      BY <1>2, <1>3, <2>1, <2>2, <2>3
    <3>2. QED
      BY <3>1
  <2>4. QED
    BY <1>2, <1>3, <2>1, <2>2, <2>3 DEF w
<1>4. QED
  BY <1>2, <1>3

\* Only commits and marks change the status of a row.
LEMMA StatusStep ==
  ASSUME [Next]_vars, \A t \in Server : ~MarkSent(t)
  PROVE  status' = status \/ \E e \in Event : CommitEvent(e)
<1>1. ASSUME NEW t \in Server, NEW q \in Queue,
             \/ FetchPending(t) \/ Publish(t) \/ ReadFrame(t) \/ Requeue(t) \/ Boot(t) \/ HandleFails(t)
             \/ MarkSentFails(t) \/ Crash(t) \/ BootAlone(t) \/ Disconnect(t)
             \/ ConsumerStep(t, q) \/ \E m \in Msg : Deliver(t, q, m)
      PROVE  status' = status
  BY <1>1 DEF FetchPending, Publish, ReadFrame, Requeue, Boot, HandleFails, MarkSentFails, Crash,
              BootAlone, Disconnect, ConsumerStep, HandleAudit, HandleNotification, Republish,
              Settle, Deliver
<1>2. ASSUME BrokerRestart \/ UNCHANGED vars
      PROVE  status' = status
  BY <1>2 DEF BrokerRestart, vars
<1>3. QED
  BY <1>1, <1>2 DEF Next, RelayStep, Queue

LEMMA NextBatch ==
  ASSUME TypesInv, [Next]_vars, NEW s \in Server, Server = {s}, BatchOK(s)
  PROVE  BatchOK(s)'
<1>0. relay \in [Server -> Relays] /\ status \in [Event -> {"none", "pending", "sent"}] /\ RelaysOK
  BY DEF TypesInv, RelaysOK
<1>1. CASE FetchPending(s)
  <2> DEFINE rows == Ordered(Oldest(Pending, BatchSize))
  <2>1. relay'[s] = [pc |-> "publish", rows |-> rows] /\ status' = status /\ Pending # {}
    BY <1>0, <1>1 DEF FetchPending
  <2>2. \A i \in DOMAIN rows : rows[i] \in Pending
    BY <2>1, Batch
  <2>3. \A i, j \in DOMAIN rows : rows[i] = rows[j] => i = j
    BY RowsDiffer
  <2> HIDE DEF rows
  <2>4. relay'[s].rows = rows
    BY <2>1
  <2>5. QED
    BY <2>1, <2>2, <2>3, <2>4 DEF BatchOK, Pending
<1>2. CASE Publish(s)
  <2>1. status' = status
    BY <1>2 DEF Publish
  <2>2. CASE relay'[s] = [pc |-> "mark", rows |-> relay[s].rows]
    <3>1. relay'[s].rows = relay[s].rows /\ relay[s].pc = "publish"
      BY <1>2, <2>2 DEF Publish
    <3>2. QED
      BY <2>1, <3>1 DEF BatchOK
  <2>3. CASE relay'[s] = NextRow(s)
    <3>1. relay[s].pc = "publish"
      BY <1>2 DEF Publish
    <3>2. QED
      BY <1>0, <2>1, <2>3, <3>1, BatchGoesOn DEF BatchOK
  <2>4. QED
    BY <1>0, <1>2, <2>2, <2>3 DEF Publish
<1>3. CASE MarkSent(s)
  <2>1. relay'[s] = NextRow(s) /\ relay[s].pc = "mark"
        /\ \A e \in Event : e # Head(relay[s].rows) => status'[e] = status[e]
    BY <1>0, <1>3 DEF MarkSent
  <2>2. NextRow(s).pc \in {"publish", "mark"} => NextRow(s).rows \in Seq(Event)
    BY <1>0, <2>1, RelayData DEF Relays
  <2>3. QED
    BY <1>0, <2>1, <2>2, BatchGoesOn DEF BatchOK
<1>4. CASE MarkSentFails(s)
  <2>1. relay'[s] = NextRow(s) /\ relay[s].pc = "mark" /\ status' = status
    BY <1>0, <1>4 DEF MarkSentFails
  <2>2. QED
    BY <1>0, <2>1, BatchGoesOn DEF BatchOK
<1>5. CASE Crash(s) \/ Boot(s)
  <2>1. relay'[s] = Off \/ relay'[s] = Wait
    BY <1>0, <1>5 DEF Crash, Boot
  <2>2. QED
    BY <2>1, OffWait DEF BatchOK
<1>6. CASE ~(FetchPending(s) \/ Publish(s) \/ MarkSent(s) \/ MarkSentFails(s) \/ Crash(s) \/ Boot(s))
  <2>1. relay'[s] = relay[s]
    BY <1>6, OtherRelays
  <2>2. status' = status \/ \E e \in Event : CommitEvent(e)
    BY <1>6, StatusStep
  <2>3. \A e : status'[e] = "sent" => status[e] = "sent" \/ e \notin Event
    BY <1>0, <2>2 DEF CommitEvent
  <2>4. relay[s].pc \in {"publish", "mark"} => \A i \in DOMAIN relay[s].rows : relay[s].rows[i] \in Event
    BY RelayData, <1>0
  <2>5. QED
    BY <2>1, <2>3, <2>4 DEF BatchOK
<1>7. QED
  BY <1>1, <1>2, <1>3, <1>4, <1>5, <1>6

\* Notifications are neither republished nor rejected: their handler returns no error.
NoNacks(s) ==
  /\ consumer[s]["notification"].pc \notin {"republish", "nack"}
  /\ \A i \in DOMAIN wire[s] : wire[s][i].op = "nack" => wire[s][i].slot[1] = "audit"

LEMMA NextHandsNoNack ==
  ASSUME TypesInv, [Next]_vars, NEW s \in Server,
         consumer[s]["notification"].pc \notin {"republish", "nack"}
  PROVE  consumer'[s]["notification"].pc \notin {"republish", "nack"}
<1> DEFINE Goal == consumer'[s]["notification"].pc \notin {"republish", "nack"}
<1>0. /\ consumer \in [Server -> [Queue -> Consumers]] /\ ConsumersOK
      /\ "audit" \in Queue /\ "notification" \in Queue /\ "audit" # "notification"
  BY DEF TypesInv, ConsumersOK, Queue
<1>1. ASSUME NEW t \in Server, RelayStep(t) \/ ReadFrame(t) \/ Requeue(t) \/ BootAlone(t) \/ MarkSentFails(t)
      PROVE  Goal
  BY <1>1 DEF RelayStep, FetchPending, Publish, MarkSent, ReadFrame, Requeue, BootAlone, MarkSentFails
<1>2. ASSUME NEW t \in Server, HandleAudit(t) \/ HandleFails(t)
      PROVE  Goal
  <2>1. PICK c : consumer' = [consumer EXCEPT ![t]["audit"] = c]
    BY <1>2 DEF HandleAudit, Handled, HandleFails
  <2>2. consumer'[s]["notification"] = consumer[s]["notification"]
    BY <1>0, <2>1
  <2>3. QED
    BY <2>2
<1>3. ASSUME NEW t \in Server, NEW q \in Queue, NEW c \in {Off, Wait} \cup [pc : {"ack", "handle"}, msg : Msg],
             consumer' = [consumer EXCEPT ![t][q] = c]
      PROVE  Goal
  <2>1. c.pc \notin {"republish", "nack"}
    BY OffWait
  <2>2. consumer'[s]["notification"] \in {c, consumer[s]["notification"]}
    BY <1>0, <1>3
  <2>3. QED
    BY <2>1, <2>2
<1>4. ASSUME NEW t \in Server, NEW q \in Queue,
             HandleNotification(t) \/ Republish(t, q) \/ Settle(t, q) \/ \E m \in Msg : Deliver(t, q, m)
      PROVE  Goal
  <2>1. CASE HandleNotification(t)
    <3>1. PICK c : c = [pc |-> "ack", msg |-> consumer[t]["notification"].msg]
      OBVIOUS
    <3>2. consumer' = [consumer EXCEPT ![t]["notification"] = c] /\ c \in [pc : {"ack", "handle"}, msg : Msg]
      BY <1>0, <2>1, <3>1, HandledAcks DEF HandleNotification
    <3>3. QED
      BY <1>0, <1>3, <3>2
  <2>2. CASE Republish(t, q)
    <3>1. PICK c : c = [pc |-> "ack", msg |-> consumer[t][q].msg]
      OBVIOUS
    <3>2. consumer' = [consumer EXCEPT ![t][q] = c] /\ c \in [pc : {"ack", "handle"}, msg : Msg]
      BY <1>0, <2>2, <3>1, ConsumerData DEF Republish, InHand
    <3>3. QED
      BY <1>3, <3>2
  <2>3. CASE Settle(t, q)
    <3>1. consumer' = [consumer EXCEPT ![t][q] = Wait] \/ consumer' = [consumer EXCEPT ![t][q] = Off]
      BY <2>3 DEF Settle
    <3>2. QED
      BY <1>3, <3>1
  <2>4. ASSUME NEW m \in Msg, Deliver(t, q, m)
        PROVE  Goal
    <3>1. PICK c : c = [pc |-> "handle", msg |-> m]
      OBVIOUS
    <3>2. consumer' = [consumer EXCEPT ![t][q] = c] /\ c \in [pc : {"ack", "handle"}, msg : Msg]
      BY <2>4, <3>1 DEF Deliver
    <3>3. QED
      BY <1>3, <3>2
  <2>5. QED
    BY <1>4, <2>1, <2>2, <2>3, <2>4
<1>5. ASSUME NEW t \in Server, Crash(t) \/ Boot(t)
      PROVE  Goal
  BY <1>0, <1>5, OffWait DEF Crash, Boot
<1>6. ASSUME NEW t \in Server, Disconnect(t)
      PROVE  Goal
  BY <1>0, <1>6, ConsumersClose, OffWait DEF Disconnect
<1>7. ASSUME BrokerRestart
      PROVE  Goal
  BY <1>0, <1>7, ConsumersClose, OffWait DEF BrokerRestart
<1>8. ASSUME NEW e \in Event, CommitEvent(e)
      PROVE  Goal
  BY <1>8 DEF CommitEvent
<1>9. CASE UNCHANGED vars
  BY <1>9 DEF vars
<1>10. QED
  BY <1>1, <1>2, <1>4, <1>5, <1>6, <1>7, <1>8, <1>9 DEF Next, ConsumerStep, Queue

LEMMA NextNoNacks ==
  ASSUME TypesInv, [Next]_vars, NEW s \in Server, NoNacks(s)
  PROVE  NoNacks(s)'
<1> DEFINE Goal == \A i \in DOMAIN wire'[s] : wire'[s][i].op = "nack" => wire'[s][i].slot[1] = "audit"
<1>0. WiresOK /\ wire[s] \in Seq(Frame) /\ \A i \in DOMAIN wire[s] : wire[s][i].op = "nack" => wire[s][i].slot[1] = "audit"
  BY DEF TypesInv, WiresOK, NoNacks
<1>1. ASSUME NEW f, wire'[s] = Append(wire[s], f), f.op = "nack" => f.slot[1] = "audit"
      PROVE  Goal
  BY <1>0, <1>1, Appended
<1>2. ASSUME s \in connected, Publish(s)
      PROVE  Goal
  <2>1. PICK f : f = [op |-> "publish", msg |-> [ev |-> Head(relay[s].rows), retry |-> 0]]
    OBVIOUS
  <2>2. wire'[s] = Append(wire[s], f) /\ f.op = "publish"
    BY <1>2, <2>1, Publishes
  <2>3. QED
    BY <1>1, <2>2
<1>3. ASSUME s \in connected, NEW q \in Queue, Republish(s, q)
      PROVE  Goal
  <2>1. PICK f : f = [op |-> "publish", msg |-> Retried(consumer[s][q].msg)]
    OBVIOUS
  <2>2. wire'[s] = Append(wire[s], f) /\ f.op = "publish"
    BY <1>3, <2>1, Republishes
  <2>3. QED
    BY <1>1, <2>2
<1>4. ASSUME s \in connected, NEW q \in Queue, Settle(s, q)
      PROVE  Goal
  <2>1. PICK f : f = [op |-> consumer[s][q].pc, slot |-> <<q, consumer[s][q].msg>>]
    OBVIOUS
  <2>2. wire'[s] = Append(wire[s], f)
    BY <1>4, <2>1, SettlesOne
  <2>3. f.op = "nack" => q = "audit"
    BY <2>1 DEF NoNacks, Queue
  <2>4. f.op = "nack" => f.slot[1] = "audit"
    BY <2>1, <2>3
  <2>5. QED
    BY <1>1, <2>2, <2>4
<1>5. ASSUME ReadFrame(s)
      PROVE  Goal
  <2>1. wire[s] # << >> /\ wire'[s] = Tail(wire[s])
    BY <1>5 DEF TypesInv, WiresOK, ReadFrame
  <2>2. QED
    BY <1>0, <2>1, Shortened
<1>6. ASSUME wire'[s] = wire[s]
      PROVE  Goal
  BY <1>0, <1>6
<1>7. ASSUME wire'[s] = << >>
      PROVE  Goal
  BY <1>7
<1> HIDE DEF Goal
<1>8. Goal
  BY <1>2, <1>3, <1>4, <1>5, <1>6, <1>7, WireStep
<1>9. QED
  BY <1>8, NextHandsNoNack DEF NoNacks, Goal

-----------------------------------------------------------------------------
(* The steps that move no copy *)

LEMMA AwaitsSame ==
  ASSUME UNCHANGED <<status, relay>>, NEW s
  PROVE  Awaits(s)
  BY DEF Awaits, ToCome

LEMMA ToComeType == \A s, e : ToCome(s, e) \in {0, 1}
  BY DEF ToCome

LEMMA ToComeLe ==
  ASSUME NEW s, NEW e, status[e] = "sent" => status'[e] = "sent",
         ~(relay[s].pc = "mark" /\ Head(relay[s].rows) = e)
  PROVE  ToCome(s, e)' <= ToCome(s, e)
<1>1. CASE status[e] = "sent"
  BY <1>1 DEF ToCome
<1>2. CASE status[e] # "sent"
  <2>1. ToCome(s, e) = 1
    BY <1>2 DEF ToCome
  <2>2. ToCome(s, e)' \in {0, 1}
    BY DEF ToCome
  <2>3. QED
    BY <2>1, <2>2
<1>3. QED
  BY <1>1, <1>2

LEMMA TotalEmpty ==
  /\ Empty \in [Slot -> Nat]
  /\ \A q \in Queue, e \in Event : Total(Empty, q, e) = 0
<1>1. Empty \in [Slot -> Nat]
  BY DEF Empty
<1>2. ASSUME NEW q \in Queue, NEW e \in Event
      PROVE  Total(Empty, q, e) = 0
  <2>1. Terms(Empty, q, e) = Nothing
    BY MessageData DEF Terms, Empty, Nothing
  <2>2. Total(Empty, q, e) = Sum(Terms(Empty, q, e))
    BY <1>1, TotalIsSum
  <2>3. QED
    BY <2>1, <2>2, SumNothing, Zenon
<1>3. QED
  BY <1>1, <1>2

\* A step that gives nothing back.
LEMMA ThinsOnly ==
  ASSUME CountsInv, NEW s \in Server,
         \A k \in Msg : Pubs(s, k)' <= Pubs(s, k),
         \A e \in Event : dead'[e] <= dead[e],
         UNCHANGED sinks,
         \A q \in Queue, k \in Msg : Copies(s, q, k)' <= Copies(s, q, k),
         \A e \in Event : /\ ToCome(s, e)' + again["audit"][e] <= ToCome(s, e) + again'["audit"][e]
                          /\ again["notification"][e] <= again'["notification"][e]
  PROVE  Thins(s)
<1>1. \A x \in Slot : Empty[x] = 0
  BY DEF Empty
<1>2. \A q \in Queue, k \in Msg : Copies(s, q, k) \in Nat /\ <<q, k>> \in Slot
  BY OpenType, MessageData DEF CountsInv
<1>3. \A q \in Queue, k \in Msg : Copies(s, q, k)' <= Copies(s, q, k) + Empty[<<q, k>>]
  <2>1. SUFFICES ASSUME NEW q \in Queue, NEW k \in Msg
                 PROVE  Copies(s, q, k)' <= Copies(s, q, k) + Empty[<<q, k>>]
    OBVIOUS
  <2>2. Empty[<<q, k>>] = 0 /\ Copies(s, q, k) \in Nat
    BY <1>1, <1>2
  <2>3. Copies(s, q, k) + Empty[<<q, k>>] = Copies(s, q, k)
    BY <2>2
  <2>4. QED
    BY <2>3
<1>4. \A e \in Event : again["audit"][e] \in Nat /\ again["notification"][e] \in Nat
  BY DEF CountsInv, HistoryOK, Queue
<1>5. \A e \in Event : Total(Empty, "audit", e) = 0 /\ Total(Empty, "notification", e) = 0
  BY TotalEmpty DEF Queue
<1>6. \A e \in Event : ToCome(s, e)' \in {0, 1}
  BY DEF ToCome
<1>7. \A e \in Event :
        /\ ToCome(s, e)' + again["audit"][e] + Total(Empty, "audit", e)
             <= ToCome(s, e) + again'["audit"][e]
        /\ again["notification"][e] + Total(Empty, "notification", e) <= again'["notification"][e]
  BY <1>4, <1>5, <1>6
<1>8. QED
  BY <1>3, <1>7, TotalEmpty DEF Thins

\* If moreover again stays as it was.
LEMMA ThinsQuietly ==
  ASSUME CountsInv, NEW s \in Server,
         \A k \in Msg : Pubs(s, k)' <= Pubs(s, k),
         \A e \in Event : dead'[e] <= dead[e],
         UNCHANGED sinks, UNCHANGED again,
         \A q \in Queue, k \in Msg : Copies(s, q, k)' <= Copies(s, q, k),
         \A e \in Event : ToCome(s, e)' <= ToCome(s, e)
  PROVE  Thins(s)
<1>1. \A e \in Event : again["audit"][e] \in Nat /\ again["notification"][e] \in Nat
  BY DEF CountsInv, HistoryOK, Queue
<1>2. \A e \in Event : ToCome(s, e) \in {0, 1} /\ ToCome(s, e)' \in {0, 1}
  BY DEF ToCome
<1>3. \A e \in Event : /\ ToCome(s, e)' + again["audit"][e] <= ToCome(s, e) + again'["audit"][e]
                       /\ again["notification"][e] <= again'["notification"][e]
  BY <1>1, <1>2
<1>4. QED
  BY <1>3, ThinsOnly

\* Where again counts what s published and did not mark.
LEMMA PublishedAgainCounts ==
  ASSUME CountsInv, NEW s \in Server, again' = PublishedAgain(s),
         \A e \in Event : status'[e] = status[e], NEW e \in Event
  PROVE  /\ ToCome(s, e)' + again["audit"][e] <= ToCome(s, e) + again'["audit"][e]
         /\ again["notification"][e] <= again'["notification"][e]
<1>1. /\ again["audit"][e] \in Nat /\ again["notification"][e] \in Nat
      /\ again \in [Queue -> [Event -> Nat]] /\ "audit" \in Queue /\ "audit" # "notification"
  BY DEF CountsInv, HistoryOK, Queue
<1>2. ToCome(s, e) \in {0, 1} /\ ToCome(s, e)' \in {0, 1}
  BY DEF ToCome
<1>3. CASE relay[s].pc = "mark" /\ Head(relay[s].rows) = e
  <2>1. again'["audit"][e] = again["audit"][e] + 1 /\ again'["notification"] = again["notification"]
    BY <1>1, <1>3 DEF PublishedAgain
  <2>2. QED
    BY <1>1, <1>2, <2>1
<1>4. CASE ~(relay[s].pc = "mark" /\ Head(relay[s].rows) = e)
  <2>1. again'["audit"][e] = again["audit"][e] /\ again'["notification"] = again["notification"]
    BY <1>1, <1>4 DEF PublishedAgain
  <2>2. ToCome(s, e)' <= ToCome(s, e)
    BY <1>4, ToComeLe
  <2>3. QED
    BY <1>1, <1>2, <2>1, <2>2
<1>5. QED
  BY <1>3, <1>4

\* Nothing is sent, delivered or read, and the relay gets no further than before.
LEMMA QuietStep ==
  ASSUME CountsInv, NEW s \in Server,
         UNCHANGED <<consumer, connected, wire, ready, unacked, dead, sinks>>,
         \A e \in Event : /\ ToCome(s, e)' + again["audit"][e] <= ToCome(s, e) + again'["audit"][e]
                          /\ again["notification"][e] <= again'["notification"][e]
  PROVE  Thins(s)
<1>1. Keeps(s, "audit") /\ Keeps(s, "notification") /\ SendsNothing(s)
  BY SameSlots
<1>2. \A k \in Msg : Pubs(s, k) \in Nat /\ Copies(s, "audit", k) \in Nat /\ Copies(s, "notification", k) \in Nat
  BY OpenType DEF CountsInv, Queue
<1>3. \A k \in Msg : Pubs(s, k)' <= Pubs(s, k)
  BY <1>1, <1>2 DEF SendsNothing
<1>4. \A q \in Queue, k \in Msg : Copies(s, q, k)' <= Copies(s, q, k)
  BY <1>1, <1>2 DEF Keeps, Queue
<1>5. \A e \in Event : dead'[e] <= dead[e]
  BY DEF CountsInv, TypesInv, SinksOK
<1>6. QED
  BY <1>3, <1>4, <1>5, ThinsOnly

LEMMA AgainSame ==
  ASSUME CountsInv, again' = again, NEW s \in Server, NEW e \in Event, ToCome(s, e)' <= ToCome(s, e)
  PROVE  /\ ToCome(s, e)' + again["audit"][e] <= ToCome(s, e) + again'["audit"][e]
         /\ again["notification"][e] <= again'["notification"][e]
<1>1. again["audit"][e] \in Nat /\ again["notification"][e] \in Nat
  BY DEF CountsInv, HistoryOK, Queue
<1>2. ToCome(s, e) \in {0, 1} /\ ToCome(s, e)' \in {0, 1}
  BY DEF ToCome
<1>3. QED
  BY <1>1, <1>2

LEMMA FetchLedger ==
  ASSUME CountsInv, NEW s \in Server, FetchPending(s) \/ BootAlone(s) \/ (\E e \in Event : CommitEvent(e))
  PROVE  Thins(s)
<1>1. UNCHANGED <<consumer, connected, wire, ready, unacked, dead, sinks, again>>
  BY DEF FetchPending, BootAlone, CommitEvent, broker, sinks
<1>2. status \in [Event -> {"none", "pending", "sent"}] /\ relay \in [Server -> Relays]
  BY DEF CountsInv, TypesInv, RelaysOK
<1>3. ASSUME NEW d \in Event
      PROVE  ToCome(s, d)' <= ToCome(s, d)
  <2>1. CASE FetchPending(s)
    <3>1. status' = status /\ relay[s].pc = "wait"
      BY <2>1, OffWait DEF FetchPending
    <3>2. QED
      BY <3>1, ToComeLe
  <2>2. CASE BootAlone(s)
    <3>1. ToCome(s, d)' = ToCome(s, d)
      BY <2>2 DEF BootAlone, ToCome
    <3>2. QED
      BY <3>1, ToComeType
  <2>3. ASSUME NEW e \in Event, CommitEvent(e)
        PROVE  ToCome(s, d)' <= ToCome(s, d)
    <3>1. relay' = relay /\ (status'[d] = "sent" <=> status[d] = "sent")
      BY <1>2, <2>3 DEF CommitEvent
    <3>2. ToCome(s, d)' = ToCome(s, d)
      BY <3>1 DEF ToCome
    <3>3. QED
      BY <3>2, ToComeType
  <2>4. QED
    BY <2>1, <2>2, <2>3
<1>4. QED
  BY <1>1, <1>3, AgainSame, QuietStep

LEMMA MarkLedger ==
  ASSUME CountsInv, NEW s \in Server, MarkSent(s) \/ MarkSentFails(s)
  PROVE  Thins(s)
<1>1. UNCHANGED <<consumer, connected, wire, ready, unacked, dead, sinks>>
  BY DEF MarkSent, MarkSentFails, broker, sinks
<1>2. status \in [Event -> {"none", "pending", "sent"}]
  BY DEF CountsInv, TypesInv, RelaysOK
<1>3. CASE MarkSent(s)
  <2>1. ASSUME NEW e \in Event
        PROVE  ToCome(s, e)' <= ToCome(s, e)
    <3>1. CASE e = Head(relay[s].rows)
      <4>1. status'[e] = "sent"
        BY <1>2, <1>3, <3>1 DEF MarkSent
      <4>2. ToCome(s, e)' = 0
        BY <4>1 DEF ToCome
      <4>3. QED
        BY <4>2, ToComeType
    <3>2. CASE e # Head(relay[s].rows)
      <4>1. status'[e] = status[e]
        BY <1>2, <1>3, <3>2 DEF MarkSent
      <4>2. QED
        BY <3>2, <4>1, ToComeLe
    <3>3. QED
      BY <3>1, <3>2
  <2>2. again' = again
    BY <1>3 DEF MarkSent
  <2>3. QED
    BY <1>1, <2>1, <2>2, AgainSame, QuietStep
<1>4. CASE MarkSentFails(s)
  <2>1. again' = PublishedAgain(s) /\ \A e \in Event : status'[e] = status[e]
    BY <1>4 DEF MarkSentFails
  <2>2. QED
    BY <1>1, <2>1, PublishedAgainCounts, QuietStep
<1>5. QED
  BY <1>3, <1>4

\* A frame that s adds to its wire.
LEMMA SendsFrame ==
  ASSUME CountsInv, NEW s \in Server, NEW f \in Frame, wire'[s] = Append(wire[s], f)
  PROVE  /\ \A m \in Msg : f = Sent(m) => Sends(s, m, 1)
         /\ f.op # "publish" => SendsNothing(s)
         /\ f.op # "ack" => \A x : Times(wire[s], AckOf(x))' = Times(wire[s], AckOf(x))
         /\ \A x : f = AckOf(x) => \A y : Times(wire[s], AckOf(y))' =
                                          Times(wire[s], AckOf(y)) + IF x = y THEN 1 ELSE 0
<1>1. /\ \A g : f = g => Times(wire[s], g)' = Times(wire[s], g) + 1
      /\ \A g : f # g => Times(wire[s], g)' = Times(wire[s], g)
  BY WireAdds DEF CountsInv, TypesInv
<1>2. \A g : Times(wire[s], g) \in Nat
  BY WireAdds DEF CountsInv, TypesInv
<1>3. \A m, x : Sent(m).op = "publish" /\ AckOf(x).op = "ack"
  BY DEF Sent, AckOf
<1>4. \A m \in Msg : f = Sent(m) => Sends(s, m, 1)
  BY <1>1, <1>2, FrameKinds DEF Sends, Pubs
<1>5. f.op # "publish" => SendsNothing(s)
  BY <1>1, <1>2, <1>3 DEF SendsNothing, Pubs
<1>6. f.op # "ack" => \A x : Times(wire[s], AckOf(x))' = Times(wire[s], AckOf(x))
  BY <1>1, <1>2, <1>3
<1>7. \A x : f = AckOf(x) => \A y : Times(wire[s], AckOf(y))' =
                                    Times(wire[s], AckOf(y)) + IF x = y THEN 1 ELSE 0
  BY <1>1, <1>2, FrameKinds
<1>8. QED
  BY <1>4, <1>5, <1>6, <1>7

LEMMA PublishLedger ==
  ASSUME CountsInv, NEW s \in Server, BatchOK(s), Publish(s)
  PROVE  Thins(s) \/ Starts(s)
<1>1. status \in [Event -> {"none", "pending", "sent"}] /\ relay \in [Server -> Relays] /\ RelaysOK
  BY DEF CountsInv, TypesInv, RelaysOK
<1>2. relay[s].pc = "publish" /\ UNCHANGED <<status, consumer, connected, ready, unacked, dead, sinks, again>>
  BY DEF Publish, broker, sinks
<1>3. CASE s \notin connected
  <2>1. wire' = wire
    BY <1>3 DEF Publish
  <2>2. \A e \in Event : ToCome(s, e)' <= ToCome(s, e)
    BY <1>2, ToComeLe
  <2>3. QED
    BY <1>2, <2>1, <2>2, AgainSame, QuietStep
<1>4. CASE s \in connected
  <2> DEFINE e == Head(relay[s].rows)
  <2>1. /\ wire'[s] = Append(wire[s], Sent(Message(e, 0)))
        /\ e \in Event /\ e = relay[s].rows[1] /\ 1 \in DOMAIN relay[s].rows
    BY <1>4, Publishes DEF Sent, Message, CountsInv
  <2>2. relay'[s] = [pc |-> "mark", rows |-> relay[s].rows]
    BY <1>1, <1>4 DEF Publish
  <2>3. Message(e, 0) \in Msg /\ Sent(Message(e, 0)) \in Frame
    <3>1. 0 \in Count
      BY PipelineAssumption DEF Count
    <3> HIDE DEF e
    <3>2. Message(e, 0) \in Msg
      BY <2>1, <3>1, MessageData
    <3>3. QED
      BY <3>2, OnWire
  <2>4. Sends(s, Message(e, 0), 1) /\ \A x : Times(wire[s], AckOf(x))' = Times(wire[s], AckOf(x))
    <3>1. Sent(Message(e, 0)).op = "publish"
      BY DEF Sent
    <3>2. QED
      BY <2>1, <2>3, <3>1, SendsFrame
  <2>5. ASSUME NEW q \in Queue
        PROVE  Keeps(s, q)
    <3>1. \A k, m : At(s, q, k, m)' = At(s, q, k, m)
      BY <1>2 DEF At
    <3>2. QED
      BY <1>2, <1>4, <2>4, <3>1 DEF Keeps, Copies, Open
  <2>6. ASSUME NEW d \in Event
        PROVE  ToCome(s, d)' = ToCome(s, d) - IF d = e THEN 1 ELSE 0
    <3>1. status[e] # "sent"
      BY <1>2, <2>1 DEF BatchOK
    <3>2. relay'[s].pc = "mark" /\ relay'[s].rows = relay[s].rows
      BY <2>2
    <3>3. ToCome(s, d) = IF status[d] # "sent" THEN 1 ELSE 0
      BY <1>2 DEF ToCome
    <3>4. ToCome(s, d)' = IF status[d] # "sent" /\ d # e THEN 1 ELSE 0
      BY <1>2, <3>2 DEF ToCome
    <3>5. QED
      BY <3>1, <3>3, <3>4
  <2> HIDE DEF e
  <2>7. QED
    BY <1>2, <2>1, <2>4, <2>5, <2>6 DEF Starts, Queue
<1>5. QED
  BY <1>3, <1>4

-----------------------------------------------------------------------------
(* The steps of the broker *)

\* Every copy is where it was, or as good as there.
LEMMA KeepsAll ==
  ASSUME CountsInv, NEW s \in Server, Keeps(s, "audit"), Keeps(s, "notification"), SendsNothing(s),
         UNCHANGED <<status, relay, dead, sinks, again>>
  PROVE  Thins(s)
<1>1. \A k \in Msg : Pubs(s, k) \in Nat /\ Copies(s, "audit", k) \in Nat /\ Copies(s, "notification", k) \in Nat
  BY OpenType DEF CountsInv, Queue
<1>2. \A k \in Msg : Pubs(s, k)' <= Pubs(s, k)
  BY <1>1 DEF SendsNothing
<1>3. \A q \in Queue, k \in Msg : Copies(s, q, k)' <= Copies(s, q, k)
  BY <1>1 DEF Keeps, Queue
<1>4. \A e \in Event : dead'[e] <= dead[e]
  BY DEF CountsInv, TypesInv, SinksOK
<1>5. Awaits(s)
  BY AwaitsSame
<1>6. \A e \in Event : ToCome(s, e)' <= ToCome(s, e)
  BY <1>5, ToComeType DEF Awaits
<1>7. QED
  BY <1>2, <1>3, <1>4, <1>6, ThinsQuietly

LEMMA FrameShapes ==
  ASSUME NEW f \in Frame
  PROVE  /\ f.op = "publish" => f.msg \in Msg /\ f = Sent(f.msg)
         /\ f.op = "ack" => f.slot \in Slot /\ f = AckOf(f.slot)
         /\ f.op = "nack" => f.slot \in Slot /\ f = NackOf(f.slot)
  BY DEF Frame, Sent, AckOf, NackOf

\* A slot is its queue with its message.
LEMMA SlotPairs ==
  /\ \A q, p, m, k : <<q, m>> = <<p, k>> <=> q = p /\ m = k
  /\ \A x \in Slot : \A q, m : <<q, m>> = x <=> q = x[1] /\ m = x[2]
<1>1. \A x \in Slot : x = <<x[1], x[2]>>
  BY SlotData
<1>2. QED
  BY <1>1

LEMMA ReadPublishLedger ==
  ASSUME CountsInv, NEW s \in Server, ReadFrame(s), Head(wire[s]).op = "publish"
  PROVE  Routes(s)
<1> DEFINE f == Head(wire[s])
<1>1. /\ WiresOK /\ wire[s] # << >> /\ f \in Frame /\ wire'[s] = Tail(wire[s])
      /\ UNCHANGED <<status, relay, consumer, connected, unacked, dead, sinks, again>>
      /\ ready' = [x \in Slot |-> ready[x] + IF x[2] = f.msg /\ Bound(x[1], f.msg.ev) THEN 1 ELSE 0]
  BY FrameRead DEF CountsInv, TypesInv, WiresOK, ReadFrame, sinks
<1>2. /\ \A g : Times(wire[s], g) \in Nat
      /\ \A g : f = g => Times(wire[s], g)' = Times(wire[s], g) - 1
      /\ \A g : f # g => Times(wire[s], g)' = Times(wire[s], g)
  BY <1>1, WireDrops
<1>3. PICK m \in Msg : f = Sent(m) /\ f.msg = m
  BY <1>1, FrameShapes
<1> HIDE DEF f
<1>4. \A q \in Queue, k \in Msg :
        /\ ready[<<q, k>>] \in Nat /\ Open(s, q, k) \in Nat /\ Pubs(s, k) \in Nat
        /\ Times(wire[s], AckOf(<<q, k>>)) \in Nat /\ Times(wire[s], NackOf(<<q, k>>)) \in Nat
  BY OpenType DEF CountsInv
<1>5. Sends(s, m, -1)
  BY <1>2, <1>3, FrameKinds DEF Sends, Pubs
<1>6. ASSUME NEW q \in Queue, NEW k \in Msg
      PROVE  Copies(s, q, k)' = Copies(s, q, k) + IF k = m /\ Bound(q, m.ev) THEN 1 ELSE 0
  <2>1. Times(wire[s], AckOf(<<q, k>>))' = Times(wire[s], AckOf(<<q, k>>))
        /\ Times(wire[s], NackOf(<<q, k>>))' = Times(wire[s], NackOf(<<q, k>>))
    BY <1>2, <1>3, FrameKinds
  <2>2. \A j : At(s, q, j, k)' = At(s, q, j, k)
    BY <1>1 DEF At
  <2>3. Open(s, q, k)' = Open(s, q, k)
    BY <1>1, <2>1, <2>2 DEF Open
  <2>4. ready'[<<q, k>>] = ready[<<q, k>>] + IF k = m /\ Bound(q, m.ev) THEN 1 ELSE 0
    BY <1>1, <1>3, MessageData
  <2>5. QED
    BY <1>4, <2>3, <2>4 DEF Copies
<1>7. Moved(s, "audit", m, 1)
  BY <1>6 DEF Moved, Bound, Queue
<1>8. Moved(s, "notification", m, IF m.ev \in Notifies THEN 1 ELSE 0)
  <2>1. "notification" \in Queue /\ (Bound("notification", m.ev) <=> m.ev \in Notifies)
    BY DEF Bound, Queue
  <2>2. SUFFICES ASSUME NEW k \in Msg
                 PROVE  Copies(s, "notification", k)' = Copies(s, "notification", k)
                          + IF k = m THEN IF m.ev \in Notifies THEN 1 ELSE 0 ELSE 0
    BY DEF Moved
  <2>3. Copies(s, "notification", k)' = Copies(s, "notification", k)
                          + IF k = m /\ Bound("notification", m.ev) THEN 1 ELSE 0
    BY <1>6, <2>1
  <2>4. QED
    BY <2>1, <2>3
<1>9. Awaits(s)
  BY <1>1, AwaitsSame
<1>10. QED
  BY <1>1, <1>5, <1>7, <1>8, <1>9 DEF Routes

LEMMA ReadSettleLedger ==
  ASSUME CountsInv, NEW s \in Server, NoNacks(s), ReadFrame(s), Head(wire[s]).op # "publish"
  PROVE  Thins(s) \/ Ends(s)
<1> DEFINE f == Head(wire[s])
           x == f.slot
<1>1. /\ WiresOK /\ wire[s] # << >> /\ f \in Frame /\ wire'[s] = Tail(wire[s]) /\ f = wire[s][1]
      /\ UNCHANGED <<status, relay, consumer, connected, ready, sinks, again>>
      /\ unacked' = [unacked EXCEPT ![s][x] = @ - 1]
      /\ f.op = "ack" => dead' = dead
      /\ f.op = "nack" => dead' = [dead EXCEPT ![x[2].ev] = @ + 1]
      /\ f.op \in {"ack", "nack"}
  BY FrameRead, FrameData DEF CountsInv, TypesInv, WiresOK, ReadFrame, sinks
<1>2. /\ \A g : Times(wire[s], g) \in Nat
      /\ \A g : f = g => Times(wire[s], g)' = Times(wire[s], g) - 1
      /\ \A g : f # g => Times(wire[s], g)' = Times(wire[s], g)
  BY <1>1, WireDrops
<1>3. x \in Slot /\ (f.op = "ack" => f = AckOf(x)) /\ (f.op = "nack" => f = NackOf(x))
  BY <1>1, FrameShapes
<1>4. \A q \in Queue, k \in Msg :
        /\ ready[<<q, k>>] \in Nat /\ Open(s, q, k) \in Nat /\ unacked[s][<<q, k>>] \in Nat
        /\ Pubs(s, k) \in Nat
        /\ Times(wire[s], AckOf(<<q, k>>)) \in Nat /\ Times(wire[s], NackOf(<<q, k>>)) \in Nat
  BY OpenType DEF CountsInv
<1>5. \A q \in Queue, k \in Msg :
        unacked'[s][<<q, k>>] = unacked[s][<<q, k>>] - IF <<q, k>> = x THEN 1 ELSE 0
  <2> HIDE DEF x
  <2>1. unacked \in [Server -> [Slot -> Nat]] /\ \A y \in Slot : unacked[s][y] \in Nat
    BY <1>1 DEF WiresOK
  <2>2. unacked'[s][x] = unacked[s][x] - 1 /\ \A y \in Slot : y # x => unacked'[s][y] = unacked[s][y]
    BY <1>1, <1>3, <2>1
  <2>3. \A y \in Slot : unacked'[s][y] = unacked[s][y] - IF y = x THEN 1 ELSE 0
    BY <2>1, <2>2
  <2>4. QED
    BY <2>3, MessageData
<1> HIDE DEF f, x
<1>6. SendsNothing(s)
  BY <1>1, <1>2, <1>3, FrameKinds DEF SendsNothing, Pubs
<1>7. \A q, j, k : At(s, q, j, k)' = At(s, q, j, k) /\ At(s, q, j, k) \in {0, 1}
  BY <1>1 DEF At
<1>8. CASE f.op = "ack"
  <2>1. ASSUME NEW q \in Queue, NEW k \in Msg
        PROVE  Copies(s, q, k)' = Copies(s, q, k)
    <3>1. /\ Times(wire[s], AckOf(<<q, k>>))' =
               Times(wire[s], AckOf(<<q, k>>)) - IF <<q, k>> = x THEN 1 ELSE 0
          /\ Times(wire[s], NackOf(<<q, k>>))' = Times(wire[s], NackOf(<<q, k>>))
      BY <1>2, <1>3, <1>8, FrameKinds
    <3>2. unacked'[s][<<q, k>>] = unacked[s][<<q, k>>] - IF <<q, k>> = x THEN 1 ELSE 0
      BY <1>5
    <3>3. Open(s, q, k)' = Open(s, q, k)
      BY <1>1, <1>4, <1>7, <3>1, <3>2, OpenUnfolds
    <3>4. QED
      BY <1>1, <3>3 DEF Copies
  <2>2. Keeps(s, "audit") /\ Keeps(s, "notification")
    BY <2>1 DEF Keeps, Queue
  <2>3. QED
    BY <1>1, <1>6, <1>8, <2>2, KeepsAll
<1>9. CASE f.op = "nack"
  <2> DEFINE m == x[2]
  <2>1. x[1] = "audit" /\ m \in Msg /\ x = <<"audit", m>> /\ "audit" # "notification"
    <3>1. 1 \in DOMAIN wire[s] /\ f = wire[s][1]
      BY <1>1 DEF WiresOK
    <3>2. f.slot[1] = "audit"
      BY <1>9, <3>1 DEF NoNacks
    <3>3. QED
      BY <1>3, <3>2, SlotData DEF x
  <2> HIDE DEF m
  <2>2. ASSUME NEW q \in Queue, NEW k \in Msg
        PROVE  Copies(s, q, k)' = Copies(s, q, k) - IF q = "audit" /\ k = m THEN 1 ELSE 0
    <3>1. /\ Times(wire[s], NackOf(<<q, k>>))' =
               Times(wire[s], NackOf(<<q, k>>)) - IF <<q, k>> = x THEN 1 ELSE 0
          /\ Times(wire[s], AckOf(<<q, k>>))' = Times(wire[s], AckOf(<<q, k>>))
      BY <1>2, <1>3, <1>9, FrameKinds
    <3>2. <<q, k>> = x <=> q = "audit" /\ k = m
      BY <2>1, SlotPairs
    <3>3. unacked'[s][<<q, k>>] = unacked[s][<<q, k>>] - IF <<q, k>> = x THEN 1 ELSE 0
      BY <1>5
    <3>4. Open(s, q, k)' = Open(s, q, k) - IF q = "audit" /\ k = m THEN 1 ELSE 0
      <4>1. /\ unacked[s][<<q, k>>] \in Nat /\ Open(s, q, k) \in Nat
            /\ Times(wire[s], AckOf(<<q, k>>)) \in Nat /\ Times(wire[s], NackOf(<<q, k>>)) \in Nat
        BY <1>4
      <4>2. /\ At(s, q, "ack", k)' = At(s, q, "ack", k) /\ At(s, q, "ack", k) \in {0, 1}
            /\ At(s, q, "handle", k)' = At(s, q, "handle", k) /\ At(s, q, "handle", k) \in {0, 1}
        BY <1>7
      <4>3. connected' = connected
        BY <1>1
      <4>4. CASE s \in connected
        <5>1. Open(s, q, k) = unacked[s][<<q, k>>] - Times(wire[s], AckOf(<<q, k>>)) - At(s, q, "ack", k)
          BY <4>4, OpenUnfolds
        <5>2. Open(s, q, k)' =
                unacked'[s][<<q, k>>] - Times(wire[s], AckOf(<<q, k>>))' - At(s, q, "ack", k)'
          BY <4>3, <4>4, OpenUnfolds
        <5>3. QED
          BY <3>1, <3>2, <3>3, <4>1, <4>2, <5>1, <5>2
      <4>5. CASE s \notin connected
        BY <3>1, <3>2, <4>1, <4>2, <4>3, <4>5, OpenUnfolds
      <4>6. QED
        BY <4>4, <4>5
    <3>5. ready'[<<q, k>>] = ready[<<q, k>>]
      BY <1>1
    <3>6. QED
      BY <1>4, <3>4, <3>5 DEF Copies
  <2>3. Moved(s, "audit", m, -1)
    <3>1. \A k \in Msg : Copies(s, "audit", k) \in Nat
      BY OpenType DEF CountsInv, Queue
    <3>2. QED
      BY <2>2, <3>1 DEF Moved, Queue
  <2>4. Keeps(s, "notification")
    <3>1. \A k \in Msg : Copies(s, "notification", k) \in Nat
      BY OpenType DEF CountsInv, Queue
    <3>2. QED
      BY <2>1, <2>2, <3>1 DEF Keeps, Queue
  <2>5. ASSUME NEW e \in Event
        PROVE  audited'[e] + dead'[e] = audited[e] + dead[e] + IF e = m.ev THEN 1 ELSE 0
    <3>1. dead \in [Event -> Nat] /\ audited[e] \in Nat /\ dead[e] \in Nat /\ audited' = audited
      BY <1>1 DEF CountsInv, TypesInv, SinksOK, sinks
    <3>2. dead'[e] = dead[e] + IF e = m.ev THEN 1 ELSE 0
      BY <1>1, <1>9, <3>1 DEF m
    <3>3. QED
      BY <3>1, <3>2
  <2>6. Awaits(s)
    BY <1>1, AwaitsSame
  <2>7. UNCHANGED <<notified, again>>
    BY <1>1 DEF sinks
  <2>8. QED
    BY <1>6, <2>1, <2>3, <2>4, <2>5, <2>6, <2>7 DEF Ends
<1>10. QED
  BY <1>1, <1>8, <1>9

-----------------------------------------------------------------------------
(* The steps of the consumers *)

\* Numbers of one slot.
LEMMA SlotNumbers ==
  ASSUME CountsInv, NEW s \in Server, NEW q \in Queue, NEW k \in Msg
  PROVE  /\ unacked[s][<<q, k>>] \in Nat /\ ready[<<q, k>>] \in Nat
         /\ Open(s, q, k) \in Nat /\ Copies(s, q, k) \in Nat /\ Pubs(s, k) \in Nat
         /\ Times(wire[s], AckOf(<<q, k>>)) \in Nat /\ Times(wire[s], NackOf(<<q, k>>)) \in Nat
         /\ At(s, q, "ack", k) \in {0, 1} /\ At(s, q, "handle", k) \in {0, 1}
  BY OpenType, AtType DEF CountsInv

\* A slot of which neither frames nor deliveries nor hands change.
LEMMA SlotSame ==
  ASSUME NEW s, NEW q, NEW k, connected' = connected,
         unacked'[s][<<q, k>>] = unacked[s][<<q, k>>],
         Times(wire[s], AckOf(<<q, k>>))' = Times(wire[s], AckOf(<<q, k>>)),
         s \notin connected => Times(wire[s], NackOf(<<q, k>>))' = Times(wire[s], NackOf(<<q, k>>)),
         At(s, q, "ack", k)' = At(s, q, "ack", k), At(s, q, "handle", k)' = At(s, q, "handle", k)
  PROVE  Open(s, q, k)' = Open(s, q, k)
  BY OpenUnfolds

\* What a delivery that is handled was, and is then.
LEMMA HandledCopies ==
  ASSUME CountsInv, NEW s \in Server, NEW q \in Queue, Handled(s, q),
         UNCHANGED <<connected, wire, ready, unacked>>
  PROVE  /\ consumer[s][q].msg \in Msg /\ Moved(s, q, consumer[s][q].msg, -1) /\ SendsNothing(s)
         /\ \A p \in Queue : p # q => Keeps(s, p)
<1> DEFINE m == consumer[s][q].msg
<1>1. ConsumersOK
  BY DEF CountsInv, TypesInv
<1>2. PICK c : c = [pc |-> "ack", msg |-> m]
  OBVIOUS
<1>3. /\ consumer[s][q].pc = "handle" /\ m \in Msg /\ consumer' = [consumer EXCEPT ![s][q] = c]
      /\ c.pc = "ack" /\ c.msg = m
  BY <1>1, <1>2, HandledAcks
<1>4. /\ \A k : At(s, q, "handle", k) = (IF k = m THEN 1 ELSE 0) /\ At(s, q, "ack", k) = 0
      /\ \A k : At(s, q, "handle", k)' = 0 /\ At(s, q, "ack", k)' = IF k = m THEN 1 ELSE 0
      /\ \A p \in Queue : p # q => \A j, k : At(s, p, j, k)' = At(s, p, j, k)
  <2>1. \A k : At(s, q, "handle", k) = (IF k = m THEN 1 ELSE 0) /\ At(s, q, "ack", k) = 0
    BY <1>3 DEF At
  <2>2. /\ \A j, k : At(s, q, j, k)' = IF c.pc = j /\ c.msg = k THEN 1 ELSE 0
        /\ \A p \in Queue : p # q => \A j, k : At(s, p, j, k)' = At(s, p, j, k)
    BY <1>1, <1>3, Turns
  <2>3. QED
    BY <1>3, <2>1, <2>2
<1> HIDE DEF m
<1>5. Moved(s, q, m, -1)
  <2>1. SUFFICES ASSUME NEW k \in Msg
                 PROVE  Copies(s, q, k)' = Copies(s, q, k) + IF k = m THEN -1 ELSE 0
    BY DEF Moved
  <2>2. /\ unacked[s][<<q, k>>] \in Nat /\ ready[<<q, k>>] \in Nat /\ Open(s, q, k) \in Nat
        /\ Times(wire[s], AckOf(<<q, k>>)) \in Nat /\ Times(wire[s], NackOf(<<q, k>>)) \in Nat
    BY SlotNumbers
  <2>3. Open(s, q, k)' = Open(s, q, k) + IF k = m THEN -1 ELSE 0
    <3>1. /\ At(s, q, "handle", k) = (IF k = m THEN 1 ELSE 0) /\ At(s, q, "ack", k) = 0
          /\ At(s, q, "handle", k)' = 0 /\ At(s, q, "ack", k)' = IF k = m THEN 1 ELSE 0
      BY <1>4
    <3>2. CASE s \in connected
      <4>1. Open(s, q, k) = unacked[s][<<q, k>>] - Times(wire[s], AckOf(<<q, k>>)) - At(s, q, "ack", k)
        BY <3>2, OpenUnfolds
      <4>2. Open(s, q, k)' = unacked[s][<<q, k>>] - Times(wire[s], AckOf(<<q, k>>)) - At(s, q, "ack", k)'
        BY <3>2, OpenUnfolds
      <4>3. QED
        BY <2>2, <3>1, <4>1, <4>2
    <3>3. CASE s \notin connected
      <4>1. Open(s, q, k) = Times(wire[s], NackOf(<<q, k>>)) + At(s, q, "handle", k)
        BY <3>3, OpenUnfolds
      <4>2. Open(s, q, k)' = Times(wire[s], NackOf(<<q, k>>)) + At(s, q, "handle", k)'
        BY <3>3, OpenUnfolds
      <4>3. QED
        BY <2>2, <3>1, <4>1, <4>2
    <3>4. QED
      BY <3>2, <3>3
  <2>4. QED
    BY <2>2, <2>3 DEF Copies
<1>6. ASSUME NEW p \in Queue, p # q
      PROVE  Keeps(s, p)
  <2>1. \A k \in Msg : Open(s, p, k)' = Open(s, p, k)
    BY <1>4, <1>6, SlotSame
  <2>2. QED
    BY <2>1 DEF Keeps, Copies
<1>7. SendsNothing(s)
  BY DEF SendsNothing, Pubs
<1>8. QED
  BY <1>3, <1>5, <1>6, <1>7 DEF m

LEMMA HandleAuditLedger ==
  ASSUME CountsInv, NEW s \in Server, HandleAudit(s)
  PROVE  Ends(s)
<1> DEFINE m == consumer[s]["audit"].msg
<1>1. /\ Handled(s, "audit") /\ UNCHANGED <<status, relay, connected, wire, ready, unacked, dead, notified, again>>
      /\ audited' = [audited EXCEPT ![m.ev] = @ + 1]
      /\ "audit" \in Queue /\ "notification" \in Queue /\ "audit" # "notification"
  BY DEF HandleAudit, broker, Queue
<1>2. m \in Msg /\ Moved(s, "audit", m, -1) /\ SendsNothing(s) /\ Keeps(s, "notification")
  BY <1>1, HandledCopies
<1> HIDE DEF m
<1>3. ASSUME NEW e \in Event
      PROVE  audited'[e] + dead'[e] = audited[e] + dead[e] + IF e = m.ev THEN 1 ELSE 0
  <2>1. audited \in [Event -> Nat] /\ audited[e] \in Nat /\ dead[e] \in Nat
    BY DEF CountsInv, TypesInv, SinksOK
  <2>2. audited'[e] = audited[e] + IF e = m.ev THEN 1 ELSE 0
    BY <1>1, <2>1
  <2>3. QED
    BY <1>1, <2>1, <2>2
<1>4. Awaits(s)
  BY <1>1, AwaitsSame
<1>5. QED
  BY <1>1, <1>2, <1>3, <1>4 DEF Ends

LEMMA HandleNotificationLedger ==
  ASSUME CountsInv, NEW s \in Server, HandleNotification(s)
  PROVE  Notices(s)
<1> DEFINE m == consumer[s]["notification"].msg
<1>1. /\ Handled(s, "notification")
      /\ UNCHANGED <<status, relay, connected, wire, ready, unacked, dead, audited, again>>
      /\ notified' = [notified EXCEPT ![m.ev] = @ + 1]
      /\ "audit" \in Queue /\ "notification" \in Queue /\ "audit" # "notification"
  BY DEF HandleNotification, broker, Queue
<1>2. m \in Msg /\ Moved(s, "notification", m, -1) /\ SendsNothing(s) /\ Keeps(s, "audit")
  BY <1>1, HandledCopies
<1> HIDE DEF m
<1>3. ASSUME NEW e \in Event
      PROVE  notified'[e] = notified[e] + IF e = m.ev THEN 1 ELSE 0
  <2>1. notified \in [Event -> Nat] /\ notified[e] \in Nat
    BY DEF CountsInv, TypesInv, SinksOK
  <2>2. QED
    BY <1>1, <2>1
<1>4. Awaits(s)
  BY <1>1, AwaitsSame
<1>5. QED
  BY <1>1, <1>2, <1>3, <1>4 DEF Notices

LEMMA HandleFailsLedger ==
  ASSUME CountsInv, NEW s \in Server, HandleFails(s)
  PROVE  Thins(s)
<1> DEFINE m == consumer[s]["audit"].msg
<1>1. /\ UNCHANGED <<status, relay, connected, wire, ready, unacked, dead, sinks, again>>
      /\ consumer[s]["audit"].pc = "handle"
      /\ consumer' = [consumer EXCEPT ![s]["audit"] = [pc |-> AfterError(m), msg |-> m]]
  BY DEF HandleFails, broker
<1>2. PICK c : c = [pc |-> AfterError(m), msg |-> m]
  OBVIOUS
<1>3. c.pc \in {"nack", "republish"} /\ consumer' = [consumer EXCEPT ![s]["audit"] = c]
  BY <1>1, <1>2 DEF AfterError
<1>4. ConsumersOK /\ "audit" \in Queue
  BY DEF CountsInv, TypesInv, Queue
<1>5. /\ \A j, k : At(s, "audit", j, k)' = IF c.pc = j /\ c.msg = k THEN 1 ELSE 0
      /\ \A p \in Queue : p # "audit" => \A j, k : At(s, p, j, k)' = At(s, p, j, k)
  BY <1>3, <1>4, Turns
<1>6. ASSUME NEW q \in Queue, NEW k \in Msg
      PROVE  Copies(s, q, k)' <= Copies(s, q, k)
  <2>1. /\ unacked[s][<<q, k>>] \in Nat /\ ready[<<q, k>>] \in Nat /\ Open(s, q, k) \in Nat
        /\ Times(wire[s], AckOf(<<q, k>>)) \in Nat /\ Times(wire[s], NackOf(<<q, k>>)) \in Nat
        /\ At(s, q, "ack", k) \in {0, 1} /\ At(s, q, "handle", k) \in {0, 1}
    BY SlotNumbers
  <2>2. CASE q = "audit"
    <3>1. At(s, q, "ack", k) = 0 /\ At(s, q, "ack", k)' = 0 /\ At(s, q, "handle", k)' = 0
      <4>1. At(s, q, "ack", k) = 0
        BY <1>1, <2>2 DEF At
      <4>2. QED
        BY <1>3, <1>5, <2>2, <4>1
    <3>2. CASE s \in connected
      <4>1. Open(s, q, k)' = Open(s, q, k)
        BY <1>1, <3>1, <3>2, OpenUnfolds
      <4>2. QED
        BY <1>1, <2>1, <4>1 DEF Copies
    <3>3. CASE s \notin connected
      <4>1. /\ Open(s, q, k) = Times(wire[s], NackOf(<<q, k>>)) + At(s, q, "handle", k)
            /\ Open(s, q, k)' = Times(wire[s], NackOf(<<q, k>>)) + At(s, q, "handle", k)'
        BY <1>1, <3>3, OpenUnfolds
      <4>2. Open(s, q, k)' <= Open(s, q, k) /\ Open(s, q, k)' \in Nat
        BY <2>1, <3>1, <4>1
      <4>3. QED
        BY <1>1, <2>1, <4>2 DEF Copies
    <3>4. QED
      BY <3>2, <3>3
  <2>3. CASE q # "audit"
    <3>1. Open(s, q, k)' = Open(s, q, k)
      BY <1>1, <1>5, <2>3, SlotSame
    <3>2. QED
      BY <1>1, <2>1, <3>1 DEF Copies
  <2>4. QED
    BY <2>2, <2>3
<1>7. ASSUME NEW k \in Msg
      PROVE  Pubs(s, k)' <= Pubs(s, k)
  <2>1. Pubs(s, k)' = Pubs(s, k) /\ Pubs(s, k) \in Nat
    BY <1>1, SlotNumbers DEF Pubs, Queue
  <2>2. QED
    BY <2>1
<1>8. Awaits(s) /\ \A e \in Event : dead'[e] <= dead[e]
  BY <1>1, AwaitsSame DEF CountsInv, TypesInv, SinksOK
<1>9. \A e \in Event : ToCome(s, e)' <= ToCome(s, e)
  BY <1>8, ToComeType DEF Awaits
<1>10. QED
  BY <1>1, <1>6, <1>7, <1>8, <1>9, ThinsQuietly

LEMMA SettleLedger ==
  ASSUME CountsInv, NEW s \in Server, NEW q \in Queue, Settle(s, q)
  PROVE  Thins(s)
<1> DEFINE m == consumer[s][q].msg
           f == [op |-> consumer[s][q].pc, slot |-> <<q, m>>]
<1>1. /\ UNCHANGED <<status, relay, connected, ready, unacked, dead, sinks, again>>
      /\ consumer[s][q].pc \in {"ack", "nack"} /\ ConsumersOK /\ TypesInv
  BY DEF Settle, broker, CountsInv, TypesInv
<1>2. PICK c \in {Off, Wait} : consumer' = [consumer EXCEPT ![s][q] = c]
  BY DEF Settle
<1>3. c.pc \notin {"ack", "handle"}
  BY OffWait
<1>4. /\ \A j, k : At(s, q, j, k)' = IF c.pc = j /\ c.msg = k THEN 1 ELSE 0
      /\ \A p \in Queue : p # q => \A j, k : At(s, p, j, k)' = At(s, p, j, k)
  BY <1>1, <1>2, Turns
<1>5. \A k : At(s, q, "ack", k)' = 0 /\ At(s, q, "handle", k)' = 0 /\ At(s, q, "handle", k) = 0
             /\ At(s, q, "ack", k) = IF consumer[s][q].pc = "ack" /\ k = m THEN 1 ELSE 0
  <2>1. \A k : At(s, q, "handle", k) = 0
               /\ At(s, q, "ack", k) = IF consumer[s][q].pc = "ack" /\ k = m THEN 1 ELSE 0
    BY <1>1 DEF At
  <2>2. QED
    BY <1>3, <1>4, <2>1
<1>6. CASE s \notin connected
  <2>1. wire' = wire
    BY <1>6 DEF Settle, Send
  <2>2. ASSUME NEW p \in Queue, NEW k \in Msg
        PROVE  Open(s, p, k)' = Open(s, p, k)
    <3>1. At(s, p, "handle", k)' = At(s, p, "handle", k)
      BY <1>4, <1>5
    <3>2. QED
      BY <1>1, <1>6, <2>1, <3>1, OpenUnfolds
  <2>3. Keeps(s, "audit") /\ Keeps(s, "notification")
    BY <1>1, <2>2 DEF Keeps, Copies, Queue
  <2>4. SendsNothing(s)
    BY <2>1 DEF SendsNothing, Pubs
  <2>5. QED
    BY <1>1, <2>3, <2>4, KeepsAll
<1>7. CASE s \in connected
  <2>1. wire'[s] = Append(wire[s], f) /\ m \in Msg
    BY <1>1, <1>7, SettlesOne
  <2>2. /\ f \in Frame /\ f.op = consumer[s][q].pc
        /\ f.op = "ack" => f = AckOf(<<q, m>>)
    BY <1>1, <2>1, OnWire, MessageData DEF AckOf, NackOf
  <2> HIDE DEF f, m
  <2>3. /\ SendsNothing(s)
        /\ f.op # "ack" => \A x : Times(wire[s], AckOf(x))' = Times(wire[s], AckOf(x))
        /\ f.op = "ack" => \A y : Times(wire[s], AckOf(y))' =
                                    Times(wire[s], AckOf(y)) + IF <<q, m>> = y THEN 1 ELSE 0
    <3>1. f.op # "publish"
      BY <1>1, <2>2
    <3>2. /\ f.op # "publish" => SendsNothing(s)
          /\ f.op # "ack" => \A x : Times(wire[s], AckOf(x))' = Times(wire[s], AckOf(x))
          /\ \A x : f = AckOf(x) => \A y : Times(wire[s], AckOf(y))' =
                                           Times(wire[s], AckOf(y)) + IF x = y THEN 1 ELSE 0
      BY <2>1, <2>2, SendsFrame
    <3>3. QED
      BY <2>2, <3>1, <3>2, Zenon
  <2>4. ASSUME NEW p \in Queue, NEW k \in Msg
        PROVE  Open(s, p, k)' = Open(s, p, k)
    <3>1. /\ unacked[s][<<p, k>>] \in Nat /\ Times(wire[s], AckOf(<<p, k>>)) \in Nat
          /\ At(s, p, "ack", k) \in {0, 1}
      BY SlotNumbers
    <3>2. /\ Open(s, p, k) = unacked[s][<<p, k>>] - Times(wire[s], AckOf(<<p, k>>)) - At(s, p, "ack", k)
          /\ Open(s, p, k)' =
               unacked[s][<<p, k>>] - Times(wire[s], AckOf(<<p, k>>))' - At(s, p, "ack", k)'
      BY <1>1, <1>7, OpenUnfolds
    <3>3. CASE f.op = "ack" /\ p = q /\ k = m
      <4>1. Times(wire[s], AckOf(<<p, k>>))' = Times(wire[s], AckOf(<<p, k>>)) + 1
        BY <2>3, <3>3
      <4>2. At(s, p, "ack", k)' = 0 /\ At(s, p, "ack", k) = 1
        BY <1>5, <2>2, <3>3
      <4>3. QED
        BY <3>1, <3>2, <4>1, <4>2
    <3>4. CASE ~(f.op = "ack" /\ p = q /\ k = m)
      <4>1. Times(wire[s], AckOf(<<p, k>>))' = Times(wire[s], AckOf(<<p, k>>))
        BY <2>3, <3>1, <3>4, SlotPairs
      <4>2. At(s, p, "ack", k)' = At(s, p, "ack", k)
        BY <1>4, <1>5, <2>2, <3>4
      <4>3. QED
        BY <3>2, <4>1, <4>2
    <3>5. QED
      BY <3>3, <3>4
  <2>5. Keeps(s, "audit") /\ Keeps(s, "notification")
    BY <1>1, <2>4 DEF Keeps, Copies, Queue
  <2>6. QED
    BY <1>1, <2>3, <2>5, KeepsAll
<1>8. QED
  BY <1>6, <1>7

LEMMA RepublishLedger ==
  ASSUME CountsInv, NEW s \in Server, NoNacks(s), NEW q \in Queue, Republish(s, q)
  PROVE  Thins(s) \/ Resends(s)
<1> DEFINE m == consumer[s][q].msg
<1>1. /\ UNCHANGED <<status, relay, connected, ready, unacked, dead, sinks, again>>
      /\ consumer[s][q].pc = "republish" /\ ConsumersOK /\ TypesInv
  BY DEF Republish, broker, CountsInv, TypesInv
<1>2. PICK c : c = [pc |-> "ack", msg |-> m]
  OBVIOUS
<1>3. consumer' = [consumer EXCEPT ![s][q] = c] /\ c.pc = "ack" /\ c.msg = m
  BY <1>2 DEF Republish
<1>4. /\ \A j, k : At(s, q, j, k)' = IF c.pc = j /\ c.msg = k THEN 1 ELSE 0
      /\ \A p \in Queue : p # q => \A j, k : At(s, p, j, k)' = At(s, p, j, k)
  BY <1>1, <1>3, Turns
<1>5. \A k : /\ At(s, q, "handle", k) = 0 /\ At(s, q, "handle", k)' = 0
             /\ At(s, q, "ack", k) = 0 /\ At(s, q, "ack", k)' = IF k = m THEN 1 ELSE 0
  <2>1. \A k : At(s, q, "handle", k) = 0 /\ At(s, q, "ack", k) = 0
    BY <1>1 DEF At
  <2>2. QED
    BY <1>3, <1>4, <2>1
<1>6. q = "audit" /\ "notification" \in Queue /\ q # "notification"
  BY <1>1 DEF NoNacks, Queue
<1>7. CASE s \notin connected
  <2>1. wire' = wire
    BY <1>7 DEF Republish, Send
  <2>2. ASSUME NEW p \in Queue, NEW k \in Msg
        PROVE  Open(s, p, k)' = Open(s, p, k)
    <3>1. At(s, p, "handle", k)' = At(s, p, "handle", k)
      BY <1>4, <1>5
    <3>2. QED
      BY <1>1, <1>7, <2>1, <3>1, OpenUnfolds
  <2>3. Keeps(s, "audit") /\ Keeps(s, "notification")
    BY <1>1, <2>2 DEF Keeps, Copies, Queue
  <2>4. SendsNothing(s)
    BY <2>1 DEF SendsNothing, Pubs
  <2>5. QED
    BY <1>1, <2>3, <2>4, KeepsAll
<1>8. CASE s \in connected
  <2> DEFINE f == Sent(Retried(m))
  <2>1. wire'[s] = Append(wire[s], f) /\ m \in Msg /\ m.retry < MaxRetries /\ Retried(m) \in Msg
    BY <1>1, <1>8, Republishes DEF Sent
  <2>2. f \in Frame /\ f.op = "publish"
    BY <2>1, OnWire DEF Sent
  <2>3. Sends(s, Retried(m), 1) /\ \A x : Times(wire[s], AckOf(x))' = Times(wire[s], AckOf(x))
    BY <2>1, <2>2, SendsFrame
  <2> HIDE DEF f, m
  <2>4. ASSUME NEW p \in Queue, NEW k \in Msg
        PROVE  Open(s, p, k)' = Open(s, p, k) + IF p = q /\ k = m THEN -1 ELSE 0
    <3>1. /\ unacked[s][<<p, k>>] \in Nat /\ Times(wire[s], AckOf(<<p, k>>)) \in Nat
          /\ At(s, p, "ack", k) \in {0, 1}
      BY SlotNumbers
    <3>2. /\ Open(s, p, k) = unacked[s][<<p, k>>] - Times(wire[s], AckOf(<<p, k>>)) - At(s, p, "ack", k)
          /\ Open(s, p, k)' =
               unacked[s][<<p, k>>] - Times(wire[s], AckOf(<<p, k>>))' - At(s, p, "ack", k)'
      BY <1>1, <1>8, OpenUnfolds
    <3>3. Times(wire[s], AckOf(<<p, k>>))' = Times(wire[s], AckOf(<<p, k>>))
      BY <2>3
    <3>4. At(s, p, "ack", k)' = At(s, p, "ack", k) + IF p = q /\ k = m THEN 1 ELSE 0
      BY <1>4, <1>5, <3>1
    <3>5. QED
      BY <3>1, <3>2, <3>3, <3>4
  <2>5. \A p \in Queue, k \in Msg :
          Copies(s, p, k)' = Copies(s, p, k) + IF p = q /\ k = m THEN -1 ELSE 0
    <3>1. SUFFICES ASSUME NEW p \in Queue, NEW k \in Msg
                   PROVE  Copies(s, p, k)' = Copies(s, p, k) + IF p = q /\ k = m THEN -1 ELSE 0
      OBVIOUS
    <3>2. ready[<<p, k>>] \in Nat /\ Open(s, p, k) \in Nat
      BY SlotNumbers
    <3>3. Open(s, p, k)' = Open(s, p, k) + IF p = q /\ k = m THEN -1 ELSE 0
      BY <2>4
    <3>4. QED
      BY <1>1, <3>2, <3>3 DEF Copies
  <2>6. Moved(s, "audit", m, -1)
    BY <1>6, <2>5 DEF Moved
  <2>7. Keeps(s, "notification")
    <3>1. \A k \in Msg : Copies(s, "notification", k) \in Nat
      BY <1>6, SlotNumbers
    <3>2. QED
      BY <1>6, <2>5, <3>1 DEF Keeps
  <2>8. Awaits(s)
    BY <1>1, AwaitsSame
  <2>9. QED
    BY <1>1, <2>1, <2>3, <2>6, <2>7, <2>8 DEF Resends
<1>9. QED
  BY <1>7, <1>8

LEMMA DeliverLedger ==
  ASSUME CountsInv, NEW s \in Server, NEW q \in Queue, NEW m \in Msg, Deliver(s, q, m)
  PROVE  Thins(s)
<1> DEFINE x == <<q, m>>
<1>1. /\ UNCHANGED <<status, relay, connected, wire, dead, sinks, again>> /\ s \in connected
      /\ consumer[s][q] = Wait /\ ConsumersOK /\ WiresOK /\ x \in Slot
      /\ ready' = [ready EXCEPT ![x] = @ - 1] /\ unacked' = [unacked EXCEPT ![s][x] = @ + 1]
  BY MessageData DEF Deliver, sinks, CountsInv, TypesInv
<1>2. PICK c : c = [pc |-> "handle", msg |-> m]
  OBVIOUS
<1>3. consumer' = [consumer EXCEPT ![s][q] = c] /\ c.pc = "handle"
  BY <1>2 DEF Deliver
<1>4. /\ \A j, k : At(s, q, j, k)' = IF c.pc = j /\ c.msg = k THEN 1 ELSE 0
      /\ \A p \in Queue : p # q => \A j, k : At(s, p, j, k)' = At(s, p, j, k)
  BY <1>1, <1>3, Turns
<1>5. \A p \in Queue : \A k : At(s, p, "ack", k)' = At(s, p, "ack", k)
  <2>1. \A k : At(s, q, "ack", k) = 0
    BY <1>1, OffWait DEF At
  <2>2. QED
    BY <1>3, <1>4, <2>1
<1>6. \A y \in Slot : /\ ready'[y] = ready[y] - (IF y = x THEN 1 ELSE 0)
                      /\ unacked'[s][y] = unacked[s][y] + (IF y = x THEN 1 ELSE 0)
  <2> HIDE DEF x
  <2>1. /\ ready \in [Slot -> Nat] /\ unacked \in [Server -> [Slot -> Nat]]
        /\ \A y \in Slot : ready[y] \in Nat /\ unacked[s][y] \in Nat
    BY <1>1 DEF WiresOK
  <2>2. /\ ready'[x] = ready[x] - 1 /\ unacked'[s][x] = unacked[s][x] + 1
        /\ \A y \in Slot : y # x => ready'[y] = ready[y] /\ unacked'[s][y] = unacked[s][y]
    BY <1>1, <2>1
  <2>3. QED
    BY <2>1, <2>2
<1> HIDE DEF x
<1>7. ASSUME NEW p \in Queue, NEW k \in Msg
      PROVE  Copies(s, p, k)' = Copies(s, p, k)
  <2>1. /\ unacked[s][<<p, k>>] \in Nat /\ ready[<<p, k>>] \in Nat
        /\ Times(wire[s], AckOf(<<p, k>>)) \in Nat /\ At(s, p, "ack", k) \in {0, 1}
    BY SlotNumbers
  <2>2. /\ ready'[<<p, k>>] = ready[<<p, k>>] - (IF <<p, k>> = x THEN 1 ELSE 0)
        /\ unacked'[s][<<p, k>>] = unacked[s][<<p, k>>] + (IF <<p, k>> = x THEN 1 ELSE 0)
    BY <1>6, MessageData
  <2>3. /\ Open(s, p, k) = unacked[s][<<p, k>>] - Times(wire[s], AckOf(<<p, k>>)) - At(s, p, "ack", k)
        /\ Open(s, p, k)' =
             unacked'[s][<<p, k>>] - Times(wire[s], AckOf(<<p, k>>)) - At(s, p, "ack", k)'
    BY <1>1, OpenUnfolds
  <2>4. At(s, p, "ack", k)' = At(s, p, "ack", k)
    BY <1>5
  <2>5. /\ Copies(s, p, k) = ready[<<p, k>>] + Open(s, p, k)
        /\ Copies(s, p, k)' = ready'[<<p, k>>] + Open(s, p, k)'
    BY DEF Copies
  <2>6. QED
    BY <2>1, <2>2, <2>3, <2>4, <2>5
<1>8. Keeps(s, "audit") /\ Keeps(s, "notification")
  BY <1>7 DEF Keeps, Queue
<1>9. SendsNothing(s)
  BY <1>1 DEF SendsNothing, Pubs
<1>10. QED
  BY <1>1, <1>8, <1>9, KeepsAll

-----------------------------------------------------------------------------
(* Faults, and what follows them *)

LEMMA CrashLedger ==
  ASSUME CountsInv, NEW s \in Server, Crash(s)
  PROVE  Thins(s)
<1>1. /\ UNCHANGED <<status, wire, ready, unacked, dead, sinks>> /\ again' = PublishedAgain(s)
      /\ s \notin connected'
  BY DEF Crash, broker
<1>2. \A q \in Queue : consumer'[s][q] = Off
  BY DEF Crash, CountsInv, TypesInv, ConsumersOK
<1>3. ASSUME NEW q \in Queue, NEW k \in Msg
      PROVE  Copies(s, q, k)' <= Copies(s, q, k)
  <2>1. /\ ready[<<q, k>>] \in Nat /\ Open(s, q, k) \in Nat
        /\ Times(wire[s], NackOf(<<q, k>>)) \in Nat
        /\ Times(wire[s], NackOf(<<q, k>>)) <= Open(s, q, k)
    BY OpenType DEF CountsInv
  <2>2. At(s, q, "handle", k)' = 0
    BY <1>2, OffWait DEF At
  <2>3. Open(s, q, k)' = Times(wire[s], NackOf(<<q, k>>)) + At(s, q, "handle", k)'
    BY <1>1, OpenUnfolds
  <2>4. Open(s, q, k)' <= Open(s, q, k) /\ Open(s, q, k)' \in Nat
    BY <2>1, <2>2, <2>3
  <2>5. QED
    BY <1>1, <2>1, <2>4 DEF Copies
<1>4. \A k \in Msg : Pubs(s, k)' <= Pubs(s, k)
  <2>1. \A k \in Msg : Pubs(s, k)' = Pubs(s, k) /\ Pubs(s, k) \in Nat
    BY <1>1, SlotNumbers DEF Pubs, Queue
  <2>2. QED
    BY <2>1
<1>5. \A e \in Event : dead'[e] <= dead[e] /\ status'[e] = status[e]
  BY <1>1 DEF CountsInv, TypesInv, SinksOK
<1>6. QED
  BY <1>1, <1>3, <1>4, <1>5, PublishedAgainCounts, ThinsOnly

LEMMA BootLedger ==
  ASSUME CountsInv, NEW s \in Server, Boot(s)
  PROVE  Thins(s)
<1>1. /\ UNCHANGED <<status, wire, ready, unacked, dead, sinks, again>>
      /\ s \in connected' /\ wire[s] = << >> /\ unacked[s] = Empty /\ process[s] = "down"
  BY DEF Boot, broker
<1>2. \A q \in Queue : consumer'[s][q] = Wait
  BY DEF Boot, CountsInv, TypesInv, ConsumersOK
<1>3. ASSUME NEW q \in Queue, NEW k \in Msg
      PROVE  Copies(s, q, k)' <= Copies(s, q, k)
  <2>1. ready[<<q, k>>] \in Nat /\ Open(s, q, k) \in Nat /\ <<q, k>> \in Slot
    BY SlotNumbers, MessageData
  <2>2. At(s, q, "ack", k)' = 0 /\ unacked[s][<<q, k>>] = 0 /\ Times(wire[s], AckOf(<<q, k>>)) = 0
    <3>1. At(s, q, "ack", k)' = 0
      BY <1>2, OffWait DEF At
    <3>2. unacked[s][<<q, k>>] = 0
      BY <1>1, <2>1 DEF Empty
    <3>3. Times(wire[s], AckOf(<<q, k>>)) = 0
      BY <1>1, TimesNothing
    <3>4. QED
      BY <3>1, <3>2, <3>3
  <2>3. Open(s, q, k)' =
          unacked[s][<<q, k>>] - Times(wire[s], AckOf(<<q, k>>)) - At(s, q, "ack", k)'
    BY <1>1, OpenUnfolds
  <2>4. Open(s, q, k)' <= Open(s, q, k) /\ Open(s, q, k)' \in Nat
    BY <2>1, <2>2, <2>3
  <2>5. QED
    BY <1>1, <2>1, <2>4 DEF Copies
<1>4. \A k \in Msg : Pubs(s, k)' <= Pubs(s, k)
  <2>1. \A k \in Msg : Pubs(s, k)' = Pubs(s, k) /\ Pubs(s, k) \in Nat
    BY <1>1, SlotNumbers DEF Pubs, Queue
  <2>2. QED
    BY <2>1
<1>5. \A e \in Event : dead'[e] <= dead[e]
  BY <1>1 DEF CountsInv, TypesInv, SinksOK
<1>6. \A e \in Event : ToCome(s, e)' <= ToCome(s, e)
  <2>1. relay[s].pc = "off"
    BY <1>1 DEF CountsInv, ProcessesOK
  <2>2. QED
    BY <1>1, <2>1, ToComeLe
<1>7. QED
  BY <1>1, <1>3, <1>4, <1>5, <1>6, ThinsQuietly

\* Deliveries that are given back come once more.
LEMMA GivesBack ==
  ASSUME CountsInv, NEW s \in Server, again' = GivenBack(s), UNCHANGED <<status, relay, dead, sinks>>,
         \A k \in Msg : Pubs(s, k)' <= Pubs(s, k),
         \A q \in Queue, k \in Msg : Copies(s, q, k)' <= Copies(s, q, k) + unacked[s][<<q, k>>]
  PROVE  Thins(s)
<1> DEFINE u == unacked[s]
<1>1. u \in [Slot -> Nat] /\ \A e \in Event : dead'[e] <= dead[e]
  BY DEF CountsInv, TypesInv, WiresOK, SinksOK
<1>2. Awaits(s)
  BY AwaitsSame
<1>3. ASSUME NEW e \in Event
      PROVE  /\ ToCome(s, e)' + again["audit"][e] + Total(u, "audit", e)
                  <= ToCome(s, e) + again'["audit"][e]
             /\ again["notification"][e] + Total(u, "notification", e) <= again'["notification"][e]
  <2>1. /\ again["audit"][e] \in Nat /\ again["notification"][e] \in Nat
        /\ Total(u, "audit", e) \in Nat /\ Total(u, "notification", e) \in Nat
    BY <1>1, TotalIsSum DEF CountsInv, HistoryOK, Queue
  <2>2. /\ again'["audit"][e] = again["audit"][e] + Total(u, "audit", e)
        /\ again'["notification"][e] = again["notification"][e] + Total(u, "notification", e)
    BY DEF GivenBack, Queue
  <2>3. ToCome(s, e)' = ToCome(s, e) /\ ToCome(s, e) \in {0, 1}
    BY <1>2, ToComeType DEF Awaits
  <2> HIDE DEF u
  <2>4. QED
    BY <2>1, <2>2, <2>3
<1>4. QED
  BY <1>1, <1>3 DEF Thins

LEMMA RequeueLedger ==
  ASSUME CountsInv, NEW s \in Server, Requeue(s)
  PROVE  Thins(s)
<1>1. /\ UNCHANGED <<status, relay, consumer, connected, wire, dead, sinks>>
      /\ again' = GivenBack(s) /\ ready' = Requeued(s) /\ s \notin connected
  BY DEF Requeue
<1>2. ASSUME NEW q \in Queue, NEW k \in Msg
      PROVE  Copies(s, q, k)' <= Copies(s, q, k) + unacked[s][<<q, k>>]
  <2>1. /\ ready[<<q, k>>] \in Nat /\ Open(s, q, k) \in Nat /\ unacked[s][<<q, k>>] \in Nat
        /\ <<q, k>> \in Slot
    BY SlotNumbers, MessageData
  <2>2. Open(s, q, k)' = Open(s, q, k)
    <3>1. At(s, q, "handle", k)' = At(s, q, "handle", k)
      BY <1>1 DEF At
    <3>2. QED
      BY <1>1, <3>1, OpenUnfolds
  <2>3. ready'[<<q, k>>] = ready[<<q, k>>] + unacked[s][<<q, k>>]
    BY <1>1, <2>1 DEF Requeued
  <2>4. /\ Copies(s, q, k) = ready[<<q, k>>] + Open(s, q, k)
        /\ Copies(s, q, k)' = ready'[<<q, k>>] + Open(s, q, k)'
    BY DEF Copies
  <2>5. QED
    BY <2>1, <2>2, <2>3, <2>4
<1>3. \A k \in Msg : Pubs(s, k)' <= Pubs(s, k)
  <2>1. \A k \in Msg : Pubs(s, k)' = Pubs(s, k) /\ Pubs(s, k) \in Nat
    BY <1>1, SlotNumbers DEF Pubs, Queue
  <2>2. QED
    BY <2>1
<1>4. QED
  BY <1>1, <1>2, <1>3, GivesBack

\* A channel that is closed keeps what a handler has in its hands, and no more.
LEMMA HandsOfClosed ==
  ASSUME CountsInv, NEW s \in Server, consumer'[s] = Closed(s), NEW q \in Queue, NEW k
  PROVE  At(s, q, "handle", k)' <= At(s, q, "handle", k)
<1>1. consumer'[s][q] = Off \/ consumer'[s][q] = consumer[s][q]
  BY ConsumersClose DEF CountsInv, TypesInv
<1>2. QED
  BY <1>1, OffWait DEF At

\* What a broken connection leaves open.
LEMMA LeftOpen ==
  ASSUME CountsInv, NEW s \in Server, consumer'[s] = Closed(s), wire'[s] = << >>, s \notin connected',
         NEW q \in Queue, NEW k \in Msg
  PROVE  Open(s, q, k)' \in Nat /\ Open(s, q, k)' <= Open(s, q, k)
<1>1. Open(s, q, k) \in Nat /\ At(s, q, "handle", k) <= Open(s, q, k)
  BY OpenType DEF CountsInv
<1>2. At(s, q, "handle", k)' <= At(s, q, "handle", k) /\ At(s, q, "handle", k) \in {0, 1}
  BY HandsOfClosed, AtType
<1>3. At(s, q, "handle", k)' \in {0, 1}
  BY DEF At
<1>4. Times(wire'[s], NackOf(<<q, k>>)) = 0
  BY TimesNothing
<1>5. Open(s, q, k)' = Times(wire'[s], NackOf(<<q, k>>)) + At(s, q, "handle", k)'
  BY DEF Open
<1>6. QED
  BY <1>1, <1>2, <1>3, <1>4, <1>5

LEMMA WireGone ==
  ASSUME CountsInv, NEW s \in Server, wire'[s] = << >>
  PROVE  \A k \in Msg : Pubs(s, k)' <= Pubs(s, k)
<1>1. \A k \in Msg : Pubs(s, k) \in Nat
  BY SlotNumbers DEF Queue
<1>2. \A k \in Msg : Times(wire'[s], Sent(k)) = 0
  BY TimesNothing
<1>3. \A k \in Msg : Pubs(s, k)' = 0
  BY <1>2 DEF Pubs
<1>4. QED
  BY <1>1, <1>3

LEMMA DisconnectLedger ==
  ASSUME CountsInv, NEW s \in Server, Disconnect(s)
  PROVE  Thins(s)
<1>1. /\ UNCHANGED <<status, relay, dead, sinks>> /\ again' = GivenBack(s) /\ ready' = Requeued(s)
      /\ s \notin connected' /\ wire'[s] = << >> /\ consumer'[s] = Closed(s)
  BY DEF Disconnect, CountsInv, TypesInv, WiresOK, ConsumersOK
<1>2. ASSUME NEW q \in Queue, NEW k \in Msg
      PROVE  Copies(s, q, k)' <= Copies(s, q, k) + unacked[s][<<q, k>>]
  <2>1. /\ ready[<<q, k>>] \in Nat /\ Open(s, q, k) \in Nat /\ unacked[s][<<q, k>>] \in Nat
        /\ <<q, k>> \in Slot
    BY SlotNumbers, MessageData
  <2>2. Open(s, q, k)' \in Nat /\ Open(s, q, k)' <= Open(s, q, k)
    BY <1>1, LeftOpen
  <2>3. ready'[<<q, k>>] = ready[<<q, k>>] + unacked[s][<<q, k>>]
    BY <1>1, <2>1 DEF Requeued
  <2>4. /\ Copies(s, q, k) = ready[<<q, k>>] + Open(s, q, k)
        /\ Copies(s, q, k)' = ready'[<<q, k>>] + Open(s, q, k)'
    BY DEF Copies
  <2>5. QED
    BY <2>1, <2>2, <2>3, <2>4
<1>3. \A k \in Msg : Pubs(s, k)' <= Pubs(s, k)
  BY <1>1, WireGone
<1>4. QED
  BY <1>1, <1>2, <1>3, GivesBack

LEMMA BrokerLedger ==
  ASSUME CountsInv, NEW s \in Server, BrokerRestart
  PROVE  Thins(s)
<1>1. /\ UNCHANGED <<status, relay, sinks, again>> /\ ready' = Empty /\ dead' = [e \in Event |-> 0]
      /\ s \notin connected' /\ wire'[s] = << >> /\ consumer'[s] = Closed(s)
  BY DEF BrokerRestart
<1>2. ASSUME NEW q \in Queue, NEW k \in Msg
      PROVE  Copies(s, q, k)' <= Copies(s, q, k)
  <2>1. ready[<<q, k>>] \in Nat /\ Open(s, q, k) \in Nat /\ <<q, k>> \in Slot
    BY SlotNumbers, MessageData
  <2>2. Open(s, q, k)' \in Nat /\ Open(s, q, k)' <= Open(s, q, k)
    BY <1>1, LeftOpen
  <2>3. ready'[<<q, k>>] = 0
    BY <1>1, <2>1 DEF Empty
  <2>4. /\ Copies(s, q, k) = ready[<<q, k>>] + Open(s, q, k)
        /\ Copies(s, q, k)' = ready'[<<q, k>>] + Open(s, q, k)'
    BY DEF Copies
  <2>5. QED
    BY <2>1, <2>2, <2>3, <2>4
<1>3. \A k \in Msg : Pubs(s, k)' <= Pubs(s, k)
  BY <1>1, WireGone
<1>4. \A e \in Event : dead'[e] <= dead[e]
  BY <1>1 DEF CountsInv, TypesInv, SinksOK
<1>5. \A e \in Event : ToCome(s, e)' <= ToCome(s, e)
  <2>1. Awaits(s)
    BY <1>1, AwaitsSame
  <2>2. QED
    BY <2>1, ToComeType DEF Awaits
<1>6. QED
  BY <1>1, <1>2, <1>3, <1>4, <1>5, ThinsQuietly

-----------------------------------------------------------------------------
(* Every step *)

Ledger(s) == Thins(s) \/ Starts(s) \/ Routes(s) \/ Resends(s) \/ Ends(s) \/ Notices(s)

LEMMA NextLedger ==
  ASSUME CountsInv, [Next]_vars, NEW s \in Server, Server = {s}, BatchOK(s), NoNacks(s)
  PROVE  Ledger(s)
<1>1. ASSUME UNCHANGED vars
      PROVE  Thins(s)
  <2>1. UNCHANGED <<consumer, connected, wire, ready, unacked, status, relay, dead, sinks, again>>
    BY <1>1 DEF vars, broker
  <2>2. Keeps(s, "audit") /\ Keeps(s, "notification") /\ SendsNothing(s)
    BY <2>1, SameSlots
  <2>3. QED
    BY <2>1, <2>2, KeepsAll
<1>2. ASSUME NEW q \in Queue, ConsumerStep(s, q)
      PROVE  Ledger(s)
  <2>1. CASE HandleAudit(s)
    BY <2>1, HandleAuditLedger DEF Ledger
  <2>2. CASE HandleNotification(s)
    BY <2>2, HandleNotificationLedger DEF Ledger
  <2>3. CASE Republish(s, q)
    BY <2>3, RepublishLedger DEF Ledger
  <2>4. CASE Settle(s, q)
    BY <2>4, SettleLedger DEF Ledger
  <2>5. QED
    BY <1>2, <2>1, <2>2, <2>3, <2>4 DEF ConsumerStep
<1>3. ASSUME NEW q \in Queue, NEW m \in Msg, Deliver(s, q, m)
      PROVE  Ledger(s)
  BY <1>3, DeliverLedger DEF Ledger
<1>4. ASSUME FetchPending(s) \/ BootAlone(s) \/ \E e \in Event : CommitEvent(e)
      PROVE  Ledger(s)
  BY <1>4, FetchLedger DEF Ledger
<1>5. ASSUME Publish(s)
      PROVE  Ledger(s)
  BY <1>5, PublishLedger DEF Ledger
<1>6. ASSUME MarkSent(s) \/ MarkSentFails(s)
      PROVE  Ledger(s)
  BY <1>6, MarkLedger DEF Ledger
<1>7. ASSUME ReadFrame(s)
      PROVE  Ledger(s)
  BY <1>7, ReadPublishLedger, ReadSettleLedger DEF Ledger
<1>8. ASSUME Requeue(s) \/ Boot(s) \/ HandleFails(s) \/ Crash(s) \/ Disconnect(s) \/ BrokerRestart
      PROVE  Ledger(s)
  BY <1>8, RequeueLedger, BootLedger, HandleFailsLedger, CrashLedger, DisconnectLedger, BrokerLedger DEF Ledger
<1>9. \A t \in Server : t = s
  BY Server = {s}
<1>10. Thins(s) => Ledger(s)
  BY DEF Ledger
<1> HIDE DEF Ledger
<1>11. CASE UNCHANGED vars
  BY <1>1, <1>10, <1>11
<1>12. CASE Next
  <2>1. \/ \E e \in Event : CommitEvent(e)
        \/ BrokerRestart
        \/ FetchPending(s) \/ Publish(s) \/ MarkSent(s) \/ ReadFrame(s) \/ Requeue(s) \/ Boot(s)
        \/ HandleFails(s) \/ MarkSentFails(s) \/ Crash(s) \/ BootAlone(s) \/ Disconnect(s)
        \/ \E q \in Queue : ConsumerStep(s, q) \/ \E m \in Msg : Deliver(s, q, m)
    BY <1>9, <1>12, Zenon DEF Next, RelayStep
  <2>2. QED
    BY <1>2, <1>3, <1>4, <1>5, <1>6, <1>7, <1>8, <2>1
<1>13. QED
  BY <1>11, <1>12

-----------------------------------------------------------------------------
(* Sums of copies *)

\* The copies of e by their retries: on the wire of s, and in queue q.
Flying(s, e)  == [r \in Count |-> Pubs(s, Message(e, r))]
Held(s, q, e) == [r \in Count |-> Copies(s, q, Message(e, r))]

Outs(s, e)   == Sum(Flying(s, e))
Ins(s, q, e) == Sum(Held(s, q, e))

\* How many notifications the copies of e for audit.queue may still cause.
OutsDue(s, e) == Sum(Weighted(Flying(s, e), MaxRetries + 1))
InsDue(s, e)  == Sum(Weighted(Held(s, "audit", e), MaxRetries))

Natural(s) ==
  \A k \in Msg : Pubs(s, k) \in Nat /\ \A q \in Queue : Copies(s, q, k) \in Nat

LEMMA CopiesNatural == CountsInv => \A s \in Server : Natural(s)
  BY SlotNumbers DEF Natural, Queue

LEMMA Limits == MaxRetries \in Nat /\ MaxRetries + 1 \in Nat /\ MaxRetries <= MaxRetries
                /\ MaxRetries <= MaxRetries + 1 /\ MaxRetries + 1 \in Int
  BY PipelineAssumption

\* One of the terms grows by n.
LEMMA TermMoves ==
  ASSUME NEW f \in Counts, NEW g \in Counts, NEW k \in Count, NEW n \in Int,
         \A r \in Count : g[r] = f[r] + IF r = k THEN n ELSE 0
  PROVE  /\ Sum(g) = Sum(f) + n
         /\ \A N \in Nat : MaxRetries <= N => Sum(Weighted(g, N)) = Sum(Weighted(f, N)) + (N - k) * n
<1>1. g = Plus(f, k, n) /\ f[k] + n \in Nat
  <2>1. \A r \in Count : f[r] \in Nat /\ g[r] \in Nat
    BY DEF Counts
  <2>2. g[k] = f[k] + n /\ \A r \in Count : r # k => g[r] = f[r]
    BY <2>1
  <2>3. QED
    BY <2>1, <2>2 DEF Plus, Counts
<1>2. QED
  BY <1>1, SumPlus, WeightedPlus

LEMMA TermsSame ==
  ASSUME NEW f \in Counts, NEW g \in Counts, \A r \in Count : g[r] = f[r]
  PROVE  f = g
  BY DEF Counts

LEMMA SumsNatural ==
  ASSUME NEW s, Natural(s), NEW e \in Event
  PROVE  /\ Outs(s, e) \in Nat /\ OutsDue(s, e) \in Nat /\ InsDue(s, e) \in Nat
         /\ \A q \in Queue : Ins(s, q, e) \in Nat
<1>1. Flying(s, e) \in Counts /\ \A q \in Queue : Held(s, q, e) \in Counts
  BY MessageData DEF Flying, Held, Natural, Counts
<1>2. QED
  BY <1>1, SumType, WeightedType, Limits DEF Outs, OutsDue, Ins, InsDue, Queue

LEMMA SendsSums ==
  ASSUME NEW s, Natural(s), Natural(s)', NEW m \in Msg, NEW n \in Int, Sends(s, m, n), NEW e \in Event
  PROVE  /\ Outs(s, e)' = Outs(s, e) + IF e = m.ev THEN n ELSE 0
         /\ OutsDue(s, e)' = OutsDue(s, e) + IF e = m.ev THEN ((MaxRetries + 1) - m.retry) * n ELSE 0
         /\ Outs(s, e) \in Nat /\ OutsDue(s, e) \in Nat
<1>1. PICK f, g, N : f = Flying(s, e) /\ g = Flying(s, e)' /\ N = MaxRetries + 1
  OBVIOUS
<1>2. f \in Counts /\ g \in Counts
  BY <1>1, MessageData DEF Flying, Natural, Counts
<1>3. N \in Nat /\ MaxRetries <= N
  BY <1>1, Limits
<1>4. Sum(f) \in Nat /\ Sum(Weighted(f, N)) \in Nat
  BY <1>2, <1>3, SumType, WeightedType
<1>5. \A r \in Count : g[r] = f[r] + IF e = m.ev /\ r = m.retry THEN n ELSE 0
  BY <1>1, MessageData DEF Sends, Flying
<1>6. PICK w : w = (N - m.retry) * n
  OBVIOUS
<1>7. /\ Sum(g) = Sum(f) + IF e = m.ev THEN n ELSE 0
      /\ Sum(Weighted(g, N)) = Sum(Weighted(f, N)) + IF e = m.ev THEN w ELSE 0
  <2>1. CASE e = m.ev
    <3>1. m.retry \in Count /\ \A r \in Count : g[r] = f[r] + IF r = m.retry THEN n ELSE 0
      BY <1>5, <2>1, MessageData
    <3>2. Sum(g) = Sum(f) + n /\ Sum(Weighted(g, N)) = Sum(Weighted(f, N)) + (N - m.retry) * n
      BY <1>2, <1>3, <3>1, TermMoves
    <3>3. QED
      BY <1>6, <2>1, <3>2, Zenon
  <2>2. CASE e # m.ev
    <3>1. \A r \in Count : f[r] \in Nat
      BY <1>2 DEF Counts
    <3>2. \A r \in Count : g[r] = f[r]
      BY <1>5, <2>2, <3>1
    <3>3. f = g
      BY <1>2, <3>2, TermsSame
    <3>4. QED
      BY <1>4, <2>2, <3>3
  <2>3. QED
    BY <2>1, <2>2
<1>8. w = ((MaxRetries + 1) - m.retry) * n
  BY <1>1, <1>6, Zenon
<1>9. /\ Outs(s, e) = Sum(f) /\ Outs(s, e)' = Sum(g)
      /\ OutsDue(s, e) = Sum(Weighted(f, N)) /\ OutsDue(s, e)' = Sum(Weighted(g, N))
  BY <1>1 DEF Outs, OutsDue
<1>10. QED
  BY <1>4, <1>7, <1>8, <1>9

LEMMA MovedSums ==
  ASSUME NEW s, Natural(s), Natural(s)', NEW q \in Queue, NEW m \in Msg, NEW n \in Int,
         Moved(s, q, m, n), NEW e \in Event
  PROVE  /\ Ins(s, q, e)' = Ins(s, q, e) + IF e = m.ev THEN n ELSE 0
         /\ q = "audit" =>
              InsDue(s, e)' = InsDue(s, e) + IF e = m.ev THEN (MaxRetries - m.retry) * n ELSE 0
         /\ Ins(s, q, e) \in Nat /\ (q = "audit" => InsDue(s, e) \in Nat)
<1>1. PICK f, g : f = Held(s, q, e) /\ g = Held(s, q, e)'
  OBVIOUS
<1>2. f \in Counts /\ g \in Counts
  BY <1>1, MessageData DEF Held, Natural, Counts
<1>3. Sum(f) \in Nat /\ Sum(Weighted(f, MaxRetries)) \in Nat
  BY <1>2, SumType, WeightedType, Limits
<1>4. \A r \in Count : g[r] = f[r] + IF e = m.ev /\ r = m.retry THEN n ELSE 0
  BY <1>1, MessageData DEF Moved, Held
<1>5. /\ Sum(g) = Sum(f) + IF e = m.ev THEN n ELSE 0
      /\ Sum(Weighted(g, MaxRetries)) =
           Sum(Weighted(f, MaxRetries)) + IF e = m.ev THEN (MaxRetries - m.retry) * n ELSE 0
  <2>1. CASE e = m.ev
    <3>1. m.retry \in Count /\ \A r \in Count : g[r] = f[r] + IF r = m.retry THEN n ELSE 0
      BY <1>4, <2>1, MessageData
    <3>2. /\ Sum(g) = Sum(f) + n
          /\ \A N \in Nat : MaxRetries <= N =>
               Sum(Weighted(g, N)) = Sum(Weighted(f, N)) + (N - m.retry) * n
      BY <1>2, <3>1, TermMoves
    <3>3. Sum(Weighted(g, MaxRetries)) =
            Sum(Weighted(f, MaxRetries)) + (MaxRetries - m.retry) * n
      BY <3>2, Limits, Zenon
    <3>4. QED
      BY <2>1, <3>2, <3>3, Zenon
  <2>2. CASE e # m.ev
    <3>1. \A r \in Count : f[r] \in Nat
      BY <1>2 DEF Counts
    <3>2. \A r \in Count : g[r] = f[r]
      BY <1>4, <2>2, <3>1
    <3>3. f = g
      BY <1>2, <3>2, TermsSame
    <3>4. QED
      BY <1>3, <2>2, <3>3
  <2>3. QED
    BY <2>1, <2>2
<1>6. QED
  BY <1>1, <1>3, <1>5 DEF Ins, InsDue

LEMMA KeepsSums ==
  ASSUME NEW s, Natural(s), NEW q \in Queue, Keeps(s, q), NEW e \in Event
  PROVE  /\ Ins(s, q, e)' = Ins(s, q, e) /\ (q = "audit" => InsDue(s, e)' = InsDue(s, e))
         /\ Ins(s, q, e) \in Nat /\ (q = "audit" => InsDue(s, e) \in Nat)
<1>1. Held(s, q, e)' = Held(s, q, e)
  BY MessageData DEF Held, Keeps
<1>2. PICK f : f = Held(s, q, e)
  OBVIOUS
<1>3. f \in Counts
  BY <1>2, MessageData DEF Held, Natural, Counts
<1>4. Sum(f) \in Nat /\ Sum(Weighted(f, MaxRetries)) \in Nat
  BY <1>3, SumType, WeightedType, Limits
<1>5. QED
  BY <1>1, <1>2, <1>4 DEF Ins, InsDue

LEMMA SendsNothingSums ==
  ASSUME NEW s, Natural(s), SendsNothing(s), NEW e \in Event
  PROVE  /\ Outs(s, e)' = Outs(s, e) /\ OutsDue(s, e)' = OutsDue(s, e)
         /\ Outs(s, e) \in Nat /\ OutsDue(s, e) \in Nat
<1>1. Flying(s, e)' = Flying(s, e)
  BY MessageData DEF Flying, SendsNothing
<1>2. PICK f : f = Flying(s, e)
  OBVIOUS
<1>3. f \in Counts
  BY <1>2, MessageData DEF Flying, Natural, Counts
<1>4. Sum(f) \in Nat /\ Sum(Weighted(f, MaxRetries + 1)) \in Nat
  BY <1>3, SumType, WeightedType, Limits
<1>5. QED
  BY <1>1, <1>2, <1>4 DEF Outs, OutsDue

LEMMA ThinsSums ==
  ASSUME NEW s, Natural(s), Natural(s)', NEW u \in [Slot -> Nat],
         \A k \in Msg : Pubs(s, k)' <= Pubs(s, k),
         \A q \in Queue, k \in Msg : Copies(s, q, k)' <= Copies(s, q, k) + u[<<q, k>>],
         NEW e \in Event
  PROVE  /\ Outs(s, e)' <= Outs(s, e) /\ OutsDue(s, e)' <= OutsDue(s, e)
         /\ \A q \in Queue : Ins(s, q, e)' <= Ins(s, q, e) + Total(u, q, e)
         /\ InsDue(s, e)' <= InsDue(s, e) + MaxRetries * Total(u, "audit", e)
         /\ Outs(s, e) \in Nat /\ OutsDue(s, e) \in Nat /\ Outs(s, e)' \in Nat /\ OutsDue(s, e)' \in Nat
         /\ \A q \in Queue : Ins(s, q, e) \in Nat /\ Ins(s, q, e)' \in Nat
         /\ InsDue(s, e) \in Nat /\ InsDue(s, e)' \in Nat
<1>1. PICK f, g : f = Flying(s, e) /\ g = Flying(s, e)'
  OBVIOUS
<1>2. f \in Counts /\ g \in Counts
  BY <1>1, MessageData DEF Flying, Natural, Counts
<1>3. \A r \in Count : g[r] <= f[r]
  BY <1>1, MessageData DEF Flying
<1>4. /\ Sum(f) \in Nat /\ Sum(Weighted(f, MaxRetries + 1)) \in Nat
      /\ Sum(g) \in Nat /\ Sum(Weighted(g, MaxRetries + 1)) \in Nat
  BY <1>2, SumType, WeightedType, Limits
<1>5. Sum(g) <= Sum(f)
  BY <1>2, <1>3, SumLe
<1>6. Sum(Weighted(g, MaxRetries + 1)) <= Sum(Weighted(f, MaxRetries + 1))
  <2>1. \A r \in Count : g[r] <= f[r] + Nothing[r]
    BY <1>2, <1>3 DEF Counts, Nothing
  <2>2. Sum(Weighted(g, MaxRetries + 1)) <= Sum(Weighted(f, MaxRetries + 1)) + (MaxRetries + 1) * Sum(Nothing)
    BY <1>2, <2>1, SumNothing, WeightedLe, Limits
  <2>3. (MaxRetries + 1) * Sum(Nothing) = 0
    BY SumNothing, Limits
  <2>4. QED
    BY <1>4, <2>2, <2>3
<1>7. /\ Outs(s, e)' <= Outs(s, e) /\ OutsDue(s, e)' <= OutsDue(s, e)
      /\ Outs(s, e) \in Nat /\ OutsDue(s, e) \in Nat /\ Outs(s, e)' \in Nat /\ OutsDue(s, e)' \in Nat
  BY <1>1, <1>4, <1>5, <1>6 DEF Outs, OutsDue
<1>8. ASSUME NEW q \in Queue
      PROVE  /\ Ins(s, q, e) \in Nat /\ Ins(s, q, e)' \in Nat
             /\ Ins(s, q, e)' <= Ins(s, q, e) + Total(u, q, e)
             /\ q = "audit" => /\ InsDue(s, e) \in Nat /\ InsDue(s, e)' \in Nat
                               /\ InsDue(s, e)' <= InsDue(s, e) + MaxRetries * Total(u, "audit", e)
  <2>1. PICK h, i, a : h = Held(s, q, e) /\ i = Held(s, q, e)' /\ a = Terms(u, q, e)
    OBVIOUS
  <2>2. h \in Counts /\ i \in Counts
    BY <2>1, MessageData DEF Held, Natural, Counts
  <2>3. a \in Counts /\ Total(u, q, e) = Sum(a)
    BY <2>1, TotalIsSum
  <2>4. \A r \in Count : i[r] <= h[r] + a[r]
    BY <2>1, MessageData DEF Held, Terms
  <2>5. Sum(i) <= Sum(h) + Sum(a)
    <3>1. /\ [r \in Count |-> h[r] + a[r]] \in Counts
          /\ Sum([r \in Count |-> h[r] + a[r]]) = Sum(h) + Sum(a)
      BY <2>2, <2>3, SumAdd
    <3>2. Sum(i) <= Sum([r \in Count |-> h[r] + a[r]])
      BY <2>2, <2>4, <3>1, SumLe
    <3>3. QED
      BY <3>1, <3>2
  <2>6. Sum(Weighted(i, MaxRetries)) <= Sum(Weighted(h, MaxRetries)) + MaxRetries * Sum(a)
    BY <2>2, <2>3, <2>4, WeightedLe, Limits
  <2>7. /\ Sum(h) \in Nat /\ Sum(Weighted(h, MaxRetries)) \in Nat
        /\ Sum(i) \in Nat /\ Sum(Weighted(i, MaxRetries)) \in Nat
    BY <2>2, SumType, WeightedType, Limits
  <2>8. QED
    BY <2>1, <2>3, <2>5, <2>6, <2>7 DEF Ins, InsDue
<1>9. QED
  BY <1>7, <1>8 DEF Queue

-----------------------------------------------------------------------------
(* The accounts *)

\* What the next publish of e may still cause, and what it may have caused.
ComeDue(s, e) == (MaxRetries + 1) * ToCome(s, e)
Allowed(e)    == (1 + again["audit"][e]) * (MaxRetries + 1)

\* The rows and dead letters of e, and whatever may still become one.
Once(s, e) ==
  audited[e] + dead[e] + Outs(s, e) + Ins(s, "audit", e) + ToCome(s, e) <= 1 + again["audit"][e]

\* The notifications of e, and whatever may still become one.
Noticed(s, e) ==
  /\ e \notin Notifies => notified[e] + Ins(s, "notification", e) <= again["notification"][e]
  /\ e \in Notifies =>
       notified[e] + Ins(s, "notification", e) + InsDue(s, e) + OutsDue(s, e) + ComeDue(s, e)
         <= again["notification"][e] + Allowed(e)

Balanced(s) == \A e \in Event : Once(s, e) /\ Noticed(s, e)

LEMMA EventNumbers ==
  ASSUME CountsInv, CountsInv', NEW s, NEW e \in Event
  PROVE  /\ audited[e] \in Nat /\ dead[e] \in Nat /\ notified[e] \in Nat
         /\ audited'[e] \in Nat /\ dead'[e] \in Nat /\ notified'[e] \in Nat
         /\ again["audit"][e] \in Nat /\ again["notification"][e] \in Nat
         /\ again'["audit"][e] \in Nat /\ again'["notification"][e] \in Nat
         /\ ToCome(s, e) \in {0, 1} /\ ToCome(s, e)' \in {0, 1}
<1>1. /\ audited[e] \in Nat /\ dead[e] \in Nat /\ notified[e] \in Nat
      /\ audited'[e] \in Nat /\ dead'[e] \in Nat /\ notified'[e] \in Nat
  BY DEF CountsInv, TypesInv, SinksOK
<1>2. /\ again["audit"][e] \in Nat /\ again["notification"][e] \in Nat
      /\ again'["audit"][e] \in Nat /\ again'["notification"][e] \in Nat
  BY DEF CountsInv, HistoryOK, Queue
<1>3. ToCome(s, e) \in {0, 1} /\ ToCome(s, e)' \in {0, 1}
  BY DEF ToCome
<1>4. QED
  BY <1>1, <1>2, <1>3

\* What is due for the relay follows what is to come.
LEMMA ComeDueNumbers ==
  ASSUME CountsInv, CountsInv', NEW s, NEW e \in Event
  PROVE  /\ ToCome(s, e) = 0 => ComeDue(s, e) = 0
         /\ ToCome(s, e) = 1 => ComeDue(s, e) = MaxRetries + 1
         /\ ToCome(s, e)' = 0 => ComeDue(s, e)' = 0
         /\ ToCome(s, e)' = 1 => ComeDue(s, e)' = MaxRetries + 1
         /\ Allowed(e) \in Nat
<1>1. \A t \in {0, 1} : /\ t = 0 => (MaxRetries + 1) * t = 0
                        /\ t = 1 => (MaxRetries + 1) * t = MaxRetries + 1
  BY Limits
<1>2. ToCome(s, e) \in {0, 1} /\ ToCome(s, e)' \in {0, 1} /\ again["audit"][e] \in Nat
  BY EventNumbers
<1>3. \A a \in Nat, n \in Nat : (1 + a) * (n + 1) \in Nat
  OBVIOUS
<1>4. Allowed(e) \in Nat
  BY <1>2, <1>3, Limits DEF Allowed
<1>5. /\ ToCome(s, e) = 0 => ComeDue(s, e) = 0
      /\ ToCome(s, e) = 1 => ComeDue(s, e) = MaxRetries + 1
  BY <1>1, <1>2 DEF ComeDue
<1>6. /\ ToCome(s, e)' = 0 => ComeDue(s, e)' = 0
      /\ ToCome(s, e)' = 1 => ComeDue(s, e)' = MaxRetries + 1
  BY <1>1, <1>2 DEF ComeDue
<1>7. QED
  BY <1>4, <1>5, <1>6

LEMMA QueueNames == "audit" \in Queue /\ "notification" \in Queue
  BY DEF Queue

LEMMA EndsBalance ==
  ASSUME CountsInv, CountsInv', NEW s, Natural(s), Natural(s)', Ends(s), NEW e \in Event,
         Once(s, e), Noticed(s, e)
  PROVE  Once(s, e)' /\ Noticed(s, e)'
<1>1. PICK m \in Msg :
        /\ SendsNothing(s) /\ Moved(s, "audit", m, -1) /\ Keeps(s, "notification")
        /\ audited'[e] + dead'[e] = audited[e] + dead[e] + IF e = m.ev THEN 1 ELSE 0
        /\ ToCome(s, e)' = ToCome(s, e) /\ UNCHANGED <<notified, again>>
  BY DEF Ends, Awaits
<1>2. /\ Outs(s, e)' = Outs(s, e) /\ OutsDue(s, e)' = OutsDue(s, e)
      /\ Outs(s, e) \in Nat /\ OutsDue(s, e) \in Nat
  BY <1>1, SendsNothingSums
<1>3. /\ Ins(s, "audit", e)' = Ins(s, "audit", e) + IF e = m.ev THEN -1 ELSE 0
      /\ InsDue(s, e)' = InsDue(s, e) + IF e = m.ev THEN (MaxRetries - m.retry) * (-1) ELSE 0
      /\ Ins(s, "audit", e) \in Nat /\ InsDue(s, e) \in Nat
  BY <1>1, MovedSums, QueueNames
<1>4. /\ Ins(s, "notification", e)' = Ins(s, "notification", e)
      /\ Ins(s, "notification", e) \in Nat
  BY <1>1, KeepsSums, QueueNames
<1>5. ComeDue(s, e)' = ComeDue(s, e) /\ Allowed(e)' = Allowed(e)
  BY <1>1 DEF ComeDue, Allowed
<1>6. Once(s, e)'
  BY <1>1, <1>2, <1>3, EventNumbers DEF Once
<1>7. InsDue(s, e)' <= InsDue(s, e) /\ InsDue(s, e)' \in Int
  <2>1. m.retry \in Nat /\ m.retry <= MaxRetries /\ MaxRetries \in Nat
    BY MessageData, Limits DEF Count
  <2>2. (MaxRetries - m.retry) * (-1) <= 0 /\ (MaxRetries - m.retry) * (-1) \in Int
    BY <2>1
  <2>3. QED
    BY <1>3, <2>2
<1>8. ComeDue(s, e) \in Nat /\ Allowed(e) \in Nat
  BY ComeDueNumbers, EventNumbers, Limits
<1>9. Noticed(s, e)'
  BY <1>1, <1>2, <1>4, <1>5, <1>7, <1>8, <1>3, EventNumbers DEF Noticed
<1>10. QED
  BY <1>6, <1>9

LEMMA NoticesBalance ==
  ASSUME CountsInv, CountsInv', NEW s, Natural(s), Natural(s)', Notices(s), NEW e \in Event,
         Once(s, e), Noticed(s, e)
  PROVE  Once(s, e)' /\ Noticed(s, e)'
<1>1. PICK m \in Msg :
        /\ SendsNothing(s) /\ Keeps(s, "audit") /\ Moved(s, "notification", m, -1)
        /\ notified'[e] = notified[e] + IF e = m.ev THEN 1 ELSE 0
        /\ ToCome(s, e)' = ToCome(s, e) /\ UNCHANGED <<dead, audited, again>>
  BY DEF Notices, Awaits
<1>2. /\ Outs(s, e)' = Outs(s, e) /\ OutsDue(s, e)' = OutsDue(s, e)
      /\ Outs(s, e) \in Nat /\ OutsDue(s, e) \in Nat
  BY <1>1, SendsNothingSums
<1>3. /\ Ins(s, "audit", e)' = Ins(s, "audit", e) /\ InsDue(s, e)' = InsDue(s, e)
      /\ Ins(s, "audit", e) \in Nat /\ InsDue(s, e) \in Nat
  BY <1>1, KeepsSums, QueueNames
<1>4. /\ Ins(s, "notification", e)' = Ins(s, "notification", e) + IF e = m.ev THEN -1 ELSE 0
      /\ Ins(s, "notification", e) \in Nat
  BY <1>1, MovedSums, QueueNames
<1>5. ComeDue(s, e)' = ComeDue(s, e) /\ Allowed(e)' = Allowed(e)
  BY <1>1 DEF ComeDue, Allowed
<1>6. Once(s, e)'
  BY <1>1, <1>2, <1>3, EventNumbers DEF Once
<1>7. notified'[e] + Ins(s, "notification", e)' = notified[e] + Ins(s, "notification", e)
  BY <1>1, <1>4, EventNumbers
<1>8. Noticed(s, e)'
  BY <1>1, <1>2, <1>3, <1>5, <1>7 DEF Noticed
<1>9. QED
  BY <1>6, <1>8

LEMMA ResendsBalance ==
  ASSUME CountsInv, CountsInv', NEW s, Natural(s), Natural(s)', Resends(s), NEW e \in Event,
         Once(s, e), Noticed(s, e)
  PROVE  Once(s, e)' /\ Noticed(s, e)'
<1>1. PICK m \in Msg :
        /\ m.retry < MaxRetries /\ Sends(s, Retried(m), 1)
        /\ Moved(s, "audit", m, -1) /\ Keeps(s, "notification")
        /\ ToCome(s, e)' = ToCome(s, e) /\ UNCHANGED <<dead, sinks, again>>
  BY DEF Resends, Awaits
<1>2. m.retry \in Nat /\ MaxRetries \in Nat
  BY MessageData, Limits DEF Count
<1>3. PICK k \in Msg : k = Retried(m) /\ k.ev = m.ev /\ k.retry = m.retry + 1
  BY <1>1, <1>2 DEF Retried, Msg
<1>4. /\ Outs(s, e)' = Outs(s, e) + IF e = k.ev THEN 1 ELSE 0
      /\ OutsDue(s, e)' = OutsDue(s, e) + IF e = k.ev THEN ((MaxRetries + 1) - k.retry) * 1 ELSE 0
      /\ Outs(s, e) \in Nat /\ OutsDue(s, e) \in Nat
  BY <1>1, <1>3, SendsSums
<1>5. /\ Ins(s, "audit", e)' = Ins(s, "audit", e) + IF e = m.ev THEN -1 ELSE 0
      /\ InsDue(s, e)' = InsDue(s, e) + IF e = m.ev THEN (MaxRetries - m.retry) * (-1) ELSE 0
      /\ Ins(s, "audit", e) \in Nat /\ InsDue(s, e) \in Nat
  BY <1>1, MovedSums, QueueNames
<1>6. /\ Ins(s, "notification", e)' = Ins(s, "notification", e)
      /\ Ins(s, "notification", e) \in Nat
  BY <1>1, KeepsSums, QueueNames
<1>7. ComeDue(s, e)' = ComeDue(s, e) /\ Allowed(e)' = Allowed(e)
  BY <1>1 DEF ComeDue, Allowed
<1>8. UNCHANGED <<audited, notified, dead, again>>
  BY <1>1 DEF sinks
<1>9. Once(s, e)'
  BY <1>1, <1>3, <1>4, <1>5, <1>8, EventNumbers DEF Once
<1>10. InsDue(s, e)' + OutsDue(s, e)' = InsDue(s, e) + OutsDue(s, e)
  <2>1. (MaxRetries - m.retry) * (-1) = -(MaxRetries - m.retry)
    BY <1>2
  <2>2. ((MaxRetries + 1) - k.retry) * 1 = MaxRetries - m.retry
    BY <1>2, <1>3
  <2>3. QED
    BY <1>2, <1>3, <1>4, <1>5, <2>1, <2>2
<1>11. /\ InsDue(s, e) \in Int /\ OutsDue(s, e) \in Int
       /\ InsDue(s, e)' \in Int /\ OutsDue(s, e)' \in Int
  BY <1>2, <1>3, <1>4, <1>5
<1>12. ComeDue(s, e) \in Nat /\ Allowed(e) \in Nat
  BY ComeDueNumbers, EventNumbers, Limits
<1>13. Noticed(s, e)'
  <2>1. notified[e] \in Nat /\ again["notification"][e] \in Nat
    BY EventNumbers
  <2>2. /\ notified'[e] = notified[e] /\ again'["notification"][e] = again["notification"][e]
    BY <1>8
  <2>3. notified'[e] + Ins(s, "notification", e)' + InsDue(s, e)' + OutsDue(s, e)' + ComeDue(s, e)'
          = notified[e] + Ins(s, "notification", e) + InsDue(s, e) + OutsDue(s, e) + ComeDue(s, e)
    BY <1>6, <1>7, <1>10, <1>11, <1>12, <2>1, <2>2
  <2>4. QED
    BY <1>6, <1>7, <2>2, <2>3 DEF Noticed
<1>14. QED
  BY <1>9, <1>13

LEMMA RoutesBalance ==
  ASSUME CountsInv, CountsInv', NEW s, Natural(s), Natural(s)', Routes(s), NEW e \in Event,
         Once(s, e), Noticed(s, e)
  PROVE  Once(s, e)' /\ Noticed(s, e)'
<1>1. PICK m \in Msg :
        /\ Sends(s, m, -1) /\ Moved(s, "audit", m, 1)
        /\ Moved(s, "notification", m, IF m.ev \in Notifies THEN 1 ELSE 0)
        /\ ToCome(s, e)' = ToCome(s, e) /\ UNCHANGED <<dead, sinks, again>>
  BY DEF Routes, Awaits
<1>2. m.retry \in Nat /\ MaxRetries \in Nat
  BY MessageData, Limits DEF Count
<1>3. PICK n \in Int : n = IF m.ev \in Notifies THEN 1 ELSE 0
  OBVIOUS
<1>4. /\ Outs(s, e)' = Outs(s, e) + IF e = m.ev THEN -1 ELSE 0
      /\ OutsDue(s, e)' = OutsDue(s, e) + IF e = m.ev THEN ((MaxRetries + 1) - m.retry) * (-1) ELSE 0
      /\ Outs(s, e) \in Nat /\ OutsDue(s, e) \in Nat
  BY <1>1, SendsSums
<1>5. /\ Ins(s, "audit", e)' = Ins(s, "audit", e) + IF e = m.ev THEN 1 ELSE 0
      /\ InsDue(s, e)' = InsDue(s, e) + IF e = m.ev THEN (MaxRetries - m.retry) * 1 ELSE 0
      /\ Ins(s, "audit", e) \in Nat /\ InsDue(s, e) \in Nat
  BY <1>1, MovedSums, QueueNames
<1>6. /\ Ins(s, "notification", e)' = Ins(s, "notification", e) + IF e = m.ev THEN n ELSE 0
      /\ Ins(s, "notification", e) \in Nat
  BY <1>1, <1>3, MovedSums, QueueNames
<1>7. ComeDue(s, e)' = ComeDue(s, e) /\ Allowed(e)' = Allowed(e)
  BY <1>1 DEF ComeDue, Allowed
<1>8. UNCHANGED <<audited, notified, dead, again>>
  BY <1>1 DEF sinks
<1>9. Once(s, e)'
  BY <1>1, <1>4, <1>5, <1>8, EventNumbers DEF Once
<1>10. /\ (MaxRetries - m.retry) * 1 = MaxRetries - m.retry
       /\ ((MaxRetries + 1) - m.retry) * (-1) = -((MaxRetries - m.retry) + 1)
  BY <1>2
<1>11. /\ InsDue(s, e) \in Int /\ OutsDue(s, e) \in Int
       /\ InsDue(s, e)' \in Int /\ OutsDue(s, e)' \in Int
       /\ Ins(s, "notification", e) \in Int /\ Ins(s, "notification", e)' \in Int
  BY <1>2, <1>3, <1>4, <1>5, <1>6
<1>12. ComeDue(s, e) \in Nat /\ Allowed(e) \in Nat
  BY ComeDueNumbers, EventNumbers, Limits
<1>13. CASE e \in Notifies
  <2>1. Ins(s, "notification", e)' + InsDue(s, e)' + OutsDue(s, e)'
          = Ins(s, "notification", e) + InsDue(s, e) + OutsDue(s, e)
    BY <1>2, <1>3, <1>4, <1>5, <1>6, <1>10, <1>13
  <2>2. notified[e] \in Nat /\ again["notification"][e] \in Nat
    BY EventNumbers
  <2>3. /\ notified'[e] = notified[e] /\ again'["notification"][e] = again["notification"][e]
    BY <1>8
  <2>4. notified'[e] + Ins(s, "notification", e)' + InsDue(s, e)' + OutsDue(s, e)' + ComeDue(s, e)'
          = notified[e] + Ins(s, "notification", e) + InsDue(s, e) + OutsDue(s, e) + ComeDue(s, e)
    BY <1>7, <1>11, <1>12, <2>1, <2>2, <2>3
  <2>5. QED
    BY <1>7, <1>9, <1>13, <2>3, <2>4 DEF Noticed
<1>14. CASE e \notin Notifies
  <2>1. Ins(s, "notification", e)' = Ins(s, "notification", e)
    BY <1>3, <1>6, <1>14
  <2>2. QED
    BY <1>8, <1>9, <1>14, <2>1 DEF Noticed
<1>15. QED
  BY <1>9, <1>13, <1>14

LEMMA StartsBalance ==
  ASSUME CountsInv, CountsInv', NEW s, Natural(s), Natural(s)', Starts(s), NEW e \in Event,
         Once(s, e), Noticed(s, e)
  PROVE  Once(s, e)' /\ Noticed(s, e)'
<1>1. PICK d \in Event :
        /\ Sends(s, Message(d, 0), 1) /\ Keeps(s, "audit") /\ Keeps(s, "notification")
        /\ ToCome(s, e)' = ToCome(s, e) - IF e = d THEN 1 ELSE 0
        /\ UNCHANGED <<dead, sinks, again>>
  BY DEF Starts
<1>2. PICK m \in Msg : m = Message(d, 0) /\ m.ev = d /\ m.retry = 0
  BY MessageData, Limits DEF Count
<1>3. MaxRetries \in Nat /\ ((MaxRetries + 1) - m.retry) * 1 = MaxRetries + 1
  BY <1>2, Limits
<1>4. /\ Outs(s, e)' = Outs(s, e) + IF e = d THEN 1 ELSE 0
      /\ OutsDue(s, e)' = OutsDue(s, e) + IF e = d THEN ((MaxRetries + 1) - m.retry) * 1 ELSE 0
      /\ Outs(s, e) \in Nat /\ OutsDue(s, e) \in Nat
  BY <1>1, <1>2, SendsSums
<1>5. OutsDue(s, e)' = OutsDue(s, e) + IF e = d THEN MaxRetries + 1 ELSE 0
  BY <1>3, <1>4
<1>6. /\ Ins(s, "audit", e)' = Ins(s, "audit", e) /\ InsDue(s, e)' = InsDue(s, e)
      /\ Ins(s, "audit", e) \in Nat /\ InsDue(s, e) \in Nat
  BY <1>1, KeepsSums, QueueNames
<1>7. /\ Ins(s, "notification", e)' = Ins(s, "notification", e)
      /\ Ins(s, "notification", e) \in Nat
  BY <1>1, KeepsSums, QueueNames
<1>8. UNCHANGED <<audited, notified, dead, again>>
  BY <1>1 DEF sinks
<1>9. Allowed(e)' = Allowed(e)
  BY <1>8 DEF Allowed
<1>10. Once(s, e)'
  BY <1>1, <1>4, <1>6, <1>8, EventNumbers DEF Once
<1>11. /\ OutsDue(s, e)' + ComeDue(s, e)' = OutsDue(s, e) + ComeDue(s, e)
       /\ ComeDue(s, e) \in Nat /\ ComeDue(s, e)' \in Nat /\ OutsDue(s, e)' \in Nat
  <2>1. ToCome(s, e) \in {0, 1} /\ ToCome(s, e)' \in {0, 1}
    BY EventNumbers
  <2>2. /\ ToCome(s, e) = 0 => ComeDue(s, e) = 0
        /\ ToCome(s, e) = 1 => ComeDue(s, e) = MaxRetries + 1
        /\ ToCome(s, e)' = 0 => ComeDue(s, e)' = 0
        /\ ToCome(s, e)' = 1 => ComeDue(s, e)' = MaxRetries + 1
    BY ComeDueNumbers
  <2>3. OutsDue(s, e) \in Nat
    BY <1>4
  <2>4. CASE e = d
    BY <1>1, <1>3, <1>5, <2>1, <2>2, <2>3, <2>4
  <2>5. CASE e # d
    BY <1>1, <1>3, <1>5, <2>1, <2>2, <2>3, <2>5
  <2>6. QED
    BY <2>4, <2>5
<1>12. Noticed(s, e)'
  <2>1. notified[e] \in Nat /\ again["notification"][e] \in Nat /\ OutsDue(s, e) \in Nat
    BY <1>4, EventNumbers
  <2>2. /\ notified'[e] = notified[e] /\ again'["notification"][e] = again["notification"][e]
    BY <1>8
  <2>3. notified'[e] + Ins(s, "notification", e)' + InsDue(s, e)' + OutsDue(s, e)' + ComeDue(s, e)'
          = notified[e] + Ins(s, "notification", e) + InsDue(s, e) + OutsDue(s, e) + ComeDue(s, e)
    BY <1>6, <1>7, <1>11, <2>1, <2>2
  <2>4. QED
    BY <1>7, <1>9, <2>2, <2>3 DEF Noticed
<1>13. QED
  BY <1>10, <1>12

\* n copies more in audit.queue, for which the relay or `again` pays.
LEMMA PaidFor ==
  ASSUME NEW a \in Nat, NEW b \in Nat, NEW x \in Nat, NEW y \in Nat, NEW n \in Nat, NEW M \in Nat,
         y + a + n <= x + b
  PROVE  M * n + (M + 1) * y + (1 + a) * (M + 1) <= (M + 1) * x + (1 + b) * (M + 1)
<1>1. PICK d \in Nat : x + b = y + a + n + d
  <2>1. (x + b) - (y + a + n) \in Nat
    OBVIOUS
  <2>2. x + b = y + a + n + ((x + b) - (y + a + n))
    OBVIOUS
  <2>3. QED
    BY <2>1, <2>2
<1>2. (M + 1) * x + (1 + b) * (M + 1) = (M + 1) * (1 + x + b)
  OBVIOUS
<1>3. (M + 1) * (1 + x + b) = (M + 1) * (1 + y + a + n + d)
  BY <1>1
<1>4. (M + 1) * (1 + y + a + n + d)
        = M * n + (M + 1) * y + (1 + a) * (M + 1) + n + (M + 1) * d
  OBVIOUS
<1>5. n + (M + 1) * d \in Nat
  OBVIOUS
<1>6. M * n + (M + 1) * y + (1 + a) * (M + 1) \in Nat
  OBVIOUS
<1>7. QED
  BY <1>2, <1>3, <1>4, <1>5, <1>6

LEMMA ThinsBalance ==
  ASSUME CountsInv, CountsInv', NEW s, Natural(s), Natural(s)', Thins(s), NEW e \in Event,
         Once(s, e), Noticed(s, e)
  PROVE  Once(s, e)' /\ Noticed(s, e)'
<1>1. PICK u \in [Slot -> Nat] :
        /\ \A q \in Queue, k \in Msg : Copies(s, q, k)' <= Copies(s, q, k) + u[<<q, k>>]
        /\ ToCome(s, e)' + again["audit"][e] + Total(u, "audit", e) <= ToCome(s, e) + again'["audit"][e]
        /\ again["notification"][e] + Total(u, "notification", e) <= again'["notification"][e]
  BY DEF Thins
<1>2. /\ \A k \in Msg : Pubs(s, k)' <= Pubs(s, k)
      /\ dead'[e] <= dead[e] /\ audited' = audited /\ notified' = notified
  BY DEF Thins, sinks
<1>3. PICK n, k : n = Total(u, "audit", e) /\ k = Total(u, "notification", e)
  OBVIOUS
<1>4. n \in Nat /\ k \in Nat
  BY <1>3, TotalIsSum, QueueNames
<1>5. /\ Outs(s, e)' <= Outs(s, e) /\ OutsDue(s, e)' <= OutsDue(s, e)
      /\ \A q \in Queue : Ins(s, q, e)' <= Ins(s, q, e) + Total(u, q, e)
      /\ InsDue(s, e)' <= InsDue(s, e) + MaxRetries * Total(u, "audit", e)
      /\ Outs(s, e) \in Nat /\ OutsDue(s, e) \in Nat /\ Outs(s, e)' \in Nat /\ OutsDue(s, e)' \in Nat
      /\ \A q \in Queue : Ins(s, q, e) \in Nat /\ Ins(s, q, e)' \in Nat
      /\ InsDue(s, e) \in Nat /\ InsDue(s, e)' \in Nat
  BY <1>1, <1>2, ThinsSums
<1>6. /\ Ins(s, "audit", e)' <= Ins(s, "audit", e) + n
      /\ Ins(s, "notification", e)' <= Ins(s, "notification", e) + k
      /\ Ins(s, "audit", e) \in Nat /\ Ins(s, "audit", e)' \in Nat
      /\ Ins(s, "notification", e) \in Nat /\ Ins(s, "notification", e)' \in Nat
  BY <1>3, <1>5, QueueNames
<1>7. InsDue(s, e)' <= InsDue(s, e) + MaxRetries * n
  BY <1>3, <1>5
<1>8. /\ audited[e] \in Nat /\ dead[e] \in Nat /\ notified[e] \in Nat /\ dead'[e] \in Nat
      /\ again["audit"][e] \in Nat /\ again["notification"][e] \in Nat
      /\ again'["audit"][e] \in Nat /\ again'["notification"][e] \in Nat
      /\ ToCome(s, e) \in {0, 1} /\ ToCome(s, e)' \in {0, 1}
  BY EventNumbers
<1>9. Once(s, e)'
  <2>1. /\ ToCome(s, e)' + again["audit"][e] + n <= ToCome(s, e) + again'["audit"][e]
        /\ audited'[e] = audited[e] /\ dead'[e] <= dead[e]
        /\ Outs(s, e)' <= Outs(s, e) /\ Outs(s, e) \in Nat /\ Outs(s, e)' \in Nat
    BY <1>1, <1>2, <1>3, <1>5
  <2>2. QED
    BY <1>4, <1>6, <1>8, <2>1 DEF Once
<1>10. CASE e \notin Notifies
  <2>1. again["notification"][e] + k <= again'["notification"][e] /\ notified'[e] = notified[e]
    BY <1>1, <1>2, <1>3
  <2>2. QED
    BY <1>4, <1>6, <1>8, <1>9, <1>10, <2>1 DEF Noticed
<1>11. CASE e \in Notifies
  <2>1. again["notification"][e] + k <= again'["notification"][e] /\ notified'[e] = notified[e]
    BY <1>1, <1>2, <1>3
  <2>2. MaxRetries * n + (MaxRetries + 1) * ToCome(s, e)' + (1 + again["audit"][e]) * (MaxRetries + 1)
          <= (MaxRetries + 1) * ToCome(s, e) + (1 + again'["audit"][e]) * (MaxRetries + 1)
    <3>1. ToCome(s, e)' + again["audit"][e] + n <= ToCome(s, e) + again'["audit"][e]
      BY <1>1, <1>3
    <3>2. ToCome(s, e) \in Nat /\ ToCome(s, e)' \in Nat
      BY <1>8
    <3>3. QED
      BY <1>4, <1>8, <3>1, <3>2, PaidFor, Limits
  <2>3. PICK w \in Nat : w = MaxRetries * n
    BY <1>4, Limits
  <2>4. w + ComeDue(s, e)' + Allowed(e) <= ComeDue(s, e) + Allowed(e)'
    BY <2>2, <2>3 DEF ComeDue, Allowed
  <2>5. ComeDue(s, e) \in Nat /\ ComeDue(s, e)' \in Nat /\ Allowed(e) \in Nat /\ Allowed(e)' \in Nat
    <3>1. \A x \in Nat, y \in Nat : x * y \in Nat
      OBVIOUS
    <3>2. /\ ToCome(s, e) \in Nat /\ ToCome(s, e)' \in Nat
          /\ 1 + again["audit"][e] \in Nat /\ 1 + again'["audit"][e] \in Nat
      BY <1>8
    <3>3. QED
      BY <3>1, <3>2, Limits DEF ComeDue, Allowed
  <2>6. InsDue(s, e)' <= InsDue(s, e) + w /\ InsDue(s, e) \in Nat /\ InsDue(s, e)' \in Nat
    BY <1>5, <1>7, <2>3
  <2>7. OutsDue(s, e)' <= OutsDue(s, e) /\ OutsDue(s, e) \in Nat /\ OutsDue(s, e)' \in Nat
    BY <1>5
  <2>8. notified[e] + Ins(s, "notification", e) + InsDue(s, e) + OutsDue(s, e) + ComeDue(s, e)
          <= again["notification"][e] + Allowed(e)
    BY <1>11 DEF Noticed
  <2>9. notified'[e] + Ins(s, "notification", e)' + InsDue(s, e)' + OutsDue(s, e)' + ComeDue(s, e)'
          <= again'["notification"][e] + Allowed(e)'
    BY <1>4, <1>6, <1>8, <2>1, <2>4, <2>5, <2>6, <2>7, <2>8
  <2>10. QED
    BY <1>9, <1>11, <2>9 DEF Noticed
<1>12. QED
  BY <1>10, <1>11

\* One row per event and one line per notification, up to what `again` allows.
LEMMA NextBalanced ==
  ASSUME CountsInv, CountsInv', NEW s \in Server, Natural(s), Natural(s)', Server = {s},
         BatchOK(s), NoNacks(s), Balanced(s), [Next]_vars
  PROVE  Balanced(s)'
<1>1. Ledger(s)
  BY NextLedger
<1>2. ASSUME NEW e \in Event
      PROVE  Once(s, e)' /\ Noticed(s, e)'
  <2>1. Once(s, e) /\ Noticed(s, e)
    BY DEF Balanced
  <2>2. QED
    BY <1>1, <2>1, ThinsBalance, StartsBalance, RoutesBalance, ResendsBalance, EndsBalance, NoticesBalance
       DEF Ledger
<1>3. QED
  BY <1>2 DEF Balanced

LEMMA InitBalanced ==
  ASSUME Init, NEW s \in Server
  PROVE  Natural(s) /\ BatchOK(s) /\ NoNacks(s) /\ Balanced(s)
<1>1. /\ s \in connected /\ wire[s] = << >> /\ ready = Empty /\ unacked[s] = Empty
      /\ \A q \in Queue : consumer[s][q].pc = "wait"
      /\ relay[s].pc = "wait"
      /\ \A e \in Event : /\ status[e] = "none" /\ dead[e] = 0 /\ audited[e] = 0 /\ notified[e] = 0
                          /\ again["audit"][e] = 0 /\ again["notification"][e] = 0
  BY DEF Init, Wait, Queue
<1>2. \A k \in Msg : Pubs(s, k) = 0
  BY <1>1, TimesNothing DEF Pubs
<1>3. \A q \in Queue, k \in Msg : Copies(s, q, k) = 0
  <2>1. ASSUME NEW q \in Queue, NEW k \in Msg
        PROVE  Copies(s, q, k) = 0
    <3>1. ready[<<q, k>>] = 0 /\ unacked[s][<<q, k>>] = 0
      BY <1>1, MessageData DEF Empty
    <3>2. Times(wire[s], AckOf(<<q, k>>)) = 0
      BY <1>1, TimesNothing
    <3>3. At(s, q, "ack", k) = 0
      BY <1>1 DEF At
    <3>4. Open(s, q, k) = 0 - 0 - 0
      BY <1>1, <3>1, <3>2, <3>3, OpenUnfolds
    <3>5. QED
      BY <3>1, <3>4 DEF Copies
  <2>2. QED
    BY <2>1
<1>4. Natural(s)
  BY <1>2, <1>3 DEF Natural
<1>5. BatchOK(s) /\ NoNacks(s)
  BY <1>1, QueueNames DEF BatchOK, NoNacks
<1>6. ASSUME NEW e \in Event
      PROVE  Once(s, e) /\ Noticed(s, e)
  <2>1. Flying(s, e) = Nothing
    BY <1>2, MessageData DEF Flying, Nothing
  <2>2. \A q \in Queue : Held(s, q, e) = Nothing
    BY <1>3, MessageData DEF Held, Nothing
  <2>3. \A n \in Nat : Weighted(Nothing, n) = Nothing
    BY Limits DEF Weighted, Nothing, Count
  <2>4. Outs(s, e) = 0 /\ OutsDue(s, e) = 0
    BY <2>1, <2>3, SumNothing, Limits DEF Outs, OutsDue
  <2>5. Ins(s, "audit", e) = 0 /\ Ins(s, "notification", e) = 0 /\ InsDue(s, e) = 0
    BY <2>2, <2>3, SumNothing, QueueNames, Limits DEF Ins, InsDue
  <2>6. ToCome(s, e) = 1
    BY <1>1 DEF ToCome
  <2>7. ComeDue(s, e) = MaxRetries + 1 /\ Allowed(e) = MaxRetries + 1
    <3>1. (MaxRetries + 1) * 1 = MaxRetries + 1 /\ (1 + 0) * (MaxRetries + 1) = MaxRetries + 1
      BY Limits
    <3>2. QED
      BY <1>1, <2>6, <3>1 DEF ComeDue, Allowed
  <2>8. Once(s, e)
    BY <1>1, <2>4, <2>5, <2>6 DEF Once
  <2>9. Noticed(s, e)
    BY <1>1, <2>4, <2>5, <2>7, Limits DEF Noticed
  <2>10. QED
    BY <2>8, <2>9
<1>7. QED
  BY <1>4, <1>5, <1>6 DEF Balanced

OnceInv(s) == BatchOK(s) /\ NoNacks(s) /\ Balanced(s)

LEMMA OneReplica ==
  ASSUME NEW s, Server = {s}
  PROVE  Spec => [](CountsInv /\ Natural(s) /\ OnceInv(s))
<1>1. s \in Server
  OBVIOUS
<1>2. Init => CountsInv /\ OnceInv(s)
  BY <1>1, InitCounts, InitBalanced DEF OnceInv
<1>3. CountsInv => Natural(s)
  BY <1>1, CopiesNatural
<1>4. CountsInv /\ [Next]_vars => CountsInv'
  BY NextCounts
<1>5. ASSUME CountsInv, CountsInv', Natural(s), Natural(s)', OnceInv(s), [Next]_vars
      PROVE  OnceInv(s)'
  <2>1. TypesInv /\ BatchOK(s) /\ NoNacks(s) /\ Balanced(s)
    BY <1>5 DEF CountsInv, OnceInv
  <2>2. BatchOK(s)'
    BY <1>1, <1>5, <2>1, NextBatch
  <2>3. NoNacks(s)'
    BY <1>1, <1>5, <2>1, NextNoNacks
  <2>4. Balanced(s)'
    BY <1>1, <1>5, <2>1, NextBalanced
  <2>5. QED
    BY <2>2, <2>3, <2>4 DEF OnceInv
<1>6. QED
  BY <1>2, <1>3, <1>4, <1>5, PTL DEF Spec

\* With one replica, whatever breaks or restarts: an event ends once, in one
\* row or in one dead letter, but for the publishes that were not marked and
\* the deliveries that came back.
\* (Relay.relayBatch, rabbitmq.Consume, audit.Consumer.Handle)
THEOREM PipelineSettlesOnce ==
  ASSUME NEW s, Server = {s}
  PROVE  Spec => []SettledOnce
<1>1. s \in Server
  OBVIOUS
<1>2. CountsInv /\ Natural(s) /\ OnceInv(s) => SettledOnce
  <2>1. ASSUME CountsInv, Natural(s), OnceInv(s), NEW e \in Event
        PROVE  audited[e] + dead[e] <= 1 + again["audit"][e]
    <3>1. /\ audited[e] \in Nat /\ dead[e] \in Nat /\ again["audit"][e] \in Nat
          /\ ToCome(s, e) \in {0, 1}
      BY <2>1, QueueNames, ToComeType DEF CountsInv, TypesInv, SinksOK, HistoryOK
    <3>2. Outs(s, e) \in Nat /\ Ins(s, "audit", e) \in Nat
      BY <2>1, SumsNatural, QueueNames
    <3>3. Once(s, e)
      BY <2>1 DEF OnceInv, Balanced
    <3>4. QED
      BY <3>1, <3>2, <3>3 DEF Once
  <2>2. QED
    BY <2>1 DEF SettledOnce
<1>3. QED
  BY <1>2, OneReplica, PTL

\* With one replica, whatever breaks or restarts, a message for audit.queue
\* causes a notification when it is published and at each of its retries, and
\* no other; events not bound to notification.queue cause none.
\* (rabbitmq.Consume republishes to the exchange, at most maxRetries times.)
THEOREM PipelineBoundsNotifications ==
  ASSUME NEW s, Server = {s}
  PROVE  Spec => []NotificationsBounded
<1>1. s \in Server
  OBVIOUS
<1>2. CountsInv /\ Natural(s) /\ OnceInv(s) => NotificationsBounded
  <2>1. ASSUME CountsInv, Natural(s), OnceInv(s), NEW e \in Event
        PROVE  notified[e] <= again["notification"][e]
                  + IF e \in Notifies THEN (1 + again["audit"][e]) * (1 + MaxRetries) ELSE 0
    <3>1. /\ notified[e] \in Nat /\ again["notification"][e] \in Nat /\ again["audit"][e] \in Nat
          /\ ToCome(s, e) \in {0, 1}
      BY <2>1, QueueNames, ToComeType DEF CountsInv, TypesInv, SinksOK, HistoryOK
    <3>2. /\ Ins(s, "notification", e) \in Nat /\ InsDue(s, e) \in Nat /\ OutsDue(s, e) \in Nat
      BY <2>1, SumsNatural, QueueNames
    <3>3. Noticed(s, e)
      BY <2>1 DEF OnceInv, Balanced
    <3>4. ComeDue(s, e) \in Nat
      <4>1. \A x \in Nat, y \in {0, 1} : x * y \in Nat
        OBVIOUS
      <4>2. QED
        BY <3>1, <4>1, Limits DEF ComeDue
    <3>5. PICK a \in Nat : a = Allowed(e) /\ a = (1 + again["audit"][e]) * (1 + MaxRetries)
      <4>1. \A x \in Nat, y \in Nat : (1 + x) * (y + 1) \in Nat /\ (1 + x) * (y + 1) = (1 + x) * (1 + y)
        OBVIOUS
      <4>2. QED
        BY <3>1, <4>1, Limits DEF Allowed
    <3>6. e \in Notifies => notified[e] <= again["notification"][e] + a
      BY <3>1, <3>2, <3>3, <3>4, <3>5 DEF Noticed
    <3>7. e \notin Notifies => notified[e] <= again["notification"][e]
      BY <3>1, <3>2, <3>3 DEF Noticed
    <3>8. QED
      BY <3>1, <3>5, <3>6, <3>7
  <2>2. QED
    BY <2>1 DEF NotificationsBounded
<1>3. QED
  BY <1>2, OneReplica, PTL
=============================================================================
