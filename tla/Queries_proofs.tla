---------------------------- MODULE Queries_proofs ----------------------------
(***************************************************************************)
(* Proofs about Queries for any documents, requests, windows and limits:   *)
(* the counting that the answers rest on, then what each answer says of    *)
(* the documents its scan saw, then that nothing disturbs an answer.       *)
(***************************************************************************)
EXTENDS Queries, Induction_proofs, SequenceTheorems

-----------------------------------------------------------------------------
(* Counting                                                                *)

(* As many different elements as there are leave none out. *)
LEMMA OrderIsComplete ==
    ASSUME NEW S, IsFiniteSet(S), NEW key, NEW s \in Orders(S, key)
    PROVE  /\ s \in Seq(S)
           /\ Len(s) = Cardinality(S)
           /\ Cardinality(S) \in Nat
           /\ \A i, j \in 1 .. Cardinality(S) : s[i] = s[j] => i = j
           /\ \A x \in S : \E i \in 1 .. Cardinality(S) : s[i] = x
<1> DEFINE n == Cardinality(S)
<1>1. n \in Nat
  BY FS_CardinalityType
<1> HIDE DEF n
<1>2. s \in [1 .. n -> S] /\ \A i, j \in 1 .. n : s[i] = s[j] => i = j
  BY <1>1 DEF n, Orders
<1>3. s \in Injection(1 .. n, S)
  BY <1>2 DEF Injection, IsInjective
<1>4. IsFiniteSet(1 .. n) /\ Cardinality(1 .. n) = n
  BY <1>1, FS_Interval
<1>5. s \in Surjection(1 .. n, S)
  BY <1>3, <1>4, FS_Injection DEF n
<1>6. s \in Seq(S) /\ Len(s) = n
  BY <1>1, <1>2
<1> QED
  BY <1>1, <1>2, <1>5, <1>6 DEF n, Surjection

LEMMA FirstOfProperties ==
    ASSUME NEW S, NEW s \in Seq(S), NEW n \in Nat
    PROVE  /\ FirstOf(s, n) \in Seq(S)
           /\ Len(FirstOf(s, n)) = Least(Len(s), n)
           /\ Least(Len(s), n) \in 0 .. Len(s)
           /\ \A i \in 1 .. Least(Len(s), n) : FirstOf(s, n)[i] = s[i]
<1>1. Len(s) \in Nat /\ \A i \in 1 .. Len(s) : s[i] \in S
  BY LenProperties
<1> DEFINE k == Least(Len(s), n)
<1>2. k \in 0 .. Len(s)
  BY <1>1 DEF Least
<1> HIDE DEF k
<1>3. \A i \in 1 .. k : s[i] \in S
  BY <1>1, <1>2
<1>4. /\ SubSeq(s, 1, k) \in Seq(S)
      /\ Len(SubSeq(s, 1, k)) = IF 1 <= k THEN k - 1 + 1 ELSE 0
      /\ \A i \in 1 .. k - 1 + 1 : SubSeq(s, 1, k)[i] = s[1 + i - 1]
  BY <1>2, <1>3, SubSeqProperties
<1>5. Len(SubSeq(s, 1, k)) = k /\ \A i \in 1 .. k : SubSeq(s, 1, k)[i] = s[i]
  BY <1>2, <1>4
<1> QED
  BY <1>2, <1>4, <1>5 DEF k, FirstOf

(* The sizes of sets that have nothing in common add up to the size of     *)
(* what they hold together.                                                *)
LEMMA SizesAddUp ==
    ASSUME NEW D, IsFiniteSet(D), NEW S, IsFiniteSet(S), NEW C \in [D -> SUBSET S],
           \A i, j \in D : i # j => C[i] \cap C[j] = {}
    PROVE  SumFunction([i \in D |-> Cardinality(C[i])]) = Cardinality(UNION {C[i] : i \in D})
<1> DEFINE f == [i \in D |-> Cardinality(C[i])]
           P == Partial(f)
           Together(T) == UNION {C[i] : i \in T}
<1>1. \A T \in SUBSET S : IsFiniteSet(T) /\ Cardinality(T) \in Nat
  BY FS_Subset, FS_CardinalityType
<1>2. f \in [D -> Nat]
  BY <1>1
<1>3. SumsUp(D, f) /\ SumFunction(f) = P[D]
  BY <1>2, PartialSums, SumIsPartial
<1>4. P[{}] = 0 /\ \A T \in SUBSET D : \A i \in T : P[T] = Cardinality(C[i]) + P[T \ {i}]
  BY <1>3 DEF SumsUp
<1> HIDE DEF P
<1> DEFINE F == {T \in SUBSET D : P[T] = Cardinality(Together(T))}
<1>5. ASSUME NEW T \in SUBSET D, \A i \in T : T \ {i} \in F
      PROVE  T \in F
  <2>1. CASE T = {}
    BY <1>4, <2>1, FS_EmptySet
  <2>2. CASE T # {}
    <3>1. PICK i \in T : TRUE
      BY <2>2
    <3>2. P[T] = Cardinality(C[i]) + Cardinality(Together(T \ {i}))
      BY <1>4, <1>5
    <3> DEFINE all == Together(T)
               others == Together(T \ {i})
    <3>3. all = C[i] \cup others /\ C[i] \cap others = {}
      OBVIOUS
    <3>4. C[i] \in SUBSET S /\ others \in SUBSET S
      OBVIOUS
    <3> HIDE DEF all, others
    <3>5. IsFiniteSet(C[i]) /\ IsFiniteSet(others)
      BY <1>1, <3>4
    <3>6. Cardinality(C[i] \cup others) =
            Cardinality(C[i]) + Cardinality(others) - Cardinality(C[i] \cap others)
      BY <3>5, FS_Union
    <3>7. Cardinality(C[i] \cap others) = 0
      BY <3>3, FS_EmptySet
    <3>8. Cardinality(C[i]) \in Nat /\ Cardinality(others) \in Nat
      BY <1>1, <3>4
    <3>9. Cardinality(all) = Cardinality(C[i]) + Cardinality(others)
      BY <3>3, <3>6, <3>7, <3>8
    <3> QED
      BY <3>2, <3>9 DEF all, others
  <2> QED
    BY <2>1, <2>2
<1>6. SUBSET D \subseteq F
  <2> HIDE DEF F
  <2> QED
    BY <1>5, SetInduction
<1>7. P[D] = Cardinality(Together(D))
  BY <1>6
<1> QED
  BY <1>3, <1>7

-----------------------------------------------------------------------------
(* Pages                                                                   *)

(* A longer window of documents selects no fewer of them. *)
LEMMA Selection ==
    ASSUME NEW A, NEW B, A \subseteq B
    PROVE  Selected(A) \subseteq Selected(B) /\ Selected(B) \subseteq B
BY DEF Selected

(* The state while an answer is worked out. *)
Settled ==
    /\ asked \in Requests
    /\ IsFiniteSet(db) /\ db \subseteq Docs /\ before \subseteq db

(* What a scan saw is as much as the database had when it began, and no    *)
(* more than it has.                                                       *)
LEMMA SeenIsBetween ==
    ASSUME Settled, NEW S \in Seen
    PROVE  /\ Selected(before) \subseteq Selected(S)
           /\ Selected(S) \subseteq Selected(db) /\ Selected(db) \subseteq Docs
           /\ IsFiniteSet(Selected(before)) /\ IsFiniteSet(Selected(S))
           /\ IsFiniteSet(Selected(db))
           /\ \A d \in Selected(db) : Doc[d].time \in Int
<1>1. before \subseteq S /\ S \subseteq db
  BY DEF Seen
<1>2. /\ Selected(before) \subseteq Selected(S) /\ Selected(S) \subseteq Selected(db)
      /\ Selected(db) \subseteq db
  BY <1>1, Selection
<1>3. /\ IsFiniteSet(Selected(before)) /\ IsFiniteSet(Selected(S))
      /\ IsFiniteSet(Selected(db))
  BY <1>2, FS_Subset DEF Settled
<1>4. \A d \in Selected(db) : d \in Docs /\ Doc[d].time \in Int
  BY <1>2, QueriesAssumption DEF Settled
<1> QED
  BY <1>2, <1>3, <1>4

LEMMA LimitType ==
    ASSUME NEW r \in Requests
    PROVE  Limit(r.limit) \in Nat \ {0}
BY QueriesAssumption DEF Limit

LEMMA PageAnswer ==
    ASSUME Settled, NEW S \in Seen, NEW page \in Pages(S)
    PROVE  Newest(page)
<1> DEFINE D == Selected(S)
           n == Limit(asked.limit)
<1>1. /\ IsFiniteSet(D) /\ Selected(before) \subseteq D
      /\ \A d \in D : d \in Docs /\ Doc[d].time \in Int
  BY SeenIsBetween
<1>2. n \in Nat \ {0}
  BY LimitType DEF Settled
<1>3. PICK s \in Orders(D, NewestFirst) : page = FirstOf(s, n)
  BY DEF Pages
<1> HIDE DEF D, n
<1>4. /\ \A i \in 1 .. Cardinality(D) : s[i] \in D
      /\ \A i, j \in 1 .. Cardinality(D) : i < j => NewestFirst[s[i]] <= NewestFirst[s[j]]
  BY DEF Orders
<1>5. /\ s \in Seq(D) /\ Len(s) = Cardinality(D) /\ Cardinality(D) \in Nat
      /\ \A x \in D : \E i \in 1 .. Cardinality(D) : s[i] = x
  BY <1>1, OrderIsComplete
<1>6. \A i, j \in 1 .. Cardinality(D) : i <= j => Doc[s[i]].time >= Doc[s[j]].time
  <2> SUFFICES ASSUME NEW i \in 1 .. Cardinality(D), NEW j \in 1 .. Cardinality(D), i <= j
               PROVE  Doc[s[i]].time >= Doc[s[j]].time
    OBVIOUS
  <2>1. Doc[s[i]].time \in Int /\ Doc[s[j]].time \in Int
    BY <1>1, <1>4
  <2>2. CASE i = j
    BY <2>1, <2>2
  <2>3. CASE i < j
    <3>1. s[i] \in Docs /\ s[j] \in Docs
      BY <1>1, <1>4
    <3>2. -Doc[s[i]].time <= -Doc[s[j]].time
      BY <1>4, <2>3, <3>1 DEF NewestFirst
    <3> QED
      BY <2>1, <3>2
  <2> QED
    BY <2>2, <2>3
<1>7. /\ page \in Seq(D) /\ Len(page) = Least(Len(s), n)
      /\ Len(page) \in 0 .. Len(s)
      /\ \A i \in 1 .. Len(page) : page[i] = s[i]
  BY <1>2, <1>3, <1>5, FirstOfProperties
<1>8. \A i \in 2 .. Len(page) : Doc[page[i - 1]].time >= Doc[page[i]].time
  <2> SUFFICES ASSUME NEW i \in 2 .. Len(page)
               PROVE  Doc[page[i - 1]].time >= Doc[page[i]].time
    OBVIOUS
  <2>1. i - 1 \in 1 .. Len(page) /\ i \in 1 .. Len(page) /\ i - 1 <= i
    BY <1>5, <1>7
  <2>2. i - 1 \in 1 .. Cardinality(D) /\ i \in 1 .. Cardinality(D)
    BY <1>5, <1>7, <2>1
  <2> QED
    BY <1>6, <1>7, <2>1, <2>2
<1>9. ASSUME NEW d \in Selected(before) \ Range(page)
      PROVE  Len(page) = n /\ Doc[d].time <= Doc[page[Len(page)]].time
  <2>1. PICK k \in 1 .. Cardinality(D) : s[k] = d
    BY <1>1, <1>5
  <2>2. k \notin 1 .. Len(page)
    BY <1>7, <1>9, <2>1, LenProperties DEF Range
  <2>3. Len(page) = n /\ Len(page) \in 1 .. Cardinality(D) /\ Len(page) <= k
    BY <1>2, <1>5, <1>7, <2>1, <2>2 DEF Least
  <2>4. page[Len(page)] = s[Len(page)]
    BY <1>7, <2>3
  <2>5. Doc[s[Len(page)]].time >= Doc[s[k]].time
    BY <1>6, <2>1, <2>3
  <2>6. Doc[s[Len(page)]].time \in Int /\ Doc[s[k]].time \in Int
    BY <1>1, <1>4, <2>1, <2>3
  <2> QED
    BY <2>1, <2>3, <2>4, <2>5, <2>6
<1> QED
  BY <1>8, <1>9 DEF n, Newest

-----------------------------------------------------------------------------
(* Snapshots                                                               *)

Values(S, key) == {Doc[d][key] : d \in S}
Sharing(S, key, T) == {d \in S : Doc[d][key] \in T}

LEMMA ValuesAreFinite ==
    ASSUME NEW S, IsFiniteSet(S), NEW key
    PROVE  IsFiniteSet(Values(S, key)) /\ Cardinality(Values(S, key)) \in Nat
<1> DEFINE f == [d \in S |-> Doc[d][key]]
<1>1. f \in Surjection(S, Values(S, key))
  BY DEF Surjection, Values
<1> QED
  BY <1>1, FS_Surjection, FS_CardinalityType

(* The counts of some of the values add up to the documents that have one  *)
(* of these.                                                               *)
LEMMA CountsAddUp ==
    ASSUME NEW S, IsFiniteSet(S), NEW key, NEW T \in SUBSET Values(S, key)
    PROVE  SumFunction([v \in T |-> Counts(S, key)[v]]) = Cardinality(Sharing(S, key, T))
<1> DEFINE C == [v \in T |-> {d \in S : Doc[d][key] = v}]
<1>1. IsFiniteSet(T)
  BY ValuesAreFinite, FS_Subset
<1>2. C \in [T -> SUBSET S] /\ \A v, w \in T : v # w => C[v] \cap C[w] = {}
  OBVIOUS
<1>3. [v \in T |-> Counts(S, key)[v]] = [v \in T |-> Cardinality(C[v])]
  BY DEF Counts, Values
<1>4. UNION {C[v] : v \in T} = Sharing(S, key, T)
  BY DEF Sharing
<1> HIDE DEF C
<1>5. SumFunction([v \in T |-> Cardinality(C[v])]) = Cardinality(UNION {C[v] : v \in T})
  BY <1>1, <1>2, SizesAddUp
<1> QED
  BY <1>3, <1>4, <1>5

(* No service is left out that there is room for. *)
LEMMA TopsProperties ==
    ASSUME NEW counts, IsFiniteSet(DOMAIN counts), NEW T \in Tops(counts)
    PROVE  /\ T \in SUBSET DOMAIN counts
           /\ Cardinality(DOMAIN counts) <= MaxServices => T = DOMAIN counts
<1> DEFINE V == DOMAIN counts
           n == Cardinality(V)
<1>1. PICK s \in Orders(V, [v \in V |-> -counts[v]]) : T = Range(FirstOf(s, MaxServices))
  BY DEF Tops
<1> HIDE DEF V
<1>2. /\ s \in Seq(V) /\ Len(s) = n /\ n \in Nat
      /\ \A x \in V : \E i \in 1 .. n : s[i] = x
  BY OrderIsComplete DEF V
<1> HIDE DEF n
<1> DEFINE t == FirstOf(s, MaxServices)
<1>3. /\ t \in Seq(V) /\ Len(t) = Least(n, MaxServices)
      /\ \A i \in 1 .. Len(t) : t[i] = s[i]
  BY <1>2, FirstOfProperties, QueriesAssumption
<1> HIDE DEF t
<1>4. T = {t[i] : i \in 1 .. Len(t)} /\ \A i \in 1 .. Len(t) : t[i] \in V
  BY <1>1, <1>3, LenProperties DEF t, Range
<1>5. ASSUME n <= MaxServices
      PROVE  T = V
  <2>1. Len(t) = n
    BY <1>2, <1>3, <1>5, QueriesAssumption DEF Least
  <2>2. ASSUME NEW x \in V
        PROVE  x \in T
    <3>1. PICK i \in 1 .. n : s[i] = x
      BY <1>2
    <3> QED
      BY <1>3, <1>4, <2>1, <3>1
  <2> QED
    BY <1>4, <2>2
<1> QED
  BY <1>4, <1>5 DEF n, V

LEMMA StatsAnswer ==
    ASSUME Settled, NEW S \in Seen, NEW stats \in Stats([f \in Facets |-> S])
    PROVE  Agree(stats)
<1> DEFINE D == Selected(S)
           levels == Counts(D, "level")
           services == Counts(D, "service")
<1>1. /\ IsFiniteSet(D) /\ Selected(before) \subseteq D /\ D \subseteq Selected(db)
      /\ IsFiniteSet(Selected(before)) /\ IsFiniteSet(Selected(db))
  BY SeenIsBetween
<1>2. PICK T \in Tops(services) :
          stats = [total |-> Cardinality(D), by_level |-> levels,
                   by_service |-> [s \in T |-> services[s]],
                   errors |-> Sum([l \in Severe \cap DOMAIN levels |-> levels[l]])]
  BY DEF Stats, Facets
<1>3. DOMAIN levels = Values(D, "level") /\ DOMAIN services = Values(D, "service")
  BY DEF Counts, Values
<1>4. levels = [v \in Values(D, "level") |-> levels[v]]
  BY DEF Counts, Values
<1>5. /\ T \in SUBSET Values(D, "service")
      /\ Cardinality(Values(D, "service")) <= MaxServices => T = Values(D, "service")
  BY <1>1, <1>2, <1>3, ValuesAreFinite, TopsProperties
<1> HIDE DEF D
<1>6. Sum(levels) = Cardinality(Sharing(D, "level", Values(D, "level")))
  BY <1>1, <1>4, CountsAddUp DEF Sum
<1>7. Sum([s \in T |-> services[s]]) = Cardinality(Sharing(D, "service", T))
  BY <1>1, <1>5, CountsAddUp DEF Sum
<1>8. Sum([l \in Severe \cap DOMAIN levels |-> levels[l]])
        = Cardinality(Sharing(D, "level", Severe \cap DOMAIN levels))
  BY <1>1, <1>3, CountsAddUp DEF Sum
<1> HIDE DEF levels, services
<1>9. \A key : Sharing(D, key, Values(D, key)) = D
  BY DEF Sharing, Values
<1>10. \A key, W : Sharing(D, key, W) \in SUBSET D
  BY DEF Sharing
<1>11. \A E \in SUBSET D : Cardinality(E) <= Cardinality(D)
  BY <1>1, FS_Subset
<1>12. ASSUME Cardinality(Values(Selected(db), "service")) <= MaxServices
       PROVE  T = Values(D, "service")
  <2>1. Values(D, "service") \in SUBSET Values(Selected(db), "service")
    BY <1>1 DEF Values
  <2>2. /\ Cardinality(Values(D, "service")) <= Cardinality(Values(Selected(db), "service"))
        /\ Cardinality(Values(D, "service")) \in Nat
        /\ Cardinality(Values(Selected(db), "service")) \in Nat
    BY <1>1, <2>1, ValuesAreFinite, FS_Subset
  <2> QED
    BY <1>5, <1>12, <2>2, QueriesAssumption
<1>13. Sum(stats.by_level) = stats.total
  BY <1>2, <1>6, <1>9
<1>14. Sum(stats.by_service) <= stats.total
  BY <1>2, <1>7, <1>10, <1>11
<1>15. Cardinality(Values(Selected(db), "service")) <= MaxServices
         => Sum(stats.by_service) = stats.total
  BY <1>2, <1>7, <1>9, <1>12
<1>16. stats.errors <= stats.total
  BY <1>2, <1>8, <1>10, <1>11
<1>17. stats.total >= Cardinality(Selected(before))
  <2>1. Cardinality(Selected(before)) <= Cardinality(D)
    BY <1>1, <1>11
  <2>2. Cardinality(Selected(before)) \in Nat /\ Cardinality(D) \in Nat
    BY <1>1, FS_CardinalityType
  <2> QED
    BY <1>2, <2>1, <2>2
<1>18. {Doc[d].service : d \in Selected(db)} = Values(Selected(db), "service")
  BY DEF Values
<1> QED
  BY <1>13, <1>14, <1>15, <1>16, <1>17, <1>18 DEF Agree

-----------------------------------------------------------------------------
(* Buckets                                                                 *)

LEMMA MinutesAreFinite ==
    ASSUME NEW S, IsFiniteSet(S)
    PROVE  IsFiniteSet(Minutes(S)) /\ Cardinality(Minutes(S)) \in Nat
<1> DEFINE f == [d \in S |-> MinuteOf(d)]
<1>1. f \in Surjection(S, Minutes(S))
  BY DEF Surjection, Minutes
<1> QED
  BY <1>1, FS_Surjection, FS_CardinalityType

(* Buckets for all the minutes count every document, once. *)
LEMMA BucketsAddUp ==
    ASSUME NEW D, IsFiniteSet(D), NEW n \in Nat, NEW m \in [1 .. n -> Minutes(D)],
           \A i, j \in 1 .. n : m[i] = m[j] => i = j,
           \A x \in Minutes(D) : \E i \in 1 .. n : m[i] = x
    PROVE  SumFunction([i \in 1 .. n |-> Cardinality(InMinute(D, m[i]))]) = Cardinality(D)
<1> DEFINE I == 1 .. n
           C == [i \in I |-> InMinute(D, m[i])]
<1>1. IsFiniteSet(I)
  BY FS_Interval
<1>2. C \in [I -> SUBSET D]
  BY DEF InMinute
<1>3. \A i, j \in I : i # j => C[i] \cap C[j] = {}
  BY DEF InMinute
<1>4. UNION {C[i] : i \in I} = D
  <2> SUFFICES ASSUME NEW d \in D
               PROVE  \E i \in I : d \in C[i]
    BY <1>2
  <2>1. PICK i \in I : m[i] = MinuteOf(d)
    BY DEF Minutes
  <2> QED
    BY <2>1 DEF InMinute
<1>5. [i \in I |-> Cardinality(InMinute(D, m[i]))] = [i \in I |-> Cardinality(C[i])]
  OBVIOUS
<1> HIDE DEF C, I
<1>6. SumFunction([i \in I |-> Cardinality(C[i])]) = Cardinality(UNION {C[i] : i \in I})
  BY <1>1, <1>2, <1>3, SizesAddUp
<1> QED
  BY <1>4, <1>5, <1>6 DEF I

LEMMA BucketsAnswer ==
    ASSUME Settled, NEW S \in Seen, NEW buckets \in Buckets(S),
           Cardinality(Minutes(Selected(db))) <= MaxMinutes
    PROVE  CountAll(buckets)
<1> DEFINE D == Selected(S)
           n == Cardinality(Minutes(D))
<1>1. /\ IsFiniteSet(D) /\ Selected(before) \subseteq D /\ D \subseteq Selected(db)
      /\ IsFiniteSet(Selected(before)) /\ IsFiniteSet(Selected(db))
  BY SeenIsBetween
<1>2. PICK m \in InTime(Minutes(D)) : buckets = BucketsOf(D, FirstOf(m, MaxMinutes))
  BY DEF Buckets
<1>3. m \in Orders(Minutes(D), [x \in Minutes(D) |-> x])
  BY DEF InTime
<1> HIDE DEF D
<1>4. IsFiniteSet(Minutes(D)) /\ n \in Nat
  BY <1>1, MinutesAreFinite
<1>5. /\ m \in Seq(Minutes(D)) /\ Len(m) = n
      /\ \A i, j \in 1 .. n : m[i] = m[j] => i = j
      /\ \A x \in Minutes(D) : \E i \in 1 .. n : m[i] = x
  BY <1>3, <1>4, OrderIsComplete
<1>6. n <= MaxMinutes
  <2>1. Minutes(D) \in SUBSET Minutes(Selected(db))
    BY <1>1 DEF Minutes
  <2>2. /\ n <= Cardinality(Minutes(Selected(db)))
        /\ Cardinality(Minutes(Selected(db))) \in Nat
    BY <1>1, <2>1, MinutesAreFinite, FS_Subset
  <2> QED
    BY <1>4, <2>2, QueriesAssumption
<1>7. Cardinality(Minutes(Selected(before))) <= n
  <2>1. Minutes(Selected(before)) \in SUBSET Minutes(D)
    BY <1>1 DEF Minutes
  <2> QED
    BY <1>4, <2>1, FS_Subset
<1>8. Cardinality(Minutes(Selected(before))) \in Nat
  BY <1>1, MinutesAreFinite
<1> HIDE DEF n
<1>9. Least(Len(m), MaxMinutes) = n
  BY <1>4, <1>5, <1>6, QueriesAssumption DEF Least
<1>10. /\ FirstOf(m, MaxMinutes) \in Seq(Minutes(D))
       /\ Len(FirstOf(m, MaxMinutes)) = n
       /\ \A i \in 1 .. n : FirstOf(m, MaxMinutes)[i] = m[i]
  BY <1>5, <1>9, FirstOfProperties, QueriesAssumption
<1>11. DOMAIN FirstOf(m, MaxMinutes) = 1 .. n
  BY <1>10, LenProperties
<1>12. buckets = [i \in 1 .. n |-> Bucket(InMinute(D, m[i]))]
  BY <1>2, <1>10, <1>11 DEF BucketsOf
<1>13. DOMAIN buckets = 1 .. n /\ \A i \in 1 .. n : buckets[i] = Bucket(InMinute(D, m[i]))
  BY <1>12
<1>14. Len(buckets) = n
  BY <1>4, <1>13
<1>15. [i \in DOMAIN buckets |-> buckets[i].count] = [i \in 1 .. n |-> Cardinality(InMinute(D, m[i]))]
  <2>1. ASSUME NEW i \in 1 .. n
        PROVE  buckets[i].count = Cardinality(InMinute(D, m[i]))
    <3> DEFINE E == InMinute(D, m[i])
    <3> HIDE DEF E
    <3>1. Bucket(E).count = Cardinality(E)
      BY DEF Bucket
    <3> QED
      BY <1>13, <3>1 DEF E
  <2> QED
    BY <1>13, <2>1
<1>16. Sum([i \in DOMAIN buckets |-> buckets[i].count]) = Cardinality(D)
  <2>1. m \in [1 .. n -> Minutes(D)]
    BY <1>5, LenProperties
  <2>2. SumFunction([i \in 1 .. n |-> Cardinality(InMinute(D, m[i]))]) = Cardinality(D)
    BY <1>1, <1>4, <1>5, <2>1, BucketsAddUp
  <2> QED
    BY <1>15, <2>2 DEF Sum
<1>17. /\ Cardinality(D) >= Cardinality(Selected(before))
       /\ Cardinality(D) <= Cardinality(Selected(db))
  <2>1. /\ Cardinality(Selected(before)) <= Cardinality(D)
        /\ Cardinality(D) <= Cardinality(Selected(db))
    BY <1>1, FS_Subset
  <2>2. Cardinality(Selected(before)) \in Nat /\ Cardinality(D) \in Nat
    BY <1>1, FS_CardinalityType
  <2> QED
    BY <2>1, <2>2
<1>18. ASSUME NEW i \in 1 .. n
       PROVE  buckets[i].errors <= buckets[i].count
  <2> DEFINE E == InMinute(D, m[i])
  <2>1. IsFiniteSet(E)
    BY <1>1, FS_Subset DEF InMinute
  <2> HIDE DEF E
  <2>2. Cardinality({d \in E : Doc[d].level \in Severe}) <= Cardinality(E)
    BY <2>1, FS_Subset
  <2>3. buckets[i] = Bucket(E)
    BY <1>13 DEF E
  <2> QED
    BY <2>2, <2>3 DEF Bucket
<1>19. Len(buckets) >= Cardinality(Minutes(Selected(before)))
  BY <1>4, <1>7, <1>8, <1>14 DEF n
<1> QED
  BY <1>13, <1>16, <1>17, <1>18, <1>19 DEF CountAll

-----------------------------------------------------------------------------
(* The answers stand                                                       *)

AnswersRight == PageIsNewest /\ StatsAddUp /\ ThroughputAddsUp

(* Documents come and the clock is read only while there is no answer yet. *)
IInv ==
    /\ Settled
    /\ place # "answered" => answer = NoAnswer
    /\ AnswersRight

LEMMA NothingSaid ==
    ASSUME answer.status # 200
    PROVE  AnswersRight
BY DEF AnswersRight, PageIsNewest, StatsAddUp, ThroughputAddsUp, Answered

LEMMA QueryStep ==
    ASSUME Settled, AnswerQuery
    PROVE  AnswersRight'
<1>1. PICK S \in Seen : \E page \in Pages(S) : Answer(page)
  BY DEF AnswerQuery
<1>2. PICK page \in Pages(S) : Answer(page)
  BY <1>1
<1>3. Newest(page)
  BY PageAnswer
<1>4. /\ answer'.result = page /\ asked'.endpoint = "logs"
      /\ UNCHANGED <<asked, since, before>>
  BY <1>2 DEF Answer, AnswerQuery
<1>5. Newest(page)'
  BY <1>3, <1>4 DEF Newest, Selected
<1>6. Newest(answer.result)'
  BY <1>4, <1>5
<1> QED
  BY <1>4, <1>6 DEF AnswersRight, PageIsNewest, StatsAddUp, ThroughputAddsUp, Answered

LEMMA StatsStep ==
    ASSUME Settled, AnswerStats
    PROVE  AnswersRight'
<1>1. PICK S \in Seen : \E stats \in Stats([f \in Facets |-> S]) : Answer(stats)
  BY DEF AnswerStats, Scans
<1>2. PICK stats \in Stats([f \in Facets |-> S]) : Answer(stats)
  BY <1>1
<1>3. Agree(stats)
  BY StatsAnswer
<1>4. /\ answer'.result = stats /\ asked'.endpoint = "stats"
      /\ UNCHANGED <<db, asked, since, before>>
  BY <1>2 DEF Answer, AnswerStats
<1>5. Agree(stats)'
  BY <1>3, <1>4 DEF Agree, Selected
<1>6. Agree(answer.result)'
  BY <1>4, <1>5
<1> QED
  BY <1>4, <1>6 DEF AnswersRight, PageIsNewest, StatsAddUp, ThroughputAddsUp, Answered

LEMMA ThroughputStep ==
    ASSUME Settled, AnswerThroughput
    PROVE  AnswersRight'
<1>1. PICK S \in Seen : \E buckets \in Buckets(S) : Answer(buckets)
  BY DEF AnswerThroughput
<1>2. PICK buckets \in Buckets(S) : Answer(buckets)
  BY <1>1
<1>3. Cardinality(Minutes(Selected(db))) <= MaxMinutes => CountAll(buckets)
  BY BucketsAnswer
<1>4. /\ answer'.result = buckets /\ asked'.endpoint = "throughput"
      /\ UNCHANGED <<db, asked, since, before>>
  BY <1>2 DEF Answer, AnswerThroughput
<1>5. (Cardinality(Minutes(Selected(db))) <= MaxMinutes => CountAll(buckets))'
  BY <1>3, <1>4 DEF CountAll, Minutes, Selected
<1>6. (Cardinality(Minutes(Selected(db))) <= MaxMinutes => CountAll(answer.result))'
  BY <1>4, <1>5
<1> QED
  BY <1>4, <1>6 DEF AnswersRight, PageIsNewest, StatsAddUp, ThroughputAddsUp, Answered

LEMMA InitAnswers == Init => IInv
<1> SUFFICES ASSUME Init
             PROVE  IInv
  OBVIOUS
<1>1. Settled /\ answer = NoAnswer
  BY FS_EmptySet DEF Init, Settled
<1>2. AnswersRight
  BY <1>1, NothingSaid DEF NoAnswer
<1> QED
  BY <1>1, <1>2 DEF IInv

LEMMA StepAnswers == IInv /\ [Next]_vars => IInv'
<1> SUFFICES ASSUME IInv, [Next]_vars
             PROVE  IInv'
  OBVIOUS
<1>1. answer'.status # 200 => AnswersRight'
  BY DEF AnswersRight, PageIsNewest, StatsAddUp, ThroughputAddsUp, Answered
<1>2. NoAnswer.status # 200
  BY DEF NoAnswer
<1>3. CASE Tick
  <2>1. UNCHANGED <<db, place, asked, since, before, answer>>
    BY <1>3 DEF Tick
  <2>2. AnswersRight'
    BY <2>1 DEF IInv, AnswersRight, PageIsNewest, StatsAddUp, ThroughputAddsUp, Answered,
                Newest, Agree, CountAll, Minutes, Selected
  <2> QED
    BY <2>1, <2>2 DEF IInv, Settled
<1>4. ASSUME NEW d \in Docs, Insert(d)
      PROVE  IInv'
  <2>1. answer = NoAnswer /\ answer' = answer
    BY <1>4 DEF Insert, IInv
  <2>2. Settled'
    BY <1>4, FS_AddElement DEF Insert, IInv, Settled
  <2>3. AnswersRight'
    BY <1>1, <1>2, <2>1
  <2> QED
    BY <2>1, <2>2, <2>3 DEF IInv
<1>5. CASE Ask
  <2>1. answer = NoAnswer /\ answer' = answer
    BY <1>5 DEF Ask, IInv
  <2>2. Settled'
    BY <1>5 DEF Ask, IInv, Settled
  <2>3. AnswersRight'
    BY <1>1, <1>2, <2>1
  <2> QED
    BY <2>1, <2>2, <2>3 DEF IInv
<1>6. CASE Begin
  <2>1. answer = NoAnswer /\ answer' = answer
    BY <1>6 DEF Begin, IInv
  <2>2. Settled'
    BY <1>6 DEF Begin, IInv, Settled
  <2>3. AnswersRight'
    BY <1>1, <1>2, <2>1
  <2> QED
    BY <2>1, <2>2, <2>3 DEF IInv
<1>7. ASSUME UNCHANGED <<db, asked, before>>, place' = "answered", AnswersRight'
      PROVE  IInv'
  BY <1>7 DEF IInv, Settled
<1>8. CASE AnswerQuery
  <2>1. UNCHANGED <<db, asked, before>> /\ place' = "answered"
    BY <1>8 DEF AnswerQuery, Answer
  <2> QED
    BY <1>7, <1>8, <2>1, QueryStep DEF IInv
<1>9. CASE AnswerStats
  <2>1. UNCHANGED <<db, asked, before>> /\ place' = "answered"
    BY <1>9 DEF AnswerStats, Answer
  <2> QED
    BY <1>7, <1>9, <2>1, StatsStep DEF IInv
<1>10. CASE AnswerThroughput
  <2>1. UNCHANGED <<db, asked, before>> /\ place' = "answered"
    BY <1>10 DEF AnswerThroughput, Answer
  <2> QED
    BY <1>7, <1>10, <2>1, ThroughputStep DEF IInv
<1>11. CASE Fail
  <2>1. UNCHANGED <<db, asked, before>> /\ place' = "answered" /\ answer'.status # 200
    BY <1>11 DEF Fail
  <2> QED
    BY <1>1, <1>7, <2>1
<1>12. CASE UNCHANGED vars
  <2>1. UNCHANGED <<db, place, asked, since, before, answer>>
    BY <1>12 DEF vars
  <2>2. AnswersRight'
    BY <2>1 DEF IInv, AnswersRight, PageIsNewest, StatsAddUp, ThroughputAddsUp, Answered,
                Newest, Agree, CountAll, Minutes, Selected
  <2> QED
    BY <2>1, <2>2 DEF IInv, Settled
<1> QED
  BY <1>3, <1>4, <1>5, <1>6, <1>8, <1>9, <1>10, <1>11, <1>12 DEF Next

LEMMA AnswersHold == Spec => []IInv
BY InitAnswers, StepAnswers, PTL DEF Spec

(* Query answers with the newest documents of its window and filters       *)
(* (mongo.go:200-219), whatever is inserted while the cursor runs.         *)
THEOREM PagesAreNewest == Spec => []PageIsNewest
<1>1. IInv => PageIsNewest
  BY DEF IInv, AnswersRight
<1> QED
  BY <1>1, AnswersHold, PTL

(* The facets of a snapshot (mongo.go:233-299) count the same documents.   *)
THEOREM NumbersAgree == Spec => []StatsAddUp
<1>1. IInv => StatsAddUp
  BY DEF IInv, AnswersRight
<1> QED
  BY <1>1, AnswersHold, PTL

(* The buckets of a minute each (mongo.go:303-338) count every document of *)
(* the window once, unless the limit cuts minutes off.                     *)
THEOREM BucketsCountAll == Spec => []ThroughputAddsUp
<1>1. IInv => ThroughputAddsUp
  BY DEF IInv, AnswersRight
<1> QED
  BY <1>1, AnswersHold, PTL

-----------------------------------------------------------------------------
(* There is an answer                                                      *)

LEMMA LargestKey ==
    ASSUME NEW T, IsFiniteSet(T), T # {}, NEW key, \A x \in T : key[x] \in Int
    PROVE  \E x \in T : \A y \in T : key[y] <= key[x]
<1> DEFINE F == {U \in SUBSET T : U = {} \/ \E x \in U : \A y \in U : key[y] <= key[x]}
<1>1. ASSUME NEW U \in SUBSET T, \A x \in U : U \ {x} \in F
      PROVE  U \in F
  <2>1. CASE U = {}
    BY <2>1
  <2>2. CASE U # {}
    <3>1. PICK z \in U : TRUE
      BY <2>2
    <3>2. CASE U \ {z} = {}
      <4>1. \A y \in U : y = z
        BY <3>2
      <4>2. key[z] \in Int
        BY <3>1
      <4>3. \A y \in U : key[y] <= key[z]
        BY <4>1, <4>2
      <4> QED
        BY <3>1, <4>3
    <3>3. CASE U \ {z} # {}
      <4>1. PICK x \in U \ {z} : \A y \in U \ {z} : key[y] <= key[x]
        BY <1>1, <3>1, <3>3
      <4>2. \A y \in U : key[y] \in Int
        OBVIOUS
      <4>3. CASE key[z] <= key[x]
        BY <4>1, <4>3
      <4>4. CASE ~ (key[z] <= key[x])
        <5>1. \A y \in U : key[y] <= key[z]
          BY <3>1, <4>1, <4>2, <4>4
        <5> QED
          BY <3>1, <5>1
      <4> QED
        BY <4>3, <4>4
    <3> QED
      BY <3>2, <3>3
  <2> QED
    BY <2>1, <2>2
<1> HIDE DEF F
<1>2. SUBSET T \subseteq F
  BY <1>1, SetInduction
<1> QED
  BY <1>2 DEF F

(* An element with the largest key goes behind all others. *)
LEMMA OrderExtends ==
    ASSUME NEW T, IsFiniteSet(T), NEW key, \A y \in T : key[y] \in Int, NEW x \in T,
           \A y \in T : key[y] <= key[x], NEW s \in Orders(T \ {x}, key)
    PROVE  Orders(T, key) # {}
<1> DEFINE n == Cardinality(T \ {x})
           t == [i \in 1 .. n + 1 |-> IF i = n + 1 THEN x ELSE s[i]]
<1>1. n \in Nat /\ Cardinality(T) = n + 1
  <2>1. IsFiniteSet(T \ {x}) /\ n = Cardinality(T) - 1
    BY FS_RemoveElement
  <2>2. n \in Nat /\ Cardinality(T) \in Nat
    BY <2>1, FS_CardinalityType
  <2> QED
    BY <2>1, <2>2
<1>2. /\ s \in [1 .. n -> T \ {x}]
      /\ \A i, j \in 1 .. n : i < j => s[i] # s[j] /\ key[s[i]] <= key[s[j]]
  BY DEF Orders
<1> HIDE DEF n
<1>3. t \in [1 .. n + 1 -> T]
  BY <1>1, <1>2
<1>4. ASSUME NEW i \in 1 .. n + 1, NEW j \in 1 .. n + 1, i < j
      PROVE  t[i] # t[j] /\ key[t[i]] <= key[t[j]]
  <2>1. i \in 1 .. n /\ t[i] = s[i] /\ s[i] \in T \ {x}
    BY <1>1, <1>2, <1>4
  <2>2. CASE j = n + 1
    BY <2>1, <2>2
  <2>3. CASE j # n + 1
    <3>1. j \in 1 .. n /\ t[j] = s[j]
      BY <1>1, <2>3
    <3> QED
      BY <1>2, <1>4, <2>1, <3>1
  <2> QED
    BY <2>2, <2>3
<1> HIDE DEF t
<1>5. t \in Orders(T, key)
  BY <1>1, <1>3, <1>4 DEF Orders
<1> QED
  BY <1>5

LEMMA OrderExists ==
    ASSUME NEW S, IsFiniteSet(S), NEW key, \A x \in S : key[x] \in Int
    PROVE  Orders(S, key) # {}
<1> DEFINE F == {T \in SUBSET S : Orders(T, key) # {}}
<1>1. ASSUME NEW T \in SUBSET S, \A x \in T : T \ {x} \in F
      PROVE  T \in F
  <2>1. CASE T = {}
    <3> DEFINE s == [i \in 1 .. 0 |-> 0]
    <3>1. Cardinality(T) = 0
      BY <2>1, FS_EmptySet
    <3>2. s \in Orders(T, key)
      BY <3>1 DEF Orders
    <3> QED
      BY <3>2
  <2>2. CASE T # {}
    <3>1. IsFiniteSet(T) /\ \A x \in T : key[x] \in Int
      BY FS_Subset
    <3>2. PICK x \in T : \A y \in T : key[y] <= key[x]
      BY <2>2, <3>1, LargestKey
    <3>3. PICK s : s \in Orders(T \ {x}, key)
      BY <1>1
    <3>4. Orders(T, key) # {}
      BY <3>1, <3>2, <3>3, OrderExtends
    <3> QED
      BY <3>4
  <2> QED
    BY <2>1, <2>2
<1> HIDE DEF F
<1>2. S \in F
  BY <1>1, SetInduction
<1> QED
  BY <1>2 DEF F

(* Whatever a scan saw, there is a page, a snapshot and a list of buckets  *)
(* to answer with.                                                         *)
Answerable ==
    \A S \in Seen :
        Pages(S) # {} /\ Stats([f \in Facets |-> S]) # {} /\ Buckets(S) # {}

LEMMA SettledIsAnswerable ==
    ASSUME Settled
    PROVE  Answerable
<1> SUFFICES ASSUME NEW S \in Seen
             PROVE  /\ Pages(S) # {} /\ Stats([f \in Facets |-> S]) # {}
                    /\ Buckets(S) # {}
  BY DEF Answerable
<1> DEFINE D == Selected(S)
<1>1. IsFiniteSet(D) /\ \A d \in D : d \in Docs /\ Doc[d].time \in Int
  BY SeenIsBetween
<1>2. Orders(D, NewestFirst) # {}
  <2>1. \A d \in D : NewestFirst[d] \in Int
    BY <1>1 DEF NewestFirst
  <2> HIDE DEF D
  <2> QED
    BY <1>1, <2>1, OrderExists
<1>3. Pages(S) # {}
  BY <1>2 DEF Pages
<1>4. Stats([f \in Facets |-> S]) # {}
  <2> DEFINE counts == Counts(D, "service")
             key == [v \in DOMAIN counts |-> -counts[v]]
  <2>1. DOMAIN counts = Values(D, "service")
    BY DEF Counts, Values
  <2>2. \A v \in DOMAIN counts : counts[v] \in Int
    <3> DEFINE C == [v \in Values(D, "service") |-> {d \in D : Doc[d]["service"] = v}]
    <3> HIDE DEF D
    <3>1. C \in [Values(D, "service") -> SUBSET D]
      OBVIOUS
    <3>2. counts = [v \in Values(D, "service") |-> Cardinality(C[v])]
      BY DEF Counts, Values
    <3> HIDE DEF C, counts
    <3>3. \A v \in Values(D, "service") : Cardinality(C[v]) \in Nat
      BY <1>1, <3>1, FS_Subset, FS_CardinalityType
    <3> QED
      BY <3>2, <3>3
  <2>3. IsFiniteSet(DOMAIN counts)
    BY <1>1, <2>1, ValuesAreFinite
  <2> HIDE DEF counts
  <2>4. \A v \in DOMAIN counts : key[v] \in Int
    BY <2>2
  <2> HIDE DEF key
  <2>5. Orders(DOMAIN counts, key) # {}
    BY <2>3, <2>4, OrderExists
  <2>6. Tops(counts) # {}
    BY <2>5 DEF Tops, key
  <2> QED
    BY <2>6 DEF Stats, Facets, counts
<1>5. Buckets(S) # {}
  <2> DEFINE M == Minutes(D)
             key == [m \in M |-> m]
  <2>1. IsFiniteSet(M)
    BY <1>1, MinutesAreFinite
  <2>2. \A m \in M : m \in Int
    BY <1>1, QueriesAssumption DEF Minutes, MinuteOf
  <2> HIDE DEF M
  <2>3. \A m \in M : key[m] \in Int
    BY <2>2
  <2> HIDE DEF key
  <2>4. Orders(M, key) # {}
    BY <2>1, <2>3, OrderExists
  <2> QED
    BY <2>4 DEF Buckets, InTime, M, key
<1> QED
  BY <1>3, <1>4, <1>5

(* A handler whose scan succeeds can answer: the sorts and limits of       *)
(* mongo.go have a result for every set of documents.                      *)
THEOREM AnswersExist == Spec => []Answerable
<1>1. IInv => Answerable
  BY SettledIsAnswerable DEF IInv
<1> QED
  BY <1>1, AnswersHold, PTL
=============================================================================
