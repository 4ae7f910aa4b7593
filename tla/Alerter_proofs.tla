---------------------------- MODULE Alerter_proofs ----------------------------
(***************************************************************************)
(* Proofs about the alerter, for any documents, rules, sizes and times.    *)
(***************************************************************************)
EXTENDS Alerter, Induction_proofs, SequenceTheorems

-----------------------------------------------------------------------------
(* Selected: the part of a sequence that is in a set                       *)

(* k[n] is what the loop has kept of the first n elements. *)
Keeping(s, T, k) ==
    k = [n \in 0 .. Len(s) |->
            IF n = 0 THEN <<>>
            ELSE IF s[n] \in T THEN Append(k[n - 1], s[n]) ELSE k[n - 1]]

Keep(s, T) == CHOOSE k : Keeping(s, T, k)

LEMMA SelectedIsKept ==
    ASSUME NEW s, NEW T
    PROVE  Selected(s, T) = Keep(s, T)[Len(s)]
BY DEF Selected, Keep, Keeping

LEMMA KeepExists ==
    ASSUME NEW s, NEW T, Len(s) \in Nat
    PROVE  Keeping(s, T, Keep(s, T))
<1> DEFINE Next0(n, k) ==
               IF n = 0 THEN <<>>
               ELSE IF s[n] \in T THEN Append(k[n - 1], s[n]) ELSE k[n - 1]
           K == {m \in Nat : \E k : k = [n \in 0 .. m |-> Next0(n, k)]}
<1>1. 0 \in K
  <2> DEFINE k == [n \in 0 .. 0 |-> <<>>]
  <2>1. k = [n \in 0 .. 0 |-> Next0(n, k)]
    OBVIOUS
  <2> QED
    BY <2>1
<1>2. ASSUME NEW m \in Nat, m \in K
      PROVE  m + 1 \in K
  <2> HIDE DEF Next0
  <2>1. PICK k : k = [n \in 0 .. m |-> Next0(n, k)]
    BY <1>2
  <2> DEFINE h == [n \in 0 .. m + 1 |-> Next0(n, k)]
  <2>2. \A n \in 0 .. m : k[n] = Next0(n, k)
    BY <2>1
  <2>3. \A n \in 0 .. m : h[n] = k[n]
    BY <2>2
  <2> HIDE DEF h
  <2>4. \A n \in 0 .. m + 1 : Next0(n, h) = Next0(n, k)
    BY <2>3 DEF Next0
  <2>5. h = [n \in 0 .. m + 1 |-> Next0(n, h)]
    BY <2>4 DEF h
  <2>6. \E j : j = [n \in 0 .. m + 1 |-> Next0(n, j)]
    BY <2>5
  <2> QED
    BY <2>6
<1> HIDE DEF K
<1>3. Len(s) \in K
  BY <1>1, <1>2, NumberInduction
<1>4. \E k : Keeping(s, T, k)
  BY <1>3 DEF K, Keeping
<1> QED
  BY <1>4 DEF Keep

(* The same, step by step. *)
LEMMA KeepSteps ==
    ASSUME NEW S, NEW s \in Seq(S), NEW T
    PROVE  /\ Keep(s, T)[0] = <<>>
           /\ \A n \in 1 .. Len(s) :
                 Keep(s, T)[n] =
                    IF s[n] \in T THEN Append(Keep(s, T)[n - 1], s[n]) ELSE Keep(s, T)[n - 1]
<1>1. Len(s) \in Nat
  OBVIOUS
<1>2. Keeping(s, T, Keep(s, T))
  BY <1>1, KeepExists
<1> DEFINE k == Keep(s, T)
<1>3. k = [n \in 0 .. Len(s) |->
            IF n = 0 THEN <<>>
            ELSE IF s[n] \in T THEN Append(k[n - 1], s[n]) ELSE k[n - 1]]
  BY <1>2 DEF Keeping
<1> HIDE DEF k
<1>4. k[0] = <<>>
  BY <1>1, <1>3
<1>5. ASSUME NEW n \in 1 .. Len(s)
      PROVE  k[n] = IF s[n] \in T THEN Append(k[n - 1], s[n]) ELSE k[n - 1]
  <2>1. n \in 0 .. Len(s) /\ n # 0
    BY <1>1
  <2> QED
    BY <1>3, <2>1
<1> QED
  BY <1>4, <1>5 DEF k

(* What is kept of a beginning does not depend on the rest. *)
LEMMA KeepAgrees ==
    ASSUME NEW S, NEW s \in Seq(S), NEW t \in Seq(S), NEW T, NEW m \in Nat,
           m <= Len(s), m <= Len(t), \A n \in 1 .. m : s[n] = t[n]
    PROVE  Keep(s, T)[m] = Keep(t, T)[m]
<1> DEFINE k == Keep(s, T)
           j == Keep(t, T)
           K == {n \in Nat : n <= m => k[n] = j[n]}
<1>1. /\ k[0] = <<>>
      /\ \A n \in 1 .. Len(s) : k[n] = IF s[n] \in T THEN Append(k[n - 1], s[n]) ELSE k[n - 1]
  BY KeepSteps
<1>2. /\ j[0] = <<>>
      /\ \A n \in 1 .. Len(t) : j[n] = IF t[n] \in T THEN Append(j[n - 1], t[n]) ELSE j[n - 1]
  BY KeepSteps
<1> HIDE DEF k, j
<1>3. 0 \in K
  BY <1>1, <1>2
<1>4. ASSUME NEW n \in Nat, n \in K
      PROVE  n + 1 \in K
  <2> SUFFICES ASSUME n + 1 <= m
               PROVE  k[n + 1] = j[n + 1]
    OBVIOUS
  <2>1. k[n] = j[n] /\ s[n + 1] = t[n + 1] /\ (n + 1) - 1 = n
    BY <1>4
  <2>2. n + 1 \in 1 .. Len(s) /\ n + 1 \in 1 .. Len(t)
    OBVIOUS
  <2> QED
    BY <1>1, <1>2, <2>1, <2>2
<1> HIDE DEF K
<1>5. m \in K
  BY <1>3, <1>4, NumberInduction
<1> QED
  BY <1>5 DEF K, k, j

LEMMA SelectedEmpty ==
    ASSUME NEW T
    PROVE  Selected(<<>>, T) = <<>>
<1>1. <<>> \in Seq({}) /\ Len(<<>>) = 0
  OBVIOUS
<1> QED
  BY <1>1, KeepSteps, SelectedIsKept

LEMMA SelectedAppend ==
    ASSUME NEW S, NEW s \in Seq(S), NEW x \in S, NEW T
    PROVE  Selected(Append(s, x), T) =
              IF x \in T THEN Append(Selected(s, T), x) ELSE Selected(s, T)
<1> DEFINE t == Append(s, x)
           m == Len(s)
<1>1. /\ t \in Seq(S) /\ Len(t) = m + 1 /\ t[m + 1] = x /\ m \in Nat
      /\ \A n \in 1 .. m : s[n] = t[n]
  BY AppendProperties
<1> HIDE DEF t
<1>2. Keep(s, T)[m] = Keep(t, T)[m]
  BY <1>1, KeepAgrees
<1> HIDE DEF m
<1>3. Keep(t, T)[m + 1] =
         IF t[m + 1] \in T THEN Append(Keep(t, T)[m + 1 - 1], t[m + 1]) ELSE Keep(t, T)[m + 1 - 1]
  BY <1>1, KeepSteps
<1>4. m + 1 - 1 = m
  BY <1>1
<1>5. Selected(t, T) = Keep(t, T)[m + 1] /\ Selected(s, T) = Keep(s, T)[m]
  BY <1>1, SelectedIsKept DEF m
<1> QED
  BY <1>1, <1>2, <1>3, <1>4, <1>5 DEF t

LEMMA SelectedType ==
    ASSUME NEW S, NEW s \in Seq(S), NEW T
    PROVE  Selected(s, T) \in Seq(S)
<1> DEFINE k == Keep(s, T)
           K == {n \in Nat : n <= Len(s) => k[n] \in Seq(S)}
<1>1. /\ k[0] = <<>>
      /\ \A n \in 1 .. Len(s) : k[n] = IF s[n] \in T THEN Append(k[n - 1], s[n]) ELSE k[n - 1]
  BY KeepSteps
<1> HIDE DEF k
<1>2. 0 \in K
  <2>1. <<>> \in Seq(S)
    OBVIOUS
  <2>2. k[0] \in Seq(S)
    BY <1>1, <2>1
  <2> QED
    BY <2>2
<1>3. ASSUME NEW n \in Nat, n \in K
      PROVE  n + 1 \in K
  <2> SUFFICES ASSUME n + 1 <= Len(s)
               PROVE  k[n + 1] \in Seq(S)
    OBVIOUS
  <2>1. k[n] \in Seq(S) /\ s[n + 1] \in S /\ (n + 1) - 1 = n /\ n + 1 \in 1 .. Len(s)
    BY <1>3
  <2>2. k[n + 1] = IF s[n + 1] \in T THEN Append(k[n], s[n + 1]) ELSE k[n]
    BY <1>1, <2>1
  <2> QED
    BY <2>1, <2>2, AppendProperties
<1> HIDE DEF K
<1>4. Len(s) \in K
  BY <1>2, <1>3, NumberInduction
<1> QED
  BY <1>4, SelectedIsKept DEF K, k

-----------------------------------------------------------------------------
(* Matches                                                                 *)

LEMMA CompiledType ==
    ASSUME versions \in Seq(Contents), NEW v \in Versions
    PROVE  Compiled(v) \in Seq(Rules)
<1>1. CASE v = 0
  BY <1>1 DEF Compiled
<1>2. CASE v # 0
  <2>1. versions[v] \in Seq(Rules)
    BY <1>2, AlerterAssumption DEF Versions
  <2> QED
    BY <1>2, <2>1, SelectedType DEF Compiled
<1> QED
  BY <1>1, <1>2

LEMMA MatchesType ==
    ASSUME versions \in Seq(Contents), NEW v \in Versions, NEW e
    PROVE  Matches(v, e) \in Seq(Rules \cup {Default})
<1>1. Compiled(v) \in Seq(Rules)
  BY CompiledType
<1>2. Selected(Compiled(v), {r \in Rules : Applies(r, e)}) \in Seq(Rules)
  BY <1>1, SelectedType
<1>3. Seq(Rules) \subseteq Seq(Rules \cup {Default})
  BY SeqMonotonic
<1>4. <<Default>> \in Seq(Rules \cup {Default})
  OBVIOUS
<1> QED
  BY <1>2, <1>3, <1>4 DEF Matches

-----------------------------------------------------------------------------
(* Types                                                                   *)

Busy == run \in {"fire", "post", "doomed"}

(* A process that has no stream yet has nothing from it; one that is down  *)
(* is as it will start.                                                    *)
Early ==
    /\ main = "down" => run = "load"
    /\ run \in {"load", "watch"} =>
          /\ watch = "off" /\ opened = 0 /\ read = 0
          /\ held = <<>> /\ out = <<>> /\ evaluated = <<>>
          /\ fired = [e \in Events |-> {}]

(* evaluate has a document and has reached one of its matches. *)
Started == Busy => evaluated # <<>> /\ nth \in Nat \ {0}

LEMMA BreakerTypes ==
    ASSUME NEW b \in Breakers
    PROVE  /\ \A s \in {"closed", "open", "half-open"} : Renewed(s) \in Breakers
           /\ Current(b) \in Breakers
           /\ Allows(b) => Begun(b) \in Breakers
           /\ \A ok \in BOOLEAN : Reported(b, ok) \in Breakers
           /\ Passed(b) \in Breakers
<1> USE BreakerAssumption
<1>1. \A s \in {"closed", "open", "half-open"} : Renewed(s) \in Breakers
  BY DEF Renewed, Breakers
<1>2. Current(b) \in Breakers
  BY <1>1 DEF Current
<1>3. Allows(b) => Begun(b) \in Breakers
  BY DEF Allows, Begun, Breakers
<1>4. Succeeded(b) \in Breakers
  BY <1>1 DEF Succeeded, Breakers
<1>5. Failed(b) \in Breakers
  BY <1>1 DEF Failed, ReadyToTrip, Breakers
<1>6. \A ok \in BOOLEAN : Reported(b, ok) \in Breakers
  BY <1>2, <1>4, <1>5 DEF Reported
<1>7. Passed(b) \in Breakers
  BY DEF Passed, Breakers
<1> QED
  BY <1>1, <1>2, <1>3, <1>6, <1>7

LEMMA EventType ==
    ASSUME TypeOK, evaluated # <<>>
    PROVE  Event \in Events
BY DEF TypeOK, Event

LEMMA MatchType ==
    ASSUME TypeOK, Started, Busy, Left
    PROVE  /\ nth \in 1 .. Len(Matches(snap, Event))
           /\ Match = Matches(snap, Event)[nth]
           /\ Match \in Rules \cup {Default}
<1>1. Matches(snap, Event) \in Seq(Rules \cup {Default})
  BY MatchesType DEF TypeOK
<1>2. nth \in 1 .. Len(Matches(snap, Event))
  BY <1>1 DEF Started, Left, Iterated
<1> QED
  BY <1>1, <1>2 DEF Match, Iterated

(* TypeOK, by what changes together. *)
InputsTyped ==
    /\ oplog \in Seq(Events) /\ versions \in Seq(Contents) \ {<<>>}
    /\ enabled \in BOOLEAN /\ scraping \in BOOLEAN /\ handled \subseteq Events
    /\ promised \in -1 .. Len(oplog)
RulesTyped ==
    /\ rules \in Versions /\ snap \in Versions
    /\ fresh \in [Loaders -> Versions]
PlacesTyped ==
    /\ main \in {"serving", "stopping", "down"}
    /\ run \in {"load", "watch", "select", "fire", "post", "doomed", "returned"}
AlertsTyped ==
    /\ nth \in Nat /\ waited \in 0 .. MaxPost
    /\ breaker \in Breakers
    /\ fired \in [Events -> SUBSET (Rules \cup {Default})]
StreamTyped ==
    /\ watch \in {"off", "next", "send", "closed"}
    /\ opened \in 0 .. read /\ read \in 0 .. Len(oplog)
    /\ held \in Seq(Events) /\ Len(held) = (IF watch = "send" THEN 1 ELSE 0)
QueueTyped ==
    /\ out \in Seq(Events) /\ evaluated \in Seq(Events)
    /\ Len(out) <= Buffer

LEMMA TypeParts ==
    TypeOK <=> /\ InputsTyped /\ RulesTyped /\ PlacesTyped
               /\ AlertsTyped /\ StreamTyped /\ QueueTyped
BY DEF TypeOK, InputsTyped, RulesTyped, PlacesTyped, AlertsTyped, StreamTyped, QueueTyped

LEMMA TypeStep ==
    ASSUME TypeOK, Early, Started, [Next]_vars
    PROVE  TypeOK'
<1> USE DEF inputVars, streamVars, evalVars, pastVars
<1>0. /\ InputsTyped /\ RulesTyped /\ PlacesTyped
      /\ AlertsTyped /\ StreamTyped /\ QueueTyped
  BY TypeParts
<1>p. InputsTyped' /\ RulesTyped' /\ PlacesTyped' /\ AlertsTyped' /\ StreamTyped' /\ QueueTyped'
          => TypeOK'
  BY DEF TypeOK, InputsTyped, RulesTyped, PlacesTyped, AlertsTyped, StreamTyped, QueueTyped, Versions
<1>a. UNCHANGED <<inputVars, handled, promised>> => InputsTyped'
  BY <1>0 DEF InputsTyped
<1>b. UNCHANGED <<versions, rules, snap, fresh>> => RulesTyped'
  BY <1>0 DEF RulesTyped, Versions
<1>c. UNCHANGED <<main, run>> => PlacesTyped'
  BY <1>0 DEF PlacesTyped
<1>d. UNCHANGED <<nth, waited, breaker, fired>> => AlertsTyped'
  BY <1>0 DEF AlertsTyped
<1>e. UNCHANGED <<oplog, streamVars>> => StreamTyped'
  BY <1>0 DEF StreamTyped
<1>f. UNCHANGED <<out, evaluated>> => QueueTyped'
  BY <1>0 DEF QueueTyped
<1>1. ASSUME NEW e \in Events, Insert(e)
      PROVE  TypeOK'
  <2>1. oplog' \in Seq(Events) /\ Len(oplog') = Len(oplog) + 1
    BY <1>0, <1>1, AppendProperties DEF Insert, InputsTyped
  <2>2. InputsTyped' /\ StreamTyped'
    BY <1>0, <1>1, <2>1 DEF Insert, InputsTyped, StreamTyped
  <2> QED
    BY <1>1, <1>b, <1>c, <1>d, <1>f, <2>2, <1>p DEF Insert
<1>2. ASSUME NEW s \in Contents, Edit(s)
      PROVE  TypeOK'
  <2>1. versions' \in Seq(Contents) \ {<<>>} /\ Len(versions') = Len(versions) + 1
    BY <1>0, <1>2, AppendProperties DEF Edit, InputsTyped
  <2>2. Len(versions) \in Nat
    BY <1>0 DEF InputsTyped
  <2>3. InputsTyped' /\ RulesTyped'
    BY <1>0, <1>2, <2>1, <2>2 DEF Edit, InputsTyped, RulesTyped, Versions
  <2> QED
    BY <1>2, <1>c, <1>d, <1>e, <1>f, <2>3, <1>p DEF Edit
<1>3. ASSUME Tick
      PROVE  TypeOK'
  <2>1. breaker' \in Breakers
    BY <1>0, <1>3, BreakerTypes DEF Tick, AlertsTyped
  <2>2. AlertsTyped'
    BY <1>0, <1>3, <2>1, AlerterAssumption DEF Tick, AlertsTyped
  <2> QED
    BY <1>3, <1>a, <1>b, <1>c, <1>e, <1>f, <2>2, <1>p DEF Tick
<1>4. ASSUME NEW l \in Loaders, Load(l) \/ Install(l)
      PROVE  TypeOK'
  <2>1. Len(versions) \in Nat
    BY <1>0 DEF InputsTyped
  <2>2. RulesTyped' /\ PlacesTyped'
    BY <1>0, <1>4, <2>1 DEF Load, Install, RulesTyped, PlacesTyped, Versions
  <2> QED
    BY <1>4, <1>a, <1>d, <1>e, <1>f, <2>2, <1>p DEF Load, Install
<1>5. ASSUME FirstLoadFails \/ OpenFails \/ Return \/ Signal \/ Restart
      PROVE  TypeOK'
  <2>1. PlacesTyped'
    BY <1>0, <1>5 DEF FirstLoadFails, OpenFails, Return, Signal, Restart, PlacesTyped
  <2> QED
    BY <1>5, <1>a, <1>b, <1>d, <1>e, <1>f, <2>1, <1>p
       DEF FirstLoadFails, OpenFails, Return, Signal, Restart
<1>6. ASSUME RunEnded
      PROVE  TypeOK'
  <2>1. PlacesTyped' /\ InputsTyped'
    BY <1>0, <1>6 DEF RunEnded, PlacesTyped, InputsTyped
  <2> QED
    BY <1>6, <1>b, <1>d, <1>e, <1>f, <2>1, <1>p DEF RunEnded
<1>7. ASSUME Open
      PROVE  TypeOK'
  <2>1. Len(oplog) \in Nat
    BY <1>0 DEF InputsTyped
  <2>2. PlacesTyped' /\ InputsTyped'
    BY <1>0, <1>7, <2>1 DEF Open, PlacesTyped, InputsTyped
  <2>3. StreamTyped'
    BY <1>0, <1>7, <2>1 DEF Open, StreamTyped, Early
  <2> QED
    BY <1>7, <1>b, <1>d, <1>f, <2>2, <2>3, <1>p DEF Open
<1>8. ASSUME StreamNext \/ StreamEnds
      PROVE  TypeOK'
  <2>1. oplog \in Seq(Events) /\ Len(oplog) \in Nat
    BY <1>0 DEF InputsTyped
  <2>2. ASSUME StreamNext
        PROVE  StreamTyped'
    <3>1. oplog[read + 1] \in Events /\ read' \in 0 .. Len(oplog) /\ opened' \in 0 .. read'
      BY <1>0, <2>1, <2>2 DEF StreamNext, StreamTyped
    <3>2. CASE Wanted(oplog[read + 1])
      <4>1. held' = <<oplog[read + 1]>> /\ watch' = "send"
        BY <2>2, <3>2 DEF StreamNext
      <4>2. held' \in Seq(Events) /\ Len(held') = 1
        BY <3>1, <4>1
      <4> QED
        BY <2>2, <3>1, <4>1, <4>2 DEF StreamNext, StreamTyped
    <3>3. CASE ~ Wanted(oplog[read + 1])
      BY <1>0, <2>2, <3>1, <3>3 DEF StreamNext, StreamTyped
    <3> QED
      BY <3>2, <3>3
  <2>3. StreamTyped'
    BY <1>0, <1>8, <2>2 DEF StreamEnds, StreamTyped
  <2> QED
    BY <1>8, <1>a, <1>b, <1>c, <1>d, <1>f, <2>3, <1>p DEF StreamNext, StreamEnds
<1>9. ASSUME Forward \/ ForwardCancelled
      PROVE  TypeOK'
  <2>1. StreamTyped'
    <3>1. held' = <<>> /\ watch' \in {"next", "closed"}
      BY <1>9 DEF Forward, ForwardCancelled
    <3>2. UNCHANGED <<oplog, opened, read>>
      BY <1>9 DEF Forward, ForwardCancelled
    <3> QED
      BY <1>0, <3>1, <3>2, EmptySeq DEF StreamTyped
  <2>2. out' = out \o held \/ out' = out
    BY <1>9 DEF Forward, ForwardCancelled
  <2>3. QueueTyped'
    <3>1. CASE out' = out
      BY <1>0, <1>9, <3>1 DEF Forward, ForwardCancelled, QueueTyped
    <3>2. CASE Forward
      <4>1. Len(held) = 1 /\ held \in Seq(Events) /\ out \in Seq(Events)
        BY <1>0, <3>2 DEF Forward, StreamTyped, QueueTyped
      <4>2. out \o held \in Seq(Events) /\ Len(out \o held) = Len(out) + 1
        <5>1. Len(out \o held) = Len(out) + Len(held)
          BY <4>1, ConcatProperties
        <5> QED
          BY <4>1, <5>1, ConcatProperties
      <4> QED
        BY <1>0, <3>2, <4>1, <4>2, AlerterAssumption DEF Forward, QueueTyped
    <3> QED
      BY <1>9, <3>1, <3>2 DEF ForwardCancelled
  <2> QED
    BY <1>9, <1>a, <1>b, <1>c, <1>d, <2>1, <2>3, <1>p DEF Forward, ForwardCancelled
<1>10. ASSUME Receive
       PROVE  TypeOK'
  <2>1. /\ Head(out) \in Events /\ Tail(out) \in Seq(Events) /\ Len(Tail(out)) = Len(out) - 1
        /\ Append(evaluated, Head(out)) \in Seq(Events)
    BY <1>0, <1>10, HeadTailProperties, AppendProperties DEF Receive, QueueTyped
  <2>2. QueueTyped' /\ InputsTyped'
    BY <1>0, <1>10, <2>1, AlerterAssumption DEF Receive, QueueTyped, InputsTyped
  <2>3. RulesTyped' /\ PlacesTyped'
    BY <1>0, <1>10 DEF Receive, RulesTyped, PlacesTyped, Versions
  <2>4. AlertsTyped'
    BY <1>0, <1>10 DEF Receive, AlertsTyped
  <2> QED
    BY <1>10, <1>e, <2>2, <2>3, <2>4, <1>p DEF Receive
<1>11. ASSUME FireSilently \/ FireRefused \/ FirePost
       PROVE  TypeOK'
  <2>1. Event \in Events /\ Match \in Rules \cup {Default}
    BY <1>11, MatchType, EventType DEF FireSilently, FireRefused, FirePost, Fire, Started, Busy
  <2>2. breaker' \in Breakers
    BY <1>0, <1>11, BreakerTypes DEF FireSilently, FireRefused, FirePost, AlertsTyped
  <2>3. fired' = [fired EXCEPT ![Event] = @ \cup {Match}] /\ nth' = nth + 1 /\ waited' = waited
    BY <1>11 DEF FireSilently, FireRefused, FirePost, Fire
  <2>4. AlertsTyped'
    BY <1>0, <2>1, <2>2, <2>3 DEF AlertsTyped
  <2>5. PlacesTyped'
    BY <1>0, <1>11 DEF FireSilently, FireRefused, FirePost, PlacesTyped
  <2> QED
    BY <1>11, <1>a, <1>b, <1>e, <1>f, <2>4, <2>5, <1>p DEF FireSilently, FireRefused, FirePost
<1>12. ASSUME PostReturns \/ EvaluateReturns
       PROVE  TypeOK'
  <2>1. AlertsTyped'
    <3>1. breaker' \in Breakers
      BY <1>0, <1>12, BreakerTypes DEF PostReturns, Answered, EvaluateReturns, AlertsTyped
    <3> QED
      BY <1>0, <1>12, <3>1, AlerterAssumption DEF PostReturns, EvaluateReturns, AlertsTyped
  <2>2. PlacesTyped' /\ RulesTyped'
    <3>1. Len(versions) \in Nat
      BY <1>0 DEF InputsTyped
    <3> QED
      BY <1>0, <1>12, <3>1 DEF PostReturns, EvaluateReturns, PlacesTyped, RulesTyped, Versions
  <2> QED
    BY <1>12, <1>a, <1>e, <1>f, <2>1, <2>2, <1>p DEF PostReturns, EvaluateReturns
<1>13. ASSUME Exit
       PROVE  TypeOK'
  <2>1. Len(versions) \in Nat /\ Len(oplog) \in Nat
    BY <1>0 DEF InputsTyped
  <2>2. PlacesTyped' /\ RulesTyped'
    BY <1>0, <1>13, <2>1 DEF Exit, PlacesTyped, RulesTyped, Versions
  <2>3. AlertsTyped'
    <3>1. Renewed("closed") \in Breakers
      BY BreakerAssumption DEF Renewed, Breakers
    <3> QED
      BY <1>13, <3>1, AlerterAssumption DEF Exit, AlertsTyped
  <2>4. StreamTyped' /\ QueueTyped'
    BY <1>13, <2>1, AlerterAssumption DEF Exit, StreamTyped, QueueTyped
  <2> QED
    BY <1>13, <1>a, <2>2, <2>3, <2>4, <1>p DEF Exit
<1>14. ASSUME Scrape \/ ScrapeEnds
       PROVE  TypeOK'
  <2>1. InputsTyped'
    BY <1>0, <1>14 DEF Scrape, ScrapeEnds, InputsTyped
  <2> QED
    BY <1>14, <1>b, <1>c, <1>d, <1>e, <1>f, <2>1, <1>p DEF Scrape, ScrapeEnds
<1>15. ASSUME UNCHANGED vars
       PROVE  TypeOK'
  BY <1>15, <1>a, <1>b, <1>c, <1>d, <1>e, <1>f, <1>p DEF vars
<1> QED
  BY <1>1, <1>2, <1>3, <1>4, <1>5, <1>6, <1>7, <1>8, <1>9, <1>10, <1>11, <1>12, <1>13, <1>14, <1>15, <1>p
     DEF Next, Run, Stream

LEMMA EarlyStep ==
    ASSUME TypeOK, Early, [Next]_vars
    PROVE  Early'
<1> USE DEF inputVars, streamVars, evalVars, pastVars, Early
<1>1. ASSUME \/ \E e \in Events : Insert(e)
             \/ \E s \in Contents : Edit(s)
             \/ Tick
             \/ \E l \in Loaders : Load(l)
             \/ Scrape \/ ScrapeEnds
             \/ UNCHANGED vars
      PROVE  UNCHANGED <<main, run, watch, opened, read, held, out, evaluated, fired>>
  BY <1>1 DEF Insert, Edit, Tick, Load, Scrape, ScrapeEnds, vars
<1>2. ASSUME UNCHANGED <<main, run, watch, opened, read, held, out, evaluated, fired>>
      PROVE  Early'
  BY <1>2
<1>3. ASSUME NEW l \in Loaders, Install(l)
      PROVE  Early'
  BY <1>3 DEF Install, Loading, Up
<1>4. CASE FirstLoadFails \/ Open \/ OpenFails \/ Return \/ EvaluateReturns
  BY <1>4 DEF FirstLoadFails, Open, OpenFails, Return, EvaluateReturns, Up, Live
<1>5. CASE Receive \/ PostReturns
  BY <1>5 DEF Receive, PostReturns, Answered, Up
<1>6. CASE FireSilently \/ FireRefused \/ FirePost
  BY <1>6 DEF FireSilently, FireRefused, FirePost, Fire, Up
<1>7. CASE StreamNext \/ StreamEnds \/ Forward \/ ForwardCancelled
  BY <1>7 DEF StreamNext, StreamEnds, Forward, ForwardCancelled, Up
<1>8. CASE Signal \/ RunEnded \/ Exit \/ Restart
  BY <1>8 DEF Signal, RunEnded, Exit, Restart, Live
<1> QED
  BY <1>1, <1>2, <1>3, <1>4, <1>5, <1>6, <1>7, <1>8 DEF Next, Run, Stream

LEMMA StartedStep ==
    ASSUME TypeOK, Started, [Next]_vars
    PROVE  Started'
<1> USE DEF inputVars, streamVars, evalVars, pastVars, Started, Busy
<1>1. ASSUME \/ \E e \in Events : Insert(e)
             \/ \E s \in Contents : Edit(s)
             \/ Tick
             \/ \E l \in Loaders : Load(l)
             \/ StreamNext \/ StreamEnds \/ Forward \/ ForwardCancelled
             \/ Signal \/ RunEnded \/ Restart
             \/ Scrape \/ ScrapeEnds
             \/ UNCHANGED vars
      PROVE  UNCHANGED <<run, nth, evaluated>>
  BY <1>1 DEF Insert, Edit, Tick, Load, StreamNext, StreamEnds, Forward, ForwardCancelled,
              Signal, RunEnded, Restart, Scrape, ScrapeEnds, vars
<1>2. ASSUME UNCHANGED <<run, nth, evaluated>>
      PROVE  Started'
  BY <1>2
<1>3. ASSUME NEW l \in Loaders, Install(l)
      PROVE  Started'
  BY <1>3 DEF Install
<1>4. CASE FirstLoadFails \/ Open \/ OpenFails \/ Return \/ EvaluateReturns \/ Exit
  BY <1>4 DEF FirstLoadFails, Open, OpenFails, Return, EvaluateReturns, Exit
<1>5. CASE Receive
  <2>1. evaluated' = Append(evaluated, Head(out)) /\ Head(out) \in Events /\ evaluated \in Seq(Events)
    BY <1>5, HeadTailProperties DEF Receive, TypeOK
  <2>2. evaluated' # <<>>
    BY <2>1, AppendProperties
  <2> QED
    BY <1>5, <2>2 DEF Receive
<1>6. CASE FireSilently \/ FireRefused \/ FirePost \/ PostReturns
  BY <1>6 DEF FireSilently, FireRefused, FirePost, Fire, PostReturns, Answered
<1> QED
  BY <1>1, <1>2, <1>3, <1>4, <1>5, <1>6 DEF Next, Run, Stream

-----------------------------------------------------------------------------
(* The breaker                                                             *)

(* A half-open breaker has counted a success for each of its requests, but *)
(* for the one that is under way.                                          *)
Probed ==
    /\ breaker \in Breakers
    /\ breaker.requests =
          IF breaker.state # "half-open" THEN 0
          ELSE IF run \in {"post", "doomed"} THEN breaker.good + 1 ELSE breaker.good

LEMMA ProbedStep ==
    ASSUME TypeOK, Probed, [Next]_vars
    PROVE  Probed'
<1> USE DEF inputVars, streamVars, evalVars, pastVars
<1>0. breaker \in Breakers
  BY DEF Probed
<1>1. ASSUME NEW b \in Breakers, breaker' = b,
             b.requests = IF b.state # "half-open" THEN 0
                          ELSE IF run' \in {"post", "doomed"} THEN b.good + 1 ELSE b.good
      PROVE  Probed'
  BY <1>1 DEF Probed
<1>2. ASSUME UNCHANGED breaker, run' \in {"post", "doomed"} <=> run \in {"post", "doomed"}
      PROVE  Probed'
  BY <1>2 DEF Probed
<1>3. ASSUME \/ \E e \in Events : Insert(e)
             \/ \E s \in Contents : Edit(s)
             \/ \E l \in Loaders : Load(l) \/ Install(l)
             \/ StreamNext \/ StreamEnds \/ Forward \/ ForwardCancelled
             \/ Signal \/ RunEnded \/ Restart
             \/ Scrape \/ ScrapeEnds
             \/ UNCHANGED vars
      PROVE  /\ UNCHANGED breaker
             /\ run' \in {"post", "doomed"} <=> run \in {"post", "doomed"}
  BY <1>3 DEF Insert, Edit, Load, Install, Loading, StreamNext, StreamEnds, Forward, ForwardCancelled,
              Signal, RunEnded, Restart, Scrape, ScrapeEnds, vars
<1>4. ASSUME FirstLoadFails \/ Open \/ OpenFails \/ Receive \/ Return \/ EvaluateReturns \/ FireSilently
      PROVE  /\ UNCHANGED breaker
             /\ run' \in {"post", "doomed"} <=> run \in {"post", "doomed"}
  BY <1>4 DEF FirstLoadFails, Open, OpenFails, Receive, Return, EvaluateReturns, FireSilently, Fire
<1>5. CASE Tick
  <2>1. Passed(breaker) \in Breakers
    BY <1>0, BreakerTypes
  <2>2. /\ Passed(breaker).state = breaker.state
        /\ Passed(breaker).requests = breaker.requests
        /\ Passed(breaker).good = breaker.good
    BY <1>0 DEF Passed, Breakers
  <2> QED
    BY <1>1, <1>5, <2>1, <2>2 DEF Tick, Probed
<1>6. /\ Current(breaker) \in Breakers
      /\ Current(breaker) = breaker \/ (Current(breaker).requests = 0 /\ Current(breaker).good = 0)
  BY <1>0, BreakerTypes DEF Current, Renewed
<1>7. ASSUME FireRefused \/ FirePost
      PROVE  Current(breaker).requests =
                IF Current(breaker).state # "half-open" THEN 0 ELSE Current(breaker).good
  <2>1. run \notin {"post", "doomed"}
    BY <1>7 DEF FireRefused, FirePost, Fire
  <2> QED
    BY <1>6, <2>1 DEF Probed
<1>8. CASE FireRefused
  <2>1. run' \notin {"post", "doomed"} /\ breaker' = Current(breaker)
    BY <1>8 DEF FireRefused, Fire
  <2> QED
    BY <1>1, <1>6, <1>7, <1>8, <2>1
<1>9. CASE FirePost
  <2>1. run' \in {"post", "doomed"} /\ breaker' = Begun(Current(breaker)) /\ Allows(Current(breaker))
    BY <1>9 DEF FirePost
  <2> DEFINE c == Current(breaker)
  <2>2. c \in Breakers /\ Allows(c)
    BY <1>6, <2>1
  <2>3. c.requests = IF c.state # "half-open" THEN 0 ELSE c.good
    BY <1>7, <1>9
  <2>4. breaker' = Begun(c)
    BY <2>1
  <2> HIDE DEF c
  <2>5. Begun(c) \in Breakers
    BY <2>2, BreakerTypes
  <2>6. Begun(c).requests = IF Begun(c).state # "half-open" THEN 0 ELSE Begun(c).good + 1
    BY <2>2, <2>3 DEF Begun, Breakers
  <2> QED
    BY <1>1, <2>1, <2>4, <2>5, <2>6
<1>10. CASE PostReturns
  <2>1. run \in {"post", "doomed"} /\ run' \notin {"post", "doomed"}
    BY <1>10 DEF PostReturns, Answered
  <2>2. PICK ok \in BOOLEAN : breaker' = Reported(breaker, ok)
    BY <1>10 DEF PostReturns, Answered
  <2>3. Reported(breaker, ok) \in Breakers
    BY <1>0, BreakerTypes
  <2>4. breaker.requests = IF breaker.state # "half-open" THEN 0 ELSE breaker.good + 1
    BY <2>1 DEF Probed
  <2> DEFINE d == Reported(breaker, ok)
  <2>5. d.requests = IF d.state # "half-open" THEN 0 ELSE d.good
    <3>1. CASE Expired(breaker)
      BY <3>1 DEF Reported, Current, Renewed
    <3>2. CASE ~ Expired(breaker) /\ ok
      BY <1>0, <2>4, <3>2 DEF Reported, Succeeded, Renewed, Breakers
    <3>3. CASE ~ Expired(breaker) /\ ~ ok
      BY <1>0, <2>4, <3>3 DEF Reported, Failed, Renewed, Breakers
    <3> QED
      BY <3>1, <3>2, <3>3
  <2> QED
    BY <1>1, <2>1, <2>2, <2>3, <2>5
<1>11. CASE Exit
  <2>1. Renewed("closed") \in Breakers /\ Renewed("closed").state = "closed" /\ Renewed("closed").requests = 0
    BY <1>0, BreakerTypes DEF Renewed
  <2> QED
    BY <1>1, <1>11, <2>1 DEF Exit
<1> QED
  BY <1>2, <1>3, <1>4, <1>5, <1>8, <1>9, <1>10, <1>11 DEF Next, Run, Stream

-----------------------------------------------------------------------------
(* The versions of the rules                                               *)

(* Only the loader whose turn it is holds rules, none older than those in  *)
(* use.                                                                    *)
Ordered ==
    /\ \A l \in Loaders : fresh[l] # 0 => rules <= fresh[l]
    /\ fresh["Run"] # 0 => run = "load"
    /\ fresh["rulesRefresher"] # 0 => run # "load"

LEMMA OrderedStep ==
    ASSUME TypeOK, Early, Ordered, [Next]_vars
    PROVE  Ordered' /\ (rules' >= rules \/ main' = "down")
<1> USE DEF inputVars, streamVars, evalVars, pastVars
<1>0. /\ Len(versions) \in Nat /\ rules \in 0 .. Len(versions)
      /\ fresh \in [Loaders -> 0 .. Len(versions)]
      /\ "Run" \in Loaders /\ "rulesRefresher" \in Loaders
  BY DEF TypeOK, Versions, Loaders
<1>1. ASSUME UNCHANGED <<rules, fresh>>, run' = "load" <=> run = "load"
      PROVE  Ordered' /\ (rules' >= rules \/ main' = "down")
  BY <1>0, <1>1 DEF Ordered
<1>2. ASSUME \/ \E e \in Events : Insert(e)
             \/ \E s \in Contents : Edit(s)
             \/ Tick
             \/ StreamNext \/ StreamEnds \/ Forward \/ ForwardCancelled
             \/ Signal \/ RunEnded \/ Restart
             \/ Scrape \/ ScrapeEnds
             \/ UNCHANGED vars
      PROVE  UNCHANGED <<rules, fresh, run>>
  BY <1>2 DEF Insert, Edit, Tick, StreamNext, StreamEnds, Forward, ForwardCancelled,
              Signal, RunEnded, Restart, Scrape, ScrapeEnds, vars
<1>3. ASSUME \/ Open \/ OpenFails \/ Receive \/ Return \/ EvaluateReturns
             \/ FireSilently \/ FireRefused \/ FirePost \/ PostReturns
      PROVE  UNCHANGED <<rules, fresh>> /\ (run' = "load" <=> run = "load")
  BY <1>3 DEF Open, OpenFails, Receive, Return, EvaluateReturns, FireSilently, FireRefused,
              FirePost, Fire, PostReturns, Answered
<1>4. CASE FirstLoadFails
  <2>1. UNCHANGED <<rules, fresh>> /\ run = "load" /\ run' = "watch" /\ fresh["Run"] = 0
    BY <1>4 DEF FirstLoadFails
  <2> QED
    BY <1>0, <2>1 DEF Ordered
<1>5. ASSUME NEW l \in Loaders, Load(l)
      PROVE  Ordered' /\ (rules' >= rules \/ main' = "down")
  BY <1>0, <1>5 DEF Load, Loading, Ordered, Loaders
<1>6. ASSUME NEW l \in Loaders, Install(l)
      PROVE  Ordered' /\ (rules' >= rules \/ main' = "down")
  BY <1>0, <1>6 DEF Install, Loading, Ordered, Loaders
<1>7. CASE Exit
  BY <1>7 DEF Exit, Ordered, Loaders
<1> QED
  BY <1>1, <1>2, <1>3, <1>4, <1>5, <1>6, <1>7 DEF Next, Run, Stream

-----------------------------------------------------------------------------
(* What the stream delivers                                                *)

(* One more document read. *)
LEMMA SubSeqNext ==
    ASSUME NEW S, NEW s \in Seq(S), NEW m \in Nat, NEW n \in Nat, m <= n, n < Len(s)
    PROVE  /\ SubSeq(s, m + 1, n) \in Seq(S)
           /\ SubSeq(s, m + 1, n + 1) = Append(SubSeq(s, m + 1, n), s[n + 1])
<1>1. \A i \in m + 1 .. n : s[i] \in S
  OBVIOUS
<1>2. SubSeq(s, m + 1, n) \in Seq(S)
  BY <1>1, SubSeqProperties
<1>3. m + 1 \in 1 .. Len(s) /\ n + 1 \in m + 1 .. Len(s) /\ s[n + 1] \in S /\ n + 1 - 1 = n
  OBVIOUS
<1>4. SubSeq(s, m + 1, n + 1) = SubSeq(s, m + 1, n + 1 - 1) \o <<s[n + 1]>>
  BY <1>3, SubSeqRecursiveSecond
<1>5. Append(SubSeq(s, m + 1, n), s[n + 1]) = SubSeq(s, m + 1, n) \o <<s[n + 1]>>
  BY <1>2, <1>3, AppendIsConcat
<1> QED
  BY <1>2, <1>3, <1>4, <1>5

(* What has been read does not depend on what is inserted later. *)
LEMMA SubSeqOfAppend ==
    ASSUME NEW S, NEW s \in Seq(S), NEW x \in S, NEW m \in Nat, NEW n \in Nat, n <= Len(s)
    PROVE  SubSeq(Append(s, x), m + 1, n) = SubSeq(s, m + 1, n)
<1> DEFINE t == Append(s, x)
           u == SubSeq(t, m + 1, n)
           v == SubSeq(s, m + 1, n)
<1>1. t \in Seq(S) /\ Len(t) = Len(s) + 1 /\ \A i \in 1 .. Len(s) : t[i] = s[i]
  BY AppendProperties
<1> HIDE DEF t
<1>2. \A i \in m + 1 .. n : s[i] \in S /\ t[i] \in S
  BY <1>1
<1>3. /\ v \in Seq(S)
      /\ Len(v) = IF m + 1 <= n THEN n - (m + 1) + 1 ELSE 0
      /\ \A i \in 1 .. n - (m + 1) + 1 : v[i] = s[m + 1 + i - 1]
  BY <1>2, SubSeqProperties
<1>4. /\ u \in Seq(S)
      /\ Len(u) = IF m + 1 <= n THEN n - (m + 1) + 1 ELSE 0
      /\ \A i \in 1 .. n - (m + 1) + 1 : u[i] = t[m + 1 + i - 1]
  BY <1>2, SubSeqProperties
<1> HIDE DEF u, v
<1>5. Len(u) = Len(v)
  BY <1>3, <1>4
<1>6. ASSUME NEW i \in 1 .. Len(u)
      PROVE  u[i] = v[i]
  <2>1. i \in 1 .. n - (m + 1) + 1 /\ m + 1 + i - 1 \in 1 .. Len(s)
    BY <1>4
  <2> QED
    BY <1>1, <1>3, <1>4, <2>1
<1>7. u = v
  BY <1>3, <1>4, <1>5, <1>6, SeqEqual
<1> QED
  BY <1>7 DEF u, v, t

(* A document that goes from one queue to another keeps its place. *)
LEMMA HeadMoves ==
    ASSUME NEW S, NEW s \in Seq(S), NEW t \in Seq(S), t # <<>>
    PROVE  Append(s, Head(t)) \o Tail(t) = s \o t
<1>1. Head(t) \in S /\ Tail(t) \in Seq(S) /\ <<Head(t)>> \in Seq(S)
  BY HeadTailProperties
<1>2. t = <<Head(t)>> \o Tail(t)
  <2>1. Len(t) \in Nat \ {0}
    BY EmptySeq
  <2>2. SubSeq(t, 1, Len(t)) = <<t[1]>> \o SubSeq(t, 1 + 1, Len(t))
    BY <2>1, SubSeqRecursiveFirst
  <2>3. SubSeq(t, 1, Len(t)) = t
    BY SubSeqFull
  <2>4. Tail(t) = SubSeq(t, 2, Len(t)) /\ Head(t) = t[1] /\ 1 + 1 = 2
    BY TailIsSubSeq
  <2> QED
    BY <2>2, <2>3, <2>4
<1>3. Append(s, Head(t)) = s \o <<Head(t)>>
  BY <1>1, AppendIsConcat
<1>4. (s \o <<Head(t)>>) \o Tail(t) = s \o (<<Head(t)>> \o Tail(t))
  BY <1>1, ConcatAssociative
<1> QED
  BY <1>2, <1>3, <1>4

LEMMA StreamStep ==
    ASSUME TypeOK, Early, StreamIsKept, [Next]_vars
    PROVE  StreamIsKept'
<1> USE DEF inputVars, streamVars, evalVars, pastVars
<1> DEFINE W == {e \in Events : Wanted(e)}
           Chosen == Selected(SubSeq(oplog, opened + 1, read), W)
           Line == evaluated \o out \o held
<1>0. /\ oplog \in Seq(Events) /\ Len(oplog) \in Nat
      /\ opened \in Nat /\ read \in Nat /\ opened <= read /\ read <= Len(oplog)
      /\ evaluated \in Seq(Events) /\ out \in Seq(Events) /\ held \in Seq(Events)
      /\ watch # "send" => held = <<>>
  BY EmptySeq DEF TypeOK
<1>p. (Live' => Line' = Chosen') => StreamIsKept'
  BY DEF StreamIsKept
<1>l. Live => Line = Chosen
  BY DEF StreamIsKept
<1>1. ASSUME UNCHANGED <<oplog, opened, read, evaluated, out, held>>, Live' => Live
      PROVE  StreamIsKept'
  BY <1>1, <1>l, <1>p
<1>2. ASSUME \/ \E s \in Contents : Edit(s)
             \/ Tick
             \/ \E l \in Loaders : Load(l) \/ Install(l)
             \/ StreamEnds
             \/ Signal \/ RunEnded
             \/ Scrape \/ ScrapeEnds
             \/ UNCHANGED vars
      PROVE  UNCHANGED <<oplog, opened, read, evaluated, out, held>> /\ (Live' => Live)
  BY <1>2 DEF Edit, Tick, Load, Install, StreamEnds, Signal, RunEnded, Live, Scrape, ScrapeEnds, vars
<1>3. ASSUME \/ FirstLoadFails \/ OpenFails \/ Return \/ EvaluateReturns
             \/ FireSilently \/ FireRefused \/ FirePost \/ PostReturns
      PROVE  UNCHANGED <<oplog, opened, read, evaluated, out, held>> /\ (Live' => Live)
  BY <1>3 DEF FirstLoadFails, OpenFails, Return, EvaluateReturns, FireSilently, FireRefused,
              FirePost, Fire, PostReturns, Live
<1>4. ASSUME NEW e \in Events, Insert(e)
      PROVE  StreamIsKept'
  <2>1. UNCHANGED <<main, opened, read, evaluated, out, held>> /\ oplog' = Append(oplog, e)
    BY <1>4 DEF Insert
  <2>2. SubSeq(Append(oplog, e), opened + 1, read) = SubSeq(oplog, opened + 1, read)
    BY <1>0, SubSeqOfAppend
  <2> QED
    BY <1>l, <1>p, <2>1, <2>2 DEF Live
<1>5. ASSUME evaluated' = <<>>, out' = <<>>, held' = <<>>, UNCHANGED oplog,
             opened' \in Nat, read' = opened'
      PROVE  StreamIsKept'
  <2>1. SubSeq(oplog', opened' + 1, read') = <<>>
    <3>1. PICK m \in Nat : opened' = m /\ read' = m
      BY <1>5
    <3>2. m + 1 \in Int /\ m \in Int /\ m < m + 1
      OBVIOUS
    <3>3. SubSeq(oplog', m + 1, m) = <<>>
      BY <3>2, SubSeqEmpty
    <3> QED
      BY <3>1, <3>3
  <2>2. Chosen' = <<>>
    BY <2>1, SelectedEmpty
  <2>3. Line' = <<>>
    BY <1>5, ConcatEmptySeq
  <2> QED
    BY <1>p, <2>2, <2>3
<1>6. CASE Open
  BY <1>0, <1>5, <1>6 DEF Open, Early
<1>7. CASE Restart
  BY <1>0, <1>5, <1>7 DEF Restart, Early
<1>8. CASE StreamNext
  <2> DEFINE x == oplog[read + 1]
             s == SubSeq(oplog, opened + 1, read)
  <2>1. x \in Events /\ held = <<>> /\ read < Len(oplog)
    BY <1>0, <1>8 DEF StreamNext
  <2>2. s \in Seq(Events) /\ SubSeq(oplog, opened + 1, read + 1) = Append(s, x)
    BY <1>0, <2>1, SubSeqNext
  <2>3. UNCHANGED <<main, oplog, opened, evaluated, out>> /\ read' = read + 1
    BY <1>8 DEF StreamNext
  <2>4. Chosen' = Selected(Append(s, x), W)
    BY <2>2, <2>3
  <2>5. Chosen = Selected(s, W)
    OBVIOUS
  <2>6. IF x \in W THEN held' = <<x>> ELSE held' = held
    BY <1>8, <2>1 DEF StreamNext
  <2> HIDE DEF x, s, W, Chosen
  <2>7. Chosen' = IF x \in W THEN Append(Chosen, x) ELSE Chosen
    BY <2>1, <2>2, <2>4, <2>5, SelectedAppend
  <2>8. evaluated \o out \in Seq(Events)
    BY <1>0, ConcatProperties
  <2>9. Line = evaluated \o out
    BY <2>1, <2>8, ConcatEmptySeq
  <2>10. x \in W => Line' = Append(Line, x)
    BY <2>1, <2>3, <2>6, <2>8, <2>9, AppendIsConcat
  <2>11. x \notin W => Line' = Line
    BY <2>3, <2>6
  <2>12. Live' => Live
    BY <2>3 DEF Live
  <2> HIDE DEF Line
  <2> QED
    BY <1>l, <1>p, <2>7, <2>10, <2>11, <2>12
<1>9. CASE Forward
  <2>1. UNCHANGED <<main, oplog, opened, read, evaluated>> /\ out' = out \o held /\ held' = <<>>
    BY <1>9 DEF Forward
  <2>2. out \o held \in Seq(Events) /\ evaluated \o (out \o held) \in Seq(Events)
    BY <1>0, ConcatProperties
  <2>3. (evaluated \o (out \o held)) \o <<>> = evaluated \o (out \o held)
    BY <2>2, ConcatEmptySeq
  <2>4. (evaluated \o out) \o held = evaluated \o (out \o held)
    BY <1>0, ConcatAssociative
  <2>5. Line' = Line
    BY <2>1, <2>3, <2>4
  <2> QED
    BY <1>l, <1>p, <2>1, <2>5 DEF Live
<1>10. CASE Receive
  <2>1. /\ UNCHANGED <<main, oplog, opened, read, held>>
        /\ evaluated' = Append(evaluated, Head(out)) /\ out' = Tail(out) /\ out # <<>>
    BY <1>10 DEF Receive
  <2>2. Append(evaluated, Head(out)) \o Tail(out) = evaluated \o out
    BY <1>0, <2>1, HeadMoves
  <2> QED
    BY <1>l, <1>p, <2>1, <2>2 DEF Live
<1>11. CASE ForwardCancelled \/ Exit
  <2>1. ~ Live'
    BY <1>11 DEF ForwardCancelled, Exit, Live
  <2> QED
    BY <1>p, <2>1
<1> QED
  BY <1>1, <1>2, <1>3, <1>4, <1>6, <1>7, <1>8, <1>9, <1>10, <1>11 DEF Next, Run, Stream

-----------------------------------------------------------------------------
(* Each document is evaluated once                                         *)

NoRepeats(s) == \A i, j \in 1 .. Len(s) : s[i] = s[j] => i = j

Delivered == {oplog[i] : i \in 1 .. read}

(* A document the stream has delivered is held, in the channel or          *)
(* evaluated, and in one place only.                                       *)
OnePlace ==
    /\ NoRepeats(oplog) /\ NoRepeats(evaluated) /\ NoRepeats(out)
    /\ Range(evaluated) \cap Range(out) = {}
    /\ Range(held) \cap (Range(evaluated) \cup Range(out)) = {}
    /\ Range(evaluated) \cup Range(out) \cup Range(held) \subseteq Delivered

LEMMA RangeAppend ==
    ASSUME NEW S, NEW s \in Seq(S), NEW x \in S
    PROVE  /\ Range(Append(s, x)) = Range(s) \cup {x}
           /\ NoRepeats(s) /\ x \notin Range(s) => NoRepeats(Append(s, x))
<1> DEFINE t == Append(s, x)
<1>1. /\ t \in Seq(S) /\ Len(t) = Len(s) + 1
      /\ t[Len(s) + 1] = x /\ \A i \in 1 .. Len(s) : t[i] = s[i]
  BY AppendProperties
<1> HIDE DEF t
<1>2. Range(t) = {t[i] : i \in 1 .. Len(t)} /\ Range(s) = {s[i] : i \in 1 .. Len(s)}
  BY <1>1, RangeEquality
<1>3. Len(s) \in Nat
  OBVIOUS
<1>4. Range(t) = Range(s) \cup {x}
  BY <1>1, <1>2, <1>3
<1>5. ASSUME NoRepeats(s), x \notin Range(s)
      PROVE  NoRepeats(t)
  BY <1>1, <1>2, <1>3, <1>5 DEF NoRepeats
<1> QED
  BY <1>4, <1>5 DEF t

LEMMA RangeTail ==
    ASSUME NEW S, NEW s \in Seq(S), s # <<>>, NoRepeats(s)
    PROVE  /\ NoRepeats(Tail(s))
           /\ Head(s) \in Range(s)
           /\ Range(Tail(s)) = Range(s) \ {Head(s)}
<1> DEFINE t == Tail(s)
<1>1. /\ t \in Seq(S) /\ Len(t) = Len(s) - 1
      /\ \A i \in 1 .. Len(t) : t[i] = s[i + 1]
      /\ Head(s) = s[1]
  BY HeadTailProperties
<1> HIDE DEF t
<1>2. Range(t) = {t[i] : i \in 1 .. Len(t)} /\ Range(s) = {s[i] : i \in 1 .. Len(s)}
  BY <1>1, RangeEquality
<1>3. Len(s) \in Nat \ {0}
  BY EmptySeq
<1>4. Head(s) \in Range(s)
  BY <1>1, <1>2, <1>3
<1>5. NoRepeats(t)
  BY <1>1, <1>3 DEF NoRepeats
<1>6. ASSUME NEW x \in Range(t)
      PROVE  x \in Range(s) \ {Head(s)}
  <2>1. PICK i \in 1 .. Len(t) : x = t[i]
    BY <1>2
  <2>2. i + 1 \in 1 .. Len(s) /\ i + 1 # 1 /\ x = s[i + 1] /\ 1 \in 1 .. Len(s)
    BY <1>1, <1>3, <2>1
  <2>3. s[i + 1] # s[1]
    BY <2>2 DEF NoRepeats
  <2> QED
    BY <1>1, <1>2, <2>2, <2>3
<1>7. ASSUME NEW x \in Range(s) \ {Head(s)}
      PROVE  x \in Range(t)
  <2>1. PICK i \in 1 .. Len(s) : x = s[i]
    BY <1>2
  <2>2. i # 1
    BY <1>1, <2>1
  <2>3. i - 1 \in 1 .. Len(t) /\ t[i - 1] = x
    BY <1>1, <1>3, <2>1, <2>2
  <2> QED
    BY <1>2, <2>3
<1>8. Range(t) = Range(s) \ {Head(s)}
  BY <1>6, <1>7
<1> QED
  BY <1>4, <1>5, <1>8 DEF t

LEMMA SingleSeq ==
    ASSUME NEW S, NEW s \in Seq(S), Len(s) = 1
    PROVE  s = <<s[1]>> /\ s[1] \in S
<1>1. s[1] \in S
  BY ElementOfSeq
<1>2. <<s[1]>> \in Seq(S) /\ Len(<<s[1]>>) = 1 /\ \A i \in 1 .. Len(s) : s[i] = <<s[1]>>[i]
  BY <1>1
<1> QED
  BY <1>1, <1>2, SeqEqual

LEMMA RangeOfOne ==
    ASSUME NEW x
    PROVE  Range(<<x>>) = {x}
<1>1. DOMAIN <<x>> = {1} /\ <<x>>[1] = x
  OBVIOUS
<1> QED
  BY <1>1 DEF Range

LEMMA RangeOfNone == Range(<<>>) = {} /\ NoRepeats(<<>>)
<1>1. <<>> \in Seq({}) /\ Len(<<>>) = 0
  BY EmptySeq
<1>2. Range(<<>>) = {<<>>[i] : i \in 1 .. Len(<<>>)}
  BY <1>1, RangeEquality
<1> QED
  BY <1>1, <1>2 DEF NoRepeats

LEMMA OnePlaceStep ==
    ASSUME TypeOK, Early, OnePlace, [Next]_vars
    PROVE  OnePlace'
<1> USE DEF inputVars, streamVars, evalVars, pastVars
<1>0. /\ oplog \in Seq(Events) /\ Len(oplog) \in Nat
      /\ read \in Nat /\ read <= Len(oplog)
      /\ evaluated \in Seq(Events) /\ out \in Seq(Events) /\ held \in Seq(Events)
      /\ watch = "send" => Len(held) = 1
      /\ watch # "send" => held = <<>>
  BY EmptySeq DEF TypeOK
<1>1. ASSUME UNCHANGED <<oplog, read, evaluated, out, held>>
      PROVE  OnePlace'
  BY <1>1 DEF OnePlace, Delivered
<1>2. ASSUME \/ \E s \in Contents : Edit(s)
             \/ Tick
             \/ \E l \in Loaders : Load(l) \/ Install(l)
             \/ StreamEnds
             \/ Signal \/ RunEnded \/ Restart
             \/ Scrape \/ ScrapeEnds
             \/ UNCHANGED vars
      PROVE  UNCHANGED <<oplog, read, evaluated, out, held>>
  BY <1>2 DEF Edit, Tick, Load, Install, StreamEnds, Signal, RunEnded, Restart, Scrape, ScrapeEnds, vars
<1>3. ASSUME \/ FirstLoadFails \/ OpenFails \/ Return \/ EvaluateReturns
             \/ FireSilently \/ FireRefused \/ FirePost \/ PostReturns
      PROVE  UNCHANGED <<oplog, read, evaluated, out, held>>
  BY <1>3 DEF FirstLoadFails, OpenFails, Return, EvaluateReturns, FireSilently, FireRefused,
              FirePost, Fire, PostReturns
<1>4. ASSUME NEW e \in Events, Insert(e)
      PROVE  OnePlace'
  <2>1. /\ UNCHANGED <<read, evaluated, out, held>>
        /\ oplog' = Append(oplog, e) /\ e \notin Range(oplog)
    BY <1>4 DEF Insert
  <2>2. NoRepeats(oplog')
    BY <1>0, <2>1, RangeAppend DEF OnePlace
  <2>3. \A i \in 1 .. Len(oplog) : oplog'[i] = oplog[i]
    BY <1>0, <2>1, AppendProperties
  <2>4. \A i \in 1 .. read : oplog'[i] = oplog[i]
    <3>1. 1 .. read \subseteq 1 .. Len(oplog)
      BY <1>0
    <3> QED
      BY <2>3, <3>1
  <2>5. Delivered' = {oplog'[i] : i \in 1 .. read}
    BY <2>1 DEF Delivered
  <2>6. Delivered' = Delivered
    BY <2>4, <2>5 DEF Delivered
  <2> QED
    BY <2>1, <2>2, <2>6 DEF OnePlace
<1>5. ASSUME evaluated' = <<>>, out' = <<>>, held' = <<>>, UNCHANGED oplog
      PROVE  OnePlace'
  BY <1>5, RangeOfNone DEF OnePlace
<1>6. CASE Open
  <2>1. evaluated' = <<>> /\ out' = <<>> /\ held' = <<>> /\ UNCHANGED oplog
    BY <1>6 DEF Open, Early
  <2> QED
    BY <1>5, <2>1
<1>7. CASE Exit
  BY <1>5, <1>7 DEF Exit
<1>8. CASE StreamNext
  <2> DEFINE x == oplog[read + 1]
  <2>1. /\ held = <<>> /\ read < Len(oplog) /\ read' = read + 1
        /\ UNCHANGED <<oplog, evaluated, out>>
        /\ held' = <<x>> \/ held' = held
    BY <1>0, <1>8 DEF StreamNext
  <2>2. read + 1 \in 1 .. Len(oplog) /\ \A i \in 1 .. read : i \in 1 .. Len(oplog) /\ i # read + 1
    BY <1>0, <2>1
  <2>3. x \notin Delivered
    BY <2>2 DEF OnePlace, NoRepeats, Delivered
  <2>4. Delivered' = Delivered \cup {x}
    <3>1. 1 .. (read + 1) = (1 .. read) \cup {read + 1}
      BY <1>0
    <3> QED
      BY <2>1, <3>1 DEF Delivered
  <2> HIDE DEF x
  <2>5. Range(held') \subseteq {x}
    BY <2>1, RangeOfOne, RangeOfNone
  <2> QED
    BY <2>1, <2>3, <2>4, <2>5 DEF OnePlace
<1>9. CASE Forward
  <2> DEFINE x == held[1]
  <2>1. /\ UNCHANGED <<oplog, read, evaluated>>
        /\ out' = out \o held /\ held' = <<>> /\ Len(held) = 1
    BY <1>0, <1>9 DEF Forward
  <2>2. held = <<x>> /\ x \in Events
    BY <1>0, <2>1, SingleSeq
  <2> HIDE DEF x
  <2>3. out' = Append(out, x)
    BY <1>0, <2>1, <2>2, AppendIsConcat
  <2>4. Range(held) = {x} /\ Range(held') = {}
    BY <2>1, <2>2, RangeOfOne, RangeOfNone
  <2>5. x \notin Range(out) /\ x \notin Range(evaluated)
    BY <2>4 DEF OnePlace
  <2>6. NoRepeats(out') /\ Range(out') = Range(out) \cup {x}
    BY <1>0, <2>2, <2>3, <2>5, RangeAppend DEF OnePlace
  <2>7. Delivered' = Delivered
    BY <2>1 DEF Delivered
  <2> QED
    BY <2>1, <2>4, <2>5, <2>6, <2>7 DEF OnePlace
<1>10. CASE ForwardCancelled
  <2>1. UNCHANGED <<oplog, read, evaluated, out>> /\ held' = <<>>
    BY <1>10 DEF ForwardCancelled
  <2>2. Delivered' = Delivered
    BY <2>1 DEF Delivered
  <2> QED
    BY <2>1, <2>2, RangeOfNone DEF OnePlace
<1>11. CASE Receive
  <2> DEFINE x == Head(out)
  <2>1. /\ UNCHANGED <<oplog, read, held>> /\ out # <<>>
        /\ evaluated' = Append(evaluated, x) /\ out' = Tail(out)
    BY <1>11 DEF Receive
  <2>2. x \in Events
    BY <1>0, <2>1, HeadTailProperties
  <2>3. NoRepeats(out') /\ x \in Range(out) /\ Range(out') = Range(out) \ {x}
    BY <1>0, <2>1, RangeTail DEF OnePlace
  <2> HIDE DEF x
  <2>4. x \notin Range(evaluated)
    BY <2>3 DEF OnePlace
  <2>5. NoRepeats(evaluated') /\ Range(evaluated') = Range(evaluated) \cup {x}
    BY <1>0, <2>1, <2>2, <2>4, RangeAppend DEF OnePlace
  <2>6. Delivered' = Delivered
    BY <2>1 DEF Delivered
  <2> QED
    BY <2>1, <2>3, <2>5, <2>6 DEF OnePlace
<1> QED
  BY <1>1, <1>2, <1>3, <1>4, <1>6, <1>7, <1>8, <1>9, <1>10, <1>11 DEF Next, Run, Stream

-----------------------------------------------------------------------------
(* The alerts of a document                                                *)

(* The matches of the document evaluate is at are fired up to the next     *)
(* one, of a document not yet evaluated none.                              *)
FiredSoFar ==
    /\ \A e \in Events : e \notin Range(evaluated) => fired[e] = {}
    /\ Busy => /\ nth <= Len(Matches(snap, Event)) + 1
               /\ fired[Event] = {Matches(snap, Event)[i] : i \in 1 .. nth - 1}

(* A version keeps its place in the history. *)
LEMMA VersionsKept ==
    ASSUME TypeOK, [Next]_vars
    PROVE  /\ Versions \subseteq Versions'
           /\ \A v \in Versions : \A e : Matches(v, e)' = Matches(v, e)
<1> USE DEF inputVars
<1>0. versions \in Seq(Contents) /\ Len(versions) \in Nat
  BY DEF TypeOK
<1>1. ASSUME UNCHANGED versions
      PROVE  /\ Versions \subseteq Versions'
             /\ \A v \in Versions : \A e : Matches(v, e)' = Matches(v, e)
  BY <1>1 DEF Versions, Matches, Compiled
<1>2. ASSUME NEW s \in Contents, Edit(s)
      PROVE  /\ Versions \subseteq Versions'
             /\ \A v \in Versions : \A e : Matches(v, e)' = Matches(v, e)
  <2>1. versions' = Append(versions, s)
    BY <1>2 DEF Edit
  <2>2. /\ Len(versions') = Len(versions) + 1
        /\ \A v \in 1 .. Len(versions) : versions'[v] = versions[v]
    BY <1>0, <2>1, AppendProperties
  <2>3. Versions \subseteq Versions'
    BY <1>0, <2>2 DEF Versions
  <2>4. \A v \in Versions : Compiled(v)' = Compiled(v)
    BY <1>0, <2>2 DEF Versions, Compiled
  <2>5. \A v \in Versions : \A e : Matches(v, e)' = Matches(v, e)
    BY <2>4 DEF Matches
  <2> QED
    BY <2>3, <2>5
<1>3. ASSUME \/ \E e \in Events : Insert(e)
             \/ Tick
             \/ \E l \in Loaders : Load(l) \/ Install(l)
             \/ Run \/ Stream \/ StreamEnds
             \/ Signal \/ RunEnded \/ Exit \/ Restart
             \/ Scrape \/ ScrapeEnds
             \/ UNCHANGED vars
      PROVE  UNCHANGED versions
  BY <1>3 DEF Insert, Tick, Load, Install, Run, FirstLoadFails, Open, OpenFails, Receive, Return,
              EvaluateReturns, FireSilently, FireRefused, FirePost, PostReturns, Stream, StreamNext,
              Forward, ForwardCancelled, StreamEnds, Signal, RunEnded, Exit, Restart, Scrape, ScrapeEnds, vars
<1> QED
  BY <1>1, <1>2, <1>3 DEF Next
(* A document that is not being evaluated has the alerts of a version. *)
OldAlerts(e) == \E v \in Versions : fired[e] = Range(Matches(v, e))

LEMMA FiredStep ==
    ASSUME TypeOK, Early, Started, OnePlace, FiredSoFar, OneVersionPerEvent, [Next]_vars
    PROVE  FiredSoFar' /\ OneVersionPerEvent'
<1> USE DEF inputVars, streamVars, evalVars, pastVars
<1>0. /\ evaluated \in Seq(Events) /\ out \in Seq(Events) /\ nth \in Nat
      /\ fired \in [Events -> SUBSET (Rules \cup {Default})]
      /\ rules \in Versions /\ snap \in Versions /\ versions \in Seq(Contents)
  BY DEF TypeOK
<1>v. /\ Versions \subseteq Versions'
      /\ \A v \in Versions : \A e : Matches(v, e)' = Matches(v, e)
  BY VersionsKept
<1>o. \A e \in Range(evaluated) : ~Evaluating(e) => OldAlerts(e)
  BY DEF OneVersionPerEvent, OldAlerts
<1>k. ASSUME NEW e, OldAlerts(e), fired'[e] = fired[e]
      PROVE  OldAlerts(e)'
  BY <1>v, <1>k DEF OldAlerts
<1>p. (\A e \in Range(evaluated)' : ~Evaluating(e)' => OldAlerts(e)') => OneVersionPerEvent'
  BY DEF OneVersionPerEvent, OldAlerts
<1>1. ASSUME UNCHANGED <<evaluated, fired, snap, nth>>, Busy' <=> Busy
      PROVE  FiredSoFar' /\ OneVersionPerEvent'
  <2>1. Event' = Event
    BY <1>1 DEF Event
  <2>2. Matches(snap, Event)' = Matches(snap, Event)
    BY <1>0, <1>v, <1>1, <2>1
  <2>3. FiredSoFar'
    BY <1>1, <2>1, <2>2 DEF FiredSoFar
  <2>4. \A e : Evaluating(e)' <=> Evaluating(e)
    BY <1>1, <2>1 DEF Evaluating, Busy
  <2>5. OneVersionPerEvent'
    BY <1>1, <1>o, <1>k, <1>p, <2>4
  <2> QED
    BY <2>3, <2>5
<1>2. ASSUME \/ \E e \in Events : Insert(e)
             \/ \E s \in Contents : Edit(s)
             \/ Tick
             \/ \E l \in Loaders : Load(l) \/ Install(l)
             \/ StreamNext \/ StreamEnds \/ Forward \/ ForwardCancelled
             \/ Signal \/ RunEnded \/ Restart
             \/ Scrape \/ ScrapeEnds
             \/ UNCHANGED vars
      PROVE  UNCHANGED <<evaluated, fired, snap, nth>> /\ (Busy' <=> Busy)
  BY <1>2 DEF Insert, Edit, Tick, Load, Install, Loading, StreamNext, StreamEnds, Forward,
              ForwardCancelled, Signal, RunEnded, Restart, Busy, Scrape, ScrapeEnds, vars
<1>3. ASSUME FirstLoadFails \/ Open \/ OpenFails \/ Return \/ PostReturns
      PROVE  UNCHANGED <<evaluated, fired, snap, nth>> /\ (Busy' <=> Busy)
  BY <1>3 DEF FirstLoadFails, Open, OpenFails, Return, PostReturns, Answered, Busy
<1>4. CASE Receive
  <2>0. out # <<>> /\ Head(out) \in Events /\ Head(out) \in Range(out)
    BY <1>0, <1>4, HeadTailProperties, RangeTail DEF Receive, OnePlace
  <2>x. PICK x \in Events : x = Head(out)
    BY <2>0
  <2>1. /\ run = "select" /\ run' = "fire" /\ snap' = rules /\ nth' = 1 /\ fired' = fired
        /\ evaluated' = Append(evaluated, x)
    BY <1>4, <2>x DEF Receive
  <2>3. x \notin Range(evaluated)
    BY <2>0, <2>x DEF OnePlace
  <2>4. Range(evaluated') = Range(evaluated) \cup {x}
    BY <1>0, <2>1, RangeAppend
  <2>5. Event' = x
    BY <1>0, <2>1, AppendProperties DEF Event
  <2>6. Len(Matches(snap, x)') \in Nat
    <3>1. Len(Matches(rules, x)) \in Nat
      BY <1>0, MatchesType
    <3>2. PICK v \in Versions : v = rules
      BY <1>0
    <3>3. Matches(v, x)' = Matches(v, x)
      BY <1>v
    <3> QED
      BY <2>1, <3>1, <3>2, <3>3
  <2>7. fired'[x] = {}
    BY <2>1, <2>3 DEF FiredSoFar
  <2>8. FiredSoFar'
    BY <2>1, <2>4, <2>5, <2>6, <2>7 DEF FiredSoFar
  <2>9. \A e \in Range(evaluated) : OldAlerts(e)
    BY <1>o, <2>1 DEF Evaluating
  <2>10. \A e \in Range(evaluated') : ~ Evaluating(e)' => e \in Range(evaluated)
    BY <2>1, <2>4, <2>5 DEF Evaluating
  <2>11. OneVersionPerEvent'
    BY <1>k, <1>p, <2>1, <2>9, <2>10
  <2> QED
    BY <2>8, <2>11
<1>5. CASE FireSilently \/ FireRefused \/ FirePost
  <2>1. /\ fired' = [fired EXCEPT ![Event] = @ \cup {Match}]
        /\ nth' = nth + 1 /\ Busy /\ Busy' /\ Left
        /\ UNCHANGED <<evaluated, snap, versions>>
    BY <1>5 DEF FireSilently, FireRefused, FirePost, Fire, Busy
  <2>2. /\ nth \in 1 .. Len(Matches(snap, Event))
        /\ Match = Matches(snap, Event)[nth]
        /\ Event \in Events /\ Event' = Event
    BY <2>1, MatchType, EventType DEF Started, Event
  <2> DEFINE m == Matches(snap, Event)
  <2>3. Matches(snap, Event)' = m
    BY <1>0, <1>v, <2>1, <2>2
  <2>4. m \in Seq(Rules \cup {Default})
    BY <1>0, MatchesType
  <2>5. fired[Event] = {m[i] : i \in 1 .. nth - 1}
    BY <2>1 DEF FiredSoFar
  <2>6. fired'[Event] = {m[i] : i \in 1 .. nth - 1} \cup {m[nth]}
    BY <1>0, <2>1, <2>2, <2>5
  <2>7. \A e \in Events : e # Event => fired'[e] = fired[e]
    BY <1>0, <2>1
  <2>8. Event \in Range(evaluated)
    BY <1>0, <2>1, EmptySeq DEF Started, Event, Range
  <2> HIDE DEF m
  <2>9. fired'[Event] = {m[i] : i \in 1 .. nth' - 1} /\ nth' <= Len(m) + 1
    BY <1>0, <2>1, <2>2, <2>4, <2>6 DEF m
  <2>10. \A e \in Events : e \notin Range(evaluated') => fired'[e] = {}
    BY <2>1, <2>7, <2>8 DEF FiredSoFar
  <2>11. FiredSoFar'
    BY <2>2, <2>3, <2>9, <2>10 DEF FiredSoFar
  <2>12. \A e : Evaluating(e) /\ Evaluating(e)' <=> e = Event
    BY <2>1, <2>2 DEF Evaluating, Busy
  <2>13. ASSUME NEW e \in Range(evaluated'), ~ Evaluating(e)'
         PROVE  OldAlerts(e)'
    <3>1. e \in Range(evaluated) /\ e # Event /\ ~ Evaluating(e)
      BY <2>1, <2>2, <2>13 DEF Evaluating, Busy
    <3>2. e \in Events
      BY <1>0, <3>1 DEF Range
    <3> QED
      BY <1>o, <1>k, <2>7, <3>1, <3>2
  <2>14. OneVersionPerEvent'
    BY <1>p, <2>13
  <2> QED
    BY <2>11, <2>14
<1>6. CASE EvaluateReturns
  <2>1. /\ run = "fire" /\ Busy /\ run' = "select" /\ ~ Left
        /\ UNCHANGED <<evaluated, fired, versions>>
    BY <1>6 DEF EvaluateReturns, Busy
  <2>2. ~ Busy' /\ FiredSoFar'
    BY <2>1 DEF FiredSoFar, Busy
  <2> DEFINE m == Matches(snap, Event)
  <2>3. m \in Seq(Rules \cup {Default})
    BY <1>0, MatchesType
  <2>4. nth - 1 = Len(m)
    <3>1. ~ (nth <= Len(m)) /\ nth <= Len(m) + 1 /\ Len(m) \in Nat
      BY <2>1, <2>3 DEF Left, Iterated, FiredSoFar
    <3> HIDE DEF m
    <3> QED
      BY <1>0, <3>1
  <2>5. fired[Event] = {m[i] : i \in 1 .. Len(m)}
    BY <2>1, <2>4 DEF FiredSoFar
  <2>6. OldAlerts(Event)
    BY <1>0, <2>3, <2>5, RangeEquality DEF OldAlerts
  <2>7. \A e \in Range(evaluated) : OldAlerts(e)
    BY <1>o, <2>6 DEF Evaluating
  <2>8. OneVersionPerEvent'
    BY <1>k, <1>p, <2>1, <2>7
  <2> QED
    BY <2>2, <2>8
<1>7. CASE Exit
  <2>1. evaluated' = <<>> /\ fired' = [e \in Events |-> {}] /\ ~ Busy'
    BY <1>7 DEF Exit, Busy
  <2>2. Range(evaluated') = {}
    BY <2>1, RangeOfNone
  <2> QED
    BY <1>p, <2>1, <2>2 DEF FiredSoFar
<1> QED
  BY <1>1, <1>2, <1>3, <1>4, <1>5, <1>6, <1>7 DEF Next, Run, Stream

-----------------------------------------------------------------------------
(* The theorems                                                            *)

Works ==
    /\ TypeOK
    /\ Early
    /\ Started
    /\ Probed
    /\ Ordered
    /\ StreamIsKept
    /\ OnePlace
    /\ FiredSoFar
    /\ OneVersionPerEvent

LEMMA WorksInit == Init => Works
<1> SUFFICES ASSUME Init
             PROVE  Works
  OBVIOUS
<1>1. PICK s \in Contents : versions = <<s>>
  BY DEF Init
<1>2. TypeOK
  <2>1. versions \in Seq(Contents) \ {<<>>} /\ Len(versions) = 1
    BY <1>1
  <2>2. breaker \in Breakers
    BY BreakerAssumption DEF Init, Renewed, Breakers
  <2>3. InputsTyped /\ PlacesTyped
    <3>1. enabled \in BOOLEAN /\ scraping \in BOOLEAN
      BY Zenon DEF Init
    <3>2. oplog \in Seq(Events) /\ handled \subseteq Events /\ promised \in -1 .. Len(oplog)
      BY DEF Init
    <3> QED
      BY <2>1, <3>1, <3>2 DEF Init, InputsTyped, PlacesTyped
  <2>4. RulesTyped
    BY <2>1 DEF Init, RulesTyped, Versions
  <2>5. AlertsTyped
    BY <2>2, AlerterAssumption DEF Init, AlertsTyped
  <2>6. <<>> \in Seq(Events) /\ Len(<<>>) = 0
    BY EmptySeq
  <2>7. oplog = <<>> /\ held = <<>> /\ out = <<>> /\ evaluated = <<>>
    BY DEF Init
  <2>8. StreamTyped
    BY <2>6, <2>7 DEF Init, StreamTyped
  <2>9. QueueTyped
    BY <2>6, <2>7, AlerterAssumption DEF QueueTyped
  <2> QED
    BY <2>3, <2>4, <2>5, <2>8, <2>9, TypeParts
<1>3. Early /\ Started
  BY DEF Init, Early, Started, Busy
<1>4. Probed
  BY <1>2 DEF Init, Probed, TypeOK, Renewed
<1>5. Ordered
  BY DEF Init, Ordered, Loaders
<1>6. StreamIsKept
  <2>1. opened + 1 = 1 /\ read = 0 /\ evaluated = <<>> /\ out = <<>> /\ held = <<>>
    BY DEF Init
  <2>2. SubSeq(oplog, 1, 0) = <<>>
    BY SubSeqEmpty
  <2>3. evaluated \o out \o held = <<>>
    BY <2>1, ConcatEmptySeq
  <2>4. Selected(SubSeq(oplog, opened + 1, read), {e \in Events : Wanted(e)}) = <<>>
    BY <2>1, <2>2, SelectedEmpty
  <2> QED
    BY <2>3, <2>4 DEF StreamIsKept
<1>7. OnePlace
  BY RangeOfNone DEF Init, OnePlace
<1>8. FiredSoFar
  BY DEF Init, FiredSoFar, Busy
<1>9. OneVersionPerEvent
  BY RangeOfNone DEF Init, OneVersionPerEvent
<1> QED
  BY <1>2, <1>3, <1>4, <1>5, <1>6, <1>7, <1>8, <1>9 DEF Works

LEMMA WorksInvariant == Spec => []Works
<1>1. Init => Works
  BY WorksInit
<1>2. Works /\ [Next]_vars => Works'
  BY TypeStep, EarlyStep, StartedStep, ProbedStep, OrderedStep, StreamStep, OnePlaceStep, FiredStep
     DEF Works
<1> QED
  BY <1>1, <1>2, PTL DEF Spec

(* Every variable stays in its type; the channel never holds more than its *)
(* capacity, and no post lasts longer than the client's timeout.           *)
THEOREM AlerterTypes == Spec => []TypeOK
<1>1. Works => TypeOK
  BY DEF Works
<1> QED
  BY <1>1, WorksInvariant, PTL

(* A process that serves has evaluated, has in its channel or holds every  *)
(* ERROR and FATAL document its stream has delivered, in their order,      *)
(* however slow the webhook is.                                            *)
THEOREM DocumentsAreKept == Spec => []StreamIsKept
<1>1. Works => StreamIsKept
  BY DEF Works
<1> QED
  BY <1>1, WorksInvariant, PTL

(* The alerts of a document are those of one version of the rules, even if *)
(* the refresher installs others while evaluate is posting.                *)
THEOREM OneVersionEach == Spec => []OneVersionPerEvent
<1>1. Works => OneVersionPerEvent
  BY DEF Works
<1> QED
  BY <1>1, WorksInvariant, PTL

(* A half-open breaker has a probe left whenever fire asks it. *)
THEOREM ProbesAreEnough == Spec => []ProbesSuffice
<1>1. Works => ProbesSuffice
  <2> SUFFICES ASSUME Works, run \notin {"post", "doomed"}
               PROVE  breaker.requests < MaxRequests
    BY DEF ProbesSuffice
  <2>1. breaker.requests \in {0, breaker.good} /\ breaker \in Breakers
    BY DEF Works, Probed
  <2>2. breaker.good \in 0 .. MaxRequests - 1
    BY <2>1 DEF Breakers
  <2> QED
    BY <2>1, <2>2, BreakerAssumption
<1> QED
  BY <1>1, WorksInvariant, PTL

(* A load that took long never puts older rules in the place of newer      *)
(* ones: only the end of the process takes the rules back.                 *)
THEOREM RulesOnlyForward == Spec => RulesMoveForward
<1> DEFINE Forth == rules' >= rules \/ main' = "down"
<1>1. Works /\ [Next]_vars => [Forth]_vars
  BY OrderedStep DEF Works
<1>2. Spec => [][Forth]_vars
  BY <1>1, WorksInvariant, PTL DEF Spec
<1> QED
  BY <1>2 DEF RulesMoveForward, Forth
=============================================================================
