---------------------------- MODULE Pipeline_proofs ----------------------------
(***************************************************************************)
(* Proofs about Pipeline for any calls, events, number of workers and      *)
(* sizes of the channel and of the batches.                                *)
(***************************************************************************)
EXTENDS Pipeline, FiniteSetTheorems, FunctionTheorems, SequenceTheorems, TLAPS

(* The one-line helpers of the actions are expanded everywhere. *)
USE DEF Verdict, LastFlush, Grown, IsFull, ClosedSeen, Remaining

-----------------------------------------------------------------------------
(* The channel as a sequence                                               *)

(* Sending adds its event to the channel; an event sent for the first time *)
(* keeps the channel free of repetitions.                                  *)
LEMMA SendRange ==
    ASSUME NEW S, NEW s \in Seq(S), NEW x \in S
    PROVE  /\ Append(s, x) \in Seq(S)
           /\ Range(Append(s, x)) = Range(s) \cup {x}
           /\ IsInjective(s) /\ x \notin Range(s) => IsInjective(Append(s, x))
<1> DEFINE t == Append(s, x)
<1>1. /\ t \in Seq(S)
      /\ DOMAIN t = 1 .. Len(s) + 1
      /\ DOMAIN s = 1 .. Len(s)
      /\ Len(s) \in Nat
      /\ t[Len(s) + 1] = x
      /\ \A i \in 1 .. Len(s) : t[i] = s[i]
  OBVIOUS
<1> HIDE DEF t
<1>2. Range(t) = Range(s) \cup {x}
  BY <1>1 DEF Range
<1>3. ASSUME IsInjective(s), x \notin Range(s)
      PROVE  IsInjective(t)
  <2> SUFFICES ASSUME NEW i \in DOMAIN t, NEW j \in DOMAIN t, t[i] = t[j]
               PROVE  i = j
    BY DEF IsInjective
  <2>1. \A n \in 1 .. Len(s) : t[n] # x
    BY <1>1, <1>3 DEF Range
  <2>2. i \in 1 .. Len(s) \/ i = Len(s) + 1
    BY <1>1
  <2>3. j \in 1 .. Len(s) \/ j = Len(s) + 1
    BY <1>1
  <2>4. CASE i \in 1 .. Len(s) /\ j \in 1 .. Len(s)
    BY <1>1, <1>3, <2>4 DEF IsInjective
  <2> QED
    BY <1>1, <2>1, <2>2, <2>3, <2>4
<1> QED
  BY <1>1, <1>2, <1>3 DEF t

(* Receiving takes one event out of the channel, and only one place of it. *)
LEMMA ReceiveRange ==
    ASSUME NEW S, NEW s \in Seq(S), s # <<>>
    PROVE  /\ Tail(s) \in Seq(S)
           /\ Head(s) \in S
           /\ Range(s) = Range(Tail(s)) \cup {Head(s)}
           /\ IsInjective(s) => IsInjective(Tail(s)) /\ Head(s) \notin Range(Tail(s))
<1> DEFINE t == Tail(s)
           x == Head(s)
<1>1. /\ t \in Seq(S) /\ x \in S /\ x = s[1]
      /\ Len(s) \in Nat \ {0}
      /\ DOMAIN s = 1 .. Len(s)
      /\ DOMAIN t = 1 .. Len(s) - 1
      /\ \A i \in 1 .. Len(s) - 1 : t[i] = s[i + 1]
  BY HeadTailProperties, LenProperties
<1> HIDE DEF t, x
<1>2. \A i \in DOMAIN s : i = 1 \/ (i - 1 \in DOMAIN t /\ s[i] = t[i - 1])
  BY <1>1
<1>3. Range(s) = Range(t) \cup {x}
  <2>1. Range(s) \subseteq Range(t) \cup {x}
    BY <1>1, <1>2 DEF Range
  <2>2. Range(t) \cup {x} \subseteq Range(s)
    BY <1>1 DEF Range
  <2> QED
    BY <2>1, <2>2
<1>4. ASSUME IsInjective(s)
      PROVE  IsInjective(t) /\ x \notin Range(t)
  <2>1. \A i \in DOMAIN t : i + 1 \in DOMAIN s /\ i + 1 # 1 /\ t[i] = s[i + 1]
    BY <1>1
  <2>2. x \notin Range(t)
    BY <1>1, <1>4, <2>1 DEF IsInjective, Range
  <2>3. IsInjective(t)
    <3> SUFFICES ASSUME NEW i \in DOMAIN t, NEW j \in DOMAIN t, t[i] = t[j]
                 PROVE  i = j
      BY DEF IsInjective
    <3>1. i + 1 = j + 1
      BY <1>4, <2>1 DEF IsInjective
    <3> QED
      BY <1>1, <3>1
  <2> QED
    BY <2>2, <2>3
<1> QED
  BY <1>1, <1>3, <1>4 DEF t, x
-----------------------------------------------------------------------------
(* Counting                                                                *)

(* A sequence holds no more different elements than it has places. *)
LEMMA RangeBound ==
    ASSUME NEW S, NEW s \in Seq(S)
    PROVE  /\ IsFiniteSet(Range(s))
           /\ Cardinality(Range(s)) <= Len(s)
           /\ Len(s) \in Nat
<1>1. Len(s) \in Nat /\ DOMAIN s = 1 .. Len(s) /\ s \in [1 .. Len(s) -> S]
  OBVIOUS
<1>2. s \in Surjection(1 .. Len(s), Range(s))
  BY <1>1, Fun_RangeProperties
<1>3. IsFiniteSet(1 .. Len(s)) /\ Cardinality(1 .. Len(s)) = Len(s)
  BY <1>1, FS_Interval
<1>4. IsFiniteSet(Range(s)) /\ Cardinality(Range(s)) <= Len(s)
  BY <1>2, <1>3, FS_Surjection
<1> QED
  BY <1>1, <1>4

(* A set of at most n elements can be numbered from 1 to n. *)
LEMMA Numbering ==
    ASSUME NEW S, IsFiniteSet(S), NEW n \in Nat, Cardinality(S) <= n
    PROVE  Injection(S, 1 .. n) # {}
<1>1. Cardinality(S) \in Nat /\ ExistsBijection(1 .. Cardinality(S), S)
  BY FS_CardinalityType
<1>2. ExistsBijection(S, 1 .. Cardinality(S))
  BY <1>1, Fun_ExistsBijSymmetric
<1>3. PICK f : f \in Bijection(S, 1 .. Cardinality(S))
  BY <1>2, Fun_ExistsBij
<1>4. f \in [S -> 1 .. Cardinality(S)] /\ \A a, b \in S : f[a] = f[b] => a = b
  BY <1>3 DEF Bijection, Injection, IsInjective
<1>5. f \in [S -> 1 .. n]
  BY <1>1, <1>4
<1> QED
  BY <1>4, <1>5, Fun_IsInj

(* At most n elements for each member of W: at most n times as many as W.  *)
LEMMA UnionBound ==
    ASSUME NEW W, IsFiniteSet(W), NEW n \in Nat, NEW f,
           \A w \in W : IsFiniteSet(f[w]) /\ Cardinality(f[w]) <= n
    PROVE  /\ IsFiniteSet(UNION {f[w] : w \in W})
           /\ Cardinality(UNION {f[w] : w \in W}) <= n * Cardinality(W)
<1> DEFINE U == UNION {f[w] : w \in W}
           num == [w \in W |-> CHOOSE g : g \in Injection(f[w], 1 .. n)]
           own == [u \in U |-> CHOOSE w \in W : u \in f[w]]
           place == [u \in U |-> <<own[u], num[own[u]][u]>>]
<1>1. \A w \in W : num[w] \in Injection(f[w], 1 .. n)
  <2> SUFFICES ASSUME NEW w \in W
               PROVE  \E g : g \in Injection(f[w], 1 .. n)
    OBVIOUS
  <2> QED
    BY Numbering
<1>2. \A u \in U : own[u] \in W /\ u \in f[own[u]]
  OBVIOUS
<1>3. \A w \in W : /\ num[w] \in [f[w] -> 1 .. n]
                  /\ \A a, b \in f[w] : num[w][a] = num[w][b] => a = b
  BY <1>1, Fun_InjectionProperties
<1> HIDE DEF U, num, own
<1>4. place \in [U -> W \X (1 .. n)]
  BY <1>2, <1>3
<1>5. \A a, b \in U : place[a] = place[b] => a = b
  BY <1>2, <1>3
<1> HIDE DEF place
<1>6. place \in Injection(U, W \X (1 .. n))
  BY <1>4, <1>5, Fun_IsInj
<1>7. IsFiniteSet(1 .. n) /\ Cardinality(1 .. n) = n
  BY FS_Interval
<1>8. /\ IsFiniteSet(W \X (1 .. n))
      /\ Cardinality(W \X (1 .. n)) = Cardinality(W) * n
  BY <1>7, FS_Product
<1>9. IsFiniteSet(U) /\ Cardinality(U) <= Cardinality(W) * n
  BY <1>6, <1>8, FS_Injection
<1>10. Cardinality(W) * n = n * Cardinality(W)
  BY FS_CardinalityType
<1> QED
  BY <1>9, <1>10 DEF U
-----------------------------------------------------------------------------
(* Types                                                                   *)

(* What a call inside checkAndStoreDedup has in its hands. *)
WaitingReads ==
    \A c \in Calls : pc[c] = "dedupe" => at[c] \in Times /\ Event[c].key \in Keys

Typed == TypeOK /\ WaitingReads

LEMMA CheckAndStoreType ==
    ASSUME DedupeTypeOK, NEW k \in Keys, NEW t \in Times, CheckAndStore(k, t), now' = now
    PROVE  DedupeTypeOK'
<1>1. Swept(t) \in [Keys -> Times \cup {Absent}]
  BY DEF Swept, DedupeTypeOK
<1> QED
  BY <1>1 DEF CheckAndStore, DedupeTypeOK

(* A flush takes any part of its batch, a finite set of calls. *)
LEMMA FlushOutcome ==
    ASSUME TypeOK, NEW w \in Workers, NEW r \in BulkInsert(batch[w])
    PROVE  /\ r.kept \subseteq batch[w]
           /\ batch[w] \subseteq Calls
           /\ IsFiniteSet(r.kept)
           /\ Inserted(batch[w], r) \in Nat
           /\ Inserted(batch[w], r) <= Cardinality(r.kept)
<1>1. r.kept \subseteq batch[w] /\ batch[w] \subseteq Calls
  BY DEF BulkInsert, TypeOK
<1>2. IsFiniteSet(r.kept)
  BY <1>1, FS_Subset, PipelineAssumption
<1>3. Cardinality(r.kept) \in Nat
  BY <1>2, FS_CardinalityType
<1> QED
  BY <1>1, <1>2, <1>3 DEF Inserted

LEMMA InitTyped == Init => Typed
<1> SUFFICES ASSUME Init
             PROVE  Typed
  OBVIOUS
<1>1. DedupeTypeOK
  BY DedupeAssumption DEF Init, DedupeInit, DedupeTypeOK, Times
<1>2. {closed, cancelled, stopped, scraper} \subseteq BOOLEAN
  BY PipelineAssumption, Zenon DEF Init
<1>3. WaitingReads
  BY DEF Init, WaitingReads
<1>4. in \in Seq(Calls)
  BY EmptySeq DEF Init
<1>5. /\ pc \in [Calls -> {"new", "dedupe", "send"} \cup Ended]
      /\ at \in [Calls -> Times \cup {0}]
      /\ wpc \in [Workers -> {"select", "flush", "final", "exited"}]
      /\ batch \in [Workers -> SUBSET Calls]
      /\ stored \in [Calls -> Nat]
      /\ lost \in SUBSET Calls
      /\ {accepted, rejected, dropped} \subseteq Nat
  BY DEF Init
<1> QED
  BY <1>1, <1>2, <1>3, <1>4, <1>5 DEF Typed, TypeOK

LEMMA StepTyped == Typed /\ [Next]_vars => Typed'
<1> SUFFICES ASSUME Typed, [Next]_vars
             PROVE  Typed'
  OBVIOUS
<1> USE DedupeAssumption, PipelineAssumption DEF Typed
<1>1. ASSUME NEW c \in Calls, Start(c) \/ Send(c) \/ Drop(c) \/ SendOnClosed(c)
      PROVE  Typed'
  <2>1. UNCHANGED <<now, dedupe, dedupeAt, admitted>>
    BY <1>1 DEF Start, Reject, ReadClock, SkipDedupe, Send, Drop, SendOnClosed,
                clockVars, dedupeVars
  <2>2. UNCHANGED <<closed, cancelled, stopped, scraper, wpc, batch, stored, lost, accepted>>
    BY <1>1 DEF Start, Reject, ReadClock, SkipDedupe, Send, Drop, SendOnClosed,
                stopVars, workerVars
  <2>3. /\ \E label \in {"dedupe", "send"} \cup Ended : pc' = [pc EXCEPT ![c] = label]
        /\ \E t \in Times : at' = at \/ at' = [at EXCEPT ![c] = t]
    <3>1. now \in Times
      BY DEF TypeOK, DedupeTypeOK
    <3>2. CASE Start(c)
      BY <3>1, <3>2 DEF Start, Reject, ReadClock, SkipDedupe, Goto, Ended
    <3>3. CASE Send(c) \/ Drop(c) \/ SendOnClosed(c)
      BY <3>1, <3>3 DEF Send, Drop, SendOnClosed, Goto, Ended
    <3> QED
      BY <1>1, <3>2, <3>3
  <2>4. in' \in Seq(Calls)
    <3>1. CASE Send(c)
      BY <3>1, SendRange DEF Send, TypeOK
    <3>2. CASE in' = in
      BY <3>2 DEF TypeOK
    <3> QED
      BY <1>1, <3>1, <3>2 DEF Start, Reject, ReadClock, SkipDedupe, Drop, SendOnClosed
  <2>5. rejected' \in Nat /\ dropped' \in Nat
    BY <1>1 DEF Start, Reject, ReadClock, SkipDedupe, Send, Drop, SendOnClosed, TypeOK
  <2>6. WaitingReads'
    BY <1>1 DEF Start, Reject, ReadClock, SkipDedupe, Send, Drop, SendOnClosed, Goto,
                WaitingReads, TypeOK, DedupeTypeOK
  <2>7. pc' \in [Calls -> {"new", "dedupe", "send"} \cup Ended] /\ at' \in [Calls -> Times \cup {0}]
    BY <2>3 DEF TypeOK
  <2>8. TypeOK'
    BY <2>1, <2>2, <2>4, <2>5, <2>7 DEF TypeOK, DedupeTypeOK
  <2> QED
    BY <2>6, <2>8
<1>2. ASSUME NEW c \in Calls, Dedupe(c)
      PROVE  Typed'
  <2>1. DedupeTypeOK'
    BY <1>2, CheckAndStoreType DEF Dedupe, WaitingReads, TypeOK
  <2>2. UNCHANGED <<in, stopVars, workerVars, rejected, dropped>>
    BY <1>2 DEF Dedupe
  <2>3. TypeOK'
    BY <1>2, <2>1, <2>2 DEF Dedupe, Goto, TypeOK, stopVars, workerVars, Ended
  <2>4. WaitingReads'
    BY <1>2 DEF Dedupe, Goto, WaitingReads, TypeOK
  <2> QED
    BY <2>3, <2>4
<1>3. ASSUME NEW w \in Workers, Receive(w)
      PROVE  Typed'
  <2>1. in' \in Seq(Calls) /\ Head(in) \in Calls
    BY <1>3, ReceiveRange DEF Receive, TypeOK
  <2> QED
    BY <1>3, <2>1 DEF Receive, TypeOK, DedupeTypeOK, WaitingReads, clockVars, dedupeVars,
                      callVars, stopVars
<1>4. ASSUME NEW w \in Workers, CtxDone(w) \/ ChannelClosed(w) \/ Interval(w)
      PROVE  Typed'
  BY <1>4 DEF CtxDone, ChannelClosed, Interval, TypeOK, DedupeTypeOK, WaitingReads,
              clockVars, dedupeVars, callVars, stopVars
<1>5. ASSUME NEW w \in Workers, Flush(w)
      PROVE  Typed'
  <2>1. UNCHANGED <<clockVars, callVars, in, stopVars, rejected, dropped>>
    BY <1>5 DEF Flush
  <2>2. stored' \in [Calls -> Nat] /\ lost' \in SUBSET Calls /\ accepted' \in Nat
    BY <1>5, FlushOutcome DEF Flush, TypeOK
  <2>3. /\ wpc' \in [Workers -> {"select", "flush", "final", "exited"}]
        /\ batch' \in [Workers -> SUBSET Calls]
    BY <1>5 DEF Flush, TypeOK
  <2> QED
    BY <2>1, <2>2, <2>3 DEF TypeOK, DedupeTypeOK, WaitingReads, clockVars, dedupeVars,
                            callVars, stopVars
<1>6. CASE ScraperExit \/ Cancel \/ Close \/ StopReturn
  BY <1>6 DEF ScraperExit, Cancel, Close, StopReturn, TypeOK, DedupeTypeOK, WaitingReads,
              clockVars, dedupeVars, callVars, workerVars
<1>7. CASE Tick
  BY <1>7 DEF Tick, TypeOK, DedupeTypeOK, WaitingReads, Times, dedupeVars, callVars,
              stopVars, workerVars
<1>8. CASE UNCHANGED vars
  BY <1>8 DEF vars, TypeOK, DedupeTypeOK, WaitingReads, clockVars, dedupeVars, callVars,
              stopVars, workerVars
<1> QED
  BY <1>1, <1>2, <1>3, <1>4, <1>5, <1>6, <1>7, <1>8 DEF Next, Advance, Worker

THEOREM Typing == Spec => []Typed
BY InitTyped, StepTyped, PTL DEF Spec

(* Every variable of the pipeline keeps its type. *)
THEOREM TypeCorrect == Spec => []TypeOK
BY Typing, PTL DEF Typed
-----------------------------------------------------------------------------
(* Where events are                                                        *)

Places == NothingVanishes /\ NothingTwice

(* A step that moves no event and queues none leaves the places alone. *)
LEMMA SamePlaces ==
    ASSUME Places, UNCHANGED <<in, batch, stored, lost>>,
           \A c \in Calls : pc'[c] = "queued" <=> pc[c] = "queued"
    PROVE  Places'
<1>1. NothingVanishes'
  BY DEF Places, NothingVanishes, Settled, Stored
<1>2. NothingTwice'
  BY DEF Places, NothingTwice, Settled, Stored
<1> QED
  BY <1>1, <1>2 DEF Places

LEMMA SendPlaces ==
    ASSUME Typed, Places, NEW c \in Calls, Send(c)
    PROVE  Places'
<1>1. /\ Range(in') = Range(in) \cup {c}
      /\ c \notin Range(in) => IsInjective(in')
  BY SendRange DEF Send, Typed, TypeOK, Places, NothingTwice
<1>2. \A d \in Calls : Settled(d)' = Settled(d) /\ Stored(d)' = Stored(d)
  BY DEF Send, Settled, Stored, workerVars
<1>3. UNCHANGED <<batch, stored, lost>>
  BY DEF Send, workerVars
<1>4. c \notin Range(in) /\ ~Settled(c) /\ \A w \in Workers : c \notin batch[w]
  <2>1. pc[c] # "queued"
    BY DEF Send
  <2> QED
    BY <2>1 DEF Places, NothingVanishes, Settled, Stored
<1>5. \A d \in Calls : pc'[d] = IF d = c THEN "queued" ELSE pc[d]
  BY DEF Send, Goto, Typed, TypeOK
<1>6. NothingVanishes'
  BY <1>1, <1>2, <1>3, <1>5 DEF Places, NothingVanishes
<1>7. NothingTwice'
  BY <1>1, <1>3, <1>4 DEF Places, NothingTwice, Settled, Stored
<1> QED
  BY <1>6, <1>7 DEF Places

LEMMA ReceivePlaces ==
    ASSUME Typed, Places, NEW w \in Workers, Receive(w)
    PROVE  Places'
<1> DEFINE c == Head(in)
<1>1. /\ c \in Calls
      /\ Range(in) = Range(in') \cup {c}
      /\ IsInjective(in') /\ c \notin Range(in')
  BY ReceiveRange DEF Receive, Typed, TypeOK, Places, NothingTwice
<1>2. \A d \in Calls : Settled(d)' = Settled(d) /\ Stored(d)' = Stored(d)
  BY DEF Receive, Settled, Stored
<1>3. UNCHANGED <<pc, stored, lost>>
  BY DEF Receive, callVars
<1>4. \A v \in Workers : batch'[v] = IF v = w THEN batch[w] \cup {c} ELSE batch[v]
  BY DEF Receive, Typed, TypeOK
<1> HIDE DEF c
<1>5. ~Settled(c) /\ \A v \in Workers : c \notin batch[v]
  BY <1>1 DEF Places, NothingTwice
<1>6. NothingVanishes'
  BY <1>1, <1>2, <1>3, <1>4 DEF Places, NothingVanishes
<1>7. NothingTwice'
  <2>1. \A d \in Range(in') : ~Settled(d)' /\ \A v \in Workers : d \notin batch'[v]
    <3> SUFFICES ASSUME NEW d \in Range(in')
                 PROVE  ~Settled(d)' /\ \A v \in Workers : d \notin batch'[v]
      OBVIOUS
    <3>1. d \in Range(in) /\ d # c
      BY <1>1
    <3>2. ~Settled(d) /\ \A v \in Workers : d \notin batch[v]
      BY <3>1 DEF Places, NothingTwice
    <3> QED
      BY <1>3, <1>4, <3>1, <3>2 DEF Settled, Stored
  <2>2. \A v \in Workers : \A d \in batch'[v] :
            ~Settled(d)' /\ \A u \in Workers \ {v} : d \notin batch'[u]
    BY <1>3, <1>4, <1>5 DEF Places, NothingTwice, Settled, Stored
  <2>3. \A d \in Calls : stored'[d] <= 1 /\ ~(Stored(d)' /\ d \in lost')
    BY <1>2, <1>3 DEF Places, NothingTwice
  <2> QED
    BY <1>1, <2>1, <2>2, <2>3 DEF NothingTwice
<1> QED
  BY <1>6, <1>7 DEF Places

LEMMA FlushPlaces ==
    ASSUME Typed, Places, NEW w \in Workers, Flush(w)
    PROVE  Places'
<1> PICK r \in BulkInsert(batch[w]) :
      /\ stored' = [c \in Calls |-> IF c \in r.kept THEN stored[c] + 1 ELSE stored[c]]
      /\ lost' = lost \cup (batch[w] \ r.kept)
  BY DEF Flush
<1>1. r.kept \subseteq batch[w] /\ batch[w] \subseteq Calls
  BY FlushOutcome DEF Typed
<1>2. UNCHANGED <<pc, in>> /\ \A v \in Workers : batch'[v] = IF v = w THEN {} ELSE batch[v]
  BY DEF Flush, callVars, Typed, TypeOK
<1>3. \A c \in batch[w] : stored[c] = 0 /\ c \notin lost
  BY <1>1 DEF Places, NothingTwice, Settled, Stored, Typed, TypeOK
<1>4. \A c \in Calls : stored[c] \in Nat
                      /\ stored'[c] = IF c \in r.kept THEN stored[c] + 1 ELSE stored[c]
  BY DEF Typed, TypeOK
<1>5. \A c \in Calls : Settled(c)' <=> Settled(c) \/ c \in batch[w]
  BY <1>1, <1>3, <1>4 DEF Settled, Stored
<1>6. NothingVanishes'
  BY <1>2, <1>5 DEF Places, NothingVanishes
<1>7. \A c \in Range(in) : c \in Calls
  BY DEF Range, Typed, TypeOK
<1>8. NothingTwice'
  <2>1. IsInjective(in')
    BY <1>2 DEF Places, NothingTwice
  <2>2. \A c \in Range(in') : ~Settled(c)' /\ \A v \in Workers : c \notin batch'[v]
    BY <1>2, <1>5, <1>7 DEF Places, NothingTwice
  <2>3. \A v \in Workers : \A c \in batch'[v] :
            ~Settled(c)' /\ \A u \in Workers \ {v} : c \notin batch'[u]
    <3> SUFFICES ASSUME NEW v \in Workers, NEW c \in batch'[v]
                 PROVE  ~Settled(c)' /\ \A u \in Workers \ {v} : c \notin batch'[u]
      OBVIOUS
    <3>1. v # w /\ c \in batch[v]
      BY <1>2
    <3>2. c \in Calls
      BY <3>1 DEF Typed, TypeOK
    <3>3. ~Settled(c) /\ \A u \in Workers \ {v} : c \notin batch[u]
      BY <3>1 DEF Places, NothingTwice
    <3> QED
      BY <1>2, <1>5, <3>1, <3>2, <3>3
  <2>4. \A c \in Calls : stored'[c] <= 1 /\ ~(Stored(c)' /\ c \in lost')
    <3> SUFFICES ASSUME NEW c \in Calls
                 PROVE  stored'[c] <= 1 /\ ~(stored'[c] > 0 /\ c \in lost')
      BY DEF Stored
    <3>1. stored[c] <= 1 /\ ~(stored[c] > 0 /\ c \in lost)
      BY DEF Places, NothingTwice, Stored
    <3> QED
      BY <1>1, <1>3, <1>4, <3>1
  <2> QED
    BY <2>1, <2>2, <2>3, <2>4 DEF NothingTwice
<1> QED
  BY <1>6, <1>8 DEF Places

LEMMA InitPlaces == Init => Places
BY DEF Init, Places, NothingVanishes, NothingTwice, Settled, Stored, Range, IsInjective

LEMMA StepPlaces == Typed /\ Places /\ [Next]_vars => Places'
<1> SUFFICES ASSUME Typed, Places, [Next]_vars
             PROVE  Places'
  OBVIOUS
<1>1. ASSUME NEW c \in Calls, Start(c) \/ Dedupe(c) \/ Drop(c) \/ SendOnClosed(c)
      PROVE  Places'
  <2>1. UNCHANGED <<in, batch, stored, lost>>
    BY <1>1 DEF Start, Reject, ReadClock, SkipDedupe, Dedupe, Drop, SendOnClosed, workerVars
  <2>2. /\ pc[c] # "queued"
        /\ \E label \in {"dedupe", "send"} \cup (Ended \ {"queued"}) :
              pc' = [pc EXCEPT ![c] = label]
    BY <1>1 DEF Start, Reject, ReadClock, SkipDedupe, Dedupe, Drop, SendOnClosed, Goto, Ended
  <2>3. \A d \in Calls : pc'[d] = "queued" <=> pc[d] = "queued"
    BY <2>2 DEF Typed, TypeOK, Ended
  <2> QED
    BY <2>1, <2>3, SamePlaces
<1>2. ASSUME NEW w \in Workers, CtxDone(w) \/ ChannelClosed(w) \/ Interval(w)
      PROVE  Places'
  BY <1>2, SamePlaces DEF CtxDone, ChannelClosed, Interval, callVars
<1>3. CASE ScraperExit \/ Cancel \/ Close \/ StopReturn
  BY <1>3, SamePlaces DEF ScraperExit, Cancel, Close, StopReturn, callVars, workerVars
<1>4. CASE Tick
  BY <1>4, SamePlaces DEF Tick, callVars, workerVars
<1>5. CASE UNCHANGED vars
  BY <1>5, SamePlaces DEF vars, callVars, workerVars
<1> QED
  BY <1>1, <1>2, <1>3, <1>4, <1>5, SendPlaces, ReceivePlaces, FlushPlaces
     DEF Next, Advance, Worker

THEOREM PlacesInvariant == Spec => []Places
BY Typing, InitPlaces, StepPlaces, PTL DEF Spec

(* An event Submit queued is always in the channel, in a batch, in the     *)
(* database or in a failed flush: no interleaving makes it vanish.         *)
THEOREM EventsAreKept == Spec => []NothingVanishes
BY PlacesInvariant, PTL DEF Places

(* And it is in one of them once: no event is stored twice.                *)
THEOREM EventsAreKeptOnce == Spec => []NothingTwice
BY PlacesInvariant, PTL DEF Places
-----------------------------------------------------------------------------
(* Batches                                                                 *)

LEMMA InitBatches == Init => BatchDiscipline
BY FS_EmptySet, PipelineAssumption DEF Init, BatchDiscipline

LEMMA StepBatches == Typed /\ BatchDiscipline /\ [Next]_vars => BatchDiscipline'
<1> SUFFICES ASSUME Typed, BatchDiscipline, [Next]_vars
             PROVE  BatchDiscipline'
  OBVIOUS
<1> USE PipelineAssumption
<1>1. ASSUME NEW w \in Workers, Receive(w)
      PROVE  BatchDiscipline'
  <2>1. IsFiniteSet(batch[w])
    BY FS_Subset DEF Typed, TypeOK
  <2>2. Cardinality(batch[w]) \in Nat
    BY <2>1, FS_CardinalityType
  <2> DEFINE grown == batch[w] \cup {Head(in)}
  <2>3. Cardinality(grown) = Cardinality(batch[w]) \/ Cardinality(grown) = Cardinality(batch[w]) + 1
    BY <2>1, FS_AddElement
  <2> HIDE DEF grown
  <2>4. Cardinality(batch[w]) < BatchSize
    BY <1>1 DEF Receive, BatchDiscipline
  <2>5. /\ batch'[w] = grown
        /\ wpc'[w] = IF Cardinality(grown) >= BatchSize THEN "flush" ELSE "select"
        /\ \A v \in Workers \ {w} : batch'[v] = batch[v] /\ wpc'[v] = wpc[v]
    BY <1>1 DEF Receive, Typed, TypeOK, grown
  <2>6. Cardinality(grown) \in Nat /\ Cardinality(grown) <= BatchSize
    BY <2>2, <2>3, <2>4
  <2> QED
    BY <2>5, <2>6 DEF BatchDiscipline
<1>2. ASSUME NEW w \in Workers, Flush(w)
      PROVE  BatchDiscipline'
  <2>1. /\ batch'[w] = {}
        /\ \A v \in Workers \ {w} : batch'[v] = batch[v] /\ wpc'[v] = wpc[v]
    BY <1>2 DEF Flush, Typed, TypeOK
  <2>2. Cardinality(batch'[w]) = 0
    BY <2>1, FS_EmptySet
  <2>3. 0 < BatchSize /\ 0 <= BatchSize
    OBVIOUS
  <2>4. ASSUME NEW v \in Workers \ {w}
        PROVE  /\ Cardinality(batch'[v]) <= BatchSize
               /\ wpc'[v] = "select" => Cardinality(batch'[v]) < BatchSize
               /\ wpc'[v] = "exited" => batch'[v] = {}
    BY <2>1, <2>4 DEF BatchDiscipline
  <2> QED
    BY <2>1, <2>2, <2>3, <2>4 DEF BatchDiscipline
<1>3. ASSUME NEW w \in Workers, CtxDone(w) \/ ChannelClosed(w) \/ Interval(w)
      PROVE  BatchDiscipline'
  BY <1>3 DEF CtxDone, ChannelClosed, Interval, BatchDiscipline, Typed, TypeOK
<1>4. CASE UNCHANGED <<wpc, batch>>
  BY <1>4 DEF BatchDiscipline
<1>5. ASSUME NEW c \in Calls, Start(c) \/ Advance(c)
      PROVE  UNCHANGED <<wpc, batch>>
  BY <1>5 DEF Start, Advance, Reject, ReadClock, SkipDedupe, Dedupe, Send, Drop,
              SendOnClosed, workerVars
<1>6. ASSUME ScraperExit \/ Cancel \/ Close \/ StopReturn \/ Tick \/ UNCHANGED vars
      PROVE  UNCHANGED <<wpc, batch>>
  BY <1>6 DEF ScraperExit, Cancel, Close, StopReturn, Tick, vars, workerVars
<1> QED
  BY <1>1, <1>2, <1>3, <1>4, <1>5, <1>6 DEF Next, Worker

(* No worker flushes too much, waits with a full batch or exits with       *)
(* events in its hands.                                                    *)
THEOREM BatchesAreDisciplined == Spec => []BatchDiscipline
BY Typing, InitBatches, StepBatches, PTL DEF Spec

-----------------------------------------------------------------------------
(* Stop                                                                    *)

(* Why Stop drains a live pipeline: a worker gives up only on a channel    *)
(* that is closed and empty, and it stays so.                              *)
Draining ==
    /\ \A w \in Workers : wpc[w] \in {"final", "exited"} /\ ~cancelled
                             => closed /\ in = <<>>
    /\ stopped => \A w \in Workers : wpc[w] = "exited"

LEMMA InitDraining == Init => Draining
BY DEF Init, Draining

LEMMA StepDraining == Typed /\ Draining /\ [Next]_vars => Draining'
<1> SUFFICES ASSUME Typed, Draining, [Next]_vars
             PROVE  Draining'
  OBVIOUS
<1>1. ASSUME NEW c \in Calls, Send(c)
      PROVE  Draining'
  BY <1>1 DEF Send, Draining, stopVars, workerVars
<1>2. ASSUME NEW c \in Calls, Start(c) \/ Dedupe(c) \/ Drop(c) \/ SendOnClosed(c)
      PROVE  Draining'
  <2>1. UNCHANGED <<in, wpc, cancelled, closed, stopped>>
    BY <1>2 DEF Start, Reject, ReadClock, SkipDedupe, Dedupe, Drop, SendOnClosed,
                stopVars, workerVars
  <2> QED
    BY <2>1 DEF Draining
<1>3. ASSUME NEW w \in Workers, Receive(w)
      PROVE  Draining'
  <2>1. /\ in # <<>> /\ wpc[w] = "select"
        /\ UNCHANGED <<cancelled, closed, stopped>>
        /\ wpc'[w] \in {"flush", "select"}
        /\ \A v \in Workers \ {w} : wpc'[v] = wpc[v]
    BY <1>3 DEF Receive, stopVars, Typed, TypeOK
  <2> QED
    BY <2>1 DEF Draining
<1>4. ASSUME NEW w \in Workers, CtxDone(w) \/ ChannelClosed(w) \/ Interval(w) \/ Flush(w)
      PROVE  Draining'
  <2>1. /\ UNCHANGED <<in, cancelled, closed, stopped>>
        /\ \A v \in Workers \ {w} : wpc'[v] = wpc[v]
        /\ wpc[w] # "exited"
    BY <1>4 DEF CtxDone, ChannelClosed, Interval, Flush, stopVars, Typed, TypeOK
  <2>2. wpc'[w] \in {"final", "exited"} /\ ~cancelled => closed /\ in = <<>>
    BY <1>4 DEF CtxDone, ChannelClosed, Interval, Flush, Draining, Typed, TypeOK
  <2> QED
    BY <2>1, <2>2 DEF Draining
<1>5. CASE ScraperExit \/ Cancel \/ Close \/ StopReturn
  BY <1>5 DEF ScraperExit, Cancel, Close, StopReturn, Draining, workerVars
<1>6. CASE Tick \/ UNCHANGED vars
  BY <1>6 DEF Tick, vars, Draining, stopVars, workerVars
<1> QED
  BY <1>1, <1>2, <1>3, <1>4, <1>5, <1>6 DEF Next, Advance, Worker

(* When Stop returns and the context has not been cancelled, every queued  *)
(* event has been through a flush.                                         *)
THEOREM StopDrainsLivePipeline == Spec => []StopDrains
<1>1. Places /\ BatchDiscipline /\ Draining => StopDrains
  <2> SUFFICES ASSUME Places, BatchDiscipline, Draining, stopped, ~cancelled,
                      NEW c \in Calls, pc[c] = "queued"
               PROVE  Settled(c)
    BY DEF StopDrains
  <2>1. in = <<>> /\ \A w \in Workers : batch[w] = {}
    BY PipelineAssumption DEF Draining, BatchDiscipline
  <2>2. c \notin Range(in)
    BY <2>1 DEF Range
  <2> QED
    BY <2>1, <2>2 DEF Places, NothingVanishes
<1>2. Spec => []Draining
  BY Typing, InitDraining, StepDraining, PTL DEF Spec
<1> QED
  BY <1>1, <1>2, PlacesInvariant, BatchesAreDisciplined, PTL
-----------------------------------------------------------------------------
(* The counter of accepted events                                          *)

StoredCalls == {c \in Calls : Stored(c)}

LEMMA InitAccepted == Init => AcceptedIsStored
<1> SUFFICES ASSUME Init
             PROVE  AcceptedIsStored
  OBVIOUS
<1>1. {c \in Calls : Stored(c)} = {}
  BY DEF Init, Stored
<1>2. Cardinality({c \in Calls : Stored(c)}) = 0
  BY <1>1, FS_EmptySet
<1> QED
  BY <1>2 DEF Init, AcceptedIsStored

LEMMA FlushAccepted ==
    ASSUME Typed, Places, AcceptedIsStored, NEW w \in Workers, Flush(w)
    PROVE  AcceptedIsStored'
<1> PICK r \in BulkInsert(batch[w]) :
      /\ stored' = [c \in Calls |-> IF c \in r.kept THEN stored[c] + 1 ELSE stored[c]]
      /\ accepted' = accepted + Inserted(batch[w], r)
  BY DEF Flush
<1>1. /\ r.kept \subseteq Calls
      /\ IsFiniteSet(r.kept)
      /\ Inserted(batch[w], r) \in Nat /\ Inserted(batch[w], r) <= Cardinality(r.kept)
  BY FlushOutcome DEF Typed
<1>2. \A c \in r.kept : stored[c] = 0
  BY <1>1, FlushOutcome DEF Places, NothingTwice, Settled, Stored, Typed, TypeOK
<1>3. StoredCalls' = StoredCalls \cup r.kept
  BY <1>1, <1>2 DEF StoredCalls, Stored, Typed, TypeOK
<1>4. StoredCalls \cap r.kept = {}
  BY <1>2 DEF StoredCalls, Stored
<1>5. IsFiniteSet(StoredCalls)
  BY FS_Subset, PipelineAssumption DEF StoredCalls
<1>6. Cardinality(StoredCalls \cap r.kept) = 0
  BY <1>4, FS_EmptySet
<1>7. Cardinality(StoredCalls') = Cardinality(StoredCalls) + Cardinality(r.kept)
                                    - Cardinality(StoredCalls \cap r.kept)
  BY <1>1, <1>3, <1>5, FS_Union
<1>8. Cardinality(StoredCalls) \in Nat /\ Cardinality(r.kept) \in Nat /\ accepted \in Nat
  BY <1>1, <1>5, FS_CardinalityType DEF Typed, TypeOK
<1>9. accepted <= Cardinality(StoredCalls)
  BY DEF AcceptedIsStored, StoredCalls
<1>10. accepted' <= Cardinality(StoredCalls')
  BY <1>1, <1>6, <1>7, <1>8, <1>9
<1> QED
  BY <1>10 DEF AcceptedIsStored, StoredCalls

LEMMA StepAccepted == Typed /\ Places /\ AcceptedIsStored /\ [Next]_vars => AcceptedIsStored'
<1> SUFFICES ASSUME Typed, Places, AcceptedIsStored, [Next]_vars
             PROVE  AcceptedIsStored'
  OBVIOUS
<1>1. CASE UNCHANGED <<stored, accepted>>
  BY <1>1 DEF AcceptedIsStored, Stored
<1>2. ASSUME NEW c \in Calls, Start(c) \/ Advance(c)
      PROVE  UNCHANGED <<stored, accepted>>
  BY <1>2 DEF Start, Advance, Reject, ReadClock, SkipDedupe, Dedupe, Send, Drop,
              SendOnClosed, workerVars
<1>3. ASSUME NEW w \in Workers, CtxDone(w) \/ Receive(w) \/ ChannelClosed(w) \/ Interval(w)
      PROVE  UNCHANGED <<stored, accepted>>
  BY <1>3 DEF CtxDone, Receive, ChannelClosed, Interval
<1>4. ASSUME ScraperExit \/ Cancel \/ Close \/ StopReturn \/ Tick \/ UNCHANGED vars
      PROVE  UNCHANGED <<stored, accepted>>
  BY <1>4 DEF ScraperExit, Cancel, Close, StopReturn, Tick, vars, workerVars
<1> QED
  BY <1>1, <1>2, <1>3, <1>4, FlushAccepted DEF Next, Worker

(* The accepted counter never runs ahead of the database.                  *)
THEOREM AcceptedNeverOverstates == Spec => []AcceptedIsStored
BY Typing, PlacesInvariant, InitAccepted, StepAccepted, PTL DEF Spec

-----------------------------------------------------------------------------
(* The filter                                                              *)

PastFilter == {"send", "queued", "dropped", "panicked"}

(* A key in the map was put there by a call that then went on. *)
KeyHasOwner ==
    \A k \in Keys : dedupe[k] # Absent =>
        \E d \in Calls : Event[d].key = k /\ pc[d] \in PastFilter

Twinned == KeyHasOwner /\ DuplicateHasTwin

LEMMA InitTwinned == Init => Twinned
BY DEF Init, DedupeInit, Twinned, KeyHasOwner, DuplicateHasTwin

LEMMA StepTwinned == Typed /\ Twinned /\ [Next]_vars => Twinned'
<1> SUFFICES ASSUME Typed, Twinned, [Next]_vars
             PROVE  Twinned'
  OBVIOUS
<1>1. ASSUME NEW c \in Calls, UNCHANGED dedupe,
             \E label \in {"rejected", "dedupe"} \cup PastFilter :
                 pc' = [pc EXCEPT ![c] = label],
             pc[c] = "new" \/ (pc[c] = "send" /\ pc'[c] \in PastFilter)
      PROVE  Twinned'
  <2>1. \A d \in Calls : pc[d] \in PastFilter => pc'[d] \in PastFilter
    BY <1>1 DEF PastFilter, Typed, TypeOK
  <2>2. \A d \in Calls : pc'[d] = "duplicate" => pc[d] = "duplicate"
    BY <1>1 DEF PastFilter, Typed, TypeOK
  <2>3. KeyHasOwner'
    BY <1>1, <2>1 DEF Twinned, KeyHasOwner
  <2>4. DuplicateHasTwin'
    BY <2>1, <2>2 DEF Twinned, DuplicateHasTwin, Twins, PastFilter
  <2> QED
    BY <2>3, <2>4 DEF Twinned
<1>2. ASSUME NEW c \in Calls, Start(c) \/ Send(c) \/ Drop(c) \/ SendOnClosed(c)
      PROVE  Twinned'
  <2>1. UNCHANGED dedupe /\ (pc[c] = "new" \/ pc[c] = "send")
    BY <1>2 DEF Start, Reject, ReadClock, SkipDedupe, Send, Drop, SendOnClosed,
                clockVars, dedupeVars
  <2>2. \E label \in {"rejected", "dedupe"} \cup PastFilter :
            /\ pc' = [pc EXCEPT ![c] = label]
            /\ pc[c] = "new" \/ label \in PastFilter
    BY <1>2 DEF Start, Reject, ReadClock, SkipDedupe, Send, Drop, SendOnClosed, Goto, PastFilter
  <2>3. pc[c] = "new" \/ (pc[c] = "send" /\ pc'[c] \in PastFilter)
    BY <2>1, <2>2 DEF Typed, TypeOK
  <2> QED
    BY <1>1, <2>1, <2>2, <2>3
<1>3. ASSUME NEW c \in Calls, Dedupe(c)
      PROVE  Twinned'
  <2> DEFINE k == Event[c].key
             t == at[c]
  <2>1. k \in Keys /\ pc[c] = "dedupe"
    BY <1>3 DEF Dedupe, Typed, WaitingReads
  <2>2. \A j \in Keys : Swept(t)[j] # Absent => dedupe[j] # Absent
    BY DEF Swept, Typed, TypeOK, DedupeTypeOK
  <2>3. \A d \in Calls \ {c} : pc'[d] = pc[d]
    BY <1>3 DEF Dedupe, Goto, Typed, TypeOK
  <2>4. pc'[c] = IF IsNew(k, t) THEN "send" ELSE "duplicate"
    BY <1>3 DEF Dedupe, Goto, Typed, TypeOK
  <2>5. \A j \in Keys : dedupe'[j] # Absent => dedupe[j] # Absent \/ (j = k /\ IsNew(k, t))
    BY <1>3, <2>2, <2>1 DEF Dedupe, CheckAndStore, Swept, Typed, TypeOK, DedupeTypeOK
  <2>6. \A d \in Calls : pc[d] \in PastFilter => d # c /\ pc'[d] \in PastFilter
    BY <2>1, <2>3 DEF PastFilter
  <2>7. KeyHasOwner'
    BY <2>4, <2>5, <2>6 DEF Twinned, KeyHasOwner, PastFilter
  <2>8. ~IsNew(k, t) => \E d \in Twins(c) : pc'[d] \in PastFilter
    BY <2>1, <2>2, <2>6 DEF IsNew, Twinned, KeyHasOwner, Twins
  <2>9. \A d \in Calls : pc'[d] = "duplicate" =>
            Event[d].key # NoKey /\ \E e \in Twins(d) : pc'[e] \in PastFilter
    <3> SUFFICES ASSUME NEW d \in Calls, pc'[d] = "duplicate"
                 PROVE  Event[d].key # NoKey /\ \E e \in Twins(d) : pc'[e] \in PastFilter
      OBVIOUS
    <3>1. CASE d = c
      BY <2>1, <2>4, <2>8, <3>1, DedupeAssumption
    <3>2. CASE d # c
      BY <2>3, <2>6, <3>2 DEF Twinned, DuplicateHasTwin, PastFilter, Twins
    <3> QED
      BY <3>1, <3>2
  <2>10. DuplicateHasTwin'
    BY <2>9 DEF DuplicateHasTwin, PastFilter, Twins
  <2> QED
    BY <2>7, <2>10 DEF Twinned
<1>4. CASE UNCHANGED <<pc, dedupe>>
  BY <1>4 DEF Twinned, KeyHasOwner, DuplicateHasTwin, Twins
<1>5. ASSUME NEW w \in Workers, Worker(w)
      PROVE  UNCHANGED <<pc, dedupe>>
  BY <1>5 DEF Worker, CtxDone, Receive, ChannelClosed, Interval, Flush, callVars,
              clockVars, dedupeVars
<1>6. ASSUME ScraperExit \/ Cancel \/ Close \/ StopReturn \/ Tick \/ UNCHANGED vars
      PROVE  UNCHANGED <<pc, dedupe>>
  BY <1>6 DEF ScraperExit, Cancel, Close, StopReturn, Tick, vars, callVars, clockVars,
              dedupeVars
<1> QED
  BY <1>2, <1>3, <1>4, <1>5, <1>6 DEF Next, Advance

(* An event is discarded as a duplicate only if another event with its key *)
(* has got past the filter.                                                *)
THEOREM DuplicatesHaveTwins == Spec => []DuplicateHasTwin
<1>1. Spec => []Twinned
  BY Typing, InitTwinned, StepTwinned, PTL DEF Spec
<1> QED
  BY <1>1, PTL DEF Twinned
-----------------------------------------------------------------------------
(* The pipeline implements DedupeCache                                     *)

wantBar == [c \in Calls |-> IF pc[c] = "dedupe" THEN Event[c].key ELSE NoKey]
passedBar == [c \in Calls |-> pc[c] # "duplicate"]

LEMMA InitCache == Init => Cache!Init
BY DEF Init, DedupeInit, Absent, Cache!Init, Cache!DedupeInit, Cache!Absent

(* A call that reads the clock is a Read of the filter, its critical       *)
(* section is a Lock, a second is a second; the filter sees nothing of the *)
(* rest of the pipeline.                                                   *)
LEMMA StepCache == Typed /\ [Next]_vars => [Cache!Next]_(Cache!vars)
<1> SUFFICES ASSUME Typed, [Next]_vars
             PROVE  Cache!Next \/ UNCHANGED Cache!vars
  OBVIOUS
<1>1. ASSUME NEW c \in Calls, ReadClock(c)
      PROVE  Cache!Read(c, Event[c].key)
  <2>1. wantBar[c] = NoKey
    BY <1>1 DEF ReadClock, wantBar
  <2>2. wantBar' = [wantBar EXCEPT ![c] = Event[c].key]
    BY <1>1 DEF ReadClock, Goto, wantBar, Typed, TypeOK
  <2>3. passedBar' = passedBar
    BY <1>1 DEF ReadClock, Goto, passedBar, Typed, TypeOK
  <2> QED
    BY <1>1, <2>1, <2>2, <2>3
       DEF ReadClock, wantBar, passedBar, clockVars, dedupeVars, Cache!Read, Cache!dedupeVars
<1>2. ASSUME NEW c \in Calls, Dedupe(c)
      PROVE  Cache!Lock(c)
  <2>1. wantBar[c] = Event[c].key /\ Event[c].key \in Keys /\ Event[c].key # NoKey
    BY <1>2, DedupeAssumption DEF Dedupe, wantBar, Typed, WaitingReads
  <2>2. wantBar' = [wantBar EXCEPT ![c] = NoKey]
    BY <1>2 DEF Dedupe, Goto, wantBar, Typed, TypeOK
  <2>3. passedBar' = [passedBar EXCEPT ![c] = IsNew(Event[c].key, at[c])]
    BY <1>2 DEF Dedupe, Goto, passedBar, Typed, TypeOK, IsNew
  <2>4. Cache!IsNew(Event[c].key, at[c]) = IsNew(Event[c].key, at[c])
    BY DEF Cache!IsNew, IsNew, Cache!Swept, Swept, Cache!SweepDue, SweepDue, Cache!Absent, Absent
  <2>5. Cache!CheckAndStore(Event[c].key, at[c])
    BY <1>2, <2>4
       DEF Dedupe, CheckAndStore, Cache!CheckAndStore, Cache!Swept, Swept, Cache!SweepDue,
           SweepDue, Cache!Absent, Absent
  <2> QED
    BY <1>2, <2>1, <2>2, <2>3, <2>4, <2>5 DEF Dedupe, wantBar, passedBar, Cache!Lock
<1>3. ASSUME Tick
      PROVE  Cache!Tick
  BY <1>3 DEF Tick, callVars, dedupeVars, Cache!Tick, Cache!dedupeVars
<1>4. ASSUME UNCHANGED <<now, dedupe, dedupeAt, admitted, at, wantBar, passedBar>>
      PROVE  UNCHANGED Cache!vars
  BY <1>4 DEF wantBar, passedBar, Cache!vars
<1>5. ASSUME NEW c \in Calls,
             Reject(c) \/ SkipDedupe(c) \/ Send(c) \/ Drop(c) \/ SendOnClosed(c)
      PROVE  UNCHANGED <<now, dedupe, dedupeAt, admitted, at, wantBar, passedBar>>
  <2>1. /\ UNCHANGED <<now, dedupe, dedupeAt, admitted, at>>
        /\ pc[c] \in {"new", "send"}
        /\ \E label \in {"send"} \cup (Ended \ {"duplicate"}) : pc' = [pc EXCEPT ![c] = label]
    BY <1>5 DEF Reject, SkipDedupe, Send, Drop, SendOnClosed, Goto, Ended, clockVars, dedupeVars
  <2>2. \A d \in Calls : /\ pc'[d] = "dedupe" <=> pc[d] = "dedupe"
                         /\ pc'[d] = "duplicate" <=> pc[d] = "duplicate"
    BY <2>1 DEF Ended, Typed, TypeOK
  <2> QED
    BY <2>1, <2>2 DEF wantBar, passedBar
<1>6. ASSUME \/ \E w \in Workers : Worker(w)
             \/ ScraperExit \/ Cancel \/ Close \/ StopReturn
             \/ UNCHANGED vars
      PROVE  UNCHANGED <<now, dedupe, dedupeAt, admitted, at, wantBar, passedBar>>
  <2>1. UNCHANGED <<pc, now, dedupe, dedupeAt, admitted, at>>
    BY <1>6 DEF Worker, CtxDone, Receive, ChannelClosed, Interval, Flush, ScraperExit, Cancel,
                Close, StopReturn, vars, callVars, clockVars, dedupeVars
  <2> QED
    BY <2>1 DEF wantBar, passedBar
<1>7. ASSUME NEW c \in Calls, ReadClock(c)
      PROVE  Cache!Next
  <2>1. Event[c].key \in Keys
    BY <1>7, PipelineAssumption DEF ReadClock
  <2> QED
    BY <1>1, <1>7, <2>1 DEF Cache!Next
<1>8. ASSUME NEW c \in Calls, Dedupe(c)
      PROVE  Cache!Next
  BY <1>2, <1>8 DEF Cache!Next
<1>9. ASSUME Tick
      PROVE  Cache!Next
  BY <1>3, <1>9 DEF Cache!Next
<1> QED
  BY <1>4, <1>5, <1>6, <1>7, <1>8, <1>9 DEF Next, Start, Advance

(* Inside Submit the filter is the one DedupeCache describes, so that what *)
(* Abstract_proofs proves of it (no early readmission, no stale            *)
(* duplicate) holds of the pipeline.                                       *)
THEOREM RefinesCache == Spec => ImplementsCache
BY InitCache, StepCache, Typing, PTL DEF Spec, ImplementsCache, Cache!Spec
-----------------------------------------------------------------------------
(* The pipeline implements Delivery                                        *)

answerBar ==
    [c \in Calls |-> CASE pc[c] \in {"rejected", "dropped", "panicked"} -> "refused"
                       [] pc[c] = "queued" -> "taken"
                       [] pc[c] = "duplicate" -> "assumed"
                       [] OTHER -> "none"]
openBar == ~closed
liveBar == ~cancelled

(* What the promise sees of a state. *)
barVars == <<answerBar, Held, StoredCalls, lost, openBar, liveBar, stopped>>

CapacityBar == BufferSize + BatchSize * Cardinality(Workers)

(* Delivery counts as the pipeline does. *)
LEMMA SameCardinality ==
    ASSUME NEW S
    PROVE  Promise!Cardinality(S) = Cardinality(S)
BY DEF Promise!Cardinality, Cardinality

LEMMA InitDelivery == Init => Promise!Init
<1> SUFFICES ASSUME Init
             PROVE  Promise!Init
  OBVIOUS
<1>1. answerBar = [c \in Calls |-> "none"]
  BY DEF Init, answerBar
<1>2. Held = {} /\ StoredCalls = {}
  BY DEF Init, Held, Range, StoredCalls, Stored
<1> QED
  BY <1>1, <1>2 DEF Init, Promise!Init, answerBar, StoredCalls

(* With room in the channel, fewer events are held than the channel and    *)
(* the batches have room for together.                                     *)
LEMMA HeldBound ==
    ASSUME Typed, BatchDiscipline, Len(in) < BufferSize
    PROVE  Cardinality(Held) < CapacityBar
<1> USE PipelineAssumption
<1>1. \A w \in Workers : IsFiniteSet(batch[w]) /\ Cardinality(batch[w]) <= BatchSize
  BY FS_Subset DEF Typed, TypeOK, BatchDiscipline
<1> DEFINE U == UNION {batch[w] : w \in Workers}
<1>2. IsFiniteSet(U) /\ Cardinality(U) <= BatchSize * Cardinality(Workers)
  BY <1>1, UnionBound
<1>3. in \in Seq(Calls)
  BY DEF Typed, TypeOK
<1>4. /\ IsFiniteSet(Range(in))
      /\ Cardinality(Range(in)) <= Len(in) /\ Len(in) \in Nat
  BY <1>3, RangeBound
<1> HIDE DEF U
<1>5. Cardinality(Range(in) \cup U)
          = Cardinality(Range(in)) + Cardinality(U) - Cardinality(Range(in) \cap U)
  BY <1>2, <1>4, FS_Union
<1>6. /\ Cardinality(Range(in)) \in Nat /\ Cardinality(U) \in Nat
      /\ Cardinality(Range(in) \cap U) \in Nat
  BY <1>2, <1>4, FS_CardinalityType, FS_Intersection
<1>7. BatchSize * Cardinality(Workers) \in Nat
  BY FS_CardinalityType
<1>8. Cardinality(Range(in) \cup U) < BufferSize + BatchSize * Cardinality(Workers)
  BY <1>2, <1>4, <1>5, <1>6, <1>7
<1> QED
  BY <1>8 DEF Held, U, CapacityBar

(* The answers of the other calls stand when a call moves. *)
LEMMA AnswerMoves ==
    ASSUME Typed, NEW c \in Calls, NEW label, Goto(c, label),
           NEW a, a = CASE label \in {"rejected", "dropped", "panicked"} -> "refused"
                        [] label = "queued" -> "taken"
                        [] label = "duplicate" -> "assumed"
                        [] OTHER -> "none"
    PROVE  answerBar' = [answerBar EXCEPT ![c] = a]
BY DEF Goto, Typed, TypeOK, answerBar

LEMMA SendDelivery ==
    ASSUME Typed, BatchDiscipline, NEW c \in Calls, Send(c)
    PROVE  Promise!Take(c)
<1>1. Cardinality(Held) < CapacityBar
  BY HeldBound DEF Send
<1>2. answerBar[c] = "none" /\ answerBar' = [answerBar EXCEPT ![c] = "taken"]
  BY AnswerMoves DEF Send, answerBar
<1>3. UNCHANGED <<StoredCalls, lost, openBar, liveBar, stopped>> /\ openBar
  BY DEF Send, stopVars, workerVars, StoredCalls, Stored, openBar, liveBar
<1>4. Held' = Held \cup {c}
  <2>1. Range(in') = Range(in) \cup {c}
    BY SendRange DEF Send, Typed, TypeOK
  <2> QED
    BY <2>1 DEF Send, workerVars, Held
<1> QED
  BY <1>1, <1>2, <1>3, <1>4, SameCardinality
     DEF Promise!Take, Promise!Answer, answerBar, openBar, liveBar, StoredCalls, Stored,
         CapacityBar

LEMMA FlushDelivery ==
    ASSUME Typed, Places, BatchDiscipline, Draining, NEW w \in Workers, Flush(w)
    PROVE  Promise!Write \/ UNCHANGED barVars
<1> USE PipelineAssumption
<1> PICK r \in BulkInsert(batch[w]) :
      /\ stored' = [c \in Calls |-> IF c \in r.kept THEN stored[c] + 1 ELSE stored[c]]
      /\ lost' = lost \cup (batch[w] \ r.kept)
  BY DEF Flush
<1>1. r.kept \subseteq batch[w] /\ batch[w] \subseteq Calls
  BY FlushOutcome DEF Typed
<1>2. ~stopped
  BY DEF Flush, Draining
<1>3. /\ UNCHANGED <<pc, in, closed, cancelled, stopped>>
      /\ \A v \in Workers : batch'[v] = IF v = w THEN {} ELSE batch[v]
  BY DEF Flush, callVars, stopVars, Typed, TypeOK
<1>4. UNCHANGED <<answerBar, openBar, liveBar, stopped>>
  BY <1>3 DEF answerBar, openBar, liveBar
<1>5. Held' = Held \ batch[w]
  <2>1. \A c \in batch[w] : c \notin Range(in) /\ \A v \in Workers \ {w} : c \notin batch[v]
    BY DEF Places, NothingTwice
  <2> QED
    BY <1>3, <2>1 DEF Held
<1>6. StoredCalls' = StoredCalls \cup r.kept
  <2>1. \A c \in Calls : stored[c] \in Nat
                        /\ stored'[c] = IF c \in r.kept THEN stored[c] + 1 ELSE stored[c]
    BY DEF Typed, TypeOK
  <2> QED
    BY <1>1, <2>1 DEF StoredCalls, Stored
<1>7. batch[w] \in SUBSET Held /\ r.kept \in SUBSET batch[w]
  BY <1>1 DEF Held
<1>8. IsFiniteSet(batch[w]) /\ Cardinality(batch[w]) \in Nat
  BY <1>1, FS_Subset, FS_CardinalityType
<1>9. CASE batch[w] = {}
  BY <1>1, <1>4, <1>5, <1>6, <1>9 DEF barVars
<1>10. CASE batch[w] # {}
  <2>1. Cardinality(batch[w]) \in 1 .. BatchSize
    BY <1>8, <1>10, FS_EmptySet DEF BatchDiscipline
  <2> QED
    BY <1>2, <1>4, <1>5, <1>6, <1>7, <2>1, SameCardinality
       DEF Promise!Write, answerBar, openBar, liveBar, StoredCalls, Stored
<1> QED
  BY <1>9, <1>10

(* Every step is one of the promise, or none: a call that ends answers,    *)
(* a flush writes, receiving only moves an event between the places held.  *)
LEMMA StepDelivery ==
    Typed /\ Places /\ BatchDiscipline /\ Draining /\ [Next]_vars
        => [Promise!Next]_(Promise!vars)
<1> SUFFICES ASSUME Typed, Places, BatchDiscipline, Draining, [Next]_vars
             PROVE  Promise!Next \/ UNCHANGED barVars
  BY DEF Promise!vars, barVars, answerBar, openBar, liveBar, StoredCalls
<1>1. ASSUME NEW c \in Calls, Start(c) \/ Dedupe(c) \/ Drop(c) \/ SendOnClosed(c)
      PROVE  Promise!Refuse(c) \/ Promise!Assume(c) \/ UNCHANGED barVars
  <2>1. /\ UNCHANGED <<in, batch, stored, lost, closed, cancelled, stopped>>
        /\ pc[c] \in {"new", "dedupe", "send"}
    BY <1>1 DEF Start, Reject, ReadClock, SkipDedupe, Dedupe, Drop, SendOnClosed, stopVars,
                workerVars
  <2>2. PICK label \in {"dedupe", "send", "rejected", "duplicate", "dropped", "panicked"} :
            Goto(c, label)
    BY <1>1 DEF Start, Reject, ReadClock, SkipDedupe, Dedupe, Drop, SendOnClosed
  <2>3. UNCHANGED <<Held, StoredCalls, lost, openBar, liveBar, stopped>>
    BY <2>1 DEF Held, StoredCalls, Stored, openBar, liveBar
  <2>4. answerBar[c] = "none"
    BY <2>1 DEF answerBar
  <2>5. CASE label \in {"rejected", "dropped", "panicked"}
    <3>1. answerBar' = [answerBar EXCEPT ![c] = "refused"]
      BY <2>2, <2>5, AnswerMoves
    <3> QED
      BY <2>3, <2>4, <3>1
         DEF Promise!Refuse, Promise!Answer, answerBar, openBar, liveBar, StoredCalls
  <2>6. CASE label = "duplicate"
    <3>1. answerBar' = [answerBar EXCEPT ![c] = "assumed"]
      BY <2>2, <2>6, AnswerMoves
    <3> QED
      BY <2>3, <2>4, <3>1
         DEF Promise!Assume, Promise!Answer, answerBar, openBar, liveBar, StoredCalls
  <2>7. CASE label \in {"dedupe", "send"}
    <3>1. answerBar' = [answerBar EXCEPT ![c] = "none"]
      BY <2>2, <2>7, AnswerMoves
    <3>2. answerBar' = answerBar
      BY <2>4, <3>1 DEF answerBar
    <3> QED
      BY <2>3, <3>2 DEF barVars
  <2> QED
    BY <2>2, <2>5, <2>6, <2>7
<1>2. ASSUME NEW w \in Workers, Receive(w)
      PROVE  UNCHANGED barVars
  <2>1. Range(in) = Range(in') \cup {Head(in)}
    BY <1>2, ReceiveRange DEF Receive, Typed, TypeOK
  <2>2. \A v \in Workers : batch'[v] = IF v = w THEN batch[w] \cup {Head(in)} ELSE batch[v]
    BY <1>2 DEF Receive, Typed, TypeOK
  <2>3. Held' = Held
    BY <2>1, <2>2 DEF Held
  <2> QED
    BY <1>2, <2>3
       DEF Receive, callVars, stopVars, barVars, answerBar, StoredCalls, Stored, openBar, liveBar
<1>3. ASSUME \/ \E w \in Workers : CtxDone(w) \/ ChannelClosed(w) \/ Interval(w)
             \/ ScraperExit
             \/ Tick
             \/ UNCHANGED vars
      PROVE  UNCHANGED barVars
  <2>1. UNCHANGED <<pc, in, batch, stored, lost, closed, cancelled, stopped>>
    BY <1>3 DEF CtxDone, ChannelClosed, Interval, ScraperExit, Tick, vars, callVars, stopVars,
                workerVars
  <2> QED
    BY <2>1 DEF barVars, answerBar, Held, StoredCalls, Stored, openBar, liveBar
<1>4. ASSUME Cancel \/ Close \/ StopReturn
      PROVE  UNCHANGED <<answerBar, Held, StoredCalls, lost>>
  BY <1>4 DEF Cancel, Close, StopReturn, callVars, workerVars, answerBar, Held, StoredCalls, Stored
<1>5. ASSUME Cancel
      PROVE  Promise!Kill
  BY <1>4, <1>5 DEF Cancel, Promise!Kill, answerBar, openBar, liveBar, StoredCalls
<1>6. ASSUME Close
      PROVE  Promise!Shut
  BY <1>4, <1>6 DEF Close, Promise!Shut, answerBar, openBar, liveBar, StoredCalls
<1>7. ASSUME StopReturn
      PROVE  Promise!Finish
  <2>1. ~cancelled => Held = {}
    BY <1>7, PipelineAssumption DEF StopReturn, Draining, BatchDiscipline, Held, Range
  <2> QED
    BY <1>4, <1>7, <2>1
       DEF StopReturn, Promise!Finish, answerBar, openBar, liveBar, StoredCalls
<1> QED
  BY <1>1, <1>2, <1>3, <1>5, <1>6, <1>7, SendDelivery, FlushDelivery
     DEF Next, Advance, Worker, Promise!Next

LEMMA DrainingInvariant == Spec => []Draining
BY Typing, InitDraining, StepDraining, PTL DEF Spec

(* The pipeline keeps the promise of Delivery: what Abstract_proofs shows  *)
(* of it (a taken event is accounted for once, a shutdown of a live        *)
(* pipeline leaves nothing behind) holds of the pipeline, and it never     *)
(* holds more events than the channel and the batches have room for.       *)
THEOREM RefinesDelivery == Spec => ImplementsDelivery
BY InitDelivery, StepDelivery, Typing, PlacesInvariant, BatchesAreDisciplined,
   DrainingInvariant, PTL DEF Spec, ImplementsDelivery, Promise!Spec
=============================================================================
