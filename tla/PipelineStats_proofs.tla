------------------------- MODULE PipelineStats_proofs -------------------------
(***************************************************************************)
(* Proofs about the snapshot Stats takes of a running pipeline, for any    *)
(* calls, workers and sizes.                                               *)
(*                                                                         *)
(* Each loaded value is bounded by the number of events in one place:      *)
(* stored, refused as invalid, dropped, or in the channel.  The first      *)
(* three places only gain events, so that the bounds outlive the loads,    *)
(* and no event is in two of the four when the last load is made.          *)
(***************************************************************************)
EXTENDS PipelineStats, Pipeline_proofs

Rejected == {c \in Calls : pc[c] = "rejected"}
Dropped == {c \in Calls : pc[c] = "dropped"}

(* The counters of refused events count calls that ended so. *)
RefusalsCounted ==
    /\ rejected <= Cardinality(Rejected)
    /\ dropped <= Cardinality(Dropped)

(* The sets that are counted are finite. *)
LEMMA CountedSets ==
    /\ IsFiniteSet(StoredCalls) /\ Cardinality(StoredCalls) \in Nat
    /\ IsFiniteSet(Rejected) /\ Cardinality(Rejected) \in Nat
    /\ IsFiniteSet(Dropped) /\ Cardinality(Dropped) \in Nat
    /\ IsFiniteSet(Begun) /\ Cardinality(Begun) \in Nat
<1>1. /\ StoredCalls \in SUBSET Calls /\ Rejected \in SUBSET Calls
      /\ Dropped \in SUBSET Calls /\ Begun \in SUBSET Calls
  BY DEF StoredCalls, Rejected, Dropped, Begun
<1>2. IsFiniteSet(StoredCalls) /\ IsFiniteSet(Rejected) /\ IsFiniteSet(Dropped) /\ IsFiniteSet(Begun)
  BY <1>1, FS_Subset, PipelineAssumption
<1> QED
  BY <1>2, FS_CardinalityType

(* A call that has ended stays as it ended, a stored event stays stored.   *)
LEMMA PlacesGrow ==
    ASSUME Typed, [Next]_vars
    PROVE  /\ StoredCalls \subseteq StoredCalls'
           /\ Rejected \subseteq Rejected'
           /\ Dropped \subseteq Dropped'
           /\ Begun \subseteq Begun'
<1>1. ASSUME NEW c \in Calls, Start(c) \/ Advance(c)
      PROVE  /\ pc[c] \notin Ended
             /\ \E label \in {"dedupe", "send"} \cup Ended : pc' = [pc EXCEPT ![c] = label]
             /\ UNCHANGED stored
  BY <1>1 DEF Start, Advance, Reject, ReadClock, SkipDedupe, Dedupe, Send, Drop, SendOnClosed,
              Verdict, Goto, Ended, workerVars
<1>2. ASSUME NEW w \in Workers, Flush(w)
      PROVE  UNCHANGED pc /\ StoredCalls \subseteq StoredCalls'
  <2>1. \A c \in Calls : stored'[c] = stored[c] \/ stored'[c] = stored[c] + 1
    BY <1>2 DEF Flush
  <2> QED
    BY <1>2, <2>1 DEF Flush, callVars, StoredCalls, Stored, Typed, TypeOK
<1>3. ASSUME \/ \E w \in Workers : CtxDone(w) \/ Receive(w) \/ ChannelClosed(w) \/ Interval(w)
             \/ ScraperExit \/ Cancel \/ Close \/ StopReturn \/ Tick
             \/ UNCHANGED vars
      PROVE  UNCHANGED <<pc, stored>>
  BY <1>3 DEF CtxDone, Receive, ChannelClosed, Interval, ScraperExit, Cancel, Close, StopReturn,
              Tick, vars, callVars, workerVars
<1>4. ASSUME UNCHANGED pc
      PROVE  Rejected' = Rejected /\ Dropped' = Dropped /\ Begun' = Begun
  BY <1>4 DEF Rejected, Dropped, Begun
<1>5. ASSUME UNCHANGED stored
      PROVE  StoredCalls' = StoredCalls
  BY <1>5 DEF StoredCalls, Stored
<1>6. ASSUME NEW c \in Calls, Start(c) \/ Advance(c)
      PROVE  Rejected \subseteq Rejected' /\ Dropped \subseteq Dropped' /\ Begun \subseteq Begun'
  BY <1>1, <1>6 DEF Rejected, Dropped, Begun, Ended, Typed, TypeOK
<1> QED
  BY <1>1, <1>2, <1>3, <1>4, <1>5, <1>6 DEF Next, Worker

(* A set that gains a new element counts one more. *)
LEMMA OneMore ==
    ASSUME NEW S, NEW T, NEW x, IsFiniteSet(S), T = S \cup {x}, x \notin S
    PROVE  Cardinality(T) = Cardinality(S) + 1
BY FS_AddElement

(* Sets without a common element count as much together as apart. *)
LEMMA DisjointUnion ==
    ASSUME NEW S, IsFiniteSet(S), NEW T, IsFiniteSet(T), S \cap T = {}
    PROVE  /\ IsFiniteSet(S \cup T)
           /\ Cardinality(S \cup T) = Cardinality(S) + Cardinality(T)
<1>1. Cardinality(S \cap T) = 0
  BY FS_EmptySet
<1>2. Cardinality(S) \in Nat /\ Cardinality(T) \in Nat
  BY FS_CardinalityType
<1>3. /\ IsFiniteSet(S \cup T)
      /\ Cardinality(S \cup T) = Cardinality(S) + Cardinality(T) - Cardinality(S \cap T)
  BY FS_Union
<1> QED
  BY <1>1, <1>2, <1>3

LEMMA InitRefusals == Init => RefusalsCounted
BY CountedSets DEF Init, RefusalsCounted

LEMMA StepRefusals == Typed /\ RefusalsCounted /\ [Next]_vars => RefusalsCounted'
<1> SUFFICES ASSUME Typed, RefusalsCounted, [Next]_vars
             PROVE  RefusalsCounted'
  OBVIOUS
<1>1. /\ IsFiniteSet(Rejected) /\ Cardinality(Rejected) \in Nat
      /\ IsFiniteSet(Dropped) /\ Cardinality(Dropped) \in Nat
      /\ rejected \in Nat /\ dropped \in Nat
  BY CountedSets DEF Typed, TypeOK
<1>2. /\ IsFiniteSet(Rejected') /\ Cardinality(Rejected') \in Nat
      /\ IsFiniteSet(Dropped') /\ Cardinality(Dropped') \in Nat
  <2>1. Rejected' \in SUBSET Calls /\ Dropped' \in SUBSET Calls
    BY DEF Rejected, Dropped
  <2>2. IsFiniteSet(Rejected') /\ IsFiniteSet(Dropped')
    BY <2>1, FS_Subset, PipelineAssumption
  <2> QED
    BY <2>2, FS_CardinalityType
<1>3. Cardinality(Rejected) <= Cardinality(Rejected')
  BY <1>2, PlacesGrow, FS_Subset
<1>4. Cardinality(Dropped) <= Cardinality(Dropped')
  BY <1>2, PlacesGrow, FS_Subset
<1>5. ASSUME NEW c \in Calls, Reject(c)
      PROVE  RefusalsCounted'
  <2>1. Rejected' = Rejected \cup {c} /\ c \notin Rejected
    BY <1>5 DEF Reject, Goto, Rejected, Typed, TypeOK
  <2>2. Cardinality(Rejected') = Cardinality(Rejected) + 1
    BY <1>1, <2>1, OneMore
  <2>3. rejected' = rejected + 1 /\ dropped' = dropped
    BY <1>5 DEF Reject
  <2> QED
    BY <1>1, <1>2, <1>4, <2>2, <2>3 DEF RefusalsCounted
<1>6. ASSUME NEW c \in Calls, Drop(c)
      PROVE  RefusalsCounted'
  <2>1. Dropped' = Dropped \cup {c} /\ c \notin Dropped
    BY <1>6 DEF Drop, Goto, Dropped, Typed, TypeOK
  <2>2. Cardinality(Dropped') = Cardinality(Dropped) + 1
    BY <1>1, <2>1, OneMore
  <2>3. dropped' = dropped + 1 /\ rejected' = rejected
    BY <1>6 DEF Drop
  <2> QED
    BY <1>1, <1>2, <1>3, <2>2, <2>3 DEF RefusalsCounted
<1>7. CASE UNCHANGED <<rejected, dropped>>
  BY <1>1, <1>2, <1>3, <1>4, <1>7 DEF RefusalsCounted
<1>8. ASSUME NEW c \in Calls, ReadClock(c) \/ SkipDedupe(c) \/ Dedupe(c) \/ Send(c) \/ SendOnClosed(c)
      PROVE  UNCHANGED <<rejected, dropped>>
  BY <1>8 DEF ReadClock, SkipDedupe, Dedupe, Send, SendOnClosed
<1>9. ASSUME NEW w \in Workers, Worker(w)
      PROVE  UNCHANGED <<rejected, dropped>>
  BY <1>9 DEF Worker, CtxDone, Receive, ChannelClosed, Interval, Flush
<1>10. ASSUME ScraperExit \/ Cancel \/ Close \/ StopReturn \/ Tick \/ UNCHANGED vars
       PROVE  UNCHANGED <<rejected, dropped>>
  BY <1>10 DEF ScraperExit, Cancel, Close, StopReturn, Tick, vars
<1> QED
  BY <1>5, <1>6, <1>7, <1>8, <1>9, <1>10 DEF Next, Start, Advance

-----------------------------------------------------------------------------
(* The snapshot                                                            *)

Counters == {"accepted", "rejected", "dropped", "depth"}

(* What has been loaded is bounded by the sets it counts, as they are now. *)
SeenIsCounted ==
    /\ reading \in Counters \cup {"idle", "done"}
    /\ seen \in [Counters -> Nat]
    /\ seen["accepted"] <= Cardinality(StoredCalls)
    /\ seen["rejected"] <= Cardinality(Rejected)
    /\ seen["dropped"] <= Cardinality(Dropped)

(* At no moment do the four places together hold more than the calls begun.*)
LEMMA FourPlaces ==
    ASSUME Typed, Places
    PROVE  Cardinality(StoredCalls) + Cardinality(Rejected) + Cardinality(Dropped) + Len(in)
               <= Cardinality(Begun)
<1> DEFINE SR == StoredCalls \cup Rejected
           SRD == SR \cup Dropped
           all == SRD \cup Range(in)
<1>1. in \in Seq(Calls)
  BY DEF Typed, TypeOK
<1>2. IsFiniteSet(Range(in)) /\ Cardinality(Range(in)) = Len(in)
  <2>1. Len(in) \in Nat /\ in \in [1 .. Len(in) -> Calls]
    BY <1>1
  <2>2. in \in Injection(1 .. Len(in), Calls)
    BY <2>1 DEF Injection, Places, NothingTwice
  <2>3. ExistsBijection(1 .. Len(in), Range(in))
    BY <2>2, Fun_InjMeansBijImage DEF ExistsBijection
  <2>4. IsFiniteSet(1 .. Len(in)) /\ Cardinality(1 .. Len(in)) = Len(in)
    BY <2>1, FS_Interval
  <2> QED
    BY <2>3, <2>4, FS_Bijection
<1>3. \A c \in Calls : c \in StoredCalls \/ c \in Range(in) => pc[c] = "queued"
  BY DEF StoredCalls, Places, NothingVanishes, Settled
<1>4. StoredCalls \cap Rejected = {}
  BY <1>3 DEF StoredCalls, Rejected
<1>5. SR \cap Dropped = {}
  BY <1>3 DEF StoredCalls, Rejected, Dropped
<1>6. SRD \cap Range(in) = {}
  BY <1>1, <1>3 DEF StoredCalls, Rejected, Dropped, Places, NothingTwice, Settled
<1>7. all \subseteq Begun
  BY <1>1, <1>3 DEF StoredCalls, Rejected, Dropped, Begun, Range
<1> HIDE DEF SR, SRD, all
<1>8. /\ IsFiniteSet(SR)
      /\ Cardinality(SR) = Cardinality(StoredCalls) + Cardinality(Rejected)
  BY <1>4, CountedSets, DisjointUnion DEF SR
<1>9. /\ IsFiniteSet(SRD)
      /\ Cardinality(SRD) = Cardinality(SR) + Cardinality(Dropped)
  BY <1>5, <1>8, CountedSets, DisjointUnion DEF SRD
<1>10. Cardinality(all) = Cardinality(SRD) + Cardinality(Range(in))
  BY <1>2, <1>6, <1>9, DisjointUnion DEF all
<1>11. Cardinality(all) <= Cardinality(Begun)
  BY <1>7, CountedSets, FS_Subset
<1> QED
  BY <1>2, <1>8, <1>9, <1>10, <1>11, CountedSets

Snapshot == SeenIsCounted /\ SnapshotCountsOnce

LEMMA InitSnapshot == StatsInit => Snapshot
<1> SUFFICES ASSUME StatsInit
             PROVE  Snapshot
  OBVIOUS
<1>1. Range(Loads) = Counters
  <2>1. DOMAIN Loads = 1 .. 4
    BY DEF Loads
  <2>2. 1 .. 4 = {1, 2, 3, 4}
    OBVIOUS
  <2> QED
    BY <2>1, <2>2 DEF Loads, Range, Counters
<1>2. seen = [l \in Counters |-> 0] /\ reading = "idle"
  BY <1>1 DEF StatsInit
<1> QED
  BY <1>2, CountedSets DEF Snapshot, SeenIsCounted, SnapshotCountsOnce, Counters

LEMMA StepSnapshot ==
    Typed /\ Places /\ AcceptedIsStored /\ RefusalsCounted /\ Snapshot /\ [StatsNext]_statsVars
        => Snapshot'
<1> SUFFICES ASSUME Typed, Places, AcceptedIsStored, RefusalsCounted, Snapshot,
                    [StatsNext]_statsVars
             PROVE  Snapshot'
  OBVIOUS
<1> USE DEF Counters
<1>1. ASSUME [Next]_vars, UNCHANGED <<reading, seen>>
      PROVE  Snapshot'
  <2>1. /\ IsFiniteSet(StoredCalls') /\ Cardinality(StoredCalls') \in Nat
        /\ IsFiniteSet(Rejected') /\ Cardinality(Rejected') \in Nat
        /\ IsFiniteSet(Dropped') /\ Cardinality(Dropped') \in Nat
        /\ IsFiniteSet(Begun') /\ Cardinality(Begun') \in Nat
    <3>1. /\ StoredCalls' \in SUBSET Calls /\ Rejected' \in SUBSET Calls
          /\ Dropped' \in SUBSET Calls /\ Begun' \in SUBSET Calls
      BY DEF StoredCalls, Rejected, Dropped, Begun
    <3>2. /\ IsFiniteSet(StoredCalls') /\ IsFiniteSet(Rejected')
          /\ IsFiniteSet(Dropped') /\ IsFiniteSet(Begun')
      BY <3>1, FS_Subset, PipelineAssumption
    <3> QED
      BY <3>2, FS_CardinalityType
  <2>2. /\ Cardinality(StoredCalls) <= Cardinality(StoredCalls')
        /\ Cardinality(Rejected) <= Cardinality(Rejected')
        /\ Cardinality(Dropped) <= Cardinality(Dropped')
        /\ Cardinality(Begun) <= Cardinality(Begun')
    BY <1>1, <2>1, PlacesGrow, FS_Subset
  <2> QED
    BY <1>1, <2>1, <2>2, CountedSets DEF Snapshot, SeenIsCounted, SnapshotCountsOnce
<1>2. CASE Request
  <2>1. reading' = "accepted" /\ UNCHANGED <<vars, seen>>
    BY <1>2 DEF Request, Loads
  <2>2. UNCHANGED <<StoredCalls, Rejected, Dropped>>
    BY <2>1 DEF vars, callVars, workerVars, StoredCalls, Stored, Rejected, Dropped
  <2> QED
    BY <2>1, <2>2 DEF Snapshot, SeenIsCounted, SnapshotCountsOnce
<1>3. CASE Load
  <2>1. /\ UNCHANGED vars
        /\ reading \in Counters /\ reading' \in Counters \cup {"done"}
        /\ seen' = [seen EXCEPT ![reading] = Value(reading)]
        /\ reading' = "done" => reading = "depth"
    <3>1. DOMAIN Loads = {1, 2, 3, 4} /\ Len(Loads) = 4
      BY DEF Loads
    <3> QED
      BY <1>3, <3>1 DEF Load, Loads
  <2>2. UNCHANGED <<StoredCalls, Rejected, Dropped, Begun>>
    BY <2>1 DEF vars, callVars, workerVars, StoredCalls, Stored, Rejected, Dropped, Begun
  <2>3. /\ accepted \in Nat /\ accepted <= Cardinality(StoredCalls)
        /\ rejected \in Nat /\ rejected <= Cardinality(Rejected)
        /\ dropped \in Nat /\ dropped <= Cardinality(Dropped)
        /\ Len(in) \in Nat
    BY DEF Typed, TypeOK, AcceptedIsStored, StoredCalls, RefusalsCounted
  <2>4. SeenIsCounted'
    BY <2>1, <2>2, <2>3 DEF Snapshot, SeenIsCounted, Value
  <2>5. ASSUME reading' = "done"
        PROVE  seen'["accepted"] + seen'["rejected"] + seen'["dropped"] + seen'["depth"]
                   <= Cardinality(Begun')
    <3>1. /\ seen'["depth"] = Len(in)
          /\ seen'["accepted"] = seen["accepted"]
          /\ seen'["rejected"] = seen["rejected"]
          /\ seen'["dropped"] = seen["dropped"]
      BY <2>1, <2>5 DEF Snapshot, SeenIsCounted, Value
    <3> QED
      BY <2>2, <2>3, <3>1, FourPlaces, CountedSets DEF Snapshot, SeenIsCounted
  <2> QED
    BY <2>4, <2>5 DEF Snapshot, SnapshotCountsOnce
<1> QED
  BY <1>1, <1>2, <1>3 DEF StatsNext, statsVars

(* The snapshot watches the pipeline and does not touch it. *)
LEMMA StatsStep == [StatsNext]_statsVars => [Next]_vars
BY DEF StatsNext, Request, Load, statsVars

(* Taking snapshots leaves the pipeline what it is. *)
LEMMA StatsEmbedsPipeline == StatsSpec => Spec
<1>1. StatsInit => Init
  BY DEF StatsInit
<1> QED
  BY <1>1, StatsStep, PTL DEF StatsSpec, Spec

(* A snapshot counts every event at most once, wherever the pipeline moves *)
(* it between two loads.                                                   *)
THEOREM SnapshotsCountOnce == StatsSpec => []SnapshotCountsOnce
<1>1. Spec => []RefusalsCounted
  BY InitRefusals, StepRefusals, Typing, PTL DEF Spec
<1>2. StatsSpec => []Snapshot
  BY <1>1, InitSnapshot, StepSnapshot, StatsEmbedsPipeline, Typing, PlacesInvariant,
     AcceptedNeverOverstates, PTL DEF StatsSpec
<1> QED
  BY <1>2, PTL DEF Snapshot
=============================================================================
