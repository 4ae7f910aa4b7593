---------------------------- MODULE Abstract_proofs ----------------------------
(***************************************************************************)
(* Proofs about the two specifications the pipeline implements:            *)
(* DedupeCache, for any sets of keys and callers and any window, sweep     *)
(* period and stall; and Delivery, for any callers, capacity and batch     *)
(* size: every event a pipeline took is accounted for once, and a shutdown *)
(* that ended before the context was cancelled left nothing behind.        *)
(***************************************************************************)
EXTENDS DedupeCache, TLAPS

CONSTANTS Calls, Capacity, BatchSize

VARIABLES answer, held, stored, lost, open, live, done

Promise == INSTANCE Delivery

-----------------------------------------------------------------------------
(* The duplicate filter                                                    *)

(* What the map, the history and the readings of waiting callers have to   *)
(* do with the clock and with each other.                                  *)
Waiting ==
    \A c \in Callers : want[c] # NoKey =>
        at[c] \in Times /\ at[c] <= now /\ now - at[c] <= MaxStall

EntryTimes ==
    \A k \in Keys : dedupe[k] # Absent =>
        /\ dedupe[k] <= admitted[k]
        /\ admitted[k] - dedupe[k] <= MaxStall
        /\ admitted[k] <= now

InPast ==
    /\ dedupeAt <= now
    /\ \A k \in Keys : admitted[k] <= now

IInv == TypeOK /\ Waiting /\ EntryTimes /\ InPast /\ EntryKept /\ EntryFresh

(* One critical section, for a clock reading t at most MaxStall old, keeps *)
(* what the invariant says of the map.                                     *)
LEMMA CheckAndStoreKeeps ==
    ASSUME DedupeTypeOK, EntryTimes, InPast, EntryKept, EntryFresh,
           NEW k \in Keys, NEW t \in Times, t <= now, now - t <= MaxStall,
           CheckAndStore(k, t), now' = now
    PROVE  /\ DedupeTypeOK'
           /\ EntryTimes'
           /\ InPast'
           /\ EntryKept'
           /\ EntryFresh'
<1> USE DedupeAssumption
<1>1. Swept(t) \in [Keys -> Times \cup {Absent}]
  BY DEF Swept, DedupeTypeOK
<1>2. \A j \in Keys : /\ Swept(t)[j] \in {dedupe[j], Absent}
                      /\ SweepDue(t) /\ Swept(t)[j] # Absent => Swept(t)[j] >= t - Window
                      /\ dedupe[j] >= t - Window => Swept(t)[j] = dedupe[j]
  <2> SUFFICES ASSUME NEW j \in Keys
               PROVE  /\ Swept(t)[j] \in {dedupe[j], Absent}
                      /\ SweepDue(t) /\ Swept(t)[j] # Absent => Swept(t)[j] >= t - Window
                      /\ dedupe[j] >= t - Window => Swept(t)[j] = dedupe[j]
    OBVIOUS
  <2>1. dedupe[j] \in Int /\ t \in Int /\ Window \in Int /\ Absent \in Int
    BY DEF DedupeTypeOK, Times, Absent
  <2>2. CASE SweepDue(t)
    BY <2>1, <2>2 DEF Swept
  <2>3. CASE ~SweepDue(t)
    BY <2>1, <2>3 DEF Swept
  <2> QED
    BY <2>2, <2>3
<1>3. DedupeTypeOK'
  BY <1>1 DEF CheckAndStore, DedupeTypeOK
<1>4. \A j \in Keys : /\ j # k => dedupe'[j] = Swept(t)[j] /\ admitted'[j] = admitted[j]
                      /\ IsNew(k, t) => dedupe'[k] = t /\ admitted'[k] = now
                      /\ ~IsNew(k, t) => dedupe'[k] = Swept(t)[k] /\ admitted'[k] = admitted[k]
  BY <1>1 DEF CheckAndStore, DedupeTypeOK
<1>5. ~IsNew(k, t) => Swept(t)[k] # Absent
  BY DEF IsNew
<1>6. now \in Int /\ t \in Int /\ t # Absent /\ dedupeAt \in Int
        /\ MaxStall \in Nat /\ Window \in Nat /\ MaxStall <= Window
        /\ \A j \in Keys : /\ dedupe[j] \in Int /\ admitted[j] \in Int
                           /\ dedupe[j] # Absent => dedupe[j] \in Times
  BY DEF DedupeTypeOK, Times, Absent
<1>7. EntryTimes'
  BY <1>2, <1>4, <1>6 DEF EntryTimes, InPast
<1>8. InPast'
  BY <1>4, <1>6 DEF InPast, CheckAndStore
<1>9. \A j \in Keys : admitted[j] # Absent /\ now - admitted[j] <= Window - MaxStall
                        => Swept(t)[j] = dedupe[j] /\ dedupe[j] # Absent
                             /\ admitted[j] - dedupe[j] <= MaxStall
  BY <1>2, <1>6 DEF EntryKept
<1>10. EntryKept'
  BY <1>4, <1>6, <1>9 DEF EntryKept
<1>11. EntryFresh'
  <2>1. dedupeAt' \in Int
    BY <1>6 DEF CheckAndStore
  <2>2. CASE SweepDue(t)
    BY <1>2, <1>4, <1>6, <2>1, <2>2 DEF EntryFresh, CheckAndStore
  <2>3. CASE ~SweepDue(t)
    BY <1>2, <1>4, <1>6, <2>1, <2>3 DEF EntryFresh, CheckAndStore, InPast
  <2> QED
    BY <2>2, <2>3
<1> QED
  BY <1>3, <1>7, <1>8, <1>10, <1>11

LEMMA InitInv == Init => IInv
BY DedupeAssumption
   DEF Init, DedupeInit, IInv, TypeOK, DedupeTypeOK, Waiting, EntryTimes, InPast,
       EntryKept, EntryFresh, Times, Absent

LEMMA StepInv == IInv /\ [Next]_vars => IInv'
<1> SUFFICES ASSUME IInv, [Next]_vars
             PROVE  IInv'
  OBVIOUS
<1> USE DedupeAssumption DEF IInv
<1>1. CASE Tick
  <2>1. now \in Int /\ now' \in Times /\ now' = now + 1
    BY <1>1 DEF Tick, TypeOK, DedupeTypeOK, Times
  <2>2. \A k \in Keys : admitted[k] \in Int /\ dedupe[k] \in Int
    BY DEF TypeOK, DedupeTypeOK, Times, Absent
  <2>3. dedupeAt \in Int /\ Window \in Int /\ MaxStall \in Int
    BY DEF TypeOK, DedupeTypeOK, Times
  <2>4. UNCHANGED <<dedupe, dedupeAt, admitted, want, at, passed>>
    BY <1>1 DEF Tick, dedupeVars
  <2>5. TypeOK'
    BY <2>1, <2>4 DEF TypeOK, DedupeTypeOK
  <2>6. Waiting'
    BY <1>1, <2>1, <2>3, <2>4 DEF Waiting, Tick, Times
  <2>7. EntryTimes' /\ InPast' /\ EntryKept' /\ EntryFresh'
    BY <2>1, <2>2, <2>3, <2>4 DEF EntryTimes, InPast, EntryKept, EntryFresh
  <2> QED
    BY <2>5, <2>6, <2>7
<1>2. ASSUME NEW c \in Callers, NEW k \in Keys, Read(c, k)
      PROVE  IInv'
  <2>1. UNCHANGED <<now, dedupe, dedupeAt, admitted, passed>>
    BY <1>2 DEF Read, dedupeVars
  <2>2. TypeOK'
    BY <1>2, <2>1 DEF Read, TypeOK, DedupeTypeOK
  <2>3. Waiting'
    BY <1>2, <2>1 DEF Read, Waiting, TypeOK, DedupeTypeOK, Times
  <2>4. EntryTimes' /\ InPast' /\ EntryKept' /\ EntryFresh'
    BY <2>1 DEF EntryTimes, InPast, EntryKept, EntryFresh
  <2> QED
    BY <2>2, <2>3, <2>4
<1>3. ASSUME NEW c \in Callers, Lock(c)
      PROVE  IInv'
  <2>1. want[c] \in Keys /\ at[c] \in Times /\ at[c] <= now /\ now - at[c] <= MaxStall
    BY <1>3 DEF Lock, TypeOK, Waiting
  <2>2. CheckAndStore(want[c], at[c]) /\ now' = now
    BY <1>3 DEF Lock
  <2>3. DedupeTypeOK' /\ EntryTimes' /\ InPast' /\ EntryKept' /\ EntryFresh'
    BY <2>1, <2>2, CheckAndStoreKeeps DEF TypeOK
  <2>4. TypeOK'
    BY <1>3, <2>3 DEF Lock, TypeOK, IsNew
  <2>5. Waiting'
    BY <1>3 DEF Lock, Waiting, TypeOK
  <2> QED
    BY <2>3, <2>4, <2>5
<1>4. CASE UNCHANGED vars
  BY <1>4 DEF vars, TypeOK, DedupeTypeOK, Waiting, EntryTimes, InPast, EntryKept, EntryFresh
<1> QED
  BY <1>1, <1>2, <1>3, <1>4 DEF Next

THEOREM Invariance == Spec => []IInv
BY InitInv, StepInv, PTL DEF Spec

(* The state of the filter keeps its type: times within the clock's range. *)
THEOREM TypeCorrect == Spec => []TypeOK
BY Invariance, PTL DEF IInv

(* A recent key is never swept away (lines 193-211), however the readings  *)
(* of the clock and the critical sections of the callers interleave.       *)
THEOREM KeepsEntries == Spec => []EntryKept
BY Invariance, PTL DEF IInv

(* No entry outlives the window by the time of a sweep: the map is bounded *)
(* by the traffic of the window and one sweep period.                      *)
THEOREM ForgetsEntries == Spec => []EntryFresh
BY Invariance, PTL DEF IInv

-----------------------------------------------------------------------------
(* Only its own critical section answers a call. *)
LEMMA AnsweredByLock ==
    ASSUME TypeOK, [Next]_vars, NEW c \in Callers, Answered(c)
    PROVE  Lock(c)
<1>1. CASE Tick
  BY <1>1 DEF Tick, Answered
<1>2. ASSUME NEW d \in Callers, NEW k \in Keys, Read(d, k)
      PROVE  FALSE
  BY <1>2 DEF Read, Answered, TypeOK
<1>3. ASSUME NEW d \in Callers, Lock(d), d # c
      PROVE  FALSE
  BY <1>3 DEF Lock, Answered, TypeOK
<1>4. CASE UNCHANGED vars
  BY <1>4 DEF vars, Answered
<1> QED
  BY <1>1, <1>2, <1>3, <1>4 DEF Next, Answered

LEMMA AnswerBounds ==
    ASSUME IInv, NEW c \in Callers, Lock(c)
    PROVE  /\ passed'[c] /\ admitted[want[c]] # Absent
                => now - admitted[want[c]] > Window - MaxStall
           /\ ~passed'[c]
                => /\ admitted[want[c]] # Absent
                   /\ now - admitted[want[c]] <= Window + SweepEvery + MaxStall
<1> USE DedupeAssumption
<1> DEFINE k == want[c]
           t == at[c]
<1>1. k \in Keys /\ t \in Times /\ t <= now /\ now - t <= MaxStall
  BY DEF Lock, IInv, TypeOK, Waiting
<1>2. passed'[c] = (Swept(t)[k] = Absent)
  BY DEF Lock, IInv, TypeOK, IsNew
<1>3. Swept(t)[k] = IF SweepDue(t) /\ dedupe[k] < t - Window THEN Absent ELSE dedupe[k]
  BY <1>1 DEF Swept, IInv, TypeOK, DedupeTypeOK
<1>4. now \in Int /\ t \in Int /\ dedupeAt \in Int
        /\ dedupe[k] \in Int /\ admitted[k] \in Int
        /\ MaxStall \in Int /\ Window \in Int /\ SweepEvery \in Int
        /\ (dedupe[k] # Absent => dedupe[k] \in Nat)
  BY <1>1 DEF IInv, TypeOK, DedupeTypeOK, Times, Absent
<1>5. admitted[k] # Absent /\ now - admitted[k] <= Window - MaxStall
        => dedupe[k] # Absent /\ admitted[k] - dedupe[k] <= MaxStall
  BY <1>1 DEF IInv, EntryKept
<1>6. dedupe[k] # Absent => /\ dedupe[k] >= dedupeAt - Window
                            /\ dedupe[k] <= admitted[k]
  BY <1>1 DEF IInv, EntryFresh, EntryTimes
<1>7. ASSUME Swept(t)[k] = Absent, admitted[k] # Absent
      PROVE  now - admitted[k] > Window - MaxStall
  BY <1>1, <1>3, <1>4, <1>5, <1>7
<1>8. ASSUME Swept(t)[k] # Absent
      PROVE  admitted[k] # Absent /\ now - admitted[k] <= Window + SweepEvery + MaxStall
  <2>1. dedupe[k] # Absent /\ (SweepDue(t) => dedupe[k] >= t - Window)
    BY <1>3, <1>4, <1>8
  <2>2. dedupe[k] >= t - Window - SweepEvery
    <3>1. CASE SweepDue(t)
      BY <1>4, <2>1, <3>1
    <3>2. CASE ~SweepDue(t)
      BY <1>4, <1>6, <2>1, <3>2 DEF SweepDue
    <3> QED
      BY <3>1, <3>2
  <2> QED
    BY <1>1, <1>4, <1>6, <2>1, <2>2 DEF Absent
<1> QED
  BY <1>2, <1>7, <1>8

(* Two events with one key are never both let through within               *)
(* Window - MaxStall seconds, whatever the interleaving.                   *)
THEOREM NeverReadmittedEarly == Spec => NoEarlyReadmission
<1>1. IInv /\ [Next]_vars =>
        [\A c \in Callers :
            Answered(c) /\ passed'[c] /\ admitted[want[c]] # Absent
                => now - admitted[want[c]] > Window - MaxStall]_vars
  <2> SUFFICES ASSUME IInv, [Next]_vars, NEW c \in Callers, Answered(c), passed'[c],
                      admitted[want[c]] # Absent
               PROVE  now - admitted[want[c]] > Window - MaxStall
    OBVIOUS
  <2> QED
    BY AnsweredByLock, AnswerBounds DEF IInv
<1> QED
  BY <1>1, Invariance, PTL DEF Spec, NoEarlyReadmission

(* No event is refused as a duplicate of one let through more than         *)
(* Window + SweepEvery + MaxStall seconds earlier.                         *)
THEOREM DuplicatesAreRecent == Spec => DuplicateIsRecent
<1>1. IInv /\ [Next]_vars =>
        [\A c \in Callers :
            Answered(c) /\ ~passed'[c]
                => /\ admitted[want[c]] # Absent
                   /\ now - admitted[want[c]] <= Window + SweepEvery + MaxStall]_vars
  <2> SUFFICES ASSUME IInv, [Next]_vars, NEW c \in Callers, Answered(c), ~passed'[c]
               PROVE  /\ admitted[want[c]] # Absent
                      /\ now - admitted[want[c]] <= Window + SweepEvery + MaxStall
    OBVIOUS
  <2> QED
    BY AnsweredByLock, AnswerBounds DEF IInv
<1> QED
  BY <1>1, Invariance, PTL DEF Spec, DuplicateIsRecent

-----------------------------------------------------------------------------
(* The promise to the callers                                              *)

Taken == {c \in Calls : answer[c] = "taken"}

DeliveryInv ==
    /\ Promise!TypeOK
    /\ Promise!TakenOnce
    /\ done => ~open
    /\ done /\ live => held = {}

LEMMA DeliveryInit == Promise!Init => DeliveryInv
BY DEF Promise!Init, DeliveryInv, Promise!TypeOK, Promise!TakenOnce

(* Only answers to a caller that had none change what has been taken. *)
LEMMA AnswerStep ==
    ASSUME DeliveryInv, NEW c \in Calls, NEW a \in {"refused", "assumed"},
           Promise!Answer(c, a), UNCHANGED <<held, stored, lost, open, live, done>>
    PROVE  DeliveryInv'
<1>1. Promise!TypeOK'
  BY DEF DeliveryInv, Promise!TypeOK, Promise!Answer
<1>2. Taken' = Taken
  BY DEF DeliveryInv, Promise!TypeOK, Promise!Answer, Taken
<1>3. Promise!TakenOnce'
  BY <1>2 DEF DeliveryInv, Promise!TakenOnce, Taken
<1> QED
  BY <1>1, <1>3 DEF DeliveryInv

LEMMA TakeStep ==
    ASSUME DeliveryInv, NEW c \in Calls, Promise!Take(c)
    PROVE  DeliveryInv'
<1>1. Promise!TypeOK'
  BY DEF DeliveryInv, Promise!TypeOK, Promise!Take, Promise!Answer
<1>2. Taken' = Taken \cup {c} /\ c \notin Taken
  BY DEF DeliveryInv, Promise!TypeOK, Promise!Take, Promise!Answer, Taken
<1>3. Taken = held \cup stored \cup lost
  BY DEF DeliveryInv, Promise!TakenOnce, Taken
<1>4. Promise!TakenOnce'
  BY <1>2, <1>3 DEF DeliveryInv, Promise!TakenOnce, Taken, Promise!Take
<1>5. ~done' /\ ~done
  BY DEF DeliveryInv, Promise!Take
<1> QED
  BY <1>1, <1>4, <1>5 DEF DeliveryInv

LEMMA WriteStep ==
    ASSUME DeliveryInv, Promise!Write
    PROVE  DeliveryInv'
<1>1. PICK b \in SUBSET held, kept \in SUBSET held :
          /\ kept \subseteq b
          /\ held' = held \ b
          /\ stored' = stored \cup kept
          /\ lost' = lost \cup (b \ kept)
          /\ UNCHANGED <<answer, open, live, done>>
          /\ ~done
  BY DEF Promise!Write
<1>2. Promise!TypeOK'
  BY <1>1 DEF DeliveryInv, Promise!TypeOK
<1>3. held' \cup stored' \cup lost' = held \cup stored \cup lost
  BY <1>1
<1>4. /\ held' \cap stored' = {} /\ held' \cap lost' = {}
      /\ stored' \cap lost' = {}
  BY <1>1 DEF DeliveryInv, Promise!TakenOnce
<1>5. Promise!TakenOnce'
  BY <1>1, <1>3, <1>4 DEF DeliveryInv, Promise!TakenOnce
<1> QED
  BY <1>1, <1>2, <1>5 DEF DeliveryInv

LEMMA DeliveryStep == DeliveryInv /\ [Promise!Next]_(Promise!vars) => DeliveryInv'
<1> SUFFICES ASSUME DeliveryInv, [Promise!Next]_(Promise!vars)
             PROVE  DeliveryInv'
  OBVIOUS
<1>1. ASSUME NEW c \in Calls, Promise!Refuse(c) \/ Promise!Assume(c)
      PROVE  DeliveryInv'
  BY <1>1, AnswerStep DEF Promise!Refuse, Promise!Assume
<1>2. ASSUME NEW c \in Calls, Promise!Take(c)
      PROVE  DeliveryInv'
  BY <1>2, TakeStep
<1>3. CASE Promise!Write
  BY <1>3, WriteStep
<1>4. CASE Promise!Shut
  BY <1>4 DEF Promise!Shut, DeliveryInv, Promise!TypeOK, Promise!TakenOnce
<1>5. CASE Promise!Kill
  BY <1>5 DEF Promise!Kill, DeliveryInv, Promise!TypeOK, Promise!TakenOnce
<1>6. CASE Promise!Finish
  BY <1>6 DEF Promise!Finish, DeliveryInv, Promise!TypeOK, Promise!TakenOnce
<1>7. CASE UNCHANGED Promise!vars
  BY <1>7 DEF Promise!vars, DeliveryInv, Promise!TypeOK, Promise!TakenOnce
<1> QED
  BY <1>1, <1>2, <1>3, <1>4, <1>5, <1>6, <1>7 DEF Promise!Next

LEMMA DeliveryHolds == Promise!Spec => []DeliveryInv
BY DeliveryInit, DeliveryStep, PTL DEF Promise!Spec

(* The promise has the types it is stated with. *)
THEOREM DeliveryTypes == Promise!Spec => []Promise!TypeOK
<1>1. DeliveryInv => Promise!TypeOK
  BY DEF DeliveryInv
<1> QED
  BY <1>1, DeliveryHolds, PTL

(* A taken event is held, stored or lost, and only one of these. *)
THEOREM EventsTakenOnce == Promise!Spec => []Promise!TakenOnce
<1>1. DeliveryInv => Promise!TakenOnce
  BY DEF DeliveryInv
<1> QED
  BY <1>1, DeliveryHolds, PTL

(* A shutdown that ends while the pipeline is live leaves nothing held. *)
THEOREM FinishesClean == Promise!Spec => []Promise!CleanFinish
<1>1. DeliveryInv => Promise!CleanFinish
  BY DEF DeliveryInv, Promise!TakenOnce, Promise!CleanFinish
<1> QED
  BY <1>1, DeliveryHolds, PTL
=============================================================================
