------------------------------ MODULE DedupeMap ------------------------------
(***************************************************************************)
(* The duplicate filter of the ingestion pipeline                          *)
(* (internal/ingestion/pipeline.go, checkAndStoreDedup): a map from        *)
(* idempotency keys to the second at which they were let through, emptied  *)
(* of old entries by the callers themselves.  This module holds its state  *)
(* and the critical section of a call; DedupeCache runs it with concurrent *)
(* callers and Pipeline runs it inside Submit.                             *)
(*                                                                         *)
(* Time is counted in the seconds of time.Now().Unix().  It never runs     *)
(* backwards here, MaxTime bounds it, and MaxStall bounds how long a       *)
(* goroutine can stay between its reading of the clock (line 192) and the  *)
(* critical section (193-211).                                             *)
(***************************************************************************)
EXTENDS Integers

CONSTANTS Keys,        \* the non-empty idempotency keys
          NoKey,       \* the empty key: no deduplication requested
          Window,      \* 300 in the code
          SweepEvery,  \* 60 in the code
          StartTime,   \* the clock when the process starts
          MaxStall,    \* longest time between reading the clock and locking
          MaxTime      \* bound: the clock stops there

ASSUME DedupeAssumption ==
    /\ NoKey \notin Keys
    /\ {Window, SweepEvery, StartTime, MaxStall, MaxTime} \subseteq Nat
    /\ StartTime <= MaxTime
    /\ MaxStall <= Window

VARIABLES now,       \* the clock
          dedupe,    \* Pipeline.dedupe; Absent for a key the map does not hold
          dedupeAt,  \* Pipeline.dedupeAt, the time of the last sweep
          admitted   \* history: when each key was last let through

dedupeVars == <<dedupe, dedupeAt, admitted>>

Absent == -1

Times == StartTime .. MaxTime

DedupeTypeOK ==
    /\ now \in Times
    /\ dedupe \in [Keys -> Times \cup {Absent}]
    /\ dedupeAt \in Times \cup {0}
    /\ admitted \in [Keys -> Times \cup {Absent}]

DedupeInit ==
    /\ now = StartTime
    /\ dedupe = [k \in Keys |-> Absent]
    /\ dedupeAt = 0
    /\ admitted = [k \in Keys |-> Absent]

-----------------------------------------------------------------------------
(* A caller sweeps when its clock reading t is more than SweepEvery past   *)
(* the last sweep: entries older than t - Window go.                       *)
SweepDue(t) == t - dedupeAt > SweepEvery

(* Mutants of Swept: the window is forgotten; nothing is ever deleted. *)
SweptClean(t) == IF SweepDue(t) THEN [k \in Keys |-> Absent] ELSE dedupe
SweptNever(t) == dedupe

Swept(t) ==
    IF SweepDue(t)
    THEN [k \in Keys |-> IF dedupe[k] < t - Window THEN Absent ELSE dedupe[k]]
    ELSE dedupe

(* What checkAndStoreDedup returns for key k at clock reading t. *)
IsNew(k, t) == Swept(t)[k] = Absent

(* Mutant of CheckAndStore: time.Now().UnixMilli() is stored. *)
CheckAndStoreMillis(k, t) ==
    /\ dedupe' = IF IsNew(k, t) THEN [Swept(t) EXCEPT ![k] = 1000 * t] ELSE Swept(t)
    /\ UNCHANGED <<dedupeAt, admitted>>

(* The critical section: sweep, look the key up, store it if it is new.    *)
CheckAndStore(k, t) ==
    /\ dedupeAt' = IF SweepDue(t) THEN t ELSE dedupeAt
    /\ dedupe' = IF IsNew(k, t) THEN [Swept(t) EXCEPT ![k] = t] ELSE Swept(t)
    /\ admitted' = IF IsNew(k, t) THEN [admitted EXCEPT ![k] = now] ELSE admitted

=============================================================================
