----------------------------- MODULE DedupeCache -----------------------------
(***************************************************************************)
(* checkAndStoreDedup called by concurrent goroutines.  A call reads the   *)
(* clock, then waits for the mutex, then runs its critical section with    *)
(* the reading it took: other calls, sweeps among them, and seconds can    *)
(* pass in between.  Each caller calls again and again.                    *)
(***************************************************************************)
EXTENDS DedupeMap

CONSTANT Callers

VARIABLES want,   \* the key a caller is waiting to check, NoKey if none
          at,     \* its reading of the clock, 0 when it has none
          passed  \* what its last call returned: was the key new?

vars == <<now, dedupe, dedupeAt, admitted, want, at, passed>>

TypeOK ==
    /\ DedupeTypeOK
    /\ want \in [Callers -> Keys \cup {NoKey}]
    /\ at \in [Callers -> Times \cup {0}]
    /\ passed \in [Callers -> BOOLEAN]

Init ==
    /\ DedupeInit
    /\ want = [c \in Callers |-> NoKey]
    /\ at = [c \in Callers |-> 0]
    /\ passed = [c \in Callers |-> TRUE]

-----------------------------------------------------------------------------
(* now := time.Now().Unix(), before the lock. *)
Read(c, k) ==
    /\ want[c] = NoKey
    /\ want' = [want EXCEPT ![c] = k]
    /\ at' = [at EXCEPT ![c] = now]
    /\ UNCHANGED <<now, dedupeVars, passed>>

(* The call gets the mutex, checks and stores, and returns. *)
Lock(c) ==
    /\ want[c] # NoKey
    /\ CheckAndStore(want[c], at[c])
    /\ passed' = [passed EXCEPT ![c] = IsNew(want[c], at[c])]
    /\ want' = [want EXCEPT ![c] = NoKey]
    /\ at' = [at EXCEPT ![c] = 0]
    /\ UNCHANGED now

(* A second passes; no caller is stalled for more than MaxStall. *)
Tick ==
    /\ now < MaxTime
    /\ \A c \in Callers : want[c] # NoKey => now - at[c] < MaxStall
    /\ now' = now + 1
    /\ UNCHANGED <<dedupeVars, want, at, passed>>

Next ==
    \/ Tick
    \/ \E c \in Callers : Lock(c) \/ \E k \in Keys : Read(c, k)

Spec == Init /\ [][Next]_vars

-----------------------------------------------------------------------------
(* A key let through within the last Window - MaxStall seconds is still in *)
(* the map with a time the filter took for it: no sweep, however its       *)
(* caller's reading of the clock interleaves with the others, removes it.  *)
EntryKept ==
    \A k \in Keys :
        admitted[k] # Absent /\ now - admitted[k] <= Window - MaxStall
            => dedupe[k] # Absent /\ admitted[k] - dedupe[k] <= MaxStall

(* The map does not grow without bound (comment at line 196): no entry is  *)
(* older than Window at the time of the last sweep, even one stored after  *)
(* that sweep by a caller that had read the clock before it.               *)
EntryFresh ==
    \A k \in Keys : dedupe[k] # Absent => dedupe[k] >= dedupeAt - Window

Answered(c) == want[c] # NoKey /\ want'[c] = NoKey

(* Two events with one key are never both let through within               *)
(* Window - MaxStall seconds of each other.                                *)
NoEarlyReadmission ==
    [][\A c \in Callers :
          Answered(c) /\ passed'[c] /\ admitted[want[c]] # Absent
              => now - admitted[want[c]] > Window - MaxStall]_vars

(* An event is refused as a duplicate only if its key was let through, and *)
(* at most Window + SweepEvery + MaxStall seconds earlier: a key is        *)
(* forgotten in the end although only calls sweep.                         *)
DuplicateIsRecent ==
    [][\A c \in Callers :
          Answered(c) /\ ~passed'[c]
              => /\ admitted[want[c]] # Absent
                 /\ now - admitted[want[c]] <= Window + SweepEvery + MaxStall]_vars
=============================================================================
