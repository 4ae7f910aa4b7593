------------------------------- MODULE Delivery -------------------------------
(***************************************************************************)
(* What the ingestion pipeline promises its callers, without channel,      *)
(* workers or clock: an event is taken, refused or assumed to be there     *)
(* already; a taken event is held, at most Capacity of them at a time, and *)
(* leaves in a write of at most BatchSize events that stores it once or    *)
(* loses it; after the pipeline is shut nothing is taken, and a shutdown   *)
(* that ends while the pipeline is live leaves nothing held.               *)
(***************************************************************************)
EXTENDS Integers, FiniteSets

CONSTANTS Calls, Capacity, BatchSize

VARIABLES answer,  \* what each caller has been told
          held,    \* events taken and not yet written
          stored,  \* events in the database
          lost,    \* events whose write did not store them
          open,    \* does the pipeline take events?
          live,    \* is its context live?
          done     \* has its shutdown ended?

vars == <<answer, held, stored, lost, open, live, done>>

Init ==
    /\ answer = [c \in Calls |-> "none"]
    /\ held = {} /\ stored = {} /\ lost = {}
    /\ open = TRUE /\ live = TRUE /\ done = FALSE

Answer(c, a) ==
    /\ answer[c] = "none"
    /\ answer' = [answer EXCEPT ![c] = a]

(* Refusing needs no reason here: an invalid event, a full pipeline. *)
Refuse(c) ==
    /\ Answer(c, "refused")
    /\ UNCHANGED <<held, stored, lost, open, live, done>>

Take(c) ==
    /\ open
    /\ Cardinality(held) < Capacity
    /\ Answer(c, "taken")
    /\ held' = held \cup {c}
    /\ UNCHANGED <<stored, lost, open, live, done>>

Assume(c) ==
    /\ Answer(c, "assumed")
    /\ UNCHANGED <<held, stored, lost, open, live, done>>

Write ==
    /\ ~done
    /\ \E b \in SUBSET held : \E kept \in SUBSET b :
          /\ Cardinality(b) \in 1 .. BatchSize
          /\ held' = held \ b
          /\ stored' = stored \cup kept
          /\ lost' = lost \cup (b \ kept)
    /\ UNCHANGED <<answer, open, live, done>>

Shut ==
    /\ open
    /\ open' = FALSE
    /\ UNCHANGED <<answer, held, stored, lost, live, done>>

Kill ==
    /\ live
    /\ live' = FALSE
    /\ UNCHANGED <<answer, held, stored, lost, open, done>>

Finish ==
    /\ ~open /\ ~done
    /\ live => held = {}
    /\ done' = TRUE
    /\ UNCHANGED <<answer, held, stored, lost, open, live>>

Next ==
    \/ \E c \in Calls : Refuse(c) \/ Take(c) \/ Assume(c)
    \/ Write
    \/ Shut
    \/ Kill
    \/ Finish

Spec == Init /\ [][Next]_vars

-----------------------------------------------------------------------------
TypeOK ==
    /\ answer \in [Calls -> {"none", "taken", "refused", "assumed"}]
    /\ {held, stored, lost} \subseteq SUBSET Calls
    /\ {open, live, done} \subseteq BOOLEAN

(* The taken events are exactly those held, stored or lost, each of them   *)
(* in one of the three only.                                               *)
TakenOnce ==
    /\ {c \in Calls : answer[c] = "taken"} = held \cup stored \cup lost
    /\ held \cap stored = {} /\ held \cap lost = {} /\ stored \cap lost = {}

(* A shutdown that ends before the context is cancelled has written every  *)
(* taken event.                                                            *)
CleanFinish == done /\ live => {c \in Calls : answer[c] = "taken"} = stored \cup lost
=============================================================================
