---------------------------- MODULE PipelineStats ----------------------------
(***************************************************************************)
(* GET /api/v1/pipeline while the pipeline runs: Stats loads the three     *)
(* counters and the length of the channel one after the other, without a   *)
(* lock, so that calls, workers and flushes move between two loads.        *)
(***************************************************************************)
EXTENDS Pipeline

VARIABLES reading,  \* the load Stats makes next; "idle" before, "done" after
          seen      \* what it has loaded so far

statsVars == <<vars, reading, seen>>

(* Mutant of Loads: the channel is looked at first. *)
LoadsDepthFirst == <<"depth", "accepted", "rejected", "dropped">>

Loads == <<"accepted", "rejected", "dropped", "depth">>

StatsInit ==
    /\ Init
    /\ reading = "idle"
    /\ seen = [l \in Range(Loads) |-> 0]

-----------------------------------------------------------------------------
Value(load) ==
    CASE load = "accepted" -> accepted
      [] load = "rejected" -> rejected
      [] load = "dropped"  -> dropped
      [] load = "depth"    -> Len(in)

Request ==
    /\ reading = "idle"
    /\ reading' = Loads[1]
    /\ UNCHANGED <<vars, seen>>

Load ==
    \E i \in DOMAIN Loads :
        /\ reading = Loads[i]
        /\ seen' = [seen EXCEPT ![Loads[i]] = Value(Loads[i])]
        /\ reading' = IF i = Len(Loads) THEN "done" ELSE Loads[i + 1]
        /\ UNCHANGED vars

StatsNext ==
    \/ Next /\ UNCHANGED <<reading, seen>>
    \/ Request
    \/ Load

StatsSpec == StatsInit /\ [][StatsNext]_statsVars
FairStatsSpec == StatsSpec /\ Fairness

-----------------------------------------------------------------------------
Begun == {c \in Calls : pc[c] # "new"}

(* Every event is counted at most once in a snapshot, although it can move *)
(* from the channel to the database while the snapshot is taken: accepted  *)
(* is loaded before the length of the channel.                             *)
SnapshotCountsOnce ==
    reading = "done" =>
        seen["accepted"] + seen["rejected"] + seen["dropped"] + seen["depth"]
            <= Cardinality(Begun)

=============================================================================
