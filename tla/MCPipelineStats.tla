---------------------------- MODULE MCPipelineStats ----------------------------
(***************************************************************************)
(* A TLC instance of PipelineStats: three events, one slot in the channel  *)
(* and no collectors, while a snapshot is taken.                           *)
(***************************************************************************)
EXTENDS PipelineStats, TLC

CONSTANTS first, second, third, noKey, w1, w2

MCCalls == {first, second, third}
MCEvent == [c \in MCCalls |-> [blank |-> {}, level |-> "INFO", key |-> noKey]]
MCWorkers == {w1, w2}
=============================================================================
