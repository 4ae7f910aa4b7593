------------------------------ MODULE MCPipeline ------------------------------
(***************************************************************************)
(* TLC instances of Pipeline: small sets of calls, among them a pair of    *)
(* calls with one key (an event and its retry) and an invalid event.       *)
(***************************************************************************)
EXTENDS Pipeline, TLC

CONSTANTS k1, noKey, first, retry, plain, bad, w1, w2

MCKeys == {k1}

Good(k) == [blank |-> {}, level |-> "INFO", key |-> k]

(* An event and its retry, one without a key, one that fails validation. *)
MixedCalls == {first, retry, plain, bad}
MixedEvent ==
    (first :> Good(k1)) @@ (retry :> Good(k1)) @@ (plain :> Good(noKey))
        @@ (bad :> [Good(k1) EXCEPT !.blank = {"message"}])

OneWorker == {w1}
TwoWorkers == {w1, w2}

=============================================================================
