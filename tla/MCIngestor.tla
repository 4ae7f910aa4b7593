------------------------------ MODULE MCIngestor ------------------------------
(***************************************************************************)
(* TLC instances of Ingestor: a batch of two events, a retry of the first  *)
(* of them through the single endpoint, and requests that are refused.     *)
(***************************************************************************)
EXTENDS Ingestor, TLC

CONSTANTS k1, noKey, first, second, retry, x1, x2, x3, w1,
          batch1, single1, garbled, large

MCKeys == {k1}
MCCalls == {first, second, retry, x1, x2, x3}
MCEvent ==
    [c \in MCCalls |-> [blank |-> {}, level |-> "INFO",
                        key |-> IF c \in {first, retry} THEN k1 ELSE noKey]]

ParsedBody(s) == [json |-> TRUE, events |-> s]

(* With MaxEvents = 2, large is over the limit. *)
MCRequests == {batch1, single1, garbled, large}
MCEndpoint == [r \in MCRequests |-> IF r = single1 THEN "single" ELSE "batch"]
MCBody ==
    (batch1 :> ParsedBody(<<first, second>>))
        @@ (single1 :> ParsedBody(<<retry>>))
        @@ (garbled :> [json |-> FALSE, events |-> <<>>])
        @@ (large :> ParsedBody(<<x1, x2, x3>>))

MCWorkers == {w1}
=============================================================================
