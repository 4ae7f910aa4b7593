------------------------------ MODULE MCQueries ------------------------------
(***************************************************************************)
(* A TLC instance of Queries: five documents, some of them with times the  *)
(* clock has not reached, and every limit small enough to be exceeded.     *)
(***************************************************************************)
EXTENDS Queries

CONSTANTS a, b, c, d, e, unfiltered, unparsed, timeout

DocOf(t, level, service) ==
    [time |-> t, level |-> level, service |-> service,
     text |-> IF level = "ERROR" THEN {timeout} ELSE {}]

MCDocs == {a, b, c, d, e}
MCDoc ==
    [x \in MCDocs |->
        CASE x = a -> DocOf(0, "INFO", "api")
          [] x = b -> DocOf(1, "ERROR", "web")
          [] x = c -> DocOf(2, "FATAL", "api")
          [] x = d -> DocOf(3, "ERROR", "api")
          [] x = e -> DocOf(3, "INFO", "auth")]

Get(endpoint, window) ==
    [endpoint |-> endpoint, window |-> window, limit |-> unparsed,
     service |-> unfiltered, level |-> unfiltered, q |-> unfiltered]

MCRequests ==
    {Get("stats", unparsed), Get("stats", 1), Get("throughput", unparsed),
     Get("throughput", 3), Get("logs", unparsed),
     [Get("logs", 1) EXCEPT !.limit = 4],
     [Get("logs", 3) EXCEPT !.service = "api", !.limit = 1],
     [Get("logs", unparsed) EXCEPT !.level = "ERROR", !.limit = 3],
     [Get("logs", 2) EXCEPT !.q = timeout, !.limit = 0]}
=============================================================================
