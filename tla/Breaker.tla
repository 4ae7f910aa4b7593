-------------------------------- MODULE Breaker --------------------------------
(***************************************************************************)
(* The circuit breaker of the alert dispatcher: sony/gobreaker with the    *)
(* settings of New in internal/alert/dispatcher.go, as operators on its    *)
(* state.  left is the time to its expiry; the library looks at the clock  *)
(* only when Execute begins and ends, so an expiry passes unnoticed until  *)
(* then.  Its counters are kept in the states that read them: consecutive  *)
(* failures while closed, requests and successes while half-open.          *)
(***************************************************************************)
EXTENDS Integers

CONSTANTS MaxRequests,  \* 3, the probes of a half-open breaker
          Interval,     \* 30 s, how long a closed breaker keeps its counts
          Timeout,      \* 20 s, how long it stays open
          Trip          \* 5, the consecutive failures that open it

ASSUME BreakerAssumption ==
    /\ MaxRequests \in Nat \ {0} /\ Trip \in Nat \ {0}
    /\ Interval \in Nat \ {0} /\ Timeout \in Nat \ {0}

Breakers == [state : {"closed", "open", "half-open"},
             left : {-1} \cup 0 .. Interval \cup 0 .. Timeout,
             requests : 0 .. MaxRequests, good : 0 .. MaxRequests - 1,
             bad : 0 .. Trip - 1]

(* A new generation: the counts are cleared. *)
Renewed(s) ==
    [state |-> s,
     left |-> CASE s = "closed" -> Interval [] s = "open" -> Timeout [] OTHER -> 0,
     requests |-> 0, good |-> 0, bad |-> 0]

(* A half-open breaker has no expiry. *)
Expired(b) == b.state # "half-open" /\ b.left < 0

Current(b) ==
    IF Expired(b) THEN Renewed(IF b.state = "closed" THEN "closed" ELSE "half-open")
                  ELSE b

(* Otherwise Execute fails at once, ErrOpenState or ErrTooManyRequests. *)
Allows(b) == b.state = "closed" \/ (b.state = "half-open" /\ b.requests < MaxRequests)

Begun(b) == IF b.state = "half-open" THEN [b EXCEPT !.requests = @ + 1] ELSE b

(* Mutant of ReadyToTrip: an off-by-one. *)
ReadyToTripLate(failures) == failures > Trip

ReadyToTrip(failures) == failures >= Trip

Succeeded(b) ==
    IF b.state = "closed" THEN [b EXCEPT !.bad = 0]
    ELSE IF b.good + 1 >= MaxRequests THEN Renewed("closed")
    ELSE [b EXCEPT !.good = @ + 1]

Failed(b) ==
    IF b.state = "half-open" \/ ReadyToTrip(b.bad + 1) THEN Renewed("open")
    ELSE [b EXCEPT !.bad = @ + 1]

(* The end of the call that Begun admitted, the only one there is.  If the *)
(* interval ran out meanwhile, its result belongs to no generation and is  *)
(* forgotten.                                                              *)
Reported(b, ok) ==
    IF Expired(b) THEN Current(b) ELSE IF ok THEN Succeeded(b) ELSE Failed(b)

Passed(b) == [b EXCEPT !.left = IF @ > -1 /\ b.state # "half-open" THEN @ - 1 ELSE @]
=============================================================================
