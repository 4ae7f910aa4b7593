------------------------------- MODULE Ingestor -------------------------------
(***************************************************************************)
(* The ingestor process: the HTTP handlers that submit events to the       *)
(* pipeline (internal/processor/handlers.go behind the Recover middleware  *)
(* of internal/middleware/middleware.go) and the shutdown sequence of      *)
(* cmd/ingestor/main.go.  A request is a batch for Ingest or an event for  *)
(* IngestSingle; its handler makes the calls of Submit in order and then   *)
(* answers.  main owns the pipeline: it alone cancels, closes and waits.   *)
(*                                                                         *)
(* net/http is external: Shutdown returns when no handler runs or when its *)
(* deadline passes, and a connection accepted before Shutdown may still    *)
(* bring a request until Shutdown has found the server idle.               *)
(***************************************************************************)
EXTENDS Pipeline

CONSTANTS Requests,
          Endpoint,  \* "batch" (Ingest) or "single" (IngestSingle)
          Body,      \* [json, events]: does it parse, and its calls in order
          MaxEvents  \* 10000, the largest batch

ASSUME IngestorAssumption ==
    /\ Endpoint \in [Requests -> {"batch", "single"}]
    /\ Body \in [Requests -> [json : BOOLEAN, events : Seq(Calls)]]
    /\ \A r \in Requests :
          Endpoint[r] = "single" /\ Body[r].json => Len(Body[r].events) = 1
    /\ \A r, q \in Requests :
          \A i \in DOMAIN Body[r].events, j \in DOMAIN Body[q].events :
              Body[r].events[i] = Body[q].events[j] => r = q /\ i = j
    /\ MaxEvents \in Nat

VARIABLES main,     \* the statement main has reached
          expired,  \* did the deadline end srv.Shutdown?
          reply     \* per request: "none", "open" while its handler runs,
                    \* then the status it was answered with

processVars == <<main, expired, reply>>
ingestorVars == <<vars, processVars>>

IngestorInit ==
    /\ Init
    /\ main = "serving"
    /\ expired = FALSE
    /\ reply = [r \in Requests |-> "none"]

-----------------------------------------------------------------------------
(* Handlers                                                                *)

Events(r) == Body[r].events

(* The status of a request the handler refuses before submitting anything, *)
(* "none" if there is no reason to refuse it.                              *)
Refusal(r) ==
    CASE ~Body[r].json -> "400"
      [] Endpoint[r] = "batch" /\ Events(r) = <<>> -> "400"
      [] Endpoint[r] = "batch" /\ Len(Events(r)) > MaxEvents -> "413"
      [] OTHER -> "none"

(* Can a request still reach a handler? *)
Reachable == main \in {"serving", "draining"} \/ (expired /\ main # "exited")

Arrive(r) ==
    /\ Reachable
    /\ reply[r] = "none"
    /\ reply' = [reply EXCEPT ![r] = IF Refusal(r) = "none" THEN "open" ELSE Refusal(r)]
    /\ UNCHANGED <<vars, main, expired>>

Running(r) == reply[r] = "open" /\ main # "exited"

(* SubmitBatch submits the events one after the other. *)
Turn(r, i) ==
    /\ Running(r)
    /\ \A j \in 1 .. i - 1 : pc[Events(r)[j]] \in Ended \ {"panicked"}

Submit(r) ==
    /\ \E i \in DOMAIN Events(r) :
          Turn(r, i) /\ (Start(Events(r)[i]) \/ Advance(Events(r)[i]))
    /\ UNCHANGED processVars

(* Submit returned true for these of the request's events. *)
Taken(r) == {i \in DOMAIN Events(r) : pc[Events(r)[i]] \in {"queued", "duplicate"}}

(* Mutant of Status: a batch is refused if any of its events is. *)
StatusStrict(r) == IF Taken(r) # DOMAIN Events(r) THEN "503" ELSE "202"

Status(r) == IF Taken(r) = {} THEN "503" ELSE "202"

Respond(r) ==
    /\ Running(r)
    /\ \A i \in DOMAIN Events(r) : pc[Events(r)[i]] \in Ended \ {"panicked"}
    /\ reply' = [reply EXCEPT ![r] = Status(r)]
    /\ UNCHANGED <<vars, main, expired>>

(* A panic of Submit unwinds the handler up to Recover. *)
RecoverPanic(r) ==
    /\ Running(r)
    /\ \E i \in DOMAIN Events(r) : pc[Events(r)[i]] = "panicked"
    /\ reply' = [reply EXCEPT ![r] = "500"]
    /\ UNCHANGED <<vars, main, expired>>

Handler(r) == Submit(r) \/ Respond(r) \/ RecoverPanic(r)

-----------------------------------------------------------------------------
(* main                                                                    *)

Proceed(from, to) == main = from /\ main' = to

(* Mutant of Signal: srv.Shutdown is not called. *)
SignalAbrupt ==
    /\ Proceed("serving", "cancel")
    /\ UNCHANGED <<vars, expired, reply>>

(* SIGINT or SIGTERM; main calls srv.Shutdown. *)
Signal ==
    /\ Proceed("serving", "draining")
    /\ UNCHANGED <<vars, expired, reply>>

(* Shutdown returns, because the server is idle or because time is up. *)
ShutdownReturns ==
    /\ Proceed("draining", "cancel")
    /\ expired' = (\E r \in Requests : reply[r] = "open")
    /\ UNCHANGED <<vars, reply>>

(* Mutant of CallCancel: the context is left alone. *)
CallCancelSkipped ==
    /\ Proceed("cancel", "stop")
    /\ UNCHANGED <<vars, expired, reply>>

CallCancel ==
    /\ Proceed("cancel", "stop")
    /\ Cancel
    /\ UNCHANGED <<expired, reply>>

CallStop ==
    /\ Proceed("stop", "wait")
    /\ Close
    /\ UNCHANGED <<expired, reply>>

(* Stop returns and so does main, which ends the process. *)
Exit ==
    /\ Proceed("wait", "exited")
    /\ StopReturn
    /\ UNCHANGED <<expired, reply>>

Main == ShutdownReturns \/ CallCancel \/ CallStop \/ Exit

(* Goroutines of the pipeline; the clock. *)
Background ==
    /\ \/ \E w \in Workers : Worker(w)
       \/ ScraperExit
       \/ Tick
    /\ UNCHANGED processVars

IngestorNext ==
    \/ \E r \in Requests : Arrive(r) \/ Handler(r)
    \/ Signal
    \/ Main
    \/ Background

(* Goroutines that can run do run, and Shutdown has a deadline.  Neither   *)
(* clients nor whoever sends the signal owe the process anything.          *)
IngestorFairness ==
    /\ \A r \in Requests : WF_ingestorVars(Handler(r))
    /\ \A w \in Workers : WF_ingestorVars(Worker(w) /\ UNCHANGED processVars)
    /\ WF_ingestorVars(ScraperExit /\ UNCHANGED processVars)
    /\ WF_ingestorVars(Main)

IngestorSpec == IngestorInit /\ [][IngestorNext]_ingestorVars
FairIngestorSpec == IngestorSpec /\ IngestorFairness

-----------------------------------------------------------------------------
(* Properties                                                              *)

CallsOf(r) == Range(Events(r))

(* Only a shutdown that ran out of time can make a handler panic: unless   *)
(* the deadline passed, main closes the channel when no handler can send.  *)
PanicNeedsDeadline ==
    \A c \in Calls : pc[c] = "panicked" => expired

(* A client may take 503 at its word: none of the events it sent is held,  *)
(* was written or ever will be, and none of them was a repetition.         *)
Refused503 ==
    \A r \in Requests : reply[r] = "503" =>
        \A c \in CallsOf(r) : c \notin Held /\ ~Settled(c) /\ pc[c] # "duplicate"

(* A request that was let in is answered before the process exits, unless  *)
(* the deadline of the shutdown passed.                                    *)
AnsweredBeforeExit ==
    main = "exited" /\ ~expired => \A r \in Requests : reply[r] # "open"

(* Shutting down loses nothing a worker had taken: what a queued event has *)
(* not got through a flush at the exit is still in the channel.            *)
ExitFlushesBatches ==
    main = "exited" =>
        \A c \in Calls : pc[c] = "queued" => Settled(c) \/ c \in Range(in)

(* "Stop gracefully drains the pipeline" (pipeline.go:107), so that at the *)
(* exit the channel is empty.  main cancels the context first, and workers *)
(* that see it done exit with events still in the channel.                 *)
ExitDrains == main = "exited" => in = <<>>

(* Once signalled the process exits, whatever its handlers and its workers *)
(* were doing.                                                             *)
ShutdownCompletes == main = "draining" ~> main = "exited"
=============================================================================
