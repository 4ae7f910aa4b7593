---------------------------- MODULE Ingestor_proofs ----------------------------
(***************************************************************************)
(* Proofs about Ingestor for any requests, any events and any pipeline.    *)
(*                                                                         *)
(* main and the handlers take only steps the pipeline allows its owner and *)
(* its callers, so that every theorem of Pipeline_proofs holds inside the  *)
(* process.  What is proved here relates the pipeline to the shutdown and  *)
(* to the answers of the handlers.                                         *)
(***************************************************************************)
EXTENDS Ingestor, Pipeline_proofs

(* Every step of the process is a step of the pipeline or leaves it alone. *)
LEMMA ProcessStep == [IngestorNext]_ingestorVars => [Next]_vars
<1> SUFFICES ASSUME [IngestorNext]_ingestorVars
             PROVE  Next \/ UNCHANGED vars
  OBVIOUS
<1>1. ASSUME NEW r \in Requests, Submit(r)
      PROVE  Next
  <2>1. PICK i \in DOMAIN Events(r) : Start(Events(r)[i]) \/ Advance(Events(r)[i])
    BY <1>1 DEF Submit
  <2>2. Events(r)[i] \in Calls
    BY IngestorAssumption DEF Events
  <2> QED
    BY <2>1, <2>2 DEF Next
<1>2. ASSUME NEW r \in Requests, Arrive(r) \/ Respond(r) \/ RecoverPanic(r)
      PROVE  UNCHANGED vars
  BY <1>2 DEF Arrive, Respond, RecoverPanic
<1>3. CASE Signal \/ ShutdownReturns
  BY <1>3 DEF Signal, ShutdownReturns
<1>4. CASE CallCancel \/ CallStop \/ Exit
  BY <1>4 DEF CallCancel, CallStop, Exit, Next
<1>5. CASE Background
  BY <1>5 DEF Background, Next
<1>6. CASE UNCHANGED ingestorVars
  BY <1>6 DEF ingestorVars
<1> QED
  BY <1>1, <1>2, <1>3, <1>4, <1>5, <1>6 DEF IngestorNext, Handler, Main

(* The pipeline inside the process is the pipeline of Pipeline: whatever   *)
(* Pipeline_proofs shows of Spec holds of the process.                     *)
THEOREM EmbedsPipeline == IngestorSpec => Spec
<1>1. IngestorInit => Init
  BY DEF IngestorInit
<1> QED
  BY <1>1, ProcessStep, PTL DEF IngestorSpec, Spec

-----------------------------------------------------------------------------
(* The shutdown                                                            *)

Before == {"serving", "draining"}

Statuses == {"202", "400", "413", "500", "503"}

ProcessTyped ==
    /\ main \in Before \cup {"cancel", "stop", "wait", "exited"}
    /\ expired \in BOOLEAN
    /\ reply \in [Requests -> {"none", "open"} \cup Statuses]

(* How far main has got decides what it has done to the pipeline, and once *)
(* Shutdown has returned in time no handler runs.                          *)
Phases ==
    /\ ProcessTyped
    /\ closed <=> main \in {"wait", "exited"}
    /\ stopped <=> main = "exited"
    /\ main \in Before => ~expired
    /\ main \notin Before /\ ~expired => \A r \in Requests : reply[r] # "open"

LEMMA InitPhases == IngestorInit => Phases
BY DEF IngestorInit, Init, Phases, ProcessTyped, Before

(* What a step of a handler does to main and to the answers. *)
LEMMA HandlerReply ==
    ASSUME ProcessTyped, NEW r \in Requests, Handler(r)
    PROVE  /\ Running(r)
           /\ UNCHANGED <<main, expired, closed, cancelled, stopped>>
           /\ \A q \in Requests \ {r} : reply'[q] = reply[q]
           /\ reply'[r] \in {"open"} \cup Statuses
           /\ reply' \in [Requests -> {"none", "open"} \cup Statuses]
<1>1. CASE Submit(r)
  <2>1. UNCHANGED <<processVars, stopVars>>
    BY <1>1 DEF Submit, Start, Advance, Reject, ReadClock, SkipDedupe, Dedupe, Send, Drop,
                SendOnClosed
  <2> QED
    BY <1>1, <2>1 DEF Submit, Turn, Running, processVars, stopVars, ProcessTyped
<1>2. CASE Respond(r) \/ RecoverPanic(r)
  <2>1. UNCHANGED stopVars
    BY <1>2 DEF Respond, RecoverPanic, vars
  <2>2. \E s \in Statuses : reply' = [reply EXCEPT ![r] = s]
    BY <1>2 DEF Respond, RecoverPanic, Status, Statuses
  <2> QED
    BY <1>2, <2>1, <2>2 DEF Respond, RecoverPanic, stopVars, ProcessTyped
<1> QED
  BY <1>1, <1>2 DEF Handler

LEMMA StepPhases == Phases /\ [IngestorNext]_ingestorVars => Phases'
<1> SUFFICES ASSUME Phases, [IngestorNext]_ingestorVars
             PROVE  Phases'
  OBVIOUS
<1> USE DEF Phases, ProcessTyped, Before
<1>1. ASSUME NEW r \in Requests, Arrive(r)
      PROVE  Phases'
  <2>1. UNCHANGED <<main, expired, closed, stopped>>
    BY <1>1 DEF Arrive, vars, stopVars
  <2>2. main \in Before \/ expired
    BY <1>1 DEF Arrive, Reachable
  <2>3. \E s \in {"open"} \cup Statuses : reply' = [reply EXCEPT ![r] = s]
    BY <1>1 DEF Arrive, Refusal, Statuses
  <2> QED
    BY <2>1, <2>2, <2>3
<1>2. ASSUME NEW r \in Requests, Handler(r)
      PROVE  Phases'
  BY <1>2, HandlerReply DEF Running
<1>3. CASE Signal
  BY <1>3 DEF Signal, Proceed, vars, stopVars
<1>4. CASE ShutdownReturns
  BY <1>4 DEF ShutdownReturns, Proceed, vars, stopVars
<1>5. CASE CallCancel
  BY <1>5 DEF CallCancel, Cancel, Proceed
<1>6. CASE CallStop
  BY <1>6 DEF CallStop, Close, Proceed
<1>7. CASE Exit
  BY <1>7 DEF Exit, StopReturn, Proceed
<1>8. CASE Background
  <2>1. UNCHANGED <<processVars, closed, stopped>>
    BY <1>8 DEF Background, Worker, CtxDone, Receive, ChannelClosed, Interval, Flush,
                ScraperExit, Tick, stopVars
  <2> QED
    BY <2>1 DEF processVars
<1>9. CASE UNCHANGED ingestorVars
  BY <1>9 DEF ingestorVars, processVars, vars, stopVars
<1> QED
  BY <1>1, <1>2, <1>3, <1>4, <1>5, <1>6, <1>7, <1>8, <1>9 DEF IngestorNext, Main

LEMMA PhasesInvariant == IngestorSpec => []Phases
BY InitPhases, StepPhases, PTL DEF IngestorSpec

(* A request that was let in is answered before the process exits, unless  *)
(* the deadline of the shutdown passed.                                    *)
THEOREM RequestsAreAnswered == IngestorSpec => []AnsweredBeforeExit
<1>1. Phases => AnsweredBeforeExit
  BY DEF Phases, Before, AnsweredBeforeExit
<1> QED
  BY <1>1, PhasesInvariant, PTL

(* At the exit a queued event has been through a flush or is still in the  *)
(* channel: main waits for every worker, and no worker leaves with a batch.*)
THEOREM BatchesAreFlushed == IngestorSpec => []ExitFlushesBatches
<1>1. Phases /\ Draining /\ BatchDiscipline /\ Places => ExitFlushesBatches
  <2> SUFFICES ASSUME Phases, Draining, BatchDiscipline, Places, main = "exited",
                      NEW c \in Calls, pc[c] = "queued"
               PROVE  Settled(c) \/ c \in Range(in)
    BY DEF ExitFlushesBatches
  <2>1. \A w \in Workers : batch[w] = {}
    BY DEF Phases, Draining, BatchDiscipline
  <2> QED
    BY <2>1 DEF Places, NothingVanishes
<1>2. Spec => [](Typed /\ Draining)
  <2>1. Init => Draining
    BY InitDraining
  <2> QED
    BY <2>1, StepDraining, Typing, PTL DEF Spec
<1> QED
  BY <1>1, <1>2, EmbedsPipeline, PhasesInvariant, BatchesAreDisciplined, PlacesInvariant, PTL

-----------------------------------------------------------------------------
(* Panics and answers                                                      *)

(* A request answered 503 has had every event refused, and a panic shows   *)
(* that the deadline passed.                                               *)
Answers ==
    /\ PanicNeedsDeadline
    /\ \A r \in Requests : reply[r] = "503" =>
          \A c \in CallsOf(r) : pc[c] \in {"rejected", "dropped"}

LEMMA InitAnswers == IngestorInit => Answers
BY DEF IngestorInit, Init, Answers, PanicNeedsDeadline

(* The calls of a request, as elements and as positions of its body. *)
LEMMA CallsAreEvents ==
    ASSUME NEW r \in Requests
    PROVE  /\ \A c \in CallsOf(r) : c \in Calls /\ \E i \in DOMAIN Events(r) : c = Events(r)[i]
           /\ \A i \in DOMAIN Events(r) : Events(r)[i] \in CallsOf(r)
<1>1. Events(r) \in Seq(Calls)
  BY IngestorAssumption DEF Events
<1> QED
  BY <1>1 DEF CallsOf, Range

(* A call belongs to one request. *)
LEMMA OneRequest ==
    ASSUME NEW r \in Requests, NEW q \in Requests, NEW c \in CallsOf(r), c \in CallsOf(q)
    PROVE  r = q
<1>1. PICK i \in DOMAIN Events(r) : c = Events(r)[i]
  BY CallsAreEvents
<1>2. PICK j \in DOMAIN Events(q) : c = Events(q)[j]
  BY CallsAreEvents
<1> QED
  BY <1>1, <1>2, IngestorAssumption DEF Events

(* A step of Submit moves one call of its own request. *)
LEMMA SubmitMoves ==
    ASSUME Typed, NEW r \in Requests, Submit(r)
    PROVE  \E c \in CallsOf(r) :
              /\ \A d \in Calls \ {c} : pc'[d] = pc[d]
              /\ pc'[c] = "panicked" => closed
<1>1. PICK i \in DOMAIN Events(r) : Start(Events(r)[i]) \/ Advance(Events(r)[i])
  BY DEF Submit
<1> DEFINE c == Events(r)[i]
<1>2. c \in CallsOf(r) /\ c \in Calls
  BY CallsAreEvents
<1> HIDE DEF c
<1>3. \E label \in {"dedupe", "send"} \cup Ended :
          pc' = [pc EXCEPT ![c] = label] /\ (label = "panicked" => closed)
  BY <1>1 DEF c, Start, Advance, Reject, ReadClock, SkipDedupe, Dedupe, Verdict, Send, Drop,
              SendOnClosed, Goto, Ended
<1>4. (\A d \in Calls \ {c} : pc'[d] = pc[d]) /\ (pc'[c] = "panicked" => closed)
  BY <1>2, <1>3 DEF Typed, TypeOK
<1> QED
  BY <1>2, <1>4

LEMMA StepAnswers == Typed /\ Phases /\ Answers /\ [IngestorNext]_ingestorVars => Answers'
<1> SUFFICES ASSUME Typed, Phases, Answers, [IngestorNext]_ingestorVars
             PROVE  Answers'
  OBVIOUS
<1>1. ASSUME NEW r \in Requests, Submit(r)
      PROVE  Answers'
  <2>1. PICK c \in CallsOf(r) : /\ \A d \in Calls \ {c} : pc'[d] = pc[d]
                                /\ pc'[c] = "panicked" => closed
    BY <1>1, SubmitMoves
  <2>2. UNCHANGED processVars /\ reply[r] = "open"
    BY <1>1 DEF Submit, Turn, Running
  <2>3. closed => expired
    BY <2>2 DEF Phases, Before
  <2>4. PanicNeedsDeadline'
    BY <2>1, <2>2, <2>3 DEF Answers, PanicNeedsDeadline, processVars
  <2>5. ASSUME NEW q \in Requests, reply'[q] = "503", NEW d \in CallsOf(q)
        PROVE  pc'[d] \in {"rejected", "dropped"}
    <3>1. q # r /\ reply[q] = "503"
      BY <2>2, <2>5 DEF processVars
    <3>2. d # c /\ d \in Calls
      BY <3>1, OneRequest, CallsAreEvents
    <3> QED
      BY <2>1, <3>1, <3>2 DEF Answers
  <2> QED
    BY <2>4, <2>5 DEF Answers, CallsOf
<1>2. ASSUME NEW r \in Requests, Respond(r)
      PROVE  Answers'
  <2>1. UNCHANGED <<pc, expired>> /\ \A q \in Requests \ {r} : reply'[q] = reply[q]
    BY <1>2 DEF Respond, vars, callVars, Phases, ProcessTyped
  <2>2. ASSUME reply'[r] = "503", NEW c \in CallsOf(r)
        PROVE  pc[c] \in {"rejected", "dropped"}
    <3>1. Taken(r) = {}
      BY <1>2, <2>2 DEF Respond, Status, Phases, ProcessTyped
    <3>2. PICK i \in DOMAIN Events(r) : c = Events(r)[i]
      BY CallsAreEvents
    <3>3. pc[c] \in Ended \ {"panicked"} /\ pc[c] \notin {"queued", "duplicate"}
      BY <1>2, <3>1, <3>2 DEF Respond, Taken
    <3> QED
      BY <3>3 DEF Ended
  <2> QED
    BY <2>1, <2>2 DEF Answers, PanicNeedsDeadline, CallsOf
<1>3. ASSUME NEW r \in Requests, Arrive(r) \/ RecoverPanic(r)
      PROVE  Answers'
  <2>1. /\ UNCHANGED <<pc, expired>>
        /\ \A q \in Requests : reply'[q] = "503" => reply[q] = "503"
    BY <1>3 DEF Arrive, RecoverPanic, Refusal, vars, callVars, Phases, ProcessTyped
  <2> QED
    BY <2>1 DEF Answers, PanicNeedsDeadline, CallsOf
<1>4. CASE ShutdownReturns
  BY <1>4 DEF ShutdownReturns, Proceed, Phases, Before, Answers, PanicNeedsDeadline, CallsOf,
              vars, callVars
<1>5. CASE UNCHANGED <<pc, expired, reply>>
  BY <1>5 DEF Answers, PanicNeedsDeadline, CallsOf
<1>6. ASSUME Signal \/ CallCancel \/ CallStop \/ Exit \/ Background \/ UNCHANGED ingestorVars
      PROVE  UNCHANGED <<pc, expired, reply>>
  BY <1>6 DEF Signal, CallCancel, CallStop, Exit, Cancel, Close, StopReturn, Background,
              Worker, CtxDone, Receive, ChannelClosed, Interval, Flush, ScraperExit, Tick,
              ingestorVars, processVars, vars, callVars
<1> QED
  BY <1>1, <1>2, <1>3, <1>4, <1>5, <1>6 DEF IngestorNext, Main, Handler

LEMMA AnswersInvariant == IngestorSpec => []Answers
BY InitAnswers, StepAnswers, EmbedsPipeline, Typing, PhasesInvariant, PTL DEF IngestorSpec

(* Only a shutdown that ran out of time can make a handler panic.          *)
THEOREM PanicsNeedDeadline == IngestorSpec => []PanicNeedsDeadline
BY AnswersInvariant, PTL DEF Answers

(* No event of a request answered 503 is held or was written, and none was *)
(* taken for a repetition.                                                 *)
THEOREM RefusalsAreKept == IngestorSpec => []Refused503
<1>1. Answers /\ Places => Refused503
  <2> SUFFICES ASSUME Answers, Places, NEW r \in Requests, reply[r] = "503",
                      NEW c \in CallsOf(r)
               PROVE  c \notin Held /\ ~Settled(c) /\ pc[c] # "duplicate"
    BY DEF Refused503
  <2>1. c \in Calls /\ pc[c] \in {"rejected", "dropped"}
    BY CallsAreEvents DEF Answers
  <2> QED
    BY <2>1 DEF Places, NothingVanishes, Held
<1> QED
  BY <1>1, AnswersInvariant, EmbedsPipeline, PlacesInvariant, PTL
=============================================================================
