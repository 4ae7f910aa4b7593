------------------------------- MODULE Pipeline -------------------------------
(***************************************************************************)
(* The ingestion pipeline (internal/ingestion/pipeline.go): Submit is      *)
(* called by many HTTP handlers at once, a bounded channel carries what it *)
(* accepts to a pool of workers, each worker collects a batch of its own   *)
(* and writes it to MongoDB (Store.BulkInsert in internal/storage/mongo.go)*)
(* and Stop ends the pool, as does the context given to Start.             *)
(*                                                                         *)
(* Each element of Calls is one call of Submit and also names the event it *)
(* carries.  Two calls are a client's retry when their events have the     *)
(* same idempotency key.  One action is one step that other goroutines can *)
(* observe: a read of the clock, a critical section, a channel operation,  *)
(* a write to the database.                                                *)
(***************************************************************************)
EXTENDS DedupeMap, Sequences, FiniteSets, Functions

CONSTANTS Calls,       \* the calls of Submit
          Event,       \* the event each one carries: [blank, level, key]
          Workers,     \* cfg.Workers goroutines
          BufferSize,  \* cfg.BufferSize, the capacity of the channel
          BatchSize,   \* cfg.BatchSize
          Metrics      \* does the pipeline have collectors?

Required == {"service_name", "source_id", "message"}
Levels == {"DEBUG", "INFO", "WARN", "ERROR", "FATAL"}

ASSUME PipelineAssumption ==
    /\ IsFiniteSet(Calls) /\ IsFiniteSet(Workers) /\ Workers # {}
    /\ Event \in [Calls -> [blank : SUBSET Required, level : STRING,
                            key : Keys \cup {NoKey}]]
    /\ BufferSize \in Nat \ {0}
    /\ BatchSize \in Nat \ {0}
    /\ Metrics \in BOOLEAN

VARIABLES
    pc,         \* where each call is, or how it ended
    at,         \* the clock reading of a call inside checkAndStoreDedup
    in,         \* the channel Pipeline.in
    closed,     \* has Stop closed it?
    cancelled,  \* is the context given to Start done?
    stopped,    \* has Stop returned?
    scraper,    \* is the depthScraper goroutine running?
    wpc,        \* what each worker does
    batch,      \* its local batch
    stored,     \* MongoDB: the number of documents of each event
    lost,       \* history: events of a flushed batch that were not stored
    accepted, rejected, dropped  \* the counters

callVars == <<pc, at>>
clockVars == <<now, dedupeVars>>
workerVars == <<wpc, batch, stored, lost, accepted>>
stopVars == <<closed, cancelled, stopped, scraper>>
vars == <<clockVars, callVars, in, stopVars, workerVars, rejected, dropped>>

Ended == {"rejected", "queued", "dropped", "duplicate", "panicked"}

TypeOK ==
    /\ DedupeTypeOK
    /\ pc \in [Calls -> {"new", "dedupe", "send"} \cup Ended]
    /\ at \in [Calls -> Times \cup {0}]
    /\ in \in Seq(Calls)
    /\ {closed, cancelled, stopped, scraper} \subseteq BOOLEAN
    /\ wpc \in [Workers -> {"select", "flush", "final", "exited"}]
    /\ batch \in [Workers -> SUBSET Calls]
    /\ stored \in [Calls -> Nat]
    /\ lost \in SUBSET Calls
    /\ {accepted, rejected, dropped} \subseteq Nat

Init ==
    /\ DedupeInit
    /\ pc = [c \in Calls |-> "new"]
    /\ at = [c \in Calls |-> 0]
    /\ in = <<>>
    /\ closed = FALSE /\ cancelled = FALSE /\ stopped = FALSE
    /\ scraper = Metrics
    /\ wpc = [w \in Workers |-> "select"]
    /\ batch = [w \in Workers |-> {}]
    /\ stored = [c \in Calls |-> 0]
    /\ lost = {}
    /\ accepted = 0 /\ rejected = 0 /\ dropped = 0

-----------------------------------------------------------------------------
(* Submit                                                                  *)

(* LogEvent.Validate finds no error. *)
Valid(c) == Event[c].blank = {} /\ Event[c].level \in Levels

Goto(c, label) == pc' = [pc EXCEPT ![c] = label]

Reject(c) ==
    /\ pc[c] = "new"
    /\ ~Valid(c)
    /\ Goto(c, "rejected")
    /\ rejected' = rejected + 1
    /\ UNCHANGED <<clockVars, at, in, stopVars, workerVars, dropped>>

(* A valid event with a key: checkAndStoreDedup reads the clock. *)
ReadClock(c) ==
    /\ pc[c] = "new"
    /\ Valid(c)
    /\ Event[c].key # NoKey
    /\ Goto(c, "dedupe")
    /\ at' = [at EXCEPT ![c] = now]
    /\ UNCHANGED <<clockVars, in, stopVars, workerVars, rejected, dropped>>

(* A valid event without a key passes the filter untouched. *)
SkipDedupe(c) ==
    /\ pc[c] = "new"
    /\ Valid(c)
    /\ Event[c].key = NoKey
    /\ Goto(c, "send")
    /\ UNCHANGED <<clockVars, at, in, stopVars, workerVars, rejected, dropped>>

(* Mutant of Verdict: the result of checkAndStoreDedup is misread. *)
VerdictInverted(c) == IF IsNew(Event[c].key, at[c]) THEN "duplicate" ELSE "send"

(* A duplicate ends the call, which answers true. *)
Verdict(c) == IF IsNew(Event[c].key, at[c]) THEN "send" ELSE "duplicate"

(* The critical section. *)
Dedupe(c) ==
    /\ pc[c] = "dedupe"
    /\ CheckAndStore(Event[c].key, at[c])
    /\ Goto(c, Verdict(c))
    /\ at' = [at EXCEPT ![c] = 0]
    /\ UNCHANGED <<now, in, stopVars, workerVars, rejected, dropped>>

(* The select of Submit: a send if the channel has room, else the default. *)
Send(c) ==
    /\ pc[c] = "send"
    /\ ~closed
    /\ Len(in) < BufferSize
    /\ in' = Append(in, c)
    /\ Goto(c, "queued")
    /\ UNCHANGED <<clockVars, at, stopVars, workerVars, rejected, dropped>>

(* Mutants of Drop: a blocking send; a drop that takes the key back. *)
DropNever(c) == FALSE
DropForgets(c) ==
    /\ pc[c] = "send" /\ ~closed /\ Len(in) >= BufferSize
    /\ Goto(c, "dropped")
    /\ dropped' = dropped + 1
    /\ dedupe' = [k \in Keys |-> IF k = Event[c].key THEN Absent ELSE dedupe[k]]
    /\ UNCHANGED <<now, dedupeAt, admitted, at, in, stopVars, workerVars, rejected>>

Drop(c) ==
    /\ pc[c] = "send"
    /\ ~closed
    /\ Len(in) >= BufferSize
    /\ Goto(c, "dropped")
    /\ dropped' = dropped + 1
    /\ UNCHANGED <<clockVars, at, in, stopVars, workerVars, rejected>>

(* A send on a closed channel panics, even in a select with a default. *)
SendOnClosed(c) ==
    /\ pc[c] = "send"
    /\ closed
    /\ Goto(c, "panicked")
    /\ UNCHANGED <<clockVars, at, in, stopVars, workerVars, rejected, dropped>>

-----------------------------------------------------------------------------
(* Workers.  The select takes any of its ready cases.                      *)

(* Mutants of LastFlush: the flush is forgotten; the return is, or a break *)
(* that only leaves the select stands for it.                              *)
LastFlushForgotten(w) == "exited"
LastFlushNoReturn(w) == IF batch[w] = {} THEN "select" ELSE "flush"

(* The two ways out of the loop: a last flush, if there is anything to     *)
(* flush, then the return.                                                 *)
LastFlush(w) == IF batch[w] = {} THEN "exited" ELSE "final"

(* ctx.Done(), whatever the channel still holds. *)
CtxDone(w) ==
    /\ wpc[w] = "select"
    /\ cancelled
    /\ wpc' = [wpc EXCEPT ![w] = LastFlush(w)]
    /\ UNCHANGED <<clockVars, callVars, in, stopVars, batch, stored, lost,
                   accepted, rejected, dropped>>

(* Mutants: an off-by-one; append to the reset slice. *)
IsFullLate(b) == Cardinality(b) > BatchSize
GrownAnew(w) == {Head(in)}

IsFull(b) == Cardinality(b) >= BatchSize

Grown(w) == batch[w] \cup {Head(in)}

Receive(w) ==
    /\ wpc[w] = "select"
    /\ in # <<>>
    /\ in' = Tail(in)
    /\ batch' = [batch EXCEPT ![w] = Grown(w)]
    /\ wpc' = [wpc EXCEPT ![w] = IF IsFull(Grown(w)) THEN "flush" ELSE "select"]
    /\ UNCHANGED <<clockVars, callVars, stopVars, stored, lost, accepted,
                   rejected, dropped>>

(* Mutant of ClosedSeen: the closing overtakes what is buffered. *)
ClosedSeenEarly == closed

(* A receive reports the channel closed only once it is empty. *)
ClosedSeen == closed /\ in = <<>>

ChannelClosed(w) ==
    /\ wpc[w] = "select"
    /\ ClosedSeen
    /\ wpc' = [wpc EXCEPT ![w] = LastFlush(w)]
    /\ UNCHANGED <<clockVars, callVars, in, stopVars, batch, stored, lost,
                   accepted, rejected, dropped>>

(* Mutant of Interval: no ticker. *)
IntervalNever(w) == FALSE

(* flushTick.C; with an empty batch the flush returns at once. *)
Interval(w) ==
    /\ wpc[w] = "select"
    /\ batch[w] # {}
    /\ wpc' = [wpc EXCEPT ![w] = "flush"]
    /\ UNCHANGED <<clockVars, callVars, in, stopVars, batch, stored, lost,
                   accepted, rejected, dropped>>

(* What an unordered InsertMany can do with the documents of b: store all  *)
(* or, with write errors, some of them and return their number; or fail or *)
(* time out after storing any of them and return 0.                        *)
BulkInsert(b) == [kept : SUBSET b, failed : BOOLEAN]

(* Mutants of Inserted: -1 for an error; the size of the batch. *)
InsertedOrError(b, r) == IF r.failed THEN -1 ELSE Cardinality(r.kept)
InsertedAll(b, r) == Cardinality(b)

Inserted(b, r) == IF r.failed THEN 0 ELSE Cardinality(r.kept)

(* Mutant of Remaining: a failed batch is kept for another try. *)
RemainingOnError(w, r) == IF r.failed THEN batch[w] ELSE {}

(* The batch is reset after a flush, also after an error. *)
Remaining(w, r) == {}

(* The end of a flush: an error is only logged. *)
Flush(w) ==
    /\ wpc[w] \in {"flush", "final"}
    /\ \E r \in BulkInsert(batch[w]) :
          /\ stored' = [c \in Calls |-> IF c \in r.kept THEN stored[c] + 1
                                                        ELSE stored[c]]
          /\ lost' = lost \cup (batch[w] \ r.kept)
          /\ accepted' = accepted + Inserted(batch[w], r)
          /\ batch' = [batch EXCEPT ![w] = Remaining(w, r)]
    /\ wpc' = [wpc EXCEPT ![w] = IF @ = "final" THEN "exited" ELSE "select"]
    /\ UNCHANGED <<clockVars, callVars, in, stopVars, rejected, dropped>>

Worker(w) ==
    CtxDone(w) \/ Receive(w) \/ ChannelClosed(w) \/ Interval(w) \/ Flush(w)

(* depthScraper runs until the context is done, and only until then. *)
ScraperExit ==
    /\ scraper
    /\ cancelled
    /\ scraper' = FALSE
    /\ UNCHANGED <<clockVars, callVars, in, closed, cancelled, stopped,
                   workerVars, rejected, dropped>>

-----------------------------------------------------------------------------
(* The owner of the pipeline.  It calls Stop once.                         *)

Cancel ==
    /\ ~cancelled
    /\ cancelled' = TRUE
    /\ UNCHANGED <<clockVars, callVars, in, closed, stopped, scraper,
                   workerVars, rejected, dropped>>

(* Stop closes the channel and waits for every goroutine of the pool. *)
Close ==
    /\ ~closed
    /\ closed' = TRUE
    /\ UNCHANGED <<clockVars, callVars, in, cancelled, stopped, scraper,
                   workerVars, rejected, dropped>>

StopReturn ==
    /\ closed /\ ~stopped
    /\ \A w \in Workers : wpc[w] = "exited"
    /\ ~scraper
    /\ stopped' = TRUE
    /\ UNCHANGED <<clockVars, callVars, in, closed, cancelled, scraper,
                   workerVars, rejected, dropped>>

Tick ==
    /\ now < MaxTime
    /\ \A c \in Calls : pc[c] = "dedupe" => now - at[c] < MaxStall
    /\ now' = now + 1
    /\ UNCHANGED <<dedupeVars, callVars, in, stopVars, workerVars, rejected,
                   dropped>>

-----------------------------------------------------------------------------
Start(c) == Reject(c) \/ ReadClock(c) \/ SkipDedupe(c)

Advance(c) == Dedupe(c) \/ Send(c) \/ Drop(c) \/ SendOnClosed(c)

Next ==
    \/ \E c \in Calls : Start(c) \/ Advance(c)
    \/ \E w \in Workers : Worker(w)
    \/ ScraperExit
    \/ Cancel
    \/ Close
    \/ StopReturn
    \/ Tick

(* The Go scheduler runs every goroutine that can run, and BulkInsert ends *)
(* within its 10 second timeout.  Nothing makes a client call or the owner *)
(* stop the pipeline.                                                      *)
Fairness ==
    /\ \A c \in Calls : WF_vars(Advance(c))
    /\ \A w \in Workers : WF_vars(Worker(w))
    /\ WF_vars(ScraperExit)
    /\ WF_vars(StopReturn)

Spec == Init /\ [][Next]_vars
FairSpec == Spec /\ Fairness

-----------------------------------------------------------------------------
(* Properties                                                              *)

Stored(c) == stored[c] > 0

Settled(c) == Stored(c) \/ c \in lost

(* A call that queued its event can point at it: in the channel, in some   *)
(* worker's batch, in the database, or in a flush that did not store it.   *)
(* No interleaving of senders, workers and Stop makes an event vanish      *)
(* without a flush having tried to write it, and no other call's event     *)
(* gets in.                                                                *)
NothingVanishes ==
    \A c \in Calls :
        pc[c] = "queued" <=> \/ c \in Range(in)
                             \/ \E w \in Workers : c \in batch[w]
                             \/ Settled(c)

(* And it is in one of these places only, once: no event is written twice, *)
(* by one worker after a failed flush or by two workers.                   *)
NothingTwice ==
    /\ IsInjective(in)
    /\ \A c \in Range(in) : ~Settled(c) /\ \A w \in Workers : c \notin batch[w]
    /\ \A w \in Workers : \A c \in batch[w] :
          ~Settled(c) /\ \A v \in Workers \ {w} : c \notin batch[v]
    /\ \A c \in Calls : stored[c] <= 1 /\ ~(Stored(c) /\ c \in lost)

(* A worker never flushes more than BatchSize events, never waits with a   *)
(* full batch, and never exits with events in its hands, whichever of its  *)
(* three ways out it takes.                                                *)
BatchDiscipline ==
    \A w \in Workers :
        /\ Cardinality(batch[w]) <= BatchSize
        /\ wpc[w] = "select" => Cardinality(batch[w]) < BatchSize
        /\ wpc[w] = "exited" => batch[w] = {}

(* Stop keeps its promise (line 107) when the context is still live: after *)
(* it returns, every queued event has been through a flush.                *)
StopDrains ==
    stopped /\ ~cancelled => \A c \in Calls : pc[c] = "queued" => Settled(c)

(* The accepted counter never claims a document the database does not      *)
(* hold, although a failed write can leave documents it does not count.    *)
AcceptedIsStored == accepted <= Cardinality({c \in Calls : Stored(c)})

Twins(c) == {d \in Calls \ {c} : Event[d].key = Event[c].key}

(* An event is discarded as a duplicate only if another event with its key *)
(* has itself got past the filter.                                         *)
DuplicateHasTwin ==
    \A c \in Calls : pc[c] = "duplicate" =>
        /\ Event[c].key # NoKey
        /\ \E d \in Twins(c) : pc[d] \in {"send", "queued", "dropped", "panicked"}

(* "Duplicate; treat as accepted for at-least-once semantics" (line 82):   *)
(* the event a duplicate repeats has been queued or is about to be, unless *)
(* Stop panicked its sender.  The code can also have dropped it, for the   *)
(* key is stored before the send is tried.                                 *)
DuplicateIsQueued ==
    \A c \in Calls : pc[c] = "duplicate" =>
        \E d \in Twins(c) : pc[d] \in {"send", "queued", "panicked"}

(* Submit never blocks: every call that has begun ends, even when the      *)
(* channel stays full because the workers have exited.                     *)
SubmitReturns ==
    \A c \in Calls : pc[c] \in {"dedupe", "send"} ~> pc[c] \in Ended

(* A queued event is eventually written, or given up by a failed flush,    *)
(* unless the context is cancelled.                                        *)
QueuedSettles ==
    \A c \in Calls : pc[c] = "queued" ~> Settled(c) \/ cancelled

(* "Stop gracefully drains the pipeline and waits for workers to finish"   *)
(* (line 107): it returns, provided the depth scraper, which it also waits *)
(* for, has a reason to exit.  Only the context gives it one.              *)
StopReturns == closed /\ (cancelled \/ ~Metrics) ~> stopped

(* Inside Submit the filter behaves as it does on its own, one caller per  *)
(* call: whatever the rest of the pipeline does, keys are forgotten and    *)
(* refused exactly as DedupeCache says.                                    *)
Cache == INSTANCE DedupeCache WITH
    Callers <- Calls,
    want <- [c \in Calls |-> IF pc[c] = "dedupe" THEN Event[c].key ELSE NoKey],
    passed <- [c \in Calls |-> pc[c] # "duplicate"]

ImplementsCache == Cache!Spec

(* The pipeline delivers what Delivery promises its callers, however the   *)
(* channel, the batches and the workers move the events in between.        *)
Held == Range(in) \cup UNION {batch[w] : w \in Workers}

Promise == INSTANCE Delivery WITH
    Capacity <- BufferSize + BatchSize * Cardinality(Workers),
    answer <- [c \in Calls |->
                  CASE pc[c] \in {"rejected", "dropped", "panicked"} -> "refused"
                    [] pc[c] = "queued" -> "taken"
                    [] pc[c] = "duplicate" -> "assumed"
                    [] OTHER -> "none"],
    held <- Held,
    stored <- {c \in Calls : Stored(c)},
    open <- ~closed,
    live <- ~cancelled,
    done <- stopped

ImplementsDelivery == Promise!Spec
=============================================================================
