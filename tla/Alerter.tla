-------------------------------- MODULE Alerter --------------------------------
(***************************************************************************)
(* The alerter process (cmd/alerter/main.go): the goroutine of WatchErrors *)
(* (internal/storage/mongo.go) forwards ERROR and FATAL documents from the *)
(* change stream to a bounded channel, Run (internal/alert/dispatcher.go)  *)
(* matches each against the rules and posts an alert for every match       *)
(* through the breaker, and rulesRefresher reloads the rules.  When main   *)
(* ends the process is gone, and what it had in memory with it.            *)
(*                                                                         *)
(* MongoDB, the webhook and whoever edits the rules or restarts the        *)
(* process are external.  A set of rules is known by its position in       *)
(* versions, the list of contents the alert_rules collection has had.      *)
(***************************************************************************)
EXTENDS Breaker, Sequences, FiniteSets, Functions

CONSTANTS Events,      \* documents, each inserted at most once
          Doc,         \* [level, service, hits, garbled], hits being the
                       \* patterns that match its message
          Rules,       \* alert rules
          Rule,        \* [service, level, pattern, enabled, webhook]
          Default,     \* the rule "fatal-default"
          Contents,    \* what the collection can hold: sequences of rules
          MaxVersions, \* a bound: how many contents it has
          Any,         \* an empty service, level or pattern: no condition
          Invalid,     \* a pattern that does not compile
          Slack,       \* is cfg.SlackWebhook set?
          Buffer,      \* 256, the capacity of the channel
          MaxPost      \* client.Timeout, the longest a post takes

ASSUME AlerterAssumption ==
    /\ Contents # {} /\ Contents \subseteq Seq(Rules) /\ Default \notin Rules
    /\ MaxVersions \in Nat \ {0} /\ Buffer \in Nat \ {0} /\ MaxPost \in Nat
    /\ Slack \in BOOLEAN

VARIABLES
    oplog,      \* the documents inserted, in order
    versions,   \* the contents alert_rules has had, the last is current
    enabled,    \* cfg.Enabled
    scraping,   \* is the metrics server busy with a request?
    main,       \* "stopping" once the context is cancelled
    run,        \* the statement Run has reached
    rules,      \* Dispatcher.rules
    fresh,      \* per loader: rules it has read and not yet installed
    snap, nth,  \* locals of evaluate: its rules, the number of the next match
    waited,     \* how long the current post has taken
    breaker,
    watch,      \* the goroutine of WatchErrors
    opened,     \* where in oplog its stream began
    read,       \* how far it has read
    held, out,  \* the document it is sending; the channel
    evaluated,  \* history: what this process has evaluated, in order
    fired,      \* history: the rules it has called fire with for each
    handled,    \* history: what any process has evaluated
    promised    \* history: where the coverage continued by graceful restarts
                \* began, -1 if none did

streamVars == <<watch, opened, read, held>>
evalVars == <<snap, nth, waited, breaker, fired>>
pastVars == <<evaluated, handled>>
inputVars == <<oplog, versions, enabled, scraping>>
vars == <<inputVars, main, run, rules, fresh, evalVars, streamVars, out,
          pastVars, promised>>

Loaders == {"Run", "rulesRefresher"}

(* 0: no rules have been loaded, or read. *)
Versions == 0 .. Len(versions)

TypeOK ==
    /\ oplog \in Seq(Events) /\ versions \in Seq(Contents) \ {<<>>}
    /\ enabled \in BOOLEAN /\ scraping \in BOOLEAN
    /\ main \in {"serving", "stopping", "down"}
    /\ run \in {"load", "watch", "select", "fire", "post", "doomed", "returned"}
    /\ {rules, snap} \subseteq Versions
    /\ fresh \in [Loaders -> Versions]
    /\ nth \in Nat /\ waited \in 0 .. MaxPost
    /\ breaker \in Breakers
    /\ watch \in {"off", "next", "send", "closed"}
    /\ opened \in 0 .. read /\ read \in 0 .. Len(oplog)
    /\ promised \in -1 .. Len(oplog)
    /\ {held, out, evaluated} \subseteq Seq(Events)
    /\ Len(held) = (IF watch = "send" THEN 1 ELSE 0) /\ Len(out) <= Buffer
    /\ fired \in [Events -> SUBSET (Rules \cup {Default})]
    /\ handled \subseteq Events

Init ==
    /\ oplog = <<>> /\ handled = {} /\ promised = -1
    /\ versions \in {<<s>> : s \in Contents}
    /\ enabled \in BOOLEAN /\ scraping = FALSE
    /\ main = "serving" /\ run = "load"
    /\ rules = 0 /\ fresh = [l \in Loaders |-> 0]
    /\ snap = 0 /\ nth = 0 /\ waited = 0 /\ breaker = Renewed("closed")
    /\ watch = "off" /\ opened = 0 /\ read = 0 /\ held = <<>> /\ out = <<>>
    /\ evaluated = <<>> /\ fired = [e \in Events |-> {}]

Up == main # "down"
Live == main = "serving"

-----------------------------------------------------------------------------
(* External: documents are inserted, rules are edited, time passes.        *)

Insert(e) ==
    /\ e \notin Range(oplog)
    /\ oplog' = Append(oplog, e)
    /\ UNCHANGED <<versions, enabled, scraping, main, run, rules, fresh, evalVars,
                   streamVars, out, pastVars, promised>>

Edit(s) ==
    /\ Len(versions) < MaxVersions
    /\ s # versions[Len(versions)]
    /\ versions' = Append(versions, s)
    /\ UNCHANGED <<oplog, enabled, scraping, main, run, rules, fresh, evalVars,
                   streamVars, out, pastVars, promised>>

(* No post outlasts the client's timeout. *)
Tick ==
    /\ Up
    /\ run = "post" => waited < MaxPost
    /\ waited' = IF run = "post" THEN waited + 1 ELSE 0
    /\ breaker' = Passed(breaker)
    /\ UNCHANGED <<inputVars, main, run, rules, fresh, snap, nth, fired,
                   streamVars, out, pastVars, promised>>

-----------------------------------------------------------------------------
(* refreshRules                                                            *)

(* SelectSeq with a set for its test: a loop that appends what passes. *)
Selected(s, T) ==
    LET kept[n \in 0 .. Len(s)] ==
            IF n = 0 THEN <<>>
            ELSE IF s[n] \in T THEN Append(kept[n - 1], s[n]) ELSE kept[n - 1]
    IN  kept[Len(s)]

Compiles(r) == Rule[r].pattern # Invalid

(* LoadRules asks for the enabled rules; the loop skips the invalid ones. *)
Compiled(v) ==
    IF v = 0 THEN <<>>
    ELSE Selected(versions[v], {r \in Rules : Rule[r].enabled /\ Compiles(r)})

(* Mutant of Loading: the refresher is started before the initial load. *)
LoadingEarly(l) == l = "Run" => run = "load"

(* Run loads once before it starts the refresher. *)
Loading(l) == Up /\ (l = "Run" <=> run = "load")

Load(l) ==
    /\ Live /\ Loading(l) /\ fresh[l] = 0
    /\ fresh' = [fresh EXCEPT ![l] = Len(versions)]
    /\ UNCHANGED <<inputVars, main, run, rules, evalVars, streamVars, out,
                   pastVars, promised>>

Install(l) ==
    /\ Loading(l) /\ fresh[l] # 0
    /\ rules' = fresh[l]
    /\ fresh' = [fresh EXCEPT ![l] = 0]
    /\ run' = IF l = "Run" THEN "watch" ELSE run
    /\ UNCHANGED <<inputVars, main, evalVars, streamVars, out, pastVars, promised>>

(* An error keeps the rules there are.  The refresher waits for its ticker, *)
(* the first load is not tried again.                                       *)
FirstLoadFails ==
    /\ Up /\ run = "load" /\ fresh["Run"] = 0
    /\ run' = "watch"
    /\ UNCHANGED <<inputVars, main, rules, fresh, evalVars, streamVars, out,
                   pastVars, promised>>

-----------------------------------------------------------------------------
(* WatchErrors                                                             *)

(* There is no resume token: the stream begins with what comes next. *)
Open ==
    /\ Live /\ run = "watch"
    /\ run' = "select"
    /\ watch' = "next"
    /\ opened' = Len(oplog) /\ read' = Len(oplog)
    /\ promised' = IF promised = -1 THEN Len(oplog) ELSE promised
    /\ UNCHANGED <<inputVars, main, rules, fresh, evalVars, held, out, pastVars>>

OpenFails ==
    /\ Up /\ run = "watch"
    /\ run' = "returned"
    /\ UNCHANGED <<inputVars, main, rules, fresh, evalVars, streamVars, out,
                   pastVars, promised>>

Matched(e) == Doc[e].level \in {"ERROR", "FATAL"}
Wanted(e) == Matched(e) /\ ~Doc[e].garbled

(* The server filters the next document, Decode fails or it is held.  What *)
(* the driver has buffered it returns even if the context is cancelled.    *)
StreamNext ==
    /\ Up /\ watch = "next" /\ read < Len(oplog)
    /\ read' = read + 1
    /\ IF Wanted(oplog[read + 1])
         THEN watch' = "send" /\ held' = <<oplog[read + 1]>>
         ELSE UNCHANGED <<watch, held>>
    /\ UNCHANGED <<inputVars, main, run, rules, fresh, evalVars, opened, out,
                   pastVars, promised>>

(* Next returns false: the stream broke or the context is cancelled. *)
StreamEnds ==
    /\ Up /\ watch = "next"
    /\ watch' = "closed"
    /\ UNCHANGED <<inputVars, main, run, rules, fresh, evalVars, opened, read,
                   held, out, pastVars, promised>>

(* Mutant of Forward: a select with a default. *)
ForwardOrDrop ==
    /\ Up /\ watch = "send"
    /\ out' = IF Len(out) < Buffer THEN out \o held ELSE out
    /\ held' = <<>> /\ watch' = "next"
    /\ UNCHANGED <<inputVars, main, run, rules, fresh, evalVars, opened, read,
                   pastVars, promised>>

Forward ==
    /\ Up /\ watch = "send" /\ Len(out) < Buffer
    /\ out' = out \o held
    /\ held' = <<>> /\ watch' = "next"
    /\ UNCHANGED <<inputVars, main, run, rules, fresh, evalVars, opened, read,
                   pastVars, promised>>

(* The other case of the select: the context is cancelled. *)
ForwardCancelled ==
    /\ main = "stopping" /\ watch = "send"
    /\ held' = <<>> /\ watch' = "closed"
    /\ UNCHANGED <<inputVars, main, run, rules, fresh, evalVars, opened, read,
                   out, pastVars, promised>>

-----------------------------------------------------------------------------
(* Run and evaluate                                                        *)

Receive ==
    /\ Up /\ run = "select" /\ out # <<>>
    /\ out' = Tail(out)
    /\ evaluated' = Append(evaluated, Head(out))
    /\ handled' = handled \cup {Head(out)}
    /\ run' = "fire" /\ snap' = rules /\ nth' = 1
    /\ UNCHANGED <<inputVars, main, rules, fresh, waited, breaker, fired,
                   streamVars, promised>>

(* Mutant of Exhausted: continue instead of return. *)
ExhaustedNever == FALSE

(* The channel is closed and empty. *)
Exhausted == watch = "closed" /\ out = <<>>

Return ==
    /\ Up /\ run = "select"
    /\ main = "stopping" \/ Exhausted
    /\ run' = "returned"
    /\ UNCHANGED <<inputVars, main, rules, fresh, evalVars, streamVars, out,
                   pastVars, promised>>

(* The document evaluate is at. *)
Event == evaluated[Len(evaluated)]

Applies(r, e) ==
    /\ Rule[r].service \in {Any, Doc[e].service}
    /\ Rule[r].level \in {Any, Doc[e].level}
    /\ Rule[r].pattern \in {Any} \cup Doc[e].hits

(* The rules version v has for e, in order. *)
Matches(v, e) ==
    IF Compiled(v) = <<>> /\ Doc[e].level = "FATAL" THEN <<Default>>
    ELSE Selected(Compiled(v), {r \in Rules : Applies(r, e)})

(* Mutant of Iterated: the loop ranges over the field, not the copy. *)
IteratedShared == rules

Iterated == snap

Left == nth <= Len(Matches(Iterated, Event))

Match == Matches(Iterated, Event)[nth]

(* fire is called for the next match. *)
Fire ==
    /\ Up /\ run = "fire" /\ Left
    /\ fired' = [fired EXCEPT ![Event] = @ \cup {Match}]
    /\ nth' = nth + 1

Target(r) == Slack \/ (r # Default /\ Rule[r].webhook)

(* Alerting is disabled, or there is no webhook: the breaker is not asked. *)
FireSilently ==
    /\ Fire
    /\ ~enabled \/ ~Target(Match)
    /\ UNCHANGED <<inputVars, main, run, rules, fresh, snap, waited, breaker,
                   streamVars, out, pastVars, promised>>

(* The breaker refuses; the alert is not tried again. *)
FireRefused ==
    /\ Fire
    /\ enabled /\ Target(Match)
    /\ ~Allows(Current(breaker))
    /\ breaker' = Current(breaker)
    /\ UNCHANGED <<inputVars, main, run, rules, fresh, snap, waited, streamVars,
                   out, pastVars, promised>>

(* With a cancelled context the post cannot succeed. *)
FirePost ==
    /\ Fire
    /\ enabled /\ Target(Match)
    /\ Allows(Current(breaker))
    /\ breaker' = Begun(Current(breaker))
    /\ run' = IF Live THEN "post" ELSE "doomed"
    /\ UNCHANGED <<inputVars, main, rules, fresh, snap, waited, streamVars,
                   out, pastVars, promised>>

(* Mutants of Answered: no client timeout, and a webhook that never        *)
(* answers; a success that is not reported to the breaker.                 *)
AnsweredNever(ok) == run = "doomed" /\ ~ok /\ breaker' = Reported(breaker, ok)
AnsweredFailure(ok) ==
    /\ run = "post" \/ (run = "doomed" /\ ~ok)
    /\ breaker' = IF ok THEN breaker ELSE Reported(breaker, ok)

(* An answer of the webhook, an error or the timeout. *)
Answered(ok) ==
    /\ run = "post" \/ (run = "doomed" /\ ~ok)
    /\ breaker' = Reported(breaker, ok)

PostReturns ==
    /\ Up
    /\ \E ok \in BOOLEAN : Answered(ok)
    /\ run' = "fire"
    /\ waited' = 0
    /\ UNCHANGED <<inputVars, main, rules, fresh, snap, nth, fired, streamVars,
                   out, pastVars, promised>>

(* evaluate returns to the select of Run. *)
EvaluateReturns ==
    /\ Up /\ run = "fire" /\ ~Left
    /\ run' = "select" /\ snap' = 0 /\ nth' = 0
    /\ UNCHANGED <<inputVars, main, rules, fresh, waited, breaker, fired,
                   streamVars, out, pastVars, promised>>

-----------------------------------------------------------------------------
(* main.  Its select takes a signal or the return of Run, whether Run gave *)
(* an error or not.  It does not wait for Run.                             *)

Signal ==
    /\ Live
    /\ main' = "stopping"
    /\ UNCHANGED <<inputVars, run, rules, fresh, evalVars, streamVars, out,
                   pastVars, promised>>

RunEnded ==
    /\ Live /\ run = "returned"
    /\ main' = "stopping"
    /\ promised' = -1
    /\ UNCHANGED <<inputVars, run, rules, fresh, evalVars, streamVars, out, pastVars>>

(* The metrics server takes a request, and finishes one.  It has no        *)
(* timeouts: a client that stalls keeps it busy for as long as it likes.   *)
Scrape ==
    /\ Live /\ ~scraping
    /\ scraping' = TRUE
    /\ UNCHANGED <<oplog, versions, enabled, main, run, rules, fresh, evalVars,
                   streamVars, out, pastVars, promised>>

ScrapeEnds ==
    /\ scraping
    /\ scraping' = FALSE
    /\ UNCHANGED <<oplog, versions, enabled, main, run, rules, fresh, evalVars,
                   streamVars, out, pastVars, promised>>

(* Shutdown has no deadline: it waits for the request the server is busy   *)
(* with.  Then what is in memory is lost.                                  *)
Exit ==
    /\ main = "stopping" /\ ~scraping
    /\ main' = "down" /\ run' = "load"
    /\ rules' = 0 /\ fresh' = [l \in Loaders |-> 0]
    /\ snap' = 0 /\ nth' = 0 /\ waited' = 0 /\ breaker' = Renewed("closed")
    /\ watch' = "off" /\ opened' = 0 /\ read' = 0 /\ held' = <<>> /\ out' = <<>>
    /\ evaluated' = <<>> /\ fired' = [e \in Events |-> {}]
    /\ UNCHANGED <<inputVars, handled, promised>>

(* A new process knows only its configuration. *)
Restart ==
    /\ main = "down"
    /\ main' = "serving"
    /\ UNCHANGED <<inputVars, run, rules, fresh, evalVars, streamVars, out,
                   pastVars, promised>>

-----------------------------------------------------------------------------
Run ==
    \/ FirstLoadFails \/ Open \/ OpenFails
    \/ Receive \/ Return \/ EvaluateReturns
    \/ FireSilently \/ FireRefused \/ FirePost
    \/ PostReturns

Stream == StreamNext \/ Forward \/ ForwardCancelled

Next ==
    \/ \E e \in Events : Insert(e)
    \/ \E s \in Contents : Edit(s)
    \/ Tick
    \/ \E l \in Loaders : Load(l) \/ Install(l)
    \/ Run
    \/ Stream
    \/ StreamEnds
    \/ Scrape \/ ScrapeEnds
    \/ Signal \/ RunEnded \/ Exit \/ Restart

(* The Go scheduler runs what can run, and the client's timeout ends every *)
(* post.  Signals, edits, broken streams, restarts and the end of a        *)
(* request to the metrics server are not owed.                             *)
Fairness ==
    /\ WF_vars(Run) /\ WF_vars(Install("Run"))
    /\ WF_vars(Stream)
    /\ WF_vars(RunEnded) /\ WF_vars(Exit)

Spec == Init /\ [][Next]_vars
FairSpec == Spec /\ Fairness

-----------------------------------------------------------------------------
(* Properties                                                              *)

(* While the process serves, what it has evaluated, what waits in the      *)
(* channel and what the stream goroutine holds are together the ERROR and  *)
(* FATAL documents its stream has delivered, in their order: a slow        *)
(* webhook fills the channel and holds the stream up, it loses nothing.    *)
StreamIsKept ==
    Live => evaluated \o out \o held
                = Selected(SubSeq(oplog, opened + 1, read), {e \in Events : Wanted(e)})

Evaluating(e) == run \in {"fire", "post", "doomed"} /\ e = Event

(* The alerts of a document follow from one version of the rules, even if  *)
(* the refresher installs another one while they are posted.               *)
OneVersionPerEvent ==
    \A e \in Range(evaluated) : ~Evaluating(e) =>
        \E v \in Versions : fired[e] = Range(Matches(v, e))

(* A slow load never overwrites the rules of a later one: only a restart   *)
(* takes the rules back.                                                   *)
RulesMoveForward == [][rules' >= rules \/ main' = "down"]_vars

(* fire is called by one goroutine, so a half-open breaker has a probe     *)
(* left whenever it is asked: it cannot get stuck, though nothing but the  *)
(* results of probes takes it out of that state.                           *)
ProbesSuffice ==
    run \notin {"post", "doomed"} => breaker.requests < MaxRequests

(* A dead stream is noticed: the documents still in the channel are        *)
(* evaluated and then the process ends, to be restarted.  Only a request   *)
(* to the metrics server that never ends can keep it from ending, though   *)
(* it watches nothing any more; requests that keep coming cannot.          *)
DeadStreamEndsProcess ==
    []<>(~scraping) => (watch = "closed" ~> main = "down")

(* A document the stream has delivered is eventually evaluated, unless the *)
(* process is stopping.  A webhook that does not answer delays it only.    *)
DeliveredIsEvaluated ==
    \A e \in Events : e \in Range(held) \cup Range(out) ~> e \in Range(evaluated) \/ ~Live

(* "any FATAL event always alerts" (dispatcher.go:142): fire is called for *)
(* every FATAL document.  The code does so only if there are no rules.     *)
FatalAlwaysAlerts ==
    \A e \in Range(evaluated) :
        Doc[e].level = "FATAL" /\ ~Evaluating(e) => fired[e] # {}

(* "resumeToken persisted on graceful shutdown (zero-loss restart)"        *)
(* (README.md:277): since the first stream was opened, or the first after  *)
(* an exit that was not graceful, no document before the current stream    *)
(* has been passed over.                                                   *)
ZeroLossRestart ==
    Live /\ watch # "off" =>
        \A i \in promised + 1 .. opened : Wanted(oplog[i]) => oplog[i] \in handled
=============================================================================
