-------------------------------- MODULE Cluster --------------------------------
(***************************************************************************)
(* Several ingestors over one database, behind a load balancer, and the    *)
(* clients that send them events.  The duplicate filter and everything     *)
(* accepted but not yet written are in the memory of one process           *)
(* (internal/ingestion/pipeline.go) and gone with it.  A client that gets  *)
(* no answer, or 503, sends its event again, to any of them.               *)
(*                                                                         *)
(* A request is one call of Submit here, in one step: Pipeline shows what  *)
(* its interleavings come to.  Each event is sent by one client.           *)
(***************************************************************************)
EXTENDS Startup, Functions, FiniteSets

CONSTANTS Ingestors,   \* the processes that serve requests
          Events,
          Keyed,       \* the events that carry an idempotency key
          NoProc,      \* no process
          BufferSize,  \* the capacity of the channel
          Capacity     \* of the channel and the workers' batches together

ASSUME ClusterAssumption ==
    /\ Ingestors \subseteq Procs /\ NoProc \notin Procs
    /\ Keyed \subseteq Events
    /\ IsFiniteSet(Ingestors) /\ IsFiniteSet(Events)
    /\ BufferSize \in Nat \ {0} /\ Capacity \in Nat /\ BufferSize <= Capacity

VARIABLES
    client,     \* per event: what its client does
    request,    \* the ingestor that a waiting client waits for
    abandoned,  \* per ingestor: requests it has still to handle although
                \* their client has given up on them
    memory,     \* per ingestor: the events whose keys it remembers
    held,       \* per ingestor: copies of events in its channel and batches
    stored,     \* MongoDB: copies of each event
    silences,   \* history: how often the client of an event got no answer
    fate        \* history: what has happened to copies that are gone

clientVars == <<client, request, silences>>
serverVars == <<abandoned, memory, held, fate>>
vars == <<startVars, clientVars, serverVars, stored>>

ClusterTypeOK ==
    /\ StartTypeOK
    /\ client \in [Events -> {"ready", "waiting", "accepted"}]
    /\ request \in [Events -> Ingestors \cup {NoProc}]
    /\ \A e \in Events : client[e] = "waiting" <=> request[e] # NoProc
    /\ abandoned \in [Ingestors -> [Events -> 0 .. MaxFaults]]
    /\ memory \in [Ingestors -> SUBSET Keyed]
    /\ held \in [Ingestors -> [Events -> 0 .. Capacity]]
    /\ stored \in [Events -> Nat]
    /\ silences \in [Events -> 0 .. MaxFaults]
    /\ fate \in [Events -> SUBSET {"dropped", "unwritten", "crashed"}]

Init ==
    /\ StartInit
    /\ client = [e \in Events |-> "ready"]
    /\ request = [e \in Events |-> NoProc]
    /\ abandoned = [p \in Ingestors |-> [e \in Events |-> 0]]
    /\ memory = [p \in Ingestors |-> {}]
    /\ held = [p \in Ingestors |-> [e \in Events |-> 0]]
    /\ stored = [e \in Events |-> 0]
    /\ silences = [e \in Events |-> 0]
    /\ fate = [e \in Events |-> {}]

-----------------------------------------------------------------------------
(* Requests                                                                *)

Serving(p) == place[p] = "serving"

(* A connection to a process that does not serve is refused: no step. *)
Post(e, p) ==
    /\ client[e] = "ready" /\ Serving(p)
    /\ client' = [client EXCEPT ![e] = "waiting"]
    /\ request' = [request EXCEPT ![e] = p]
    /\ UNCHANGED <<startVars, silences, serverVars, stored>>

Load(p) == SumFunction(held[p])

(* Mutant of Remembered: an event without a key is remembered, too. *)
RememberedAlways(p, e) == memory' = [memory EXCEPT ![p] = @ \cup {e}]

(* checkAndStoreDedup, for an event with a key. *)
Remembered(p, e) == memory' = [memory EXCEPT ![p] = @ \cup ({e} \cap Keyed)]

(* Submit, and the status that follows from what it returns.  A duplicate  *)
(* is taken to have been accepted.                                         *)
Duplicate(p, e) ==
    /\ e \in memory[p]
    /\ UNCHANGED <<memory, held, fate>>

Queue(p, e) ==
    /\ e \notin memory[p] /\ Load(p) < Capacity
    /\ Remembered(p, e)
    /\ held' = [held EXCEPT ![p][e] = @ + 1]
    /\ UNCHANGED fate

(* The channel may be full while the workers have room in their batches. *)
Drop(p, e) ==
    /\ e \notin memory[p] /\ Load(p) >= BufferSize
    /\ Remembered(p, e)
    /\ fate' = [fate EXCEPT ![e] = @ \cup {"dropped"}]
    /\ UNCHANGED held

(* Mutant of Submit: 202 whatever the pipeline said. *)
SubmitAccepted(p, e, status) ==
    status = "202" /\ (Duplicate(p, e) \/ Queue(p, e) \/ Drop(p, e))

Submit(p, e, status) ==
    \/ status = "202" /\ (Duplicate(p, e) \/ Queue(p, e))
    \/ status = "503" /\ Drop(p, e)

Hears(e, outcome) ==
    /\ client' = [client EXCEPT ![e] = outcome]
    /\ request' = [request EXCEPT ![e] = NoProc]

Handle(e) ==
    /\ client[e] = "waiting" /\ Serving(request[e])
    /\ \E status \in {"202", "503"} :
          /\ Submit(request[e], e, status)
          /\ Hears(e, IF status = "202" THEN "accepted" ELSE "ready")
    /\ UNCHANGED <<startVars, silences, abandoned, stored>>

Silence(e) ==
    /\ Hears(e, "ready")
    /\ silences' = [silences EXCEPT ![e] = @ + 1]

(* The request is handled and the answer lost. *)
HandleUnanswered(e) ==
    /\ client[e] = "waiting" /\ Serving(request[e])
    /\ Fault
    /\ \E status \in {"202", "503"} : Submit(request[e], e, status)
    /\ Silence(e)
    /\ UNCHANGED <<deployment, place, kind, losses, abandoned, stored>>

(* The client times out before its request is handled. *)
GiveUp(e) ==
    /\ client[e] = "waiting"
    /\ Fault
    /\ abandoned' = [abandoned EXCEPT ![request[e]][e] = @ + 1]
    /\ Silence(e)
    /\ UNCHANGED <<deployment, place, kind, losses, memory, held, fate, stored>>

HandleAbandoned(p, e) ==
    /\ Serving(p) /\ abandoned[p][e] > 0
    /\ \E status \in {"202", "503"} : Submit(p, e, status)
    /\ abandoned' = [abandoned EXCEPT ![p][e] = @ - 1]
    /\ UNCHANGED <<startVars, clientVars, stored>>

-----------------------------------------------------------------------------
(* Ingestors                                                               *)

(* Mutant of Left: what could not be written is kept for the next flush. *)
LeftOnError(p, e, failed) == IF failed THEN held[p][e] ELSE held[p][e] - 1

(* A batch is reset after its flush, also after an error. *)
Left(p, e, failed) == held[p][e] - 1

(* Mutant of Flush: no worker is left. *)
FlushNever(p, e) == FALSE

(* A flush, one document at a time, for the insert is not atomic.  An      *)
(* error does not say whether the document was stored.  MongoDB creates    *)
(* the collection of an insert if there is none.                           *)
Flush(p, e) ==
    /\ Serving(p) /\ held[p][e] > 0
    /\ \E kept, failed \in BOOLEAN :
          /\ kept \/ failed
          /\ stored' = IF kept THEN [stored EXCEPT ![e] = @ + 1] ELSE stored
          /\ fate' = IF kept THEN fate ELSE [fate EXCEPT ![e] = @ \cup {"unwritten"}]
          /\ held' = [held EXCEPT ![p][e] = Left(p, e, failed)]
    /\ kind' = IF Found(p) THEN kind ELSE [kind EXCEPT ![Logs(p)] = "ordinary"]
    /\ UNCHANGED <<deployment, place, faults, losses, clientVars, abandoned, memory>>

(* The window of a key is over and the filter forgets it. *)
Expire(p, e) ==
    /\ e \in memory[p]
    /\ Fault
    /\ memory' = [memory EXCEPT ![p] = @ \ {e}]
    /\ UNCHANGED <<deployment, place, kind, losses, clientVars, abandoned, held, fate,
                   stored>>

(* What the memory of the process held is gone, and so are its connections. *)
(* A shutdown that leaves events in the channel comes to the same.         *)
Crash(p) ==
    /\ Die(p)
    /\ memory' = [memory EXCEPT ![p] = {}]
    /\ held' = [held EXCEPT ![p] = [e \in Events |-> 0]]
    /\ abandoned' = [abandoned EXCEPT ![p] = [e \in Events |-> 0]]
    /\ fate' = [e \in Events |-> fate[e] \cup (IF held[p][e] > 0 THEN {"crashed"} ELSE {})]
    /\ client' = [e \in Events |-> IF request[e] = p THEN "ready" ELSE client[e]]
    /\ silences' = [e \in Events |-> silences[e] + (IF request[e] = p THEN 1 ELSE 0)]
    /\ request' = [e \in Events |-> IF request[e] = p THEN NoProc ELSE request[e]]
    /\ UNCHANGED stored

-----------------------------------------------------------------------------
Starting(p) ==
    /\ StartStep(p)
    /\ UNCHANGED <<clientVars, serverVars, stored>>

(* An alerter, which starts in the same way, has no memory to lose here. *)
StartFails(p) ==
    /\ CreateUnanswered(p) \/ (p \notin Ingestors /\ Die(p))
    /\ UNCHANGED <<clientVars, serverVars, stored>>

Client(e) == \E p \in Ingestors : Post(e, p)

Next ==
    \/ \E p \in Procs : Starting(p) \/ StartFails(p)
    \/ \E e \in Events : Client(e) \/ Handle(e) \/ HandleUnanswered(e) \/ GiveUp(e)
    \/ \E p \in Ingestors, e \in Events : HandleAbandoned(p, e) \/ Flush(p, e) \/ Expire(p, e)
    \/ \E p \in Ingestors : Crash(p)

(* Processes run and are restarted, workers flush, clients try again.      *)
(* Faults are not owed.                                                    *)
Fairness ==
    /\ \A p \in Procs : WF_vars(Starting(p))
    /\ \A e \in Events : WF_vars(Client(e)) /\ WF_vars(Handle(e))
    /\ \A p \in Ingestors : WF_vars(\E e \in Events : Flush(p, e))

Spec == Init /\ [][Next]_vars
FairSpec == Spec /\ Fairness

-----------------------------------------------------------------------------
(* Properties                                                              *)

Across(count, e) == SumFunction([p \in Ingestors |-> count[p][e]])

Copies(e) == stored[e] + Across(held, e)

(* An event is in the system more than once only if its client was left    *)
(* without an answer: a 503 is true, a failed flush is not repeated, and   *)
(* so a second copy needs a lost answer, not just a full channel, a        *)
(* restart or another replica.  The key of the event does not matter: it   *)
(* is remembered by one process only.                                      *)
CopiesNeedSilence == \A e \in Events : Copies(e) <= 1 + silences[e]

(* An event whose client was told 202 is in the database or on its way     *)
(* there, or else a crash or a failed write has lost it, or the process    *)
(* that said 202 remembered the key of a request it had dropped before.    *)
AcceptedIsKept ==
    \A e \in Events : client[e] = "accepted" =>
        \/ Copies(e) > 0
        \/ fate[e] \cap {"crashed", "unwritten"} # {}
        \/ e \in Keyed /\ "dropped" \in fate[e]

(* No insert creates the collection: it has the kind that one of the       *)
(* processes is configured for, whichever of them came first.              *)
ConfiguredKind ==
    \A c \in AllCollections : kind[c] # "none" =>
        \E p \in Procs : Logs(p) = c /\ kind[c] = Configured(p)

(* "tolerate races on startup" (mongo.go:94): of processes that start at   *)
(* once, one that creates the collection never exits for the others, and   *)
(* each of the others at most once, if it does not want a time-series      *)
(* collection: its restart finds what the winner, whether it heard of it   *)
(* or not, has created.                                                    *)
RaceLostOnce ==
    \A p \in Procs : losses[p] > 0 =>
        /\ losses[p] = 1 /\ ~cfg(p).time_series
        /\ \E q \in Procs : Logs(q) = Logs(p) /\ losses[q] = 0

(* A client that keeps trying is told 202 in the end, whatever crashed and *)
(* whatever was full meanwhile, if any process can start at all.           *)
RetriesSucceed ==
    (\E p \in Ingestors : Startable(p)) =>
        \A e \in Events : <>(client[e] = "accepted")

(* The environment of a process points it at a MongoDB that answers. *)
Directed(p) ==
    LET env == deployment[p].env
    IN  "MONGODB_URI" \in DOMAIN env /\ env["MONGODB_URI"] \in Servers

(* "Environment variables override file values where present"              *)
(* (config.go:128): a process directed to a MongoDB comes to serve in the  *)
(* end, whichever server, database or collection its file names, unless    *)
(* that cannot be read or has settings nothing can connect with.  A        *)
(* creation that failed or came second does not fail for ever.             *)
StartupSucceeds ==
    \A p \in Procs :
        Loads(deployment[p].file) /\ Directed(p) /\ Connectable(p) => []<>Serving(p)
=============================================================================
