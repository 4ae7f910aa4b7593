------------------------------- MODULE Queries -------------------------------
(***************************************************************************)
(* The reading endpoints: the handlers Query, Stats and Throughput         *)
(* (internal/processor/handlers.go) and what they ask of MongoDB           *)
(* (Query, AggregateStats and BucketByMinute in internal/storage/mongo.go).*)
(* A handler reads the clock once, to turn a window into a point in time;  *)
(* after that the clock goes on, and documents are inserted, with the      *)
(* times their senders gave them, before and while MongoDB scans.          *)
(*                                                                         *)
(* MongoDB is external: one scan sees every document that was there when   *)
(* it began and any of those that came while it ran.  Windows are short    *)
(* against the collection's TTL.                                           *)
(***************************************************************************)
EXTENDS Integers, Sequences, FiniteSets, Functions

CONSTANTS Docs,          \* documents, each inserted at most once
          Doc,           \* [time, level, service, text]: text is the set of
                         \* searches that match the message
          Requests,      \* [endpoint, window, limit, service, level, q]
          Unfiltered,    \* a filter that was not given
          Unparsed,      \* a window or a limit that was not given, or does
                         \* not parse
          DefaultWindow, \* 1 hour
          Minute,        \* the length of a minute
          ZeroTime,      \* time.Time{}
          DefaultPage, MaxPage,         \* 200 and 5000 documents
          MaxServices,   \* 20
          MaxMinutes,    \* 120
          MaxTime        \* a bound: the clock stops

ASSUME QueriesAssumption ==
    /\ \A d \in Docs : Doc[d].time \in 0 .. MaxTime
    /\ \A r \in Requests : /\ r.endpoint \in {"logs", "stats", "throughput"}
                           /\ r.limit = Unparsed \/ r.limit \in Int
    /\ Minute \in Nat \ {0} /\ DefaultPage \in 1 .. MaxPage /\ MaxPage \in Nat
    /\ MaxServices \in Nat /\ MaxMinutes \in Nat

VARIABLES now, db,
          place,    \* "idle", then the place of the one request there is
          asked,    \* that request
          since,    \* the point in time its handler computed
          before,   \* history: what was there when the scan began
          answer

vars == <<now, db, place, asked, since, before, answer>>

NoAnswer == [status |-> 0]

Init ==
    /\ now = 0 /\ db = {}
    /\ place = "idle" /\ asked \in Requests /\ since = 0
    /\ before = {} /\ answer = NoAnswer

-----------------------------------------------------------------------------
(* What a scan selects.                                                    *)

(* Query has no lower bound by default, the others one hour. *)
Since(r) ==
    IF r.window # Unparsed THEN now - r.window
    ELSE IF r.endpoint = "logs" THEN -MaxTime ELSE now - DefaultWindow

Meets(filter, value) == filter \in {Unfiltered, value}

Selected(S) ==
    {d \in S :
        /\ Doc[d].time >= since
        /\ asked.endpoint = "logs" =>
              /\ Meets(asked.service, Doc[d].service)
              /\ Meets(asked.level, Doc[d].level)
              /\ asked.q \in {Unfiltered} \cup Doc[d].text}

-----------------------------------------------------------------------------
(* Query                                                                   *)

Limit(n) == IF n = Unparsed \/ n <= 0 \/ n > MaxPage THEN DefaultPage ELSE n

Least(m, n) == IF m < n THEN m ELSE n

(* The elements of S sorted by key, ties in any order. *)
Orders(S, key) ==
    {s \in [1 .. Cardinality(S) -> S] :
        \A i, j \in DOMAIN s : i < j => s[i] # s[j] /\ key[s[i]] <= key[s[j]]}

FirstOf(s, n) == SubSeq(s, 1, Least(Len(s), n))

(* Mutant of NewestFirst: the sort ascends, as that of BucketByMinute. *)
OldestFirst == [d \in Docs |-> Doc[d].time]

NewestFirst == [d \in Docs |-> -Doc[d].time]

Pages(S) == {FirstOf(s, Limit(asked.limit)) : s \in Orders(Selected(S), NewestFirst)}

-----------------------------------------------------------------------------
(* AggregateStats                                                          *)

Severe == {"ERROR", "FATAL"}
Counts(S, key) ==
    [v \in {Doc[d][key] : d \in S} |-> Cardinality({d \in S : Doc[d][key] = v})]

(* The services with the highest counts. *)
Tops(counts) ==
    {Range(FirstOf(s, MaxServices)) :
        s \in Orders(DOMAIN counts, [v \in DOMAIN counts |-> -counts[v]])}

Sum(counts) == SumFunction(counts)

Facets == {"total", "by_level", "by_service"}

(* scan is what each facet of the aggregation is given. *)
Stats(scan) ==
    LET levels == Counts(Selected(scan["by_level"]), "level")
        services == Counts(Selected(scan["by_service"]), "service")
    IN  {[total |-> Cardinality(Selected(scan["total"])),
          by_level |-> levels,
          by_service |-> [s \in T |-> services[s]],
          errors |-> Sum([l \in Severe \cap DOMAIN levels |-> levels[l]])] :
            T \in Tops(services)}

-----------------------------------------------------------------------------
(* BucketByMinute                                                          *)

MinuteOf(d) == Doc[d].time \div Minute
InMinute(S, m) == {d \in S : MinuteOf(d) = m}

(* What the answer says of a minute.  Which minute it is gets lost: the    *)
(* driver hands out a primitive.DateTime, the assertion to time.Time in    *)
(* line 330 fails silently, and every "ts" is the zero time.               *)
Bucket(D) ==
    [ts |-> ZeroTime, count |-> Cardinality(D),
     errors |-> Cardinality({d \in D : Doc[d].level \in Severe})]

Minutes(S) == {MinuteOf(d) : d \in S}

BucketsOf(D, minutes) == [i \in DOMAIN minutes |-> Bucket(InMinute(D, minutes[i]))]

InTime(minutes) == Orders(minutes, [m \in minutes |-> m])

(* Mutant of Buckets: the limit comes before the grouping. *)
BucketsLimitedFirst(S) ==
    UNION {LET D == Range(FirstOf(s, MaxMinutes))
           IN  {BucketsOf(D, m) : m \in InTime(Minutes(D))} :
               s \in Orders(Selected(S), OldestFirst)}

(* The oldest minutes come first and are the ones that are kept. *)
Buckets(S) ==
    {BucketsOf(Selected(S), FirstOf(m, MaxMinutes)) : m \in InTime(Minutes(Selected(S)))}

-----------------------------------------------------------------------------
Tick ==
    /\ now < MaxTime
    /\ now' = now + 1
    /\ UNCHANGED <<db, place, asked, since, before, answer>>

(* What comes after the answer is of no interest. *)
Insert(d) ==
    /\ d \notin db /\ place # "answered"
    /\ db' = db \cup {d}
    /\ UNCHANGED <<now, place, asked, since, before, answer>>

(* The handler reads the clock. *)
Ask ==
    /\ place = "idle"
    /\ place' = "asked"
    /\ since' = Since(asked)
    /\ UNCHANGED <<now, db, asked, before, answer>>

(* MongoDB begins its scan. *)
Begin ==
    /\ place = "asked"
    /\ place' = "scanning"
    /\ before' = db
    /\ UNCHANGED <<now, db, asked, since, answer>>

Seen == {S \in SUBSET db : before \subseteq S}

(* Mutant of Scans: an aggregation for each facet. *)
ScansPerFacet == [Facets -> Seen]

(* One pass feeds all facets. *)
Scans == {[f \in Facets |-> S] : S \in Seen}

Answer(result) ==
    /\ place = "scanning"
    /\ place' = "answered"
    /\ answer' = [status |-> 200, result |-> result]
    /\ UNCHANGED <<now, db, asked, since, before>>

AnswerQuery == asked.endpoint = "logs" /\ \E S \in Seen : \E page \in Pages(S) : Answer(page)
AnswerStats == asked.endpoint = "stats" /\ \E scan \in Scans : \E stats \in Stats(scan) : Answer(stats)
AnswerThroughput ==
    asked.endpoint = "throughput" /\ \E S \in Seen : \E buckets \in Buckets(S) : Answer(buckets)

(* The database fails, or 10 seconds have passed. *)
Fail ==
    /\ place \in {"asked", "scanning"}
    /\ place' = "answered"
    /\ answer' = [status |-> 500]
    /\ UNCHANGED <<now, db, asked, since, before>>

Next ==
    \/ Tick
    \/ \E d \in Docs : Insert(d)
    \/ Ask \/ Begin
    \/ AnswerQuery \/ AnswerStats \/ AnswerThroughput
    \/ Fail

Spec == Init /\ [][Next]_vars

-----------------------------------------------------------------------------
(* Properties                                                              *)

Answered(endpoint) == answer.status = 200 /\ asked.endpoint = endpoint

(* A page is the newest there is: in order, and nothing that was stored    *)
(* before the request is left out for something older, or because there    *)
(* was room for it.                                                        *)
Newest(page) ==
    /\ \A i \in 2 .. Len(page) : Doc[page[i - 1]].time >= Doc[page[i]].time
    /\ \A d \in Selected(before) \ Range(page) :
          /\ Len(page) = Limit(asked.limit)
          /\ Doc[d].time <= Doc[page[Len(page)]].time

PageIsNewest == Answered("logs") => Newest(answer.result)

(* The numbers of a snapshot agree with each other although documents come *)
(* in while it is taken: the levels add up to the total, the services do   *)
(* if none was cut off, there are no more errors than documents, and the   *)
(* total covers the window.                                                *)
Agree(stats) ==
    LET services == {Doc[d].service : d \in Selected(db)}
    IN  /\ Sum(stats.by_level) = stats.total
        /\ Sum(stats.by_service) <= stats.total
        /\ Cardinality(services) <= MaxServices => Sum(stats.by_service) = stats.total
        /\ stats.errors <= stats.total
        /\ stats.total >= Cardinality(Selected(before))

StatsAddUp == Answered("stats") => Agree(answer.result)

(* "minute-level event counts in the time range" (mongo.go:301): unless    *)
(* there are too many minutes, there is a bucket for each that had         *)
(* documents when the request came, and the buckets together count these   *)
(* documents and none that is not there.                                   *)
CountAll(buckets) ==
    LET count == [i \in DOMAIN buckets |-> buckets[i].count]
    IN  /\ Len(buckets) >= Cardinality(Minutes(Selected(before)))
        /\ Sum(count) >= Cardinality(Selected(before))
        /\ Sum(count) <= Cardinality(Selected(db))
        /\ \A i \in DOMAIN buckets : buckets[i].errors <= buckets[i].count

ThroughputAddsUp ==
    Answered("throughput") /\ Cardinality(Minutes(Selected(db))) <= MaxMinutes
        => CountAll(answer.result)
=============================================================================
