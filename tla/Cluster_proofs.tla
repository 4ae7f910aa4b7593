---------------------------- MODULE Cluster_proofs ----------------------------
(***************************************************************************)
(* Proofs about several ingestors over one database, for any processes,    *)
(* events, sizes, deployments and number of faults.                        *)
(***************************************************************************)
EXTENDS Cluster, Induction_proofs

(* ClusterTypeOK without its bounds, which follow from what is counted. *)
Typed ==
    /\ StartTypeOK
    /\ client \in [Events -> {"ready", "waiting", "accepted"}]
    /\ request \in [Events -> Ingestors \cup {NoProc}]
    /\ \A e \in Events : client[e] = "waiting" <=> request[e] # NoProc
    /\ abandoned \in [Ingestors -> [Events -> Nat]]
    /\ memory \in [Ingestors -> SUBSET Keyed]
    /\ held \in [Ingestors -> [Events -> Nat]]
    /\ stored \in [Events -> Nat]
    /\ silences \in [Events -> Nat]
    /\ fate \in [Events -> SUBSET {"dropped", "unwritten", "crashed"}]

-----------------------------------------------------------------------------
(* The start of a process                                                  *)

LEMMA LogsListed ==
    ASSUME StartTypeOK, NEW p \in Procs
    PROVE  Logs(p) \in AllCollections
BY DEF StartTypeOK, Logs, AllCollections

LEMMA ConfiguredType ==
    ASSUME NEW p \in Procs
    PROVE  Configured(p) \in {"ordinary", "timeseries"}
BY DEF Configured

(* What a process does to the collections and to the places. *)
LEMMA StartTyped ==
    ASSUME StartTypeOK, NEW p \in Procs,
           StartStep(p) \/ CreateUnanswered(p) \/ Die(p)
    PROVE  StartTypeOK'
<1> USE ConfiguredType, StartupAssumption DEF StartTypeOK, Goto, Lose, Kinds
<1>1. CASE Connect(p)
  BY <1>1 DEF Connect
<1>2. CASE List(p)
  BY <1>2 DEF List, AfterList
<1>3. CASE Create(p)
  <2>1. kind' \in [AllCollections -> Kinds]
    BY <1>3 DEF Create
  <2>2. CASE Found(p) /\ ~Tolerates(p)
    BY <1>3, <2>1, <2>2 DEF Create
  <2>3. CASE ~(Found(p) /\ ~Tolerates(p))
    BY <1>3, <2>1, <2>3 DEF Create
  <2> QED
    BY <2>2, <2>3
<1>4. CASE Listen(p) \/ Restart(p)
  BY <1>4 DEF Listen, Restart
<1>5. CASE CreateUnanswered(p)
  <2>1. kind' \in [AllCollections -> Kinds]
    BY <1>5 DEF CreateUnanswered
  <2>2. faults' \in 0 .. MaxFaults
    BY <1>5 DEF CreateUnanswered, Fault
  <2> QED
    BY <1>5, <2>1, <2>2 DEF CreateUnanswered
<1>6. CASE Die(p)
  BY <1>6 DEF Die, Fault
<1> QED
  BY <1>1, <1>2, <1>3, <1>4, <1>5, <1>6 DEF StartStep

-----------------------------------------------------------------------------
(* Counts of copies and of requests                                        *)

Counts == [Ingestors -> [Events -> Nat]]

LEMMA AcrossType ==
    ASSUME NEW h \in Counts, NEW e \in Events
    PROVE  /\ Across(h, e) \in Nat
           /\ \A p \in Ingestors : h[p][e] <= Across(h, e)
<1> DEFINE f == [p \in Ingestors |-> h[p][e]]
<1>1. f \in [Ingestors -> Nat] /\ IsFiniteSet(Ingestors)
  BY ClusterAssumption DEF Counts
<1>2. \A p \in Ingestors : f[p] = h[p][e]
  OBVIOUS
<1>3. Across(h, e) = SumFunction(f)
  BY DEF Across
<1> HIDE DEF f
<1> QED
  BY <1>1, <1>2, <1>3, SumType

LEMMA AcrossChange ==
    ASSUME NEW h \in Counts, NEW g \in Counts, NEW e \in Events, NEW p \in Ingestors,
           \A q \in Ingestors \ {p} : g[q][e] = h[q][e]
    PROVE  Across(g, e) = Across(h, e) - h[p][e] + g[p][e]
<1> DEFINE f == [q \in Ingestors |-> h[q][e]]
           k == [q \in Ingestors |-> g[q][e]]
<1>1. f \in [Ingestors -> Nat] /\ k \in [Ingestors -> Nat] /\ IsFiniteSet(Ingestors)
  BY ClusterAssumption DEF Counts
<1>2. /\ \A q \in Ingestors : f[q] = h[q][e] /\ k[q] = g[q][e]
      /\ \A q \in Ingestors \ {p} : k[q] = f[q]
  OBVIOUS
<1>3. Across(h, e) = SumFunction(f) /\ Across(g, e) = SumFunction(k)
  BY DEF Across
<1> HIDE DEF f, k
<1>4. SumFunction(k) = SumFunction(f) - f[p] + k[p]
  BY <1>1, <1>2, SumChange
<1> QED
  BY <1>2, <1>3, <1>4

LEMMA AcrossSame ==
    ASSUME NEW h, NEW g, NEW e, \A q \in Ingestors : g[q][e] = h[q][e]
    PROVE  Across(g, e) = Across(h, e)
BY DEF Across

(* One count changes. *)
OneChange(h, g, p, e) ==
    /\ h \in Counts /\ g \in Counts
    /\ p \in Ingestors /\ e \in Events
    /\ \A q \in Ingestors, x \in Events : q # p \/ x # e => g[q][x] = h[q][x]

LEMMA OneCount ==
    ASSUME NEW h, NEW g, NEW p, NEW e, OneChange(h, g, p, e)
    PROVE  /\ Across(g, e) = Across(h, e) - h[p][e] + g[p][e]
           /\ \A x \in Events \ {e} : Across(g, x) = Across(h, x)
<1>1. Across(g, e) = Across(h, e) - h[p][e] + g[p][e]
  BY AcrossChange DEF OneChange
<1>2. ASSUME NEW x \in Events \ {e}
      PROVE  Across(g, x) = Across(h, x)
  BY AcrossSame DEF OneChange
<1> QED
  BY <1>1, <1>2

(* The counts of one process become 0. *)
Cleared(h, g, p) ==
    /\ h \in Counts /\ g \in Counts
    /\ p \in Ingestors
    /\ \A q \in Ingestors, x \in Events : g[q][x] = IF q = p THEN 0 ELSE h[q][x]

LEMMA ClearedCounts ==
    ASSUME NEW h, NEW g, NEW p, Cleared(h, g, p), NEW x \in Events
    PROVE  Across(g, x) = Across(h, x) - h[p][x]
<1>1. h \in Counts /\ g \in Counts /\ p \in Ingestors
  BY DEF Cleared
<1>2. g[p][x] = 0 /\ \A q \in Ingestors \ {p} : g[q][x] = h[q][x]
  BY DEF Cleared
<1>3. Across(g, x) = Across(h, x) - h[p][x] + g[p][x]
  BY <1>1, <1>2, AcrossChange
<1>4. Across(h, x) \in Nat /\ h[p][x] \in Nat
  BY <1>1, AcrossType DEF Counts
<1> QED
  BY <1>2, <1>3, <1>4

(* A sum of zeros. *)
LEMMA NoCounts ==
    ASSUME NEW h, h = [p \in Ingestors |-> [x \in Events |-> 0]], NEW e \in Events
    PROVE  Across(h, e) = 0
<1> DEFINE f == [p \in Ingestors |-> h[p][e]]
<1>1. f \in [Ingestors -> Nat] /\ IsFiniteSet(Ingestors) /\ \A p \in Ingestors : f[p] = 0
  BY ClusterAssumption
<1>2. Across(h, e) = SumFunction(f)
  BY DEF Across
<1> HIDE DEF f
<1> QED
  BY <1>1, <1>2, SumZero

(* What an ingestor holds in all. *)
LEMMA LoadChange ==
    ASSUME NEW h \in [Events -> Nat], NEW g \in [Events -> Nat], NEW e \in Events,
           \A x \in Events \ {e} : g[x] = h[x]
    PROVE  SumFunction(g) = SumFunction(h) - h[e] + g[e]
BY ClusterAssumption, SumChange

LEMMA LoadType ==
    ASSUME NEW h \in [Events -> Nat]
    PROVE  /\ SumFunction(h) \in Nat
           /\ \A e \in Events : h[e] <= SumFunction(h)
BY ClusterAssumption, SumType

LEMMA NoLoad ==
    ASSUME NEW h, h = [e \in Events |-> 0]
    PROVE  SumFunction(h) = 0
<1>1. h \in [Events -> Nat] /\ IsFiniteSet(Events) /\ \A e \in Events : h[e] = 0
  BY ClusterAssumption
<1> QED
  BY <1>1, SumZero
-----------------------------------------------------------------------------
(* A call of Submit                                                        *)

Kept(e) ==
    \/ Copies(e) > 0
    \/ fate[e] \cap {"crashed", "unwritten"} # {}
    \/ e \in Keyed /\ "dropped" \in fate[e]

LEMMA SubmitTyped ==
    ASSUME Typed, NEW p \in Ingestors, NEW e \in Events, NEW status, Submit(p, e, status)
    PROVE  /\ memory' \in [Ingestors -> SUBSET Keyed]
           /\ held' \in Counts
           /\ fate' \in [Events -> SUBSET {"dropped", "unwritten", "crashed"}]
<1>1. CASE Duplicate(p, e)
  BY <1>1 DEF Duplicate, Typed, Counts
<1>2. CASE Queue(p, e)
  BY <1>2 DEF Queue, Remembered, Typed, Counts
<1>3. CASE Drop(p, e)
  BY <1>3 DEF Drop, Remembered, Typed, Counts
<1> QED
  BY <1>1, <1>2, <1>3 DEF Submit

(* It adds at most one copy, of the event it is called with. *)
LEMMA SubmitAdds ==
    ASSUME Typed, NEW p \in Ingestors, NEW e \in Events, NEW status, Submit(p, e, status)
    PROVE  \/ UNCHANGED held
           \/ /\ OneChange(held, held', p, e)
              /\ held'[p][e] = held[p][e] + 1
              /\ Load(p) < Capacity
<1>1. held' \in Counts
  BY SubmitTyped
<1> QED
  BY <1>1 DEF Submit, Duplicate, Queue, Drop, Typed, Counts, OneChange

LEMMA SubmitCounts ==
    ASSUME Typed, NEW p \in Ingestors, NEW e \in Events, NEW status, Submit(p, e, status)
    PROVE  \A x \in Events :
              /\ Across(held, x) \in Nat /\ Across(held', x) \in Nat
              /\ Across(held', x) >= Across(held, x)
              /\ Across(held', x) <= Across(held, x) + (IF x = e THEN 1 ELSE 0)
<1>1. held \in Counts /\ held' \in Counts
  BY SubmitTyped DEF Typed, Counts
<1>2. \A x \in Events : Across(held, x) \in Nat /\ Across(held', x) \in Nat
  BY <1>1, AcrossType
<1>3. CASE UNCHANGED held
  BY <1>2, <1>3
<1>4. CASE OneChange(held, held', p, e) /\ held'[p][e] = held[p][e] + 1
  <2>1. /\ Across(held', e) = Across(held, e) - held[p][e] + held'[p][e]
        /\ \A x \in Events \ {e} : Across(held', x) = Across(held, x)
    BY <1>4, OneCount
  <2>2. held[p][e] \in Nat
    BY <1>1 DEF Counts
  <2> QED
    BY <1>2, <1>4, <2>1, <2>2
<1> QED
  BY <1>3, <1>4, SubmitAdds

(* It forgets nothing, and remembers only the event it is called with, if  *)
(* it has a key and there is a copy of it or it has been dropped.          *)
LEMMA SubmitRemembers ==
    ASSUME Typed, NEW p \in Ingestors, NEW e \in Events, NEW status, Submit(p, e, status)
    PROVE  /\ \A x \in Events : fate[x] \subseteq fate'[x]
           /\ \A q \in Ingestors, x \in Events :
                 x \in memory'[q] =>
                    \/ x \in memory[q]
                    \/ x = e /\ x \in Keyed /\ (Across(held', x) > 0 \/ "dropped" \in fate'[x])
           /\ status = "202" => e \in memory[p] \/ Across(held', e) > 0
<1>1. held \in Counts /\ held' \in Counts
  BY SubmitTyped DEF Typed, Counts
<1>2. ASSUME Queue(p, e)
      PROVE  Across(held', e) > 0
  <2>1. held'[p][e] > 0
    BY <1>1, <1>2 DEF Queue, Counts
  <2>2. held'[p][e] <= Across(held', e) /\ Across(held', e) \in Nat /\ held'[p][e] \in Nat
    BY <1>1, AcrossType DEF Counts
  <2> QED
    BY <2>1, <2>2
<1>3. \A x \in Events : fate[x] \subseteq fate'[x]
  BY DEF Submit, Duplicate, Queue, Drop, Typed
<1>4. ASSUME NEW q \in Ingestors, NEW x \in Events, x \in memory'[q]
      PROVE  \/ x \in memory[q]
             \/ x = e /\ x \in Keyed /\ (Across(held', x) > 0 \/ "dropped" \in fate'[x])
  <2>1. CASE Duplicate(p, e)
    BY <1>4, <2>1 DEF Duplicate
  <2>2. CASE Queue(p, e)
    BY <1>2, <1>4, <2>2 DEF Queue, Remembered, Typed
  <2>3. CASE Drop(p, e)
    BY <1>4, <2>3 DEF Drop, Remembered, Typed
  <2> QED
    BY <2>1, <2>2, <2>3 DEF Submit
<1>5. status = "202" => e \in memory[p] \/ Across(held', e) > 0
  BY <1>2 DEF Submit, Duplicate
<1> QED
  BY <1>3, <1>4, <1>5

-----------------------------------------------------------------------------
(* Types                                                                   *)

LEMMA TypedStep ==
    ASSUME Typed, [Next]_vars
    PROVE  Typed'
<1>1. ASSUME NEW p \in Procs, Starting(p) \/ StartFails(p)
      PROVE  Typed'
  <2>1. StartTypeOK'
    BY <1>1, StartTyped DEF Starting, StartFails, Typed
  <2> QED
    BY <1>1, <2>1 DEF Starting, StartFails, Typed, clientVars, serverVars
<1>2. ASSUME NEW e \in Events, NEW p \in Ingestors, Post(e, p)
      PROVE  Typed'
  BY <1>2, ClusterAssumption DEF Post, Typed, StartTypeOK, startVars, serverVars
<1>3. ASSUME NEW e \in Events, Handle(e)
      PROVE  Typed'
  <2>1. request[e] \in Ingestors
    BY <1>3 DEF Handle, Typed
  <2>2. PICK status : /\ Submit(request[e], e, status)
                      /\ Hears(e, IF status = "202" THEN "accepted" ELSE "ready")
    BY <1>3 DEF Handle
  <2>3. /\ memory' \in [Ingestors -> SUBSET Keyed]
        /\ held' \in Counts
        /\ fate' \in [Events -> SUBSET {"dropped", "unwritten", "crashed"}]
    BY <2>1, <2>2, SubmitTyped
  <2> QED
    BY <1>3, <2>2, <2>3 DEF Handle, Hears, Typed, Counts, StartTypeOK, startVars
<1>4. ASSUME NEW e \in Events, HandleUnanswered(e)
      PROVE  Typed'
  <2>1. request[e] \in Ingestors
    BY <1>4 DEF HandleUnanswered, Typed
  <2>2. PICK status : Submit(request[e], e, status)
    BY <1>4 DEF HandleUnanswered
  <2>3. /\ memory' \in [Ingestors -> SUBSET Keyed]
        /\ held' \in Counts
        /\ fate' \in [Events -> SUBSET {"dropped", "unwritten", "crashed"}]
    BY <2>1, <2>2, SubmitTyped
  <2>4. StartTypeOK'
    <3>1. faults' \in 0 .. MaxFaults
      BY <1>4, StartupAssumption DEF HandleUnanswered, Typed, StartTypeOK, Fault
    <3> QED
      BY <1>4, <3>1 DEF HandleUnanswered, Typed, StartTypeOK
  <2>5. /\ client' \in [Events -> {"ready", "waiting", "accepted"}]
        /\ request' \in [Events -> Ingestors \cup {NoProc}]
        /\ \A x \in Events : client'[x] = "waiting" <=> request'[x] # NoProc
        /\ silences' \in [Events -> Nat]
    BY <1>4 DEF HandleUnanswered, Silence, Hears, Typed
  <2>6. UNCHANGED <<abandoned, stored>>
    BY <1>4 DEF HandleUnanswered
  <2> QED
    BY <2>3, <2>4, <2>5, <2>6 DEF Typed, Counts
<1>5. ASSUME NEW e \in Events, GiveUp(e)
      PROVE  Typed'
  <2>1. request[e] \in Ingestors
    BY <1>5 DEF GiveUp, Typed
  <2>2. StartTypeOK'
    BY <1>5, StartupAssumption DEF GiveUp, Typed, StartTypeOK, Fault
  <2>3. abandoned' \in [Ingestors -> [Events -> Nat]]
    BY <1>5, <2>1 DEF GiveUp, Typed
  <2> QED
    BY <1>5, <2>2, <2>3 DEF GiveUp, Silence, Hears, Typed
<1>6. ASSUME NEW p \in Ingestors, NEW e \in Events, HandleAbandoned(p, e)
      PROVE  Typed'
  <2>1. PICK status : Submit(p, e, status)
    BY <1>6 DEF HandleAbandoned
  <2>2. /\ memory' \in [Ingestors -> SUBSET Keyed]
        /\ held' \in Counts
        /\ fate' \in [Events -> SUBSET {"dropped", "unwritten", "crashed"}]
    BY <2>1, SubmitTyped
  <2>3. abandoned' \in [Ingestors -> [Events -> Nat]]
    BY <1>6 DEF HandleAbandoned, Typed
  <2>4. UNCHANGED <<startVars, clientVars, stored>>
    BY <1>6 DEF HandleAbandoned
  <2> QED
    BY <2>2, <2>3, <2>4 DEF Typed, Counts, StartTypeOK, startVars, clientVars
<1>7. ASSUME NEW p \in Ingestors, NEW e \in Events, Flush(p, e)
      PROVE  Typed'
  <2>1. kind' \in [AllCollections -> Kinds]
    BY <1>7 DEF Flush, Typed, StartTypeOK, Kinds
  <2>2. held' \in [Ingestors -> [Events -> Nat]]
    BY <1>7 DEF Flush, Typed, Left
  <2> QED
    BY <1>7, <2>1, <2>2 DEF Flush, Typed, StartTypeOK, clientVars
<1>8. ASSUME NEW p \in Ingestors, NEW e \in Events, Expire(p, e)
      PROVE  Typed'
  <2>1. StartTypeOK'
    BY <1>8, StartupAssumption DEF Expire, Typed, StartTypeOK, Fault
  <2> QED
    BY <1>8, <2>1 DEF Expire, Typed, clientVars
<1>9. ASSUME NEW p \in Ingestors, Crash(p)
      PROVE  Typed'
  <2>1. StartTypeOK'
    BY <1>9, StartTyped, ClusterAssumption DEF Crash, Typed
  <2>2. /\ client' \in [Events -> {"ready", "waiting", "accepted"}]
        /\ request' \in [Events -> Ingestors \cup {NoProc}]
        /\ \A e \in Events : client'[e] = "waiting" <=> request'[e] # NoProc
    BY <1>9, ClusterAssumption DEF Crash, Typed
  <2>3. /\ abandoned' \in [Ingestors -> [Events -> Nat]]
        /\ held' \in [Ingestors -> [Events -> Nat]]
        /\ memory' \in [Ingestors -> SUBSET Keyed]
    BY <1>9 DEF Crash, Typed
  <2>4. /\ silences' \in [Events -> Nat]
        /\ fate' \in [Events -> SUBSET {"dropped", "unwritten", "crashed"}]
        /\ stored' \in [Events -> Nat]
    BY <1>9 DEF Crash, Typed
  <2> QED
    BY <2>1, <2>2, <2>3, <2>4 DEF Typed
<1>10. CASE UNCHANGED vars
  BY <1>10 DEF vars, startVars, clientVars, serverVars, Typed, StartTypeOK
<1> QED
  BY <1>1, <1>2, <1>3, <1>4, <1>5, <1>6, <1>7, <1>8, <1>9, <1>10 DEF Next, Client
-----------------------------------------------------------------------------
(* Counting                                                                *)

Room == \A p \in Ingestors : Load(p) <= Capacity

(* A client whose event was accepted has spent its one copy. *)
Credit(e) == silences[e] + (IF client[e] = "accepted" THEN 1 ELSE 0)

(* A request that was given up may still make a copy, and so counts as one. *)
Counted ==
    \A e \in Events :
        /\ silences[e] <= faults
        /\ \A p \in Ingestors : abandoned[p][e] <= silences[e]
        /\ Copies(e) + Across(abandoned, e) <= Credit(e)

LEMMA RoomStep ==
    ASSUME Typed, Room, [Next]_vars
    PROVE  Room'
<1> USE DEF Load
<1>1. ASSUME UNCHANGED held
      PROVE  Room'
  BY <1>1 DEF Room
<1>2. ASSUME NEW p \in Ingestors, NEW e \in Events, NEW status, Submit(p, e, status)
      PROVE  Room'
  <2>1. CASE UNCHANGED held
    BY <1>1, <2>1
  <2>2. CASE OneChange(held, held', p, e) /\ held'[p][e] = held[p][e] + 1 /\ Load(p) < Capacity
    <3>1. /\ held \in Counts /\ held' \in Counts
          /\ \A q \in Ingestors \ {p} : held'[q] = held[q]
          /\ \A x \in Events \ {e} : held'[p][x] = held[p][x]
      BY <2>2 DEF OneChange, Counts
    <3>2. held[p] \in [Events -> Nat] /\ held'[p] \in [Events -> Nat]
      BY <3>1 DEF Counts
    <3>3. SumFunction(held'[p]) = SumFunction(held[p]) - held[p][e] + held'[p][e]
      BY <3>1, <3>2, LoadChange
    <3>4. SumFunction(held[p]) \in Nat /\ held[p][e] \in Nat
      BY <3>2, LoadType
    <3>5. SumFunction(held'[p]) <= Capacity
      BY <2>2, <3>3, <3>4, ClusterAssumption
    <3> QED
      BY <3>1, <3>5 DEF Room
  <2> QED
    BY <1>2, <2>1, <2>2, SubmitAdds
<1>3. ASSUME NEW p \in Ingestors, NEW e \in Events, Flush(p, e)
      PROVE  Room'
  <2>1. /\ held' \in Counts
        /\ held'[p][e] = held[p][e] - 1
        /\ \A q \in Ingestors \ {p} : held'[q] = held[q]
        /\ \A x \in Events \ {e} : held'[p][x] = held[p][x]
    BY <1>3 DEF Flush, Left, Typed, Counts
  <2>2. held[p] \in [Events -> Nat] /\ held'[p] \in [Events -> Nat]
    BY <2>1 DEF Counts, Typed
  <2>3. SumFunction(held'[p]) = SumFunction(held[p]) - held[p][e] + held'[p][e]
    BY <2>1, <2>2, LoadChange
  <2>4. SumFunction(held[p]) \in Nat /\ held[p][e] \in Nat
    BY <2>2, LoadType
  <2>5. SumFunction(held'[p]) <= Capacity
    BY <2>1, <2>3, <2>4, ClusterAssumption DEF Room
  <2> QED
    BY <2>1, <2>5 DEF Room
<1>4. ASSUME NEW p \in Ingestors, Crash(p)
      PROVE  Room'
  <2>1. held'[p] = [e \in Events |-> 0] /\ \A q \in Ingestors \ {p} : held'[q] = held[q]
    BY <1>4 DEF Crash, Typed
  <2>2. SumFunction(held'[p]) = 0
    BY <2>1, NoLoad
  <2> QED
    BY <2>1, <2>2, ClusterAssumption DEF Room
<1>5. ASSUME NEW e \in Events, Handle(e) \/ HandleUnanswered(e)
      PROVE  Room'
  <2>1. request[e] \in Ingestors
    BY <1>5 DEF Handle, HandleUnanswered, Typed
  <2>2. \E status : Submit(request[e], e, status)
    BY <1>5 DEF Handle, HandleUnanswered
  <2> QED
    BY <1>2, <2>1, <2>2
<1>6. ASSUME NEW p \in Ingestors, NEW e \in Events, HandleAbandoned(p, e)
      PROVE  Room'
  BY <1>2, <1>6 DEF HandleAbandoned
<1>7. ASSUME \/ \E p \in Procs : Starting(p) \/ StartFails(p)
             \/ \E e \in Events : Client(e) \/ GiveUp(e)
             \/ \E p \in Ingestors, e \in Events : Expire(p, e)
             \/ UNCHANGED vars
      PROVE  UNCHANGED held
  BY <1>7 DEF Starting, StartFails, Client, Post, GiveUp, Expire, vars, serverVars
<1> QED
  BY <1>1, <1>3, <1>4, <1>5, <1>6, <1>7 DEF Next

(* No step takes back a fault. *)
LEMMA FaultsGrow ==
    ASSUME Typed, [Next]_vars
    PROVE  faults \in Nat /\ (faults' = faults \/ faults' = faults + 1)
<1>1. ASSUME NEW p \in Procs, Starting(p) \/ StartFails(p)
      PROVE  faults' = faults \/ faults' = faults + 1
  BY <1>1 DEF Starting, StartFails, StartStep, Connect, List, Create, Restart, CreateUnanswered,
              Die, Fault, Listen
<1>2. ASSUME NEW e \in Events, Client(e) \/ Handle(e) \/ HandleUnanswered(e) \/ GiveUp(e)
      PROVE  faults' = faults \/ faults' = faults + 1
  BY <1>2 DEF Client, Post, Handle, HandleUnanswered, GiveUp, Fault, startVars
<1>3. ASSUME NEW p \in Ingestors, NEW e \in Events,
             HandleAbandoned(p, e) \/ Flush(p, e) \/ Expire(p, e)
      PROVE  faults' = faults \/ faults' = faults + 1
  BY <1>3 DEF HandleAbandoned, Flush, Expire, Fault, startVars
<1>4. ASSUME NEW p \in Ingestors, Crash(p)
      PROVE  faults' = faults \/ faults' = faults + 1
  BY <1>4 DEF Crash, Die, Fault
<1>5. ASSUME UNCHANGED vars
      PROVE  faults' = faults \/ faults' = faults + 1
  BY <1>5 DEF vars, startVars
<1>6. faults \in Nat
  BY StartupAssumption DEF Typed, StartTypeOK
<1> QED
  BY <1>1, <1>2, <1>3, <1>4, <1>5, <1>6 DEF Next
LEMMA CountedStep ==
    ASSUME Typed, Counted, [Next]_vars
    PROVE  Counted'
<1>1. /\ Typed'
      /\ held \in Counts /\ held' \in Counts
      /\ abandoned \in Counts /\ abandoned' \in Counts
  BY TypedStep DEF Typed, Counts
<1>2. faults \in Nat /\ faults' \in Nat /\ faults' >= faults
  BY FaultsGrow
<1>3. \A x \in Events :
         /\ Across(held, x) \in Nat /\ Across(held', x) \in Nat
         /\ Across(abandoned, x) \in Nat /\ Across(abandoned', x) \in Nat
         /\ stored[x] \in Nat /\ stored'[x] \in Nat
         /\ silences[x] \in Nat /\ silences'[x] \in Nat
         /\ \A p \in Ingestors : abandoned[p][x] \in Nat /\ abandoned'[p][x] \in Nat
  <2>1. \A x \in Events :
           /\ Across(held, x) \in Nat /\ Across(held', x) \in Nat
           /\ Across(abandoned, x) \in Nat /\ Across(abandoned', x) \in Nat
    BY <1>1, AcrossType
  <2> QED
    BY <1>1, <2>1 DEF Typed, Counts
<1>4. \A x \in Events :
         /\ silences[x] <= faults
         /\ \A p \in Ingestors : abandoned[p][x] <= silences[x]
         /\ stored[x] + Across(held, x) + Across(abandoned, x)
               <= silences[x] + (IF client[x] = "accepted" THEN 1 ELSE 0)
  BY DEF Counted, Copies, Credit
<1> SUFFICES ASSUME NEW x \in Events
             PROVE  /\ silences'[x] <= faults'
                    /\ \A p \in Ingestors : abandoned'[p][x] <= silences'[x]
                    /\ stored'[x] + Across(held', x) + Across(abandoned', x)
                          <= silences'[x] + (IF client'[x] = "accepted" THEN 1 ELSE 0)
  BY DEF Counted, Copies, Credit
<1>5. CASE /\ UNCHANGED <<held, abandoned, stored, silences>>
           /\ client[x] = "accepted" => client'[x] = "accepted"
  <2>1. Across(held', x) = Across(held, x) /\ Across(abandoned', x) = Across(abandoned, x)
    BY <1>5
  <2> QED
    BY <1>2, <1>3, <1>4, <1>5, <2>1
<1>6. ASSUME NEW e \in Events, Handle(e)
      PROVE  /\ UNCHANGED <<stored, abandoned, silences>>
             /\ Across(held', x) + (IF client[x] = "accepted" THEN 1 ELSE 0)
                   <= Across(held, x) + (IF client'[x] = "accepted" THEN 1 ELSE 0)
  <2>1. request[e] \in Ingestors /\ client[e] = "waiting"
    BY <1>6 DEF Handle, Typed
  <2>2. PICK status : /\ Submit(request[e], e, status)
                      /\ Hears(e, IF status = "202" THEN "accepted" ELSE "ready")
    BY <1>6 DEF Handle
  <2>3. Across(held', x) <= Across(held, x) + (IF x = e THEN 1 ELSE 0)
    BY <2>1, <2>2, SubmitCounts
  <2>4. x # e => client'[x] = client[x]
    BY <2>2 DEF Hears, Typed
  <2>5. status = "202" => client'[e] = "accepted"
    BY <2>2 DEF Hears, Typed
  <2>6. status # "202" => UNCHANGED held
    BY <2>2 DEF Submit, Drop
  <2>7. UNCHANGED <<stored, abandoned, silences>>
    BY <1>6 DEF Handle
  <2> QED
    BY <1>3, <2>1, <2>3, <2>4, <2>5, <2>6, <2>7
<1>7. ASSUME NEW e \in Events, HandleUnanswered(e)
      PROVE  /\ UNCHANGED <<stored, abandoned>>
             /\ faults' = faults + 1
             /\ silences'[x] = silences[x] + (IF x = e THEN 1 ELSE 0)
             /\ Across(held', x) <= Across(held, x) + (IF x = e THEN 1 ELSE 0)
             /\ client[x] = "accepted" => client'[x] = "accepted"
  <2>1. request[e] \in Ingestors /\ client[e] = "waiting"
    BY <1>7 DEF HandleUnanswered, Typed
  <2>2. \E status : Submit(request[e], e, status)
    BY <1>7 DEF HandleUnanswered
  <2>3. Across(held', x) <= Across(held, x) + (IF x = e THEN 1 ELSE 0)
    BY <2>1, <2>2, SubmitCounts
  <2>4. /\ silences'[x] = silences[x] + (IF x = e THEN 1 ELSE 0)
        /\ client[x] = "accepted" => client'[x] = "accepted"
    BY <1>7, <2>1 DEF HandleUnanswered, Silence, Hears, Typed
  <2>5. UNCHANGED <<stored, abandoned>> /\ faults' = faults + 1
    BY <1>7 DEF HandleUnanswered, Fault
  <2> QED
    BY <2>3, <2>4, <2>5
<1>8. ASSUME NEW e \in Events, GiveUp(e)
      PROVE  /\ UNCHANGED <<stored, held>>
             /\ faults' = faults + 1
             /\ silences'[x] = silences[x] + (IF x = e THEN 1 ELSE 0)
             /\ Across(abandoned', x) = Across(abandoned, x) + (IF x = e THEN 1 ELSE 0)
             /\ \A p \in Ingestors : abandoned'[p][x] <= abandoned[p][x] + (IF x = e THEN 1 ELSE 0)
             /\ client[x] = "accepted" => client'[x] = "accepted"
  <2>1. request[e] \in Ingestors /\ client[e] = "waiting"
    BY <1>8 DEF GiveUp, Typed
  <2> DEFINE p == request[e]
  <2>2. /\ OneChange(abandoned, abandoned', p, e)
        /\ abandoned'[p][e] = abandoned[p][e] + 1
    BY <1>1, <1>8, <2>1 DEF GiveUp, OneChange, Counts
  <2>3. /\ silences'[x] = silences[x] + (IF x = e THEN 1 ELSE 0)
        /\ client[x] = "accepted" => client'[x] = "accepted"
    BY <1>8, <2>1 DEF GiveUp, Silence, Hears, Typed
  <2>4. UNCHANGED <<stored, held>> /\ faults' = faults + 1
    BY <1>8 DEF GiveUp, Fault
  <2> HIDE DEF p
  <2>5. Across(abandoned', x) = Across(abandoned, x) + (IF x = e THEN 1 ELSE 0)
    <3>1. /\ Across(abandoned', e) = Across(abandoned, e) - abandoned[p][e] + abandoned'[p][e]
          /\ \A y \in Events \ {e} : Across(abandoned', y) = Across(abandoned, y)
      BY <2>2, OneCount
    <3>2. p \in Ingestors
      BY <2>2 DEF OneChange
    <3> QED
      BY <1>3, <2>2, <3>1, <3>2
  <2>6. \A q \in Ingestors : abandoned'[q][x] <= abandoned[q][x] + (IF x = e THEN 1 ELSE 0)
    BY <1>3, <2>2 DEF OneChange
  <2> QED
    BY <2>3, <2>4, <2>5, <2>6
<1>9. ASSUME NEW p \in Ingestors, NEW e \in Events, HandleAbandoned(p, e)
      PROVE  /\ UNCHANGED <<stored, silences, client>>
             /\ Across(held', x) <= Across(held, x) + (IF x = e THEN 1 ELSE 0)
             /\ Across(abandoned', x) = Across(abandoned, x) - (IF x = e THEN 1 ELSE 0)
             /\ \A q \in Ingestors : abandoned'[q][x] <= abandoned[q][x]
  <2>1. \E status : Submit(p, e, status)
    BY <1>9 DEF HandleAbandoned
  <2>2. Across(held', x) <= Across(held, x) + (IF x = e THEN 1 ELSE 0)
    BY <2>1, SubmitCounts
  <2>3. /\ OneChange(abandoned, abandoned', p, e)
        /\ abandoned'[p][e] = abandoned[p][e] - 1
    BY <1>1, <1>9 DEF HandleAbandoned, OneChange, Counts
  <2>4. UNCHANGED <<stored, silences, client>>
    BY <1>9 DEF HandleAbandoned, clientVars
  <2>5. Across(abandoned', x) = Across(abandoned, x) - (IF x = e THEN 1 ELSE 0)
    <3>1. /\ Across(abandoned', e) = Across(abandoned, e) - abandoned[p][e] + abandoned'[p][e]
          /\ \A y \in Events \ {e} : Across(abandoned', y) = Across(abandoned, y)
      BY <2>3, OneCount
    <3> QED
      BY <1>3, <2>3, <3>1
  <2>6. \A q \in Ingestors : abandoned'[q][x] <= abandoned[q][x]
    BY <1>3, <2>3 DEF OneChange
  <2> QED
    BY <2>2, <2>4, <2>5, <2>6
<1>10. ASSUME NEW p \in Ingestors, NEW e \in Events, Flush(p, e)
       PROVE  /\ UNCHANGED <<abandoned, silences, client>>
              /\ stored'[x] + Across(held', x) <= stored[x] + Across(held, x)
  <2>1. /\ OneChange(held, held', p, e)
        /\ held'[p][e] = held[p][e] - 1
    BY <1>1, <1>10 DEF Flush, Left, OneChange, Counts
  <2>2. /\ Across(held', e) = Across(held, e) - held[p][e] + held'[p][e]
        /\ \A y \in Events \ {e} : Across(held', y) = Across(held, y)
    BY <2>1, OneCount
  <2>3. held[p][e] \in Nat
    BY <1>1 DEF Counts
  <2>4. stored'[x] <= stored[x] + (IF x = e THEN 1 ELSE 0)
    BY <1>3, <1>10 DEF Flush, Typed
  <2>5. UNCHANGED <<abandoned, silences, client>>
    BY <1>10 DEF Flush, clientVars
  <2> QED
    BY <1>3, <2>1, <2>2, <2>3, <2>4, <2>5
<1>11. ASSUME NEW p \in Ingestors, Crash(p)
       PROVE  /\ UNCHANGED stored
              /\ faults' = faults + 1
              /\ silences'[x] = silences[x] \/ silences'[x] = silences[x] + 1
              /\ Across(held', x) <= Across(held, x)
              /\ Across(abandoned', x) <= Across(abandoned, x)
              /\ \A q \in Ingestors : abandoned'[q][x] <= abandoned[q][x]
              /\ client[x] = "accepted" => client'[x] = "accepted"
  <2>1. Cleared(held, held', p)
    BY <1>1, <1>11 DEF Crash, Cleared, Counts
  <2>2. Cleared(abandoned, abandoned', p)
    BY <1>1, <1>11 DEF Crash, Cleared, Counts
  <2>3. /\ silences'[x] = silences[x] \/ silences'[x] = silences[x] + 1
        /\ client[x] = "accepted" => client'[x] = "accepted"
    BY <1>3, <1>11, ClusterAssumption DEF Crash, Typed
  <2>4. UNCHANGED stored /\ faults' = faults + 1
    BY <1>11 DEF Crash, Die, Fault
  <2>5. /\ Across(held', x) = Across(held, x) - held[p][x]
        /\ Across(abandoned', x) = Across(abandoned, x) - abandoned[p][x]
    BY <2>1, <2>2, ClearedCounts
  <2>6. held[p][x] \in Nat /\ abandoned[p][x] \in Nat
    BY <1>1 DEF Counts
  <2>7. \A q \in Ingestors : abandoned'[q][x] <= abandoned[q][x]
    BY <1>3, <2>2 DEF Cleared
  <2> QED
    BY <1>3, <2>3, <2>4, <2>5, <2>6, <2>7
<1>12. CASE \E e \in Events : Handle(e)
  BY <1>2, <1>3, <1>4, <1>6, <1>12
<1>13. CASE \E e \in Events : HandleUnanswered(e)
  BY <1>2, <1>3, <1>4, <1>7, <1>13
<1>14. CASE \E e \in Events : GiveUp(e)
  BY <1>2, <1>3, <1>4, <1>8, <1>14
<1>15. CASE \E p \in Ingestors, e \in Events : HandleAbandoned(p, e)
  BY <1>2, <1>3, <1>4, <1>9, <1>15
<1>16. CASE \E p \in Ingestors, e \in Events : Flush(p, e)
  BY <1>2, <1>3, <1>4, <1>10, <1>16
<1>17. CASE \E p \in Ingestors : Crash(p)
  BY <1>2, <1>3, <1>4, <1>11, <1>17
<1>18. ASSUME \/ \E p \in Procs : Starting(p) \/ StartFails(p)
              \/ \E e \in Events : Client(e)
              \/ \E p \in Ingestors, e \in Events : Expire(p, e)
              \/ UNCHANGED vars
       PROVE  /\ UNCHANGED <<held, abandoned, stored, silences>>
              /\ client[x] = "accepted" => client'[x] = "accepted"
  BY <1>18 DEF Starting, StartFails, Client, Post, Expire, vars, clientVars, serverVars, Typed
<1> QED
  BY <1>5, <1>12, <1>13, <1>14, <1>15, <1>16, <1>17, <1>18 DEF Next
-----------------------------------------------------------------------------
(* What a client or a duplicate filter relies on                           *)

Trusted ==
    \A e \in Events :
        client[e] = "accepted" \/ (\E p \in Ingestors : e \in memory[p]) => Kept(e)

(* Copies' and Kept', without priming definitions. *)
KeptNext(e) ==
    \/ stored'[e] + Across(held', e) > 0
    \/ fate'[e] \cap {"crashed", "unwritten"} # {}
    \/ e \in Keyed /\ "dropped" \in fate'[e]

LEMMA CopiesType ==
    ASSUME Typed, NEW e \in Events
    PROVE  /\ stored[e] \in Nat /\ Across(held, e) \in Nat
           /\ Copies(e) = stored[e] + Across(held, e)
           /\ \A p \in Ingestors : held[p][e] \in Nat /\ held[p][e] <= Across(held, e)
<1>1. held \in Counts
  BY DEF Typed, Counts
<1>2. Across(held, e) \in Nat /\ \A p \in Ingestors : held[p][e] <= Across(held, e)
  BY <1>1, AcrossType
<1>3. stored[e] \in Nat /\ \A p \in Ingestors : held[p][e] \in Nat
  BY DEF Typed
<1> QED
  BY <1>2, <1>3 DEF Copies

(* What was called with a copy or an explanation keeps one of the two. *)
LEMMA SubmitKeeps ==
    ASSUME Typed, NEW p \in Ingestors, NEW e \in Events, NEW status, Submit(p, e, status),
           UNCHANGED stored
    PROVE  \A x \in Events :
              /\ Kept(x) => KeptNext(x)
              /\ Across(held', x) > 0 => KeptNext(x)
<1> SUFFICES ASSUME NEW x \in Events
             PROVE  /\ Kept(x) => KeptNext(x)
                    /\ Across(held', x) > 0 => KeptNext(x)
  OBVIOUS
<1>1. /\ Across(held, x) \in Nat /\ Across(held', x) \in Nat
      /\ Across(held', x) >= Across(held, x)
  BY SubmitCounts
<1>2. fate[x] \subseteq fate'[x]
  BY SubmitRemembers
<1>3. stored[x] \in Nat /\ Copies(x) = stored[x] + Across(held, x)
  BY CopiesType
<1>4. Across(held', x) > 0 => KeptNext(x)
  BY <1>1, <1>3 DEF KeptNext
<1>5. Copies(x) > 0 => KeptNext(x)
  BY <1>1, <1>3 DEF KeptNext
<1> QED
  BY <1>2, <1>4, <1>5 DEF KeptNext, Kept

LEMMA TrustedStep ==
    ASSUME Typed, Trusted, [Next]_vars
    PROVE  Trusted'
<1>1. Typed'
  BY TypedStep
<1>2. \A x \in Events : Kept(x)' <=> KeptNext(x)
  BY DEF Kept, KeptNext, Copies
<1> SUFFICES ASSUME NEW x \in Events,
                    client'[x] = "accepted" \/ (\E p \in Ingestors : x \in memory'[p])
             PROVE  KeptNext(x)
  BY <1>2 DEF Trusted
<1>3. client[x] = "accepted" \/ (\E p \in Ingestors : x \in memory[p]) => Kept(x)
  BY DEF Trusted
<1>4. ASSUME UNCHANGED <<held, stored, fate>>, Kept(x)
      PROVE  KeptNext(x)
  BY <1>4 DEF Kept, KeptNext, Copies
<1>5. ASSUME NEW p \in Ingestors, NEW e \in Events, NEW status, Submit(p, e, status),
             UNCHANGED stored, client'[x] = "accepted" => client[x] = "accepted"
      PROVE  KeptNext(x)
  <2>1. CASE client[x] = "accepted" \/ (\E q \in Ingestors : x \in memory[q])
    BY <1>3, <1>5, <2>1, SubmitKeeps
  <2>2. CASE ~ (client[x] = "accepted" \/ (\E q \in Ingestors : x \in memory[q]))
    <3>1. PICK q \in Ingestors : x \in memory'[q] /\ x \notin memory[q]
      BY <1>5, <2>2
    <3>2. x \in Keyed /\ (Across(held', x) > 0 \/ "dropped" \in fate'[x])
      BY <1>5, <3>1, SubmitRemembers
    <3>3. Across(held', x) > 0 => KeptNext(x)
      BY <1>5, SubmitKeeps
    <3> QED
      BY <3>2, <3>3 DEF KeptNext
  <2> QED
    BY <2>1, <2>2
<1>6. ASSUME NEW e \in Events, Handle(e)
      PROVE  KeptNext(x)
  <2>1. request[e] \in Ingestors
    BY <1>6 DEF Handle, Typed
  <2>2. PICK status : /\ Submit(request[e], e, status)
                      /\ Hears(e, IF status = "202" THEN "accepted" ELSE "ready")
    BY <1>6 DEF Handle
  <2>3. UNCHANGED stored
    BY <1>6 DEF Handle
  <2>4. CASE client'[x] = "accepted" => client[x] = "accepted"
    BY <1>5, <2>1, <2>2, <2>3, <2>4
  <2>5. CASE client'[x] = "accepted" /\ client[x] # "accepted"
    <3>1. x = e /\ status = "202"
      BY <2>2, <2>5 DEF Hears, Typed
    <3>2. x \in memory[request[e]] \/ Across(held', x) > 0
      BY <2>1, <2>2, <3>1, SubmitRemembers
    <3>3. (Kept(x) => KeptNext(x)) /\ (Across(held', x) > 0 => KeptNext(x))
      BY <2>1, <2>2, <2>3, SubmitKeeps
    <3> QED
      BY <1>3, <2>1, <3>2, <3>3
  <2> QED
    BY <2>4, <2>5
<1>7. ASSUME NEW e \in Events, HandleUnanswered(e)
      PROVE  KeptNext(x)
  <2>1. request[e] \in Ingestors
    BY <1>7 DEF HandleUnanswered, Typed
  <2>2. PICK status : Submit(request[e], e, status)
    BY <1>7 DEF HandleUnanswered
  <2>3. UNCHANGED stored /\ (client'[x] = "accepted" => client[x] = "accepted")
    BY <1>7 DEF HandleUnanswered, Silence, Hears, Typed
  <2> QED
    BY <1>5, <2>1, <2>2, <2>3
<1>8. ASSUME NEW p \in Ingestors, NEW e \in Events, HandleAbandoned(p, e)
      PROVE  KeptNext(x)
  <2>1. PICK status : Submit(p, e, status)
    BY <1>8 DEF HandleAbandoned
  <2>2. UNCHANGED stored /\ client'[x] = client[x]
    BY <1>8 DEF HandleAbandoned, clientVars
  <2> QED
    BY <1>5, <2>1, <2>2
<1>9. ASSUME NEW p \in Ingestors, NEW e \in Events, Flush(p, e)
      PROVE  KeptNext(x)
  <2>1. Kept(x)
    BY <1>3, <1>9 DEF Flush, clientVars
  <2>2. /\ stored[x] \in Nat /\ Across(held, x) \in Nat /\ Across(held', x) \in Nat
        /\ Copies(x) = stored[x] + Across(held, x)
    <3>1. held' \in Counts
      BY <1>1 DEF Typed, Counts
    <3> QED
      BY <3>1, CopiesType, AcrossType
  <2>3. CASE x = e /\ stored' = [stored EXCEPT ![e] = @ + 1]
    <3>1. stored'[x] = stored[x] + 1
      BY <2>3 DEF Typed
    <3> QED
      BY <2>2, <3>1 DEF KeptNext
  <2>4. CASE x = e /\ fate' = [fate EXCEPT ![e] = @ \cup {"unwritten"}]
    BY <2>4 DEF KeptNext, Typed
  <2>5. CASE x # e
    <3>1. OneChange(held, held', p, e)
      BY <1>1, <1>9 DEF Flush, OneChange, Typed, Counts
    <3>2. Across(held', x) = Across(held, x)
      BY <2>5, <3>1, OneCount
    <3>3. stored'[x] = stored[x] /\ fate'[x] = fate[x]
      BY <1>9, <2>5 DEF Flush, Typed
    <3> QED
      BY <2>1, <2>2, <3>2, <3>3 DEF Kept, KeptNext
  <2> QED
    BY <1>9, <2>3, <2>4, <2>5 DEF Flush
<1>10. ASSUME NEW p \in Ingestors, Crash(p)
       PROVE  KeptNext(x)
  <2>1. Kept(x)
    <3>1. client'[x] = "accepted" => client[x] = "accepted"
      BY <1>10 DEF Crash, Typed
    <3>2. \A q \in Ingestors : memory'[q] \subseteq memory[q]
      BY <1>10 DEF Crash, Typed
    <3> QED
      BY <1>3, <3>1, <3>2
  <2>2. stored'[x] = stored[x] /\ fate[x] \subseteq fate'[x]
    BY <1>10 DEF Crash
  <2>3. CASE held[p][x] > 0
    <3>1. "crashed" \in fate'[x]
      BY <1>10, <2>3 DEF Crash
    <3> QED
      BY <3>1 DEF KeptNext
  <2>4. CASE ~ (held[p][x] > 0)
    <3>1. Cleared(held, held', p)
      BY <1>1, <1>10 DEF Crash, Cleared, Typed, Counts
    <3>2. Across(held', x) = Across(held, x) - held[p][x]
      BY <3>1, ClearedCounts
    <3>3. held[p][x] = 0 /\ Across(held, x) \in Nat
      BY <2>4, CopiesType
    <3>4. Copies(x) = stored'[x] + Across(held', x)
      BY <2>2, <3>2, <3>3 DEF Copies
    <3> QED
      BY <2>1, <2>2, <3>4 DEF Kept, KeptNext
  <2> QED
    BY <2>3, <2>4
<1>11. ASSUME \/ \E p \in Procs : Starting(p) \/ StartFails(p)
              \/ \E e \in Events : Client(e) \/ GiveUp(e)
              \/ \E p \in Ingestors, e \in Events : Expire(p, e)
              \/ UNCHANGED vars
       PROVE  KeptNext(x)
  <2>1. /\ UNCHANGED <<held, stored, fate>>
        /\ client'[x] = "accepted" => client[x] = "accepted"
        /\ \A q \in Ingestors : memory'[q] \subseteq memory[q]
    <3>1. CASE \E p \in Procs : Starting(p) \/ StartFails(p)
      BY <3>1 DEF Starting, StartFails, clientVars, serverVars
    <3>2. CASE \E e \in Events : Client(e) \/ GiveUp(e)
      BY <3>2 DEF Client, Post, GiveUp, Silence, Hears, serverVars, Typed
    <3>3. CASE \E p \in Ingestors, e \in Events : Expire(p, e)
      BY <3>3 DEF Expire, clientVars, Typed
    <3>4. CASE UNCHANGED vars
      BY <3>4 DEF vars, clientVars, serverVars
    <3> QED
      BY <1>11, <3>1, <3>2, <3>3, <3>4
  <2> QED
    BY <1>3, <1>4, <2>1
<1> QED
  BY <1>6, <1>7, <1>8, <1>9, <1>10, <1>11 DEF Next
-----------------------------------------------------------------------------
(* The collection                                                          *)

(* A process that serves, or is about to, has found the collection or      *)
(* created it, so that no insert of its does.                              *)
ServingFound == \A p \in Procs : place[p] \in {"listen", "serving"} => Found(p)

LEMMA KindStep ==
    ASSUME Typed, ServingFound, ConfiguredKind, [Next]_vars
    PROVE  ServingFound' /\ ConfiguredKind'
<1> USE DEF ServingFound, ConfiguredKind, Serving, Found
<1>1. \A p \in Procs : Logs(p) \in AllCollections
  BY LogsListed DEF Typed
<1>2. /\ place \in [Procs -> {"start", "list", "create", "listen", "serving", "exited"}]
      /\ kind \in [AllCollections -> Kinds]
      /\ Ingestors \subseteq Procs
  BY ClusterAssumption DEF Typed, StartTypeOK
  (* Only deployment, place and kind matter. *)
<1>3. ASSUME UNCHANGED <<deployment, kind>>,
             \A p \in Procs : place'[p] \in {"listen", "serving"} =>
                 place[p] \in {"listen", "serving"} \/ Found(p)
      PROVE  ServingFound' /\ ConfiguredKind'
  BY <1>3 DEF Logs, Configured, cfg
<1>4. ASSUME NEW p \in Procs, place[p] = "create", ~ Found(p), UNCHANGED deployment,
             kind' = [kind EXCEPT ![Logs(p)] = Configured(p)],
             \A q \in Procs \ {p} : place'[q] = place[q]
      PROVE  ServingFound' /\ ConfiguredKind'
  <2>1. \A q \in Procs : Logs(q)' = Logs(q) /\ Configured(q)' = Configured(q)
    BY <1>4 DEF Logs, Configured, cfg
  <2>2. /\ kind'[Logs(p)] = Configured(p)
        /\ \A c \in AllCollections \ {Logs(p)} : kind'[c] = kind[c]
    BY <1>1, <1>2, <1>4
  <2>3. Configured(p) # "none"
    BY ConfiguredType
  <2>4. ServingFound'
    BY <1>1, <1>4, <2>1, <2>2, <2>3
  <2>5. ConfiguredKind'
    BY <1>1, <1>4, <2>1, <2>2
  <2> QED
    BY <2>4, <2>5
<1>5. ASSUME NEW p \in Procs, StartStep(p) \/ CreateUnanswered(p) \/ Die(p)
      PROVE  ServingFound' /\ ConfiguredKind'
  <2> USE DEF Goto, Lose
  <2>1. CASE Connect(p)
    BY <1>2, <1>3, <2>1 DEF Connect
  <2>2. CASE List(p)
    BY <1>2, <1>3, <2>2 DEF List, AfterList
  <2>3. CASE Create(p) /\ Found(p)
    BY <1>2, <1>3, <2>3 DEF Create
  <2>4. CASE Create(p) /\ ~ Found(p)
    BY <1>2, <1>4, <2>4 DEF Create
  <2>5. CASE Listen(p) \/ Restart(p)
    BY <1>2, <1>3, <2>5 DEF Listen, Restart
  <2>6. CASE CreateUnanswered(p)
    BY <1>2, <1>4, <2>6 DEF CreateUnanswered
  <2>7. CASE Die(p)
    BY <1>2, <1>3, <2>7 DEF Die
  <2> QED
    BY <1>5, <2>1, <2>2, <2>3, <2>4, <2>5, <2>6, <2>7 DEF StartStep
<1>6. ASSUME NEW p \in Ingestors, NEW e \in Events, Flush(p, e)
      PROVE  UNCHANGED <<deployment, place, kind>>
  BY <1>2, <1>6 DEF Flush
<1>7. ASSUME \/ \E e \in Events : Client(e) \/ Handle(e) \/ HandleUnanswered(e) \/ GiveUp(e)
             \/ \E p \in Ingestors, e \in Events : HandleAbandoned(p, e) \/ Expire(p, e)
             \/ UNCHANGED vars
      PROVE  UNCHANGED <<deployment, place, kind>>
  BY <1>7 DEF Client, Post, Handle, HandleUnanswered, GiveUp, HandleAbandoned, Expire, vars, startVars
<1>8. ASSUME UNCHANGED <<deployment, place, kind>>
      PROVE  ServingFound' /\ ConfiguredKind'
  BY <1>3, <1>8
<1> QED
  BY <1>2, <1>5, <1>6, <1>7, <1>8 DEF Next, Starting, StartFails, Crash
-----------------------------------------------------------------------------
(* The race for a collection                                               *)

(* A process loses a race once, and finds the collection when it is back.  *)
Beaten(p) ==
    losses[p] = 0
        \/ (losses[p] = 1 /\ ~cfg(p).time_series /\ Found(p) /\ place[p] # "create")

(* A collection that is there has a process that has not lost it, and does *)
(* not come to create it any more.                                         *)
Won(c) == \E q \in Procs : Logs(q) = c /\ losses[q] = 0 /\ place[q] # "create"

Raced ==
    /\ \A p \in Procs : Beaten(p)
    /\ \A p \in Procs : Found(p) => Won(Logs(p))

(* What a step can be to a process: it goes on, or it loses a race. *)
GoesOn(p) ==
    /\ losses'[p] = losses[p]
    /\ place'[p] = "create" => place[p] = "create" \/ ~Found(p)
Loses(p) ==
    /\ losses'[p] = losses[p] + 1
    /\ place[p] = "create" /\ place'[p] = "exited"
    /\ Found(p) /\ ~cfg(p).time_series

(* The step of the one that creates a collection. *)
Wins(p) ==
    /\ losses'[p] = losses[p] /\ ~Found(p)
    /\ place[p] = "create" /\ place'[p] # "create"

LEMMA WaysOut ==
    ASSUME StartTypeOK, NEW q \in Procs,
           StartStep(q) \/ CreateUnanswered(q) \/ Die(q)
    PROVE  /\ deployment' = deployment
           /\ \A p \in Procs \ {q} : place'[p] = place[p] /\ losses'[p] = losses[p]
           /\ GoesOn(q) \/ Loses(q)
           /\ kind' = kind \/ (Wins(q) /\ kind' = [kind EXCEPT ![Logs(q)] = Configured(q)])
<1> USE DEF StartTypeOK, Goto, GoesOn
<1>1. CASE Connect(q)
  BY <1>1 DEF Connect
<1>2. CASE List(q)
  BY <1>2 DEF List, AfterList
<1>3. CASE Create(q)
  <2>1. CASE Found(q) /\ ~Tolerates(q)
    BY <1>3, <2>1 DEF Create, Lose, Tolerates, Loses
  <2>2. CASE Found(q) /\ Tolerates(q)
    BY <1>3, <2>2 DEF Create
  <2>3. CASE ~Found(q)
    BY <1>3, <2>3 DEF Create, Wins
  <2> QED
    BY <2>1, <2>2, <2>3
<1>4. CASE Listen(q) \/ Restart(q)
  BY <1>4 DEF Listen, Restart
<1>5. CASE CreateUnanswered(q)
  BY <1>5 DEF CreateUnanswered, Wins
<1>6. CASE Die(q)
  BY <1>6 DEF Die
<1> QED
  BY <1>1, <1>2, <1>3, <1>4, <1>5, <1>6 DEF StartStep

LEMMA RacedStep ==
    ASSUME Typed, ServingFound, Raced, [Next]_vars
    PROVE  Raced'
<1>1. /\ losses \in [Procs -> Nat] /\ kind \in [AllCollections -> Kinds]
      /\ \A p \in Procs : Logs(p) \in AllCollections
  BY LogsListed DEF Typed, StartTypeOK
<1>2. ASSUME UNCHANGED <<deployment, place, kind, losses>>
      PROVE  Raced'
  BY <1>2 DEF Raced, Beaten, Won, Found, Logs, cfg
<1>3. ASSUME NEW q \in Procs, StartStep(q) \/ CreateUnanswered(q) \/ Die(q)
      PROVE  Raced'
  <2>1. /\ deployment' = deployment
        /\ \A p \in Procs \ {q} : place'[p] = place[p] /\ losses'[p] = losses[p]
        /\ GoesOn(q) \/ Loses(q)
        /\ kind' = kind \/ (Wins(q) /\ kind' = [kind EXCEPT ![Logs(q)] = Configured(q)])
    BY <1>3, WaysOut DEF Typed
  <2>2. \A p \in Procs : Logs(p)' = Logs(p) /\ cfg(p)' = cfg(p)
    BY <2>1 DEF Logs, cfg
  <2>3. Configured(q) # "none"
    BY ConfiguredType
  <2>4. \A p \in Procs : Found(p) => Found(p)'
    BY <1>1, <2>1, <2>2, <2>3 DEF Found
  <2>5. \A p \in Procs : Found(p)' => Found(p) \/ (Wins(q) /\ Logs(p) = Logs(q))
    BY <1>1, <2>1, <2>2 DEF Found
  <2>6. ASSUME NEW p \in Procs
        PROVE  Beaten(p)'
    <3>1. GoesOn(p) \/ Loses(p)
      BY <2>1 DEF GoesOn
    <3>2. Beaten(p)
      BY DEF Raced
    <3>3. CASE GoesOn(p)
      BY <1>1, <2>2, <2>4, <3>2, <3>3 DEF Beaten, GoesOn
    <3>4. CASE Loses(p)
      BY <1>1, <2>2, <2>4, <3>2, <3>4 DEF Beaten, Loses
    <3> QED
      BY <3>1, <3>3, <3>4
  <2>7. ASSUME NEW p \in Procs, Found(p)
        PROVE  Won(Logs(p))'
    <3>1. PICK w \in Procs : Logs(w) = Logs(p) /\ losses[w] = 0 /\ place[w] # "create"
      BY <2>7 DEF Raced, Won
    <3>2. GoesOn(w)
      BY <2>1, <3>1 DEF GoesOn, Loses
    <3>3. Found(w)
      BY <2>7, <3>1 DEF Found
    <3>4. Logs(w)' = Logs(p)' /\ losses'[w] = 0 /\ place'[w] # "create"
      BY <2>2, <3>1, <3>2, <3>3 DEF GoesOn
    <3> QED
      BY <3>4 DEF Won
  <2>8. ASSUME NEW p \in Procs, Wins(q), Logs(p) = Logs(q)
        PROVE  Won(Logs(p))'
    <3>1. losses[q] = 0
      BY <2>8 DEF Raced, Beaten, Wins
    <3>2. Logs(q)' = Logs(p)' /\ losses'[q] = 0 /\ place'[q] # "create"
      BY <2>2, <2>8, <3>1 DEF Wins
    <3> QED
      BY <3>2 DEF Won
  <2> QED
    BY <2>5, <2>6, <2>7, <2>8 DEF Raced
<1>4. ASSUME NEW p \in Ingestors, NEW e \in Events, Flush(p, e)
      PROVE  UNCHANGED <<deployment, place, kind, losses>>
  BY <1>4, ClusterAssumption DEF Flush, ServingFound, Serving
<1>5. ASSUME \/ \E e \in Events : Client(e) \/ Handle(e) \/ HandleUnanswered(e) \/ GiveUp(e)
             \/ \E p \in Ingestors, e \in Events : HandleAbandoned(p, e) \/ Expire(p, e)
             \/ UNCHANGED vars
      PROVE  UNCHANGED <<deployment, place, kind, losses>>
  BY <1>5 DEF Client, Post, Handle, HandleUnanswered, GiveUp, HandleAbandoned, Expire, vars,
              startVars
<1>6. Ingestors \subseteq Procs
  BY ClusterAssumption
<1> QED
  BY <1>2, <1>3, <1>4, <1>5, <1>6 DEF Next, Starting, StartFails, Crash
-----------------------------------------------------------------------------
(* The theorems                                                            *)

Accounts ==
    /\ Typed
    /\ Room
    /\ Counted
    /\ Trusted
    /\ ServingFound
    /\ ConfiguredKind
    /\ Raced

LEMMA AccountsInit == Init => Accounts
<1> SUFFICES ASSUME Init
             PROVE  Accounts
  OBVIOUS
<1>1. Typed
  BY StartupAssumption, ClusterAssumption DEF Init, Typed, StartInit, StartTypeOK, Kinds
<1>2. Room
  BY NoLoad, ClusterAssumption DEF Init, Room, Load
<1>3. \A e \in Events : Across(held, e) = 0 /\ Across(abandoned, e) = 0
  BY NoCounts DEF Init
<1>4. Counted
  BY <1>3 DEF Init, StartInit, Counted, Copies, Credit
<1>5. Trusted
  BY DEF Init, Trusted
<1>6. ServingFound /\ ConfiguredKind
  BY DEF Init, StartInit, ServingFound, Serving, ConfiguredKind
<1>7. Raced
  BY LogsListed, <1>1 DEF Init, StartInit, Typed, Raced, Beaten, Found
<1> QED
  BY <1>1, <1>2, <1>4, <1>5, <1>6, <1>7 DEF Accounts

LEMMA AccountsInvariant == Spec => []Accounts
<1>1. Init => Accounts
  BY AccountsInit
<1>2. Accounts /\ [Next]_vars => Accounts'
  BY TypedStep, RoomStep, CountedStep, TrustedStep, KindStep, RacedStep DEF Accounts
<1> QED
  BY <1>1, <1>2, PTL DEF Spec

(* Every variable stays in its type; no process holds more copies of an    *)
(* event than fit in its channel and the batches of its workers.           *)
THEOREM ClusterTypes == Spec => []ClusterTypeOK
<1>1. Accounts => ClusterTypeOK
  <2> SUFFICES ASSUME Accounts
               PROVE  ClusterTypeOK
    OBVIOUS
  <2>1. Typed /\ faults \in 0 .. MaxFaults
    BY DEF Accounts, Typed, StartTypeOK
  <2>2. \A e \in Events : silences[e] \in 0 .. MaxFaults
    BY <2>1, StartupAssumption DEF Accounts, Counted, Typed
  <2>3. \A p \in Ingestors, e \in Events : abandoned[p][e] \in 0 .. MaxFaults
    BY <2>1, <2>2, StartupAssumption DEF Accounts, Counted, Typed
  <2>4. \A p \in Ingestors, e \in Events : held[p][e] \in 0 .. Capacity
    <3> SUFFICES ASSUME NEW p \in Ingestors, NEW e \in Events
                 PROVE  held[p][e] \in 0 .. Capacity
      OBVIOUS
    <3>1. held[p] \in [Events -> Nat]
      BY <2>1 DEF Typed
    <3>2. SumFunction(held[p]) \in Nat /\ held[p][e] <= SumFunction(held[p])
      BY <3>1, LoadType
    <3>3. SumFunction(held[p]) <= Capacity
      BY DEF Accounts, Room, Load
    <3> QED
      BY <3>1, <3>2, <3>3, ClusterAssumption
  <2> QED
    BY <2>1, <2>2, <2>3, <2>4 DEF ClusterTypeOK, Typed
<1> QED
  BY <1>1, AccountsInvariant, PTL

(* An event is in the system more than once only if its client was left    *)
(* without an answer, whatever crashed, was full or came twice.            *)
THEOREM CopiesAreCounted == Spec => []CopiesNeedSilence
<1>1. Accounts => CopiesNeedSilence
  <2> SUFFICES ASSUME Accounts, NEW e \in Events
               PROVE  Copies(e) <= 1 + silences[e]
    BY DEF CopiesNeedSilence
  <2>1. abandoned \in Counts /\ silences[e] \in Nat
    BY DEF Accounts, Typed, Counts
  <2>2. Across(abandoned, e) \in Nat
    BY <2>1, AcrossType
  <2>3. Copies(e) \in Nat
    BY CopiesType DEF Accounts
  <2>4. Copies(e) + Across(abandoned, e) <= Credit(e)
    BY DEF Accounts, Counted
  <2> QED
    BY <2>1, <2>2, <2>3, <2>4 DEF Credit
<1> QED
  BY <1>1, AccountsInvariant, PTL

(* An event whose client was told 202 is stored or on its way, or a crash, *)
(* a failed write or an earlier drop explains why it is not.               *)
THEOREM AcceptedEventsAreKept == Spec => []AcceptedIsKept
<1>1. Accounts => AcceptedIsKept
  BY DEF Accounts, Trusted, Kept, AcceptedIsKept
<1> QED
  BY <1>1, AccountsInvariant, PTL

(* The collection has the kind some process is configured for. *)
THEOREM CollectionsAreConfigured == Spec => []ConfiguredKind
<1>1. Accounts => ConfiguredKind
  BY DEF Accounts
<1> QED
  BY <1>1, AccountsInvariant, PTL

(* Of the processes that create a collection at once one never exits for   *)
(* it, and the others at most once, or never with time series.             *)
THEOREM RacesAreLostOnce == Spec => []RaceLostOnce
<1>1. Accounts => RaceLostOnce
  <2> SUFFICES ASSUME Accounts, NEW p \in Procs, losses[p] > 0
               PROVE  /\ losses[p] = 1 /\ ~cfg(p).time_series
                      /\ \E q \in Procs : Logs(q) = Logs(p) /\ losses[q] = 0
    BY DEF RaceLostOnce
  <2>1. losses[p] = 1 /\ ~cfg(p).time_series /\ Found(p)
    BY DEF Accounts, Raced, Beaten
  <2>2. Won(Logs(p))
    BY <2>1 DEF Accounts, Raced
  <2> QED
    BY <2>1, <2>2 DEF Won
<1> QED
  BY <1>1, AccountsInvariant, PTL
=============================================================================
