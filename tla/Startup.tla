------------------------------- MODULE Startup -------------------------------
(***************************************************************************)
(* Processes that start against one MongoDB: both mains call config.Load   *)
(* and storage.New (internal/storage/mongo.go), which connects, pings, and *)
(* creates the logs collection unless it finds one; then they listen.  Any *)
(* error ends the process, to be restarted by whatever runs it.  Processes *)
(* start at the same time, so that two of them can find no collection.     *)
(*                                                                         *)
(* MongoDB, the network and the restarts are external.  A fault is a step  *)
(* nothing in the code causes; MaxFaults bounds how many there are.        *)
(***************************************************************************)
EXTENDS Config, Naturals

CONSTANTS Procs,        \* processes that call storage.New
          Deployments,  \* what they can find: [Procs -> [file, env]]
          Servers,      \* the URIs at which MongoDB answers
          Latency,      \* what New takes there, if there is no fault
          MaxFaults

ASSUME StartupAssumption ==
    /\ Deployments # {}
    /\ \A d \in Deployments : DOMAIN d = Procs
    /\ Latency \in Nat /\ MaxFaults \in Nat

VARIABLES deployment,  \* the files and variables the processes find
          place,       \* what main of each process does, "exited" if it is gone
          kind,        \* MongoDB: what each collection is, "none" if absent
          faults,
          losses       \* history: how often each process exited because
                       \* another had created its collection first

startVars == <<deployment, place, kind, faults, losses>>

Kinds == {"none", "ordinary", "timeseries"}

Configs ==
    [d \in Deployments |-> [p \in Procs |-> Loaded(d[p].file, d[p].env)]]

cfg(p) == Configs[deployment][p]

(* The logs collection that a process uses. *)
Collection(d, p) == <<Configs[d][p].uri, Configs[d][p].database, Configs[d][p].collection>>
Logs(p) == Collection(deployment, p)
AllCollections == {Collection(d, p) : d \in Deployments, p \in Procs}

StartTypeOK ==
    /\ deployment \in Deployments
    /\ place \in [Procs -> {"start", "list", "create", "listen", "serving", "exited"}]
    /\ kind \in [AllCollections -> Kinds]
    /\ faults \in 0 .. MaxFaults
    /\ losses \in [Procs -> Nat]

StartInit ==
    /\ deployment \in Deployments
    /\ place = [p \in Procs |-> "start"]
    /\ kind = [c \in AllCollections |-> "none"]
    /\ faults = 0
    /\ losses = [p \in Procs |-> 0]

-----------------------------------------------------------------------------
Goto(p, label) == place' = [place EXCEPT ![p] = label]

Fault == faults < MaxFaults /\ faults' = faults + 1

(* The settings of the connection, which only the file can change, leave   *)
(* New the time it takes, and the driver accepts them: a pool size of 0    *)
(* is no limit.                                                            *)
Connectable(p) ==
    /\ cfg(p).connect_timeout > Latency
    /\ cfg(p).max_pool_size = 0 \/ cfg(p).min_pool_size <= cfg(p).max_pool_size

(* config.Load gives a configuration with which Connect and Ping succeed. *)
Startable(p) ==
    Loads(deployment[p].file) /\ cfg(p).uri \in Servers /\ Connectable(p)

Connect(p) ==
    /\ place[p] = "start"
    /\ Goto(p, IF Startable(p) THEN "list" ELSE "exited")
    /\ UNCHANGED <<deployment, kind, faults, losses>>

Found(p) == kind[Logs(p)] # "none"

(* Mutant of AfterList: the collection is left to the first insert. *)
AfterListServe(p) == "listen"

(* Mutant of AfterList: the collection is not looked for. *)
AfterListCreate(p) == "create"

AfterList(p) == IF Found(p) THEN "listen" ELSE "create"

(* ListCollectionNames.  What follows, the indexes, only warns of errors.  *)
List(p) ==
    /\ place[p] = "list"
    /\ Goto(p, AfterList(p))
    /\ UNCHANGED <<deployment, kind, faults, losses>>

Configured(p) == IF cfg(p).time_series THEN "timeseries" ELSE "ordinary"

(* Does it matter that somebody else was faster (code 48)? *)
Tolerates(p) == cfg(p).time_series

Lose(p) == Goto(p, "exited") /\ losses' = [losses EXCEPT ![p] = @ + 1]

Create(p) ==
    /\ place[p] = "create"
    /\ kind' = IF Found(p) THEN kind ELSE [kind EXCEPT ![Logs(p)] = Configured(p)]
    /\ IF Found(p) /\ ~Tolerates(p) THEN Lose(p)
                                   ELSE Goto(p, "listen") /\ UNCHANGED losses
    /\ UNCHANGED <<deployment, faults>>

(* The collection is created, and the answer lost or late. *)
CreateUnanswered(p) ==
    /\ place[p] = "create"
    /\ ~Found(p)
    /\ Fault
    /\ kind' = [kind EXCEPT ![Logs(p)] = Configured(p)]
    /\ Goto(p, "exited")
    /\ UNCHANGED <<deployment, losses>>

(* The server is up.  An alerter goes on without one if it cannot listen. *)
Listen(p) ==
    /\ place[p] = "listen"
    /\ Goto(p, "serving")
    /\ UNCHANGED <<deployment, kind, faults, losses>>

(* A step of the start-up fails or runs into ConnectTimeout, an ingestor   *)
(* cannot listen, or the process is killed.                                *)
Die(p) ==
    /\ place[p] # "exited"
    /\ Fault
    /\ Goto(p, "exited")
    /\ UNCHANGED <<deployment, kind, losses>>

Restart(p) ==
    /\ place[p] = "exited"
    /\ Goto(p, "start")
    /\ UNCHANGED <<deployment, kind, faults, losses>>

StartStep(p) == Connect(p) \/ List(p) \/ Create(p) \/ Listen(p) \/ Restart(p)
=============================================================================
