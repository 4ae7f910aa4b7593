------------------------------ MODULE MCCluster ------------------------------
(***************************************************************************)
(* A TLC instance of Cluster.  In one deployment two ingestors want the    *)
(* same kind of collection, in the other an ingestor and the alerter       *)
(* disagree on it; the third process has a timeout that is too short, or a *)
(* file that does not parse.                                               *)
(***************************************************************************)
EXTENDS Cluster

CONSTANTS i1, i2, alerter, keyed, plain

MCIngestors == {i1, i2}
MCProcs == MCIngestors \cup {alerter}
MCEvents == {keyed, plain}

FileOf(timeSeries) ==
    [found |-> "ok",
     sets |-> [time_series |-> timeSeries, uri |-> "mongodb://localhost:27017"]]
NoFile == [found |-> "missing"]
Broken == [found |-> "garbled"]
Hasty == [found |-> "ok", sets |-> [connect_timeout |-> 1]]

MCServers == {"mongodb://mongodb:27017"}
MCEnv == [MONGODB_URI |-> "mongodb://mongodb:27017"]

Deploy(file1, file2, file3) ==
    [p \in MCProcs |->
        [env |-> MCEnv,
         file |-> CASE p = i1 -> file1 [] p = i2 -> file2 [] p = alerter -> file3]]

MCDeployments ==
    {Deploy(FileOf(TRUE), NoFile, Hasty), Deploy(FileOf(FALSE), Broken, NoFile)}
=============================================================================
