--------------------------- MODULE ClusterUpgrade ---------------------------
(***************************************************************************)
(* What an in-place upgrade promises to whoever runs the cluster: the one  *)
(* cut-over of the primary, with its server down, copies for the replicas  *)
(* that are taken from the upgraded and stopped primary only, and an exit  *)
(* code that is right about every node.  InplaceUpgrade implements it.     *)
(***************************************************************************)
CONSTANTS Primary, Replicas

VARIABLES
    version,  \* of every node: "old", "moving", "new" or "failed"
    serving,  \* the server of the primary: "none" or the version that runs
    served,   \* the new version has run on the primary
    outcome   \* "none" while the script runs, then "ok" or "error"

vars == <<version, serving, served, outcome>>

Nodes == Replicas \union {Primary}

Init ==
    /\ version = [n \in Nodes |-> "old"]
    /\ serving = "old" /\ served = FALSE /\ outcome = "none"

Move(n, from, to) ==
    /\ version[n] = from /\ version' = [version EXCEPT ![n] = to]
    /\ UNCHANGED <<serving, served, outcome>>

\* The primary has a point of no return, and a server that is down until the
\* new directory and configuration are in place.
Begin  == outcome = "none" /\ serving = "none" /\ Move(Primary, "old", "moving")
Commit == outcome = "none" /\ serving = "none" /\ Move(Primary, "moving", "new")

\* A replica is touched only after that, and is new only by a copy that was
\* complete before any server wrote the new data.
Fetch(r)   == version[Primary] = "new" /\ Move(r, "old", "moving")
Fetched(r) == ~served /\ Move(r, "moving", "new")
Fail(r)    == Move(r, "moving", "failed")

Stop ==
    /\ serving # "none" /\ serving' = "none"
    /\ UNCHANGED <<version, served, outcome>>

\* The version that comes up is the one the primary has data of.
Start ==
    /\ serving = "none" /\ version[Primary] \in {"old", "new"}
    /\ serving' = version[Primary]
    /\ served' = (served \/ version[Primary] = "new")
    /\ UNCHANGED <<version, outcome>>

\* The script ends; 0 means that nothing is left to be done anywhere.
Finish ==
    /\ outcome = "none"
    /\ \/ outcome' = "ok" /\ \A n \in Nodes : version[n] = "new"
       \/ outcome' = "error"
    /\ UNCHANGED <<version, serving, served>>

Next ==
    \/ Begin \/ Commit \/ Stop \/ Start \/ Finish
    \/ \E r \in Replicas : Fetch(r) \/ Fetched(r) \/ Fail(r)

Spec == Init /\ [][Next]_vars
=============================================================================
