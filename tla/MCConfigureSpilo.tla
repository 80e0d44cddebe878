-------------------------- MODULE MCConfigureSpilo --------------------------
(* Every way to give one store to the cluster, then every way to give one to *)
(* clone from, each with every combination of the three switches.            *)
EXTENDS ConfigureSpilo

MCGiven ==
    SUBSET ({"WAL", "WALE", "WALG"} \X {"S3"})
    \union {given \in SUBSET (({"WAL", "WALE", "WALG"} \X {"GS"}) \union ({"WAL", "WALE"} \X {"GCS"})) :
              Cardinality(given) <= 2}
    \union SUBSET ({"WAL", "WALE"} \X {"SWIFT"})
    \union SUBSET ({"WAL", "WALG"} \X {"AZ"})
    \union {given \in SUBSET SSHNames : <<"WALG", "SSH">> \in given}

MCSides(scopes) ==
    [given : MCGiven, scope : scopes, switches : [Switches -> {"unset", "true", "false"}]]

MCNothing == [given |-> {}, scope |-> TRUE, switches |-> [s \in Switches |-> "unset"]]

MCEnvironments ==
    {[main |-> side, clone |-> MCNothing, ends |-> None, libraries |-> FALSE] :
        side \in MCSides({TRUE})}
    \union {[main |-> MCNothing, clone |-> side, ends |-> None, libraries |-> FALSE] :
        side \in MCSides(BOOLEAN)}
    \union {[main |-> [MCNothing EXCEPT !.given = {<<"WAL", "S3">>} \union more],
             clone |-> MCNothing, ends |-> ends, libraries |-> libraries] :
        more \in SUBSET {<<"WALE", "S3">>, <<"WALG", "S3">>},
        ends \in Versions, libraries \in BOOLEAN}
=============================================================================
