--------------------------- MODULE PatroniService ---------------------------
(***************************************************************************)
(* Patroni as a runit service of every pod (runit/patroni/run, finish) and *)
(* the callbacks it starts (scripts/callback_role.py), which tell          *)
(* Kubernetes by a PATCH request what the role of the pod is: its label.   *)
(* The script has a second request, which gives the endpoints of the       *)
(* service to a leader called "master"; Patroni 4 calls it "primary".      *)
(*                                                                         *)
(* Patroni runs one callback at a time: before it starts the next one it   *)
(* kills the last.  A callback whose Patroni has died is nobody's: it goes *)
(* on repeating its requests next to those of the Patroni started after it.*)
(* Patroni, the leader key and the API server are external.  Time is left  *)
(* out: the pauses between two attempts, up to 256 s, and the back-off of  *)
(* 30 to 120 s let anything happen in between.                             *)
(***************************************************************************)
EXTENDS Naturals

CONSTANTS
    Pods,
    MaxRestarts,   \* MAX_RESTARTS of finish
    Tries,         \* failed attempts after which api_patch raises, less one
    MaxTrouble     \* bound on crashes, elections and failing requests

ASSUME MaxRestartsAssumption == MaxRestarts \in Nat \ {0}
ASSUME TriesAssumption       == Tries \in Nat
ASSUME MaxTroubleAssumption  == MaxTrouble \in Nat

\* LEADER_LABEL_VALUE: runit/patroni/run unsets KUBERNETES_LEADER_LABEL_VALUE,
\* so that the callbacks always see the default.
LeaderLabelValue == "master"

Roles == {"primary", "replica"}
None  == "none"

\* A callback: the role it sets, the request it is at, the failed attempts.
Callbacks == [role : Roles \union {None}, step : {"endpoints", "label"}, count : 0 .. Tries]
NoCallback == [role |-> None, step |-> "done", count |-> 0]

\* "child": started by the Patroni that runs; "orphan": of one that has died.
Slots == {"child", "orphan"}

VARIABLES
    leader,      \* the pod that holds the leader key
    service,     \* the runit service: "up", "backoff" or "stopped"
    restarts,    \* supervise/restarts; 0: no file, or garbage in it
    announced,   \* the role of the last callback a running Patroni has started
    callback,    \* the processes of callback_role.py
    label,       \* the role label of the pod
    endpoints,   \* the pod whose address the endpoints of the service have
    trouble,     \* crashes, elections and failures so far
    counted,     \* history: unexpected exits since the file was last missing
    clean,       \* history: the last exit of Patroni was an expected one
    excused      \* history: pods whose last callback gave up or was refused,
                 \* or whose label a request out of date has spoiled since

vars == <<leader, service, restarts, announced, callback, label,
          endpoints, trouble, counted, clean, excused>>

Init ==
    /\ leader \in Pods
    /\ service = [p \in Pods |-> "up"] /\ restarts = [p \in Pods |-> 0]
    /\ announced = [p \in Pods |-> None]
    /\ callback = [p \in Pods |-> [s \in Slots |-> NoCallback]]
    /\ label = [p \in Pods |-> None] /\ endpoints = None
    /\ trouble = 0 /\ counted = [p \in Pods |-> 0]
    /\ clean = [p \in Pods |-> FALSE] /\ excused = {}

Trouble == trouble < MaxTrouble /\ trouble' = trouble + 1

-----------------------------------------------------------------------------
(* callback_role.py *)

\* on_stop clears the label, whatever the role was.
record_role_change(action, role) ==
    LET new_role == IF action = "on_stop" THEN None ELSE role IN
    [role |-> new_role,
     step |-> IF new_role = LeaderLabelValue THEN "endpoints" ELSE "label",
     count |-> 0]

\* The request has its effect.
Applied(p, cb) ==
    IF cb.step = "endpoints" THEN endpoints' = p /\ UNCHANGED label
    ELSE label' = [label EXCEPT ![p] = cb.role] /\ UNCHANGED endpoints

\* The attempts at a request are over.  An exception of change_endpoints is
\* swallowed; after the label the process ends.
Over(p, s) ==
    callback' = [callback EXCEPT ![p][s] =
        IF @.step = "endpoints" THEN [@ EXCEPT !.step = "label", !.count = 0]
        ELSE NoCallback]

\* A label that is out of date gets through: that of an orphan, after a newer
\* callback has been started.
Overtaken(p, s) == callback[p][s].step = "label" /\ s = "orphan" /\ announced[p] # None

\* Mutant: give up at the first error.
Again_Never(p, s, spoiled) == Over(p, s) /\ excused' = excused \union spoiled

\* Another attempt, unless there have been too many.
Again(p, s, spoiled) ==
    IF callback[p][s].count >= Tries
    THEN Over(p, s) /\ excused' = excused \union {p}
    ELSE /\ callback' = [callback EXCEPT ![p][s].count = @ + 1]
         /\ excused' = excused \union spoiled

\* One attempt of api_patch: applied and answered; refused for good; failed,
\* with an error worth a retry or without an answer, applied or not.
api_patch(p, s) ==
    LET spoiled == IF Overtaken(p, s) THEN {p} ELSE {} IN
    /\ callback[p][s].step # "done"
    /\ \/ /\ Applied(p, callback[p][s]) /\ Over(p, s)
          /\ excused' = excused \union spoiled /\ UNCHANGED trouble
       \/ /\ Trouble /\ Over(p, s) /\ excused' = excused \union {p}
          /\ UNCHANGED <<label, endpoints>>
       \/ Trouble /\ Again(p, s, {}) /\ UNCHANGED <<label, endpoints>>
       \/ Trouble /\ Applied(p, callback[p][s]) /\ Again(p, s, spoiled)
    /\ UNCHANGED <<leader, service, restarts, announced, counted, clean>>

-----------------------------------------------------------------------------
(* Patroni and the leader key *)

RoleOf(p) == IF leader = p THEN "primary" ELSE "replica"

\* Patroni kills the callback it has started last and starts a new one.
Call(p, action, role) ==
    /\ service[p] = "up"
    /\ callback' = [callback EXCEPT ![p]["child"] = record_role_change(action, role)]
    /\ announced' = [announced EXCEPT ![p] = IF action = "on_stop" THEN None ELSE role]
    /\ excused' = IF callback[p]["orphan"] = NoCallback THEN excused \ {p} ELSE excused
    /\ UNCHANGED <<leader, service, restarts, label, endpoints,
                   counted, clean>>

\* The server has started, or its role has changed.
Announce(p) ==
    /\ announced[p] # RoleOf(p)
    /\ Call(p, IF announced[p] = None THEN "on_start" ELSE "on_role_change", RoleOf(p))
    /\ UNCHANGED trouble

\* The server is stopped, and will be started again.
StopServer(p) ==
    /\ announced[p] # None /\ Trouble
    /\ Call(p, "on_stop", announced[p])

\* Another Patroni takes the leader key; one that had it before has announced
\* since that it is a replica, for it takes part in no election before.
Elect(p) ==
    /\ leader # p /\ service[p] = "up" /\ announced[p] # "primary" /\ Trouble
    /\ leader' = p
    /\ UNCHANGED <<service, restarts, announced, callback, label,
                   endpoints, counted, clean, excused>>

-----------------------------------------------------------------------------
(* runit *)

\* The children of a Patroni that has gone live on; an orphan there was
\* before is taken to be done by then.
Orphans(p) ==
    /\ callback[p]["child"] # NoCallback => callback[p]["orphan"] = NoCallback
    /\ announced' = [announced EXCEPT ![p] = None]
    /\ callback' = IF callback[p]["child"] = NoCallback THEN callback
                   ELSE [callback EXCEPT ![p] = [child |-> NoCallback, orphan |-> @.child]]

\* The service stops for good.  "sv stop" waits for the service to be down, which
\* it is not while finish runs: if that makes it fail, "sh -e" ends before rm.
Stop(p, file) ==
    /\ service' = [service EXCEPT ![p] = "stopped"]
    /\ \E left \in {0, file} : restarts' = [restarts EXCEPT ![p] = left]

\* Mutant: exits caused by OOM are counted like any other.
finish_CountOom(p, code, signal) ==
    LET RESTARTS == IF restarts[p] = 0 THEN 1 ELSE restarts[p] IN
    IF code \in {0, 2} THEN Stop(p, restarts[p])
    ELSE IF RESTARTS >= MaxRestarts THEN Stop(p, RESTARTS + 1)
    ELSE /\ restarts' = [restarts EXCEPT ![p] = RESTARTS + 1]
         /\ service' = [service EXCEPT ![p] = "backoff"]

\* The finish script: what an exit of Patroni leads to.
finish(p, code, signal) ==
    LET RESTARTS == IF restarts[p] = 0 THEN 1 ELSE restarts[p] IN
    IF code \in {0, 2} THEN Stop(p, restarts[p])
    ELSE IF signal = 9 THEN UNCHANGED <<restarts, service>>
    ELSE IF RESTARTS >= MaxRestarts THEN Stop(p, RESTARTS + 1)
    ELSE /\ restarts' = [restarts EXCEPT ![p] = RESTARTS + 1]
         /\ service' = [service EXCEPT ![p] = "backoff"]

\* Patroni exits: as asked (0, 2), with an error, or killed by a signal.
Exit(p) ==
    /\ service[p] = "up" /\ Trouble
    /\ \E exit \in {<<0, 0>>, <<2, 0>>, <<1, 0>>, <<111, 6>>, <<111, 9>>} :
         /\ finish(p, exit[1], exit[2])
         /\ clean' = [clean EXCEPT ![p] = exit[1] \in {0, 2}]
         /\ counted' = [counted EXCEPT ![p] =
               IF exit[1] \in {0, 2} \/ exit[2] = 9 THEN @ ELSE @ + 1]
    /\ Orphans(p)
    /\ UNCHANGED <<leader, label, endpoints, excused>>

\* exec sleep is over, and runsv starts the service again.
Restart(p) ==
    /\ service[p] = "backoff"
    /\ service' = [service EXCEPT ![p] = "up"]
    /\ UNCHANGED <<leader, restarts, announced, callback, label,
                   endpoints, trouble, counted, clean, excused>>

\* The container is restarted: no process survives; the status file does, or it
\* is cut short, or gone with the file system.
RestartContainer(p) ==
    /\ Trouble
    /\ service' = [service EXCEPT ![p] = "up"]
    /\ \E file \in {0, restarts[p]} :
         /\ restarts' = [restarts EXCEPT ![p] = file]
         /\ counted' = IF file = 0 THEN [counted EXCEPT ![p] = 0] ELSE counted
    /\ announced' = [announced EXCEPT ![p] = None]
    /\ callback' = [callback EXCEPT ![p] = [s \in Slots |-> NoCallback]]
    /\ clean' = [clean EXCEPT ![p] = FALSE]
    /\ UNCHANGED <<leader, label, endpoints, excused>>

-----------------------------------------------------------------------------

Next == \E p \in Pods :
    \/ \E s \in Slots : api_patch(p, s)
    \/ Announce(p) \/ StopServer(p) \/ Elect(p)
    \/ Exit(p) \/ Restart(p) \/ RestartContainer(p)

Spec == Init /\ [][Next]_vars

\* Callbacks get on, Patroni announces a role that has changed, runsv restarts
\* what sleeps.  Nothing else is fair: trouble may happen or not.
FairSpec ==
    /\ Spec
    /\ \A p \in Pods : /\ \A s \in Slots : WF_vars(api_patch(p, s))
                       /\ WF_vars(Announce(p))
                       /\ WF_vars(Restart(p))

-----------------------------------------------------------------------------
(* Properties *)

TypeOK ==
    /\ leader \in Pods
    /\ service \in [Pods -> {"up", "backoff", "stopped"}]
    /\ restarts \in [Pods -> Nat]
    /\ announced \in [Pods -> Roles \union {None}]
    /\ callback \in [Pods -> [Slots -> Callbacks \union {NoCallback}]]
    /\ label \in [Pods -> Roles \union {None}]
    /\ endpoints \in Pods \union {None}
    /\ trouble \in 0 .. MaxTrouble
    /\ counted \in [Pods -> Nat]
    /\ clean \in [Pods -> BOOLEAN] /\ excused \subseteq Pods

\* The service stops for good after an exit that was asked for, or once there
\* were MAX_RESTARTS unexpected ones, and is not started again after that many:
\* kills by OOM do not count, however many there are, and neither do exits before
\* the status file was lost (finish, "don't count restarts if the service was
\* killed by OOM").
StopsAfterMaxRestarts ==
    \A p \in Pods :
        /\ service[p] = "stopped" => clean[p] \/ counted[p] >= MaxRestarts
        /\ service[p] = "backoff" => counted[p] < MaxRestarts

Settled(p) == service[p] = "up" => label[p] = RoleOf(p) \/ p \in excused

\* When the trouble is over, every running pod ends up with the label of its
\* role, however often roles changed and requests failed or lost their answer
\* meanwhile: a callback that fails is repeated, one that is out of date has
\* been killed.  What the code cannot mend is excused: a callback that gave
\* up, and an orphan that gets through after a newer callback.
LabelsSettle == <>[](\A p \in Pods : Settled(p))
=============================================================================
