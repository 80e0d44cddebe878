------------------------ MODULE PatroniServiceProofs ------------------------
(***************************************************************************)
(* The runit service of Patroni stops when it should and not before, for   *)
(* any number of pods and any value of MAX_RESTARTS.                       *)
(***************************************************************************)
EXTENDS PatroniService, TLAPS

\* The file holds one more than the unexpected exits, or is not there; then none
\* is counted, except for a service that has been stopped by "sv stop".
CountInv ==
    /\ restarts \in [Pods -> Nat] /\ counted \in [Pods -> Nat]
    /\ service \in [Pods -> {"up", "backoff", "stopped"}]
    /\ clean \in [Pods -> BOOLEAN]
    /\ \A p \in Pods :
         \/ restarts[p] = counted[p] + 1
         \/ restarts[p] = 0 /\ (counted[p] = 0 \/ service[p] = "stopped")

IInv == CountInv /\ StopsAfterMaxRestarts

LEMMA InitIInv == Init => IInv
  BY MaxRestartsAssumption DEF Init, IInv, CountInv, StopsAfterMaxRestarts

\* What a run of finish does to the pod it runs in.
LEMMA FinishEffect ==
  ASSUME IInv, NEW p \in Pods, NEW code, NEW signal, service[p] = "up",
         finish(p, code, signal)
  PROVE  /\ restarts' = [restarts EXCEPT ![p] = restarts'[p]]
         /\ service' = [service EXCEPT ![p] = service'[p]]
         /\ restarts'[p] \in Nat /\ service'[p] \in {"up", "backoff", "stopped"}
         /\ code \in {0, 2} =>
              service'[p] = "stopped" /\ restarts'[p] \in {0, restarts[p]}
         /\ code \notin {0, 2} /\ signal = 9 =>
              service'[p] = "up" /\ restarts'[p] = restarts[p]
         /\ code \notin {0, 2} /\ signal # 9 =>
              \/ /\ service'[p] = "stopped" /\ counted[p] + 1 >= MaxRestarts
                 /\ restarts'[p] \in {0, counted[p] + 2}
              \/ /\ service'[p] = "backoff" /\ counted[p] + 1 < MaxRestarts
                 /\ restarts'[p] = counted[p] + 2
  <1> DEFINE RESTARTS == IF restarts[p] = 0 THEN 1 ELSE restarts[p]
  <1> USE MaxRestartsAssumption DEF IInv, CountInv, finish, Stop
  <1>1. RESTARTS = counted[p] + 1 /\ RESTARTS \in Nat
    OBVIOUS
  <1>2. CASE code \in {0, 2}
    BY <1>2
  <1>3. CASE code \notin {0, 2} /\ signal = 9
    BY <1>3
  <1>4. CASE code \notin {0, 2} /\ signal # 9 /\ RESTARTS >= MaxRestarts
    BY <1>1, <1>4
  <1>5. CASE code \notin {0, 2} /\ signal # 9 /\ ~(RESTARTS >= MaxRestarts)
    BY <1>1, <1>5
  <1> QED
    BY <1>2, <1>3, <1>4, <1>5

LEMMA NextIInv == IInv /\ [Next]_vars => IInv'
  <1> SUFFICES ASSUME IInv, [Next]_vars PROVE IInv'
    OBVIOUS
  <1>1. ASSUME UNCHANGED <<restarts, counted, service, clean>> PROVE IInv'
    BY <1>1 DEF IInv, CountInv, StopsAfterMaxRestarts
  <1>2. ASSUME NEW p \in Pods, \/ \E s \in Slots : api_patch(p, s)
                               \/ Announce(p) \/ StopServer(p) \/ Elect(p)
        PROVE  IInv'
    BY <1>1, <1>2 DEF api_patch, Announce, StopServer, Elect, Call
  <1>3. ASSUME NEW p \in Pods, Exit(p) PROVE IInv'
    <2>1. PICK exit \in {<<0, 0>>, <<2, 0>>, <<1, 0>>, <<111, 6>>, <<111, 9>>} :
            /\ finish(p, exit[1], exit[2])
            /\ clean' = [clean EXCEPT ![p] = exit[1] \in {0, 2}]
            /\ counted' = [counted EXCEPT ![p] =
                  IF exit[1] \in {0, 2} \/ exit[2] = 9 THEN @ ELSE @ + 1]
      BY <1>3 DEF Exit
    <2>2. service[p] = "up"
      BY <1>3 DEF Exit
    <2>3. CountInv'
      BY <2>1, <2>2, FinishEffect DEF IInv, CountInv
    <2>4. StopsAfterMaxRestarts'
      BY <2>1, <2>2, FinishEffect DEF IInv, CountInv, StopsAfterMaxRestarts
    <2> QED
      BY <2>3, <2>4 DEF IInv
  <1>4. ASSUME NEW p \in Pods, Restart(p) PROVE IInv'
    BY <1>4 DEF Restart, IInv, CountInv, StopsAfterMaxRestarts
  <1>5. ASSUME NEW p \in Pods, RestartContainer(p) PROVE IInv'
    BY <1>5 DEF RestartContainer, IInv, CountInv, StopsAfterMaxRestarts
  <1> QED
    BY <1>1, <1>2, <1>3, <1>4, <1>5 DEF Next, vars

\* For any MAX_RESTARTS: no pod gives up on Patroni before that many unexpected
\* exits, and none restarts it after that many.
THEOREM StopsInTime == Spec => []StopsAfterMaxRestarts
  <1>1. IInv => StopsAfterMaxRestarts
    BY DEF IInv
  <1> QED
    BY <1>1, InitIInv, NextIInv, PTL DEF Spec
=============================================================================
