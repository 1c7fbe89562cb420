------------------------------- MODULE MCMonaca -------------------------------
(* The queue of calls, push and the cloud share no variable: push only holds up *)
(* the queue while a handler runs.  A behaviour is of one of them, which the    *)
(* initial state says, and the others stand still.                              *)
EXTENDS MonacaBridge, MonacaCloud

VARIABLE focus

MCInit == BridgeInit /\ CloudInit /\ focus \in {"queue", "push", "cloud"}

QueueStep ==
  /\ focus = "queue"
  /\ Invoke \/ DeviceReady \/ Answer
  /\ UNCHANGED <<cloudVars, focus>>

PushStep ==
  /\ focus = "push"
  /\ PushSend \/ SetHandler \/ HandlerReturns \/ HandlerThrows
  /\ UNCHANGED <<cloudVars, focus>>

CloudStep == focus = "cloud" /\ CloudNext /\ UNCHANGED <<bridgeVars, focus>>

MCSpec ==
  /\ MCInit
  /\ [][QueueStep \/ PushStep \/ CloudStep]_<<bridgeVars, cloudVars, focus>>
  /\ TimersRunOff

MCOffered == {"login", "autoLogin", "logout", "findMine", "findOne"}
=============================================================================
