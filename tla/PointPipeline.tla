--------------------------- MODULE PointPipeline ----------------------------
(***************************************************************************)
(* Points for the payments of the data grid: the event of each payment is  *)
(* read from the topic "payment" by ProvidePointConsumer, which has the    *)
(* grid execute PointTask, a transaction of the "point" cache.             *)
(*                                                                         *)
(* The consumer handles one event at a time.  What it has handled it stores*)
(* as its offset now and then, and when it starts it reads on from the     *)
(* stored offset.  An event it fails to handle stops it (failure-strategy  *)
(* "fail", the connector's default).  The grid does not know when the      *)
(* consumer is gone: an execution under way goes on by itself.  The topic  *)
(* is taken as one partition; the consumer's one instance reads them all.  *)
(***************************************************************************)
EXTENDS Naturals, Sequences, FiniteSets

CONSTANTS
  Shopper,
  First,      \* shopper 1, whom InitialProcess gives points to
  Amount,     \* the billing amounts
  StartPoints,\* 10 in the code
  MaxEvents,  \* bound: events in the topic
  MaxRuns,    \* bound: executions of PointTask
  MaxCrashes, \* bound: crashes of the consumer
  MaxOwnerLost\* bound: grid nodes lost while they execute the task

ASSUME PointAssumption ==
  /\ First \in Shopper
  /\ Amount \subseteq Nat
  /\ StartPoints \in Nat
  /\ MaxEvents \in Nat /\ MaxRuns \in Nat
  /\ MaxCrashes \in Nat /\ MaxOwnerLost \in Nat

Run == 1..MaxRuns
Event == [owner : Shopper, amount : Amount]
NoRun == 0

VARIABLES
  log,       \* the events in the topic
  offset,    \* how many of them the stored offset covers
  position,  \* how many of them the consumer has handled
  consumer,  \* "down", "idle", "waiting" for the grid, or "stopped"
  current,   \* the execution it waits for
  runs,      \* the executions of PointTask so far
  points,    \* shopper |-> points, for the keys of the "point" cache
  pointVer,  \* shopper |-> version of the entry
  crashes, ownersLost,
  \* History, read by the properties only:
  credited,  \* event |-> how often its points were added
  earned     \* shopper |-> points added since the entry was last put

gridVars == <<runs, points, pointVer, credited, earned>>
vars == <<log, offset, position, consumer, current, gridVars, crashes, ownersLost>>

\* The "point" cache lives longer than the application.  Nothing but Start puts an entry
\* into it: those of other shoppers, if there are any, come from somewhere else.
Init ==
  /\ log = <<>>
  /\ offset = 0
  /\ position = 0
  /\ consumer = "down"
  /\ current = NoRun
  /\ runs = <<>>
  /\ \E others \in SUBSET (Shopper \ {First}) : points = [s \in others |-> StartPoints]
  /\ pointVer = [s \in Shopper |-> 0]
  /\ crashes = 0
  /\ ownersLost = 0
  /\ credited = [i \in 1..MaxEvents |-> 0]
  /\ earned = [s \in Shopper |-> 0]

\* Point.addPoint: one point for each hundred.
PointsFor(amount) == amount \div 100

\* KafkaNotifyRepository.notify, as far as the broker has got it.
Publish(e) ==
  /\ Len(log) < MaxEvents
  /\ log' = Append(log, e)
  /\ UNCHANGED <<offset, position, consumer, current, gridVars, crashes,
                 ownersLost>>

-----------------------------------------------------------------------------
(* The consumer                                                            *)

\* InitialProcess.onStart puts the entry of shopper 1, whatever was in it.
Start ==
  /\ consumer = "down"
  /\ consumer' = "idle"
  /\ position' = offset
  /\ points' = [s \in DOMAIN points \cup {First} |->
                  IF s = First THEN StartPoints ELSE points[s]]
  /\ pointVer' = [pointVer EXCEPT ![First] = @ + 1]
  /\ earned' = [earned EXCEPT ![First] = 0]
  /\ UNCHANGED <<log, offset, current, runs, crashes, ownersLost, credited>>

\* A new execution of PointTask for the event: setTaskContext, begin.
Dispatch(i) ==
  /\ Len(runs) < MaxRuns
  /\ runs' = Append(runs, [event |-> i, at |-> "add", ver |-> 0, sum |-> 0])
  /\ current' = Len(runs) + 1

\* ProvidePointConsumer.process, up to the call of the task.
Receive ==
  /\ consumer = "idle"
  /\ position < Len(log)
  /\ Dispatch(position + 1)
  /\ consumer' = "waiting"
  /\ UNCHANGED <<log, offset, position, points, pointVer, crashes, ownersLost,
                 credited, earned>>

\* Slip: an event is handled without getting past it.
Stay == position

Forget == current' = NoRun

\* The position after the event that was handled.
Advanced == position + 1

\* The call returns, or its exception goes through process and stops the channel.
Return ==
  /\ consumer = "waiting"
  /\ \/ /\ runs[current].at = "done"
        /\ consumer' = "idle"
        /\ position' = Advanced
     \/ /\ runs[current].at = "failed"
        /\ consumer' = "stopped"
        /\ UNCHANGED position
  /\ Forget
  /\ UNCHANGED <<log, offset, gridVars, crashes, ownersLost>>

\* Slip: the offset covers the event that is being handled.
Received == IF consumer = "waiting" THEN position + 1 ELSE position

\* What may be stored as the offset.
Storable == position

StoreOffset ==
  /\ consumer \in {"idle", "waiting"}
  /\ offset # Storable
  /\ offset' = Storable
  /\ UNCHANGED <<log, position, consumer, current, gridVars, crashes, ownersLost>>

\* The consumer dies, or somebody restarts one that has stopped.
Crash ==
  /\ consumer # "down"
  /\ crashes < MaxCrashes
  /\ crashes' = crashes + 1
  /\ consumer' = "down"
  /\ Forget
  /\ UNCHANGED <<log, offset, position, gridVars, ownersLost>>

-----------------------------------------------------------------------------
(* PointTask.call in the grid                                              *)

\* computeIfPresent with PointAddFunction, in the transaction; for a shopper
\* without an entry it returns null, which is dereferenced: rolled back.
Add(n) ==
  LET e == log[runs[n].event]
  IN  /\ runs[n].at = "add"
      /\ \/ /\ e.owner \in DOMAIN points
            /\ runs' = [runs EXCEPT ![n].at = "commit",
                                    ![n].ver = pointVer[e.owner],
                                    ![n].sum = points[e.owner] + PointsFor(e.amount)]
         \/ /\ e.owner \notin DOMAIN points
            /\ runs' = [runs EXCEPT ![n].at = "failed"]
      /\ UNCHANGED <<log, offset, position, consumer, current, points, pointVer,
                     crashes, ownersLost, credited, earned>>

\* Slip: no write skew check.
NotCompared(read, now) == TRUE

\* Slip: the entry is expected at a version earlier than the one that was read.
Behind(read, now) == read = now + 1

\* The version of the entry is still the one that was read.
Unchanged(read, now) == read = now

\* commit(), or on a conflict rollback() and the exception goes on.
Commit(n) ==
  LET i == runs[n].event
      s == log[i].owner
  IN  /\ runs[n].at = "commit"
      /\ \/ /\ Unchanged(runs[n].ver, pointVer[s])
            /\ runs' = [runs EXCEPT ![n].at = "done"]
            /\ points' = [points EXCEPT ![s] = runs[n].sum]
            /\ pointVer' = [pointVer EXCEPT ![s] = @ + 1]
            /\ credited' = [credited EXCEPT ![i] = @ + 1]
            /\ earned' = [earned EXCEPT ![s] = @ + PointsFor(log[i].amount)]
         \/ /\ ~Unchanged(runs[n].ver, pointVer[s])
            /\ runs' = [runs EXCEPT ![n].at = "failed"]
            /\ UNCHANGED <<points, pointVer, credited, earned>>
      /\ UNCHANGED <<log, offset, position, consumer, current, crashes,
                     ownersLost>>

\* The node that executes the task dies, before or after the commit, and the
\* client has another one execute it from the start.
OwnerLost ==
  /\ consumer = "waiting"
  /\ ownersLost < MaxOwnerLost
  /\ ownersLost' = ownersLost + 1
  /\ Len(runs) < MaxRuns
  /\ runs' = Append([runs EXCEPT ![current].at = IF @ = "done" THEN @ ELSE "lost"],
                    [event |-> position + 1, at |-> "add", ver |-> 0, sum |-> 0])
  /\ current' = Len(runs) + 1
  /\ UNCHANGED <<log, offset, position, consumer, points, pointVer, crashes,
                 credited, earned>>

-----------------------------------------------------------------------------
Execute == \E n \in 1..Len(runs) : Add(n) \/ Commit(n)

Next ==
  \/ \E e \in Event : Publish(e)
  \/ Start \/ Receive \/ Return \/ StoreOffset \/ Crash
  \/ Execute \/ OwnerLost

Spec == Init /\ [][Next]_vars

-----------------------------------------------------------------------------
(* Properties                                                              *)

TypeOK ==
  /\ log \in Seq(Event) /\ Len(log) <= MaxEvents
  /\ offset \in 0..Len(log)
  /\ position \in 0..Len(log)
  /\ consumer \in {"down", "idle", "waiting", "stopped"}
  /\ current \in 0..Len(runs)
  /\ consumer = "waiting" <=> current # NoRun
  /\ runs \in Seq([event : 1..MaxEvents, ver : Nat, sum : Nat,
                   at : {"add", "commit", "done", "failed", "lost"}])
  /\ DOMAIN points \subseteq Shopper
  /\ \A s \in DOMAIN points : points[s] \in Nat
  /\ pointVer \in [Shopper -> Nat]
  /\ credited \in [1..MaxEvents -> Nat]
  /\ earned \in [Shopper -> Nat]
  /\ crashes \in 0..MaxCrashes /\ ownersLost \in 0..MaxOwnerLost

\* No payment is passed over: wherever the consumer and its grid node die, the
\* points of every event that the stored offset covers have been added.
NoneSkipped == \A i \in 1..offset : credited[i] >= 1

\* No points are lost to one another: a forgotten execution that goes on after
\* its consumer has died, the execution of its successor, and the entry that
\* successor puts when it starts, each take effect after one another.
PointsAddUp ==
  \A s \in DOMAIN points : points[s] = StartPoints + earned[s]

\* Points are given twice only after a crash or the loss of a node.
CreditedOnce ==
  crashes = 0 /\ ownersLost = 0 => \A i \in 1..MaxEvents : credited[i] <= 1

-----------------------------------------------------------------------------
\* The ledger of points this implements: the points of an event are given when the
\* transaction of PointTask commits, and confirmed with the stored offset.
Ledger == INSTANCE PointLedger WITH
            given <- credited,
            confirmed <- offset,
            failures <- crashes + ownersLost

\* Every step of the consumer and the grid is one of the ledger or changes nothing in
\* it, though executions that outlive their consumer overlap with those of its
\* successor: no event is passed over or overtakes another, no points are lost to a
\* concurrent execution, and none are given twice before something fails.
ImplementsLedger == Ledger!Spec
=============================================================================
