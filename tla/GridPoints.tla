----------------------------- MODULE GridPoints ------------------------------
(***************************************************************************)
(* From the wallet to the points: GridPayment and PointPipeline together.  *)
(* PaymentResource emits the event of a payment after the grid has made    *)
(* it, and answers without waiting for the broker: what send() returns is  *)
(* dropped.  The emitter hands its events to the broker in order, and      *)
(* those the broker refuses are gone.                                      *)
(*                                                                         *)
(* A payment is the request that made it, as in GridPayment.  The two      *)
(* applications share nothing but the topic, and the caches of the two     *)
(* tasks are disjoint.                                                     *)
(***************************************************************************)
EXTENDS GridPayment, Sequences

CONSTANTS First, StartPoints, MaxEvents, MaxRuns, MaxCrashes, MaxOwnerLost

VARIABLES
  outbox,   \* payments whose events the emitter holds
  log, offset, position, consumer, current, runs, points, pointVer, crashes,
  ownersLost, credited, earned,   \* of PointPipeline
  origin    \* history: the payments that the events in the topic are of

Points == INSTANCE PointPipeline

ASSUME PointsAssumption == Points!PointAssumption

pointVars == <<log, offset, position, consumer, current, runs, points, pointVer,
               credited, earned, crashes, ownersLost>>
systemVars == <<vars, outbox, origin, pointVars>>

InitP ==
  /\ Init
  /\ Points!Init
  /\ outbox = <<>>
  /\ origin = <<>>

\* new PaymentEvent(...), of the payment that the task gave back.
EventOf(r) == [owner |-> Payer(r), amount |-> AmountOf(r)]

\* Slip: the emitter keeps the latest event only.
Latest(r) == <<reply[r]>>

\* paymentEmitter.send(): the overflow strategy is a buffer.
Emitted(r) == Append(outbox, reply[r])

\* What the servers do for a request, Notify with the event it emits.
ServeP(r) ==
  /\ Serve(r)
  /\ outbox' = IF At(r, "notify") THEN Emitted(r) ELSE outbox
  /\ UNCHANGED <<origin, pointVars>>

\* The broker has the event.
PublishP ==
  /\ outbox # <<>>
  /\ Points!Publish(EventOf(Head(outbox)))
  /\ outbox' = Tail(outbox)
  /\ origin' = Append(origin, Head(outbox))
  /\ UNCHANGED vars

\* The broker refuses the event for good; nobody looks at the failed stage.
Refuse ==
  /\ Fault("nack")
  /\ outbox # <<>>
  /\ outbox' = Tail(outbox)
  /\ UNCHANGED <<walletVars, tokenVars, paymentVars, pc, arg, taskVars, reply,
                 historyVars, origin, pointVars>>

\* Clients and faults of the payment, as they are.
Others ==
  /\ \/ \E r \in Request : Submit(r)
     \/ \E k \in Key : CreateToken(k)
     \/ Disturb
  /\ UNCHANGED <<outbox, origin, pointVars>>

\* The point application and its task at work,
Reward ==
  /\ Points!Start \/ Points!Receive \/ Points!Return \/ Points!Execute
  /\ UNCHANGED <<vars, outbox, origin>>

\* and what may happen to them.
Upset ==
  /\ Points!StoreOffset \/ Points!Crash \/ Points!OwnerLost
  /\ UNCHANGED <<vars, outbox, origin>>

NextP ==
  \/ \E r \in Request : ServeP(r)
  \/ PublishP \/ Refuse
  \/ Others \/ Reward \/ Upset

SpecP == InitP /\ [][NextP]_systemVars

\* Payments are served, the emitter and the point application keep working.  A
\* consumer that has stopped is not restarted by anything: the deployment has no probe.
KeepsGoing ==
  /\ \A r \in Request : WF_systemVars(ServeP(r))
  /\ WF_systemVars(PublishP)
  /\ WF_systemVars(Reward)

FairSpecP == SpecP /\ KeepsGoing

-----------------------------------------------------------------------------
\* The events that were emitted and not refused, oldest first.
Emissions == origin \o outbox

EventsOf(k) == {i \in DOMAIN Emissions : KeyOf(Emissions[i]) = k}

\* There is no event that was not paid for: whatever is re-executed, evicted or
\* issued again under the same id, a token never has more events than debits,
\* though the event is built from what is stored after the transaction is over.
NoEventForNothing == \A k \in Key : Cardinality(EventsOf(k)) <= debited[k]

\* What the payments of a shopper are worth, point by point.
PointsDue(s) ==
  UNION {{r} \X (1..charged[r]) \X (1..Points!PointsFor(AmountOf(r))) :
           r \in {q \in Request : Payer(q) = s}}

Worth(s) == Cardinality(PointsDue(s))

Settled ==
  /\ \A r \in Request : pc[r] \in {"idle", "done"}
  /\ outbox = <<>>
  /\ consumer = "idle" /\ position = Len(log)

Faultless == faults = 0 /\ \A k \in Key : issued[k] <= 1

\* When everything has come to rest and no payment has failed, the points of a shopper
\* are those of the money that was taken from the wallet, to the point; a crash of the
\* point application, or of a grid node in PointTask, may give some twice, but it never
\* takes any, except from the shopper whose entry every start puts anew.
PointsMatchSpending ==
  Settled /\ Faultless
    => /\ \A s \in DOMAIN points \ {First} : points[s] >= StartPoints + Worth(s)
       /\ crashes = 0 /\ ownersLost = 0
            => \A s \in DOMAIN points : points[s] = StartPoints + Worth(s)

Rewarded(r) == \E i \in DOMAIN origin : origin[i] = r /\ credited[i] >= 1

\* Neither had an entry from somewhere else nor gets one from InitialProcess.
WithoutEntry(s) == s \notin DOMAIN points \cup {First}

\* The event is in the topic, but it is of a shopper without an entry or behind such an
\* event, on which PointTask fails and the consumer stops.
Blocked(r) ==
  \E i \in DOMAIN origin :
    origin[i] = r /\ \E j \in 1..i : WithoutEntry(log[j].owner)

\* Who was charged gets the points in the end, unless something fails on the way, the id
\* of the token is in use twice, or the consumer meets the event of a shopper who has no
\* entry, as nobody has in the code but shopper 1 (InitialProcess:33): such a payment is
\* not rewarded, and none behind it in the topic.  All before it are, and it is itself
\* in the topic: no event is left behind between the grid, the emitter, the topic and
\* the task.
PaidIsRewarded ==
  \A r \in Request :
    charged[r] >= 1
      ~> \/ Rewarded(r) \/ Blocked(r)
         \/ faults > 0 \/ crashes > 0 \/ ownersLost > 0
         \/ issued[KeyOf(r)] > 1
=============================================================================
