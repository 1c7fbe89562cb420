------------------------ MODULE PointPipeline_proofs ------------------------
(***************************************************************************)
(* Proofs about PointPipeline, for every set of shoppers, every number of  *)
(* events and executions, of crashes and of lost nodes.                    *)
(***************************************************************************)
EXTENDS PointPipeline, SequenceTheorems, FiniteSetTheorems, TLAPS

RunState == {"add", "commit", "done", "failed", "lost"}

RunType == [event : 1..MaxEvents, ver : Nat, sum : Nat, at : RunState]

\* Executions are of events in the topic; the one that the consumer waits for is of
\* the event that it handles.
RunsInLog == \A n \in 1..Len(runs) : runs[n].event <= Len(log)

CurrentEvent ==
  consumer = "waiting" =>
    position < Len(log) /\ runs[current].event = position + 1

\* An execution that is done has added its points; so has every event that the
\* consumer has passed, and the offset is not ahead of the consumer.
DoneIsCredited ==
  \A n \in 1..Len(runs) : runs[n].at = "done" => credited[runs[n].event] >= 1

PositionCredited ==
  /\ offset <= position
  /\ \A i \in 1..position : credited[i] >= 1

\* As long as the entry has the version that an execution has read, the sum to be
\* stored is the entry with the event's points; and the version does not come back.
OwnerOf(n) == log[runs[n].event].owner

AsRead(n) ==
  /\ OwnerOf(n) \in DOMAIN points
  /\ runs[n].ver <= pointVer[OwnerOf(n)]
  /\ runs[n].ver = pointVer[OwnerOf(n)] =>
       runs[n].sum = points[OwnerOf(n)] + PointsFor(log[runs[n].event].amount)

CommitAsRead == \A n \in 1..Len(runs) : runs[n].at = "commit" => AsRead(n)

PointInv ==
  /\ TypeOK
  /\ RunsInLog /\ CurrentEvent
  /\ DoneIsCredited /\ PositionCredited
  /\ CommitAsRead /\ PointsAddUp

-----------------------------------------------------------------------------
(* What the actions do to the executions.                                  *)

\* Points are natural numbers.
LEMMA PointsForNat == \A a \in Nat : PointsFor(a) \in Nat
BY DEF PointsFor

\* The sequences of TypeOK, element by element.
LEMMA Elements ==
  ASSUME TypeOK
  PROVE  /\ Len(log) \in Nat /\ Len(runs) \in Nat
         /\ runs \in Seq(RunType)
         /\ \A i \in 1..Len(log) : log[i] \in Event
         /\ \A n \in 1..Len(runs) : runs[n] \in RunType
<1>1. log \in Seq(Event) /\ runs \in Seq(RunType)
  BY DEF TypeOK, RunType, RunState
<1> QED
  BY <1>1, LenProperties, ElementOfSeq

\* The event of an execution is in the topic, its owner is a shopper.
LEMMA EventOfRun ==
  ASSUME TypeOK, RunsInLog, NEW n \in 1..Len(runs)
  PROVE  /\ runs[n].event \in 1..Len(log)
         /\ runs[n].event \in 1..MaxEvents
         /\ log[runs[n].event].owner \in Shopper
         /\ log[runs[n].event].amount \in Nat
<1>1. runs[n] \in RunType /\ runs[n].event <= Len(log) /\ Len(log) \in Nat
  BY Elements DEF RunsInLog
<1>2. runs[n].event \in 1..MaxEvents
  BY <1>1 DEF RunType
<1>3. runs[n].event \in 1..Len(log)
  BY <1>1, <1>2, PointAssumption
<1>4. log[runs[n].event] \in Event
  BY <1>3, Elements
<1> QED
  BY <1>2, <1>3, <1>4, PointAssumption DEF Event

\* A new execution, of event i.
Fresh(i) == [event |-> i, at |-> "add", ver |-> 0, sum |-> 0]

\* A new execution is at the end of the list, the others stay.
LEMMA DispatchEffect ==
  ASSUME TypeOK, NEW i \in 1..MaxEvents, runs' = Append(runs, Fresh(i))
  PROVE  /\ runs' \in Seq(RunType)
         /\ Len(runs') = Len(runs) + 1
         /\ \A n \in 1..Len(runs) : runs'[n] = runs[n]
         /\ runs'[Len(runs) + 1] = Fresh(i)
<1>1. Fresh(i) \in RunType
  BY DEF Fresh, RunType, RunState
<1>2. runs \in Seq(RunType)
  BY Elements
<1> QED
  BY <1>1, <1>2, AppendProperties

\* One execution is exchanged for another.
LEMMA Exchanged ==
  ASSUME TypeOK, NEW n \in 1..Len(runs), NEW r \in RunType,
         runs' = [runs EXCEPT ![n] = r]
  PROVE  /\ runs' \in Seq(RunType)
         /\ Len(runs') = Len(runs)
         /\ \A m \in 1..Len(runs) : runs'[m] = IF m = n THEN r ELSE runs[m]
<1>1. runs \in Seq(RunType)
  BY Elements
<1> QED
  BY <1>1, ExceptSeq

-----------------------------------------------------------------------------
(* The invariant holds at first, and every action keeps it.                *)

\* The initial states satisfy the invariant.
LEMMA InitInv == Init => PointInv
<1> SUFFICES ASSUME Init PROVE PointInv
  OBVIOUS
<1> USE PointAssumption DEF Init
<1>1. Len(log) = 0 /\ Len(runs) = 0 /\ log \in Seq(Event) /\ runs \in Seq(RunType)
  BY EmptySeq
<1>2. TypeOK
  BY <1>1 DEF TypeOK, NoRun, RunType, RunState
<1>3. RunsInLog /\ CurrentEvent /\ DoneIsCredited /\ PositionCredited /\ CommitAsRead
  BY <1>1 DEF RunsInLog, CurrentEvent, DoneIsCredited, PositionCredited, CommitAsRead
<1>4. PointsAddUp
  BY DEF PointsAddUp
<1> QED
  BY <1>2, <1>3, <1>4 DEF PointInv

\* An event at the end of the topic is behind everything received.
LEMMA PublishInv ==
  ASSUME PointInv, NEW e \in Event, Publish(e)
  PROVE  PointInv'
<1> USE PointAssumption DEF PointInv
<1>1. /\ log' \in Seq(Event) /\ Len(log') = Len(log) + 1 /\ Len(log) \in Nat
      /\ \A i \in 1..Len(log) : log'[i] = log[i]
  BY AppendProperties, Elements DEF Publish, TypeOK
<1>2. UNCHANGED <<offset, position, consumer, current, gridVars, crashes, ownersLost>>
  BY DEF Publish
<1>3. \A n \in 1..Len(runs) : log'[runs[n].event] = log[runs[n].event]
  BY <1>1, EventOfRun
<1>4. Len(log') <= MaxEvents
  BY <1>1 DEF Publish, TypeOK
<1>5. TypeOK'
  BY <1>1, <1>2, <1>4 DEF TypeOK, gridVars
<1>6. RunsInLog'
  <2>1. \A n \in 1..Len(runs) : runs[n].event \in Nat
    BY EventOfRun
  <2> QED
    BY <1>1, <1>2, <2>1 DEF RunsInLog, gridVars
<1>7. CurrentEvent'
  BY <1>1, <1>2 DEF CurrentEvent, gridVars, TypeOK
<1>8. DoneIsCredited' /\ PositionCredited' /\ PointsAddUp'
  BY <1>2 DEF DoneIsCredited, PositionCredited, PointsAddUp, gridVars
<1>9. CommitAsRead'
  BY <1>2, <1>3 DEF CommitAsRead, AsRead, OwnerOf, gridVars
<1> QED
  BY <1>5, <1>6, <1>7, <1>8, <1>9

\* The entry that is put has a version of its own: nothing read before commits on it.
LEMMA StartInv ==
  ASSUME PointInv, Start
  PROVE  PointInv'
<1> USE PointAssumption DEF PointInv
<1>1. /\ UNCHANGED <<log, offset, current, runs, crashes, ownersLost, credited>>
      /\ consumer' = "idle" /\ position' = offset
      /\ DOMAIN points' = DOMAIN points \cup {First}
  BY DEF Start
<1>2. \A s \in DOMAIN points' :
        points'[s] = IF s = First THEN StartPoints ELSE points[s]
  BY DEF Start
<1>3. /\ pointVer' \in [Shopper -> Nat] /\ earned' \in [Shopper -> Nat]
      /\ pointVer'[First] = pointVer[First] + 1 /\ earned'[First] = 0
      /\ \A s \in Shopper \ {First} : pointVer'[s] = pointVer[s] /\ earned'[s] = earned[s]
  <2>1. /\ pointVer \in [Shopper -> Nat] /\ earned \in [Shopper -> Nat]
        /\ First \in Shopper
    BY DEF TypeOK
  <2>2. /\ pointVer' = [pointVer EXCEPT ![First] = @ + 1]
        /\ earned' = [earned EXCEPT ![First] = 0]
    BY DEF Start
  <2> HIDE DEF PointInv
  <2>3. pointVer' \in [Shopper -> Nat] /\ pointVer'[First] = pointVer[First] + 1
    BY <2>1, <2>2
  <2>4. earned' \in [Shopper -> Nat] /\ earned'[First] = 0
    BY <2>1, <2>2
  <2>5. \A s \in Shopper \ {First} : pointVer'[s] = pointVer[s] /\ earned'[s] = earned[s]
    BY <2>1, <2>2
  <2> QED
    BY <2>3, <2>4, <2>5
<1>4. TypeOK'
  <2>1. DOMAIN points' \subseteq Shopper
    BY <1>1 DEF TypeOK
  <2>2. \A s \in DOMAIN points' : points'[s] \in Nat
    BY <1>1, <1>2 DEF TypeOK
  <2>3. current' = NoRun
    BY <1>1 DEF TypeOK, Start
  <2> QED
    BY <1>1, <1>3, <2>1, <2>2, <2>3 DEF TypeOK
<1>5. RunsInLog' /\ CurrentEvent' /\ DoneIsCredited'
  BY <1>1 DEF RunsInLog, CurrentEvent, DoneIsCredited
<1>6. PositionCredited'
  BY <1>1 DEF PositionCredited, TypeOK
<1>7. CommitAsRead'
  <2> SUFFICES ASSUME NEW n \in 1..Len(runs), runs[n].at = "commit"
               PROVE  AsRead(n)'
    BY <1>1 DEF CommitAsRead
  <2>1. OwnerOf(n) \in Shopper /\ OwnerOf(n)' = OwnerOf(n) /\ AsRead(n)
    BY <1>1, EventOfRun DEF OwnerOf, CommitAsRead
  <2>2. runs[n].ver \in Nat
    BY Elements DEF RunType
  <2>3. pointVer[OwnerOf(n)] \in Nat
    BY <2>1 DEF TypeOK
  <2>4. CASE OwnerOf(n) = First
    BY <1>1, <1>3, <2>1, <2>2, <2>3, <2>4 DEF AsRead
  <2>5. CASE OwnerOf(n) # First
    BY <1>1, <1>2, <1>3, <2>1, <2>5 DEF AsRead
  <2> QED
    BY <2>4, <2>5
<1>8. PointsAddUp'
  <2>1. DOMAIN points \subseteq Shopper
    BY DEF TypeOK
  <2> QED
    BY <1>1, <1>2, <1>3, <2>1 DEF PointsAddUp
<1> QED
  BY <1>4, <1>5, <1>6, <1>7, <1>8

\* A new execution of the event that the consumer handles, by Receive or after the
\* loss of a node: what was there of the others, except one that may be lost.
LEMMA NewRunInv ==
  ASSUME PointInv,
         position < Len(log),
         Len(runs) < MaxRuns,
         NEW old \in Seq(RunType), Len(old) = Len(runs),
         \A n \in 1..Len(runs) :
           old[n].event = runs[n].event /\ (old[n] = runs[n] \/ old[n].at = "lost"),
         runs' = Append(old, Fresh(position + 1)),
         current' = Len(runs) + 1, consumer' = "waiting",
         ownersLost' \in 0..MaxOwnerLost,
         UNCHANGED <<log, offset, position, points, pointVer, crashes, credited, earned>>
  PROVE  PointInv'
<1> USE PointAssumption DEF PointInv
<1>1. /\ position + 1 \in 1..MaxEvents /\ position \in Nat
      /\ Len(log) \in Nat /\ Len(runs) \in Nat
  BY Elements DEF TypeOK
<1>2. Fresh(position + 1) \in RunType
  BY <1>1 DEF Fresh, RunType, RunState
<1>3. /\ runs' \in Seq(RunType)
      /\ Len(runs') = Len(runs) + 1
      /\ \A n \in 1..Len(runs) : runs'[n] = old[n]
      /\ runs'[Len(runs) + 1] = Fresh(position + 1)
  BY <1>2, AppendProperties
<1>4. \A n \in 1..Len(runs') : n \in 1..Len(runs) \/ n = Len(runs) + 1
  BY <1>1, <1>3
<1>5. TypeOK'
  <2>1. current' \in 0..Len(runs') /\ current' # NoRun
    BY <1>1, <1>3 DEF NoRun
  <2>2. runs' \in Seq([event : 1..MaxEvents, ver : Nat, sum : Nat,
                      at : {"add", "commit", "done", "failed", "lost"}])
    BY <1>3 DEF RunType, RunState
  <2> QED
    BY <2>1, <2>2 DEF TypeOK
<1>6. RunsInLog'
  <2> SUFFICES ASSUME NEW n \in 1..Len(runs') PROVE runs'[n].event <= Len(log)
    BY DEF RunsInLog
  <2>1. CASE n \in 1..Len(runs)
    BY <1>3, <2>1 DEF RunsInLog
  <2>2. CASE n = Len(runs) + 1
    BY <1>1, <1>3, <2>2 DEF Fresh
  <2> QED
    BY <1>4, <2>1, <2>2
<1>7. CurrentEvent'
  BY <1>3 DEF CurrentEvent, Fresh
<1>8. DoneIsCredited'
  <2> SUFFICES ASSUME NEW n \in 1..Len(runs'), runs'[n].at = "done"
               PROVE  credited[runs'[n].event] >= 1
    BY DEF DoneIsCredited
  <2>1. CASE n \in 1..Len(runs)
    BY <1>3, <2>1 DEF DoneIsCredited
  <2>2. CASE n = Len(runs) + 1
    BY <1>3, <2>2 DEF Fresh
  <2> QED
    BY <1>4, <2>1, <2>2
<1>9. PositionCredited' /\ PointsAddUp'
  BY DEF PositionCredited, PointsAddUp
<1>10. CommitAsRead'
  <2> SUFFICES ASSUME NEW n \in 1..Len(runs'), runs'[n].at = "commit"
               PROVE  AsRead(n)'
    BY DEF CommitAsRead
  <2>1. CASE n \in 1..Len(runs)
    BY <1>3, <2>1 DEF CommitAsRead, AsRead, OwnerOf
  <2>2. CASE n = Len(runs) + 1
    BY <1>3, <2>2 DEF Fresh
  <2> QED
    BY <1>4, <2>1, <2>2
<1> QED
  BY <1>5, <1>6, <1>7, <1>8, <1>9, <1>10

\* The consumer receives the event after its position.
LEMMA ReceiveInv ==
  ASSUME PointInv, Receive
  PROVE  PointInv'
<1>1. runs \in Seq(RunType)
  BY Elements DEF PointInv
<1>2. /\ position < Len(log) /\ Len(runs) < MaxRuns
      /\ runs' = Append(runs, Fresh(position + 1))
      /\ current' = Len(runs) + 1 /\ consumer' = "waiting"
      /\ UNCHANGED <<log, offset, position, points, pointVer, crashes, credited, earned>>
  BY DEF Receive, Dispatch, Fresh
<1>3. ownersLost' \in 0..MaxOwnerLost
  BY DEF Receive, PointInv, TypeOK
<1> QED
  BY <1>1, <1>2, <1>3, NewRunInv

\* A lost node fails an execution, or the client runs it again for the same event.
LEMMA OwnerLostInv ==
  ASSUME PointInv, OwnerLost
  PROVE  PointInv'
<1> USE PointAssumption
<1>1. current \in 1..Len(runs) /\ runs[current] \in RunType /\ position < Len(log)
  <2>1. consumer = "waiting" /\ TypeOK
    BY DEF OwnerLost, PointInv
  <2>2. current \in 1..Len(runs)
    BY <2>1, Elements DEF TypeOK, NoRun
  <2>3. runs[current] \in RunType
    BY <2>1, <2>2, Elements
  <2> QED
    BY <2>1, <2>2, <2>3 DEF PointInv, CurrentEvent
<1> DEFINE at == IF runs[current].at = "done" THEN "done" ELSE "lost"
           old == [runs EXCEPT ![current] = [runs[current] EXCEPT !.at = at]]
<1>2. runs' = Append(old, Fresh(position + 1))
  BY DEF OwnerLost, Fresh
<1>3. [runs[current] EXCEPT !.at = at] \in RunType
  BY <1>1 DEF RunType, RunState
<1>4. old \in Seq(RunType) /\ Len(old) = Len(runs)
      /\ \A n \in 1..Len(runs) :
           old[n] = IF n = current THEN [runs[current] EXCEPT !.at = at] ELSE runs[n]
  BY <1>1, <1>3, Elements, ExceptSeq DEF PointInv
<1>5. \A n \in 1..Len(runs) :
        old[n].event = runs[n].event /\ (old[n] = runs[n] \/ old[n].at = "lost")
  <2>1. CASE runs[current].at = "done"
    <3>1. [runs[current] EXCEPT !.at = at] = runs[current]
      BY <1>1, <2>1 DEF RunType
    <3> QED
      BY <1>4, <3>1
  <2>2. CASE runs[current].at # "done"
    <3>1. /\ [runs[current] EXCEPT !.at = at].at = "lost"
          /\ [runs[current] EXCEPT !.at = at].event = runs[current].event
      BY <1>1, <2>2 DEF RunType
    <3> QED
      BY <1>4, <3>1
  <2> QED
    BY <2>1, <2>2
<1>6. Len(runs) < MaxRuns /\ current' = Len(runs) + 1 /\ consumer' = "waiting"
      /\ UNCHANGED <<log, offset, position, points, pointVer, crashes, credited, earned>>
  BY DEF OwnerLost
<1>7. ownersLost' \in 0..MaxOwnerLost
  BY DEF OwnerLost, PointInv, TypeOK
<1> HIDE DEF old
<1> QED
  BY <1>1, <1>2, <1>4, <1>5, <1>6, <1>7, NewRunInv

\* The consumer gets past an event only when its execution is done.
LEMMA ReturnInv ==
  ASSUME PointInv, Return
  PROVE  PointInv'
<1> USE PointAssumption DEF PointInv
<1>1. /\ UNCHANGED <<log, offset, runs, points, pointVer, credited, earned>>
      /\ UNCHANGED <<crashes, ownersLost>>
      /\ current' = NoRun /\ consumer' \in {"idle", "stopped"}
  BY DEF Return, Forget, gridVars
<1>2. /\ position \in Nat /\ Len(log) \in Nat /\ position < Len(log)
      /\ current \in 1..Len(runs) /\ runs[current].event = position + 1
  BY Elements DEF TypeOK, CurrentEvent, Return, NoRun
<1>3. \/ position' = position
      \/ position' = position + 1 /\ runs[current].at = "done"
  BY DEF Return, Advanced
<1>4. position' \in 0..Len(log)
  BY <1>2, <1>3
<1>5. TypeOK'
  <2>1. /\ current' = 0 /\ consumer' # "waiting"
        /\ consumer' \in {"down", "idle", "waiting", "stopped"}
    BY <1>1 DEF NoRun
  <2>2. current' \in 0..Len(runs')
    BY <1>1, <2>1, Elements
  <2> QED
    BY <1>1, <1>4, <2>1, <2>2 DEF TypeOK, NoRun
<1>6. RunsInLog' /\ CurrentEvent' /\ DoneIsCredited' /\ PointsAddUp'
  BY <1>1 DEF RunsInLog, CurrentEvent, DoneIsCredited, PointsAddUp
<1>7. PositionCredited'
  <2>1. CASE position' = position
    BY <1>1, <2>1 DEF PositionCredited
  <2>2. CASE position' = position + 1 /\ runs[current].at = "done"
    <3>1. credited[position + 1] >= 1
      BY <1>2, <2>2 DEF DoneIsCredited
    <3>2. \A i \in 1..position' : i \in 1..position \/ i = position + 1
      BY <1>2, <2>2
    <3>3. offset <= position + 1
      BY <1>2 DEF TypeOK, PositionCredited
    <3> QED
      BY <1>1, <2>2, <3>1, <3>2, <3>3 DEF PositionCredited
  <2> QED
    BY <1>3, <2>1, <2>2
<1>8. CommitAsRead'
  BY <1>1 DEF CommitAsRead, AsRead, OwnerOf
<1> QED
  BY <1>5, <1>6, <1>7, <1>8

\* The offset stored is one that the consumer has passed.
LEMMA StoreOffsetInv ==
  ASSUME PointInv, StoreOffset
  PROVE  PointInv'
<1> USE PointAssumption DEF PointInv
<1>1. /\ UNCHANGED <<log, position, consumer, current, gridVars, crashes, ownersLost>>
      /\ offset' = position
  BY DEF StoreOffset, Storable
<1>2. TypeOK'
  BY <1>1 DEF TypeOK, gridVars
<1>3. PositionCredited'
  BY <1>1 DEF PositionCredited, TypeOK, gridVars
<1> QED
  BY <1>1, <1>2, <1>3
     DEF RunsInLog, CurrentEvent, DoneIsCredited, PointsAddUp, CommitAsRead, AsRead,
         OwnerOf, gridVars

\* A consumer that dies goes back to the offset, never beyond it.
LEMMA CrashInv ==
  ASSUME PointInv, Crash
  PROVE  PointInv'
<1> USE PointAssumption DEF PointInv
<1>1. /\ UNCHANGED <<log, offset, position, gridVars, ownersLost>>
      /\ current' = 0 /\ consumer' = "down" /\ crashes' \in 0..MaxCrashes
  BY DEF Crash, Forget, NoRun, TypeOK
<1>2. TypeOK'
  <2>1. current' \in 0..Len(runs)
    BY <1>1, Elements
  <2> QED
    BY <1>1, <2>1 DEF TypeOK, gridVars, NoRun
<1> QED
  BY <1>1, <1>2
     DEF RunsInLog, CurrentEvent, DoneIsCredited, PositionCredited, PointsAddUp,
         CommitAsRead, AsRead, OwnerOf, gridVars

\* An execution that fails is the same but for that.
LEMMA Fails ==
  ASSUME NEW run \in RunType, NEW new, new = [run EXCEPT !.at = "failed"]
  PROVE  new \in RunType /\ new.event = run.event /\ new.at = "failed"
BY DEF RunType, RunState

\* The sum is made of the entry that is there, and remembered with its version.
LEMMA AddEffect ==
  ASSUME PointInv, NEW n \in 1..Len(runs), Add(n)
  PROVE  \E r \in RunType :
           /\ runs' = [runs EXCEPT ![n] = r]
           /\ r.event = runs[n].event /\ r.at \in {"commit", "failed"}
           /\ r.at = "commit" =>
                /\ OwnerOf(n) \in DOMAIN points
                /\ r.ver = pointVer[OwnerOf(n)]
                /\ r.sum = points[OwnerOf(n)] + PointsFor(log[runs[n].event].amount)
           /\ r.at = "failed" => OwnerOf(n) \notin DOMAIN points
<1> USE PointAssumption DEF PointInv
<1> DEFINE s == OwnerOf(n)
           sum == points[s] + PointsFor(log[runs[n].event].amount)
<1>1. runs[n] \in RunType /\ runs[n].at = "add"
  BY Elements DEF Add
<1>2. s \in Shopper /\ log[runs[n].event].amount \in Nat
  BY EventOfRun DEF OwnerOf
<1>3. CASE s \in DOMAIN points
  <2>1. pointVer[s] \in Nat /\ points[s] \in Nat
    BY <1>2, <1>3 DEF TypeOK
  <2>2. PointsFor(log[runs[n].event].amount) \in Nat
    BY <1>2, PointsForNat
  <2>3. sum \in Nat
    BY <2>1, <2>2
  <2> DEFINE ver == pointVer[s]
             new == [runs[n] EXCEPT !.at = "commit", !.ver = ver, !.sum = sum]
  <2>4. runs' = [runs EXCEPT ![n] = new]
    BY <1>3 DEF Add, OwnerOf
  <2> HIDE DEF ver, sum
  <2>5. /\ new \in RunType /\ new.event = runs[n].event
        /\ new.at = "commit" /\ new.ver = ver /\ new.sum = sum
    <3>1. ver \in Nat
      BY <2>1 DEF ver
    <3>2. new = [runs[n] EXCEPT !.at = "commit", !.ver = ver, !.sum = sum]
      OBVIOUS
    <3> HIDE DEF new
    <3> QED
      BY ONLY <1>1, <2>3, <3>1, <3>2 DEF RunType, RunState
  <2> HIDE DEF new
  <2> QED
    BY <1>3, <2>4, <2>5 DEF ver, sum
<1>4. CASE s \notin DOMAIN points
  <2> DEFINE new == [runs[n] EXCEPT !.at = "failed"]
  <2>1. runs' = [runs EXCEPT ![n] = new]
    BY <1>4 DEF Add, OwnerOf
  <2>2. new \in RunType /\ new.event = runs[n].event /\ new.at = "failed"
    BY <1>1, Fails
  <2> HIDE DEF new
  <2> QED
    BY <1>4, <2>1, <2>2
<1> QED
  BY <1>3, <1>4

\* PointTask computes the sum from the entry and its version.
LEMMA AddInv ==
  ASSUME PointInv, NEW n \in 1..Len(runs), Add(n)
  PROVE  PointInv'
<1> USE PointAssumption DEF PointInv
<1> DEFINE s == OwnerOf(n)
           sum == points[s] + PointsFor(log[runs[n].event].amount)
<1>1. runs[n] \in RunType /\ runs[n].at = "add"
  BY Elements DEF Add
<1>2. s \in Shopper
  BY EventOfRun DEF OwnerOf
<1>3. PICK r \in RunType :
        /\ runs' = [runs EXCEPT ![n] = r]
        /\ r.event = runs[n].event /\ r.at \in {"commit", "failed"}
        /\ r.at = "commit" =>
             s \in DOMAIN points /\ r.ver = pointVer[s] /\ r.sum = sum
  BY AddEffect
<1>4. /\ UNCHANGED <<log, offset, position, consumer, current, points, pointVer,
                     crashes, ownersLost, credited, earned>>
  BY DEF Add
<1>5. /\ runs' \in Seq(RunType) /\ Len(runs') = Len(runs)
      /\ \A m \in 1..Len(runs) : runs'[m] = IF m = n THEN r ELSE runs[m]
  BY <1>3, Exchanged
<1>6. TypeOK'
  <2>1. runs' \in Seq([event : 1..MaxEvents, ver : Nat, sum : Nat,
                      at : {"add", "commit", "done", "failed", "lost"}])
    BY <1>5 DEF RunType, RunState
  <2> QED
    BY <1>4, <1>5, <2>1 DEF TypeOK
<1>7. RunsInLog' /\ CurrentEvent' /\ DoneIsCredited'
  <2>1. \A m \in 1..Len(runs) : runs'[m].event = runs[m].event
    BY <1>3, <1>5
  <2>2. \A m \in 1..Len(runs) : runs'[m].at = "done" => runs[m].at = "done"
    BY <1>3, <1>5
  <2>3. consumer = "waiting" => current \in 1..Len(runs)
    BY Elements DEF TypeOK, NoRun
  <2> QED
    BY <1>4, <1>5, <2>1, <2>2, <2>3 DEF RunsInLog, CurrentEvent, DoneIsCredited
<1>8. PositionCredited' /\ PointsAddUp'
  BY <1>4 DEF PositionCredited, PointsAddUp
<1>9. CommitAsRead'
  <2> SUFFICES ASSUME NEW m \in 1..Len(runs), runs'[m].at = "commit"
               PROVE  AsRead(m)'
    BY <1>5 DEF CommitAsRead
  <2>1. CASE m = n
    <3>1. pointVer[s] \in Nat
      BY <1>2 DEF TypeOK
    <3> QED
      BY <1>4, <1>3, <1>5, <2>1, <3>1 DEF AsRead, OwnerOf
  <2>2. CASE m # n
    BY <1>4, <1>5, <2>2 DEF CommitAsRead, AsRead, OwnerOf
  <2> QED
    BY <2>1, <2>2
<1> QED
  BY <1>6, <1>7, <1>8, <1>9

\* A commit finds the version that was read, or fails.
LEMMA CommitEffect ==
  ASSUME PointInv, NEW n \in 1..Len(runs), Commit(n)
  PROVE  \E r \in RunType :
           /\ runs' = [runs EXCEPT ![n] = r]
           /\ r.event = runs[n].event
           /\ r.at = IF runs[n].ver = pointVer[OwnerOf(n)] THEN "done" ELSE "failed"
<1> DEFINE at == IF runs[n].ver = pointVer[OwnerOf(n)] THEN "done" ELSE "failed"
           r == [event |-> runs[n].event, at |-> at,
                 ver |-> runs[n].ver, sum |-> runs[n].sum]
<1>1. runs[n] \in RunType
  BY Elements DEF PointInv
<1>2. r \in RunType
  BY <1>1 DEF RunType, RunState
<1>3. runs' = [runs EXCEPT ![n] = r]
  <2>1. runs' = [runs EXCEPT ![n] = [runs[n] EXCEPT !.at = at]]
    BY DEF Commit, Unchanged, OwnerOf
  <2>2. [runs[n] EXCEPT !.at = at] = r
    BY <1>1 DEF RunType
  <2> QED
    BY <2>1, <2>2
<1>4. r.event = runs[n].event /\ r.at = at
  OBVIOUS
<1> HIDE DEF r
<1> QED
  BY <1>2, <1>3, <1>4

\* A commit raises the version of the entry, so that every other execution that has
\* read the entry before will see the conflict.
LEMMA CommitInv ==
  ASSUME PointInv, NEW n \in 1..Len(runs), Commit(n)
  PROVE  PointInv'
<1> USE PointAssumption DEF PointInv
<1> DEFINE i == runs[n].event
           s == OwnerOf(n)
           at == IF runs[n].ver = pointVer[s] THEN "done" ELSE "failed"
<1>1. runs[n] \in RunType /\ runs[n].at = "commit" /\ AsRead(n)
  BY Elements DEF Commit, CommitAsRead
<1>2. i \in 1..MaxEvents /\ i \in 1..Len(log) /\ s \in Shopper /\ log[i].amount \in Nat
  BY EventOfRun DEF OwnerOf
<1>3. PICK r \in RunType : runs' = [runs EXCEPT ![n] = r] /\ r.event = i /\ r.at = at
  BY CommitEffect
<1>4. at \in {"done", "failed"}
  OBVIOUS
<1>5. UNCHANGED <<log, offset, position, consumer, current, crashes, ownersLost>>
  BY DEF Commit
<1>6. /\ runs' \in Seq(RunType) /\ Len(runs') = Len(runs)
      /\ \A m \in 1..Len(runs) : runs'[m] = IF m = n THEN r ELSE runs[m]
  BY <1>3, Exchanged
<1>7. /\ \A m \in 1..Len(runs) : runs'[m].event = runs[m].event
      /\ \A m \in 1..Len(runs) : runs'[m].at = "commit" => m # n /\ runs'[m] = runs[m]
  BY <1>3, <1>4, <1>6
<1>8. consumer = "waiting" => current \in 1..Len(runs)
  BY Elements DEF TypeOK, NoRun
<1>9. RunsInLog' /\ CurrentEvent'
  BY <1>5, <1>6, <1>7, <1>8 DEF RunsInLog, CurrentEvent
<1>10. runs' \in Seq([event : 1..MaxEvents, ver : Nat, sum : Nat,
                     at : {"add", "commit", "done", "failed", "lost"}])
  BY <1>6 DEF RunType, RunState
<1>11. CASE runs[n].ver # pointVer[s]
  <2>1. UNCHANGED <<points, pointVer, credited, earned>> /\ at = "failed"
    BY <1>11 DEF Commit, Unchanged, OwnerOf
  <2>2. TypeOK'
    BY <1>5, <1>6, <1>10, <2>1 DEF TypeOK
  <2>3. DoneIsCredited'
    BY <1>3, <1>4, <1>6, <2>1 DEF DoneIsCredited
  <2>4. PositionCredited' /\ PointsAddUp'
    BY <1>5, <2>1 DEF PositionCredited, PointsAddUp
  <2>5. CommitAsRead'
    BY <1>5, <1>6, <1>7, <2>1 DEF CommitAsRead, AsRead, OwnerOf
  <2> QED
    BY <1>9, <2>2, <2>3, <2>4, <2>5
<1>12. CASE runs[n].ver = pointVer[s]
  <2>1. /\ points' = [points EXCEPT ![s] = runs[n].sum]
        /\ pointVer' = [pointVer EXCEPT ![s] = @ + 1]
        /\ credited' = [credited EXCEPT ![i] = @ + 1]
        /\ earned' = [earned EXCEPT ![s] = @ + PointsFor(log[i].amount)]
    BY <1>12 DEF Commit, Unchanged, OwnerOf
  <2>2. /\ s \in DOMAIN points /\ runs[n].sum \in Nat
        /\ runs[n].sum = points[s] + PointsFor(log[i].amount)
    BY <1>1, <1>12 DEF AsRead, OwnerOf, RunType
  <2>3. PointsFor(log[i].amount) \in Nat
    BY <1>2, PointsForNat
  <2>4. /\ DOMAIN points' = DOMAIN points
        /\ points'[s] = runs[n].sum
        /\ \A t \in DOMAIN points \ {s} : points'[t] = points[t]
    BY <2>1, <2>2
  <2> HIDE DEF s, i
  <2>5. /\ pointVer' \in [Shopper -> Nat] /\ pointVer'[s] = pointVer[s] + 1
        /\ \A t \in Shopper \ {s} : pointVer'[t] = pointVer[t]
    <3>1. pointVer \in [Shopper -> Nat]
      BY DEF TypeOK
    <3> QED
      BY <1>2, <2>1, <3>1
  <2>6. /\ credited' \in [1..MaxEvents -> Nat] /\ credited'[i] >= 1
        /\ \A k \in 1..MaxEvents : credited'[k] >= credited[k]
    <3>1. credited \in [1..MaxEvents -> Nat]
      BY DEF TypeOK
    <3> QED
      BY <1>2, <2>1, <3>1
  <2>7. /\ earned' \in [Shopper -> Nat]
        /\ earned'[s] = earned[s] + PointsFor(log[i].amount)
        /\ \A t \in Shopper \ {s} : earned'[t] = earned[t]
    <3>1. earned \in [Shopper -> Nat]
      BY DEF TypeOK
    <3> QED
      BY <1>2, <2>1, <2>3, <3>1
  <2>8. TypeOK'
    <3>1. \A t \in DOMAIN points' : points'[t] \in Nat
      BY <2>2, <2>4 DEF TypeOK
    <3>2. DOMAIN points' \subseteq Shopper
      BY <2>4 DEF TypeOK
    <3> QED
      BY <1>5, <1>6, <1>10, <2>5, <2>6, <2>7, <3>1, <3>2 DEF TypeOK
  <2>9. DoneIsCredited'
    <3> SUFFICES ASSUME NEW m \in 1..Len(runs), runs'[m].at = "done"
                 PROVE  credited'[runs[m].event] >= 1
      BY <1>6, <1>7 DEF DoneIsCredited
    <3>1. CASE m = n
      BY <2>6, <3>1 DEF i
    <3>2. CASE m # n
      <4>1. credited[runs[m].event] >= 1
        BY <1>6, <3>2 DEF DoneIsCredited
      <4>2. runs[m].event \in 1..MaxEvents
        BY EventOfRun
      <4>3. credited[runs[m].event] \in Nat /\ credited'[runs[m].event] \in Nat
        BY <2>6, <4>2 DEF TypeOK
      <4> QED
        BY <2>6, <4>1, <4>2, <4>3
    <3> QED
      BY <3>1, <3>2
  <2>10. PositionCredited'
    <3>1. \A k \in 1..position : k \in 1..MaxEvents
      BY Elements DEF TypeOK
    <3>2. \A k \in 1..MaxEvents : credited[k] \in Nat /\ credited'[k] \in Nat
      BY <2>6 DEF TypeOK
    <3> QED
      BY <1>5, <2>6, <3>1, <3>2 DEF PositionCredited
  <2>11. CommitAsRead'
    <3> SUFFICES ASSUME NEW m \in 1..Len(runs), runs'[m].at = "commit"
                 PROVE  AsRead(m)'
      BY <1>6 DEF CommitAsRead
    <3>1. /\ runs'[m] = runs[m] /\ runs[m].at = "commit"
          /\ AsRead(m) /\ OwnerOf(m)' = OwnerOf(m)
      BY <1>5, <1>7 DEF CommitAsRead, OwnerOf
    <3>2. OwnerOf(m) \in Shopper /\ runs[m].ver \in Nat /\ pointVer[OwnerOf(m)] \in Nat
      BY EventOfRun, Elements DEF OwnerOf, RunType, TypeOK
    <3>3. CASE OwnerOf(m) = s
      <4>1. /\ OwnerOf(m)' \in DOMAIN points'
            /\ pointVer'[OwnerOf(m)'] = pointVer[OwnerOf(m)] + 1
            /\ runs'[m].ver <= pointVer[OwnerOf(m)]
        BY <2>4, <2>5, <3>1, <3>3 DEF AsRead
      <4> QED
        BY <3>1, <3>2, <4>1 DEF AsRead
    <3>4. CASE OwnerOf(m) # s
      <4>1. /\ OwnerOf(m)' \in DOMAIN points'
            /\ pointVer'[OwnerOf(m)'] = pointVer[OwnerOf(m)]
            /\ points'[OwnerOf(m)'] = points[OwnerOf(m)]
        BY <2>4, <2>5, <3>1, <3>2, <3>4 DEF AsRead
      <4> QED
        BY <1>5, <3>1, <4>1 DEF AsRead
    <3> QED
      BY <3>3, <3>4
  <2>12. PointsAddUp'
    <3>1. points[s] = StartPoints + earned[s]
      BY <2>2 DEF PointsAddUp
    <3>2. points[s] \in Nat /\ earned[s] \in Nat
      BY <1>2, <2>2 DEF TypeOK
    <3>3. points'[s] = StartPoints + earned'[s]
      BY <2>2, <2>3, <2>4, <2>7, <3>1, <3>2
    <3>4. DOMAIN points \subseteq Shopper
      BY DEF TypeOK
    <3> QED
      BY <2>4, <2>7, <3>3, <3>4 DEF PointsAddUp
  <2> QED
    BY <1>9, <2>8, <2>9, <2>10, <2>11, <2>12
<1> QED
  BY <1>11, <1>12

\* Every step keeps the invariant.
LEMMA NextInv ==
  ASSUME PointInv, [Next]_vars
  PROVE  PointInv'
<1>1. CASE \E e \in Event : Publish(e)
  BY <1>1, PublishInv
<1>2. CASE Start
  BY <1>2, StartInv
<1>3. CASE Receive
  BY <1>3, ReceiveInv
<1>4. CASE Return
  BY <1>4, ReturnInv
<1>5. CASE StoreOffset
  BY <1>5, StoreOffsetInv
<1>6. CASE Crash
  BY <1>6, CrashInv
<1>7. CASE Execute
  BY <1>7, AddInv, CommitInv DEF Execute
<1>8. CASE OwnerLost
  BY <1>8, OwnerLostInv
<1>9. CASE UNCHANGED vars
  BY <1>9
     DEF vars, gridVars, PointInv, TypeOK, RunsInLog, CurrentEvent, DoneIsCredited,
         PositionCredited, PointsAddUp, CommitAsRead, AsRead, OwnerOf
<1> QED
  BY <1>1, <1>2, <1>3, <1>4, <1>5, <1>6, <1>7, <1>8, <1>9 DEF Next

-----------------------------------------------------------------------------
(* The theorems.                                                           *)

\* What is needed of the point pipeline is inductive: the invariant holds in every
\* state that the consumer and the grid reach.
THEOREM PointInvariant == Spec => []PointInv
<1>1. PointInv /\ [Next]_vars => PointInv'
  BY NextInv
<1> QED
  BY InitInv, <1>1, PTL DEF Spec

\* Every variable of the consumer, the topic and the grid keeps its type.
THEOREM TypeCorrect == Spec => []TypeOK
<1>1. PointInv => TypeOK
  BY DEF PointInv
<1> QED
  BY PointInvariant, <1>1, PTL

\* The offset that is stored never covers an event whose points have not been added,
\* whenever the consumer or the node that executes PointTask dies.
THEOREM NothingSkipped == Spec => []NoneSkipped
<1>1. PointInv => NoneSkipped
  <2> SUFFICES ASSUME PointInv, NEW i \in 1..offset PROVE credited[i] >= 1
    BY DEF NoneSkipped
  <2>1. i \in 1..position
    BY DEF PointInv, TypeOK, PositionCredited
  <2> QED
    BY <2>1 DEF PointInv, PositionCredited
<1> QED
  BY PointInvariant, <1>1, PTL

\* The executions of PointTask and the entry that InitialProcess puts take effect one
\* after another: no points are lost to a concurrent execution.
THEOREM PointsConserved == Spec => []PointsAddUp
<1>1. PointInv => PointsAddUp
  BY DEF PointInv
<1> QED
  BY PointInvariant, <1>1, PTL

-----------------------------------------------------------------------------
(* Without a crash and the loss of a node: one execution for each event.   *)

Undisturbed == crashes = 0 /\ ownersLost = 0

\* The executions are of the first events, in order, as many as were received, and
\* an event has no more points than its execution has added.
InOrder ==
  Undisturbed =>
    /\ consumer = "down" => Len(runs) = 0 /\ offset = 0
    /\ Len(runs) = IF consumer \in {"waiting", "stopped"} THEN position + 1 ELSE position
    /\ \A n \in 1..Len(runs) : runs[n].event = n
    /\ \A i \in 1..MaxEvents :
         \/ credited[i] = 0
         \/ credited[i] = 1 /\ i \in 1..Len(runs) /\ runs[i].at = "done"

\* At first nothing is credited.
LEMMA InitInOrder == Init => InOrder
BY PointAssumption, EmptySeq DEF Init, InOrder

\* An action that leaves the executions, and what they have added, alone.
LEMMA SameRunsInOrder ==
  ASSUME TypeOK, InOrder,
         UNCHANGED <<runs, credited, crashes, ownersLost>>,
         consumer' # "down" \/ UNCHANGED <<consumer, offset>>,
         Undisturbed =>
           Len(runs) = IF consumer' \in {"waiting", "stopped"}
                         THEN position' + 1 ELSE position'
  PROVE  InOrder'
BY DEF InOrder, Undisturbed

\* Without a crash or a lost node no event is executed twice.
LEMMA NextInOrder ==
  ASSUME PointInv, InOrder, [Next]_vars
  PROVE  InOrder'
<1> USE PointAssumption DEF PointInv
<1>1. CASE \E e \in Event : Publish(e)
  <2>1. UNCHANGED <<offset, position, consumer, runs, credited, crashes, ownersLost>>
    BY <1>1 DEF Publish, gridVars
  <2> QED
    BY <2>1, SameRunsInOrder DEF InOrder
<1>2. CASE Start
  <2>1. /\ UNCHANGED <<runs, credited, crashes, ownersLost>>
        /\ consumer = "down" /\ consumer' = "idle" /\ position' = offset
    BY <1>2 DEF Start
  <2> QED
    BY <2>1, SameRunsInOrder DEF InOrder
<1>3. CASE Receive
  <2>1. /\ consumer = "idle" /\ consumer' = "waiting"
        /\ position + 1 \in 1..MaxEvents
        /\ runs' = Append(runs, Fresh(position + 1))
        /\ UNCHANGED <<position, credited, crashes, ownersLost>>
    BY <1>3, Elements DEF Receive, Dispatch, Fresh, TypeOK
  <2>2. /\ Len(runs') = Len(runs) + 1 /\ Len(runs) \in Nat
        /\ \A n \in 1..Len(runs) : runs'[n] = runs[n]
        /\ runs'[Len(runs) + 1].event = position + 1
    BY <2>1, Elements, DispatchEffect DEF Fresh
  <2>3. \A n \in 1..Len(runs') : n \in 1..Len(runs) \/ n = Len(runs) + 1
    BY <2>2
  <2>4. Undisturbed => \A n \in 1..Len(runs') : runs'[n].event = n
    BY <2>1, <2>2, <2>3 DEF InOrder
  <2>5. \A i \in 1..Len(runs) : i \in 1..Len(runs')
    BY <2>2
  <2> QED
    BY <2>1, <2>2, <2>4, <2>5 DEF InOrder, Undisturbed
<1>4. CASE Return
  <2>1. /\ UNCHANGED <<runs, credited, crashes, ownersLost>>
        /\ consumer = "waiting" /\ position \in Nat
        /\ \/ consumer' = "idle" /\ position' = position + 1
           \/ consumer' = "stopped" /\ position' = position
    BY <1>4 DEF Return, Advanced, gridVars, TypeOK
  <2> QED
    BY <2>1, SameRunsInOrder DEF InOrder
<1>5. CASE StoreOffset
  <2>1. /\ UNCHANGED <<position, consumer, runs, credited, crashes, ownersLost>>
        /\ consumer \in {"idle", "waiting"}
    BY <1>5 DEF StoreOffset, gridVars
  <2> QED
    BY <2>1, SameRunsInOrder DEF InOrder
<1>6. CASE Crash
  BY <1>6 DEF Crash, InOrder, Undisturbed, TypeOK
<1>7. CASE OwnerLost
  BY <1>7 DEF OwnerLost, InOrder, Undisturbed, TypeOK
<1>8. ASSUME NEW n \in 1..Len(runs), Add(n)
      PROVE  InOrder'
  <2>1. /\ UNCHANGED <<offset, position, consumer, credited, crashes, ownersLost>>
        /\ runs[n].at = "add" /\ runs[n] \in RunType
    BY <1>8, Elements DEF Add
  <2>2. /\ Len(runs') = Len(runs)
        /\ \A m \in 1..Len(runs) : runs'[m].event = runs[m].event
        /\ \A m \in 1..Len(runs) : m # n => runs'[m] = runs[m]
    <3>1. PICK r \in RunType : runs' = [runs EXCEPT ![n] = r] /\ r.event = runs[n].event
      BY <1>8, AddEffect
    <3> QED
      BY <3>1, Exchanged
  <2>3. \A i \in 1..Len(runs) : runs[i].at = "done" => runs'[i].at = "done"
    BY <2>1, <2>2
  <2> QED
    BY <2>1, <2>2, <2>3 DEF InOrder, Undisturbed
<1>9. ASSUME NEW n \in 1..Len(runs), Commit(n)
      PROVE  InOrder'
  <2>1. /\ UNCHANGED <<offset, position, consumer, crashes, ownersLost>>
        /\ runs[n].at = "commit" /\ runs[n] \in RunType
    BY <1>9, Elements DEF Commit
  <2>2. /\ Len(runs') = Len(runs)
        /\ \A m \in 1..Len(runs) : runs'[m].event = runs[m].event
        /\ \A m \in 1..Len(runs) : m # n => runs'[m] = runs[m]
    <3>1. PICK r \in RunType : runs' = [runs EXCEPT ![n] = r] /\ r.event = runs[n].event
      BY <1>9, CommitEffect
    <3> QED
      BY <3>1, Exchanged
  <2>3. \A i \in 1..Len(runs) : runs[i].at = "done" => runs'[i].at = "done"
    BY <2>1, <2>2
  <2>4. \/ UNCHANGED credited
        \/ /\ credited' = [credited EXCEPT ![runs[n].event] = @ + 1]
           /\ runs'[n].at = "done"
    <3>1. \/ UNCHANGED credited
          \/ /\ credited' = [credited EXCEPT ![runs[n].event] = @ + 1]
             /\ runs' = [runs EXCEPT ![n].at = "done"]
      BY <1>9 DEF Commit
    <3>2. runs' = [runs EXCEPT ![n].at = "done"] => runs'[n].at = "done"
      BY <2>1, Elements DEF RunType
    <3> QED
      BY <3>1, <3>2
  <2>5. CASE UNCHANGED credited
    BY <2>1, <2>2, <2>3, <2>5 DEF InOrder, Undisturbed
  <2>6. CASE /\ credited' = [credited EXCEPT ![runs[n].event] = @ + 1]
             /\ runs'[n].at = "done"
    <3> SUFFICES ASSUME Undisturbed PROVE InOrder'
      BY <2>1 DEF InOrder, Undisturbed
    <3>1. runs[n].event = n /\ n \in 1..MaxEvents
      BY <2>1 DEF InOrder, RunType
    <3>2. credited \in [1..MaxEvents -> Nat] /\ credited[n] = 0
      BY <2>1, <3>1 DEF InOrder, TypeOK
    <3>3. credited'[n] = 1 /\ \A i \in 1..MaxEvents : i # n => credited'[i] = credited[i]
      BY <2>6, <3>1, <3>2
    <3> QED
      BY <2>1, <2>2, <2>3, <2>6, <3>3 DEF InOrder
  <2> QED
    BY <2>4, <2>5, <2>6
<1>10. CASE UNCHANGED vars
  BY <1>10 DEF vars, gridVars, InOrder, Undisturbed
<1> QED
  BY <1>1, <1>2, <1>3, <1>4, <1>5, <1>6, <1>7, <1>8, <1>9, <1>10 DEF Next, Execute

\* While no consumer crashes and no node is lost, no payment gives its points twice.
THEOREM NotTwice == Spec => []CreditedOnce
<1>1. PointInv /\ InOrder => CreditedOnce
  BY DEF CreditedOnce, InOrder, Undisturbed
<1>2. PointInv /\ InOrder /\ [Next]_vars => InOrder'
  BY NextInOrder
<1> QED
  BY PointInvariant, InitInOrder, <1>1, <1>2, PTL DEF Spec

-----------------------------------------------------------------------------
(* Without a crash and the loss of a node: what stops the consumer.        *)

HasEntry(s) == s \in DOMAIN points \cup {First}

\* What an execution has read is still there when it commits, as it is the only one that
\* has not ended; so it fails only for want of an entry, and that is what the consumer
\* has stopped at.
Undoubted ==
  Undisturbed =>
    /\ consumer # "down" => First \in DOMAIN points
    /\ \A n \in 1..Len(runs) :
         /\ runs[n].at = "commit" => runs[n].ver = pointVer[OwnerOf(n)]
         /\ runs[n].at = "failed" => ~HasEntry(OwnerOf(n))
    /\ consumer = "stopped" =>
         position < Len(log) /\ ~HasEntry(log[position + 1].owner)

\* Executions that are not the last have added their points.
LEMMA EarlierDone ==
  ASSUME PointInv, InOrder, Undisturbed, NEW n \in 1..Len(runs), n # Len(runs)
  PROVE  runs[n].at = "done"
<1>1. position \in 0..Len(log) /\ Len(runs) \in Nat /\ Len(log) \in Nat
  BY Elements DEF PointInv, TypeOK
<1>2. n \in 1..position /\ n \in 1..MaxEvents
  <2>1. Len(runs) = position + 1 \/ Len(runs) = position
    BY DEF InOrder
  <2>2. Len(log) <= MaxEvents /\ MaxEvents \in Nat
    BY PointAssumption DEF PointInv, TypeOK
  <2> QED
    BY <1>1, <2>1, <2>2
<1>3. credited[n] >= 1
  BY <1>2 DEF PointInv, PositionCredited
<1> QED
  BY <1>2, <1>3 DEF InOrder

\* At first there are no executions.
LEMMA InitUndoubted == Init => Undoubted
BY EmptySeq DEF Init, Undoubted

\* Every step keeps it.
LEMMA NextUndoubted ==
  ASSUME PointInv, InOrder, Undoubted, [Next]_vars
  PROVE  Undoubted'
<1> SUFFICES ASSUME Undisturbed' PROVE Undoubted'
  BY DEF Undoubted
<1> USE PointAssumption DEF PointInv
<1>1. Len(log) \in Nat /\ Len(runs) \in Nat /\ position \in Nat
  BY Elements DEF TypeOK
<1>2. CASE \E e \in Event : Publish(e)
  <2>1. /\ UNCHANGED <<position, consumer, gridVars, crashes, ownersLost>>
        /\ Len(log') = Len(log) + 1 /\ \A i \in 1..Len(log) : log'[i] = log[i]
    BY <1>2, AppendProperties DEF Publish, TypeOK
  <2>2. \A n \in 1..Len(runs) : OwnerOf(n)' = OwnerOf(n)
    BY <2>1, EventOfRun DEF OwnerOf, gridVars
  <2>3. position < Len(log) => position + 1 \in 1..Len(log)
    BY <1>1
  <2> QED
    BY <1>1, <2>1, <2>2, <2>3 DEF Undoubted, Undisturbed, HasEntry, gridVars
<1>3. CASE Start
  <2>1. /\ UNCHANGED <<runs, crashes, ownersLost>> /\ consumer = "down"
        /\ consumer' = "idle" /\ First \in DOMAIN points'
    BY <1>3 DEF Start
  <2>2. Len(runs) = 0
    BY <2>1 DEF InOrder, Undisturbed
  <2> QED
    BY <2>1, <2>2 DEF Undoubted
<1>4. CASE Receive
  <2>1. /\ consumer = "idle" /\ consumer' = "waiting" /\ position + 1 \in 1..MaxEvents
        /\ runs' = Append(runs, Fresh(position + 1))
        /\ UNCHANGED <<log, position, points, pointVer, crashes, ownersLost>>
    BY <1>4, Elements DEF Receive, Dispatch, Fresh, TypeOK
  <2>2. /\ Len(runs') = Len(runs) + 1
        /\ \A n \in 1..Len(runs) : runs'[n] = runs[n]
        /\ runs'[Len(runs) + 1].at = "add"
    BY <2>1, DispatchEffect DEF Fresh
  <2>3. \A n \in 1..Len(runs') : n \in 1..Len(runs) \/ n = Len(runs) + 1
    BY <1>1, <2>2
  <2> QED
    BY <2>1, <2>2, <2>3 DEF Undoubted, Undisturbed, HasEntry, OwnerOf
<1>5. CASE Return
  <2>1. /\ UNCHANGED <<log, runs, points, pointVer, crashes, ownersLost>>
        /\ consumer = "waiting" /\ consumer' \in {"idle", "stopped"}
        /\ consumer' = "stopped" => runs[current].at = "failed" /\ position' = position
    BY <1>5 DEF Return, gridVars
  <2>2. /\ current \in 1..Len(runs) /\ position < Len(log)
        /\ runs[current].event = position + 1
    BY <1>1, <2>1 DEF TypeOK, NoRun, CurrentEvent
  <2>3. OwnerOf(current) = log[position + 1].owner
    BY <2>2 DEF OwnerOf
  <2> QED
    BY <2>1, <2>2, <2>3 DEF Undoubted, Undisturbed, HasEntry, OwnerOf
<1>6. CASE StoreOffset \/ UNCHANGED vars
  <2>1. UNCHANGED <<log, position, consumer, runs, points, pointVer, crashes, ownersLost>>
    BY <1>6 DEF StoreOffset, vars, gridVars
  <2> QED
    BY <2>1 DEF Undoubted, Undisturbed, HasEntry, OwnerOf
<1>7. CASE Crash \/ OwnerLost
  BY <1>7 DEF Crash, OwnerLost, Undisturbed, TypeOK
<1>8. ASSUME NEW n \in 1..Len(runs), Add(n) PROVE Undoubted'
  <2>1. /\ UNCHANGED <<log, position, consumer, points, pointVer, crashes, ownersLost>>
        /\ runs[n] \in RunType
    BY <1>8, Elements DEF Add
  <2>2. PICK r \in RunType :
          /\ runs' = [runs EXCEPT ![n] = r] /\ r.event = runs[n].event
          /\ r.at = "commit" => r.ver = pointVer[OwnerOf(n)]
          /\ r.at = "failed" => OwnerOf(n) \notin DOMAIN points
    BY <1>8, AddEffect
  <2>3. /\ Len(runs') = Len(runs)
        /\ \A m \in 1..Len(runs) : runs'[m] = IF m = n THEN r ELSE runs[m]
    BY <2>2, Exchanged
  <2>4. \A m \in 1..Len(runs) : OwnerOf(m)' = OwnerOf(m)
    BY <2>1, <2>2, <2>3 DEF OwnerOf
  <2>5. First \in DOMAIN points
    BY <2>1 DEF Undoubted, Undisturbed, InOrder
  <2> QED
    BY <2>1, <2>2, <2>3, <2>4, <2>5 DEF Undoubted, Undisturbed, HasEntry
<1>9. ASSUME NEW n \in 1..Len(runs), Commit(n) PROVE Undoubted'
  <2>1. /\ UNCHANGED <<log, position, consumer, crashes, ownersLost>>
        /\ runs[n].at = "commit" /\ runs[n] \in RunType /\ Undisturbed
    BY <1>9, Elements DEF Commit, Undisturbed
  <2>2. runs[n].ver = pointVer[OwnerOf(n)]
    BY <2>1 DEF Undoubted
  <2>3. /\ runs' = [runs EXCEPT ![n].at = "done"]
        /\ DOMAIN points' = DOMAIN points
    BY <1>9, <2>2 DEF Commit, Unchanged, OwnerOf
  <2>4. /\ Len(runs') = Len(runs) /\ runs'[n].at = "done"
        /\ \A m \in 1..Len(runs) :
             runs'[m].event = runs[m].event /\ (m # n => runs'[m] = runs[m])
    <3>1. PICK r \in RunType : runs' = [runs EXCEPT ![n] = r] /\ r.event = runs[n].event
      BY <1>9, CommitEffect
    <3>2. /\ Len(runs') = Len(runs)
          /\ \A m \in 1..Len(runs) : runs'[m] = IF m = n THEN r ELSE runs[m]
      BY <3>1, Exchanged
    <3>3. runs'[n].at = "done"
      BY <2>1, <2>3, Elements DEF RunType
    <3> QED
      BY <3>1, <3>2, <3>3
  <2>5. n = Len(runs)
    BY <2>1, EarlierDone
  <2>6. \A m \in 1..Len(runs) : runs'[m].at \in {"commit", "failed"} => FALSE
    <3>1. \A m \in 1..Len(runs) : m # n => runs[m].at = "done"
      BY <2>1, <2>5, EarlierDone
    <3> QED
      BY <2>4, <3>1
  <2> QED
    BY <2>1, <2>3, <2>4, <2>6 DEF Undoubted, HasEntry
<1> QED
  BY <1>2, <1>3, <1>4, <1>5, <1>6, <1>7, <1>8, <1>9 DEF Next, Execute

\* A consumer that nothing has disturbed has stopped.
StopsForWantOfEntry ==
  consumer = "stopped" /\ Undisturbed =>
    position < Len(log) /\ ~HasEntry(log[position + 1].owner)

\* As long as nothing crashes and no node is lost, only an event of a shopper without an
\* entry stops the consumer: it never comes into conflict with itself.
THEOREM StopsOnlyAtMissing == Spec => []StopsForWantOfEntry
<1>1. Undoubted => StopsForWantOfEntry
  BY DEF Undoubted, StopsForWantOfEntry
<1>2. PointInv /\ InOrder /\ Undoubted /\ [Next]_vars => (InOrder /\ Undoubted)'
  BY NextInOrder, NextUndoubted
<1> QED
  BY PointInvariant, InitInOrder, InitUndoubted, <1>1, <1>2, PTL DEF Spec

-----------------------------------------------------------------------------
(* What was earned is what the events are worth, counted point by point.   *)

\* The points of an event, as often as they were added.
PointsOf(i) == {i} \X (1..credited[i]) \X (1..PointsFor(log[i].amount))

EventsFor(s) == {i \in 1..Len(log) : log[i].owner = s}

EarnedPoints(s) == UNION {PointsOf(i) : i \in EventsFor(s)}

Counted(s) ==
  IsFiniteSet(EarnedPoints(s)) /\ earned[s] = Cardinality(EarnedPoints(s))

\* Nothing is added for an event that has yet to come, or before the first start; and
\* the shopper whose entry every start puts keeps what was earned as long as there is
\* one start.
EarnedInv ==
  /\ \A i \in 1..MaxEvents : i > Len(log) => credited[i] = 0
  /\ consumer = "down" /\ crashes = 0 =>
       Len(runs) = 0 /\ \A i \in 1..MaxEvents : credited[i] = 0
  /\ \A s \in Shopper : s # First \/ crashes = 0 => Counted(s)

\* Without credit there are no points.
LEMMA NothingEarned ==
  ASSUME NEW s, \A i \in EventsFor(s) : credited[i] = 0
  PROVE  /\ EarnedPoints(s) = {}
         /\ IsFiniteSet(EarnedPoints(s)) /\ Cardinality(EarnedPoints(s)) = 0
<1>1. \A i \in EventsFor(s) : PointsOf(i) = {}
  BY DEF PointsOf
<1>2. EarnedPoints(s) = {}
  BY <1>1 DEF EarnedPoints
<1> QED
  BY <1>2, FS_EmptySet

LEMMA InitEarned == Init => EarnedInv
<1> SUFFICES ASSUME Init PROVE EarnedInv
  OBVIOUS
<1> USE PointAssumption
<1>1. Len(log) = 0 /\ Len(runs) = 0 /\ \A i \in 1..MaxEvents : credited[i] = 0
  BY EmptySeq DEF Init
<1>2. ASSUME NEW s \in Shopper PROVE Counted(s)
  <2>1. EventsFor(s) = {}
    BY <1>1 DEF EventsFor
  <2>2. earned[s] = 0
    BY DEF Init
  <2> QED
    BY <2>1, <2>2, NothingEarned DEF Counted
<1> QED
  BY <1>1, <1>2 DEF EarnedInv

\* What counts for a shopper's points is what was credited to each event.
LEMMA SamePoints ==
  ASSUME TypeOK, NEW s \in Shopper, Len(log) <= Len(log'),
         \A i \in 1..Len(log) : log'[i] = log[i] /\ credited'[i] = credited[i],
         \A i \in 1..Len(log') : i > Len(log) => credited'[i] = 0,
         Len(log') \in Nat
  PROVE  EarnedPoints(s)' = EarnedPoints(s)
<1>1. Len(log) \in Nat
  BY Elements
<1>2. \A i \in 1..Len(log) : /\ PointsOf(i)' = PointsOf(i)
                             /\ i \in EventsFor(s)' <=> i \in EventsFor(s)
  BY <1>1 DEF PointsOf, EventsFor
<1>3. \A i \in 1..Len(log') : i > Len(log) => PointsOf(i)' = {}
  BY DEF PointsOf
<1>4. EventsFor(s) \subseteq EventsFor(s)'
  BY <1>1, <1>2 DEF EventsFor
<1>5. \A i \in EventsFor(s)' : i \in EventsFor(s) \/ PointsOf(i)' = {}
  BY <1>1, <1>2, <1>3 DEF EventsFor
<1>6. \A i \in EventsFor(s) : PointsOf(i)' = PointsOf(i)
  BY <1>2 DEF EventsFor
<1>7. EarnedPoints(s)' = UNION {PointsOf(i)' : i \in EventsFor(s)'}
  BY DEF EarnedPoints
<1> QED
  BY <1>4, <1>5, <1>6, <1>7 DEF EarnedPoints

\* A commit adds the points of its event once more.
LEMMA PointsAdded ==
  ASSUME TypeOK, NEW i \in 1..Len(log), NEW s \in Shopper, Counted(s),
         log[i].owner = s, log[i].amount \in Nat, log' = log,
         credited' = [credited EXCEPT ![i] = @ + 1],
         earned' = [earned EXCEPT ![s] = @ + PointsFor(log[i].amount)]
  PROVE  Counted(s)'
<1> DEFINE p == PointsFor(log[i].amount)
           c == credited[i] + 1
           New == {i} \X {c} \X (1..p)
           f == [n \in 1..p |-> <<i, c, n>>]
<1>1. /\ i \in 1..MaxEvents /\ p \in Nat /\ c \in Nat /\ credited[i] \in Nat
      /\ credited'[i] = c /\ \A j \in 1..Len(log) : j # i => credited'[j] = credited[j]
      /\ earned'[s] = earned[s] + p
  <2>1. /\ credited \in [1..MaxEvents -> Nat] /\ earned \in [Shopper -> Nat]
        /\ Len(log) \in Nat /\ Len(log) <= MaxEvents
    BY Elements DEF TypeOK
  <2>2. p \in Nat
    BY PointsForNat
  <2> HIDE DEF p
  <2>3. i \in 1..MaxEvents /\ credited[i] \in Nat
    BY <2>1, PointAssumption
  <2>4. credited'[i] = c /\ \A j \in 1..Len(log) : j # i => credited'[j] = credited[j]
    BY <2>1, <2>3
  <2>5. earned'[s] = earned[s] + p
    BY <2>1 DEF p
  <2> QED
    BY <2>2, <2>3, <2>4, <2>5
<1> HIDE DEF p, c
<1>2. IsFiniteSet(New) /\ Cardinality(New) = p
  <2>1. IsFiniteSet(1..p) /\ Cardinality(1..p) = p
    BY <1>1, FS_Interval
  <2>2. f \in Bijection(1..p, New)
    BY DEF Bijection, Injection, IsInjective, Surjection
  <2>3. ExistsBijection(1..p, New)
    BY <2>2 DEF ExistsBijection
  <2> QED
    BY <2>1, <2>3, FS_Bijection
<1>3. EarnedPoints(s)' = EarnedPoints(s) \cup New
  <2>1. EventsFor(s)' = EventsFor(s) /\ i \in EventsFor(s)
    BY DEF EventsFor
  <2>2. PointsOf(i)' = PointsOf(i) \cup New
    <3>1. 1..c = (1..credited[i]) \cup {c}
      BY <1>1 DEF c
    <3> QED
      BY <1>1, <3>1 DEF PointsOf, p
  <2>3. \A j \in EventsFor(s) : j # i => PointsOf(j)' = PointsOf(j)
    BY <1>1 DEF PointsOf, EventsFor
  <2>4. EarnedPoints(s)' = UNION {PointsOf(j)' : j \in EventsFor(s)'}
    BY DEF EarnedPoints
  <2>5. \A x : x \in EarnedPoints(s)' <=> \E j \in EventsFor(s) : x \in PointsOf(j)'
    BY <2>1, <2>4
  <2>6. \A x : x \in EarnedPoints(s) <=> \E j \in EventsFor(s) : x \in PointsOf(j)
    BY DEF EarnedPoints
  <2> HIDE DEF New
  <2> QED
    BY <2>1, <2>2, <2>3, <2>5, <2>6
<1>4. EarnedPoints(s) \cap New = {}
  <2> SUFFICES ASSUME NEW j \in EventsFor(s), NEW x \in PointsOf(j), x \in New PROVE FALSE
    BY DEF EarnedPoints
  <2>1. j = i /\ x[2] \in 1..credited[i] /\ x[2] = c
    BY DEF PointsOf
  <2> QED
    BY <1>1, <2>1 DEF c
<1> HIDE DEF New
<1>5. /\ IsFiniteSet(EarnedPoints(s) \cup New)
      /\ Cardinality(EarnedPoints(s) \cup New)
           = Cardinality(EarnedPoints(s)) + Cardinality(New) - Cardinality({})
  BY <1>2, <1>4, FS_Union DEF Counted
<1>6. Cardinality({}) = 0 /\ earned[s] \in Nat
  BY FS_EmptySet DEF TypeOK
<1> QED
  BY <1>1, <1>2, <1>3, <1>5, <1>6 DEF Counted

\* Every step keeps the count.
LEMMA NextEarned ==
  ASSUME PointInv, EarnedInv, [Next]_vars
  PROVE  EarnedInv'
<1> USE PointAssumption
<1>1. /\ TypeOK /\ TypeOK' /\ Len(log) \in Nat /\ Len(runs) \in Nat
      /\ Len(log) <= MaxEvents
  BY NextInv, Elements DEF PointInv, TypeOK
<1>2. ASSUME Len(log') \in Nat, Len(log) <= Len(log'),
             \A i \in 1..Len(log) : log'[i] = log[i],
             UNCHANGED <<credited, earned>>,
             crashes' = 0 => crashes = 0,
             consumer' = "down" /\ crashes' = 0 => consumer = "down" /\ runs' = runs
      PROVE  EarnedInv'
  <2>1. \A i \in 1..MaxEvents : i > Len(log') => credited'[i] = 0
    BY <1>1, <1>2 DEF EarnedInv
  <2>2. \A i \in 1..Len(log') : i > Len(log) => credited'[i] = 0
    <3>1. Len(log') <= MaxEvents /\ MaxEvents \in Nat
      BY <1>1, PointAssumption DEF TypeOK
    <3>2. \A i \in 1..Len(log') : i \in 1..MaxEvents
      BY <1>2, <3>1
    <3> QED
      BY <1>2, <3>2 DEF EarnedInv
  <2>3. ASSUME NEW s \in Shopper, s # First \/ crashes' = 0 PROVE Counted(s)'
    <3>1. Counted(s)
      BY <1>2, <2>3 DEF EarnedInv
    <3>2. EarnedPoints(s)' = EarnedPoints(s)
      BY <1>1, <1>2, <2>2, SamePoints
    <3> QED
      BY <1>2, <3>1, <3>2 DEF Counted
  <2> QED
    BY <1>2, <2>1, <2>3 DEF EarnedInv
<1>3. CASE \E e \in Event : Publish(e)
  <2>1. /\ log' \in Seq(Event) /\ Len(log') = Len(log) + 1
        /\ \A i \in 1..Len(log) : log'[i] = log[i]
    BY <1>1, <1>3, AppendProperties DEF Publish, TypeOK
  <2>2. UNCHANGED <<consumer, runs, credited, earned, crashes>>
    BY <1>3 DEF Publish, gridVars
  <2> QED
    BY <1>1, <1>2, <2>1, <2>2
<1>4. CASE Start
  <2>1. /\ UNCHANGED <<log, runs, crashes, credited>> /\ consumer = "down" /\ consumer' = "idle"
        /\ earned' = [earned EXCEPT ![First] = 0]
    BY <1>4 DEF Start
  <2>2. \A s \in Shopper : EarnedPoints(s)' = EarnedPoints(s)
    BY <2>1 DEF EarnedPoints, PointsOf, EventsFor
  <2>3. ASSUME NEW s \in Shopper, s # First PROVE Counted(s)'
    BY <1>1, <2>1, <2>2, <2>3 DEF EarnedInv, Counted, TypeOK
  <2>4. ASSUME crashes' = 0 PROVE Counted(First)'
    <3>1. \A i \in EventsFor(First) : credited[i] = 0
      BY <1>1, <2>1, <2>4 DEF EventsFor, EarnedInv
    <3>2. earned'[First] = 0
      BY <1>1, <2>1 DEF TypeOK
    <3> QED
      BY <2>2, <3>1, <3>2, NothingEarned DEF Counted
  <2> QED
    BY <2>1, <2>3, <2>4 DEF EarnedInv
<1>5. CASE Receive \/ Return \/ StoreOffset \/ OwnerLost
  <2>1. UNCHANGED <<log, credited, earned, crashes>> /\ consumer' # "down"
    BY <1>5 DEF Receive, Return, StoreOffset, OwnerLost, gridVars
  <2> QED
    BY <1>1, <1>2, <2>1
<1>6. CASE Crash
  <2>1. UNCHANGED <<log, credited, earned>> /\ crashes' = crashes + 1 /\ crashes \in Nat
    BY <1>1, <1>6 DEF Crash, gridVars, TypeOK
  <2> QED
    BY <1>1, <1>2, <2>1
<1>7. ASSUME NEW n \in 1..Len(runs), Add(n) PROVE EarnedInv'
  <2>1. UNCHANGED <<log, consumer, credited, earned, crashes>>
    BY <1>7 DEF Add
  <2>2. consumer = "down" => crashes # 0
    BY <1>1 DEF EarnedInv
  <2> QED
    BY <1>1, <1>2, <2>1, <2>2
<1>8. ASSUME NEW n \in 1..Len(runs), Commit(n) PROVE EarnedInv'
  <2> DEFINE i == runs[n].event
             s == log[i].owner
  <2>1. UNCHANGED <<log, consumer, crashes>> /\ ~(consumer = "down" /\ crashes = 0)
    BY <1>1, <1>8 DEF Commit, EarnedInv
  <2>2. /\ i \in 1..Len(log) /\ i \in 1..MaxEvents /\ s \in Shopper /\ log[i].amount \in Nat
    BY EventOfRun DEF PointInv
  <2>3. CASE UNCHANGED <<credited, earned>>
    BY <1>1, <1>2, <2>1, <2>3
  <2>4. CASE /\ credited' = [credited EXCEPT ![i] = @ + 1]
             /\ earned' = [earned EXCEPT ![s] = @ + PointsFor(log[i].amount)]
    <3>1. ASSUME NEW t \in Shopper, t # First \/ crashes' = 0 PROVE Counted(t)'
      <4>0. Counted(t)
        BY <2>1, <3>1 DEF EarnedInv
      <4>1. CASE t = s
        BY <1>1, <2>1, <2>2, <2>4, <4>0, <4>1, PointsAdded
      <4>2. CASE t # s
        <5>1. EventsFor(t)' = EventsFor(t) /\ earned'[t] = earned[t]
          BY <1>1, <2>1, <2>4, <4>2 DEF EventsFor, TypeOK
        <5>2. \A j \in EventsFor(t) : j \in 1..MaxEvents /\ j # i
          BY <1>1, <4>2 DEF EventsFor
        <5>3. \A j \in EventsFor(t) : PointsOf(j)' = PointsOf(j)
          BY <1>1, <2>1, <2>4, <5>2 DEF PointsOf, TypeOK
        <5>4. EarnedPoints(t)' = EarnedPoints(t)
          BY <5>1, <5>3 DEF EarnedPoints
        <5> QED
          BY <4>0, <5>1, <5>4 DEF Counted
      <4> QED
        BY <4>1, <4>2
    <3>2. \A j \in 1..MaxEvents : j > Len(log) => j # i /\ credited'[j] = credited[j]
      <4>1. credited \in [1..MaxEvents -> Nat]
        BY <1>1 DEF TypeOK
      <4>2. \A j \in 1..MaxEvents : j > Len(log) => j # i
        BY <1>1, <2>2
      <4> HIDE DEF i
      <4> QED
        BY <2>4, <4>1, <4>2
    <3> QED
      BY <2>1, <3>1, <3>2 DEF EarnedInv
  <2> QED
    BY <1>8, <2>3, <2>4 DEF Commit
<1>9. ASSUME UNCHANGED vars PROVE EarnedInv'
  BY <1>1, <1>2, <1>9 DEF vars, gridVars
<1> QED
  BY <1>3, <1>4, <1>5, <1>6, <1>7, <1>8, <1>9 DEF Next, Execute

\* What a shopper has earned is what the events that were credited are worth, each as
\* often as it was credited.
LEMMA EarnedInvariant == Spec => [](PointInv /\ EarnedInv)
<1>1. PointInv /\ EarnedInv /\ [Next]_vars => (PointInv /\ EarnedInv)'
  BY NextInv, NextEarned
<1> QED
  BY InitInv, InitEarned, <1>1, PTL DEF Spec

-----------------------------------------------------------------------------
(* The ledger of points.                                                   *)

\* An execution is of an event that all before it have given their points for.
RunsInTurn ==
  \A n \in 1..Len(runs) : \A j \in 1..(runs[n].event - 1) : credited[j] >= 1

\* Before the first start shopper 1 has no entry.
FirstAbsent == Undisturbed /\ consumer = "down" => First \notin DOMAIN points

\* What is credited stays credited.
LEMMA CreditsGrow ==
  ASSUME PointInv, [Next]_vars, NEW i \in 1..MaxEvents
  PROVE  credited'[i] >= credited[i]
<1>1. credited \in [1..MaxEvents -> Nat]
  BY DEF PointInv, TypeOK
<1>2. ASSUME NEW n \in 1..Len(runs), Commit(n) PROVE credited'[i] >= credited[i]
  <2>1. \/ credited' = credited
        \/ credited' = [credited EXCEPT ![runs[n].event] = @ + 1]
    BY <1>2 DEF Commit
  <2>2. credited[i] \in Nat
    BY <1>1
  <2>3. credited'[i] = credited[i] \/ credited'[i] = credited[i] + 1
    BY <1>1, <2>1
  <2> QED
    BY <2>2, <2>3
<1>3. credited' = credited \/ \E n \in 1..Len(runs) : Commit(n)
  BY DEF Next, Publish, Start, Receive, Return, StoreOffset, Crash, Execute, Add, OwnerLost,
         vars, gridVars
<1>4. credited[i] \in Nat /\ (credited' = credited => credited'[i] = credited[i])
  BY <1>1
<1> QED
  BY <1>2, <1>3, <1>4

\* The consumer handles an event when it has passed all before it.
LEMMA NextRunsInTurn ==
  ASSUME PointInv, RunsInTurn, [Next]_vars
  PROVE  RunsInTurn'
<1> USE PointAssumption DEF PointInv
<1>1. position \in Nat /\ \A j \in 1..position : credited[j] >= 1
  BY DEF TypeOK, PositionCredited
<1>2. \A n \in 1..Len(runs) : runs[n] \in RunType /\ runs[n].event \in 1..MaxEvents
  BY Elements DEF RunType
<1>3. credited \in [1..MaxEvents -> Nat] /\ credited' \in [1..MaxEvents -> Nat] /\ MaxEvents \in Nat
  BY NextInv DEF TypeOK
<1>4. ASSUME NEW n \in 1..Len(runs'),
             \/ n \in 1..Len(runs) /\ runs'[n].event = runs[n].event
             \/ runs'[n].event = position + 1 /\ position + 1 \in 1..MaxEvents
      PROVE  \A j \in 1..(runs'[n].event - 1) : credited'[j] >= 1
  <2> SUFFICES ASSUME NEW j \in 1..(runs'[n].event - 1) PROVE credited'[j] >= 1
    OBVIOUS
  <2>1. CASE n \in 1..Len(runs) /\ runs'[n].event = runs[n].event
    <3>1. j \in 1..MaxEvents /\ credited[j] >= 1
      BY <1>2, <2>1 DEF RunsInTurn
    <3> QED
      BY <1>3, <3>1, CreditsGrow
  <2>2. CASE runs'[n].event = position + 1 /\ position + 1 \in 1..MaxEvents
    <3>1. j \in 1..position /\ j \in 1..MaxEvents
      BY <1>1, <1>3, <2>2
    <3>2. credited[j] >= 1 /\ credited[j] \in Nat /\ credited'[j] \in Nat
      BY <1>1, <1>3, <3>1
    <3>3. credited'[j] >= credited[j]
      BY <3>1, CreditsGrow
    <3> QED
      BY <3>2, <3>3
  <2> QED
    BY <1>4, <2>1, <2>2
<1>5. \A n \in 1..Len(runs') :
        \/ n \in 1..Len(runs) /\ runs'[n].event = runs[n].event
        \/ runs'[n].event = position + 1 /\ position + 1 \in 1..MaxEvents
  <2>1. CASE Receive
    <3>1. position + 1 \in 1..MaxEvents /\ runs' = Append(runs, Fresh(position + 1))
      BY <2>1, Elements DEF Receive, Dispatch, Fresh, TypeOK
    <3> QED
      BY <3>1, Elements, DispatchEffect DEF Fresh
  <2>2. CASE OwnerLost
    <3>1. PICK r \in RunType : /\ r.event = runs[current].event
                               /\ runs' = Append([runs EXCEPT ![current] = r],
                                                 Fresh(position + 1))
      <4> DEFINE at == IF runs[current].at = "done" THEN "done" ELSE "lost"
                 r == [runs[current] EXCEPT !.at = at]
      <4>1. current \in 1..Len(runs)
        BY <2>2, Elements DEF OwnerLost, TypeOK, NoRun
      <4>2. runs[current] \in RunType
        BY <1>2, <4>1
      <4>3. r \in RunType /\ r.event = runs[current].event
        BY <4>2 DEF RunType, RunState
      <4>4. runs' = Append([runs EXCEPT ![current] = r], Fresh(position + 1))
        BY <2>2, <4>2 DEF OwnerLost, Fresh, RunType
      <4> HIDE DEF r
      <4> QED
        BY <4>3, <4>4
    <3>2. current \in 1..Len(runs) /\ position + 1 \in 1..MaxEvents
      BY <2>2, Elements DEF OwnerLost, TypeOK, NoRun, CurrentEvent
    <3> DEFINE lost == [runs EXCEPT ![current] = r]
    <3>3. /\ lost \in Seq(RunType) /\ Len(lost) = Len(runs)
          /\ \A m \in 1..Len(runs) : lost[m] = IF m = current THEN r ELSE runs[m]
      BY <3>2, Elements, ExceptSeq
    <3> HIDE DEF lost
    <3>4. /\ Len(Append(lost, Fresh(position + 1))) = Len(lost) + 1
          /\ \A m \in 1..Len(lost) : Append(lost, Fresh(position + 1))[m] = lost[m]
          /\ Append(lost, Fresh(position + 1))[Len(lost) + 1] = Fresh(position + 1)
      BY <3>3, AppendProperties
    <3> QED
      BY <3>1, <3>2, <3>3, <3>4 DEF lost, Fresh
  <2>3. ASSUME NEW m \in 1..Len(runs), Add(m) \/ Commit(m)
        PROVE  \A n \in 1..Len(runs') : n \in 1..Len(runs) /\ runs'[n].event = runs[n].event
    <3>1. PICK r \in RunType : runs' = [runs EXCEPT ![m] = r] /\ r.event = runs[m].event
      BY <2>3, AddEffect, CommitEffect
    <3> QED
      BY <3>1, Exchanged
  <2>4. \/ runs' = runs \/ Receive \/ OwnerLost
        \/ \E m \in 1..Len(runs) : Add(m) \/ Commit(m)
    BY DEF Next, Publish, Start, Return, StoreOffset, Crash, Execute, vars, gridVars
  <2> QED
    BY <2>1, <2>2, <2>3, <2>4
<1> QED
  BY <1>4, <1>5 DEF RunsInTurn

\* Only a start puts the entry of shopper 1.
LEMMA NextFirstAbsent ==
  ASSUME TypeOK, FirstAbsent, [Next]_vars
  PROVE  FirstAbsent'
<1> USE DEF FirstAbsent, Undisturbed
<1>1. CASE Start
  BY <1>1 DEF Start
<1>2. CASE Crash
  BY <1>2 DEF Crash, TypeOK
<1>3. CASE OwnerLost
  BY <1>3 DEF OwnerLost, TypeOK
<1>4. CASE Execute
  <2>1. UNCHANGED <<consumer, crashes, ownersLost>> /\ DOMAIN points' = DOMAIN points
    BY <1>4 DEF Execute, Add, Commit
  <2> QED
    BY <2>1
<1>5. CASE (\E e \in Event : Publish(e)) \/ Receive \/ Return \/ StoreOffset \/ UNCHANGED vars
  BY <1>5 DEF Publish, Receive, Return, StoreOffset, vars, gridVars
<1> QED
  BY <1>1, <1>2, <1>3, <1>4, <1>5 DEF Next

\* What the refinement rests on.
PointLedgerInv == PointInv /\ InOrder /\ RunsInTurn /\ FirstAbsent

LEMMA PointLedgerInvariant == Spec => []PointLedgerInv
<1>1. Init => PointLedgerInv
  <2> SUFFICES ASSUME Init PROVE RunsInTurn /\ FirstAbsent
    BY InitInv, InitInOrder DEF PointLedgerInv
  <2> QED
    BY PointAssumption, EmptySeq DEF Init, RunsInTurn, FirstAbsent
<1>2. PointLedgerInv /\ [Next]_vars => PointLedgerInv'
  BY NextInv, NextInOrder, NextRunsInTurn, NextFirstAbsent DEF PointLedgerInv, PointInv
<1> QED
  BY <1>1, <1>2, PTL DEF Spec

\* Faults are counted.
LEMMA FailuresCount ==
  ASSUME TypeOK
  PROVE  /\ crashes \in Nat /\ ownersLost \in Nat
         /\ crashes + ownersLost > 0 <=> ~Undisturbed
BY PointAssumption DEF TypeOK, Undisturbed

\* A commit that finds the version it has read gives the points of its event.
LEMMA CommitGives ==
  ASSUME PointLedgerInv, NEW n \in 1..Len(runs), Commit(n)
  PROVE  [Ledger!Next]_(Ledger!vars)
<1> DEFINE i == runs[n].event
           s == log[i].owner
<1>1. /\ UNCHANGED <<log, offset, crashes, ownersLost>>
      /\ runs[n].at = "commit" /\ runs[n] \in RunType /\ AsRead(n)
  BY Elements DEF Commit, PointLedgerInv, PointInv, CommitAsRead
<1>2. CASE UNCHANGED <<points, credited>>
  BY <1>1, <1>2 DEF Ledger!vars
<1>3. CASE ~UNCHANGED <<points, credited>>
  <2>1. /\ runs[n].ver = pointVer[s]
        /\ points' = [points EXCEPT ![s] = runs[n].sum]
        /\ credited' = [credited EXCEPT ![i] = @ + 1]
    BY <1>3 DEF Commit, Unchanged
  <2>2. /\ s \in DOMAIN points
        /\ runs[n].sum = points[s] + Ledger!PointsFor(log[i].amount)
    BY <1>1, <2>1 DEF AsRead, OwnerOf, PointsFor, Ledger!PointsFor
  <2>3. points' = [points EXCEPT ![s] = points[s] + Ledger!PointsFor(log[i].amount)]
    BY <2>1, <2>2
  <2>4. \A j \in 1..(i - 1) : credited[j] >= 1
    BY DEF PointLedgerInv, RunsInTurn
  <2>5. credited[i] = 0 \/ crashes + ownersLost > 0
    <3> SUFFICES ASSUME Undisturbed PROVE credited[i] = 0
      BY FailuresCount DEF PointLedgerInv, PointInv
    <3>1. i = n /\ i \in 1..MaxEvents
      BY <1>1 DEF PointLedgerInv, InOrder, RunType
    <3> QED
      BY <1>1, <3>1 DEF PointLedgerInv, InOrder
  <2>6. i \in 1..Len(log)
    BY EventOfRun DEF PointLedgerInv, PointInv
  <2>7. Ledger!Give(i)
    BY <1>1, <2>1, <2>2, <2>3, <2>4, <2>5 DEF Ledger!Give
  <2> QED
    BY <2>6, <2>7 DEF Ledger!Next
<1> QED
  BY <1>2, <1>3

\* Each step of the consumer and the grid is one of the ledger, or changes nothing in it.
LEMMA PointLedgerStep ==
  ASSUME PointLedgerInv, [Next]_vars
  PROVE  [Ledger!Next]_(Ledger!vars)
<1> USE DEF PointLedgerInv, PointInv
<1>1. ASSUME NEW e \in Event, Publish(e) PROVE Ledger!Next
  <2>1. Ledger!Publish(e)
    BY <1>1 DEF Publish, Ledger!Publish, gridVars
  <2> QED
    BY <2>1 DEF Ledger!Next, Ledger!Event, Event
<1>2. CASE Start
  <2>1. First \notin DOMAIN points \/ crashes + ownersLost > 0
    BY <1>2, FailuresCount DEF Start, FirstAbsent
  <2>2. Ledger!Put
    BY <1>2, <2>1 DEF Start, Ledger!Put
  <2> QED
    BY <2>2 DEF Ledger!Next
<1>3. CASE StoreOffset
  <2>1. position > offset /\ position \in 1..Len(log)
    <3>1. /\ offset # position /\ offset <= position
          /\ offset \in Nat /\ position \in 0..Len(log) /\ Len(log) \in Nat
      BY <1>3, Elements DEF StoreOffset, Storable, PositionCredited, TypeOK
    <3> QED
      BY <3>1
  <2>2. Ledger!Confirm(position)
    BY <1>3, <2>1 DEF StoreOffset, Storable, gridVars, PositionCredited, Ledger!Confirm
  <2> QED
    BY <2>1, <2>2 DEF Ledger!Next
<1>4. CASE Crash \/ OwnerLost
  <2>1. UNCHANGED <<log, points, credited, offset>>
    BY <1>4 DEF Crash, OwnerLost, gridVars
  <2>2. crashes' + ownersLost' = (crashes + ownersLost) + 1
    BY <1>4, FailuresCount DEF Crash, OwnerLost
  <2>3. Ledger!Fail
    BY <2>1, <2>2 DEF Ledger!Fail
  <2> QED
    BY <2>3 DEF Ledger!Next
<1>5. CASE Receive \/ Return \/ UNCHANGED vars
  BY <1>5 DEF Receive, Return, vars, gridVars, Ledger!vars
<1>6. ASSUME NEW n \in 1..Len(runs), Add(n) PROVE UNCHANGED Ledger!vars
  BY <1>6 DEF Add, Ledger!vars
<1> QED
  BY <1>1, <1>2, <1>3, <1>4, <1>5, <1>6, CommitGives DEF Next, Execute

\* The consumer and the grid implement the ledger of points.
THEOREM Implements == Spec => ImplementsLedger
<1>1. Init => Ledger!Init
  BY DEF Init, Ledger!Init
<1>2. PointLedgerInv /\ [Next]_vars => [Ledger!Next]_(Ledger!vars)
  BY PointLedgerStep
<1> QED
  BY <1>1, <1>2, PointLedgerInvariant, PTL DEF Spec, ImplementsLedger, Ledger!Spec

\* An event that has given its points was not overtaken: those before it in the topic gave
\* theirs first, wherever the consumer or a node died on the way.
NoneOvertaken ==
  \A i \in 1..MaxEvents : credited[i] >= 1 => \A j \in 1..(i - 1) : credited[j] >= 1

\* Events give their points in the order of the topic, with crashes and without.
THEOREM EventsInOrder == Spec => []NoneOvertaken
<1>1. Init => NoneOvertaken
  BY PointAssumption DEF Init, NoneOvertaken
<1>2. ASSUME PointLedgerInv, NoneOvertaken, [Next]_vars PROVE NoneOvertaken'
  <2> SUFFICES ASSUME NEW i \in 1..MaxEvents, credited'[i] >= 1, NEW j \in 1..(i - 1)
               PROVE  credited'[j] >= 1
    BY DEF NoneOvertaken
  <2>1. /\ credited \in [1..MaxEvents -> Nat] /\ credited' \in [1..MaxEvents -> Nat]
        /\ j \in 1..MaxEvents
    <3>1. PointInv /\ PointInv'
      BY <1>2, NextInv DEF PointLedgerInv
    <3>2. credited \in [1..MaxEvents -> Nat] /\ credited' \in [1..MaxEvents -> Nat]
      BY <3>1 DEF PointInv, TypeOK
    <3>3. MaxEvents \in Nat
      BY PointAssumption
    <3> QED
      BY <3>2, <3>3
  <2>2. CASE credited[i] >= 1
    <3>1. credited[j] >= 1 /\ credited[j] \in Nat /\ credited'[j] \in Nat
      BY <1>2, <2>1, <2>2 DEF NoneOvertaken
    <3>2. credited'[j] >= credited[j]
      BY <1>2, <2>1, CreditsGrow DEF PointLedgerInv
    <3> QED
      BY <3>1, <3>2
  <2>3. CASE ~(credited[i] >= 1)
    <3>1. PICK n \in 1..Len(runs) : Commit(n) /\ credited' # credited
      BY <1>2, <2>3
         DEF Next, Publish, Start, Receive, Return, StoreOffset, Crash, Execute, Add,
             OwnerLost, vars, gridVars
    <3>2. credited' = [credited EXCEPT ![runs[n].event] = @ + 1]
      BY <3>1 DEF Commit
    <3>3. runs[n].event = i
      BY <2>1, <2>3, <3>2
    <3>4. credited[j] >= 1 /\ credited'[j] = credited[j]
      BY <1>2, <2>1, <3>2, <3>3 DEF PointLedgerInv, RunsInTurn
    <3> QED
      BY <3>4
  <2> QED
    BY <2>2, <2>3
<1> QED
  BY <1>1, <1>2, PointLedgerInvariant, PTL DEF Spec
=============================================================================
