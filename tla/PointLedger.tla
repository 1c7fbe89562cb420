---------------------------- MODULE PointLedger -----------------------------
(***************************************************************************)
(* What the point system promises, with no consumer, executions or         *)
(* versions: a ledger of points in which each event of a topic gives its   *)
(* points in one indivisible step, the events in order, and none twice as  *)
(* long as nothing fails.  What was confirmed has been given.              *)
(***************************************************************************)
EXTENDS Naturals, Sequences

CONSTANTS
  Shopper,
  First,       \* the shopper whose entry each start of the application puts
  Amount, StartPoints,
  MaxEvents    \* bound: events in the topic

Event == [owner : Shopper, amount : Amount]

VARIABLES
  log,        \* the events in the topic
  points,     \* shopper |-> points, for those with an entry
  given,      \* event |-> how often it gave its points
  confirmed,  \* the first events, which will not be delivered again
  failures    \* how often something failed

vars == <<log, points, given, confirmed, failures>>

Init ==
  /\ log = <<>>
  /\ \E others \in SUBSET (Shopper \ {First}) : points = [s \in others |-> StartPoints]
  /\ given = [i \in 1..MaxEvents |-> 0]
  /\ confirmed = 0
  /\ failures = 0

PointsFor(amount) == amount \div 100

Publish(e) ==
  /\ Len(log) < MaxEvents
  /\ log' = Append(log, e)
  /\ UNCHANGED <<points, given, confirmed, failures>>

\* At once and in order; again only after a failure.
Give(i) ==
  LET s == log[i].owner
  IN  /\ \A j \in 1..(i - 1) : given[j] >= 1
      /\ given[i] = 0 \/ failures > 0
      /\ s \in DOMAIN points
      /\ points' = [points EXCEPT ![s] = @ + PointsFor(log[i].amount)]
      /\ given' = [given EXCEPT ![i] = @ + 1]
      /\ UNCHANGED <<log, confirmed, failures>>

Confirm(n) ==
  /\ n > confirmed
  /\ \A j \in 1..n : given[j] >= 1
  /\ confirmed' = n
  /\ UNCHANGED <<log, points, given, failures>>

\* The application is started; again only after a failure.
Put ==
  /\ First \notin DOMAIN points \/ failures > 0
  /\ points' = [s \in DOMAIN points \cup {First} |->
                  IF s = First THEN StartPoints ELSE points[s]]
  /\ UNCHANGED <<log, given, confirmed, failures>>

Fail ==
  /\ failures' = failures + 1
  /\ UNCHANGED <<log, points, given, confirmed>>

Next ==
  \/ \E e \in Event : Publish(e)
  \/ \E i \in 1..Len(log) : Give(i) \/ Confirm(i)
  \/ Put \/ Fail

Spec == Init /\ [][Next]_vars
=============================================================================
