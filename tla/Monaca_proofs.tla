------------------------- MODULE Monaca_proofs ----------------------------
(***************************************************************************)
(* Proofs about the two halves of the Monaca library, each by itself, as   *)
(* neither changes a variable of the other: the bridge to the device, for  *)
(* any number of calls, notifications and handlers, on Android and         *)
(* elsewhere; and the client of the cloud, for all users, any number of    *)
(* posts and of reloads and whichever functions the page uses.             *)
(***************************************************************************)
EXTENDS MonacaBridge, MonacaCloud, SequenceTheorems, FiniteSetTheorems, TLAPS

BridgeSpec == BridgeInit /\ [][BridgeNext]_bridgeVars

-----------------------------------------------------------------------------
(* The queue.                                                              *)

\* What functions of the library may call.
Calls == {CheckDebugger} \cup UNION {{calls[i] : i \in DOMAIN calls} : calls \in Functions}

Params == [number : Nat, call : Calls]

QueueType ==
  /\ isDeviceReady \in BOOLEAN
  /\ paramsArray \in Seq(Params)
  /\ native \subseteq [params : Params, queued : BOOLEAN]
  /\ made \in Nat
  /\ threw \in BOOLEAN

\* Calls wait in the order in which they were made, behind those with the device that
\* had to wait themselves.
Ordered ==
  /\ \A i, j \in 1..Len(paramsArray) :
       i < j => paramsArray[i].number < paramsArray[j].number
  /\ \A i \in 1..Len(paramsArray) : paramsArray[i].number <= made
  /\ \A c \in native : c.params.number <= made
  /\ \A c \in native, i \in 1..Len(paramsArray) :
       c.queued => c.params.number < paramsArray[i].number

\* One call drains the queue: there is no second, and one as long as calls wait.
Draining ==
  /\ ~isDeviceReady => native = {}
  /\ \A c, d \in native : c.queued /\ d.queued => c = d
  /\ isDeviceReady /\ paramsArray # <<>> => threw \/ \E c \in native : c.queued

QueueInv == QueueType /\ Ordered /\ Draining

\* A function of the library makes a sequence of calls.
LEMMA FunctionsMakeCalls ==
  ASSUME NEW calls \in Functions
  PROVE  calls \in Seq(Calls)
<1>1. \A x : <<x>> \in Seq({x})
  OBVIOUS
<1>2. CASE calls \in {updateUIStyle(n) : n \in 1..2}
  <2>1. PICK n \in 1..2 : calls = updateUIStyle(n)
    BY <1>2
  <2>2. PICK m \in Nat : calls = [i \in 1..m |-> Component("update")]
    BY <2>1 DEF updateUIStyle
  <2>3. calls \in [1..m -> Calls]
    <3>1. DOMAIN calls = 1..m /\ calls = [i \in 1..m |-> calls[i]]
      BY <2>2
    <3>2. \A i \in 1..m : calls[i] \in Calls
      BY <3>1 DEF Calls
    <3> QED
      BY <3>1, <3>2
  <2> QED
    BY <2>3, SeqDef
<1>3. CASE \E x : calls = <<x>>
  <2>1. PICK x : calls = <<x>>
    BY <1>3
  <2>2. DOMAIN calls = 1..1 /\ calls[1] = x
    BY <2>1
  <2>3. x \in Calls
    BY <2>2 DEF Calls
  <2> QED
    BY <2>1, <2>3
<1>4. CASE calls = <<>>
  BY <1>4, EmptySeq
<1>5. \/ calls \in {updateUIStyle(n) : n \in 1..2}
      \/ calls = <<>>
      \/ \E x : calls = <<x>>
  <2>1. CASE calls \in {retrieveUIStyle(has) : has \in BOOLEAN}
    BY <2>1, Zenon DEF retrieveUIStyle
  <2>2. CASE calls \in SpinnerFunctions
    BY <2>2, Zenon DEF SpinnerFunctions
  <2>3. CASE calls \in PageFunctions
    BY <2>3, Zenon DEF PageFunctions, pushPage, popPage
  <2>4. CASE calls \in {splashScreenHide}
    BY <2>4, Zenon DEF splashScreenHide
  <2>5. CASE calls \in {getDeviceId(has) : has \in BOOLEAN}
    BY <2>5, Zenon DEF getDeviceId
  <2>6. CASE calls \in {getRuntimeConfiguration(has) : has \in BOOLEAN}
    BY <2>6, Zenon DEF getRuntimeConfiguration
  <2>7. CASE calls \in StatusBarFunctions
    BY <2>7, Zenon DEF StatusBarFunctions
  <2> QED
    BY <2>1, <2>2, <2>3, <2>4, <2>5, <2>6, <2>7 DEF Functions
<1> QED
  BY <1>2, <1>3, <1>4, <1>5

\* The calls are numbered one after another.
LEMMA NumberedCalls ==
  ASSUME NEW calls \in Seq(Calls), NEW from \in Nat
  PROVE  /\ Numbered(calls, from) \in Seq(Params)
         /\ Len(Numbered(calls, from)) = Len(calls)
         /\ DOMAIN Numbered(calls, from) = 1..Len(calls)
         /\ \A i \in 1..Len(calls) : Numbered(calls, from)[i].number = from + i
<1>1. Len(calls) \in Nat /\ DOMAIN calls = 1..Len(calls)
      /\ \A i \in 1..Len(calls) : calls[i] \in Calls
  BY LenProperties, ElementOfSeq
<1> DEFINE numbered == [i \in 1..Len(calls) |-> [number |-> from + i, call |-> calls[i]]]
<1>2. Numbered(calls, from) = numbered
  BY <1>1 DEF Numbered
<1>3. numbered \in [1..Len(calls) -> Params]
  BY <1>1 DEF Params
<1>4. numbered \in Seq(Params)
  BY <1>1, <1>3, SeqDef
<1>5. Len(numbered) = Len(calls)
  BY <1>1, <1>3, <1>4, LenProperties
<1> QED
  BY <1>2, <1>4, <1>5

\* Only numbers are looked at from here.
LEMMA QueueElements ==
  ASSUME QueueType
  PROVE  /\ Len(paramsArray) \in Nat
         /\ DOMAIN paramsArray = 1..Len(paramsArray)
         /\ \A i \in 1..Len(paramsArray) :
              paramsArray[i] \in Params /\ paramsArray[i].number \in Nat
         /\ \A c \in native :
              c.params \in Params /\ c.params.number \in Nat /\ c.queued \in BOOLEAN
<1>1. paramsArray \in Seq(Params)
  BY DEF QueueType
<1>2. \A i \in 1..Len(paramsArray) : paramsArray[i] \in Params
  BY <1>1, ElementOfSeq
<1>3. \A p \in Params : p.number \in Nat
  BY DEF Params
<1> QED
  BY <1>1, <1>2, <1>3, LenProperties DEF QueueType

\* At first nothing waits.
LEMMA QueueInit == BridgeInit => QueueInv
<1> SUFFICES ASSUME BridgeInit PROVE QueueInv
  OBVIOUS
<1> DEFINE first == <<CheckDebugger>>
<1>1. first \in Seq(Calls) /\ Len(first) = 1
  BY DEF Calls
<1> HIDE DEF first
<1>2. /\ Numbered(first, 0) \in Seq(Params) /\ Len(Numbered(first, 0)) = 1
      /\ Numbered(first, 0)[1].number = 1
  <2>1. 0 \in Nat /\ 1 \in 1..Len(first)
    BY <1>1
  <2> QED
    BY <1>1, <2>1, NumberedCalls
<1>3. paramsArray = Numbered(first, 0)
  BY DEF BridgeInit, first
<1>4. /\ isDeviceReady = FALSE /\ native = {} /\ made = 1 /\ threw = FALSE
  BY DEF BridgeInit
<1>5. \A i \in 1..Len(paramsArray) : i = 1
  <2>1. Len(paramsArray) = 1
    BY ONLY <1>2, <1>3
  <2> QED
    BY ONLY <2>1
<1>6. QueueType /\ Draining
  BY <1>2, <1>3, <1>4 DEF QueueType, Draining
<1>7. Ordered
  BY <1>2, <1>3, <1>4, <1>5 DEF Ordered
<1> QED
  BY <1>6, <1>7 DEF QueueInv

\* When no call drains the queue any more the next one does.
LEMMA SendNextInv ==
  ASSUME QueueInv, NEW done \in SUBSET native, SendNext(done),
         \A c \in native \ done : ~c.queued,
         isDeviceReady' = TRUE, made' = made, threw' \in BOOLEAN
  PROVE  QueueInv'
<1> USE DEF QueueInv
<1>1. CASE paramsArray = <<>>
  <2>1. paramsArray' = paramsArray /\ native' = native \ done
    BY <1>1 DEF SendNext
  <2> QED
    BY <1>1, <2>1 DEF QueueType, Ordered, Draining
<1>2. CASE paramsArray # <<>>
  <2> DEFINE new == [params |-> Head(paramsArray), queued |-> TRUE]
  <2>1. /\ native' = (native \ done) \cup {new}
        /\ paramsArray' = Tail(paramsArray)
    BY <1>2 DEF SendNext
  <2>2. paramsArray \in Seq(Params)
    BY DEF QueueType
  <2>3. /\ paramsArray' \in Seq(Params)
        /\ Head(paramsArray) \in Params
        /\ Len(paramsArray') = Len(paramsArray) - 1
        /\ \A i \in 1..Len(paramsArray') : paramsArray'[i] = paramsArray[i + 1]
    BY <1>2, <2>1, <2>2, HeadTailProperties
  <2>4. Len(paramsArray) \in Nat \ {0} /\ Head(paramsArray) = paramsArray[1]
    BY <1>2, <2>2, EmptySeq
  <2>5. \A i \in 1..Len(paramsArray') :
          i + 1 \in 1..Len(paramsArray) /\ paramsArray[1].number < paramsArray[i + 1].number
    BY <2>3, <2>4, QueueElements DEF Ordered
  <2>6. new.params = paramsArray[1] /\ new.queued = TRUE
        /\ new \in [params : Params, queued : BOOLEAN]
    BY <2>3, <2>4
  <2> HIDE DEF new
  <2>7. QueueType'
    BY <2>1, <2>3, <2>6 DEF QueueType
  <2>8. Ordered'
    <3>1. \A i, j \in 1..Len(paramsArray') :
            i < j => paramsArray'[i].number < paramsArray'[j].number
      <4> SUFFICES ASSUME NEW i \in 1..Len(paramsArray'), NEW j \in 1..Len(paramsArray'),
                          i < j
                   PROVE  paramsArray'[i].number < paramsArray'[j].number
        OBVIOUS
      <4>1. i + 1 < j + 1 /\ i + 1 \in 1..Len(paramsArray) /\ j + 1 \in 1..Len(paramsArray)
        BY <2>3, <2>4, <2>5
      <4> QED
        BY <2>3, <4>1 DEF Ordered
    <3>2. \A i \in 1..Len(paramsArray') : paramsArray'[i].number <= made'
      BY <2>3, <2>5 DEF Ordered
    <3>3. \A c \in native' : c.params.number <= made'
      BY <2>1, <2>4, <2>6 DEF Ordered
    <3>4. \A c \in native', i \in 1..Len(paramsArray') :
            c.queued => c.params.number < paramsArray'[i].number
      BY <2>1, <2>3, <2>5, <2>6
    <3> QED
      BY <3>1, <3>2, <3>3, <3>4 DEF Ordered
  <2>9. Draining'
    BY <2>1, <2>6 DEF Draining
  <2> QED
    BY <2>7, <2>8, <2>9
<1> QED
  BY <1>1, <1>2

\* apiQueue.exec puts a call at the end of the queue, or past it once the device is
\* ready.
LEMMA InvokeInv ==
  ASSUME QueueInv, Invoke
  PROVE  QueueInv'
<1> USE DEF QueueInv
<1>1. PICK calls \in Functions :
        /\ made' = made + Len(calls)
        /\ \/ /\ ~isDeviceReady
              /\ paramsArray' = paramsArray \o Numbered(calls, made)
              /\ UNCHANGED native
           \/ /\ isDeviceReady
              /\ native' = native \cup
                   {[params |-> Numbered(calls, made)[i], queued |-> FALSE] :
                      i \in DOMAIN Numbered(calls, made)}
              /\ UNCHANGED paramsArray
  BY DEF Invoke
<1> DEFINE numbered == Numbered(calls, made)
           n == Len(paramsArray)
<1>2. UNCHANGED <<isDeviceReady, threw>>
  BY DEF Invoke
<1>3. calls \in Seq(Calls) /\ made \in Nat
  BY FunctionsMakeCalls DEF QueueType
<1>4. /\ numbered \in Seq(Params) /\ Len(numbered) = Len(calls)
      /\ DOMAIN numbered = 1..Len(calls)
      /\ \A i \in 1..Len(calls) : numbered[i].number = made + i
  BY <1>3, NumberedCalls
<1>5. Len(calls) \in Nat /\ n \in Nat /\ \A i \in 1..Len(calls) : numbered[i] \in Params
  BY <1>3, <1>4, LenProperties, ElementOfSeq, QueueElements
<1>6. made' \in Nat /\ made <= made'
  BY <1>1, <1>3, <1>5
<1> HIDE DEF numbered
<1>7. CASE ~isDeviceReady /\ paramsArray' = paramsArray \o numbered /\ native' = native
  <2>1. paramsArray \in Seq(Params)
    BY DEF QueueType
  <2>2. /\ paramsArray' \in Seq(Params)
        /\ Len(paramsArray') = n + Len(calls)
        /\ \A i \in 1..(n + Len(calls)) :
             paramsArray'[i] = IF i <= n THEN paramsArray[i] ELSE numbered[i - n]
    <3>1. /\ paramsArray \o numbered \in Seq(Params)
          /\ Len(paramsArray \o numbered) = n + Len(numbered)
          /\ \A i \in 1..(n + Len(numbered)) :
               (paramsArray \o numbered)[i] =
                 IF i <= n THEN paramsArray[i] ELSE numbered[i - n]
      BY <1>4, <2>1, ConcatProperties
    <3> QED
      BY <1>4, <1>7, <3>1
  <2>3. \A i \in 1..Len(paramsArray') :
          \/ i \in 1..n /\ paramsArray'[i] = paramsArray[i]
          \/ i > n /\ paramsArray'[i].number = made + (i - n)
    BY <1>4, <1>5, <2>2
  <2>4. native = {}
    BY <1>7 DEF Draining
  <2>5. \A i \in 1..n : paramsArray[i].number \in Nat /\ paramsArray[i].number <= made
    BY QueueElements DEF Ordered
  <2>6. QueueType'
    BY <1>2, <1>6, <1>7, <2>2 DEF QueueType
  <2>7. Ordered'
    <3>1. \A i, j \in 1..Len(paramsArray') :
            i < j => paramsArray'[i].number < paramsArray'[j].number
      <4> SUFFICES ASSUME NEW i \in 1..Len(paramsArray'), NEW j \in 1..Len(paramsArray'),
                          i < j
                   PROVE  paramsArray'[i].number < paramsArray'[j].number
        OBVIOUS
      <4>1. CASE j \in 1..n
        BY <1>5, <2>3, <4>1 DEF Ordered
      <4>2. CASE j > n
        <5>1. paramsArray'[j].number = made + (j - n) /\ i \in Nat /\ j \in Nat
          BY <1>5, <2>2, <2>3, <4>2
        <5>2. CASE i \in 1..n
          <6>1. paramsArray'[i].number \in Nat /\ paramsArray'[i].number <= made
            BY <1>5, <2>3, <2>5, <5>2
          <6> QED
            BY <1>3, <1>5, <4>2, <5>1, <6>1
        <5>3. CASE i > n
          <6>1. paramsArray'[i].number = made + (i - n)
            BY <1>5, <2>3, <5>3
          <6> QED
            BY <1>3, <1>5, <5>1, <6>1
        <5> QED
          BY <1>5, <5>1, <5>2, <5>3
      <4> QED
        BY <1>5, <2>2, <4>1, <4>2
    <3>2. ASSUME NEW i \in 1..Len(paramsArray')
          PROVE  paramsArray'[i].number <= made'
      <4>1. i \in Nat /\ i <= n + Len(calls) /\ made' = made + Len(calls)
        BY <1>1, <1>5, <2>2
      <4>2. CASE i \in 1..n
        BY <1>3, <1>6, <2>3, <2>5, <4>2
      <4>3. CASE i > n
        <5>1. paramsArray'[i].number = made + (i - n)
          BY <1>5, <2>3, <4>3
        <5> QED
          BY <1>3, <1>5, <4>1, <5>1
      <4> QED
        BY <1>5, <2>3, <4>2, <4>3
    <3> QED
      BY <1>7, <2>4, <3>1, <3>2 DEF Ordered
  <2>8. Draining'
    BY <1>2, <1>7, <2>4 DEF Draining
  <2> QED
    BY <2>6, <2>7, <2>8
<1>8. CASE /\ isDeviceReady
           /\ native' = native \cup {[params |-> numbered[i], queued |-> FALSE] :
                                        i \in DOMAIN numbered}
           /\ paramsArray' = paramsArray
  <2>1. \A c \in native' :
          \/ c \in native
          \/ /\ c \in [params : Params, queued : BOOLEAN] /\ ~c.queued
             /\ c.params.number <= made'
    <3> SUFFICES ASSUME NEW i \in 1..Len(calls),
                        NEW c, c = [params |-> numbered[i], queued |-> FALSE]
                 PROVE  /\ c \in [params : Params, queued : BOOLEAN] /\ ~c.queued
                        /\ c.params.number <= made'
      BY <1>4, <1>8
    <3>1. numbered[i] \in Params /\ numbered[i].number = made + i
      BY <1>4, <1>5
    <3> QED
      BY <1>1, <1>3, <1>5, <3>1
  <2>2. native \subseteq native'
    BY <1>8
  <2>3. QueueType'
    BY <1>2, <1>6, <1>8, <2>1 DEF QueueType
  <2>4. \A k \in Nat : k <= made => k <= made'
    BY <1>3, <1>6
  <2>5. Ordered'
    BY <1>8, <2>1, <2>4, QueueElements DEF Ordered
  <2>6. Draining'
    BY <1>2, <1>8, <2>1, <2>2 DEF Draining
  <2> QED
    BY <2>3, <2>5, <2>6
<1> QED
  BY <1>1, <1>7, <1>8 DEF numbered

\* An answer to a call of the queue sends the next one, unless its callback threw.
LEMMA AnswerInv ==
  ASSUME QueueInv, Answer
  PROVE  QueueInv'
<1> USE DEF QueueInv
<1>1. PICK c \in native, ok \in BOOLEAN :
        /\ \/ Resumes(c, ok) /\ SendNext({c})
           \/ ~Resumes(c, ok) /\ native' = native \ {c} /\ UNCHANGED paramsArray
        /\ threw' = (threw \/ (c.queued /\ Throws(c, ok)))
  BY DEF Answer
<1>2. UNCHANGED <<isDeviceReady, made>>
  BY DEF Answer
<1>3. isDeviceReady = TRUE
  BY <1>1 DEF Draining, QueueType
<1>4. threw' \in BOOLEAN /\ (threw => threw')
  BY <1>1
<1>5. CASE Resumes(c, ok) /\ SendNext({c})
  <2>1. \A d \in native \ {c} : ~d.queued
    BY <1>5 DEF Resumes, Draining
  <2> QED
    BY <1>2, <1>3, <1>4, <1>5, <2>1, SendNextInv
<1>6. CASE ~Resumes(c, ok) /\ native' = native \ {c} /\ paramsArray' = paramsArray
  <2>1. c.queued => threw'
    BY <1>1, <1>6 DEF Resumes
  <2>2. Draining'
    BY <1>2, <1>3, <1>4, <1>6, <2>1 DEF Draining
  <2>3. QueueType' /\ Ordered'
    BY <1>2, <1>4, <1>6 DEF QueueType, Ordered
  <2> QED
    BY <2>2, <2>3
<1> QED
  BY <1>1, <1>5, <1>6

\* Every step keeps the order of the queue.
LEMMA QueueStep ==
  ASSUME QueueInv, [BridgeNext]_bridgeVars
  PROVE  QueueInv'
<1>1. CASE Invoke
  BY <1>1, InvokeInv
<1>2. CASE DeviceReady
  <2>1. /\ ~isDeviceReady /\ isDeviceReady' = TRUE /\ SendNext({})
        /\ UNCHANGED <<made, threw>>
    BY <1>2 DEF DeviceReady
  <2>2. native = {} /\ threw' \in BOOLEAN
    BY <2>1 DEF QueueInv, Draining, QueueType
  <2> QED
    BY <2>1, <2>2, SendNextInv
<1>3. CASE Answer
  BY <1>3, AnswerInv
<1>4. CASE PushSend \/ SetHandler \/ HandlerReturns \/ HandlerThrows \/ UNCHANGED bridgeVars
  <2>1. UNCHANGED <<isDeviceReady, paramsArray, native, made, threw>>
    BY <1>4
       DEF PushSend, SetHandler, HandlerReturns, HandlerThrows, bridgeVars, queueVars
  <2> QED
    BY <2>1 DEF QueueInv, QueueType, Ordered, Draining
<1> QED
  BY <1>1, <1>2, <1>3, <1>4 DEF BridgeNext

\* However many calls wait, whatever the device answers and in which order: one call
\* at a time drains the queue, from its front, and none waits for ever behind it unless
\* the page's callback has thrown.
THEOREM QueueDrains == BridgeSpec => []OneDrains
<1>1. QueueInv => OneDrains
  <2> SUFFICES ASSUME QueueInv PROVE OneDrains
    OBVIOUS
  <2> DEFINE draining == {c \in native : c.queued}
  <2>1. draining = {} \/ \E c : draining = {c}
    BY DEF QueueInv, Draining
  <2>2. Cardinality(draining) <= 1
    <3> HIDE DEF draining
    <3>1. CASE draining = {}
      BY <3>1, FS_EmptySet
    <3>2. CASE \E c : draining = {c}
      <4>1. PICK c : draining = {c}
        BY <3>2
      <4>2. Cardinality({c}) = 1
        BY FS_Singleton
      <4> QED
        BY <4>1, <4>2
    <3> QED
      BY <2>1, <3>1, <3>2
  <2>3. isDeviceReady /\ paramsArray # <<>> => draining # {} \/ threw
    BY DEF QueueInv, Draining
  <2>4. \A c \in draining, i \in DOMAIN paramsArray :
          c.params.number < paramsArray[i].number
    BY QueueElements DEF QueueInv, Ordered
  <2> QED
    BY <2>2, <2>3, <2>4 DEF OneDrains
<1>2. QueueInv /\ [BridgeNext]_bridgeVars => QueueInv'
  BY QueueStep
<1> QED
  BY QueueInit, <1>1, <1>2, PTL DEF BridgeSpec

-----------------------------------------------------------------------------
(* Push notifications.                                                     *)

HandlerCalls == [data : Notification, caller : {"send", "setHandler"}]

PushType ==
  /\ sentPushes \in Seq(Notification)
  /\ deliveries \in Seq(Handler \X Notification)
  /\ pushCallback \in Handler \cup {None}
  /\ pushData \in Notification \cup {None}
  /\ pushRunning \in Seq(HandlerCalls)

Sent == {sentPushes[i] : i \in 1..Len(sentPushes)}
Delivered == {deliveries[i][2] : i \in 1..Len(deliveries)}

\* Before there is a handler nothing is delivered, and the last notification waits.
BeforeHandler ==
  pushCallback = None =>
    /\ deliveries = <<>> /\ pushRunning = <<>>
    /\ sentPushes # <<>> => pushData = sentPushes[Len(sentPushes)]

AfterHandler ==
  pushCallback # None /\ sentPushes # <<>> => sentPushes[Len(sentPushes)] \in Delivered

\* What waits no handler has returned from; and none that is under way will before it is
\* forgotten: setHandler forgets it then, and send has been given another.
WaitsUntaken ==
  /\ pushData # None => pushData \in Sent /\ pushData \notin taken
  /\ taken \subseteq Sent
  /\ \A i \in 1..Len(pushRunning) :
       /\ pushRunning[i].data \in Sent
       /\ pushRunning[i].caller = "send" => pushRunning[i].data # pushData

PushInv == PushType /\ BeforeHandler /\ AfterHandler /\ WaitsUntaken

\* What a step calls handlers with, none has returned from yet.
CallsUntaken ==
  \A i \in DOMAIN deliveries' \ DOMAIN deliveries : deliveries'[i][2] \notin taken

\* At first there is neither notification nor handler.
LEMMA PushInit == BridgeInit => PushInv
<1>1. \A S : <<>> \in Seq(S) /\ Len(<<>>) = 0
  BY EmptySeq
<1> QED
  BY <1>1
     DEF BridgeInit, PushInv, PushType, Sent, Delivered, BeforeHandler, AfterHandler,
         WaitsUntaken

\* One more call, of h with d.
LEMMA OneMore ==
  ASSUME PushType, NEW h \in Handler, NEW d \in Notification,
         NEW caller \in {"send", "setHandler"}, CallHandler(h, d, caller)
  PROVE  /\ deliveries' \in Seq(Handler \X Notification) /\ pushRunning' \in Seq(HandlerCalls)
         /\ Delivered' = Delivered \cup {d}
         /\ \A i \in DOMAIN deliveries' \ DOMAIN deliveries : deliveries'[i][2] = d
         /\ \A i \in 1..Len(pushRunning') :
              \/ i \in 1..Len(pushRunning) /\ pushRunning'[i] = pushRunning[i]
              \/ pushRunning'[i].data = d /\ pushRunning'[i].caller = caller
<1> DEFINE n == Len(deliveries)
           m == Len(pushRunning)
           call == [data |-> d, caller |-> caller]
<1>1. /\ deliveries \in Seq(Handler \X Notification) /\ <<h, d>> \in Handler \X Notification
      /\ pushRunning \in Seq(HandlerCalls) /\ call \in HandlerCalls
  BY DEF PushType, HandlerCalls
<1>2. deliveries' = Append(deliveries, <<h, d>>) /\ pushRunning' = Append(pushRunning, call)
  BY DEF CallHandler
<1>3. n \in Nat /\ m \in Nat /\ DOMAIN deliveries = 1..n
  BY <1>1, LenProperties
<1>4. /\ deliveries' \in Seq(Handler \X Notification)
      /\ Len(deliveries') = n + 1 /\ DOMAIN deliveries' = 1..(n + 1)
      /\ \A i \in 1..n : deliveries'[i] = deliveries[i]
      /\ deliveries'[n + 1] = <<h, d>>
  BY <1>1, <1>2, AppendProperties, LenProperties
<1>5. /\ pushRunning' \in Seq(HandlerCalls) /\ Len(pushRunning') = m + 1
      /\ \A i \in 1..m : pushRunning'[i] = pushRunning[i]
      /\ pushRunning'[m + 1] = call
  BY <1>1, <1>2, AppendProperties
<1>6. Delivered' = Delivered \cup {d}
  <2>1. \A i \in 1..Len(deliveries') : i \in 1..n \/ i = n + 1
    BY <1>3, <1>4
  <2>2. n + 1 \in 1..Len(deliveries') /\ \A i \in 1..n : i \in 1..Len(deliveries')
    BY <1>3, <1>4
  <2>3. deliveries'[n + 1][2] = d
    BY <1>4
  <2> QED
    BY <1>4, <2>1, <2>2, <2>3 DEF Delivered
<1>7. \A i \in DOMAIN deliveries' \ DOMAIN deliveries : deliveries'[i][2] = d
  <2>1. \A i \in DOMAIN deliveries' \ DOMAIN deliveries : i = n + 1
    BY <1>3, <1>4
  <2> QED
    BY <1>4, <2>1
<1>8. \A i \in 1..Len(pushRunning') :
        \/ i \in 1..m /\ pushRunning'[i] = pushRunning[i]
        \/ pushRunning'[i].data = d /\ pushRunning'[i].caller = caller
  <2>1. \A i \in 1..Len(pushRunning') : i \in 1..m \/ i = m + 1
    BY <1>3, <1>5
  <2>2. call.data = d /\ call.caller = caller
    OBVIOUS
  <2> QED
    BY <1>5, <2>1, <2>2
<1> QED
  BY <1>4, <1>5, <1>6, <1>7, <1>8

\* One notification more: it is none of those before.
LEMMA OneMoreSent ==
  ASSUME PushType, NEW d \in Notification, \A i \in DOMAIN sentPushes : sentPushes[i] # d,
         sentPushes' = Append(sentPushes, d)
  PROVE  /\ sentPushes' \in Seq(Notification) /\ sentPushes' # <<>>
         /\ sentPushes'[Len(sentPushes')] = d
         /\ Sent \subseteq Sent' /\ d \in Sent' /\ d \notin Sent
<1>1. sentPushes \in Seq(Notification)
  BY DEF PushType
<1>2. /\ sentPushes' \in Seq(Notification) /\ sentPushes' # <<>>
      /\ Len(sentPushes') = Len(sentPushes) + 1 /\ Len(sentPushes) \in Nat
      /\ \A i \in 1..Len(sentPushes) : sentPushes'[i] = sentPushes[i]
      /\ sentPushes'[Len(sentPushes')] = d
  BY <1>1, AppendProperties, LenProperties
<1> QED
  BY <1>1, <1>2, LenProperties DEF Sent

\* Push.send calls the handler there is, or keeps the notification for the next.
LEMMA PushSendInv ==
  ASSUME PushInv, PushSend
  PROVE  PushInv' /\ CallsUntaken
<1> USE BridgeAssumption DEF PushInv
<1>1. PICK d \in Notification :
        /\ \A i \in DOMAIN sentPushes : sentPushes[i] # d
        /\ sentPushes' = Append(sentPushes, d)
        /\ \/ /\ pushCallback # None
              /\ CallHandler(pushCallback, d, "send")
              /\ UNCHANGED pushData
           \/ /\ pushCallback = None
              /\ pushData' = d
              /\ UNCHANGED <<deliveries, pushRunning>>
  BY DEF PushSend
<1>2. pushCallback' = pushCallback /\ taken' = taken /\ pushRunning = <<>>
  BY DEF PushSend, PageIsFree
<1>3. /\ sentPushes' \in Seq(Notification) /\ sentPushes' # <<>>
      /\ sentPushes'[Len(sentPushes')] = d
      /\ Sent \subseteq Sent' /\ d \in Sent' /\ d \notin Sent
  BY <1>1, OneMoreSent
<1>4. d # None /\ d \notin taken /\ taken \subseteq Sent'
  BY <1>3 DEF WaitsUntaken
<1>5. Len(pushRunning) = 0
  BY <1>2, EmptySeq
<1>6. CASE /\ pushCallback # None /\ pushData' = pushData
           /\ CallHandler(pushCallback, d, "send")
  <2>1. pushCallback \in Handler
    BY <1>6 DEF PushType
  <2>2. /\ deliveries' \in Seq(Handler \X Notification) /\ pushRunning' \in Seq(HandlerCalls)
        /\ Delivered' = Delivered \cup {d}
        /\ \A i \in DOMAIN deliveries' \ DOMAIN deliveries : deliveries'[i][2] = d
        /\ \A i \in 1..Len(pushRunning') :
             \/ i \in 1..Len(pushRunning) /\ pushRunning'[i] = pushRunning[i]
             \/ pushRunning'[i].data = d /\ pushRunning'[i].caller = "send"
    BY <1>6, <2>1, OneMore
  <2>3. PushType'
    BY <1>2, <1>3, <1>6, <2>2 DEF PushType
  <2>4. WaitsUntaken'
    <3>1. pushData' # None => pushData' \in Sent /\ pushData' # d /\ pushData' \notin taken
      BY <1>3, <1>6 DEF WaitsUntaken
    <3>2. \A i \in 1..Len(pushRunning') : pushRunning'[i].data = d
      BY <1>5, <2>2
    <3> QED
      BY <1>2, <1>3, <1>4, <3>1, <3>2 DEF WaitsUntaken
  <2>5. BeforeHandler' /\ AfterHandler'
    BY <1>2, <1>3, <1>6, <2>2 DEF BeforeHandler, AfterHandler
  <2> QED
    BY <1>4, <2>2, <2>3, <2>4, <2>5 DEF CallsUntaken
<1>7. CASE /\ pushCallback = None /\ pushData' = d
           /\ UNCHANGED <<deliveries, pushRunning>>
  <2>1. PushType'
    BY <1>2, <1>3, <1>7 DEF PushType
  <2>2. WaitsUntaken'
    BY <1>2, <1>3, <1>4, <1>5, <1>7 DEF WaitsUntaken
  <2>3. BeforeHandler' /\ AfterHandler'
    BY <1>2, <1>3, <1>7 DEF BeforeHandler, AfterHandler
  <2> QED
    BY <1>7, <2>1, <2>2, <2>3 DEF CallsUntaken
<1> QED
  BY <1>1, <1>6, <1>7

\* Push.setHandler calls the handler with what waits, and forgets nothing yet.
LEMMA SetHandlerInv ==
  ASSUME PushInv, SetHandler
  PROVE  PushInv' /\ CallsUntaken
<1> USE BridgeAssumption DEF PushInv
<1>1. PICK h \in Handler :
        /\ pushCallback' = h
        /\ \/ pushData # None /\ CallHandler(h, pushData, "setHandler")
           \/ pushData = None /\ UNCHANGED <<deliveries, pushRunning>>
  BY DEF SetHandler
<1>2. UNCHANGED <<pushData, sentPushes, taken>> /\ Sent' = Sent /\ h # None
  BY DEF SetHandler, Sent
<1>3. CASE pushData # None /\ CallHandler(h, pushData, "setHandler")
  <2>1. pushData \in Notification
    BY <1>3 DEF PushType
  <2>2. /\ deliveries' \in Seq(Handler \X Notification) /\ pushRunning' \in Seq(HandlerCalls)
        /\ Delivered' = Delivered \cup {pushData}
        /\ \A i \in DOMAIN deliveries' \ DOMAIN deliveries : deliveries'[i][2] = pushData
        /\ \A i \in 1..Len(pushRunning') :
             \/ i \in 1..Len(pushRunning) /\ pushRunning'[i] = pushRunning[i]
             \/ /\ pushRunning'[i].data = pushData
                /\ pushRunning'[i].caller = "setHandler"
    BY <1>3, <2>1, OneMore
  <2>3. PushType'
    BY <1>1, <1>2, <2>2 DEF PushType
  <2>4. WaitsUntaken'
    BY <1>2, <1>3, <2>2 DEF WaitsUntaken
  <2>5. BeforeHandler' /\ AfterHandler'
    BY <1>1, <1>2, <2>2 DEF BeforeHandler, AfterHandler
  <2>6. CallsUntaken
    BY <1>3, <2>2 DEF WaitsUntaken, CallsUntaken
  <2> QED
    BY <2>3, <2>4, <2>5, <2>6
<1>4. CASE pushData = None /\ UNCHANGED <<deliveries, pushRunning>>
  <2>1. Delivered' = Delivered
    BY <1>4 DEF Delivered
  <2>2. AfterHandler'
    <3>1. sentPushes # <<>> => sentPushes[Len(sentPushes)] \in Notification
      <4>1. sentPushes \in Seq(Notification)
        BY DEF PushType
      <4>2. sentPushes # <<>> => Len(sentPushes) \in 1..Len(sentPushes)
        BY <4>1, EmptySeq
      <4> QED
        BY <4>1, <4>2, ElementOfSeq
    <3> QED
      BY <1>2, <1>4, <2>1, <3>1 DEF BeforeHandler, AfterHandler
  <2> QED
    BY <1>1, <1>2, <1>4, <2>1, <2>2
       DEF PushType, BeforeHandler, WaitsUntaken, CallsUntaken
<1> QED
  BY <1>1, <1>3, <1>4

\* The handler that ends was the innermost; those that called it are still under way.
LEMMA OneLess ==
  ASSUME PushType, ~PageIsFree,
         pushRunning' = SubSeq(pushRunning, 1, Len(pushRunning) - 1)
  PROVE  /\ Len(pushRunning) \in 1..Len(pushRunning)
         /\ pushRunning' \in Seq(HandlerCalls)
         /\ \A i \in 1..Len(pushRunning') :
              i \in 1..Len(pushRunning) /\ pushRunning'[i] = pushRunning[i]
<1> DEFINE n == Len(pushRunning)
<1>1. pushRunning \in Seq(HandlerCalls) /\ pushRunning # <<>>
  BY DEF PushType, PageIsFree
<1>2. n \in Nat /\ n # 0
  BY <1>1, EmptySeq, LenProperties
<1>3. 1 \in Int /\ n - 1 \in Int /\ \A i \in 1..(n - 1) : pushRunning[i] \in HandlerCalls
  BY <1>1, <1>2, ElementOfSeq
<1>4. /\ pushRunning' \in Seq(HandlerCalls)
      /\ Len(pushRunning') = IF 1 <= n - 1 THEN (n - 1) - 1 + 1 ELSE 0
      /\ \A i \in 1..((n - 1) - 1 + 1) : pushRunning'[i] = pushRunning[1 + i - 1]
  BY <1>3, SubSeqProperties
<1> QED
  BY <1>2, <1>4

\* A handler returns: what it was called with no longer waits.
LEMMA HandlerReturnsInv ==
  ASSUME PushInv, HandlerReturns
  PROVE  PushInv'
<1> USE DEF PushInv
<1> DEFINE call == pushRunning[Len(pushRunning)]
<1>1. /\ UNCHANGED <<pushCallback, sentPushes, deliveries>>
      /\ pushData' = IF call.caller = "setHandler" THEN None ELSE pushData
      /\ taken' = taken \cup {call.data}
      /\ Sent' = Sent /\ Delivered' = Delivered
  BY DEF HandlerReturns, StillWaiting, Sent, Delivered
<1>2. /\ Len(pushRunning) \in 1..Len(pushRunning)
      /\ pushRunning' \in Seq(HandlerCalls)
      /\ \A i \in 1..Len(pushRunning') :
           i \in 1..Len(pushRunning) /\ pushRunning'[i] = pushRunning[i]
  BY OneLess DEF HandlerReturns
<1>3. pushRunning # <<>>
  BY DEF HandlerReturns, PageIsFree
<1>4. call \in HandlerCalls /\ call.caller \in {"send", "setHandler"}
  <2>1. call \in HandlerCalls
    BY <1>2, ElementOfSeq DEF PushType
  <2> QED
    BY <2>1 DEF HandlerCalls
<1>5. call.data \in Sent /\ (call.caller = "send" => call.data # pushData)
  BY <1>2 DEF WaitsUntaken
<1>6. PushType'
  BY <1>1, <1>2 DEF PushType
<1>7. BeforeHandler' /\ AfterHandler'
  BY <1>1, <1>3 DEF BeforeHandler, AfterHandler
<1>8. WaitsUntaken'
  <2> HIDE DEF call
  <2>1. \A i \in 1..Len(pushRunning') : pushRunning'[i].data \in Notification
    <3>1. \A i \in 1..Len(pushRunning') : pushRunning'[i] \in HandlerCalls
      BY <1>2, ElementOfSeq
    <3> QED
      BY <3>1 DEF HandlerCalls
  <2>2. None \notin Notification
    BY BridgeAssumption
  <2>3. CASE call.caller = "setHandler"
    BY <1>1, <1>2, <1>5, <2>1, <2>2, <2>3 DEF WaitsUntaken
  <2>4. CASE call.caller = "send"
    BY <1>1, <1>2, <1>5, <2>4 DEF WaitsUntaken
  <2> QED
    BY <1>4, <2>3, <2>4
<1> QED
  BY <1>6, <1>7, <1>8

\* A handler throws: what waited waits on.
LEMMA HandlerThrowsInv ==
  ASSUME PushInv, HandlerThrows
  PROVE  PushInv'
<1> USE DEF PushInv
<1>1. /\ UNCHANGED <<pushCallback, pushData, sentPushes, deliveries, taken>>
      /\ Sent' = Sent /\ Delivered' = Delivered
  BY DEF HandlerThrows, Sent, Delivered
<1>2. /\ pushRunning' \in Seq(HandlerCalls)
      /\ \A i \in 1..Len(pushRunning') :
           i \in 1..Len(pushRunning) /\ pushRunning'[i] = pushRunning[i]
  BY OneLess DEF HandlerThrows
<1>3. pushRunning # <<>>
  BY DEF HandlerThrows, PageIsFree
<1> QED
  BY <1>1, <1>2, <1>3 DEF PushType, BeforeHandler, AfterHandler, WaitsUntaken

\* Every step keeps the last notification, in the slot or delivered, and calls handlers
\* only with what none has returned from.
LEMMA PushStep ==
  ASSUME PushInv, [BridgeNext]_bridgeVars
  PROVE  PushInv' /\ CallsUntaken
<1>1. CASE PushSend
  BY <1>1, PushSendInv
<1>2. CASE SetHandler
  BY <1>2, SetHandlerInv
<1>3. CASE HandlerReturns
  BY <1>3, HandlerReturnsInv DEF HandlerReturns, CallsUntaken
<1>4. CASE HandlerThrows
  BY <1>4, HandlerThrowsInv DEF HandlerThrows, CallsUntaken
<1>5. CASE Invoke \/ DeviceReady \/ Answer \/ UNCHANGED bridgeVars
  <2>1. UNCHANGED pushVars
    BY <1>5 DEF Invoke, DeviceReady, Answer, bridgeVars
  <2>2. UNCHANGED <<pushCallback, pushData, pushRunning, sentPushes, deliveries, taken>>
    BY <2>1 DEF pushVars
  <2>3. Sent' = Sent /\ Delivered' = Delivered
    BY <2>2 DEF Sent, Delivered
  <2> QED
    BY <2>2, <2>3
       DEF PushInv, PushType, BeforeHandler, AfterHandler, WaitsUntaken, CallsUntaken
<1> QED
  BY <1>1, <1>2, <1>3, <1>4, <1>5 DEF BridgeNext

\* Whichever comes first, notification or handler, and however often handlers are set, by
\* the page or by a handler that is being called: the last notification reaches one, and
\* none is given to a handler any more once one has returned from it.
THEOREM PushesReachAHandler == BridgeSpec => LatestPushDelivered
<1>1. PushInv =>
        (pushCallback # None /\ sentPushes # <<>> =>
           \E i \in DOMAIN deliveries : deliveries[i][2] = sentPushes[Len(sentPushes)])
  <2> SUFFICES ASSUME PushInv, pushCallback # None /\ sentPushes # <<>>
               PROVE  \E i \in DOMAIN deliveries :
                        deliveries[i][2] = sentPushes[Len(sentPushes)]
    OBVIOUS
  <2>1. DOMAIN deliveries = 1..Len(deliveries)
    BY LenProperties DEF PushInv, PushType
  <2> QED
    BY <2>1 DEF PushInv, AfterHandler, Delivered
<1>2. PushInv /\ [BridgeNext]_bridgeVars => PushInv'
  BY PushStep
<1>3. PushInv /\ [BridgeNext]_bridgeVars =>
        [\A i \in DOMAIN deliveries' \ DOMAIN deliveries :
           deliveries'[i][2] \notin taken]_pushVars
  BY PushStep DEF CallsUntaken
<1> QED
  BY PushInit, <1>1, <1>2, <1>3, PTL DEF BridgeSpec, LatestPushDelivered

-----------------------------------------------------------------------------
(* The client of the cloud.                                                *)

CloudSpec == CloudInit /\ [][CloudNext]_cloudVars

\* Whom the page takes for its user, its session and the user of the next login agree:
\* every answer that changes one of them changes all, and a page that is loaded again
\* keeps only the last.
THEOREM OneUser == CloudSpec => []Coherent
<1>1. CloudInit => Coherent
  BY DEF CloudInit, Coherent
<1>2. Coherent /\ [CloudNext]_cloudVars => Coherent'
  <2> SUFFICES ASSUME Coherent, [CloudNext]_cloudVars PROVE Coherent'
    OBVIOUS
  <2>1. ASSUME CallCloud \/ AskConfiguration \/ Configured
        PROVE  UNCHANGED <<_sessionId, _oid, loginToken>>
    BY <2>1 DEF CallCloud, AskConfiguration, Configured
  <2>2. CASE Succeed
    BY <2>2 DEF Succeed, SessionAfter, Coherent
  <2>3. ASSUME NEW number \in 1..MaxPosts, Fail(number)
        PROVE  UNCHANGED <<_sessionId, _oid, loginToken>>
    BY <2>3 DEF Fail, Reject
  <2>4. CASE Reload
    BY <2>4 DEF Reload, Coherent
  <2>5. CASE UNCHANGED cloudVars
    BY <2>5 DEF cloudVars, Coherent
  <2> QED
    BY <2>1, <2>2, <2>3, <2>4, <2>5 DEF CloudNext, Coherent
<1> QED
  BY <1>1, <1>2, PTL DEF CloudSpec

State == {"pending", "rejected", "lost", "result"} \cup {f.gives : f \in Api}
Promise == [function : Api, state : State]
Somebody == User \cup {Absent}
Bound == Seq(User \cup {Device, Absent})
Posts == [number : Nat, function : Api, user : Somebody, lent : BOOLEAN,
         conditions : Nat, own : Bound]
Carried == [post : Posts, session : Somebody, bindParams : Bound]

CloudType ==
  /\ promises \in Seq(Promise)
  /\ postQueue \in Seq(Posts)
  /\ inFlight \subseteq Carried
  /\ _oid \in Somebody /\ loginToken \in Somebody
  /\ criteria \in [conditions : Nat, bindParams : Bound]

\* As many values are bound as the criteria have conditions; a post that waits for the
\* device binds nobody; and as long as the device is not known nobody is logged in.
Waits(post) == post.function.criteria = "mine" => post.own[Len(post.own)] = Absent

Mine(request) ==
  request.post.function.criteria = "mine" =>
    \/ /\ Len(request.bindParams) = request.post.conditions
       /\ request.bindParams[Len(request.bindParams)]
            = IF request.session = Absent THEN Device ELSE request.session
    \/ request.post.own[Len(request.post.own)] = Absent /\ request.session = Absent

CloudInv ==
  /\ CloudType /\ Coherent
  /\ Len(criteria.bindParams) = criteria.conditions
  /\ configuration # "known" => inFlight = {} /\ _oid = Absent
  /\ \A k \in DOMAIN postQueue : Waits(postQueue[k])
  /\ \A request \in inFlight : Mine(request)

Criteria == [conditions : Nat, bindParams : Bound]

\* Criteria to which a condition is added bind its owner last.
LEMMA NarrowedBinds ==
  ASSUME NEW c \in Criteria, NEW owner \in User \cup {Device, Absent},
         Len(c.bindParams) = c.conditions
  PROVE  /\ Narrowed(c, owner) \in Criteria
         /\ Len(Narrowed(c, owner).bindParams) = Narrowed(c, owner).conditions
         /\ Narrowed(c, owner).bindParams[Len(Narrowed(c, owner).bindParams)] = owner
<1> DEFINE bound == Append(c.bindParams, owner)
<1>1. c.bindParams \in Bound /\ c.conditions \in Nat
  BY DEF Criteria
<1>2. /\ bound \in Bound /\ Len(bound) = Len(c.bindParams) + 1
      /\ bound[Len(c.bindParams) + 1] = owner
  BY <1>1, AppendProperties DEF Bound
<1> HIDE DEF bound
<1>3. Narrowed(c, owner) = [conditions |-> c.conditions + 1, bindParams |-> bound]
  BY DEF Narrowed, bound
<1> QED
  BY <1>1, <1>2, <1>3 DEF Criteria

\* Without a condition nothing is bound.
LEMMA NothingBound ==
  NoCriteria \in Criteria /\ Len(NoCriteria.bindParams) = NoCriteria.conditions
<1>1. <<>> \in Bound /\ Len(<<>>) = 0
  BY EmptySeq DEF Bound
<1> QED
  BY <1>1 DEF NoCriteria, Criteria

\* The device is known exactly when it has been told.
LEMMA DeviceKnown == deviceId = Absent <=> configuration # "known"
BY CloudAssumption DEF deviceId

\* What goes out, of the criteria that are bound at that time.
LEMMA SentTypes ==
  ASSUME _sessionId \in Somebody, NEW post \in Posts, NEW shared \in Criteria
  PROVE  /\ Request(post, shared) \in Carried
         /\ Request(post, shared).post = post
         /\ Request(post, shared).session = _sessionId
         /\ Request(post, shared).bindParams
              = IF post.lent THEN shared.bindParams ELSE post.own
<1>1. shared.bindParams \in Bound /\ post.own \in Bound
  BY DEF Posts, Criteria
<1> QED
  BY <1>1 DEF Request, Carried

\* Nobody is there at first.
LEMMA CloudInitInv == CloudInit => CloudInv
<1> SUFFICES ASSUME CloudInit PROVE CloudInv
  OBVIOUS
<1>1. promises \in Seq(Promise) /\ postQueue \in Seq(Posts) /\ DOMAIN postQueue = {}
  BY EmptySeq DEF CloudInit
<1>2. CloudType
  BY <1>1, NothingBound DEF CloudInit, CloudType, Somebody, Criteria
<1> QED
  BY <1>1, <1>2, NothingBound DEF CloudInit, CloudInv, Coherent

\* A call narrows the criteria to the user if there is one, else to the device if it
\* is known.
LEMMA CallInv ==
  ASSUME CloudInv, CallCloud
  PROVE  CloudInv'
<1> USE DEF CloudInv
<1>1. PICK f \in Api, lent \in BOOLEAN :
        /\ criteria' = IF lent THEN AskedFor(f, lent) ELSE criteria
        /\ promises' = Append(promises, [function |-> f, state |-> "pending"])
        /\ \E user \in CalledFor(f) :
             \/ /\ deviceId = Absent
                /\ postQueue' = Append(postQueue, Post(f, lent, user))
                /\ UNCHANGED inFlight
             \/ /\ deviceId # Absent
                /\ inFlight' = inFlight \cup {Request(Post(f, lent, user), AskedFor(f, lent))}
                /\ UNCHANGED postQueue
  BY DEF CallCloud
<1>2. PICK user \in CalledFor(f) :
        \/ /\ deviceId = Absent
           /\ postQueue' = Append(postQueue, Post(f, lent, user))
           /\ UNCHANGED inFlight
        \/ /\ deviceId # Absent
           /\ inFlight' = inFlight \cup {Request(Post(f, lent, user), AskedFor(f, lent))}
           /\ UNCHANGED postQueue
  BY <1>1
<1> DEFINE owner == IF isAuthenticated THEN _oid ELSE deviceId
           after == AskedFor(f, lent)
           post == Post(f, lent, user)
<1>3. UNCHANGED <<configuration, _sessionId, _oid, loginToken>>
  BY DEF CallCloud
<1>4. promises' \in Seq(Promise) /\ Len(promises) + 1 \in Nat
  <2>1. [function |-> f, state |-> "pending"] \in Promise
    BY DEF Promise, State
  <2>2. promises \in Seq(Promise)
    BY DEF CloudType
  <2> QED
    BY <1>1, <2>1, <2>2, AppendProperties, LenProperties
<1>5. Validated(lent) \in Criteria /\ Len(Validated(lent).bindParams) = Validated(lent).conditions
  BY NothingBound DEF CloudType, Criteria, Validated
<1>6. owner \in User \cup {Device, Absent}
  BY DEF CloudType, Somebody, deviceId
<1>7. after = IF f.criteria = "mine" THEN Narrowed(Validated(lent), owner) ELSE Validated(lent)
  BY DEF AskedFor
<1> HIDE DEF owner, after
<1>8. /\ after \in Criteria /\ Len(after.bindParams) = after.conditions
      /\ f.criteria = "mine" => after.bindParams[Len(after.bindParams)] = owner
  BY <1>5, <1>6, <1>7, NarrowedBinds
<1>9. user \in Somebody
  BY <1>2 DEF CalledFor, CloudType, Somebody
<1>10. post = [number |-> Len(promises) + 1, function |-> f, user |-> user, lent |-> lent,
               conditions |-> after.conditions, own |-> after.bindParams]
  BY DEF Post, after
<1> HIDE DEF post
<1>11. /\ post \in Posts /\ post.function = f /\ post.conditions = after.conditions
       /\ post.own = after.bindParams
  BY <1>4, <1>8, <1>9, <1>10 DEF Criteria, Posts
<1>12. criteria' \in Criteria /\ Len(criteria'.bindParams) = criteria'.conditions
  BY <1>1, <1>8 DEF CloudType, Criteria, after
<1>13. CASE configuration # "known"
  <2>1. /\ postQueue' = Append(postQueue, post) /\ UNCHANGED inFlight
    BY <1>2, <1>13, DeviceKnown DEF after, post
  <2>2. postQueue \in Seq(Posts)
    BY DEF CloudType
  <2>3. owner = Absent
    BY <1>13, DeviceKnown DEF owner, isAuthenticated
  <2>4. Waits(post)
    BY <1>8, <1>11, <2>3 DEF Waits
  <2>5. /\ postQueue' \in Seq(Posts)
        /\ \A k \in DOMAIN postQueue' :
             \/ postQueue'[k] = post
             \/ k \in DOMAIN postQueue /\ postQueue'[k] = postQueue[k]
    BY <1>11, <2>1, <2>2, AppendProperties, LenProperties
  <2>6. CloudType'
    BY <1>3, <1>4, <1>12, <2>1, <2>5 DEF CloudType, Criteria
  <2> QED
    BY <1>3, <1>12, <2>1, <2>4, <2>5, <2>6 DEF Coherent, Mine
<1>14. CASE configuration = "known"
  <2> DEFINE request == Request(post, after)
  <2>1. inFlight' = inFlight \cup {request} /\ UNCHANGED postQueue
    BY <1>2, <1>14, DeviceKnown DEF after, post
  <2>2. _sessionId \in Somebody
    BY DEF CloudType, Coherent
  <2>3. /\ request \in Carried /\ request.post = post /\ request.session = _sessionId
        /\ request.bindParams = after.bindParams
    BY <1>8, <1>11, <2>2, SentTypes
  <2> HIDE DEF request
  <2>4. owner = IF _sessionId = Absent THEN Device ELSE _sessionId
    BY <1>14 DEF owner, isAuthenticated, deviceId, Coherent
  <2>5. Mine(request)
    BY <1>8, <1>11, <2>3, <2>4 DEF Mine
  <2>6. CloudType'
    BY <1>3, <1>4, <1>12, <2>1, <2>3 DEF CloudType, Criteria
  <2> QED
    BY <1>3, <1>12, <1>14, <2>1, <2>5, <2>6 DEF Coherent, Mine
<1> QED
  BY <1>13, <1>14

\* Settling a promise leaves it one.
LEMMA Settled ==
  ASSUME promises \in Seq(Promise), NEW number, NEW state \in State
  PROVE  [promises EXCEPT ![number].state = state] \in Seq(Promise)
<1> DEFINE after == [promises EXCEPT ![number].state = state]
<1>1. promises \in [1..Len(promises) -> Promise] /\ Len(promises) \in Nat
  BY LenProperties, ElementOfSeq
<1>2. after \in [1..Len(promises) -> Promise]
  BY <1>1 DEF Promise
<1> QED
  BY <1>1, <1>2, IsASeq

\* A request that is in flight was posted by a page that knows the device.
LEMMA InFlightKnown ==
  ASSUME CloudInv, NEW request \in inFlight
  PROVE  /\ request \in Carried
         /\ configuration = "known"
         /\ request.post.user \in Somebody /\ request.post.function \in Api
BY DEF CloudInv, CloudType, Carried, Posts

\* The posts that waited are of nobody, in no session.
LEMMA ConfiguredInv ==
  ASSUME CloudInv, Configured
  PROVE  CloudInv'
<1> USE DEF CloudInv
<1>1. UNCHANGED <<promises, _sessionId, _oid, loginToken, criteria>> /\ configuration # "known"
  BY DEF Configured
<1>2. _sessionId = Absent /\ _oid = Absent /\ inFlight = {}
  BY <1>1 DEF Coherent
<1>3. CASE configuration' = "failed" /\ UNCHANGED <<inFlight, postQueue>>
  <2>1. CloudType'
    BY <1>1, <1>3 DEF CloudType
  <2> QED
    BY <1>1, <1>2, <1>3, <2>1 DEF Coherent
<1>4. CASE /\ configuration' = "known" /\ postQueue' = <<>>
           /\ inFlight' = inFlight \cup Executed(postQueue)
  <2>1. ASSUME NEW request \in inFlight' PROVE request \in Carried /\ Mine(request)
    <3>1. PICK k \in DOMAIN postQueue : request = Request(postQueue[k], criteria)
      BY <1>2, <1>4, <2>1 DEF Executed
    <3>2. postQueue[k] \in Posts
      BY <3>1, ElementOfSeq, LenProperties DEF CloudType
    <3>3. _sessionId \in Somebody /\ criteria \in Criteria
      BY <1>2 DEF CloudType, Somebody, Criteria
    <3>4. request \in Carried /\ request.post = postQueue[k] /\ request.session = Absent
      BY <1>2, <3>1, <3>2, <3>3, SentTypes
    <3> QED
      BY <3>1, <3>4 DEF Waits, Mine
  <2>2. postQueue' \in Seq(Posts) /\ DOMAIN postQueue' = {}
    BY <1>4, EmptySeq
  <2>3. CloudType'
    BY <1>1, <2>1, <2>2 DEF CloudType
  <2> QED
    BY <1>1, <1>2, <1>4, <2>1, <2>2, <2>3 DEF Coherent
<1> QED
  BY <1>3, <1>4 DEF Configured

\* An answer, or none: the request is gone, its promise is settled.
LEMMA AnsweredInv ==
  ASSUME CloudInv, NEW request \in inFlight, NEW state \in State,
         promises' = [promises EXCEPT ![request.post.number].state = state],
         inFlight' = inFlight \ {request},
         UNCHANGED <<configuration, postQueue, criteria>>,
         _oid' \in Somebody, loginToken' \in Somebody, Coherent'
  PROVE  CloudInv'
<1> USE DEF CloudInv
<1>1. promises' \in Seq(Promise)
  BY Settled DEF CloudType
<1>2. configuration = "known"
  OBVIOUS
<1>3. CloudType'
  BY <1>1 DEF CloudType
<1> QED
  BY <1>2, <1>3 DEF Mine

\* An answer lets somebody in, or nobody stays.
LEMMA SucceedInv ==
  ASSUME CloudInv, Succeed
  PROVE  CloudInv'
<1>1. PICK request \in inFlight :
        /\ request.post.function.before = "enter" => request.post.user # Absent
        /\ inFlight' = inFlight \ {request}
        /\ promises' = [promises EXCEPT ![request.post.number].state
                                           = Resolution(request.post.function)]
        /\ _sessionId' = SessionAfter(request.post.function, request.post.user)
        /\ loginToken' = CASE request.post.function.before = "enter" -> request.post.user
                           [] request.post.function.before = "leave" -> Absent
                           [] OTHER -> loginToken
        /\ _oid' = CASE request.post.function.before = "enter" -> request.post.user
                     [] request.post.function.before = "leave" -> Absent
                     [] OTHER -> _oid
        /\ UNCHANGED <<configuration, postQueue, criteria, reloads>>
  BY DEF Succeed
<1>2. request.post.user \in Somebody /\ request.post.function \in Api
  BY InFlightKnown
<1>3. Resolution(request.post.function) \in State
  BY <1>2 DEF Resolution, Settle, State
<1>4. Coherent' /\ _oid' \in Somebody /\ loginToken' \in Somebody
  BY <1>1, <1>2 DEF SessionAfter, CloudInv, CloudType, Coherent, Somebody
<1> QED
  BY <1>1, <1>3, <1>4, AnsweredInv

\* A failure changes nobody.
LEMMA FailInv ==
  ASSUME CloudInv, NEW number, Fail(number)
  PROVE  CloudInv'
<1>1. PICK request \in inFlight : Reject(request)
  BY DEF Fail
<1>2. Coherent' /\ _oid' \in Somebody /\ loginToken' \in Somebody
  BY <1>1 DEF Reject, CloudInv, CloudType, Coherent
<1>3. "rejected" \in State
  BY DEF State
<1> QED
  BY <1>1, <1>2, <1>3, AnsweredInv DEF Reject

\* Nothing is in flight for a page that has just been loaded, and nobody is logged in.
LEMMA ReloadInv ==
  ASSUME CloudInv, Reload
  PROVE  CloudInv'
<1> USE DEF CloudInv
<1>1. promises' \in Seq(Promise)
  <2>1. promises \in [1..Len(promises) -> Promise] /\ Len(promises) \in Nat
        /\ DOMAIN promises = 1..Len(promises)
    BY LenProperties, ElementOfSeq DEF CloudType
  <2>2. promises' = [k \in 1..Len(promises) |->
                       [promises[k] EXCEPT !.state = Settle(@, "lost")]]
    BY <2>1 DEF Reload
  <2>3. ASSUME NEW k \in 1..Len(promises)
        PROVE  [promises[k] EXCEPT !.state = Settle(@, "lost")] \in Promise
    <3>1. promises[k] \in Promise
      BY <2>1
    <3> QED
      BY <3>1 DEF Promise, State, Settle
  <2>4. promises' \in [1..Len(promises) -> Promise]
    BY <2>2, <2>3
  <2> QED
    BY <2>1, <2>4, IsASeq
<1>2. postQueue' \in Seq(Posts) /\ DOMAIN postQueue' = {}
  BY EmptySeq DEF Reload
<1>3. CloudType'
  BY <1>1, <1>2, NothingBound DEF Reload, CloudType, Somebody, Criteria
<1> QED
  BY <1>2, <1>3, NothingBound DEF Reload, Coherent

\* Every step keeps the invariant.
LEMMA CloudStep ==
  ASSUME CloudInv, [CloudNext]_cloudVars
  PROVE  CloudInv'
<1>1. CASE AskConfiguration
  <2>1. CloudType'
    BY <1>1 DEF AskConfiguration, CloudInv, CloudType
  <2> QED
    BY <1>1, <2>1 DEF AskConfiguration, CloudInv, Coherent
<1>2. CASE UNCHANGED cloudVars
  <2>1. CloudType'
    BY <1>2 DEF cloudVars, CloudInv, CloudType
  <2> QED
    BY <1>2, <2>1 DEF cloudVars, CloudInv, Coherent
<1> QED
  BY <1>1, <1>2, CallInv, ConfiguredInv, SucceedInv, FailInv, ReloadInv DEF CloudNext

\* What is asked for as one's own is the own of the user of the session, or of the device
\* where there is no session; only what had to wait for the device asks for nobody's.
\* However many calls share a Criteria object, one owner is bound for each condition.
THEOREM AsksForOnesOwn == CloudSpec => []MineOfTheSession
<1>1. CloudInv => MineOfTheSession
  BY DEF CloudInv, Mine, MineOfTheSession
<1> QED
  BY CloudInitInv, CloudStep, <1>1, PTL DEF CloudSpec

-----------------------------------------------------------------------------
(* The library.                                                            *)

\* Both halves at once, in any interleaving.
LibrarySpec ==
  /\ BridgeInit /\ CloudInit
  /\ [][\/ BridgeNext /\ UNCHANGED cloudVars
        \/ CloudNext /\ UNCHANGED bridgeVars]_<<bridgeVars, cloudVars>>

\* Neither half can do to the other what it does not do to itself: the queue drains,
\* notifications reach a handler, and requests are of the session, whatever the page does
\* with device and cloud in between.
THEOREM HalvesApart ==
  LibrarySpec => [](OneDrains /\ Coherent /\ MineOfTheSession) /\ LatestPushDelivered
<1> DEFINE Step == \/ BridgeNext /\ UNCHANGED cloudVars
                   \/ CloudNext /\ UNCHANGED bridgeVars
<1>1. [Step]_<<bridgeVars, cloudVars>> => [BridgeNext]_bridgeVars /\ [CloudNext]_cloudVars
  OBVIOUS
<1>2. LibrarySpec => BridgeSpec /\ CloudSpec
  BY <1>1, PTL DEF LibrarySpec, BridgeSpec, CloudSpec
<1> QED
  BY <1>2, QueueDrains, PushesReachAHandler, OneUser, AsksForOnesOwn, PTL
=============================================================================
