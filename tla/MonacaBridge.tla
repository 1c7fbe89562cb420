----------------------------- MODULE MonacaBridge -----------------------------
(***************************************************************************)
(* The bridge from a page to the device in Monaca's core utilities: calls  *)
(* of native functions, which wait in apiQueue until Cordova says that the *)
(* device is ready, and push notifications from the device.                *)
(*                                                                         *)
(* The device answers calls in any order.  A page is one thread: a function*)
(* of the library, and a handler that it calls, runs to its end before an  *)
(* event of the device is looked at.  A handler may itself call the        *)
(* library.                                                                *)
(***************************************************************************)
EXTENDS Integers, Sequences, FiniteSets

CONSTANTS
  isAndroid,
  MaxInvocations,  \* functions that the page calls
  Notification,    \* data of push notifications
  Handler,         \* functions that setHandler is called with
  MaxDeliveries,   \* bound: calls of setHandler stop after so many of handlers
  None

ASSUME BridgeAssumption ==
  /\ isAndroid \in BOOLEAN
  /\ MaxInvocations \in Nat
  /\ MaxDeliveries \in Nat
  /\ None \notin Notification \cup Handler

VARIABLES
  isDeviceReady,
  paramsArray,      \* calls that wait, in the order of the calls
  native,           \* calls that the device has not answered
  made,             \* number of calls so far
  invocations,      \* number of functions called by the page
  threw,            \* a success callback of a call that had waited has thrown
  isMonacaDebuggerChecked,
  pushCallback, pushData,
  pushRunning,      \* calls of handlers that are under way, the innermost last
  \* History, read by the properties only:
  sentPushes,       \* the notifications so far, in order
  deliveries,       \* pairs of a handler and what it was called with, in order
  taken             \* the notifications that a handler has returned from

queueVars == <<isDeviceReady, paramsArray, native, made, invocations, threw,
               isMonacaDebuggerChecked>>
pushVars == <<pushCallback, pushData, pushRunning, sentPushes, deliveries, taken>>
bridgeVars == <<queueVars, pushVars>>

-----------------------------------------------------------------------------
(* What the functions of the library call: a sequence of native functions  *)
(* with the kind of their success callback.                                *)

Call(service, action, success) ==
  [service |-> service, action |-> action, success |-> success]

Component(action) == Call("nativecomponent", action, "none")
Transit(action) == Call("Transit", action, "none")

\* On Android the callback is wrapped, so that a missing one is only noticed when
\* the wrapper calls it.
retrieveUIStyle(hasSuccess) ==
  <<Call("nativecomponent", "retrieve",
         IF hasSuccess THEN "safe" ELSE IF isAndroid THEN "throws" ELSE "none")>>

\* A list of components costs a call for each, but one call on Android.
updateUIStyle(components) ==
  [i \in 1..(IF isAndroid THEN 1 ELSE components) |-> Component("update")]

SpinnerFunctions ==
  {<<Component("showSpinner")>>, <<Component("hideSpinner")>>,
   <<Component("updateSpinnerTitle")>>}

pushPage(animation) ==
  <<Transit(CASE animation = "lift" -> "modal"
              [] animation = "slideRight" -> "slideRight"
              [] OTHER -> "push")>>

popPage(animation) == <<Transit(IF animation = "lift" THEN "dismiss" ELSE "pop")>>

PageFunctions ==
  {pushPage(animation) : animation \in {"lift", "slide", "slideLeft", "slideRight"}} \cup
  {popPage(animation) : animation \in {"lift", "slide"}} \cup
  {<<Transit(action)>> : action \in {"browse", "link", "home", "clearPageStack"}}

\* Elsewhere than on Android another plug-in hides the splash screen.
splashScreenHide ==
  IF isAndroid THEN <<Call("MonacaSplashScreen", "hide", "none")>> ELSE <<>>

getDeviceId(hasCallback) ==
  <<Call("Monaca", "getRuntimeConfiguration",
         IF hasCallback THEN "safe" ELSE "throws")>>

getRuntimeConfiguration(hasSuccess) ==
  <<Call("Monaca", "getRuntimeConfiguration", IF hasSuccess THEN "safe" ELSE "none")>>

StatusBarFunctions ==
  {<<Component(action)>> :
     action \in {"hideStatusBar", "showStatusBar", "statusBarStyleDefault",
                 "statusBarStyleLightContent", "statusBarStyleBlackOpaque",
                 "statusBarStyleBlackTranslucent"}}

Functions ==
  {retrieveUIStyle(has) : has \in BOOLEAN} \cup {updateUIStyle(n) : n \in 1..2} \cup
  SpinnerFunctions \cup PageFunctions \cup {splashScreenHide} \cup
  {getDeviceId(has) : has \in BOOLEAN} \cup
  {getRuntimeConfiguration(has) : has \in BOOLEAN} \cup StatusBarFunctions

\* The library itself makes the first call when it is loaded.
CheckDebugger == Call("Monaca", "getRuntimeConfiguration", "debugger")

-----------------------------------------------------------------------------
Numbered(calls, from) ==
  [i \in DOMAIN calls |-> [number |-> from + i, call |-> calls[i]]]

BridgeInit ==
  /\ isDeviceReady = FALSE
  /\ paramsArray = Numbered(<<CheckDebugger>>, 0)
  /\ native = {}
  /\ made = 1
  /\ invocations = 0
  /\ threw = FALSE
  /\ isMonacaDebuggerChecked = FALSE
  /\ pushCallback = None /\ pushData = None
  /\ pushRunning = <<>>
  /\ sentPushes = <<>> /\ deliveries = <<>> /\ taken = {}

\* No handler is under way: the page looks at the events of the device.
PageIsFree == pushRunning = <<>>

\* exec, for every call of the function.
Invoke ==
  /\ invocations < MaxInvocations
  /\ \E calls \in Functions :
       LET numbered == Numbered(calls, made)
       IN  /\ made' = made + Len(calls)
           /\ \/ /\ ~isDeviceReady
                 /\ paramsArray' = paramsArray \o numbered
                 /\ UNCHANGED native
              \/ /\ isDeviceReady
                 /\ native' = native \cup
                      {[params |-> numbered[i], queued |-> FALSE] :
                         i \in DOMAIN numbered}
                 /\ UNCHANGED paramsArray
  /\ invocations' = invocations + 1
  /\ UNCHANGED <<isDeviceReady, threw, isMonacaDebuggerChecked, pushVars>>

\* next: the first call that waits goes to the device, which does not have those in
\* done any more.
SendNext(done) ==
  IF paramsArray = <<>>
    THEN native' = native \ done /\ UNCHANGED paramsArray
    ELSE /\ native' = (native \ done) \cup
                        {[params |-> Head(paramsArray), queued |-> TRUE]}
         /\ paramsArray' = Tail(paramsArray)

\* The listener of the library.
DeviceReady ==
  /\ ~isDeviceReady /\ PageIsFree
  /\ isDeviceReady' = TRUE
  /\ SendNext({})
  /\ UNCHANGED <<made, invocations, threw, isMonacaDebuggerChecked, pushVars>>

Throws(c, ok) == ok /\ c.params.call.success = "throws"

\* Slip: only a success lets the next call go.
ResumesOnSuccess(c, ok) == c.queued /\ ok /\ ~Throws(c, ok)

\* A call that had waited lets the next one go, unless its callback throws first.
Resumes(c, ok) == c.queued /\ ~Throws(c, ok)

\* The device answers, with success or failure.
Answer ==
  \E c \in native, ok \in BOOLEAN :
    /\ PageIsFree
    /\ \/ Resumes(c, ok) /\ SendNext({c})
       \/ ~Resumes(c, ok) /\ native' = native \ {c} /\ UNCHANGED paramsArray
    /\ threw' = (threw \/ (c.queued /\ Throws(c, ok)))
    /\ isMonacaDebuggerChecked' =
         (isMonacaDebuggerChecked \/ (ok /\ c.params.call.success = "debugger"))
    /\ UNCHANGED <<isDeviceReady, made, invocations, pushVars>>

-----------------------------------------------------------------------------
\* A handler is called, by send or by setHandler.
CallHandler(h, d, caller) ==
  /\ deliveries' = Append(deliveries, <<h, d>>)
  /\ pushRunning' = Append(pushRunning, [data |-> d, caller |-> caller])

\* Push.send: a notification arrives; only the last one waits for a handler.
PushSend ==
  /\ PageIsFree
  /\ \E d \in Notification :
       /\ \A i \in DOMAIN sentPushes : sentPushes[i] # d
       /\ sentPushes' = Append(sentPushes, d)
       /\ \/ /\ pushCallback # None
             /\ CallHandler(pushCallback, d, "send")
             /\ UNCHANGED pushData
          \/ /\ pushCallback = None
             /\ pushData' = d
             /\ UNCHANGED <<deliveries, pushRunning>>
  /\ UNCHANGED <<pushCallback, taken, queueVars>>

\* Push.setHandler up to the call of the handler, by the page or by a handler that is
\* under way: what waits is still there while the handler runs.
SetHandler ==
  /\ Len(deliveries) < MaxDeliveries
  /\ \E h \in Handler :
       /\ pushCallback' = h
       /\ \/ pushData # None /\ CallHandler(h, pushData, "setHandler")
          \/ pushData = None /\ UNCHANGED <<deliveries, pushRunning>>
  /\ UNCHANGED <<pushData, sentPushes, taken, queueVars>>

\* Slip: what waits is not forgotten.
NeverCleared(call) == pushData

\* What waits after the call: setHandler forgets it behind its call of the handler.
StillWaiting(call) == IF call.caller = "setHandler" THEN None ELSE pushData

\* The innermost handler returns to send or setHandler, and these to their caller.
HandlerReturns ==
  /\ ~PageIsFree
  /\ LET call == pushRunning[Len(pushRunning)]
     IN  /\ pushData' = StillWaiting(call)
         /\ taken' = taken \cup {call.data}
  /\ pushRunning' = SubSeq(pushRunning, 1, Len(pushRunning) - 1)
  /\ UNCHANGED <<pushCallback, sentPushes, deliveries, queueVars>>

\* It throws: send or setHandler ends there too, and the handler that called it goes
\* on if it catches, and throws in its turn if not.
HandlerThrows ==
  /\ ~PageIsFree
  /\ pushRunning' = SubSeq(pushRunning, 1, Len(pushRunning) - 1)
  /\ UNCHANGED <<pushCallback, pushData, sentPushes, deliveries, taken, queueVars>>

BridgeNext ==
  \/ Invoke \/ DeviceReady \/ Answer
  \/ PushSend \/ SetHandler \/ HandlerReturns \/ HandlerThrows

-----------------------------------------------------------------------------
\* At most one of the calls that had to wait is with the device, the first of them
\* that was not answered; and when calls still wait there is one whose answer sends
\* the next, unless the page's callback has thrown.  Two answers, or an answer and
\* the ready event, never send calls past each other, and a failure does not stall
\* the queue.  (monaca-core-utils.js, apiQueue 13-45.)
OneDrains ==
  LET draining == {c \in native : c.queued}
  IN  /\ Cardinality(draining) <= 1
      /\ isDeviceReady /\ paramsArray # <<>> => draining # {} \/ threw
      /\ \A c \in draining, i \in DOMAIN paramsArray :
           c.params.number < paramsArray[i].number

\* Once there is a handler the last notification has reached one, whichever came
\* first; and no handler is called with a notification that one has already returned
\* from: it reaches a second handler only after the first has thrown, or while the
\* first is still running and sets the second itself.
\* (monaca-core-utils.js, Push.send and Push.setHandler 376-393.)
LatestPushDelivered ==
  /\ [](pushCallback # None /\ sentPushes # <<>> =>
          \E i \in DOMAIN deliveries : deliveries[i][2] = sentPushes[Len(sentPushes)])
  /\ [][\A i \in DOMAIN deliveries' \ DOMAIN deliveries :
          deliveries'[i][2] \notin taken]_pushVars
=============================================================================
