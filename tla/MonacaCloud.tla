------------------------------ MODULE MonacaCloud ------------------------------
(***************************************************************************)
(* The client of the Monaca cloud: functions of items, collections, the    *)
(* device, mail and the user, each of which posts one request and returns  *)
(* a promise.  A post waits in postQueue until the device has told who it  *)
(* is.  Answers come in any order, or not within the time-out; the page may*)
(* be loaded again at any time.                                            *)
(*                                                                         *)
(* The server is assumed to give a session and a login token with every    *)
(* user it lets in, and none with any other answer.                        *)
(***************************************************************************)
EXTENDS Integers, Sequences, FiniteSets

CONSTANTS
  User,
  Device,
  Absent,       \* null, the empty session, no token
  Offered,      \* names of the functions the page uses
  MaxPosts,
  MaxReloads

VARIABLES
  configuration,   \* what the page knows of the device
  postQueue,
  inFlight,        \* requests that were neither answered nor timed out
  promises,        \* of all posts, in order: the function called and how it went
  _sessionId,
  _oid,
  loginToken,      \* in localStorage, which outlives the page
  criteria,        \* the Criteria object that the page uses again and again
  reloads

cloudVars == <<configuration, postQueue, inFlight, promises, _sessionId, _oid,
               loginToken, criteria, reloads>>

-----------------------------------------------------------------------------
(* The functions: the method each posts, whether its criteria are given by *)
(* the page or narrowed to the page's own items, what it does before the   *)
(* promise is resolved, and what the promise gives.                        *)

Function(name, method) ==
  [name |-> name, method |-> method, criteria |-> "none", before |-> "nothing",
   gives |-> "result"]

CollectionItemApi ==
  {Function("item.update", "Collection.update"),
   Function("item.getPermission", "Collection.getPermission"),
   Function("item.updatePermission", "Collection.updatePermission"),
   Function("item.remove", "Collection.delete")}

Find(name, whose, gives) ==
  [Function(name, "Collection.find") EXCEPT !.criteria = whose, !.gives = gives]

CollectionApi ==
  {Find("find", "given", "items"), Find("findMine", "mine", "items"),
   Find("findOne", "given", "item"), Find("findOneMine", "mine", "item"),
   [Function("insert", "Collection.insert") EXCEPT !.gives = "item"],
   [Function("updatePermission", "Collection.updatePermission")
      EXCEPT !.criteria = "given"]}

PropertyFunctions(owner) ==
  {[Function(owner \o ".getProperty", owner \o ".getProperties")
      EXCEPT !.gives = "property"],
   [Function(owner \o ".getProperties", owner \o ".getProperties")
      EXCEPT !.gives = "properties"],
   Function(owner \o ".saveProperty", owner \o ".saveProperties"),
   Function(owner \o ".saveProperties", owner \o ".saveProperties")}

DeviceApi == PropertyFunctions("Device")

MailerApi == {Function("sendMail", "Mailer.sendMail")}

Entering(name) == [Function(name, "User." \o name) EXCEPT !.before = "enter"]
Leaving(name) == [Function(name, "User." \o name) EXCEPT !.before = "leave"]

UserApi ==
  {Entering("register"), Entering("login"), Entering("autoLogin"),
   Entering("resetPasswordAndLogin"), Leaving("unregister"), Leaving("logout"),
   Function("validate", "User.validate"),
   Function("updatePassword", "User.updatePassword"),
   Function("sendPasswordResetToken", "User.sendPasswordResetToken")}
  \cup PropertyFunctions("User")

Api == CollectionItemApi \cup CollectionApi \cup DeviceApi \cup MailerApi \cup UserApi

ASSUME CloudAssumption ==
  /\ Offered \subseteq {f.name : f \in Api}
  /\ {Device, Absent} \cap User = {} /\ Device # Absent
  /\ MaxPosts \in Nat /\ MaxReloads \in Nat

-----------------------------------------------------------------------------
\* _validateCriteria, when the page names no condition: Criteria('').
NoCriteria == [conditions |-> 0, bindParams |-> <<>>]

CloudInit ==
  /\ configuration = "waiting"
  /\ postQueue = <<>>
  /\ inFlight = {}
  /\ promises = <<>>
  /\ _sessionId = Absent /\ _oid = Absent
  /\ loginToken = Absent
  /\ criteria = NoCriteria
  /\ reloads = 0

deviceId == IF configuration = "known" THEN Device ELSE Absent

isAuthenticated == _oid # Absent

\* Slip: the condition on the owner takes the place of those before.
OwnersOnly(c, owner) ==
  [conditions |-> 1, bindParams |-> Append(c.bindParams, owner)]

\* findMine and findOneMine: one more condition, and the owner that it names.
Narrowed(c, owner) ==
  [conditions |-> c.conditions + 1, bindParams |-> Append(c.bindParams, owner)]

\* The users that a function can be called for: by name, by the login token that is
\* there at the time of the call, or none.
CalledFor(f) ==
  IF f.before # "enter" THEN {Absent}
  ELSE IF f.name = "autoLogin" THEN {loginToken} ELSE User

\* _doPost: the parameters are written down and the request leaves, with the
\* session.  A Criteria object lends its bindParams, so that those of a post which
\* waits follow what later calls do to the object.
Request(post, shared) ==
  [post |-> post, session |-> _sessionId,
   bindParams |-> IF post.lent THEN shared.bindParams ELSE post.own]

\* _validateCriteria: the page uses an object again, or a new one is made.
Validated(lent) == IF lent THEN criteria ELSE NoCriteria

\* The criteria of a call: findMine and findOneMine ask for the user's own items, or for
\* the device's.
AskedFor(f, lent) ==
  IF f.criteria = "mine"
    THEN Narrowed(Validated(lent), IF isAuthenticated THEN _oid ELSE deviceId)
    ELSE Validated(lent)

Post(f, lent, user) ==
  [number |-> Len(promises) + 1, function |-> f, user |-> user, lent |-> lent,
   conditions |-> AskedFor(f, lent).conditions, own |-> AskedFor(f, lent).bindParams]

\* A function is called: its post waits for the device or leaves at once.
CallCloud ==
  /\ Len(promises) < MaxPosts
  /\ \E f \in Api, lent \in BOOLEAN :
       /\ f.name \in Offered
       /\ lent => f.criteria # "none"
       /\ criteria' = IF lent THEN AskedFor(f, lent) ELSE criteria
       /\ promises' = Append(promises, [function |-> f, state |-> "pending"])
       /\ \E user \in CalledFor(f) :
            \/ /\ deviceId = Absent
               /\ postQueue' = Append(postQueue, Post(f, lent, user))
               /\ UNCHANGED inFlight
            \/ /\ deviceId # Absent
               /\ inFlight' = inFlight
                    \cup {Request(Post(f, lent, user), AskedFor(f, lent))}
               /\ UNCHANGED postQueue
  /\ UNCHANGED <<configuration, _sessionId, _oid, loginToken, reloads>>

\* The ready event: the page asks who the device is.
AskConfiguration ==
  /\ configuration = "waiting"
  /\ configuration' = "asked"
  /\ UNCHANGED <<postQueue, inFlight, promises, _sessionId, _oid, loginToken,
                 criteria, reloads>>

\* Slip: one step short of the end of the queue.
AllButOne(queue) == {Request(queue[k], criteria) : k \in 1..(Len(queue) - 1)}

Executed(queue) == {Request(queue[k], criteria) : k \in DOMAIN queue}

\* The posts that waited leave and the queue is cleared; a failure leaves them.
Configured ==
  /\ configuration = "asked"
  /\ \/ /\ configuration' = "known"
        /\ inFlight' = inFlight \cup Executed(postQueue)
        /\ postQueue' = <<>>
     \/ /\ configuration' = "failed"
        /\ UNCHANGED <<inFlight, postQueue>>
  /\ UNCHANGED <<promises, _sessionId, _oid, loginToken, criteria, reloads>>

-----------------------------------------------------------------------------
\* A Deferred keeps what it was first resolved or rejected with.
Settle(state, outcome) == IF state = "pending" THEN outcome ELSE state

\* What the function's own callback resolves with comes before the answer itself.
Resolution(f) ==
  Settle(Settle("pending", IF f.gives = "result" THEN "pending" ELSE f.gives), "result")

\* Slip: the session is left to the next login.
KeepSession(f, user) == IF f.before = "enter" THEN user ELSE _sessionId

\* _setSessionId: from the header of the answer, then by the function itself.
SessionAfter(f, user) ==
  CASE f.before = "enter" -> user
    [] f.before = "leave" -> Absent
    [] OTHER -> _sessionId

\* The success handler.  Nobody is let in without a name or a token.
Succeed ==
  \E request \in inFlight :
    LET post == request.post
        f == post.function
    IN  /\ f.before = "enter" => post.user # Absent
        /\ inFlight' = inFlight \ {request}
        /\ promises' = [promises EXCEPT ![post.number].state = Resolution(f)]
        /\ _sessionId' = SessionAfter(f, post.user)
        /\ loginToken' = CASE f.before = "enter" -> post.user
                           [] f.before = "leave" -> Absent
                           [] OTHER -> loginToken
        /\ _oid' = CASE f.before = "enter" -> post.user
                     [] f.before = "leave" -> Absent
                     [] OTHER -> _oid
        /\ UNCHANGED <<configuration, postQueue, criteria, reloads>>

Reject(request) ==
  /\ inFlight' = inFlight \ {request}
  /\ promises' = [promises EXCEPT ![request.post.number].state = "rejected"]
  /\ UNCHANGED <<configuration, postQueue, _sessionId, _oid, loginToken, criteria,
                 reloads>>

\* An answer with an error, an answer that cannot be read, a status that is none, or
\* none within the time-out, after which an answer is not looked at.
Fail(number) == \E request \in inFlight :
                  request.post.number = number /\ Reject(request)

\* The page is loaded again: only localStorage is left.
Reload ==
  /\ reloads < MaxReloads
  /\ reloads' = reloads + 1
  /\ configuration' = "waiting"
  /\ postQueue' = <<>> /\ inFlight' = {}
  /\ promises' = [k \in DOMAIN promises |->
                    [promises[k] EXCEPT !.state = Settle(@, "lost")]]
  /\ _sessionId' = Absent /\ _oid' = Absent
  /\ criteria' = NoCriteria
  /\ UNCHANGED loginToken

CloudNext ==
  \/ CallCloud \/ AskConfiguration \/ Configured
  \/ Succeed \/ (\E number \in 1..MaxPosts : Fail(number)) \/ Reload

\* Every request has a timer, which runs off unless there is an answer before.
TimersRunOff == \A number \in 1..MaxPosts : WF_cloudVars(Fail(number))

-----------------------------------------------------------------------------
\* Whom the page takes for its user, whom its session is of and whom it would log in
\* next time are one, whatever the order of the answers to logins and logouts, and a
\* page without a user has no session.  (monaca-core-utils.js, 511-544 and the
\* callbacks of UserApi.)
Coherent ==
  /\ _sessionId = _oid
  /\ _oid # Absent => loginToken = _oid

\* findMine asks for what belongs to the user of the session that the request is made
\* in, and to the device where there is none: as many owners are bound as the query
\* has conditions, and the last is the one.  A post that had to wait asks in no
\* session, for nobody's.  (816-842, 885-911, 484-503.)
MineOfTheSession ==
  \A request \in inFlight :
    request.post.function.criteria = "mine" =>
      LET bound == request.bindParams
          own == request.post.own[Len(request.post.own)]
      IN  \/ /\ Len(bound) = request.post.conditions
             /\ bound[Len(bound)] = IF request.session = Absent THEN Device
                                    ELSE request.session
          \/ own = Absent /\ request.session = Absent

\* Once the device is known every promise is settled, unless the page is left before,
\* and one that is resolved gives what its function makes of the answer.
\* (484-547, the callbacks of CollectionApi 802-805, 871-874, 938-941.)
EveryPostSettles ==
  \A number \in 1..MaxPosts :
    (number \in DOMAIN promises /\ deviceId # Absent) ~>
      (number \in DOMAIN promises
         /\ promises[number].state \in {"rejected", "lost", promises[number].function.gives})
=============================================================================
