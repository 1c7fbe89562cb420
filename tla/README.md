# Red Hat Pay: a TLA+ model of the payment system

Red Hat Pay lets a shopper pay in a coffee shop. The shopper asks for a *token*
(shown as a bar code), the till sends the token with an amount, the amount is
debited from the shopper's *wallet* (which may charge itself automatically), a
*payment* is recorded, and the shopper gets *points*. The repository has two
editions of the same domain code (`src/domain`):

- the **data grid edition**: a Quarkus application (`payment-quarkus-infinispan`),
  an Infinispan data grid that runs the payment as a server task next to the data
  (`cache`), and a second Quarkus application (`point`) that reads payment events
  from Kafka;
- the **monolith**: a Spring Boot application over PostgreSQL (`monolith`).

Its pages run in the browser of a phone or of a till: `jsQR` reads a QR symbol, and
the Monaca core utilities connect a page to the device and to a cloud service.

This directory models all of them, checks them with TLC, and proves with TLAPS the
safety of both editions (with their refinement of one abstract specification), of the
wallet's loop, of the point pipeline and of the bridge to the device.

## 1. Inventory

| Component | State it keeps | Operations | Hard because | Correct when |
|---|---|---|---|---|
| Wallet arithmetic: `Wallet.pay`, `Money` | charged money, auto-charge amount | `pay`, `autoCharge` | a loop over wrapping `int`s | it ends, never negative, charges no more than needed |
| Payment use case: `TokenUsecaseImpl` | none (works on repositories) | `createToken`, `pay` | the same code under two very different kinds of transaction; its catch clause writes too | one debit per issued token, all or nothing |
| Payment task in the grid: `PaymentTask`, `PaymentFunction`, cache repositories | wallet, token, payment caches | dispatch, transaction, commit in three caches, retry, read back | optimistic transactions of concurrent requests, crash in the middle of a commit, re-execution | no lost update, no double debit, every request answered |
| REST application of the grid edition | none | `createTokenAPI`, `pay`, `bill`, notification | the reply is built after the transaction is over; the event is sent after the money is gone | the client is told what happened |
| Points in the grid edition: `KafkaNotifyRepository`, topic, `ProvidePointConsumer`, `PointTask` | topic, offset, point cache | publish, receive, add, store offset, restart | at-least-once delivery, executions that outlive their consumer | no event passed over, no points lost |
| Monolith: `PaymentResource`, JPA repositories | Wallet, Token, Payment, Point tables | create token, pay | row locks, uncommitted data, commit on checked exceptions | as above |
| Initialisation, monolith: `InitializeResource` | all tables | delete and refill everything | runs at any time, in the opposite lock order | nobody is left half paid, no deadlock for good |
| Initialisation, grid: `InitializeResource`, `InitialProcess` | all caches | create, clear, fill asynchronously | no transaction, not awaited, under payments | no wallet is filled and then overwritten by a payment of before; everything is filled in the end |
| QR decoder: `jsQR.js` from `decoder.decode` on | the square of modules (transposed in place) | read version, format, codewords; correct blocks; read segments | tables of forty versions, tolerance, field arithmetic, text modes | a symbol damaged up to the limit reads as what was drawn |
| Locator, binarizer, extractor of `jsQR.js` | none | find the symbol in a picture | floating point | not modelled |
| Bridge to the device: `monaca-core-utils.js` | queue of calls, a push slot and its handler | call native functions, answer, ready event, push | callbacks in any order, some of which throw | calls stay in order, a push is not lost |
| Cloud client: `monaca-core-utils.js` | posts that wait, session, user, login token | post, answer, fail, log in and out, load the page again | answers out of order, timeouts, shared criteria | session and user agree, every promise is settled |
| `loader.js`, Cordova loader | none | script tags; a concatenation of the core utilities | - | not modelled: generated, or without state |
| `payment-wildfly` | none | returns constants | - | not modelled: stubs |
| load tests, monitoring, pages and style sheets, deployment | - | - | - | not modelled: no part in the state of the system |

How they interact. In the grid edition the REST handler calls
`RemoteCache.execute("PaymentTask", ..., key)`; the grid runs the task on a node
and the task runs `PaymentFunction` on the owner of the wallet; tokens and
payments of a shopper are grouped on the same owner. The handler then emits a
`PaymentEvent` to the topic `payment`; the point application reads it and calls
`execute("PointTask", ...)`. In the monolith everything is one method call chain
within one `@Transactional` handler. The initialisation of the grid works on the same
caches as the payments, without a transaction. In the browser, jsQR is a function of
a picture; the Monaca utilities share one event loop with the page, and the device
and the server answer in any order.

The hazards, each with its line and the properties that watch it, are listed in
`PROJECT.json`.

## 2. Modules

| Module | Models | Kind |
|---|---|---|
| `Wallet` | `Money` and the result of `Wallet.pay` in closed form: `Charges`, `Payable`, `Left` | operators |
| `WalletPay` | the loop of `Wallet.pay`, statement by statement | state machine |
| `PaymentLedger` | what a payment system promises: a payment is one step | abstract specification |
| `GridPayment` | the payment in the data grid, with faults | state machine, refines `PaymentLedger` |
| `Monolith` | the monolith's three transactions with row locks | state machine, refines `PaymentLedger` |
| `PointLedger` | what a point system promises: the points of an event are given in one step, in its turn | abstract specification |
| `PointPipeline` | events, offset, consumer, `PointTask` | state machine, refines `PointLedger` |
| `GridPoints` | the payment, the emitter, the topic and the points together | state machine, composes `GridPayment` and `PointPipeline` |
| `GridInit` | `InitializeResource` of the grid edition among payments | state machine, extends `GridPayment` |
| `GaloisField` | `GenericGF`, `GenericGFPoly`: a finite field and its polynomials | operators |
| `ReedSolomon` | `reedsolomon.decode` | state machine |
| `QRVersions`, `ShiftJIS` | the tables of jsQR | constants |
| `QRSymbol` | from the square of modules to blocks of codewords | operators |
| `QRText` | from data bytes to text: the modes of a segment | operators |
| `QRDecoder` | `decoder.decode` | state machine, composes the five above |
| `QREncoder` | the making of a symbol as ISO/IEC 18004 tells it | reference, no code of the repository |
| `MonacaBridge` | `apiQueue`, the functions that call the device, push notifications | state machine |
| `MonacaCloud` | the cloud client | state machine |
| `MCGridPayment`, `MCGridInit`, `MCGridPoints`, `MCMonolith`, `MCReedSolomon`, `MCQRDecoder`, `MCMonaca` | values of constants; the inputs of the two decoders; the page that uses both Monaca parts | for TLC |
| `GridPayment_proofs`, `GridLedger_proofs` | theorems about `GridPayment`: wallets and tokens; replies, the three caches, the ledger and conflicts | proofs |
| `GridCompositions_proofs` | theorems about `GridInit` and `GridPoints` | proofs |
| `Wallet_proofs`, `WalletPay_proofs` | the arithmetic of a payment (lemmas); theorems about the loop | proofs |
| `Monolith_proofs`, `PointPipeline_proofs` | theorems about the module of that name | proofs |
| `Monaca_proofs` | theorems about `MonacaBridge` and `MonacaCloud`, each alone | proofs |

A definition named *slip* in a comment is not part of a specification: it is the
form a plausible bug could give to the definition after it. Each property was
checked to fail when the code's form is exchanged for a slip.

### `GridPayment` and the code

One request is one thread of control with a `pc`. Up to the data's owner:
`Submit`, `Dispatch` (`filterKeys` of a shopper without wallet matches nothing, so
the function never runs). One try of `PaymentFunction`: `Begin`, `LoadWallet`,
`LoadToken`, `Charge`, each the whole of what `TokenUsecaseImpl.pay` does up to the
next read of a shared entry; an exception anywhere goes through `Catch` to
`Rollback`, which retries or gives up. The commit of the transaction is six
actions, prepare and commit for each of the three caches, because each cache is a
resource of its own with its own locks: other requests see the wallet debited
before they see the token used. Then `LoadPayment` and `Notify`.

The world around it: `CreateToken` (a blind put, and since an id is four
hexadecimal digits the key may already be in use), `EvictToken`, `EvictPayment`
(`max-count`, `when-full="REMOVE"`), `LockTimeout`, `OwnerLost` (a node dies; the
client re-executes the task or gives up), `NotifyOverflow`.

`balance`, `token`, `payment` are the committed entries, the `...Ver` variables
their versions, the `...Lock` variables the transaction that has prepared them,
`buf` a transaction's reads and buffered writes. `issued`, `debited`, `charged`,
`spent`, `topUp`, `torn` are history; no action reads them (except `MaxIssues`,
which bounds `issued`).

Infinispan is external. Assumed of it: reads see committed entries; a committing
transaction locks each entry and fails if its version is no longer the one read
(write skew check of optimistic transactions); an entry's version never repeats;
when an owner dies, what it committed survives on a backup and what was only
prepared is undone, each cache for itself. Such a *torn* commit is counted
(`torn`), as it is the one event that can break the token's promise.

### `GridPoints` and the code

The two applications of the grid edition share nothing but the topic, so the state is
that of `GridPayment`, that of `PointPipeline`, and what lies between them: `outbox`,
the events that the emitter holds. `ServeP` is a step of a request; its `Notify` hands
over the event of the payment that was read back, which is built in another process
and after the transaction is over. `PublishP` is the arrival of an event at the
broker, in the order of the emitter; `Refuse` the loss of one, since nobody looks at
what `send` returns. `Reward` is a step of the point application or of `PointTask`, `Upset` the storing of
an offset or what can happen to the two.
An event is identified by the request whose payment it tells of (`origin`, history).

`InitialProcess` (line 33) creates an entry for shopper 1, and nothing in the repository
creates one for anybody else. The cache outlives the applications and is open to others, so
any set of other shoppers has an entry at first, none included, which is what the code
alone makes. The payment of a shopper without one stops the consumer for good:
`PaidIsRewarded` names this among its excuses, and how far it reaches (`Blocked`).

### `GridInit` and the code

`ClearPayment`, `ClearUser`, `ClearToken`, `ClearWallet` and `PutAll` are the
statements of `InitializeResource.initialize` in their order; `UserArrives` and
`WalletArrives` are the entries of the two `putAllAsync` calls, one at a time and in
any order, long after the response. The user and wallet caches are constants in
`GridPayment`; here they come and go (`hasUser`, `hasWallet`), so the three steps that
look for an entry, `DispatchI`, `BeginI` and `LoadWalletI`, have a form of their own,
and `CommitWalletI` brings back an entry that was cleared after the prepare.
Everything else is `GridPayment`. A `clear` takes no lock; a put outside of a
transaction waits for the lock of the entry. A cleared entry counts as a new
version: the one a transaction has read does not come back.

### `QRDecoder` and the code

`jsQR.js` is read from `decoder.decode` on. `ReadSymbol` is `decodeMatrix` up to the
blocks (`readVersion`, `readFormatInformation`, `readCodewords`, `getDataBlocks` in
`QRSymbol`); `CorrectBlock`, the actions of `ReedSolomon` and `TakeBlock` are its loop
over the blocks; `Segment`, `UnknownMode` and `EndText` the loop of
`decodeData.decode`, with the modes in `QRText`; `Mirror` is the second try on the
transposed square. In `ReedSolomon` each pass of the two loops of
`runEuclideanAlgorithm` is an action, and so is the correction of each symbol. The
field is a parameter: the code has one of 256 elements, and one of eight lets
TLC go through all error patterns.

What jsQR is checked against is `QREncoder`, which is written after the standard and
shares with the decoder only the tables of the versions (the run compares the blocks
of these with the room the function patterns leave) and the arithmetic of the field
(the multiplication; syndromes, Euclid, search and Forney's formula are not
shared). It places data modules by their coordinates where the decoder walks along
them, divides where the decoder evaluates, and packs characters by the row and cell
of JIS X 0208 where the decoder goes by code. A Shift JIS character is its code: the
Unicode character that the table gives for it is data.

### `MonacaBridge`, `MonacaCloud` and the code

The page is one thread; each action is a function or a callback run to its end, but for
the handlers of `Push`. In `MonacaBridge`, `Invoke` is a function of the library with all the calls that it
makes through `apiQueue.exec`, `DeviceReady` the listener, `Answer` the wrapped
callback with `next`, `PushSend` and `SetHandler` those of `Push`, up to the call of a
handler if they make one. `setHandler` calls the handler (line 389) before it forgets what
waited (line 390), and a handler may call `setHandler` in its turn, so calls of handlers
nest: `pushRunning` is their stack, `HandlerReturns` the return of the innermost with what
its caller still does, `HandlerThrows` its throw. The device is looked at when the stack
is empty. In `MonacaCloud`,
`CallCloud` is one of the functions of items, collections, device, mailer and user
together with `_post`; `AskConfiguration` and `Configured` are the ready event and the
answer with the device's identity; `Succeed` and `Fail` the handlers of a request;
`Reload` a new load of the page. Functions differ by the record in `Api`: what is
posted, whose criteria, what happens before the promise is resolved, what it gives.
The server is external: it lets a user in with a session and a login token or
answers with an error.

### `Monolith` and the code

One HTTP request is one database transaction. `FindShopper`, `LockWallet`,
`WakeUp`, `LockToken`, `Charge` follow `TokenUsecaseImpl.pay` statement by
statement as far as statements wait or read what others write; `CommitPaid` and
`CommitRefused` are the two ends. `CommitRefused` commits: `PaymentException` is a
checked exception, for which Spring's `@Transactional` does not roll back, so what
the catch clause stored stays. `MergeToken` and `FlushToken` are `save()` of a
token: Hibernate reads the row first and decides at the commit what to write.
`ListPayments`, `ListTokens`, `DeletePayment`, `DeleteToken`, `DeleteWallet`,
`CommitInit` are the initialisation, whose deletes follow the lists read earlier.
`BreakDeadlock` and `Lose` are the database's and the network's doing.

A waiting `SELECT ... FOR UPDATE` gets the newest version of the row it waited
for, and none if that was deleted: `LockWallet` notes the `era` in which it began
to wait and `WakeUp` compares it. The rows of a shopper in the Shopper, Wallet and
Point tables are created and deleted together, so they are modelled as present or
absent together (`HasRows`).

### `PointPipeline` and the code

`Publish` is an event that reached the broker. `Start`, `Receive`, `Return`,
`StoreOffset`, `Crash` are the consumer; `Add` and `Commit` the two halves of an
execution of `PointTask`, which goes on when its consumer is gone; `OwnerLost` the
re-execution by the HotRod client. A failed message stops the channel
(`failure-strategy=fail`, the connector's default, which the configuration does not
change), and nothing restarts the application (the deployment has no probe).

`PointLedger` is what all this amounts to. An event gives its points when the transaction
of `PointTask` commits (`credited` is `given` there) and is confirmed with the stored
offset; crashes and lost nodes are `failures`, before the first of which nothing is given
twice and the entry of shopper 1 is put once.

## 3. Runs

All of them allow terminal states (`CHECK_DEADLOCK FALSE`): when every request is
answered and every bound used up the system rests. Deadlock in the sense of
requests waiting for each other is what the liveness properties rule out.

| Run | Instance | Shows | States |
|---|---|---|---|
| `wallet_pay` | all wallets and bills of a 4-bit int | the loop ends, conserves money, agrees with the closed form the other modules use | 1,952 |
| `grid_race` | 1 shopper, 2 tokens issued up to twice, 3 requests, 2 tries, bills of 3 | conservation, three caches agree, true replies; who gives up on conflicts lost to that many successful payments; `GridPayment` implements `PaymentLedger` | 1,806,534 |
| `grid_faults` | 2 shoppers (one unknown), 1 token id issued up to twice, 2 requests, 3 tries, up to 2 faults of any kind | one debit per issue but for torn commits, replies of one's own, token life cycle | 1,842,061 |
| `grid_points` | 2 shoppers (the second can run out of money, and has an entry for points or not), 2 requests, 1 lost node under a payment or 1 refused event, 3 executions of the task, 1 crash, 1 lost node | no event that no debit stands for; whoever is charged gets the points in the end, unless something fails or the event is held up by that of a shopper without an entry; without failures exactly those; after a crash never fewer | 558,098 |
| `grid_init` | 1 shopper, 1 token, 2 requests, one initialisation, one crash or lock timeout | no payment of before gets into a filled wallet; all is filled in the end; every request is answered | 123,332 |
| `monolith_race` | 1 shopper, 2 tokens, 2 payments, 2 creations, 1 initialisation, 1 lost connection | the monolith's safety, refinement of `PaymentLedger` between initialisations, every payment and the initialisation end | 209,188 |
| `points_pipeline` | 2 shoppers, one with or without an entry, 2 events, 4 executions, 2 crashes, 1 lost node | no event passed over, none given twice unless something fails; `PointPipeline` implements `PointLedger`, so no points are lost and no event overtakes another | 450,018 |
| `reed_solomon` | field of 8; words of 7 and 5 symbols, all patterns of up to two errors and one, some of more | what can be corrected is; Euclid's invariant at every pass of its loops | 49,596 |
| `qr_decode` | field of 256; 137 symbols: all versions, all levels and masks, all modes, damage at and beyond the limit | the decoder reads what the encoder drew; the tables fit the symbols | 5,453 |
| `monaca` | 3 functions of the bridge; 2 notifications, 2 handlers, 4 calls of handlers; 3 posts of 5 functions, 2 users, 1 new load | order of the queue, delivery of notifications, one identity, owners of what is asked for, settled promises | 290,446 |
| `grid_notify`, `monolith_points` | small | violations, section 5 | |

Why the bounds are enough to be of interest. The conflicts of two transactions
need two requests; in `grid_race` a third adds another winner, and two tries are
the smallest number that two others can use up. `MaxRetry` is the code's 3 in
`grid_faults`, where a re-execution adds to the tries. Two tokens of one shopper make
requests that share a wallet but not a token; two issues of one key make the
collision of ids. `MaxInt` is 7 or 15 and the amounts are chosen so that a wallet
charges automatically by a different amount each time (`AutoTwo`, `BalanceOne`, bills
of 3: with bills that are a multiple of the charge a lost update would leave the
same balance) or cannot pay the second bill (`OthersHold` in `grid_points`). Two faults
allow a crash of the re-execution. In `grid_init` the second execution comes from a
crash; a payment, a competing one and an initialisation at any moment of both is the
smallest instance with a transaction that began before the clear and one that began
after the refill. In `PointPipeline` four executions allow a forgotten one beside each of
two events. In `grid_points`
two payments are enough for one event to wait behind another, in the emitter and in
the topic, for a refused event to let the other pass, and for a re-executed payment to
race with another for the same token. Nothing but what they pay for tells two requests
apart, so of two requests of two shoppers `MCSpec` takes it that a fixed one is shopper 1's.
For the safety of `GridPayment`, `Monolith`, `WalletPay`, `PointPipeline` and
`MonacaBridge` the bounds do not matter in the end: section 6.

In `reed_solomon` the field is small so that the error patterns can be complete;
the algorithm does not depend on the size, and `qr_decode` runs it at 256. In
`qr_decode` a blank symbol of each of the forty versions goes through layout, blocks
and correction at one of the levels; `LayoutFits` compares all levels of all versions.
Messages are drawn in five versions, one at least for each width of the counts.
Of the rows of kanji those at a boundary are drawn; that the table has the two-byte
characters of JIS X 0208 and no others is an assumption that TLC evaluates
(`TableAssumption`). `Garbled` is as many wrong codewords as each level still corrects. In `monaca`
the queue, the notifications and the cloud share nothing but the event loop, so each
behaviour is of one of the three (`focus`) and the proofs put them together; four calls of
handlers (`MaxDeliveries`) let a handler that was set in the middle of another's call set a
third, with a notification behind it; the functions offered are
one of each kind of record in `Api`, and two users make a late answer matter.

## 4. Fairness

- `GridInit!FairSpecI`: weak fairness of `ServeI(r)` for each request. Each request
  has a thread of the server that keeps running; locks are granted eventually
  because whoever holds one is served too. `initialize` runs on a thread of its own, and
  the grid delivers what was sent to it. Clients, evictions and faults owe nothing.
- `GridPoints!FairSpecP` (`KeepsGoing`): payments are served in the same way, the emitter hands over
  what it holds, and the consumer and the grid keep working; a consumer that is down is
  started, a stopped one is *not* restarted. Storing the offset, crashes, lost
  nodes and refusals owe nothing. `PaidIsRewarded` excuses a crash: an execution left
  behind can make that of its successor fail with a write conflict, `PointTask` does not
  retry, and the consumer stops. It also excuses a token id that is in use twice, where
  the second payment can take the place of the first before that is read back, and a
  payment whose event is, or is behind, that of a shopper without an entry for points.
- `Monolith!FairSpec`: the same for payments and the initialisation, and weak
  fairness of `BreakDeadlock`: PostgreSQL looks for deadlocks after
  `deadlock_timeout`. Without it `Answered` and `Initialized` fail.
- `MonacaCloud!TimersRunOff`: every request has Zepto's timer, which rejects it unless
  an answer comes first. Nothing is assumed of the device, and of the server only that a
  success has a result: the library's handler throws halfway at one without (section 7).
- `WalletPay!FairSpec`: straight-line code of one thread keeps running.

## 5. What does not hold

1. `grid_notify`: `PaymentResource.bill` emits the event inside the `try` of the
   payment. If the emitter refuses it, the client reads 決済処理に失敗しました
   ("the payment failed") although the wallet is debited.
2. `monolith_points`: `PointUsecase.addPoint` drops the result of `Point.addPoint`;
   the monolith never gives a point.

Also met while modelling, without a run of its own.

- The comment in `CacheWalletRepository.load` (line 27) says the wallet is fetched
  with a write lock, but line 33 is a plain read. What prevents lost updates is the
  check of versions at the commit (drop it and `grid_race` finds a lost update), and
  its price is the conflicts that use up tries.
- `TokenUsecaseImpl.pay` calls `token.failed()` and drops the result. In the grid the
  transaction is rolled back and it makes no difference; in the monolith it is
  committed, and the token of a refused payment stays `PROCESSING` for good. `FAILED`
  is never reached in either edition. A token in either state cannot be paid with, so
  `TokenLifecycle` admits both and says nothing of this slip.
- The point application creates the entry of shopper 1 only; the payment of any other
  shopper is a `NullPointerException` that stops the consumer, and everybody's later
  points wait behind it. Nothing in the repository says who has an entry, so this is an
  excuse of `PaidIsRewarded` and not a finding; that it is the only thing that stops an
  undisturbed consumer is proved (`StopsOnlyAtMissing`).
- While the grid is initialised, a payment that was prepared before the clear puts
  its wallet back, and one that reads its record after the clear finds none: what
  `AllOrNothing` and `ReplyTellsTheTruth` say does not hold across an initialisation,
  and nothing in the repository says that it should. Nor does `ReplyIsOwn`: a request that
  finds no wallet is answered with what is stored for its token, the payment of another
  request if that was prepared before the clear. What is left is `NoReplyForNothing`
  (section 6): no client is shown a payment that was not made.
- An event that the broker refuses is lost without a trace, and the client has been
  told of success (`Refuse` in `GridPoints`). Every start of the point application puts
  the points of shopper 1 back to 10: after a crash `PointsMatchSpending` speaks of the
  others only.
- In the bridge, a call made when the device is ready goes out at once, past those
  that wait. A success callback that throws keeps `next` from being called, and what
  waits behind it waits for good (`threw` in `OneDrains`); on Android a missing callback of
  `retrieveUIStyle`, and everywhere that of `getDeviceId`, throws in this way.
- A notification that comes before there is a handler takes the place of one that
  waits: there is room for one. A handler that throws leaves it there, to be delivered
  again. So does, for as long as it runs, a handler that is called with what waited: if it
  sets another handler, that is called with the same notification although nothing threw,
  and if it always sets itself it calls itself until the stack is full.
  `LatestPushDelivered` therefore promises only that no handler is called with a
  notification from which one has already returned.
- In the cloud client, when the configuration cannot be had, posts are queued for
  ever. `findMine` called before that binds no owner. A Criteria object that is used
  twice is narrowed twice. An answer to a logout that comes after that to a later
  login ends the newer session. A time-out of 0 starts no timer.

A limit that is not a contradiction of anything the repository says: if a node dies
between the commit of the wallet and that of the token, the money is gone and the
token still `UNUSED`; the re-execution debits the wallet again. `ChargedOncePerIssue`
therefore counts `torn` commits, in the runs and in the theorem.

## 6. Proofs

Everything here holds for every value of the constants: any number of shoppers,
tokens, requests, tries, issues, executions, calls and faults of every kind, an int
of any width. Each theorem is proved from the specification without fairness.

| Module | Theorem | Statement |
|---|---|---|
| `WalletPay_proofs` | `TypeCorrect` | `Spec => []TypeOK`: no amount is negative or beyond an int at any statement |
| | `NoMoneyLost` | `Spec => []MoneyConserved` |
| | `LoopIsClosedForm` | `Spec => []AgreesWithClosedForm`: the loop computes what the larger models use |
| `GridPayment_proofs` | `TypeCorrect` | `Spec => []TypeOK` |
| | `NoLostUpdate` | `Spec => []Conservation` |
| | `ChargedOnce` | `Spec => []ChargedOncePerIssue` |
| `GridLedger_proofs` | `HonestReply` | `Spec => []ReplyTellsTheTruth` |
| | `OwnReply` | `Spec => []ReplyIsOwn` |
| | `AllTogether` | `Spec => []AllOrNothing` |
| | `LifeOfAToken` | `Spec => TokenLifecycle` |
| | `Implements` | `Spec => ImplementsLedger`, if `"crash"` is not among the faults |
| | `LedgerButTorn` | `Spec => ImplementsButTorn`: with all faults each step is one of the ledger, except the death of a node between two commits of a payment |
| | `OutrunByOthers` | `Spec => []ConflictsMeanProgress` |
| | `LocksNeverDeadlock` | `Spec => []NoDeadlock`: where somebody waits for a lock, somebody who holds locks goes on |
| | `BoundedRetries` | `Spec => NoEndlessRetry`: each step of the servers takes its request further in its try or to the next, and only the death of a node takes one back |
| `GridCompositions_proofs` | `TypeCorrectI`, `NoOldWalletWritten`, `ChargedOnceI` | of the payments with the initialisation (`SpecI`): types, `RefillConserves`, `ChargedOncePerIssue` |
| | `PaidRepliesI`, `NoDeadlockI`, `BoundedRetriesI` | of the same: `NoReplyForNothing`, `NoDeadlock`, `NoEndlessRetryI` |
| | `ImplementsI` | `SpecI => ImplementsLedgerI`: `LedgerButTorn` during an initialisation, of which each step empties the ledger a little or fills a wallet |
| | `PaymentsAsAlone`, `RepliesAsAlone`, `StepsAsAlone` | of the payments with events and points (`SpecP`): what `GridPayment_proofs` and `GridLedger_proofs` say of the payments alone |
| | `EventsArePaidFor` | `SpecP => []NoEventForNothing` |
| | `PointsAsAlone` | `SpecP => Points!Spec`: the composition implements `PointPipeline` |
| | `PointsTakeEffect` | hence `NoneSkipped`, `PointsAddUp` and `CreditedOnce` of the whole |
| | `PointsInOrder`, `LedgersTogether` | `SpecP => Points!ImplementsLedger` and `[]Pipeline!NoneOvertaken`; with it `ImplementsButTorn` |
| | `PointsAreWorthTheMoney` | `SpecP => []PointsMatchSpending` |
| | `NobodyUnrewarded` | `SpecP => []RewardedAtRest`: where nothing moves any more, who was charged has got the points, if the consumer goes on; and if it has stopped without a crash, so has everybody before the event of a shopper without an entry |
| `Monolith_proofs` | `TypeCorrect`, `NoMoneyLost`, `OncePerIssue`, `AllTogether`, `HonestReply`, `LifeOfAToken` | `TypeOK`, `Conservation`, `ChargedOncePerIssue`, `AllOrNothing`, `ReplyTellsTheTruth`, `TokenLifecycle` |
| | `Implements` | `Spec => ImplementsLedger` |
| | `DeadlocksArePairs` | `Spec => []CirclesAreFound`: in every circle of waiting transactions a payment and the initialisation wait for each other, which is what `BreakDeadlock` looks for |
| | `NeverStuck`, `BoundedSteps` | `Spec => []SomebodyGoesOn`, `Spec => NobodyGoesBack`: somebody can always go on, and nobody has more than a bounded number of steps to make |
| `PointPipeline_proofs` | `TypeCorrect`, `NothingSkipped`, `PointsConserved`, `NotTwice` | `TypeOK`, `NoneSkipped`, `PointsAddUp`, `CreditedOnce` |
| | `Implements`, `EventsInOrder` | `Spec => ImplementsLedger`, `Spec => []NoneOvertaken` |
| | `StopsOnlyAtMissing` | `Spec => []StopsForWantOfEntry`: nothing stops a consumer that no crash and no lost node has disturbed but the event of a shopper without an entry |
| `Monaca_proofs` | `QueueDrains`, `PushesReachAHandler` | `OneDrains`, `LatestPushDelivered`, of the bridge alone (`BridgeSpec`) |
| | `OneUser`, `AsksForOnesOwn` | `Coherent`, `MineOfTheSession`, of the cloud client alone (`CloudSpec`) |
| | `HalvesApart` | all four of the two in one page (`LibrarySpec`) |

Assumptions, all checked by TLC in the runs: `MaxIntAssumption` (a positive largest
int), `GridAssumption`, `MonolithAssumption`, `PointAssumption` (of
the points composed with the payments, `PointsAssumption`), `BridgeAssumption`,
`CloudAssumption`
(the constants have their types, there is at least one try, and a value that stands for
"none", an error or another role is no request, notification or handler). Nothing
is assumed of the sizes of the sets.

**The loop** (`PayInv`). The code notices an overflow by the sign of the wrapped sum.
`WrappedSum` says that this is right: two amounts add up to a negative int exactly
when they add up to too much. `GuardsHold` carries what `canPay` and `isPositive` have
found to where it is used, and `LastWasNeeded`, that the charge before the last
was not enough, is what makes the count of the loop that of the closed form.

**Wallets of the grid** (`WalletInv`). `Conservation` is not inductive: the commit
writes a balance computed from a buffered one, and nothing in `Conservation` says the
two are related. `WalletInv` adds, besides types, three facts: a transaction past
`Charge` could afford its bill (`Afforded`); as long as the wallet's version is the one
a transaction read, so is its balance (`WalletAsRead`); and a transaction that passed
the check of versions holds the lock and the version still agrees (`WalletHeld`).
`CommitWallet` then replaces the balance it read by the right one; every other write
of a wallet is excluded by the lock; and every write increments the version, which
keeps `WalletAsRead` for the rest.

**Tokens of the grid** (`TokenInv`). `ChargedOncePerIssue` needs the same story for
tokens (`TokenAsRead`, `TokenBuffered`, `TokenHeld`) and a ledger argument: each debit
must be covered by an issue not yet used. `UnusedIsCovered` says an `UNUSED` token that
nobody is about to overwrite has such an issue, `HeldIsCovered` that a transaction that
holds the token's lock before the debit has one, and that only one can hold it
(`OneHolder`). The step from `PrepareToken` to `HeldIsCovered` is where the version
check matters: the token is still the `UNUSED` one that was read. A torn commit
breaks `UnusedIsCovered` and is repaid by `torn`.

**Replies and the three caches** (`PaidInv`, `ReplyInv`). The reply is read back from
a cache that other requests write. `Booked` ties the books of a token to those of its
requests: two requests for one token are not charged more than the token was, and what
is stored as paid was charged. With it, a token issued once has one payment (`OnePayer`),
and `Exact`, `Own` and `Stored` say label by label whether a request was charged, whose
payment it will find, and that it is there once the commits are over.

**The grid implements the ledger** (`CachesInv`, `LedgerInv`). `PaymentLedger` shows a token as open
until a payment takes it, and the payment at once; in the grid three commits lie
between. The refinement mapping takes a request in the middle of its commit for paid
(`Receipt`) and a token that is locked for one as no longer open (`Open`). That it is
well defined needs that only one request commits a token at a time (`OneShown`), which
`TokenHeld` and `PaymentHeld` give. `LedgerSteps` then sorts the actions into those
that show nothing and the few that are treated one by one: `CommitWallet` is `Pay`,
`CreateToken` is `Issue`, evictions and a token lost to an aborted commit are `Expire`
and `Forget`. A node that dies between two commits of a payment (`Torn`) leaves a wallet
debited for a token that is still open: this step, and no other, is none of the ledger's.
After it the ledger goes on from what is there, because `LedgerInv` asks for less than
`CachesInv`, which holds in every state: not for versions, only that a locked wallet has the
balance that was read (`BalanceHeld`). `LedgerButTorn` says so for all faults, and
`Implements` is the case without crashes.

**Conflicts** (`ConflictInv`). `ConflictsMeanProgress` compares the failures of one
request with the number of others that were charged, so somebody must count. The
version of the wallet does: without faults it is the number of its shopper's payments
(`VersionsCount`). A try that fails found another version than it had read, so between
two tries the version has grown: `Outrun` says that a request in its n-th try has seen
at least n - 1 payments, and that one that gives up after `MaxRetry` has seen as many.
For this, token and payment must give no reason of their own to fail:
nobody else writes them as long as the token is issued once and nobody else is charged
for it (`OthersKeepOff`). `Caught` keeps out the shoppers without a wallet, who never
fail by a conflict.

**Locks** (`LocksInOrder`). Who holds the lock of a wallet, a token or a payment is
behind the prepare that took it and before the commit or rollback that gives it up.
As all take them in this order, whoever is waited for has come further (`Progress`)
than who waits, also when locks time out or nodes die. `Place` numbers the labels of a try:
each step of `Serve` leads to a higher one or from `rollback` to the next try, at most
`MaxRetry` of them, and the only other step that moves a request, but for its client's, is
`OwnerLost`. Together this is the safety half of `Answered`, whose other half, fairness, is
checked by TLC.

**Initialisation among payments** (`RefillInv`). `WalletInv` does not survive
`ClearWallet`: `clear()` takes no lock and moves the versions of wallets that are
locked, so `WalletHeld` is lost. `BalanceHeld` is what is left of it: a locked wallet
still has the balance that was read, because the put that refills it waits for the
lock. `Books` states `RefillConserves` of cleared wallets too, whose bookkeeping the put
then begins anew. To the tokens a `clear` is what an eviction is, so `TokenInv`
holds as it is, and with it `ChargedOncePerIssue`.

`BalanceHeld` is also what the ledger needs of wallets, so the payments implement it while
the caches are emptied under them (`ImplementsI`); the steps of `Initialize` are sorted
into three of their own (`Emptied`). What clients are told rests on `MeanwhileInv`: a
request in the middle of its commit was charged, and `Booked` survives a `clear`, which only
takes payments away, so whatever `LoadPayment` finds was paid.

**Events** (`PayersInv`, `EventInv`). The event of a request is made of the payment that
it read back, which need not be its own if the token was issued twice. So the events of
a token are counted: not more of them than requests that were charged for it and are
done, and those are not more than its debits. Whoever is about to emit one was charged,
and for the token the event tells of (`ToldOfOwnKey`).

**Composition** (`PointsAsAlone`). Each step of the whole is a step of `PointPipeline` or
changes nothing of it: the arrival of an event at the broker is its `Publish`. The
theorems proved of `PointPipeline` alone are instantiated and hold of the whole. The
payments are not alone in the same sense: an event that is refused (`Refuse`) is one more
fault, of which they know nothing. `StepsP` says that every step of the whole is one of
the payments, a `Refuse`, or none, and `RefuseKeeps` that the invariants about replies,
caches, conflicts and locks survive a `Refuse`, so `SystemInv` is inductive and the theorems
about payments alone follow as before.

**Points and money** (`RewardInv`, `EarnedInv`). `PointsMatchSpending` compares two sums,
over the payments of a shopper and over the credits. Both are stated as sizes of sets of
single points, so that no sum need be taken apart: a commit of `PointTask` adds one
interval of points to those earned so far (`PointsAdded`), and `EarnedInv` says that
`earned` is their number, for shopper 1 as long as only one start has put the entry. On
the other side, as long as no payment fails there is one event for each request that was
told that it paid, its own (`OneEventEach`), and the log is that of those that arrived
(`LogOfOrigin`). At rest (`EventsAtRest`) the map from a point that is due to the point
that was given for the payment's event is one to one, so nobody has too few
(`WorthEarned`); and without crashes nothing was credited twice, so it is onto.
`NobodyUnrewarded` uses the same facts at rest: the event of each payment arrived, was
neither passed over nor left behind, and has given its points, however often the point
application was started anew. If the consumer has stopped instead, `StopsForWantOfEntry`
says at what, and whatever is not yet rewarded is that event or behind it (`Blocked`). It is
the safety half of `PaidIsRewarded`; in between, a consumer that a crash has made stop is
one of its excuses.

**The monolith** (`MonolithInv`). Row locks, not versions: whoever has the wallet's lock
holds the current balance (`WalletRead`), whoever has the token's knows what is stored
of it (`TokenRead`), and `TokenOK` is the ledger argument of a token: `UNUSED` in the
table means an issue not yet paid for. The initialisation deletes all that; it counts
as an `era`, and `Conservation` starts anew with it. The commit is one step, so the
refinement has no mapping beyond the names, but `MergeToken`, which reads without a
lock what `FlushToken` writes later, must find that what it writes is an issue.

**Its locks** (`LocksHeld`). A payment locks its wallet and then its token; the
initialisation locks payments, tokens and wallets, in this order. Payments alone therefore
never wait in a circle: who waits for a wallet waits for one that has it, and who has it can
wait for nobody but the initialisation (`WaitsWithWallet`). There is one initialisation,
so each circle has it and a payment that wait for each other (`Circles`), and breaking
pairs, as `BreakDeadlock` does, is enough. `Rank` numbers the labels; no step lowers it,
and while the initialisation stays at one label, the rows it has left become fewer. What
`Answered` and `Initialized` need beyond these two facts is fairness.

**The points** (`PointInv`, `InOrder`). An execution that outlives its consumer is the
difficulty. As long as the version it read is stored, its sum is that of the entry and
the event (`CommitAsRead`), so no commit loses points; the stored offset stays behind
the consumer, and the consumer behind what was credited (`PositionCredited`). Without
crash or lost node there is one execution for each event, in their order (`InOrder`), and
only the last is under way. So the version it read is still the stored one when it commits
(`Undoubted`), it can fail only for want of an entry, and that is all that stops the
consumer (`StopsOnlyAtMissing`). After a crash an execution of the previous consumer may
commit in between, and this is no longer so.

For the ledger (`PointLedgerInv`) two facts are added. An execution is of an event that all
before it have given their points for (`RunsInTurn`): the consumer submits the next only
after that, and going back to the stored offset does not undo it. And the entry of shopper 1
is missing before the first start (`FirstAbsent`). `Commit` is then `Give`, `Start` is `Put`,
`StoreOffset` is `Confirm`, and an execution that lost its conflict is nothing.

**The bridge** (`QueueInv`, `PushInv`). Calls are numbered. Those that wait are in the
order of their numbers and behind those with the device that had to wait themselves
(`Ordered`), and one of these drains the queue (`Draining`). For notifications: before
there is a handler the last one waits (`BeforeHandler`), afterwards it was delivered
(`AfterHandler`). `WaitsUntaken` is about the stack of handlers: from what waits no handler
has returned yet. A handler that `setHandler` called with it takes it along when it returns,
and one that `send` called, at the bottom of the stack, was called with another notification;
who throws leaves what waits, and has not returned. So neither `setHandler`, from a page or
from a handler, nor `send`, with a new notification, calls a handler with one that is taken
(`CallsUntaken`).

**The cloud client** (`CloudInv`). Whose items a post asks for is decided when it is
called; whose session it carries, when it leaves. The two agree because a post leaves
at once when the device is known, and before that nobody is logged in: no request is
under way that could log one in. A post that waits therefore binds no user
(`Waits`), which is the exception that `MineOfTheSession` states. That the last of the
bound values is the owner needs that there are as many values as conditions, also in
criteria that the page lends to several calls.

**The library** (`LibrarySpec`). The page uses both halves, the theorems so far are
of each alone. They share no variable, so each invariant holds beside the steps of the other
half, and all four promises hold together (`HalvesApart`).

Out of reach of the prover and left to TLC: liveness (`Answered`, `Initialized`,
`PaidIsRewarded`, `Terminates`, `Refilled`, `EveryPostSettles`), and what the decoders compute for every word, which would need
induction over data.

## 7. What is only model-checked, and what is abstracted

- Model-checked only: everything about the QR decoder, and all liveness. When a node dies
  between two commits of a payment the grid leaves the ledger; that it does so then only is
  proved (`LedgerButTorn`), the runs check the ledger without crashes.
- Stores, dates, names and texts are left out; a payment is the request that made
  it. `userInfo`, `viewTokenUI` and the other pages read and change nothing.
- The three replicas of the grid are one copy; replication shows only in `OwnerLost`.
- In the grid all shoppers and wallets exist from the start (the state after
  `/init`) apart from those outside `Registered` and `WalletOwner`.
- In `Monolith` one initialisation runs per behaviour, a connection pool is never
  exhausted, and a creation whose connection breaks is one that did not take place.
- Not modelled of `jsQR.js`: what comes before the square of modules. `binarize`,
  `locate` and `extract` work on pixels with averages, distances and a perspective
  transform in floating point; what they promise, a square like the symbol in the
  picture, has no discrete form that TLC could check.
- In `QRText`, `decodeURIComponent` is the browser's: it reads UTF-8 or throws, and
  jsQR ignores what it throws.
- Of the Monaca utilities the forwarding of console output is logging, and the two
  loaders have no state. `isAndroid` is true in the run; elsewhere the library differs
  in the two functions that say so. Zepto and the server are external: an answer whose
  handler would throw halfway (a success without a result) is not modelled.
- The topic is one partition. In `PointPipeline` alone events come from nowhere;
  `GridPoints` says where from. The emitter of a payment application that dies with
  events in its buffer is not modelled apart from `Refuse`, which loses them too.

## 8. Plan

Done: `Wallet`, `WalletPay`, `PaymentLedger`, `GridPayment`, `GridInit`, `Monolith`,
`PointLedger`, `PointPipeline`, `GridPoints`, the QR decoder, the Monaca utilities; the
proofs of section 6.

Left:

1. The discrete part of jsQR's locator: which of three finder patterns is the top left.
