---------------------------- MODULE GridPayment -----------------------------
(***************************************************************************)
(* A payment in the data grid: the REST handler PaymentResource.pay asks   *)
(* the grid to execute PaymentTask, which dispatches PaymentFunction to    *)
(* the owner of the wallet, which runs TokenUsecaseImpl.pay in a           *)
(* transaction over the wallet, token and payment caches and retries it up *)
(* to MaxRetry times.                                                      *)
(*                                                                         *)
(* The caches are transactional with optimistic locking: a transaction     *)
(* buffers its writes and remembers the version of what it read; when it   *)
(* commits, each cache in turn locks the entry and refuses if its version  *)
(* has moved (prepare), and only when all three have agreed do they write  *)
(* and unlock, again one after the other.  Infinispan is not part of the   *)
(* repository; the actions model it as the code configures and uses it.    *)
(*                                                                         *)
(* pc of a request                                                         *)
(*   "idle"      not sent yet                                              *)
(*   "stream"    PaymentTask.call, before the distributed stream           *)
(*   "begin"     PaymentFunction, before a transaction begins              *)
(*   "wallet", "token", "charge"                                           *)
(*               the reads and the business code of TokenUsecaseImpl.pay   *)
(*   "prepareWallet", "prepareToken", "preparePayment"                     *)
(*               first phase of the commit                                 *)
(*   "commitWallet", "commitToken", "commitPayment"                        *)
(*               second phase                                              *)
(*   "rollback"  an exception was caught, the transaction not undone yet   *)
(*   "load"      PaymentTask.call, reading the payment back                *)
(*   "notify"    PaymentResource.pay, emitting the PaymentEvent            *)
(*   "done"      answered                                                  *)
(***************************************************************************)
EXTENDS Wallet, FiniteSets

CONSTANTS
  Shopper, TokenId, Request, NoRequest, Amount, AutoCharge, InitBalance,
  Registered,   \* shoppers in the "user" cache
  WalletOwner,  \* shoppers in the "wallet" cache
  MaxRetry,     \* MAX_RETRY_COUNT, 3 in the code
  FaultKinds,   \* the kinds of fault that may happen
  MaxFaults,    \* bound: faults in a behaviour
  MaxIssues     \* bound: how often one token key is issued

\* A reply that is an error; any other reply names the request whose payment
\* entry the answer was built from.
Error == "error"
NoReply == "none"

ASSUME GridAssumption ==
  /\ Amount \subseteq Money
  /\ AutoCharge \in [Shopper -> Money]
  /\ InitBalance \in [Shopper -> Money]
  /\ Registered \subseteq Shopper
  /\ WalletOwner \subseteq Shopper
  /\ MaxRetry \in Nat \ {0}
  /\ MaxFaults \in Nat
  /\ MaxIssues \in Nat
  /\ {NoRequest, Error, NoReply} \cap Request = {}

Key == Shopper \X TokenId
Owner(k) == k[1]

\* The token cache: no entry, or one with a TokenStatus.
Absent == "ABSENT"
TokenStatus == {"UNUSED", "PROCESSING", "USED", "FAILED"}

\* Slips: forms a bug could give to the definition that follows each of them.
AnyIssued(status) == status # Absent
StatusKept(status) == status

\* Token.processing, which throws for any other status, and Token.used.
CanProcess(status) == status = "UNUSED"
Used(status) == IF status = "PROCESSING" THEN "USED" ELSE status

VARIABLES
  balance, walletVer, walletLock,      \* wallet cache, by shopper
  token, tokenVer, tokenLock,          \* token cache, by key
  payment, paymentVer, paymentLock,    \* payment cache, by key
  pc,       \* request |-> where its processing stands
  arg,      \* request |-> what it asks for
  try,      \* request |-> tryCount of PaymentFunction
  buf,      \* request |-> its transaction's reads and buffered token
  causes,   \* request |-> retryCauseList, as the set of reasons in it
  reply,    \* request |-> what its client was told
  faults,   \* number of faults so far
  \* History, read by the properties only:
  issued,   \* key |-> how often it was issued
  debited,  \* key |-> how often a wallet was debited for it
  charged,  \* request |-> how often a wallet was debited for it
  spent,    \* shopper |-> all the amounts debited
  topUp,    \* shopper |-> all the automatic charges
  torn      \* number of commits cut off between wallet and token

walletVars  == <<balance, walletVer, walletLock>>
tokenVars   == <<token, tokenVer, tokenLock>>
paymentVars == <<payment, paymentVer, paymentLock>>
taskVars    == <<try, buf, causes>>
historyVars == <<issued, debited, charged, spent, topUp, torn>>
vars == <<walletVars, tokenVars, paymentVars, pc, arg, taskVars, reply,
          faults, historyVars>>

NoBuffer == [balance |-> 0, walletVer |-> 0, token |-> Absent, tokenVer |-> 0,
             paymentVer |-> 0]

Init ==
  /\ balance = InitBalance
  /\ walletVer = [s \in Shopper |-> 0]
  /\ walletLock = [s \in Shopper |-> NoRequest]
  /\ token = [k \in Key |-> Absent]
  /\ tokenVer = [k \in Key |-> 0]
  /\ tokenLock = [k \in Key |-> NoRequest]
  /\ payment = [k \in Key |-> NoRequest]
  /\ paymentVer = [k \in Key |-> 0]
  /\ paymentLock = [k \in Key |-> NoRequest]
  /\ pc = [r \in Request |-> "idle"]
  /\ arg \in [Request -> [key : Key, amount : Amount]]
  /\ try = [r \in Request |-> 1]
  /\ buf = [r \in Request |-> NoBuffer]
  /\ causes = [r \in Request |-> {}]
  /\ reply = [r \in Request |-> NoReply]
  /\ faults = 0
  /\ issued = [k \in Key |-> 0]
  /\ debited = [k \in Key |-> 0]
  /\ charged = [r \in Request |-> 0]
  /\ spent = [s \in Shopper |-> 0]
  /\ topUp = [s \in Shopper |-> 0]
  /\ torn = 0

KeyOf(r) == arg[r].key
Payer(r) == Owner(KeyOf(r))
AmountOf(r) == arg[r].amount

Goto(r, label) == pc' = [pc EXCEPT ![r] = label]

At(r, label) == pc[r] = label

-----------------------------------------------------------------------------
(* The REST handler and the server task, up to the data's owner.           *)

\* PaymentResource.pay -> DelegateRepository.invoke -> execute("PaymentTask").
Submit(r) ==
  /\ At(r, "idle")
  /\ Goto(r, "stream")
  /\ UNCHANGED <<walletVars, tokenVars, paymentVars, arg, taskVars, reply,
                 faults, historyVars>>

\* filterKeys(Set.of(key)).forEach(paymentFunction): a shopper without a wallet
\* entry matches nothing, so the function is not run at all.
Dispatch(r) ==
  /\ At(r, "stream")
  /\ Goto(r, IF Payer(r) \in WalletOwner THEN "begin" ELSE "load")
  /\ UNCHANGED <<walletVars, tokenVars, paymentVars, arg, taskVars, reply,
                 faults, historyVars>>

-----------------------------------------------------------------------------
(* One try of PaymentFunction.accept: TokenUsecaseImpl.pay.                *)

\* The catch clause keeps the exception in retryCauseList.
Catch(r, cause) ==
  /\ Goto(r, "rollback")
  /\ causes' = [causes EXCEPT ![r] = @ \cup {cause}]

\* transactionManager.begin(), then shopperService.load: an unknown shopper
\* is a NullPointerException in the repository.
Begin(r) ==
  /\ At(r, "begin")
  /\ IF Payer(r) \in Registered
       THEN Goto(r, "wallet") /\ UNCHANGED causes
       ELSE Catch(r, "shopper")
  /\ UNCHANGED <<walletVars, tokenVars, paymentVars, arg, try, buf, reply,
                 faults, historyVars>>

LoadWallet(r) ==
  /\ At(r, "wallet")
  /\ buf' = [buf EXCEPT ![r].balance = balance[Payer(r)],
                        ![r].walletVer = walletVer[Payer(r)]]
  /\ Goto(r, "token")
  /\ UNCHANGED <<walletVars, tokenVars, paymentVars, arg, try, causes, reply,
                 faults, historyVars>>

\* tokenService.load, token.processing(), tokenService.store.  For any other
\* token than an UNUSED one processing() throws, and the catch clause of pay
\* stores the token as it was loaded.
LoadToken(r) ==
  LET k == KeyOf(r)
  IN  /\ At(r, "token")
      /\ \/ /\ CanProcess(token[k])
            /\ buf' = [buf EXCEPT ![r].token = "PROCESSING",
                                  ![r].tokenVer = tokenVer[k]]
            /\ Goto(r, "charge")
            /\ UNCHANGED causes
         \/ /\ ~CanProcess(token[k])
            /\ buf' = [buf EXCEPT ![r].token = token[k],
                                  ![r].tokenVer = tokenVer[k]]
            /\ Catch(r, "token")
      /\ UNCHANGED <<walletVars, tokenVars, paymentVars, arg, try, reply,
                     faults, historyVars>>

\* wallet.pay(bill); when it returns, the wallet, the token as USED and the
\* payment are put, and the put of the payment reads the entry's version.
\* When it throws, the catch clause stores the token again, still PROCESSING:
\* failed() returns a new token that is dropped.
Charge(r) ==
  LET s == Payer(r)
  IN  /\ At(r, "charge")
      /\ \/ /\ Payable(buf[r].balance, AutoCharge[s], AmountOf(r))
            /\ buf' = [buf EXCEPT ![r].token = Used(@),
                                  ![r].paymentVer = paymentVer[KeyOf(r)]]
            /\ Goto(r, "prepareWallet")
            /\ UNCHANGED causes
         \/ /\ ~Payable(buf[r].balance, AutoCharge[s], AmountOf(r))
            /\ Catch(r, "funds")
            /\ UNCHANGED buf
      /\ UNCHANGED <<walletVars, tokenVars, paymentVars, arg, try, reply,
                     faults, historyVars>>

-----------------------------------------------------------------------------
(* transactionManager.commit(): prepare in the three caches, then commit.  *)

\* Slip: no write skew check.
NotCompared(read, current) == TRUE

\* locking="OPTIMISTIC": the version an entry has now must be the one the
\* transaction read.
Unchanged(read, current) == read = current

PrepareWallet(r) ==
  LET s == Payer(r)
  IN  /\ At(r, "prepareWallet")
      /\ walletLock[s] = NoRequest
      /\ walletLock' = [walletLock EXCEPT ![s] = r]
      /\ IF Unchanged(buf[r].walletVer, walletVer[s])
           THEN Goto(r, "prepareToken") /\ UNCHANGED causes
           ELSE Catch(r, "conflict")
      /\ UNCHANGED <<balance, walletVer, tokenVars, paymentVars, arg, try, buf,
                     reply, faults, historyVars>>

PrepareToken(r) ==
  LET k == KeyOf(r)
  IN  /\ At(r, "prepareToken")
      /\ tokenLock[k] = NoRequest
      /\ tokenLock' = [tokenLock EXCEPT ![k] = r]
      /\ IF Unchanged(buf[r].tokenVer, tokenVer[k])
           THEN Goto(r, "preparePayment") /\ UNCHANGED causes
           ELSE Catch(r, "conflict")
      /\ UNCHANGED <<walletVars, token, tokenVer, paymentVars, arg, try, buf,
                     reply, faults, historyVars>>

PreparePayment(r) ==
  LET k == KeyOf(r)
  IN  /\ At(r, "preparePayment")
      /\ paymentLock[k] = NoRequest
      /\ paymentLock' = [paymentLock EXCEPT ![k] = r]
      /\ IF Unchanged(buf[r].paymentVer, paymentVer[k])
           THEN Goto(r, "commitWallet") /\ UNCHANGED causes
           ELSE Catch(r, "conflict")
      /\ UNCHANGED <<walletVars, tokenVars, payment, paymentVer, arg, try, buf,
                     reply, faults, historyVars>>

\* The wallet that was put was computed from the balance that was read.
CommitWallet(r) ==
  LET s == Payer(r)
      k == KeyOf(r)
      charges == Charges(buf[r].balance, AutoCharge[s], AmountOf(r))
  IN  /\ At(r, "commitWallet")
      /\ balance' = [balance EXCEPT
                       ![s] = Left(buf[r].balance, AutoCharge[s], AmountOf(r))]
      /\ walletVer' = [walletVer EXCEPT ![s] = @ + 1]
      /\ walletLock' = [walletLock EXCEPT ![s] = NoRequest]
      /\ Goto(r, "commitToken")
      /\ debited' = [debited EXCEPT ![k] = @ + 1]
      /\ charged' = [charged EXCEPT ![r] = @ + 1]
      /\ spent' = [spent EXCEPT ![s] = @ + AmountOf(r)]
      /\ topUp' = [topUp EXCEPT ![s] = @ + charges * AutoCharge[s]]
      /\ UNCHANGED <<tokenVars, paymentVars, arg, taskVars, reply, faults,
                     issued, torn>>

CommitToken(r) ==
  LET k == KeyOf(r)
  IN  /\ At(r, "commitToken")
      /\ token' = [token EXCEPT ![k] = buf[r].token]
      /\ tokenVer' = [tokenVer EXCEPT ![k] = @ + 1]
      /\ tokenLock' = [tokenLock EXCEPT ![k] = NoRequest]
      /\ Goto(r, "commitPayment")
      /\ UNCHANGED <<walletVars, paymentVars, arg, taskVars, reply, faults,
                     historyVars>>

CommitPayment(r) ==
  LET k == KeyOf(r)
  IN  /\ At(r, "commitPayment")
      /\ payment' = [payment EXCEPT ![k] = r]
      /\ paymentVer' = [paymentVer EXCEPT ![k] = @ + 1]
      /\ paymentLock' = [paymentLock EXCEPT ![k] = NoRequest]
      /\ Goto(r, "load")
      /\ UNCHANGED <<walletVars, tokenVars, arg, taskVars, reply, faults,
                     historyVars>>

\* Slip: a rollback that keeps its locks.
KeepLocks(r) == UNCHANGED <<walletVars, tokenVars, paymentVars>>

\* Give up every lock the request's transaction holds.
ReleaseLocks(r) ==
  /\ walletLock' = [s \in Shopper |->
                      IF walletLock[s] = r THEN NoRequest ELSE walletLock[s]]
  /\ tokenLock' = [k \in Key |->
                     IF tokenLock[k] = r THEN NoRequest ELSE tokenLock[k]]
  /\ paymentLock' = [k \in Key |->
                       IF paymentLock[k] = r THEN NoRequest ELSE paymentLock[k]]
  /\ UNCHANGED <<balance, walletVer, token, tokenVer, payment, paymentVer>>

Answer(r, answer) ==
  /\ reply' = [reply EXCEPT ![r] = answer]
  /\ Goto(r, "done")

\* Slip: one try too few.
MayRetryOffByOne(r) == try[r] < MaxRetry - 1

\* tryCount < MAX_RETRY_COUNT: the for loop goes round again.
MayRetry(r) == try[r] < MaxRetry

\* Slip: the last exception is swallowed and the task goes on.
Swallow(r) == Goto(r, "load") /\ UNCHANGED reply

\* "Fail to pay" leaves the server task and reaches the client as an error.
GiveUp(r) == Answer(r, Error)

\* transactionManager.rollback(), then the next try or the end of the loop.
Rollback(r) ==
  /\ At(r, "rollback")
  /\ ReleaseLocks(r)
  /\ buf' = [buf EXCEPT ![r] = NoBuffer]
  /\ \/ /\ MayRetry(r)
        /\ try' = [try EXCEPT ![r] = @ + 1]
        /\ Goto(r, "begin")
        /\ UNCHANGED reply
     \/ /\ ~MayRetry(r)
        /\ GiveUp(r)
        /\ UNCHANGED try
  /\ UNCHANGED <<arg, causes, faults, historyVars>>

-----------------------------------------------------------------------------
(* Back in the server task and the REST handler.                           *)

\* paymentService.load: whatever the payment cache holds for the key now; no
\* entry is a NullPointerException.
LoadPayment(r) ==
  LET found == payment[KeyOf(r)]
  IN  /\ At(r, "load")
      /\ \/ /\ found # NoRequest
            /\ reply' = [reply EXCEPT ![r] = found]
            /\ Goto(r, "notify")
         \/ /\ found = NoRequest
            /\ Answer(r, Error)
      /\ UNCHANGED <<walletVars, tokenVars, paymentVars, arg, taskVars, faults,
                     historyVars>>

\* paymentService.notify(payment), then the response.
Notify(r) ==
  /\ At(r, "notify")
  /\ Goto(r, "done")
  /\ UNCHANGED <<walletVars, tokenVars, paymentVars, arg, taskVars, reply,
                 faults, historyVars>>

-----------------------------------------------------------------------------
(* The rest of the world.                                                  *)

\* createTokenAPI: a blind put of an UNUSED token.  The id is the beginning of
\* a random UUID, so the key may be that of a token issued before.
CreateToken(k) ==
  /\ issued[k] < MaxIssues
  /\ tokenLock[k] = NoRequest
  /\ token' = [token EXCEPT ![k] = "UNUSED"]
  /\ tokenVer' = [tokenVer EXCEPT ![k] = @ + 1]
  /\ issued' = [issued EXCEPT ![k] = @ + 1]
  /\ UNCHANGED <<walletVars, tokenLock, paymentVars, pc, arg, taskVars, reply,
                 faults, debited, charged, spent, topUp, torn>>

Fault(kind) ==
  /\ kind \in FaultKinds
  /\ faults < MaxFaults
  /\ faults' = faults + 1

\* The caches hold at most 100000 entries and remove others when full.
EvictToken(k) ==
  /\ Fault("evict")
  /\ token[k] # Absent
  /\ token' = [token EXCEPT ![k] = Absent]
  /\ tokenVer' = [tokenVer EXCEPT ![k] = @ + 1]
  /\ UNCHANGED <<walletVars, tokenLock, paymentVars, pc, arg, taskVars, reply,
                 historyVars>>

EvictPayment(k) ==
  /\ Fault("evict")
  /\ payment[k] # NoRequest
  /\ payment' = [payment EXCEPT ![k] = NoRequest]
  /\ paymentVer' = [paymentVer EXCEPT ![k] = @ + 1]
  /\ UNCHANGED <<walletVars, tokenVars, paymentLock, pc, arg, taskVars, reply,
                 historyVars>>

\* The request waits for a lock of another transaction.
Waiting(r) ==
  \/ At(r, "prepareWallet") /\ walletLock[Payer(r)] # NoRequest
  \/ At(r, "prepareToken") /\ tokenLock[KeyOf(r)] # NoRequest
  \/ At(r, "preparePayment") /\ paymentLock[KeyOf(r)] # NoRequest

LockTimeout(r) ==
  /\ Fault("timeout")
  /\ Waiting(r)
  /\ Catch(r, "timeout")
  /\ UNCHANGED <<walletVars, tokenVars, paymentVars, arg, try, buf, reply,
                 historyVars>>

InGrid(r) == pc[r] \notin {"idle", "notify", "done"}

\* The node that runs the task dies: the surviving copies of its entries keep
\* what was committed and undo what was only prepared.  The HotRod client
\* sends the task to another node, or gives up.
OwnerLost(r) ==
  /\ Fault("crash")
  /\ InGrid(r)
  /\ ReleaseLocks(r)
  /\ buf' = [buf EXCEPT ![r] = NoBuffer]
  /\ try' = [try EXCEPT ![r] = 1]
  /\ causes' = [causes EXCEPT ![r] = {}]
  /\ \/ Goto(r, "stream") /\ UNCHANGED reply
     \/ Answer(r, Error)
  /\ torn' = torn + (IF At(r, "commitToken") THEN 1 ELSE 0)
  /\ UNCHANGED <<arg, issued, debited, charged, spent, topUp>>

\* The emitter's buffer is full while the broker lags: send() throws, and the
\* REST handler turns that into an error response.
NotifyOverflow(r) ==
  /\ Fault("overflow")
  /\ At(r, "notify")
  /\ Answer(r, Error)
  /\ UNCHANGED <<walletVars, tokenVars, paymentVars, arg, taskVars,
                 historyVars>>

-----------------------------------------------------------------------------
\* What the servers do for a request once it is sent.
Serve(r) ==
  \/ Dispatch(r)
  \/ Begin(r) \/ LoadWallet(r) \/ LoadToken(r) \/ Charge(r)
  \/ PrepareWallet(r) \/ PrepareToken(r) \/ PreparePayment(r)
  \/ CommitWallet(r) \/ CommitToken(r) \/ CommitPayment(r)
  \/ Rollback(r)
  \/ LoadPayment(r) \/ Notify(r)

Disturb ==
  \/ \E k \in Key : EvictToken(k) \/ EvictPayment(k)
  \/ \E r \in Request : LockTimeout(r) \/ OwnerLost(r) \/ NotifyOverflow(r)

Next ==
  \/ \E r \in Request : Submit(r) \/ Serve(r)
  \/ \E k \in Key : CreateToken(k)
  \/ Disturb

Spec == Init /\ [][Next]_vars

-----------------------------------------------------------------------------
Label == {"idle", "stream", "begin", "wallet", "token", "charge",
          "prepareWallet", "prepareToken", "preparePayment",
          "commitWallet", "commitToken", "commitPayment",
          "rollback", "load", "notify", "done"}

Cause == {"shopper", "token", "funds", "conflict", "timeout"}

Status == TokenStatus \cup {Absent}

Buffer == [balance : Money, walletVer : Nat, token : Status, tokenVer : Nat,
           paymentVer : Nat]

TypeOK ==
  /\ balance \in [Shopper -> Money]
  /\ walletVer \in [Shopper -> Nat]
  /\ walletLock \in [Shopper -> Request \cup {NoRequest}]
  /\ token \in [Key -> Status]
  /\ tokenVer \in [Key -> Nat]
  /\ tokenLock \in [Key -> Request \cup {NoRequest}]
  /\ payment \in [Key -> Request \cup {NoRequest}]
  /\ paymentVer \in [Key -> Nat]
  /\ paymentLock \in [Key -> Request \cup {NoRequest}]
  /\ pc \in [Request -> Label]
  /\ arg \in [Request -> [key : Key, amount : Amount]]
  /\ try \in [Request -> 1..MaxRetry]
  /\ buf \in [Request -> Buffer]
  /\ causes \in [Request -> SUBSET Cause]
  /\ reply \in [Request -> Request \cup {NoReply, Error}]
  /\ faults \in Nat
  /\ issued \in [Key -> Nat]
  /\ debited \in [Key -> Nat]
  /\ charged \in [Request -> Nat]
  /\ spent \in [Shopper -> Nat]
  /\ topUp \in [Shopper -> Nat]
  /\ torn \in Nat

\* No update of a wallet is lost and none is applied twice: although every
\* payment writes a balance computed from one it read earlier, the wallet always
\* holds what it started with, the automatic charges, less every amount debited.
Conservation ==
  \A s \in Shopper : balance[s] + spent[s] = InitBalance[s] + topUp[s]

\* However often the payment of a token is sent, duplicated, retried or
\* re-executed, wallets are debited for it at most once per time it was issued;
\* the only exception is a commit that a crash tore between wallet and token.
ChargedOncePerIssue ==
  \A k \in Key : debited[k] <= issued[k] + torn

\* A commit of r has written the wallet but not yet all the caches.
MidCommit(r) == pc[r] \in {"commitToken", "commitPayment"}

\* The three caches agree although each commits on its own: unless a fault hit,
\* and outside a commit in progress, a token issued once is USED exactly when
\* there is a payment entry for it and its owner's wallet was debited for it
\* once, by the request that the entry names.
AllOrNothing ==
  \A k \in Key :
    faults = 0 /\ issued[k] <= 1 /\ (\A r \in Request : KeyOf(r) = k => ~MidCommit(r))
      => /\ token[k] = "USED" <=> payment[k] # NoRequest
         /\ token[k] = "USED" <=> debited[k] = 1
         /\ \A r \in Request : charged[r] = 1 /\ KeyOf(r) = k <=> payment[k] = r

\* What a client is told is what happened to its money: without faults, an error
\* means its request was not charged, anything else that it was charged once.
ReplyTellsTheTruth ==
  \A r \in Request : At(r, "done") /\ faults = 0
    => charged[r] = IF reply[r] = Error THEN 0 ELSE 1

\* The payment a client is shown is its own, not that of a competing request for
\* the same token, although the task reads it back after the transaction is over.
ReplyIsOwn ==
  \A r \in Request :
    reply[r] \in Request /\ issued[KeyOf(r)] <= 1 /\ torn = 0 => reply[r] = r

\* MaxRetry tries are enough unless that many others got through: a request that
\* failed on write conflicts alone, and whose token nobody else was charged for,
\* lost them to at least MaxRetry other charged requests of the same shopper.  So
\* MaxRetry payments at the same time, each with a token of its own, all succeed.
\* (A competitor for the same token can cost it two tries: the wallet is unlocked
\* before the token is written, so the second try can still read it UNUSED.)
ConflictsMeanProgress ==
  \A r \in Request :
    reply[r] = Error /\ causes[r] = {"conflict"} /\ faults = 0
      /\ issued[KeyOf(r)] <= 1
      /\ (\A q \in Request : KeyOf(q) = KeyOf(r) => charged[q] = 0)
      => Cardinality({q \in Request : Payer(q) = Payer(r) /\ charged[q] > 0})
           >= MaxRetry

\* A token changes in the cache in three ways only: it is issued, an UNUSED one
\* becomes USED, or it is evicted.  PROCESSING, which every payment stores in its
\* transaction, and FAILED are never seen outside of it.
TokenLifecycle ==
  [][\A k \in Key : token'[k] # token[k] =>
       \/ token'[k] = "UNUSED" /\ issued'[k] = issued[k] + 1
       \/ token'[k] = "USED" /\ token[k] \in {"UNUSED", Absent}
                               /\ (token[k] = Absent => faults > 0)
       \/ token'[k] = Absent /\ faults' = faults + 1]_vars

\* Every request that was sent is answered: no deadlock over the locks of the
\* three caches, no endless retry, whatever entry is missing.
Answered == \A r \in Request : At(r, "stream") ~> At(r, "done")

\* The page and the message shown for any exception of the handler say that the
\* payment failed (PaymentResource.bill).  A client told so was not charged.
FailedMeansNotCharged ==
  \A r \in Request : reply[r] = Error => charged[r] = 0

-----------------------------------------------------------------------------
(* What makes TypeOK, Conservation and ChargedOncePerIssue inductive.      *)

\* A transaction that reached its commit was one that can be paid.
PastCharge == {"prepareWallet", "prepareToken", "preparePayment", "commitWallet"}

Afforded ==
  \A r \in Request : pc[r] \in PastCharge
    => Payable(buf[r].balance, AutoCharge[Payer(r)], AmountOf(r))

\* A wallet whose version is the one a request read is the wallet it read.
WalletAsRead ==
  \A r \in Request : pc[r] \in {"token", "charge"} \cup PastCharge
    => /\ buf[r].walletVer <= walletVer[Payer(r)]
       /\ buf[r].walletVer = walletVer[Payer(r)]
            => buf[r].balance = balance[Payer(r)]

\* A wallet that passed the check is locked until it is written.
WalletHeld ==
  \A r \in Request : pc[r] \in PastCharge \ {"prepareWallet"}
    => /\ walletLock[Payer(r)] = r
       /\ buf[r].walletVer = walletVer[Payer(r)]

WalletInv == TypeOK /\ Afforded /\ WalletAsRead /\ WalletHeld /\ Conservation

\* The same for the token, which is UNUSED when it is read and USED when it is
\* written.
TokenAsRead ==
  \A r \in Request : pc[r] \in {"charge", "prepareWallet", "prepareToken"}
    => /\ buf[r].tokenVer <= tokenVer[KeyOf(r)]
       /\ buf[r].tokenVer = tokenVer[KeyOf(r)] => token[KeyOf(r)] = "UNUSED"

TokenBuffered ==
  \A r \in Request :
    /\ pc[r] = "charge" => buf[r].token = "PROCESSING"
    /\ pc[r] \in PastCharge \cup {"commitToken"} => buf[r].token = "USED"

TokenHeld ==
  \A r \in Request : pc[r] \in {"preparePayment", "commitWallet", "commitToken"}
    => tokenLock[KeyOf(r)] = r

\* Whoever may still be charged for the token is covered by an issue of it.
HeldIsCovered ==
  \A r \in Request : pc[r] \in {"preparePayment", "commitWallet"}
    => debited[KeyOf(r)] < issued[KeyOf(r)] + torn

UnusedIsCovered ==
  \A k \in Key :
    token[k] = "UNUSED" /\ (\A r \in Request : KeyOf(r) = k => pc[r] # "commitToken")
      => debited[k] < issued[k] + torn

TokenInv ==
  /\ TokenAsRead /\ TokenBuffered /\ TokenHeld
  /\ HeldIsCovered /\ UnusedIsCovered /\ ChargedOncePerIssue

-----------------------------------------------------------------------------
(* The ledger this implements, as long as no commit is torn.  A payment    *)
(* takes effect when the wallet is committed.                              *)

Between(r, labels, k) == KeyOf(r) = k /\ pc[r] \in labels

\* Can still be paid with: unused and not being used up, or locked by a payment
\* that has passed the check of its version.
Open(k) ==
  \/ token[k] = "UNUSED" /\ ~\E r \in Request : Between(r, {"commitToken"}, k)
  \/ \E r \in Request : Between(r, {"preparePayment", "commitWallet"}, k)

Receipt(k) ==
  IF \E r \in Request : KeyOf(r) = k /\ MidCommit(r)
    THEN CHOOSE r \in Request : KeyOf(r) = k /\ MidCommit(r)
    ELSE payment[k]

Ledger == INSTANCE PaymentLedger WITH
            open <- [k \in Key |-> Open(k)],
            receipt <- [k \in Key |-> Receipt(k)]

\* Every step of the grid is a payment, an issue or a removal of the ledger, or
\* changes nothing in it.
ImplementsLedger == Ledger!Spec
=============================================================================
