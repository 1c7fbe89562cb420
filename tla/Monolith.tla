------------------------------ MODULE Monolith ------------------------------
(***************************************************************************)
(* The monolithic edition: the same use case, TokenUsecaseImpl.pay, over a *)
(* relational database.  Each HTTP request is one transaction of the       *)
(* database at its default isolation, READ COMMITTED, and serialises with  *)
(* others through row locks: find(..., PESSIMISTIC_WRITE) is a SELECT FOR  *)
(* UPDATE.  What a transaction writes is seen by others when it commits,   *)
(* all at once.  The database and Hibernate are not part of the            *)
(* repository; they are modelled as the code uses them.                    *)
(*                                                                         *)
(* Statements that neither wait nor are affected by what happens between   *)
(* them are one action.  The rows of a shopper (Shopper, Wallet and Point) *)
(* are created and deleted together, by InitializeResource only.           *)
(*                                                                         *)
(* pc of a payment       "idle", "wallet" (SELECT FOR UPDATE),             *)
(*                       "waitWallet", "token" (SELECT FOR UPDATE),        *)
(*                       "charge", "commit", "answer", "done"              *)
(* pc of a creation      "idle", "flush", "done"                           *)
(* pc of the initialiser "idle", "list", "delete", "done"                  *)
(***************************************************************************)
EXTENDS Wallet, FiniteSets

CONSTANTS
  Shopper, TokenId, Request, Amount, AutoCharge, InitBalance,
  Registered,  \* the shoppers InitializeResource creates
  InitPoints,  \* the points it gives each of them, 20 in the code
  Creator,     \* bound: the requests for a new token
  Admin,       \* the request to initialise
  NoTx,
  MaxLost      \* bound: connections lost in a behaviour

ASSUME MonolithAssumption ==
  /\ Amount \subseteq Money
  /\ AutoCharge \in [Shopper -> Money]
  /\ InitBalance \in [Shopper -> Money]
  /\ Registered \subseteq Shopper
  /\ InitPoints \in Nat
  /\ MaxLost \in Nat
  /\ Request \cap Creator = {}
  /\ Admin \notin Request \cup Creator
  /\ NoTx \notin Request \cup {Admin}

Tx == Request \cup {Admin}   \* the transactions that keep locks
Key == Shopper \X TokenId
Owner(k) == k[1]

Absent == "ABSENT"
TokenStatus == {"UNUSED", "PROCESSING", "USED", "FAILED"}

VARIABLES
  ready,    \* the tables have been filled by InitializeResource
  era,      \* how often that was done in this behaviour
  balance, points, walletLock,   \* by shopper
  token, tokenLock,              \* by key
  payment, paymentLock,          \* by key: the request the row was written by
  pc, arg,
  buf,      \* request |-> what its transaction has read and not yet written
  found,    \* creator |-> its key and the status its merge has read
  listed,   \* the rows the initialiser has read and will delete
  reply,    \* request |-> what its client was told
  lost,     \* number of lost connections
  \* History, read by the properties only:
  issued,   \* key |-> how often it was issued
  debited,  \* key |-> how often a wallet was debited for it
  charged,  \* request |-> how often a wallet was debited for it
  since,    \* key |-> as debited, since the wallets were last filled
  spent, topUp, earned  \* shopper |-> sums since the wallets were last filled

rowVars == <<ready, era, balance, points, token, payment>>
lockVars == <<walletLock, tokenLock, paymentLock>>
taskVars == <<arg, buf, found, listed>>
historyVars == <<issued, debited, charged, since, spent, topUp, earned>>
vars == <<rowVars, lockVars, pc, taskVars, reply, lost, historyVars>>

NoBuffer == [balance |-> 0, token |-> Absent, era |-> 0, paid |-> FALSE]
NoAnswer == "none"
Ok == "ok"
Error == "error"
Nobody == [s \in Shopper |-> NoTx]
Nothing == [k \in Key |-> NoTx]

Init ==
  /\ ready \in BOOLEAN
  /\ era = 0
  /\ balance = InitBalance
  /\ points = [s \in Shopper |-> InitPoints]
  /\ token = [k \in Key |-> Absent]
  /\ payment = Nothing
  /\ walletLock = Nobody
  /\ tokenLock = Nothing
  /\ paymentLock = Nothing
  /\ pc = [t \in Tx \cup Creator |-> "idle"]
  /\ arg \in [Request -> [key : Key, amount : Amount]]
  /\ buf = [r \in Request |-> NoBuffer]
  /\ found = [c \in Creator |-> <<>>]
  /\ listed = [payments |-> {}, tokens |-> {}]
  /\ reply = [r \in Request |-> NoAnswer]
  /\ lost = 0
  /\ issued = [k \in Key |-> 0]
  /\ debited = [k \in Key |-> 0]
  /\ charged = [r \in Request |-> 0]
  /\ since = [k \in Key |-> 0]
  /\ spent = [s \in Shopper |-> 0]
  /\ topUp = [s \in Shopper |-> 0]
  /\ earned = [s \in Shopper |-> 0]

KeyOf(r) == arg[r].key
Payer(r) == Owner(KeyOf(r))
AmountOf(r) == arg[r].amount
HasRows(s) == ready /\ s \in Registered

At(t, label) == pc[t] = label
Goto(t, label) == pc' = [pc EXCEPT ![t] = label]

\* Slip: a plain SELECT, which waits for nobody.
NoWait(lock) == TRUE

\* PESSIMISTIC_WRITE waits until no other transaction has the row.
Free(lock) == lock = NoTx

\* Slip: a transaction that is never closed.
KeepLocked(t) == UNCHANGED lockVars

\* @Transactional ends the transaction with the handler, however that ends, and
\* every row t has locked is free again.
Unlock(t) ==
  /\ walletLock' = [s \in Shopper |->
                      IF walletLock[s] = t THEN NoTx ELSE walletLock[s]]
  /\ tokenLock' = [k \in Key |-> IF tokenLock[k] = t THEN NoTx ELSE tokenLock[k]]
  /\ paymentLock' = [k \in Key |->
                       IF paymentLock[k] = t THEN NoTx ELSE paymentLock[k]]

-----------------------------------------------------------------------------
(* PaymentResource.pay                                                     *)

\* The request arrives; the shopper and the store are read.  Without them, or later without the
\* wallet or the token, an exception leaves the use case before it has written
\* anything.
FindShopper(r) ==
  /\ At(r, "idle")
  /\ Goto(r, IF HasRows(Payer(r)) THEN "wallet" ELSE "answer")
  /\ UNCHANGED <<rowVars, lockVars, taskVars, reply, lost, historyVars>>

\* The wallet's row is locked and read, and the token's row is looked up.
TakeWallet(r) ==
  LET s == Payer(r)
  IN  /\ walletLock' = [walletLock EXCEPT ![s] = r]
      /\ buf' = [buf EXCEPT ![r].balance = balance[s]]
      /\ Goto(r, IF token[KeyOf(r)] # Absent THEN "token" ELSE "answer")

\* The SELECT FOR UPDATE of the wallet; if the row is locked it waits for it.
LockWallet(r) ==
  /\ At(r, "wallet")
  /\ \/ /\ Free(walletLock[Payer(r)])
        /\ TakeWallet(r)
     \/ /\ ~Free(walletLock[Payer(r)])
        /\ buf' = [buf EXCEPT ![r].era = era]
        /\ Goto(r, "waitWallet")
        /\ UNCHANGED walletLock
  /\ UNCHANGED <<rowVars, tokenLock, paymentLock, arg, found, listed, reply,
                 lost, historyVars>>

\* The lock it waited for is free.  It gets the row in its latest version, or
\* none when the row it waited for was deleted meanwhile.
WakeUp(r) ==
  /\ At(r, "waitWallet")
  /\ Free(walletLock[Payer(r)])
  /\ \/ era = buf[r].era /\ TakeWallet(r)
     \/ era # buf[r].era /\ Goto(r, "answer") /\ UNCHANGED <<walletLock, buf>>
  /\ UNCHANGED <<rowVars, tokenLock, paymentLock, arg, found, listed, reply,
                 lost, historyVars>>

\* Slip: any token can be paid with.
AnyIssued(status) == status # Absent

\* Token.processing, which throws for any other status.
CanProcess(status) == status = "UNUSED"

\* The SELECT FOR UPDATE of the token, and processing().  If that throws, the
\* token is stored as it was loaded.
LockToken(r) ==
  LET k == KeyOf(r)
  IN  /\ At(r, "token")
      /\ Free(tokenLock[k])
      /\ tokenLock' = [tokenLock EXCEPT ![k] = r]
      /\ \/ /\ CanProcess(token[k])
            /\ buf' = [buf EXCEPT ![r].token = "PROCESSING"]
            /\ Goto(r, "charge")
         \/ /\ ~CanProcess(token[k])
            /\ buf' = [buf EXCEPT ![r].token = token[k]]
            /\ Goto(r, "commit")
      /\ UNCHANGED <<rowVars, walletLock, paymentLock, arg, found, listed,
                     reply, lost, historyVars>>

\* The status the token of a refused payment is stored with: PROCESSING, since
\* the token that failed() returns is dropped.
Refused(status) == status

\* wallet.pay(bill), then the wallet, the token and the payment are stored.
Charge(r) ==
  /\ At(r, "charge")
  /\ \/ /\ Payable(buf[r].balance, AutoCharge[Payer(r)], AmountOf(r))
        /\ buf' = [buf EXCEPT ![r].token = "USED", ![r].paid = TRUE]
     \/ /\ ~Payable(buf[r].balance, AutoCharge[Payer(r)], AmountOf(r))
        /\ buf' = [buf EXCEPT ![r].token = Refused(@)]
  /\ Goto(r, "commit")
  /\ UNCHANGED <<rowVars, lockVars, arg, found, listed, reply, lost,
                 historyVars>>

\* One point for each hundred of money.
PointsFor(amount) == amount \div 100

\* The points that are stored: those that were loaded, since the Point that
\* addPoint returns is dropped.
StoredPoints(loaded, amount) == loaded

\* Slip: the payment is left out of the transaction.
PaymentDropped(r) == payment

\* The row of the payment is inserted, or updated if the key already has one.
PaymentStored(r) == [payment EXCEPT ![KeyOf(r)] = r]

\* The end of a transaction that paid.
CommitPaid(r) ==
  LET s == Payer(r)
      k == KeyOf(r)
      auto == AutoCharge[s]
  IN  /\ At(r, "commit") /\ buf[r].paid
      /\ payment[k] # NoTx => Free(paymentLock[k])
      /\ balance' = [balance EXCEPT
                       ![s] = Left(buf[r].balance, auto, AmountOf(r))]
      /\ points' = [points EXCEPT ![s] = StoredPoints(@, AmountOf(r))]
      /\ token' = [token EXCEPT ![k] = buf[r].token]
      /\ payment' = PaymentStored(r)
      /\ Unlock(r)
      /\ Goto(r, "answer")
      /\ debited' = [debited EXCEPT ![k] = @ + 1]
      /\ charged' = [charged EXCEPT ![r] = @ + 1]
      /\ since' = [since EXCEPT ![k] = @ + 1]
      /\ spent' = [spent EXCEPT ![s] = @ + AmountOf(r)]
      /\ topUp' = [topUp EXCEPT
                     ![s] = @ + Charges(buf[r].balance, auto, AmountOf(r)) * auto]
      /\ earned' = [earned EXCEPT ![s] = @ + PointsFor(AmountOf(r))]
      /\ UNCHANGED <<ready, era, taskVars, reply, lost, issued>>

\* The end of one that did not: PaymentException is a checked exception, for
\* which @Transactional commits, so the token keeps the status it was stored with.
CommitRefused(r) ==
  /\ At(r, "commit") /\ ~buf[r].paid
  /\ token' = [token EXCEPT ![KeyOf(r)] = buf[r].token]
  /\ Unlock(r)
  /\ Goto(r, "answer")
  /\ UNCHANGED <<ready, era, balance, points, payment, taskVars, reply, lost,
                 historyVars>>

\* Slip: the exception is caught and forgotten.
AlwaysOk(paid) == Ok

\* PaymentException leaves the handler and becomes an error for the client.
Outcome(paid) == IF paid THEN Ok ELSE Error

\* The transaction is over in any case.
Answer(r) ==
  /\ At(r, "answer")
  /\ Unlock(r)
  /\ reply' = [reply EXCEPT ![r] = Outcome(buf[r].paid)]
  /\ Goto(r, "done")
  /\ UNCHANGED <<rowVars, taskVars, lost, historyVars>>

-----------------------------------------------------------------------------
(* PaymentResource.createTokenAPI                                          *)

\* save() merges: it reads the row of the key, which is four hexadecimal digits
\* and may be in use, without locking it.
MergeToken(c) ==
  /\ At(c, "idle")
  /\ \E k \in Key : found' = [found EXCEPT ![c] = <<k, token[k]>>]
  /\ Goto(c, "flush")
  /\ UNCHANGED <<rowVars, lockVars, arg, buf, listed, reply, lost, historyVars>>

\* At the commit the row is inserted if there was none, updated if its status
\* was another one, and left alone if it already was UNUSED.  A row that has
\* appeared or gone in between makes the transaction fail.
FlushToken(c) ==
  LET k == found[c][1]
      old == found[c][2]
      fails == (old = Absent /\ token[k] # Absent)
                 \/ (old \notin {Absent, "UNUSED"} /\ token[k] = Absent)
      writes == ~fails /\ old # "UNUSED"
  IN  /\ At(c, "flush")
      /\ old # "UNUSED" => Free(tokenLock[k])
      /\ token' = IF writes THEN [token EXCEPT ![k] = "UNUSED"] ELSE token
      /\ issued' = IF fails THEN issued ELSE [issued EXCEPT ![k] = @ + 1]
      /\ Goto(c, "done")
      /\ UNCHANGED <<ready, era, balance, points, payment, lockVars, taskVars,
                     reply, lost, debited, charged, since, spent, topUp, earned>>

-----------------------------------------------------------------------------
(* InitializeResource.initialize: deleteAll() reads every row of a table   *)
(* and removes the rows it has read one by one, when the session is        *)
(* flushed.                                                                *)

ListPayments ==
  /\ At(Admin, "idle")
  /\ listed' = [listed EXCEPT !.payments = {k \in Key : payment[k] # NoTx}]
  /\ Goto(Admin, "list")
  /\ UNCHANGED <<rowVars, lockVars, arg, buf, found, reply, lost, historyVars>>

ListTokens ==
  /\ At(Admin, "list")
  /\ listed' = [listed EXCEPT !.tokens = {k \in Key : token[k] # Absent}]
  /\ Goto(Admin, "delete")
  /\ UNCHANGED <<rowVars, lockVars, arg, buf, found, reply, lost, historyVars>>

\* The rows a table has left to delete.
PaymentsLeft == {k \in listed.payments : paymentLock[k] # Admin}
TokensLeft == {k \in listed.tokens : tokenLock[k] # Admin}
WalletsLeft == {s \in Shopper : HasRows(s) /\ walletLock[s] # Admin}

DeletePayment(k) ==
  /\ At(Admin, "delete")
  /\ k \in PaymentsLeft /\ Free(paymentLock[k])
  /\ paymentLock' = [paymentLock EXCEPT ![k] = Admin]
  /\ UNCHANGED <<rowVars, walletLock, tokenLock, pc, taskVars, reply, lost,
                 historyVars>>

DeleteToken(k) ==
  /\ At(Admin, "delete")
  /\ PaymentsLeft = {}
  /\ k \in TokensLeft /\ Free(tokenLock[k])
  /\ tokenLock' = [tokenLock EXCEPT ![k] = Admin]
  /\ UNCHANGED <<rowVars, walletLock, paymentLock, pc, taskVars, reply, lost,
                 historyVars>>

DeleteWallet(s) ==
  /\ At(Admin, "delete")
  /\ PaymentsLeft = {} /\ TokensLeft = {}
  /\ s \in WalletsLeft /\ Free(walletLock[s])
  /\ walletLock' = [walletLock EXCEPT ![s] = Admin]
  /\ UNCHANGED <<rowVars, tokenLock, paymentLock, pc, taskVars, reply, lost,
                 historyVars>>

\* The rows deleted vanish, and those of the shoppers appear anew.
CommitInit ==
  /\ At(Admin, "delete")
  /\ PaymentsLeft = {} /\ TokensLeft = {} /\ WalletsLeft = {}
  /\ ready' = TRUE
  /\ era' = era + 1
  /\ balance' = InitBalance
  /\ points' = [s \in Shopper |-> InitPoints]
  /\ token' = [k \in Key |-> IF k \in listed.tokens THEN Absent ELSE token[k]]
  /\ payment' = [k \in Key |-> IF k \in listed.payments THEN NoTx ELSE payment[k]]
  /\ Unlock(Admin)
  /\ Goto(Admin, "done")
  /\ since' = [k \in Key |-> 0]
  /\ spent' = [s \in Shopper |-> 0]
  /\ topUp' = [s \in Shopper |-> 0]
  /\ earned' = [s \in Shopper |-> 0]
  /\ UNCHANGED <<taskVars, reply, lost, issued, debited, charged>>

-----------------------------------------------------------------------------
(* What the database and the network do.                                   *)

\* t waits for a row that u has locked.
WaitsFor(t, u) ==
  \/ /\ t \in Request
     /\ \/ At(t, "waitWallet") /\ walletLock[Payer(t)] = u
        \/ At(t, "token") /\ tokenLock[KeyOf(t)] = u
        \/ At(t, "commit") /\ buf[t].paid /\ paymentLock[KeyOf(t)] = u
  \/ /\ t = Admin /\ At(t, "delete")
     /\ \/ \E k \in PaymentsLeft : paymentLock[k] = u
        \/ PaymentsLeft = {} /\ \E k \in TokensLeft : tokenLock[k] = u
        \/ /\ PaymentsLeft = {} /\ TokensLeft = {}
           /\ \E s \in WalletsLeft : walletLock[s] = u

\* Nothing of the transaction remains, and a client gets an error.
Rollback(t) ==
  /\ Unlock(t)
  /\ Goto(t, "done")
  /\ reply' = [r \in Request |-> IF r = t THEN Error ELSE reply[r]]
  /\ UNCHANGED <<rowVars, taskVars, historyVars>>

\* Slip: transactions that wait for each other do so for ever.
NeverFound(t) == FALSE

\* The database finds a deadlock and makes one of the two its victim.  A cycle
\* of waiting transactions is never longer here: whoever waits for a token or a
\* payment has locked the wallet, so that it waits for the initialiser.
Deadlocked(t) ==
  \E u \in Tx : WaitsFor(t, u) /\ WaitsFor(u, t)

BreakDeadlock(t) == Deadlocked(t) /\ Rollback(t) /\ UNCHANGED lost

\* The application or its connection dies: before the commit it is as if the
\* transaction had never been, afterwards only the answer is lost.
Lose(t) ==
  /\ ~At(t, "idle") /\ ~At(t, "done")
  /\ lost < MaxLost
  /\ lost' = lost + 1
  /\ Rollback(t)

Serve(r) ==
  \/ LockWallet(r) \/ WakeUp(r) \/ LockToken(r) \/ Charge(r)
  \/ CommitPaid(r) \/ CommitRefused(r) \/ Answer(r)

Initialize ==
  \/ ListTokens
  \/ \E k \in Key : DeletePayment(k) \/ DeleteToken(k)
  \/ \E s \in Shopper : DeleteWallet(s)
  \/ CommitInit

Next ==
  \/ \E r \in Request : FindShopper(r) \/ Serve(r)
  \/ \E c \in Creator : MergeToken(c) \/ FlushToken(c)
  \/ ListPayments \/ Initialize
  \/ \E t \in Tx : BreakDeadlock(t) \/ Lose(t)

Spec == Init /\ [][Next]_vars

\* The server's threads keep running and the database looks for deadlocks.
\* Nobody has to send a request, and no connection has to break.
FairSpec ==
  /\ Spec
  /\ \A r \in Request : WF_vars(Serve(r))
  /\ WF_vars(Initialize)
  /\ WF_vars(\E t \in Tx : BreakDeadlock(t))

-----------------------------------------------------------------------------
(* Properties                                                              *)

Label == {"idle", "wallet", "waitWallet", "token", "charge", "commit",
          "answer", "done", "flush", "list", "delete"}
Status == TokenStatus \cup {Absent}

\* Every variable has its type; in particular a committed balance is an int that
\* is not negative, which CommitPaid does not check.
TypeOK ==
  /\ ready \in BOOLEAN
  /\ era \in Nat
  /\ balance \in [Shopper -> Money]
  /\ points \in [Shopper -> Nat]
  /\ token \in [Key -> Status]
  /\ payment \in [Key -> Request \cup {NoTx}]
  /\ walletLock \in [Shopper -> Tx \cup {NoTx}]
  /\ tokenLock \in [Key -> Tx \cup {NoTx}]
  /\ paymentLock \in [Key -> Tx \cup {NoTx}]
  /\ pc \in [Tx \cup Creator -> Label]
  /\ arg \in [Request -> [key : Key, amount : Amount]]
  /\ buf \in [Request -> [balance : Money, token : Status, era : Nat,
                          paid : BOOLEAN]]
  /\ found \in [Creator -> {<<>>} \cup (Key \X Status)]
  /\ listed \in [payments : SUBSET Key, tokens : SUBSET Key]
  /\ reply \in [Request -> {NoAnswer, Ok, Error}]
  /\ lost \in Nat
  /\ issued \in [Key -> Nat]
  /\ debited \in [Key -> Nat]
  /\ charged \in [Request -> Nat]
  /\ since \in [Key -> Nat]
  /\ spent \in [Shopper -> Nat]
  /\ topUp \in [Shopper -> Nat]
  /\ earned \in [Shopper -> Nat]

\* A wallet always holds what InitializeResource last filled it with, the
\* automatic charges, less every amount debited since: no update is lost between
\* two payments, and a payment that runs into an initialisation counts either
\* fully before or fully after it, or not at all.
Conservation ==
  \A s \in Shopper : balance[s] + spent[s] = InitBalance[s] + topUp[s]

\* However payments of a token race with each other, with the creation of a token
\* that happens to have the same id, and with the initialisation, wallets are
\* debited for it at most as often as it was issued.
ChargedOncePerIssue == \A k \in Key : debited[k] <= issued[k]

\* Nobody's wallet is debited without a payment to show for it, even when an
\* initialisation that deletes payments and refills wallets runs at the same
\* time; and without one, a token issued once is USED exactly when it was paid.
AllOrNothing ==
  \A k \in Key :
    /\ since[k] > 0 => payment[k] # NoTx
    /\ era = 0 /\ issued[k] <= 1 =>
         /\ token[k] = "USED" <=> debited[k] = 1
         /\ payment[k] # NoTx <=> debited[k] = 1

\* A client is told that its payment went through exactly when it was charged,
\* once, unless its connection broke: no deadlock between a payment and the
\* initialisation leaves it half done.
ReplyTellsTheTruth ==
  \A r \in Request : At(r, "done") /\ lost = 0
    => charged[r] = IF reply[r] = Ok THEN 1 ELSE 0

\* What other transactions see of a token: it is issued; an UNUSED one becomes
\* USED with the debit of a wallet, or is spoilt without one; or it is deleted
\* by the initialisation.  A paid or refused token never comes back otherwise.
TokenLifecycle ==
  [][\A k \in Key : token'[k] # token[k] =>
       \/ token'[k] = "UNUSED" /\ issued'[k] = issued[k] + 1
       \/ token[k] = "UNUSED" /\ token'[k] = "USED" /\ debited'[k] = debited[k] + 1
       \/ token[k] = "UNUSED" /\ token'[k] \in {"PROCESSING", "FAILED"}
                                /\ balance' = balance
       \/ token'[k] = Absent /\ era' = era + 1]_vars

\* Every payment that was sent is answered, although it may wait for other
\* payments of its shopper and for an initialisation that waits for it.
Answered == \A r \in Request : ~At(r, "idle") ~> At(r, "done")

\* And every initialisation comes to an end.
Initialized == At(Admin, "list") ~> At(Admin, "done")

\* Each payment gives its shopper the points for its amount.
PointsAdded == \A s \in Shopper : points[s] = InitPoints + earned[s]

\* With atomic commits the ledger is read off the committed rows.
Ledger == INSTANCE PaymentLedger WITH
            NoRequest <- NoTx,
            open <- [k \in Key |-> token[k] = "UNUSED"],
            receipt <- payment

\* Every step of the monolith but the initialisation, which refills the wallets,
\* is one step of the same ledger that the data grid implements.
ImplementsLedger ==
  Ledger!Init /\ [][era' = era => [Ledger!Next]_(Ledger!vars)]_vars
=============================================================================
