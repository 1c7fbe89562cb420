------------------------- MODULE GridPayment_proofs -------------------------
(***************************************************************************)
(* Proofs about GridPayment, for every set of shoppers, tokens and         *)
(* requests, every wallet, every number of retries and of faults.          *)
(***************************************************************************)
EXTENDS GridPayment, Wallet_proofs, TLAPS

-----------------------------------------------------------------------------
(* Type correctness.                                                       *)

\* What a request asks for, from the types.
LEMMA ArgTypes ==
  ASSUME TypeOK, NEW r \in Request
  PROVE  /\ KeyOf(r) \in Key
         /\ Payer(r) \in Shopper
         /\ AmountOf(r) \in Money
         /\ InitBalance[Payer(r)] \in Money
         /\ AutoCharge[Payer(r)] \in Money
<1>1. KeyOf(r) \in Key /\ AmountOf(r) \in Amount
  BY DEF TypeOK, KeyOf, AmountOf
<1>2. Payer(r) \in Shopper
  BY <1>1 DEF Payer, Owner, Key
<1> QED
  BY <1>1, <1>2, GridAssumption

\* The initial states have the types.
LEMMA InitTypeOK == Init => TypeOK
<1> SUFFICES ASSUME Init PROVE TypeOK
  OBVIOUS
<1>1. 0 \in Money /\ 1 \in 1..MaxRetry
  BY MaxIntAssumption, GridAssumption DEF Money
<1>2. buf \in [Request -> Buffer]
  BY <1>1 DEF Init, NoBuffer, Buffer, Status
<1> QED
  BY <1>1, <1>2, GridAssumption DEF Init, TypeOK, Label, Status

\* What a request has read and buffered, from the types.
LEMMA BufferTypes ==
  ASSUME TypeOK, NEW r \in Request
  PROVE  /\ buf[r] \in Buffer
         /\ buf[r].balance \in Money
         /\ buf[r].token \in Status
         /\ NoBuffer \in Buffer
         /\ \A b \in Buffer : [buf EXCEPT ![r] = b] \in [Request -> Buffer]
         /\ \A m \in Money, v \in Nat :
              [buf EXCEPT ![r].balance = m, ![r].walletVer = v] \in [Request -> Buffer]
         /\ \A t \in Status, v \in Nat :
              /\ [buf EXCEPT ![r].token = t, ![r].tokenVer = v] \in [Request -> Buffer]
              /\ [buf EXCEPT ![r].token = t, ![r].paymentVer = v] \in [Request -> Buffer]
<1>1. buf \in [Request -> Buffer]
  BY DEF TypeOK
<1>2. NoBuffer \in Buffer
  BY MaxIntAssumption DEF NoBuffer, Buffer, Status, Money
<1>3. \A m \in Money, v \in Nat :
        [buf EXCEPT ![r].balance = m, ![r].walletVer = v] \in [Request -> Buffer]
  BY <1>1 DEF Buffer
<1>4. \A t \in Status, v \in Nat :
        [buf EXCEPT ![r].token = t, ![r].tokenVer = v] \in [Request -> Buffer]
  BY <1>1 DEF Buffer
<1>5. \A t \in Status, v \in Nat :
        [buf EXCEPT ![r].token = t, ![r].paymentVer = v] \in [Request -> Buffer]
  BY <1>1 DEF Buffer
<1>6. buf[r].balance \in Money /\ buf[r].token \in Status
  BY <1>1 DEF Buffer
<1> QED
  BY <1>1, <1>2, <1>3, <1>4, <1>5, <1>6

\* Moving on, failing and answering keep the types of what they change.
LEMMA ControlTypes ==
  ASSUME TypeOK, NEW r \in Request
  PROVE  /\ \A label \in Label : Goto(r, label) => pc' \in [Request -> Label]
         /\ \A cause \in Cause : Catch(r, cause) =>
              /\ pc' \in [Request -> Label]
              /\ causes' \in [Request -> SUBSET Cause]
         /\ \A answer \in Request \cup {NoReply, Error} : Answer(r, answer) =>
              /\ pc' \in [Request -> Label]
              /\ reply' \in [Request -> Request \cup {NoReply, Error}]
         /\ ReleaseLocks(r) =>
              /\ walletLock' \in [Shopper -> Request \cup {NoRequest}]
              /\ tokenLock' \in [Key -> Request \cup {NoRequest}]
              /\ paymentLock' \in [Key -> Request \cup {NoRequest}]
<1>1. pc \in [Request -> Label] /\ causes \in [Request -> SUBSET Cause]
      /\ reply \in [Request -> Request \cup {NoReply, Error}]
  BY DEF TypeOK
<1>2. "rollback" \in Label /\ "done" \in Label
  BY DEF Label
<1>3. ASSUME NEW label \in Label, Goto(r, label)
      PROVE  pc' \in [Request -> Label]
  BY <1>1, <1>3 DEF Goto
<1>4. ASSUME NEW cause \in Cause, Catch(r, cause)
      PROVE  causes' \in [Request -> SUBSET Cause] /\ pc' \in [Request -> Label]
  BY <1>1, <1>2, <1>3, <1>4 DEF Catch
<1>5. ASSUME NEW answer \in Request \cup {NoReply, Error}, Answer(r, answer)
      PROVE  /\ pc' \in [Request -> Label]
             /\ reply' \in [Request -> Request \cup {NoReply, Error}]
  BY <1>1, <1>2, <1>3, <1>5 DEF Answer
<1> QED
  BY <1>3, <1>4, <1>5 DEF ReleaseLocks, TypeOK

\* Every step keeps the types, if it is only an affordable payment that commits.
LEMMA NextTypeOK == TypeOK /\ Afforded /\ [Next]_vars => TypeOK'
<1> SUFFICES ASSUME TypeOK, Afforded, [Next]_vars PROVE TypeOK'
  OBVIOUS
<1>l. /\ {"stream", "begin", "wallet", "token", "charge", "prepareWallet",
          "prepareToken", "preparePayment", "commitWallet"} \subseteq Label
      /\ {"commitToken", "commitPayment", "rollback", "load", "notify", "done"}
           \subseteq Label
      /\ {"shopper", "token", "funds", "conflict", "timeout"} \subseteq Cause
  BY DEF Label, Cause
<1>s. {"UNUSED", "PROCESSING", "USED", "FAILED", Absent} \subseteq Status
  BY DEF Status, TokenStatus
<1> USE DEF TypeOK, walletVars, tokenVars, paymentVars, taskVars, historyVars
<1>1. ASSUME NEW r \in Request, Submit(r) PROVE TypeOK'
  BY <1>1, <1>l, ControlTypes DEF Submit
<1>2. ASSUME NEW r \in Request, Dispatch(r) PROVE TypeOK'
  BY <1>2, <1>l, ControlTypes DEF Dispatch
<1>3. ASSUME NEW r \in Request, Begin(r) PROVE TypeOK'
  BY <1>3, <1>l, ControlTypes DEF Begin
<1>4. ASSUME NEW r \in Request, LoadWallet(r) PROVE TypeOK'
  BY <1>4, <1>l, ControlTypes, ArgTypes, BufferTypes DEF LoadWallet
<1>5. ASSUME NEW r \in Request, LoadToken(r) PROVE TypeOK'
  <2> DEFINE k == KeyOf(r)
  <2>1. token[k] \in Status /\ tokenVer[k] \in Nat
    BY ArgTypes
  <2>2. [buf EXCEPT ![r].token = "PROCESSING", ![r].tokenVer = tokenVer[k]]
          \in [Request -> Buffer]
    BY <2>1, <1>s, BufferTypes
  <2>3. [buf EXCEPT ![r].token = token[k], ![r].tokenVer = tokenVer[k]]
          \in [Request -> Buffer]
    BY <2>1, BufferTypes
  <2>4. buf' \in [Request -> Buffer]
    BY <1>5, <2>2, <2>3, Zenon DEF LoadToken
  <2> QED
    BY <1>5, <2>4, <1>l, ControlTypes DEF LoadToken
<1>6. ASSUME NEW r \in Request, Charge(r) PROVE TypeOK'
  <2> DEFINE v == paymentVer[KeyOf(r)]
  <2>1. v \in Nat /\ Used(buf[r].token) \in Status
    BY <1>s, ArgTypes, BufferTypes DEF Used
  <2>2. [buf EXCEPT ![r].token = Used(buf[r].token), ![r].paymentVer = v]
          \in [Request -> Buffer]
    BY <2>1, BufferTypes
  <2>3. buf' \in [Request -> Buffer]
    BY <1>6, <2>2, Zenon DEF Charge
  <2> QED
    BY <1>6, <2>3, <1>l, ControlTypes DEF Charge
<1>7. ASSUME NEW r \in Request, PrepareWallet(r) PROVE TypeOK'
  BY <1>7, <1>l, ControlTypes DEF PrepareWallet
<1>8. ASSUME NEW r \in Request, PrepareToken(r) PROVE TypeOK'
  BY <1>8, <1>l, ControlTypes DEF PrepareToken
<1>9. ASSUME NEW r \in Request, PreparePayment(r) PROVE TypeOK'
  BY <1>9, <1>l, ControlTypes DEF PreparePayment
<1>10. ASSUME NEW r \in Request, CommitWallet(r) PROVE TypeOK'
  <2> DEFINE s == Payer(r)
             charges == Charges(buf[r].balance, AutoCharge[s], AmountOf(r))
             left == Left(buf[r].balance, AutoCharge[s], AmountOf(r))
  <2>1. /\ Payable(buf[r].balance, AutoCharge[s], AmountOf(r))
        /\ buf[r].balance \in Money
        /\ AutoCharge[s] \in Money
        /\ AmountOf(r) \in Money
        /\ s \in Shopper
        /\ KeyOf(r) \in Key
    BY <1>10, ArgTypes, BufferTypes DEF CommitWallet, At, Afforded, PastCharge
  <2>2. left \in Money /\ charges * AutoCharge[s] \in Nat
    BY <2>1, LeftIsMoney, ChargesNat
  <2>3. AmountOf(r) \in Nat
    BY <2>1, MaxIntAssumption DEF Money
  <2>4. /\ balance' = [balance EXCEPT ![s] = left]
        /\ walletVer' = [walletVer EXCEPT ![s] = @ + 1]
        /\ walletLock' = [walletLock EXCEPT ![s] = NoRequest]
        /\ Goto(r, "commitToken")
        /\ debited' = [debited EXCEPT ![KeyOf(r)] = @ + 1]
        /\ charged' = [charged EXCEPT ![r] = @ + 1]
        /\ spent' = [spent EXCEPT ![s] = @ + AmountOf(r)]
        /\ topUp' = [topUp EXCEPT ![s] = @ + charges * AutoCharge[s]]
        /\ UNCHANGED <<tokenVars, paymentVars, arg, taskVars, reply, faults,
                       issued, torn>>
    BY <1>10 DEF CommitWallet
  <2> HIDE DEF s, charges, left
  <2>5. spent' \in [Shopper -> Nat]
    BY <2>1, <2>3, <2>4
  <2>6. topUp' \in [Shopper -> Nat]
    BY <2>1, <2>2, <2>4
  <2> QED
    BY <2>1, <2>2, <2>4, <2>5, <2>6, <1>l, ControlTypes
<1>11. ASSUME NEW r \in Request, CommitToken(r) PROVE TypeOK'
  <2>1. buf[r].token \in Status
    BY BufferTypes
  <2>2. KeyOf(r) \in Key
    BY ArgTypes
  <2> QED
    BY <1>11, <2>1, <2>2, <1>l, ControlTypes DEF CommitToken
<1>12. ASSUME NEW r \in Request, CommitPayment(r) PROVE TypeOK'
  BY <1>12, <1>l, ControlTypes, ArgTypes DEF CommitPayment
<1>13. ASSUME NEW r \in Request, Rollback(r) PROVE TypeOK'
  <2>1. try' \in [Request -> 1..MaxRetry]
    BY <1>13, GridAssumption DEF Rollback, MayRetry
  <2>2. buf' \in [Request -> Buffer]
    BY <1>13, BufferTypes, Zenon DEF Rollback
  <2>3. pc' \in [Request -> Label]
        /\ reply' \in [Request -> Request \cup {NoReply, Error}]
    BY <1>13, <1>l, ControlTypes DEF Rollback, GiveUp
  <2> QED
    BY <1>13, <2>1, <2>2, <2>3, ControlTypes DEF Rollback, ReleaseLocks
<1>14. ASSUME NEW r \in Request, LoadPayment(r) PROVE TypeOK'
  BY <1>14, <1>l, ControlTypes, ArgTypes DEF LoadPayment
<1>15. ASSUME NEW r \in Request, Notify(r) PROVE TypeOK'
  BY <1>15, <1>l, ControlTypes DEF Notify
<1>16. ASSUME NEW k \in Key, CreateToken(k) PROVE TypeOK'
  BY <1>16, <1>s DEF CreateToken
<1>17. ASSUME NEW k \in Key, EvictToken(k) PROVE TypeOK'
  BY <1>17, <1>s DEF EvictToken, Fault
<1>18. ASSUME NEW k \in Key, EvictPayment(k) PROVE TypeOK'
  BY <1>18 DEF EvictPayment, Fault
<1>19. ASSUME NEW r \in Request, LockTimeout(r) PROVE TypeOK'
  BY <1>19, <1>l, ControlTypes DEF LockTimeout, Fault
<1>20. ASSUME NEW r \in Request, OwnerLost(r) PROVE TypeOK'
  <2>1. try' \in [Request -> 1..MaxRetry] /\ causes' \in [Request -> SUBSET Cause]
    BY <1>20, GridAssumption DEF OwnerLost
  <2>2. buf' \in [Request -> Buffer]
    BY <1>20, BufferTypes, Zenon DEF OwnerLost
  <2>3. pc' \in [Request -> Label]
        /\ reply' \in [Request -> Request \cup {NoReply, Error}]
    BY <1>20, <1>l, ControlTypes DEF OwnerLost
  <2>4. faults' \in Nat /\ torn' \in Nat
    BY <1>20 DEF OwnerLost, Fault
  <2> QED
    BY <1>20, <2>1, <2>2, <2>3, <2>4, ControlTypes DEF OwnerLost, ReleaseLocks
<1>21. ASSUME NEW r \in Request, NotifyOverflow(r) PROVE TypeOK'
  BY <1>21, <1>l, ControlTypes DEF NotifyOverflow, Fault
<1>22. CASE UNCHANGED vars
  BY <1>22 DEF vars
<1> QED
  BY <1>1, <1>2, <1>3, <1>4, <1>5, <1>6, <1>7, <1>8, <1>9, <1>10, <1>11, <1>12,
     <1>13, <1>14, <1>15, <1>16, <1>17, <1>18, <1>19, <1>20, <1>21, <1>22
  DEF Next, Serve, Disturb

\* A request keeps asking for what it asked for.
LEMMA ArgFixed ==
  ASSUME [Next]_vars
  PROVE  /\ arg' = arg
         /\ \A r : KeyOf(r)' = KeyOf(r) /\ Payer(r)' = Payer(r)
                  /\ AmountOf(r)' = AmountOf(r)
<1>1. arg' = arg
  BY DEF Next, Serve, Disturb, vars, Submit, Dispatch, Begin, LoadWallet,
         LoadToken, Charge, PrepareWallet, PrepareToken, PreparePayment,
         CommitWallet, CommitToken, CommitPayment, Rollback, LoadPayment, Notify,
         CreateToken, EvictToken, EvictPayment, LockTimeout, OwnerLost,
         NotifyOverflow
<1> QED
  BY <1>1 DEF KeyOf, Payer, AmountOf

\* The steps of a request that neither read into nor drop its transaction.
BufferKept(r) ==
  \/ Submit(r) \/ Dispatch(r) \/ Begin(r)
  \/ PrepareWallet(r) \/ PrepareToken(r) \/ PreparePayment(r)
  \/ CommitWallet(r) \/ CommitToken(r) \/ CommitPayment(r)
  \/ LoadPayment(r) \/ Notify(r) \/ LockTimeout(r) \/ NotifyOverflow(r)

\* The steps nobody's processing takes part in.
KeyStep(k) == CreateToken(k) \/ EvictToken(k) \/ EvictPayment(k)

\* Where a request can go from where it is, and what becomes of its buffer.
LEMMA Moves ==
  ASSUME TypeOK, NEW r \in Request, NEW q \in Request
  PROVE  /\ BufferKept(r) =>
              /\ buf' = buf
              /\ q # r => pc'[q] = pc[q]
              /\ pc'[r] = "prepareToken" => pc[r] = "prepareWallet"
              /\ pc'[r] = "preparePayment" => pc[r] = "prepareToken"
              /\ pc'[r] = "commitWallet" => pc[r] = "preparePayment"
              /\ pc'[r] = "commitToken" => pc[r] = "commitWallet"
              /\ pc'[r] \notin {"token", "charge", "prepareWallet"}
         /\ LoadWallet(r) \/ LoadToken(r) \/ Charge(r) \/ Rollback(r) \/ OwnerLost(r)
              => (q # r => pc'[q] = pc[q] /\ buf'[q] = buf[q])
         /\ LoadWallet(r) => pc'[r] = "token"
         /\ LoadToken(r) => pc'[r] \in {"charge", "rollback"}
         /\ Charge(r) => pc'[r] \in {"prepareWallet", "rollback"}
         /\ Rollback(r) \/ OwnerLost(r) => pc'[r] \in {"begin", "stream", "done"}
<1> USE DEF Goto, At, Catch, Answer
<1>1. pc \in [Request -> Label] /\ buf \in [Request -> Buffer]
  BY DEF TypeOK
<1>2. ASSUME BufferKept(r)
      PROVE  buf' = buf
  BY <1>2 DEF BufferKept, Submit, Dispatch, Begin, PrepareWallet, PrepareToken,
     PreparePayment, CommitWallet, CommitToken, CommitPayment, LoadPayment,
     Notify, LockTimeout, NotifyOverflow, taskVars
<1>3. ASSUME BufferKept(r), q # r
      PROVE  pc'[q] = pc[q]
  BY <1>1, <1>3 DEF BufferKept, Submit, Dispatch, Begin, PrepareWallet, PrepareToken,
     PreparePayment, CommitWallet, CommitToken, CommitPayment, LoadPayment,
     Notify, LockTimeout, NotifyOverflow
<1>4. ASSUME BufferKept(r)
      PROVE  /\ pc'[r] = "prepareToken" => pc[r] = "prepareWallet"
             /\ pc'[r] = "preparePayment" => pc[r] = "prepareToken"
             /\ pc'[r] = "commitWallet" => pc[r] = "preparePayment"
             /\ pc'[r] = "commitToken" => pc[r] = "commitWallet"
             /\ pc'[r] \notin {"token", "charge", "prepareWallet"}
  BY <1>1, <1>4 DEF BufferKept, Submit, Dispatch, Begin, PrepareWallet, PrepareToken,
     PreparePayment, CommitWallet, CommitToken, CommitPayment, LoadPayment,
     Notify, LockTimeout, NotifyOverflow
<1>5. ASSUME LoadWallet(r) \/ LoadToken(r) \/ Charge(r), q # r
      PROVE  pc'[q] = pc[q] /\ buf'[q] = buf[q]
  BY <1>1, <1>5 DEF LoadWallet, LoadToken, Charge
<1>6. ASSUME Rollback(r) \/ OwnerLost(r), q # r
      PROVE  pc'[q] = pc[q] /\ buf'[q] = buf[q]
  BY <1>1, <1>6 DEF Rollback, OwnerLost, GiveUp
<1>7. /\ LoadWallet(r) => pc'[r] = "token"
      /\ LoadToken(r) => pc'[r] \in {"charge", "rollback"}
      /\ Charge(r) => pc'[r] \in {"prepareWallet", "rollback"}
  BY <1>1 DEF LoadWallet, LoadToken, Charge
<1>8. Rollback(r) \/ OwnerLost(r) => pc'[r] \in {"begin", "stream", "done"}
  BY <1>1 DEF Rollback, OwnerLost, GiveUp
<1> QED
  BY <1>2, <1>3, <1>4, <1>5, <1>6, <1>7, <1>8

\* The steps, by what they do to what a transaction has buffered.
LEMMA Steps ==
  ASSUME [Next]_vars
  PROVE  \/ \E r \in Request :
              \/ BufferKept(r)
              \/ LoadWallet(r) \/ LoadToken(r) \/ Charge(r)
              \/ Rollback(r) \/ OwnerLost(r)
         \/ \E k \in Key : KeyStep(k)
         \/ UNCHANGED vars
  BY DEF Next, Serve, Disturb, BufferKept, KeyStep

\* Charge lets a transaction pass only if the wallet can pay the bill.
LEMMA NextAfforded == TypeOK /\ Afforded /\ [Next]_vars => Afforded'
<1> SUFFICES ASSUME TypeOK, Afforded, [Next]_vars,
                    NEW q \in Request, pc'[q] \in PastCharge
             PROVE  Payable(buf'[q].balance, AutoCharge[Payer(q)], AmountOf(q))
  BY ArgFixed DEF Afforded
<1> USE DEF PastCharge
<1>1. ASSUME NEW r \in Request, BufferKept(r)
      PROVE  buf'[q] = buf[q] /\ pc[q] \in PastCharge
  BY <1>1, Moves
<1>2. ASSUME NEW r \in Request, Charge(r)
      PROVE  Payable(buf'[q].balance, AutoCharge[Payer(q)], AmountOf(q))
  <2>1. CASE q # r
    BY <1>2, <2>1, Moves DEF Afforded
  <2>2. CASE q = r
    <3>1. Payable(buf[r].balance, AutoCharge[Payer(r)], AmountOf(r))
      BY <1>2, <2>2, Moves DEF Charge, Catch, Goto, TypeOK
    <3>2. buf'[r].balance = buf[r].balance
      BY <1>2 DEF Charge, TypeOK, Buffer
    <3> QED
      BY <2>2, <3>1, <3>2
  <2> QED
    BY <2>1, <2>2
<1>3. ASSUME NEW r \in Request,
             LoadWallet(r) \/ LoadToken(r) \/ Rollback(r) \/ OwnerLost(r)
      PROVE  buf'[q] = buf[q] /\ pc[q] \in PastCharge
  BY <1>3, Moves
<1>4. ASSUME NEW k \in Key, KeyStep(k)
      PROVE  buf'[q] = buf[q] /\ pc[q] \in PastCharge
  BY <1>4 DEF KeyStep, CreateToken, EvictToken, EvictPayment, taskVars
<1>5. CASE UNCHANGED vars
  BY <1>5 DEF vars, taskVars, Afforded
<1> QED
  BY <1>1, <1>2, <1>3, <1>4, <1>5, Steps DEF Afforded

\* Every variable keeps its type: above all, every balance is an int that is not
\* negative, whatever the order of the reads and writes.
THEOREM TypeCorrect == Spec => []TypeOK
<1>1. Init => TypeOK /\ Afforded
  BY InitTypeOK DEF Init, Afforded, PastCharge
<1>2. TypeOK /\ Afforded /\ [Next]_vars => TypeOK' /\ Afforded'
  BY NextTypeOK, NextAfforded
<1> QED
  BY <1>1, <1>2, PTL DEF Spec

-----------------------------------------------------------------------------
(* No update of a wallet is lost.                                          *)

\* Only locking, committing and unlocking touch the wallet cache, and only a
\* commit touches the money booked.
LEMMA WalletUntouched ==
  ASSUME NEW r \in Request
  PROVE  /\ BufferKept(r) /\ ~CommitWallet(r)
              => UNCHANGED <<balance, walletVer, spent, topUp>>
         /\ BufferKept(r) /\ ~CommitWallet(r) /\ ~PrepareWallet(r)
              => UNCHANGED walletLock
         /\ LoadWallet(r) \/ LoadToken(r) \/ Charge(r)
              => UNCHANGED <<balance, walletVer, walletLock, spent, topUp>>
         /\ Rollback(r) \/ OwnerLost(r) => UNCHANGED <<balance, walletVer, spent, topUp>>
         /\ \A k \in Key : KeyStep(k)
              => UNCHANGED <<balance, walletVer, walletLock, spent, topUp, pc, buf>>
<1> USE DEF walletVars, historyVars, taskVars
<1>1. BufferKept(r) /\ ~CommitWallet(r) => UNCHANGED <<balance, walletVer, spent, topUp>>
  BY DEF BufferKept, Submit, Dispatch, Begin, PrepareWallet, PrepareToken,
     PreparePayment, CommitToken, CommitPayment, LoadPayment, Notify, LockTimeout,
     NotifyOverflow
<1>2. BufferKept(r) /\ ~CommitWallet(r) /\ ~PrepareWallet(r) => UNCHANGED walletLock
  BY DEF BufferKept, Submit, Dispatch, Begin, PrepareToken,
     PreparePayment, CommitToken, CommitPayment, LoadPayment, Notify, LockTimeout,
     NotifyOverflow
<1>3. LoadWallet(r) \/ LoadToken(r) \/ Charge(r)
        => UNCHANGED <<balance, walletVer, walletLock, spent, topUp>>
  BY DEF LoadWallet, LoadToken, Charge
<1>4. Rollback(r) \/ OwnerLost(r) => UNCHANGED <<balance, walletVer, spent, topUp>>
  BY DEF Rollback, OwnerLost, ReleaseLocks
<1>5. \A k \in Key : KeyStep(k)
        => UNCHANGED <<balance, walletVer, walletLock, spent, topUp, pc, buf>>
  BY DEF KeyStep, CreateToken, EvictToken, EvictPayment
<1> QED
  BY <1>1, <1>2, <1>3, <1>4, <1>5

\* A write of a wallet changes its version, so that no other transaction takes it for
\* what it read.
LEMMA NextWalletAsRead == TypeOK /\ WalletAsRead /\ [Next]_vars => WalletAsRead'
<1> DEFINE Reading == {"token", "charge"} \cup PastCharge
           AsRead(q) == /\ buf[q].walletVer <= walletVer[Payer(q)]
                        /\ buf[q].walletVer = walletVer[Payer(q)]
                             => buf[q].balance = balance[Payer(q)]
<1> SUFFICES ASSUME TypeOK, WalletAsRead, [Next]_vars,
                    NEW q \in Request, pc'[q] \in Reading
             PROVE  AsRead(q)'
  BY ArgFixed DEF WalletAsRead
<1>1. pc[q] \in Reading => AsRead(q)
  BY DEF WalletAsRead
<1>2. Payer(q)' = Payer(q) /\ Payer(q) \in Shopper
  BY ArgFixed, ArgTypes
<1> USE DEF PastCharge
<1>3. ASSUME NEW r \in Request, BufferKept(r), ~CommitWallet(r)
      PROVE  AsRead(q)'
  <2>1. pc[q] \in Reading /\ buf' = buf
    BY <1>3, Moves
  <2> QED
    BY <1>1, <1>2, <1>3, <2>1, WalletUntouched
<1>4. ASSUME NEW r \in Request, CommitWallet(r)
      PROVE  AsRead(q)'
  <2>1. q # r /\ pc[q] \in Reading /\ buf' = buf
    <3>1. BufferKept(r) /\ pc'[r] = "commitToken"
      BY <1>4 DEF CommitWallet, BufferKept, Goto, TypeOK
    <3> QED
      BY <3>1, Moves
  <2>2. CASE Payer(q) = Payer(r)
    <3>1. walletVer'[Payer(q)] = walletVer[Payer(q)] + 1
      BY <1>2, <1>4, <2>2 DEF CommitWallet, TypeOK
    <3>2. walletVer[Payer(q)] \in Nat /\ buf[q].walletVer \in Nat
      BY <1>2 DEF TypeOK, Buffer
    <3>3. buf[q].walletVer < walletVer'[Payer(q)]
      BY <1>1, <2>1, <3>1, <3>2
    <3> QED
      BY <1>2, <2>1, <3>1, <3>2, <3>3
  <2>3. CASE Payer(q) # Payer(r)
    <3>1. walletVer'[Payer(q)] = walletVer[Payer(q)] /\ balance'[Payer(q)] = balance[Payer(q)]
      BY <1>2, <1>4, <2>3 DEF CommitWallet, TypeOK
    <3> QED
      BY <1>1, <1>2, <2>1, <3>1
  <2> QED
    BY <2>2, <2>3
<1>5. ASSUME NEW r \in Request, LoadWallet(r)
      PROVE  AsRead(q)'
  <2>1. CASE q = r
    <3>1. buf'[r].balance = balance[Payer(r)] /\ buf'[r].walletVer = walletVer[Payer(r)]
      BY <1>5 DEF LoadWallet, TypeOK, Buffer
    <3>2. walletVer[Payer(r)] \in Nat
      BY <1>2, <2>1 DEF TypeOK
    <3> QED
      BY <1>2, <1>5, <2>1, <3>1, <3>2, WalletUntouched
  <2>2. CASE q # r
    BY <1>1, <1>2, <1>5, <2>2, Moves, WalletUntouched
  <2> QED
    BY <2>1, <2>2
<1>6. ASSUME NEW r \in Request, LoadToken(r) \/ Charge(r)
      PROVE  AsRead(q)'
  <2>1. CASE q = r
    <3>1. buf'[r].balance = buf[r].balance /\ buf'[r].walletVer = buf[r].walletVer
      BY <1>6 DEF LoadToken, Charge, TypeOK, Buffer
    <3>2. pc[r] \in Reading
      BY <1>6 DEF LoadToken, Charge, At
    <3> QED
      BY <1>1, <1>2, <1>6, <2>1, <3>1, <3>2, WalletUntouched
  <2>2. CASE q # r
    BY <1>1, <1>2, <1>6, <2>2, Moves, WalletUntouched
  <2> QED
    BY <2>1, <2>2
<1>7. ASSUME NEW r \in Request, Rollback(r) \/ OwnerLost(r)
      PROVE  AsRead(q)'
  <2>1. q # r
    BY <1>7, Moves
  <2> QED
    BY <1>1, <1>2, <1>7, <2>1, Moves, WalletUntouched
<1>8. ASSUME NEW k \in Key, KeyStep(k)
      PROVE  AsRead(q)'
  BY <1>1, <1>2, <1>8, WalletUntouched
<1>9. CASE UNCHANGED vars
  BY <1>1, <1>2, <1>9 DEF vars, walletVars, taskVars
<1> QED
  BY <1>3, <1>4, <1>5, <1>6, <1>7, <1>8, <1>9, Steps

\* The lock of a wallet and the version seen when it was taken stay until the commit or
\* the rollback.
LEMMA NextWalletHeld == TypeOK /\ WalletHeld /\ [Next]_vars => WalletHeld'
<1> DEFINE Holding == PastCharge \ {"prepareWallet"}
           Held(q) == /\ walletLock[Payer(q)] = q
                      /\ buf[q].walletVer = walletVer[Payer(q)]
<1> SUFFICES ASSUME TypeOK, WalletHeld, [Next]_vars,
                    NEW q \in Request, pc'[q] \in Holding
             PROVE  Held(q)'
  BY ArgFixed DEF WalletHeld
<1>1. pc[q] \in Holding => Held(q)
  BY DEF WalletHeld
<1>2. Payer(q)' = Payer(q) /\ Payer(q) \in Shopper /\ q # NoRequest
  BY ArgFixed, ArgTypes, GridAssumption
<1> USE DEF PastCharge
<1>3. ASSUME NEW r \in Request, BufferKept(r), ~CommitWallet(r), ~PrepareWallet(r)
      PROVE  Held(q)'
  <2>1. pc'[q] # "prepareToken" \/ q # r
    BY <1>3, Moves DEF BufferKept, Submit, Dispatch, Begin, PrepareToken,
       PreparePayment, CommitToken, CommitPayment, LoadPayment, Notify,
       LockTimeout, NotifyOverflow, Goto, Catch, Answer, TypeOK
  <2>2. pc[q] \in Holding /\ buf' = buf
    BY <1>3, <2>1, Moves
  <2> QED
    BY <1>1, <1>2, <1>3, <2>2, WalletUntouched
<1>4. ASSUME NEW r \in Request, PrepareWallet(r)
      PROVE  Held(q)'
  <2>1. BufferKept(r) /\ ~CommitWallet(r)
    BY <1>4 DEF BufferKept, PrepareWallet, CommitWallet, At
  <2>2. buf' = buf /\ UNCHANGED <<balance, walletVer>>
    BY <2>1, Moves, WalletUntouched
  <2>3. CASE q = r
    <3>1. walletLock'[Payer(r)] = r
      BY <1>2, <1>4, <2>3 DEF PrepareWallet, TypeOK
    <3>2. buf[r].walletVer = walletVer[Payer(r)]
      BY <1>4, <2>3 DEF PrepareWallet, Unchanged, Catch, Goto, TypeOK
    <3> QED
      BY <1>2, <2>2, <2>3, <3>1, <3>2
  <2>4. CASE q # r
    <3>1. Held(q)
      BY <1>1, <2>1, <2>4, Moves
    <3>2. Payer(q) # Payer(r)
      BY <1>2, <1>4, <3>1 DEF PrepareWallet
    <3> QED
      BY <1>2, <1>4, <2>2, <3>1, <3>2 DEF PrepareWallet, TypeOK
  <2> QED
    BY <2>3, <2>4
<1>5. ASSUME NEW r \in Request, CommitWallet(r)
      PROVE  Held(q)'
  <2>1. BufferKept(r) /\ pc'[r] = "commitToken"
    BY <1>5 DEF CommitWallet, BufferKept, Goto, TypeOK
  <2>2. q # r /\ Held(q) /\ buf' = buf
    BY <1>1, <2>1, Moves
  <2>3. walletLock[Payer(r)] = r
    BY <1>5 DEF CommitWallet, At, WalletHeld
  <2>4. Payer(q) # Payer(r)
    BY <2>2, <2>3
  <2>5. /\ walletLock'[Payer(q)] = walletLock[Payer(q)]
        /\ walletVer'[Payer(q)] = walletVer[Payer(q)]
    BY <1>2, <1>5, <2>4 DEF CommitWallet, TypeOK
  <2> QED
    BY <1>2, <2>2, <2>5
<1>6. ASSUME NEW r \in Request, LoadWallet(r) \/ LoadToken(r) \/ Charge(r)
      PROVE  Held(q)'
  <2>1. q # r
    BY <1>6, Moves
  <2> QED
    BY <1>1, <1>2, <1>6, <2>1, Moves, WalletUntouched
<1>7. ASSUME NEW r \in Request, Rollback(r) \/ OwnerLost(r)
      PROVE  Held(q)'
  <2>1. q # r
    BY <1>7, Moves
  <2>2. walletLock[Payer(q)] = q => walletLock'[Payer(q)] = q
    BY <1>2, <1>7, <2>1 DEF Rollback, OwnerLost, ReleaseLocks
  <2> QED
    BY <1>1, <1>2, <1>7, <2>1, <2>2, Moves, WalletUntouched
<1>8. ASSUME NEW k \in Key, KeyStep(k)
      PROVE  Held(q)'
  BY <1>1, <1>2, <1>8, WalletUntouched
<1>9. CASE UNCHANGED vars
  BY <1>1, <1>2, <1>9 DEF vars, walletVars, taskVars
<1> QED
  BY <1>3, <1>4, <1>5, <1>6, <1>7, <1>8, <1>9, Steps

\* CommitWallet debits the balance that is stored, and nobody else writes a wallet.
LEMMA NextConservation ==
  TypeOK /\ Afforded /\ WalletAsRead /\ WalletHeld /\ Conservation /\ [Next]_vars
    => Conservation'
<1> SUFFICES ASSUME TypeOK, Afforded, WalletAsRead, WalletHeld, Conservation,
                    [Next]_vars, NEW s \in Shopper
             PROVE  balance'[s] + spent'[s] = InitBalance[s] + topUp'[s]
  BY DEF Conservation
<1>1. balance[s] + spent[s] = InitBalance[s] + topUp[s]
  BY DEF Conservation
<1>2. ASSUME NEW r \in Request, CommitWallet(r)
      PROVE  balance'[s] + spent'[s] = InitBalance[s] + topUp'[s]
  <2>1. CASE s # Payer(r)
    BY <1>1, <1>2, <2>1 DEF CommitWallet, TypeOK
  <2>2. CASE s = Payer(r)
    <3> DEFINE added == Charges(balance[s], AutoCharge[s], AmountOf(r)) * AutoCharge[s]
               left == Left(balance[s], AutoCharge[s], AmountOf(r))
    <3>1. buf[r].balance = balance[s]
      BY <1>2, <2>2 DEF CommitWallet, At, WalletHeld, WalletAsRead, PastCharge
    <3>2. /\ balance[s] \in Money /\ AutoCharge[s] \in Money /\ AmountOf(r) \in Money
          /\ InitBalance[s] \in Money
          /\ Payable(balance[s], AutoCharge[s], AmountOf(r))
      BY <1>2, <2>2, <3>1, ArgTypes DEF CommitWallet, At, Afforded, PastCharge, TypeOK
    <3>3. left + AmountOf(r) = balance[s] + added /\ left \in Money /\ added \in Nat
      BY <3>2, LeftIsMoney, ChargesNat
    <3>4. /\ balance' = [balance EXCEPT ![s] = left]
          /\ spent' = [spent EXCEPT ![s] = @ + AmountOf(r)]
          /\ topUp' = [topUp EXCEPT ![s] = @ + added]
      BY <1>2, <2>2, <3>1 DEF CommitWallet
    <3> HIDE DEF added, left
    <3>5. /\ balance'[s] = left
          /\ spent'[s] = spent[s] + AmountOf(r)
          /\ topUp'[s] = topUp[s] + added
      BY <3>4 DEF TypeOK
    <3>6. spent[s] \in Nat /\ topUp[s] \in Nat
      BY DEF TypeOK
    <3> QED
      BY <1>1, <3>2, <3>3, <3>5, <3>6, MaxIntAssumption DEF Money
  <2> QED
    BY <2>1, <2>2
<1>3. ASSUME UNCHANGED <<balance, spent, topUp>>
      PROVE  balance'[s] + spent'[s] = InitBalance[s] + topUp'[s]
  BY <1>1, <1>3
<1>4. ASSUME NEW r \in Request,
             \/ BufferKept(r) /\ ~CommitWallet(r)
             \/ LoadWallet(r) \/ LoadToken(r) \/ Charge(r)
             \/ Rollback(r) \/ OwnerLost(r)
      PROVE  UNCHANGED <<balance, spent, topUp>>
  BY <1>4, WalletUntouched
<1>5. ASSUME NEW k \in Key, KeyStep(k)
      PROVE  UNCHANGED <<balance, spent, topUp>>
  BY <1>5 DEF KeyStep, CreateToken, EvictToken, EvictPayment, walletVars, historyVars
<1>6. CASE UNCHANGED vars
  BY <1>3, <1>6 DEF vars, walletVars, historyVars
<1> QED
  BY <1>2, <1>3, <1>4, <1>5, <1>6, Steps

\* What is needed of the wallets holds at first.
LEMMA InitWalletInv == Init => WalletInv
<1> SUFFICES ASSUME Init PROVE WalletInv
  OBVIOUS
<1>1. TypeOK
  BY InitTypeOK
<1>2. \A r \in Request : pc[r] = "idle"
  BY DEF Init
<1>3. Conservation
  BY GridAssumption, MaxIntAssumption DEF Init, Conservation, Money
<1> QED
  BY <1>1, <1>2, <1>3
  DEF WalletInv, Afforded, WalletAsRead, WalletHeld, PastCharge

\* And every step keeps it.
LEMMA NextWalletInv == WalletInv /\ [Next]_vars => WalletInv'
BY NextTypeOK, NextAfforded, NextWalletAsRead, NextWalletHeld, NextConservation
DEF WalletInv

\* A wallet never loses an update: whatever the shoppers, the interleaving, the
\* retries and the faults, its balance accounts for every payment committed.
THEOREM NoLostUpdate == Spec => []Conservation
<1>1. WalletInv => Conservation
  BY DEF WalletInv
<1> QED
  BY <1>1, InitWalletInv, NextWalletInv, PTL DEF Spec

-----------------------------------------------------------------------------
(* A token is paid with once.                                             *)

\* Which steps touch the token cache and the books kept about a token.
LEMMA TokenUntouched ==
  ASSUME NEW r \in Request
  PROVE  /\ BufferKept(r) /\ ~CommitWallet(r) /\ ~CommitToken(r)
              => UNCHANGED <<token, tokenVer, issued, debited, torn>>
         /\ BufferKept(r) /\ ~PrepareToken(r) /\ ~CommitToken(r)
              => UNCHANGED tokenLock
         /\ BufferKept(r) /\ ~CommitToken(r) => UNCHANGED <<token, tokenVer>>
         /\ CommitToken(r) => UNCHANGED <<issued, debited, torn>>
         /\ CommitWallet(r) => UNCHANGED <<token, tokenVer, tokenLock, issued, torn>>
         /\ LoadWallet(r) \/ LoadToken(r) \/ Charge(r)
              => UNCHANGED <<token, tokenVer, tokenLock, issued, debited, torn>>
         /\ Rollback(r) \/ OwnerLost(r) => UNCHANGED <<token, tokenVer, issued, debited>>
         /\ Rollback(r) => UNCHANGED torn
         /\ \A k \in Key : KeyStep(k) => UNCHANGED <<tokenLock, debited, torn, pc, buf>>
         /\ \A k \in Key : EvictPayment(k) => UNCHANGED <<token, tokenVer, issued>>
<1> USE DEF tokenVars, historyVars, taskVars
<1>1. BufferKept(r) /\ ~CommitWallet(r) /\ ~CommitToken(r)
        => UNCHANGED <<token, tokenVer, issued, debited, torn>>
  BY DEF BufferKept, Submit, Dispatch, Begin, PrepareWallet, PrepareToken,
     PreparePayment, CommitPayment, LoadPayment, Notify, LockTimeout, NotifyOverflow
<1>2. BufferKept(r) /\ ~PrepareToken(r) /\ ~CommitToken(r) => UNCHANGED tokenLock
  BY DEF BufferKept, Submit, Dispatch, Begin, PrepareWallet, PreparePayment,
     CommitWallet, CommitPayment, LoadPayment, Notify, LockTimeout, NotifyOverflow
<1>3. /\ CommitToken(r) => UNCHANGED <<issued, debited, torn>>
      /\ CommitWallet(r) => UNCHANGED <<token, tokenVer, tokenLock, issued, torn>>
  BY DEF CommitToken, CommitWallet
<1>4. LoadWallet(r) \/ LoadToken(r) \/ Charge(r)
        => UNCHANGED <<token, tokenVer, tokenLock, issued, debited, torn>>
  BY DEF LoadWallet, LoadToken, Charge
<1>5. /\ Rollback(r) \/ OwnerLost(r) => UNCHANGED <<token, tokenVer, issued, debited>>
      /\ Rollback(r) => UNCHANGED torn
  BY DEF Rollback, OwnerLost, ReleaseLocks
<1>6. \A k \in Key : KeyStep(k) => UNCHANGED <<tokenLock, debited, torn, pc, buf>>
  BY DEF KeyStep, CreateToken, EvictToken, EvictPayment
<1>7. \A k \in Key : EvictPayment(k) => UNCHANGED <<token, tokenVer, issued>>
  BY DEF EvictPayment
<1> QED
  BY <1>1, <1>2, <1>3, <1>4, <1>5, <1>6, <1>7

\* A token that is written gets a new version, the others are left alone.
LEMMA TokenWritten ==
  ASSUME TypeOK, NEW k \in Key, NEW r \in Request,
         \/ KeyOf(r) = k /\ CommitToken(r)
         \/ CreateToken(k)
         \/ EvictToken(k)
  PROVE  /\ tokenVer'[k] = tokenVer[k] + 1
         /\ \A j \in Key \ {k} : token'[j] = token[j] /\ tokenVer'[j] = tokenVer[j]
  BY DEF CommitToken, CreateToken, EvictToken, TypeOK

\* Where the commit of a token leads from and to.
LEMMA CommitMoves ==
  ASSUME TypeOK, NEW r \in Request
  PROVE  /\ CommitWallet(r) => BufferKept(r) /\ pc[r] = "commitWallet"
                               /\ pc'[r] = "commitToken"
         /\ CommitToken(r) => BufferKept(r) /\ pc[r] = "commitToken"
                              /\ pc'[r] = "commitPayment"
         /\ BufferKept(r) /\ ~CommitToken(r) => pc[r] # "commitToken"
         /\ LoadWallet(r) \/ LoadToken(r) \/ Charge(r) \/ Rollback(r)
              => pc[r] # "commitToken"
         /\ BufferKept(r) /\ ~PrepareToken(r) => pc'[r] # "preparePayment"
         /\ BufferKept(r) /\ ~CommitWallet(r) => pc'[r] # "commitToken"
         /\ BufferKept(r) /\ ~CommitToken(r) /\ ~CommitWallet(r)
              => pc[r] # "commitWallet" \/ pc'[r] = "commitWallet"
<1> USE DEF Goto, At, Catch, Answer, TypeOK
<1>1. CommitWallet(r) => BufferKept(r) /\ pc[r] = "commitWallet" /\ pc'[r] = "commitToken"
  BY DEF CommitWallet, BufferKept
<1>2. CommitToken(r) => BufferKept(r) /\ pc[r] = "commitToken" /\ pc'[r] = "commitPayment"
  BY DEF CommitToken, BufferKept
<1>3. /\ BufferKept(r) /\ ~CommitToken(r) => pc[r] # "commitToken"
      /\ BufferKept(r) /\ ~CommitToken(r) /\ ~CommitWallet(r)
              => pc[r] # "commitWallet" \/ pc'[r] = "commitWallet"
  BY DEF BufferKept, Submit, Dispatch, Begin, PrepareWallet, PrepareToken,
     PreparePayment, CommitWallet, CommitPayment, LoadPayment, Notify, LockTimeout,
     Waiting, NotifyOverflow
<1>4. LoadWallet(r) \/ LoadToken(r) \/ Charge(r) \/ Rollback(r) => pc[r] # "commitToken"
  BY DEF LoadWallet, LoadToken, Charge, Rollback
<1>5. BufferKept(r) /\ ~PrepareToken(r) => pc'[r] # "preparePayment"
  BY DEF BufferKept, Submit, Dispatch, Begin, PrepareWallet, PreparePayment,
     CommitWallet, CommitToken, CommitPayment, LoadPayment, Notify, LockTimeout,
     NotifyOverflow
<1>6. BufferKept(r) /\ ~CommitWallet(r) => pc'[r] # "commitToken"
  BY DEF BufferKept, Submit, Dispatch, Begin, PrepareWallet, PrepareToken,
     PreparePayment, CommitToken, CommitPayment, LoadPayment, Notify, LockTimeout,
     NotifyOverflow
<1> QED
  BY <1>1, <1>2, <1>3, <1>4, <1>5, <1>6

\* A write of a token changes its version, so that no other transaction takes it for
\* what it read.
LEMMA NextTokenAsRead == TypeOK /\ TokenAsRead /\ [Next]_vars => TokenAsRead'
<1> DEFINE Reading == {"charge", "prepareWallet", "prepareToken"}
           AsRead(q) == /\ buf[q].tokenVer <= tokenVer[KeyOf(q)]
                        /\ buf[q].tokenVer = tokenVer[KeyOf(q)]
                             => token[KeyOf(q)] = "UNUSED"
<1> SUFFICES ASSUME TypeOK, TokenAsRead, [Next]_vars,
                    NEW q \in Request, pc'[q] \in Reading
             PROVE  AsRead(q)'
  BY ArgFixed DEF TokenAsRead
<1>1. pc[q] \in Reading => AsRead(q)
  BY DEF TokenAsRead
<1>2. KeyOf(q)' = KeyOf(q) /\ KeyOf(q) \in Key
  BY ArgFixed, ArgTypes
<1>3. tokenVer[KeyOf(q)] \in Nat /\ buf[q].tokenVer \in Nat
  BY <1>2 DEF TypeOK, Buffer
<1>4. ASSUME NEW r \in Request, NEW k \in Key, AsRead(q), buf'[q] = buf[q],
             \/ KeyOf(r) = k /\ CommitToken(r)
             \/ CreateToken(k)
             \/ EvictToken(k)
      PROVE  AsRead(q)'
  <2>1. CASE k = KeyOf(q)
    <3>1. tokenVer'[KeyOf(q)] = tokenVer[KeyOf(q)] + 1
      BY <1>4, <2>1, TokenWritten
    <3> QED
      BY <1>2, <1>3, <1>4, <3>1
  <2>2. CASE k # KeyOf(q)
    <3>1. token'[KeyOf(q)] = token[KeyOf(q)] /\ tokenVer'[KeyOf(q)] = tokenVer[KeyOf(q)]
      BY <1>2, <1>4, <2>2, TokenWritten
    <3> QED
      BY <1>2, <1>4, <3>1
  <2> QED
    BY <2>1, <2>2
<1>5. ASSUME NEW r \in Request, BufferKept(r)
      PROVE  AsRead(q)'
  <2>1. pc[q] \in Reading /\ buf' = buf
    BY <1>5, Moves
  <2>2. CASE CommitToken(r)
    BY <1>1, <1>4, <2>1, <2>2, ArgTypes
  <2>3. CASE ~CommitToken(r)
    BY <1>1, <1>2, <1>5, <2>1, <2>3, TokenUntouched
  <2> QED
    BY <2>2, <2>3
<1>6. ASSUME NEW r \in Request, LoadWallet(r)
      PROVE  AsRead(q)'
  <2>1. q # r
    BY <1>6, Moves
  <2> QED
    BY <1>1, <1>2, <1>6, <2>1, Moves, TokenUntouched
<1>7. ASSUME NEW r \in Request, LoadToken(r)
      PROVE  AsRead(q)'
  <2>1. CASE q = r
    <3>1. pc'[r] = "charge"
      BY <1>7, <2>1, Moves
    <3>2. CanProcess(token[KeyOf(r)])
      BY <1>7, <3>1 DEF LoadToken, Catch, Goto, TypeOK
    <3>3. buf'[r].tokenVer = tokenVer[KeyOf(r)]
      BY <1>7 DEF LoadToken, TypeOK, Buffer
    <3> QED
      BY <1>2, <1>3, <1>7, <2>1, <3>2, <3>3, TokenUntouched DEF CanProcess
  <2>2. CASE q # r
    BY <1>1, <1>2, <1>7, <2>2, Moves, TokenUntouched
  <2> QED
    BY <2>1, <2>2
<1>8. ASSUME NEW r \in Request, Charge(r)
      PROVE  AsRead(q)'
  <2>1. CASE q = r
    <3>1. buf'[r].tokenVer = buf[r].tokenVer
      BY <1>8 DEF Charge, TypeOK, Buffer
    <3>2. pc[r] \in Reading
      BY <1>8 DEF Charge, At
    <3> QED
      BY <1>1, <1>2, <1>8, <2>1, <3>1, <3>2, TokenUntouched
  <2>2. CASE q # r
    BY <1>1, <1>2, <1>8, <2>2, Moves, TokenUntouched
  <2> QED
    BY <2>1, <2>2
<1>9. ASSUME NEW r \in Request, Rollback(r) \/ OwnerLost(r)
      PROVE  AsRead(q)'
  <2>1. q # r
    BY <1>9, Moves
  <2> QED
    BY <1>1, <1>2, <1>9, <2>1, Moves, TokenUntouched
<1>10. ASSUME NEW k \in Key, KeyStep(k)
       PROVE  AsRead(q)'
  <2>1. buf'[q] = buf[q] /\ AsRead(q)
    BY <1>1, <1>10, TokenUntouched
  <2>2. CASE EvictPayment(k)
    BY <1>2, <2>1, <2>2, TokenUntouched
  <2> QED
    BY <1>4, <1>10, <2>1, <2>2 DEF KeyStep
<1>11. CASE UNCHANGED vars
  BY <1>1, <1>2, <1>11 DEF vars, tokenVars, taskVars
<1> QED
  BY <1>5, <1>6, <1>7, <1>8, <1>9, <1>10, <1>11, Steps

\* PaymentFunction buffers only what Token.processing and Token.used give.
LEMMA NextTokenBuffered == TypeOK /\ TokenBuffered /\ [Next]_vars => TokenBuffered'
<1> DEFINE Committing == PastCharge \cup {"commitToken"}
           Buffered(q) == /\ pc[q] = "charge" => buf[q].token = "PROCESSING"
                          /\ pc[q] \in Committing => buf[q].token = "USED"
<1> SUFFICES ASSUME TypeOK, TokenBuffered, [Next]_vars, NEW q \in Request
             PROVE  Buffered(q)'
  BY DEF TokenBuffered
<1>1. Buffered(q)
  BY DEF TokenBuffered
<1> USE DEF PastCharge
<1>2. ASSUME NEW r \in Request, BufferKept(r)
      PROVE  Buffered(q)'
  <2>1. buf' = buf
    BY <1>2, Moves
  <2>2. /\ pc'[q] = "charge" => pc[q] = "charge"
        /\ pc'[q] \in Committing => pc[q] \in Committing
    BY <1>2, Moves
  <2> QED
    BY <1>1, <2>1, <2>2
<1>3. ASSUME NEW r \in Request, q # r,
             LoadWallet(r) \/ LoadToken(r) \/ Charge(r) \/ Rollback(r) \/ OwnerLost(r)
      PROVE  Buffered(q)'
  BY <1>1, <1>3, Moves
<1>4. ASSUME LoadWallet(q) \/ Rollback(q) \/ OwnerLost(q)
      PROVE  Buffered(q)'
  BY <1>4, Moves
<1>5. ASSUME LoadToken(q)
      PROVE  Buffered(q)'
  <2>1. pc'[q] \in {"charge", "rollback"}
    BY <1>5, Moves
  <2>2. ASSUME pc'[q] = "charge"
        PROVE  buf'[q].token = "PROCESSING"
    <3>1. CanProcess(token[KeyOf(q)])
      BY <1>5, <2>2 DEF LoadToken, Catch, Goto, TypeOK
    <3>2. buf' = [buf EXCEPT ![q].token = "PROCESSING",
                             ![q].tokenVer = tokenVer[KeyOf(q)]]
      BY <1>5, <3>1 DEF LoadToken
    <3> QED
      BY <3>2 DEF TypeOK, Buffer
  <2> QED
    BY <2>1, <2>2
<1>6. ASSUME Charge(q)
      PROVE  Buffered(q)'
  <2>1. pc'[q] \in {"prepareWallet", "rollback"} /\ pc[q] = "charge"
    BY <1>6, Moves DEF Charge, At
  <2>2. ASSUME pc'[q] = "prepareWallet"
        PROVE  buf'[q].token = "USED"
    <3>1. buf' = [buf EXCEPT ![q].token = Used(@), ![q].paymentVer = paymentVer[KeyOf(q)]]
      BY <1>6, <2>2 DEF Charge, Catch, Goto, TypeOK
    <3>2. buf'[q].token = Used(buf[q].token)
      BY <3>1 DEF TypeOK, Buffer
    <3> QED
      BY <1>1, <2>1, <3>2 DEF Used
  <2> QED
    BY <2>1, <2>2
<1>7. ASSUME NEW k \in Key, KeyStep(k)
      PROVE  Buffered(q)'
  BY <1>1, <1>7, TokenUntouched
<1>8. CASE UNCHANGED vars
  BY <1>1, <1>8 DEF vars, taskVars
<1> QED
  BY <1>2, <1>3, <1>4, <1>5, <1>6, <1>7, <1>8, Steps

\* The lock of a token and the version seen when it was taken stay until the commit or
\* the rollback.
LEMMA NextTokenHeld == TypeOK /\ TokenHeld /\ [Next]_vars => TokenHeld'
<1> DEFINE Holding == {"preparePayment", "commitWallet", "commitToken"}
<1> SUFFICES ASSUME TypeOK, TokenHeld, [Next]_vars,
                    NEW q \in Request, pc'[q] \in Holding
             PROVE  tokenLock'[KeyOf(q)] = q
  BY ArgFixed DEF TokenHeld
<1>1. pc[q] \in Holding => tokenLock[KeyOf(q)] = q
  BY DEF TokenHeld
<1>2. KeyOf(q) \in Key /\ q # NoRequest
  BY ArgTypes, GridAssumption
<1>3. ASSUME NEW r \in Request, BufferKept(r), ~PrepareToken(r), ~CommitToken(r)
      PROVE  tokenLock'[KeyOf(q)] = q
  <2>1. pc[q] \in Holding
    BY <1>3, Moves, CommitMoves
  <2> QED
    BY <1>1, <1>3, <2>1, TokenUntouched
<1>4. ASSUME NEW r \in Request, PrepareToken(r)
      PROVE  tokenLock'[KeyOf(q)] = q
  <2>1. /\ tokenLock[KeyOf(r)] = NoRequest
        /\ tokenLock' = [tokenLock EXCEPT ![KeyOf(r)] = r]
        /\ BufferKept(r)
    BY <1>4 DEF PrepareToken, BufferKept
  <2>2. CASE q = r
    BY <1>2, <2>1, <2>2 DEF TypeOK
  <2>3. CASE q # r
    <3>1. tokenLock[KeyOf(q)] = q
      BY <1>1, <2>1, <2>3, Moves
    <3>2. KeyOf(q) # KeyOf(r)
      BY <1>2, <2>1, <3>1
    <3> QED
      BY <1>2, <2>1, <3>1, <3>2 DEF TypeOK
  <2> QED
    BY <2>2, <2>3
<1>5. ASSUME NEW r \in Request, CommitToken(r)
      PROVE  tokenLock'[KeyOf(q)] = q
  <2>1. q # r /\ pc[q] \in Holding
    BY <1>5, Moves, CommitMoves
  <2>2. tokenLock[KeyOf(r)] = r
    BY <1>5, CommitMoves DEF TokenHeld
  <2>3. KeyOf(q) # KeyOf(r)
    BY <1>1, <2>1, <2>2
  <2> QED
    BY <1>1, <1>2, <1>5, <2>1, <2>3 DEF CommitToken, TypeOK
<1>6. ASSUME NEW r \in Request, LoadWallet(r) \/ LoadToken(r) \/ Charge(r)
      PROVE  tokenLock'[KeyOf(q)] = q
  <2>1. q # r
    BY <1>6, Moves
  <2> QED
    BY <1>1, <1>6, <2>1, Moves, TokenUntouched
<1>7. ASSUME NEW r \in Request, Rollback(r) \/ OwnerLost(r)
      PROVE  tokenLock'[KeyOf(q)] = q
  <2>1. q # r
    BY <1>7, Moves
  <2>2. tokenLock[KeyOf(q)] = q
    BY <1>1, <1>7, <2>1, Moves
  <2> QED
    BY <1>2, <1>7, <2>1, <2>2 DEF Rollback, OwnerLost, ReleaseLocks
<1>8. ASSUME NEW k \in Key, KeyStep(k)
      PROVE  tokenLock'[KeyOf(q)] = q
  BY <1>1, <1>8, TokenUntouched
<1>9. CASE UNCHANGED vars
  BY <1>1, <1>9 DEF vars, tokenVars
<1> QED
  BY <1>3, <1>4, <1>5, <1>6, <1>7, <1>8, <1>9, Steps

-----------------------------------------------------------------------------
(* A token is debited at most once per issue.                              *)

\* What is known of a token's books after a step that only adds to its cover.
LEMMA CoverGrows ==
  ASSUME TypeOK, NEW k \in Key,
         debited'[k] = debited[k], issued'[k] >= issued[k], torn' >= torn,
         issued'[k] \in Nat, torn' \in Nat
  PROVE  /\ debited[k] < issued[k] + torn => debited'[k] < issued'[k] + torn'
         /\ debited[k] <= issued[k] + torn => debited'[k] <= issued'[k] + torn'
<1>1. debited[k] \in Nat /\ issued[k] \in Nat /\ torn \in Nat
  BY DEF TypeOK
<1> QED
  BY <1>1

\* Only the commit of a wallet adds to what a token was debited; only a crash in
\* the middle of a commit adds to the torn ones.
LEMMA BooksMove ==
  ASSUME TypeOK, [Next]_vars, NEW k \in Key,
         ~\E r \in Request : CommitWallet(r) /\ KeyOf(r) = k
  PROVE  /\ debited'[k] = debited[k]
         /\ issued'[k] >= issued[k] /\ torn' >= torn
         /\ issued'[k] \in Nat /\ torn' \in Nat
<1>1. debited[k] \in Nat /\ issued[k] \in Nat /\ torn \in Nat
  BY DEF TypeOK
<1>2. ASSUME NEW r \in Request, CommitWallet(r)
      PROVE  UNCHANGED <<debited[k], issued, torn>>
  <2>1. KeyOf(r) # k
    BY <1>2
  <2> QED
    BY <1>2, <2>1, TokenUntouched DEF CommitWallet, TypeOK
<1>3. ASSUME NEW r \in Request,
             \/ BufferKept(r) /\ ~CommitWallet(r)
             \/ LoadWallet(r) \/ LoadToken(r) \/ Charge(r) \/ Rollback(r)
      PROVE  UNCHANGED <<debited, issued, torn>>
  BY <1>3, TokenUntouched
<1>4. ASSUME NEW r \in Request, OwnerLost(r)
      PROVE  UNCHANGED <<debited, issued>> /\ torn' >= torn /\ torn' \in Nat
  BY <1>1, <1>4 DEF OwnerLost
<1>5. ASSUME NEW j \in Key, KeyStep(j)
      PROVE  /\ UNCHANGED <<debited, torn>>
             /\ issued'[k] >= issued[k] /\ issued'[k] \in Nat
  BY <1>1, <1>5 DEF KeyStep, CreateToken, EvictToken, EvictPayment, historyVars,
     TypeOK
<1>6. CASE UNCHANGED vars
  BY <1>1, <1>6 DEF vars, historyVars
<1> QED
  BY <1>1, <1>2, <1>3, <1>4, <1>5, <1>6, Steps

\* Two payments cannot both be about to be charged for the same token.
LEMMA OneHolder ==
  ASSUME TokenHeld, NEW r \in Request, NEW q \in Request, KeyOf(q) = KeyOf(r),
         pc[r] \in {"preparePayment", "commitWallet", "commitToken"},
         pc[q] \in {"preparePayment", "commitWallet", "commitToken"}
  PROVE  q = r
  BY DEF TokenHeld

\* Whoever prepares a token gets the issue that covers its debit, and keeps it to
\* itself.
LEMMA NextHeldIsCovered ==
  TypeOK /\ TokenInv /\ [Next]_vars => HeldIsCovered'
<1> SUFFICES ASSUME TypeOK, TokenInv, [Next]_vars,
                    NEW q \in Request, pc'[q] \in {"preparePayment", "commitWallet"}
             PROVE  debited'[KeyOf(q)] < issued'[KeyOf(q)] + torn'
  BY ArgFixed DEF HeldIsCovered
<1> DEFINE k == KeyOf(q)
           Covered == debited[k] < issued[k] + torn
<1>1. k \in Key
  BY ArgTypes
<1>2. pc[q] \in {"preparePayment", "commitWallet"} => Covered
  BY DEF TokenInv, HeldIsCovered
<1>3. ASSUME Covered, ~\E r \in Request : CommitWallet(r) /\ KeyOf(r) = k
      PROVE  Covered'
  <2>1. k' = k
    BY ArgFixed
  <2> QED
    BY <1>1, <1>3, <2>1, BooksMove, CoverGrows
<1>4. ASSUME NEW r \in Request, PrepareToken(r), q = r
      PROVE  Covered'
  <2>1. tokenLock[k] = NoRequest /\ Unchanged(buf[q].tokenVer, tokenVer[k])
    BY <1>4 DEF PrepareToken, Catch, Goto, TypeOK
  <2>2. token[k] = "UNUSED"
    BY <1>4, <2>1 DEF PrepareToken, At, Unchanged, TokenInv, TokenAsRead
  <2>3. \A p \in Request : KeyOf(p) = k
          => pc[p] \notin {"preparePayment", "commitWallet", "commitToken"}
    BY <2>1, GridAssumption DEF TokenInv, TokenHeld
  <2>4. Covered
    BY <1>1, <2>2, <2>3 DEF TokenInv, UnusedIsCovered
  <2>5. ~\E p \in Request : CommitWallet(p) /\ KeyOf(p) = k
    BY <2>3, CommitMoves
  <2> QED
    BY <1>3, <2>4, <2>5
<1>5. ASSUME pc[q] \in {"preparePayment", "commitWallet"}
      PROVE  Covered'
  <2>1. ASSUME NEW r \in Request, CommitWallet(r), KeyOf(r) = k
        PROVE  FALSE
    <3>1. pc[r] = "commitWallet" /\ pc'[r] = "commitToken"
      BY <2>1, CommitMoves
    <3>2. q = r
      BY <1>5, <2>1, <3>1, OneHolder DEF TokenInv
    <3> QED
      BY <3>1, <3>2
  <2> QED
    BY <1>2, <1>3, <1>5, <2>1
<1>6. \/ pc[q] \in {"preparePayment", "commitWallet"}
      \/ PrepareToken(q)
  <2>1. ASSUME NEW r \in Request, BufferKept(r), q # r \/ ~PrepareToken(r)
        PROVE  pc[q] \in {"preparePayment", "commitWallet"}
    BY <2>1, Moves, CommitMoves
  <2>2. ASSUME NEW r \in Request, LoadWallet(r) \/ LoadToken(r) \/ Charge(r)
                                  \/ Rollback(r) \/ OwnerLost(r)
        PROVE  pc[q] \in {"preparePayment", "commitWallet"}
    BY <2>2, Moves
  <2>3. ASSUME NEW j \in Key, KeyStep(j)
        PROVE  pc[q] \in {"preparePayment", "commitWallet"}
    BY <2>3, TokenUntouched
  <2>4. CASE UNCHANGED vars
    BY <2>4 DEF vars
  <2> QED
    BY <2>1, <2>2, <2>3, <2>4, Steps
<1>7. Covered'
  BY <1>4, <1>5, <1>6
<1> QED
  BY <1>7, ArgFixed

\* Only createToken makes a token UNUSED, and it issues one more; a torn commit is
\* counted.
LEMMA NextUnusedIsCovered ==
  TypeOK /\ TokenInv /\ [Next]_vars => UnusedIsCovered'
<1> SUFFICES ASSUME TypeOK, TokenInv, [Next]_vars,
                    NEW k \in Key, token'[k] = "UNUSED",
                    \A q \in Request : KeyOf(q) = k => pc'[q] # "commitToken"
             PROVE  debited'[k] < issued'[k] + torn'
  BY ArgFixed DEF UnusedIsCovered
<1> DEFINE Covered == debited[k] < issued[k] + torn
           Writing(q) == KeyOf(q) = k /\ pc[q] = "commitToken"
<1>1. token[k] = "UNUSED" /\ (\A q \in Request : ~Writing(q)) => Covered
  BY DEF TokenInv, UnusedIsCovered
<1>2. ASSUME NEW r \in Request, CommitWallet(r)
      PROVE  KeyOf(r) # k
  BY <1>2, CommitMoves
<1>3. Covered => Covered'
  BY <1>2, BooksMove, CoverGrows
<1>4. ASSUME NEW r \in Request, BufferKept(r), ~CommitToken(r)
      PROVE  Covered'
  <2>1. token[k] = "UNUSED"
    BY <1>4, TokenUntouched
  <2>2. \A q \in Request : ~Writing(q)
    BY <1>4, Moves, CommitMoves
  <2> QED
    BY <1>1, <1>3, <2>1, <2>2
<1>5. ASSUME NEW r \in Request, CommitToken(r)
      PROVE  Covered'
  <2>1. buf[r].token = "USED"
    BY <1>5, CommitMoves DEF TokenInv, TokenBuffered
  <2>2. KeyOf(r) # k
    BY <1>5, <2>1 DEF CommitToken, TypeOK
  <2>3. token[k] = "UNUSED"
    BY <1>5, <2>2, TokenWritten, ArgTypes
  <2>4. \A q \in Request : ~Writing(q)
    BY <1>5, <2>2, Moves, CommitMoves
  <2> QED
    BY <1>1, <1>3, <2>3, <2>4
<1>6. ASSUME NEW r \in Request,
             LoadWallet(r) \/ LoadToken(r) \/ Charge(r) \/ Rollback(r)
      PROVE  Covered'
  <2>1. token[k] = "UNUSED"
    BY <1>6, TokenUntouched
  <2>2. \A q \in Request : ~Writing(q)
    BY <1>6, Moves, CommitMoves
  <2> QED
    BY <1>1, <1>3, <2>1, <2>2
<1>7. ASSUME NEW r \in Request, OwnerLost(r)
      PROVE  Covered'
  <2>1. token[k] = "UNUSED" /\ debited' = debited /\ issued' = issued
    BY <1>7, TokenUntouched
  <2>2. CASE pc[r] = "commitToken"
    <3>1. torn' = torn + 1
      BY <1>7, <2>2 DEF OwnerLost, At
    <3>2. debited[k] <= issued[k] + torn
      BY DEF TokenInv, ChargedOncePerIssue
    <3>3. debited[k] \in Nat /\ issued[k] \in Nat /\ torn \in Nat
      BY DEF TypeOK
    <3> QED
      BY <2>1, <3>1, <3>2, <3>3
  <2>3. CASE pc[r] # "commitToken"
    <3>1. \A q \in Request : ~Writing(q)
      BY <1>7, <2>3, Moves
    <3> QED
      BY <1>1, <1>3, <2>1, <3>1
  <2> QED
    BY <2>2, <2>3
<1>8. ASSUME NEW j \in Key, CreateToken(j)
      PROVE  Covered'
  <2>1. CASE j = k
    <3>1. issued'[k] = issued[k] + 1 /\ debited' = debited /\ torn' = torn
      BY <1>8, <2>1 DEF CreateToken, TypeOK
    <3>2. debited[k] <= issued[k] + torn
      BY DEF TokenInv, ChargedOncePerIssue
    <3>3. debited[k] \in Nat /\ issued[k] \in Nat /\ torn \in Nat
      BY DEF TypeOK
    <3> QED
      BY <3>1, <3>2, <3>3
  <2>2. CASE j # k
    <3>1. token[k] = "UNUSED" /\ pc' = pc
      BY <1>8, <2>2 DEF CreateToken, TypeOK
    <3> QED
      BY <1>1, <1>3, <3>1
  <2> QED
    BY <2>1, <2>2
<1>9. ASSUME NEW j \in Key, EvictToken(j)
      PROVE  Covered'
  <2>1. j # k
    BY <1>9 DEF EvictToken, Absent, TypeOK
  <2>2. token[k] = "UNUSED" /\ pc' = pc
    BY <1>9, <2>1 DEF EvictToken, TypeOK
  <2> QED
    BY <1>1, <1>3, <2>2
<1>10. ASSUME NEW j \in Key, EvictPayment(j)
       PROVE  Covered'
  <2>1. token[k] = "UNUSED" /\ pc' = pc
    BY <1>10, TokenUntouched DEF EvictPayment, tokenVars
  <2> QED
    BY <1>1, <1>3, <2>1
<1>11. CASE UNCHANGED vars
  BY <1>1, <1>3, <1>11 DEF vars, tokenVars
<1>12. Covered'
  BY <1>4, <1>5, <1>6, <1>7, <1>8, <1>9, <1>10, <1>11, Steps DEF KeyStep
<1> QED
  BY <1>12

\* The only debit, that of CommitWallet, is covered by an issue.
LEMMA NextChargedOncePerIssue ==
  TypeOK /\ TokenInv /\ [Next]_vars => ChargedOncePerIssue'
<1> SUFFICES ASSUME TypeOK, TokenInv, [Next]_vars, NEW k \in Key
             PROVE  debited'[k] <= issued'[k] + torn'
  BY DEF ChargedOncePerIssue
<1>1. CASE \E r \in Request : CommitWallet(r) /\ KeyOf(r) = k
  <2> PICK r \in Request : CommitWallet(r) /\ KeyOf(r) = k
    BY <1>1
  <2>1. debited[k] < issued[k] + torn
    BY CommitMoves DEF TokenInv, HeldIsCovered
  <2>2. debited'[k] = debited[k] + 1 /\ issued' = issued /\ torn' = torn
    BY DEF CommitWallet, TypeOK
  <2>3. debited[k] \in Nat /\ issued[k] \in Nat /\ torn \in Nat
    BY DEF TypeOK
  <2> QED
    BY <2>1, <2>2, <2>3
<1>2. CASE ~\E r \in Request : CommitWallet(r) /\ KeyOf(r) = k
  BY <1>2, BooksMove, CoverGrows DEF TokenInv, ChargedOncePerIssue
<1> QED
  BY <1>1, <1>2

\* What is needed of the tokens holds at first.
LEMMA InitTokenInv == Init => TypeOK /\ Afforded /\ TokenInv
<1> SUFFICES ASSUME Init PROVE TypeOK /\ Afforded /\ TokenInv
  OBVIOUS
<1>1. TypeOK
  BY InitTypeOK
<1>2. \A r \in Request : pc[r] = "idle"
  BY DEF Init
<1>3. ChargedOncePerIssue
  BY DEF Init, ChargedOncePerIssue
<1>4. UnusedIsCovered
  BY DEF Init, UnusedIsCovered, Absent
<1> QED
  BY <1>1, <1>2, <1>3, <1>4
  DEF Afforded, TokenInv, TokenAsRead, TokenBuffered, TokenHeld, HeldIsCovered,
      PastCharge

\* And every step keeps it.
LEMMA NextTokenInv ==
  (TypeOK /\ Afforded /\ TokenInv) /\ [Next]_vars => (TypeOK /\ Afforded /\ TokenInv)'
<1> SUFFICES ASSUME TypeOK, Afforded, TokenInv, [Next]_vars
             PROVE  TypeOK' /\ Afforded' /\ TokenInv'
  OBVIOUS
<1>1. TypeOK' /\ Afforded'
  BY NextTypeOK, NextAfforded
<1>2. TokenAsRead' /\ TokenBuffered' /\ TokenHeld'
  BY NextTokenAsRead, NextTokenBuffered, NextTokenHeld DEF TokenInv
<1>3. HeldIsCovered' /\ UnusedIsCovered' /\ ChargedOncePerIssue'
  BY NextHeldIsCovered, NextUnusedIsCovered, NextChargedOncePerIssue
<1> QED
  BY <1>1, <1>2, <1>3 DEF TokenInv

\* Whatever the number of requests for a token, their interleaving, retries and
\* re-executions, and whatever is evicted, wallets are debited for it at most as
\* often as it was issued, but for the commits that a crash tears.
THEOREM ChargedOnce == Spec => []ChargedOncePerIssue
<1>1. TypeOK /\ Afforded /\ TokenInv => ChargedOncePerIssue
  BY DEF TokenInv
<1> QED
  BY <1>1, InitTokenInv, NextTokenInv, PTL DEF Spec
=============================================================================
