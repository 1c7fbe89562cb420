---------------------- MODULE GridCompositions_proofs -----------------------
(***************************************************************************)
(* Proofs about what GridPayment is part of, for every set of shoppers,    *)
(* tokens and requests: payments while the caches are cleared and filled   *)
(* again (GridInit), and payments with the events and the points that they *)
(* are given (GridPoints).  The steps of the payment are those of          *)
(* GridPayment, whose lemmas are used for them.                            *)
(***************************************************************************)
EXTENDS GridInit, GridPoints, GridLedger_proofs, SequenceTheorems

Pipeline == INSTANCE PointPipeline_proofs

-----------------------------------------------------------------------------
(* Payments while the caches are cleared and filled.                       *)

\* The types of what GridInit adds.
InitTypes ==
  /\ hasUser \subseteq Shopper /\ hasWallet \subseteq Shopper
  /\ userSent \subseteq Shopper /\ walletSent \subseteq Shopper
  /\ refill \in [Shopper -> [spent : Nat, topUp : Nat]]

\* The books of a wallet since it was filled last, and while it is cleared.
Books(s) ==
  balance[s] + (spent[s] - refill[s].spent) = InitBalance[s] + (topUp[s] - refill[s].topUp)

\* WalletHeld is lost here: clear() changes the versions of wallets that are locked.
\* What is left of it is BalanceHeld.
RefillInv ==
  /\ TypeOK /\ InitTypes
  /\ Afforded /\ WalletAsRead /\ BalanceHeld
  /\ \A s \in Shopper : Books(s)

-----------------------------------------------------------------------------
(* The steps.                                                              *)

\* A payment that goes on, or fails, by what the caches hold now.
Rerouted(r) ==
  /\ \/ pc[r] = "stream" /\ (Goto(r, "begin") \/ Goto(r, "load"))
     \/ pc[r] = "begin" /\ Goto(r, "wallet")
     \/ pc[r] \in {"begin", "wallet"} /\ Goto(r, "rollback")
  /\ causes' \in {causes, [causes EXCEPT ![r] = @ \cup {"shopper"}]}
  /\ UNCHANGED <<walletVars, tokenVars, paymentVars, arg, try, buf, reply, faults,
                 historyVars>>

\* What initialize does to wallets, tokens and payments.
Cleared ==
  ClearPayment \/ ClearToken \/ ClearWallet \/ \E s \in Shopper : WalletArrives(s)

\* Every step is one of GridPayment's, a payment that is routed anew, or a write of
\* initialize to what payments work on.
LEMMA StepsI ==
  ASSUME [NextI]_allVars
  PROVE  \/ [Next]_vars /\ UNCHANGED refill
         \/ (\E r \in Request : Rerouted(r)) /\ UNCHANGED initVars
         \/ Cleared
<1> USE DEF initVars, At, Catch
<1>1. ASSUME NEW r \in Request, ServeI(r)
      PROVE  \/ Next /\ UNCHANGED refill
             \/ Rerouted(r) /\ UNCHANGED initVars
  <2>1. ASSUME DispatchI(r) \/ BeginI(r) PROVE Rerouted(r) /\ UNCHANGED initVars
    BY <2>1 DEF DispatchI, BeginI, Rerouted, taskVars
  <2>2. ASSUME LoadWalletI(r), WalletMissing(r)
        PROVE  Rerouted(r) /\ UNCHANGED initVars
    BY <2>2 DEF LoadWalletI, Rerouted
  <2>3. ASSUME LoadWalletI(r), ~WalletMissing(r) PROVE LoadWallet(r) /\ UNCHANGED initVars
    BY <2>3 DEF LoadWalletI
  <2>4. ASSUME CommitWalletI(r) PROVE CommitWallet(r) /\ UNCHANGED refill
    BY <2>4 DEF CommitWalletI
  <2>5. Serve(r) => Next
    BY DEF Next
  <2> QED
    BY <1>1, <2>1, <2>2, <2>3, <2>4, <2>5 DEF ServeI, Serve
<1>2. ASSUME Initialize
      PROVE  Cleared \/ (UNCHANGED vars /\ UNCHANGED refill)
  BY <1>2 DEF Initialize, Cleared, ClearUser, PutAll, UserArrives
<1>3. CASE UNCHANGED allVars
  BY <1>3 DEF allVars
<1> QED
  BY <1>1, <1>2, <1>3 DEF NextI, Next, Disturb

\* What clear() and the entries that arrive leave alone, and that they move on the
\* version of every wallet they write.
LEMMA ClearedKeeps ==
  ASSUME TypeOK, InitTypes, Cleared
  PROVE  /\ UNCHANGED <<pc, arg, buf, walletLock, spent, topUp, try, causes, reply,
                        tokenLock, paymentLock, faults, issued, debited, charged, torn>>
         /\ \A s \in Shopper :
              \/ /\ walletVer'[s] \in {walletVer[s], walletVer[s] + 1}
                 /\ balance'[s] = balance[s] /\ refill'[s] = refill[s]
              \/ /\ walletVer'[s] = walletVer[s] + 1
                 /\ walletLock[s] = NoRequest
                 /\ balance'[s] = InitBalance[s]
                 /\ refill'[s] = [spent |-> spent[s], topUp |-> topUp[s]]
         /\ walletVer' \in [Shopper -> Nat] /\ balance' \in [Shopper -> Money]
         /\ refill' \in [Shopper -> [spent : Nat, topUp : Nat]]
         /\ \/ UNCHANGED <<token, tokenVer>>
            \/ /\ token' = [k \in Key |-> Absent]
               /\ tokenVer' = [k \in Key |-> tokenVer[k] + 1]
         /\ payment' \in [Key -> Request \cup {NoRequest}]
         /\ paymentVer' \in [Key -> Nat]
<1> USE DEF TypeOK, InitTypes, walletVars, tokenVars, paymentVars, taskVars, historyVars,
            initVars
<1>1. CASE ClearPayment
  BY <1>1 DEF ClearPayment
<1>2. CASE ClearToken
  BY <1>2 DEF ClearToken
<1>3. CASE ClearWallet
  BY <1>3 DEF ClearWallet
<1>4. ASSUME NEW s \in Shopper, WalletArrives(s)
      PROVE  /\ \A x \in Shopper \ {s} :
                  walletVer'[x] = walletVer[x] /\ balance'[x] = balance[x]
                    /\ refill'[x] = refill[x]
             /\ walletVer'[s] = walletVer[s] + 1 /\ walletLock[s] = NoRequest
             /\ balance'[s] = InitBalance[s]
             /\ refill'[s] = [spent |-> spent[s], topUp |-> topUp[s]]
             /\ walletVer' \in [Shopper -> Nat] /\ balance' \in [Shopper -> Money]
             /\ refill' \in [Shopper -> [spent : Nat, topUp : Nat]]
  <2>1. /\ walletLock[s] = NoRequest
        /\ balance' = [balance EXCEPT ![s] = InitBalance[s]]
        /\ walletVer' = [walletVer EXCEPT ![s] = @ + 1]
        /\ refill' = [refill EXCEPT ![s] = [spent |-> spent[s], topUp |-> topUp[s]]]
    BY <1>4 DEF WalletArrives, Unlocked
  <2>2. /\ InitBalance[s] \in Money
        /\ [spent |-> spent[s], topUp |-> topUp[s]] \in [spent : Nat, topUp : Nat]
    BY GridAssumption
  <2>3. refill' \in [Shopper -> [spent : Nat, topUp : Nat]]
    BY <2>1, <2>2
  <2> QED
    BY <2>1, <2>2, <2>3
<1>5. ASSUME NEW s \in Shopper, WalletArrives(s)
      PROVE  /\ UNCHANGED <<pc, arg, buf, walletLock, spent, topUp, try, causes, reply,
                            tokenLock, paymentLock, faults, issued, debited, charged, torn>>
             /\ UNCHANGED <<token, tokenVer, payment, paymentVer>>
  BY <1>5 DEF WalletArrives
<1> QED
  BY <1>1, <1>2, <1>3, <1>4, <1>5 DEF Cleared

-----------------------------------------------------------------------------
(* The invariant.                                                          *)

\* The initial states satisfy it.
LEMMA InitRefill == InitI => RefillInv
<1> SUFFICES ASSUME InitI PROVE RefillInv
  OBVIOUS
<1>1. WalletInv
  BY InitWalletInv DEF InitI
<1>2. InitTypes
  BY GridAssumption DEF InitI, InitTypes
<1>3. BalanceHeld
  BY DEF InitI, Init, BalanceHeld, PastCharge
<1>4. ASSUME NEW s \in Shopper PROVE Books(s)
  BY GridAssumption, MaxIntAssumption DEF InitI, Init, Books, Money
<1> QED
  BY <1>1, <1>2, <1>3, <1>4 DEF WalletInv, RefillInv

\* A request that is routed anew holds no wallet, and its types are right.
LEMMA ReroutedKeeps ==
  ASSUME TypeOK, NEW r \in Request, Rerouted(r)
  PROVE  /\ TypeOK'
         /\ \A q \in Request : pc'[q] = pc[q] \/ pc'[q] \in {"begin", "load", "wallet", "rollback"}
<1>1. /\ {"begin", "load", "wallet", "rollback"} \subseteq Label
      /\ "shopper" \in Cause
  BY DEF Label, Cause
<1>2. pc' \in [Request -> Label] /\ causes' \in [Request -> SUBSET Cause]
  BY <1>1 DEF Rerouted, Goto, TypeOK
<1> QED
  BY <1>2 DEF Rerouted, Goto, TypeOK, walletVars, tokenVars, paymentVars, historyVars

\* Types, and that what commits can be paid.
LEMMA NextTypesI == RefillInv /\ [NextI]_allVars => TypeOK' /\ Afforded'
<1> SUFFICES ASSUME RefillInv, [NextI]_allVars PROVE TypeOK' /\ Afforded'
  OBVIOUS
<1>1. CASE [Next]_vars
  BY <1>1, NextTypeOK, NextAfforded DEF RefillInv
<1>2. ASSUME NEW r \in Request, Rerouted(r) PROVE TypeOK' /\ Afforded'
  <2>1. TypeOK'
    BY <1>2, ReroutedKeeps DEF RefillInv
  <2>2. Afforded'
    BY <1>2, ReroutedKeeps
    DEF RefillInv, Rerouted, Afforded, PastCharge, Payer, KeyOf, AmountOf
  <2> QED
    BY <2>1, <2>2
<1>3. CASE Cleared
  <2>1. token' \in [Key -> Status] /\ tokenVer' \in [Key -> Nat]
    BY <1>3, ClearedKeeps DEF RefillInv, TypeOK, Status
  <2>2. TypeOK'
    BY <1>3, <2>1, ClearedKeeps DEF RefillInv, TypeOK
  <2>3. Afforded'
    BY <1>3, ClearedKeeps DEF RefillInv, Afforded, Payer, KeyOf, AmountOf
  <2> QED
    BY <2>2, <2>3
<1> QED
  BY <1>1, <1>2, <1>3, StepsI

\* What initialize keeps of its own.
LEMMA NextInitTypes == RefillInv /\ [NextI]_allVars => InitTypes'
<1> SUFFICES ASSUME RefillInv, [NextI]_allVars PROVE InitTypes'
  OBVIOUS
<1> USE DEF RefillInv, initVars
<1>1. refill' \in [Shopper -> [spent : Nat, topUp : Nat]]
  BY StepsI, ClearedKeeps DEF InitTypes
<1>2. ASSUME NEW r \in Request, ServeI(r)
      PROVE  hasWallet' \subseteq Shopper /\ UNCHANGED <<hasUser, userSent, walletSent>>
  BY <1>2, ArgTypes DEF ServeI, DispatchI, BeginI, LoadWalletI, CommitWalletI, InitTypes
<1>3. ASSUME Initialize
      PROVE  /\ hasUser' \subseteq Shopper /\ hasWallet' \subseteq Shopper
             /\ userSent' \subseteq Shopper /\ walletSent' \subseteq Shopper
  BY <1>3, GridAssumption DEF Initialize, ClearPayment, ClearUser, ClearToken,
     ClearWallet, PutAll, Marshalled, UserArrives, WalletArrives, InitTypes
<1>4. CASE UNCHANGED allVars
  BY <1>4 DEF allVars, InitTypes
<1> QED
  BY <1>1, <1>2, <1>3, <1>4 DEF NextI, InitTypes

\* A wallet that is written while it is locked is not the one that was read any more,
\* as far as its version tells.
LEMMA NextWalletAsReadI == RefillInv /\ [NextI]_allVars => WalletAsRead'
<1> SUFFICES ASSUME RefillInv, [NextI]_allVars PROVE WalletAsRead'
  OBVIOUS
<1> USE DEF RefillInv
<1>1. CASE [Next]_vars
  BY <1>1, NextWalletAsRead
<1>2. ASSUME NEW r \in Request, Rerouted(r) PROVE WalletAsRead'
  BY <1>2, ReroutedKeeps
  DEF Rerouted, WalletAsRead, PastCharge, Payer, KeyOf, walletVars
<1>3. CASE Cleared
  <2> SUFFICES ASSUME NEW q \in Request, pc[q] \in {"token", "charge"} \cup PastCharge
               PROVE  /\ buf[q].walletVer <= walletVer'[Payer(q)]
                      /\ buf[q].walletVer = walletVer'[Payer(q)]
                           => buf[q].balance = balance'[Payer(q)]
    BY <1>3, ClearedKeeps DEF WalletAsRead, Payer, KeyOf
  <2>1. Payer(q) \in Shopper /\ buf[q].walletVer \in Nat /\ walletVer[Payer(q)] \in Nat
    BY ArgTypes DEF TypeOK, Buffer
  <2>2. /\ buf[q].walletVer <= walletVer[Payer(q)]
        /\ buf[q].walletVer = walletVer[Payer(q)] => buf[q].balance = balance[Payer(q)]
    BY DEF WalletAsRead
  <2> QED
    BY <1>3, <2>1, <2>2, ClearedKeeps
<1> QED
  BY <1>1, <1>2, <1>3, StepsI

\* While a wallet is locked nobody else commits it, and what initialize put waits.
LEMMA NextBalanceHeld == RefillInv /\ [NextI]_allVars => BalanceHeld'
<1> DEFINE Holding == PastCharge \ {"prepareWallet"}
           Held(q) == walletLock[Payer(q)] = q /\ buf[q].balance = balance[Payer(q)]
<1> SUFFICES ASSUME RefillInv, [NextI]_allVars,
                    NEW q \in Request, pc'[q] \in Holding
             PROVE  walletLock'[Payer(q)'] = q /\ buf'[q].balance = balance'[Payer(q)']
  BY DEF BalanceHeld
<1> USE DEF RefillInv, PastCharge
<1>1. /\ pc[q] \in Holding => Held(q)
      /\ Payer(q) \in Shopper /\ q # NoRequest
  BY ArgTypes, GridAssumption DEF BalanceHeld
<1>2. CASE [Next]_vars
  <2>0. Payer(q)' = Payer(q)
    BY <1>2, ArgFixed
  <2>1. ASSUME NEW r \in Request, BufferKept(r), ~CommitWallet(r), ~PrepareWallet(r)
        PROVE  Held(q)'
    <3>1. pc'[q] # "prepareToken" \/ q # r
      BY <2>1, Moves DEF BufferKept, Submit, Dispatch, Begin, PrepareToken,
         PreparePayment, CommitToken, CommitPayment, LoadPayment, Notify,
         LockTimeout, NotifyOverflow, Goto, Catch, Answer, TypeOK
    <3>2. pc[q] \in Holding /\ buf' = buf
      BY <2>1, <3>1, Moves
    <3> QED
      BY <1>1, <2>0, <2>1, <3>2, WalletUntouched
  <2>2. ASSUME NEW r \in Request, PrepareWallet(r)
        PROVE  Held(q)'
    <3>1. BufferKept(r) /\ ~CommitWallet(r)
      BY <2>2 DEF BufferKept, PrepareWallet, CommitWallet, At
    <3>2. buf' = buf /\ UNCHANGED balance
      BY <3>1, Moves, WalletUntouched
    <3>3. CASE q = r
      <4>1. walletLock'[Payer(r)] = r
        BY <1>1, <2>2, <3>3 DEF PrepareWallet, TypeOK
      <4>2. pc[r] = "prepareWallet" /\ buf[r].walletVer = walletVer[Payer(r)]
        BY <2>2, <3>3 DEF PrepareWallet, Unchanged, Catch, Goto, At, TypeOK
      <4>3. buf[r].balance = balance[Payer(r)]
        BY <4>2 DEF WalletAsRead
      <4> QED
        BY <2>0, <3>2, <3>3, <4>1, <4>3
    <3>4. CASE q # r
      <4>1. Held(q)
        BY <1>1, <3>1, <3>4, Moves
      <4>2. Payer(q) # Payer(r)
        BY <1>1, <2>2, <4>1 DEF PrepareWallet
      <4> QED
        BY <1>1, <2>0, <2>2, <3>2, <4>1, <4>2 DEF PrepareWallet, TypeOK
    <3> QED
      BY <3>3, <3>4
  <2>3. ASSUME NEW r \in Request, CommitWallet(r)
        PROVE  Held(q)'
    <3>1. BufferKept(r) /\ pc'[r] = "commitToken"
      BY <2>3 DEF CommitWallet, BufferKept, Goto, TypeOK
    <3>2. q # r /\ Held(q) /\ buf' = buf
      BY <1>1, <3>1, Moves
    <3>3. walletLock[Payer(r)] = r
      BY <2>3 DEF CommitWallet, At, BalanceHeld
    <3>4. Payer(q) # Payer(r)
      BY <3>2, <3>3
    <3>5. /\ walletLock'[Payer(q)] = walletLock[Payer(q)]
          /\ balance'[Payer(q)] = balance[Payer(q)]
      BY <1>1, <2>3, <3>4 DEF CommitWallet, TypeOK
    <3> QED
      BY <2>0, <3>2, <3>5
  <2>4. ASSUME NEW r \in Request, LoadWallet(r) \/ LoadToken(r) \/ Charge(r)
        PROVE  Held(q)'
    <3>1. q # r
      BY <2>4, Moves
    <3> QED
      BY <1>1, <2>0, <2>4, <3>1, Moves, WalletUntouched
  <2>5. ASSUME NEW r \in Request, Rollback(r) \/ OwnerLost(r)
        PROVE  Held(q)'
    <3>1. q # r
      BY <2>5, Moves
    <3>2. walletLock[Payer(q)] = q => walletLock'[Payer(q)] = q
      BY <1>1, <2>5, <3>1 DEF Rollback, OwnerLost, ReleaseLocks
    <3> QED
      BY <1>1, <2>0, <2>5, <3>1, <3>2, Moves, WalletUntouched
  <2>6. ASSUME NEW k \in Key, KeyStep(k)
        PROVE  Held(q)'
    BY <1>1, <2>0, <2>6, WalletUntouched
  <2>7. CASE UNCHANGED vars
    BY <1>1, <2>0, <2>7 DEF vars, walletVars, taskVars
  <2> QED
    BY <1>2, <2>1, <2>2, <2>3, <2>4, <2>5, <2>6, <2>7, Steps
<1>3. ASSUME NEW r \in Request, Rerouted(r)
      PROVE  Held(q) /\ UNCHANGED <<arg, buf, balance, walletLock>>
  BY <1>1, <1>3, ReroutedKeeps DEF Rerouted, walletVars
<1>4. CASE Cleared
  <2>1. Held(q) /\ UNCHANGED <<arg, buf, walletLock>>
    BY <1>1, <1>4, ClearedKeeps
  <2>2. balance'[Payer(q)] = balance[Payer(q)]
    BY <1>1, <1>4, <2>1, ClearedKeeps
  <2> QED
    BY <2>1, <2>2 DEF Payer, KeyOf
<1> QED
  BY <1>2, <1>3, <1>4, StepsI DEF Payer, KeyOf

\* A debit is booked against the wallet that was read, and a wallet that is filled
\* starts its books anew.
LEMMA NextBooks ==
  ASSUME RefillInv, [NextI]_allVars, NEW s \in Shopper
  PROVE  Books(s)'
<1> USE DEF RefillInv
<1>1. /\ Books(s) /\ balance[s] \in Money /\ InitBalance[s] \in Money
      /\ spent[s] \in Nat /\ topUp[s] \in Nat
      /\ refill[s].spent \in Nat /\ refill[s].topUp \in Nat
      /\ Money \subseteq Int
  BY GridAssumption, MaxIntAssumption DEF TypeOK, InitTypes, Money
<1>2. ASSUME UNCHANGED <<balance, spent, topUp, refill>> PROVE Books(s)'
  BY <1>1, <1>2 DEF Books
<1>3. CASE [Next]_vars /\ UNCHANGED refill
  <2>1. ASSUME NEW r \in Request, CommitWallet(r) PROVE Books(s)'
    <3>1. CASE s # Payer(r)
      BY <1>1, <1>3, <2>1, <3>1 DEF CommitWallet, TypeOK, Books
    <3>2. CASE s = Payer(r)
      <4> DEFINE added == Charges(balance[s], AutoCharge[s], AmountOf(r)) * AutoCharge[s]
                 left == Left(balance[s], AutoCharge[s], AmountOf(r))
      <4>1. buf[r].balance = balance[s]
        BY <2>1, <3>2 DEF CommitWallet, At, BalanceHeld, PastCharge
      <4>2. /\ AutoCharge[s] \in Money /\ AmountOf(r) \in Money
            /\ Payable(balance[s], AutoCharge[s], AmountOf(r))
        BY <2>1, <3>2, <4>1, ArgTypes DEF CommitWallet, At, Afforded, PastCharge
      <4>3. left + AmountOf(r) = balance[s] + added /\ left \in Money /\ added \in Nat
        BY <1>1, <4>2, LeftIsMoney, ChargesNat
      <4>4. /\ balance' = [balance EXCEPT ![s] = left]
            /\ spent' = [spent EXCEPT ![s] = @ + AmountOf(r)]
            /\ topUp' = [topUp EXCEPT ![s] = @ + added]
        BY <2>1, <3>2, <4>1 DEF CommitWallet
      <4> HIDE DEF added, left
      <4>5. /\ balance'[s] = left
            /\ spent'[s] = spent[s] + AmountOf(r)
            /\ topUp'[s] = topUp[s] + added
        BY <4>4 DEF TypeOK
      <4>6. /\ left \in Int /\ AmountOf(r) \in Int /\ balance[s] \in Int
            /\ InitBalance[s] \in Int
        BY <1>1, <4>2, <4>3
      <4>7. left + ((spent[s] + AmountOf(r)) - refill[s].spent)
              = InitBalance[s] + ((topUp[s] + added) - refill[s].topUp)
        <5> DEFINE bill == AmountOf(r)
                   old == balance[s]
                   filled == InitBalance[s]
                   debits == spent[s]
                   charges == topUp[s]
                   debitsThen == refill[s].spent
                   chargesThen == refill[s].topUp
        <5>1. /\ left \in Int /\ bill \in Int /\ old \in Int /\ added \in Int
              /\ filled \in Int /\ debits \in Int /\ charges \in Int
              /\ debitsThen \in Int /\ chargesThen \in Int
          BY <1>1, <4>3, <4>6
        <5>2. /\ left + bill = old + added
              /\ old + (debits - debitsThen) = filled + (charges - chargesThen)
          BY <1>1, <4>3 DEF Books
        <5> HIDE DEF bill, old, filled, debits, charges, debitsThen, chargesThen
        <5>3. left + ((debits + bill) - debitsThen)
                = filled + ((charges + added) - chargesThen)
          BY <5>1, <5>2
        <5> QED
          BY <5>3 DEF bill, old, filled, debits, charges, debitsThen, chargesThen
      <4>8. refill'[s] = refill[s]
        BY <1>3
      <4> QED
        BY <4>5, <4>7, <4>8, Zenon DEF Books
    <3> QED
      BY <3>1, <3>2
  <2>2. ASSUME NEW r \in Request,
               \/ BufferKept(r) /\ ~CommitWallet(r)
               \/ LoadWallet(r) \/ LoadToken(r) \/ Charge(r)
               \/ Rollback(r) \/ OwnerLost(r)
        PROVE  UNCHANGED <<balance, spent, topUp>>
    BY <2>2, WalletUntouched
  <2>3. ASSUME NEW k \in Key, KeyStep(k)
        PROVE  UNCHANGED <<balance, spent, topUp>>
    BY <2>3 DEF KeyStep, CreateToken, EvictToken, EvictPayment, walletVars, historyVars
  <2>4. CASE UNCHANGED vars
    BY <1>2, <1>3, <2>4 DEF vars, walletVars, historyVars
  <2> QED
    BY <1>2, <1>3, <2>1, <2>2, <2>3, <2>4, Steps
<1>4. ASSUME NEW r \in Request, Rerouted(r), UNCHANGED initVars PROVE Books(s)'
  BY <1>2, <1>4 DEF Rerouted, walletVars, historyVars, initVars
<1>5. CASE Cleared
  BY <1>1, <1>5, ClearedKeeps DEF Books
<1> QED
  BY <1>3, <1>4, <1>5, StepsI

\* Every step keeps the invariant.
LEMMA NextRefill == RefillInv /\ [NextI]_allVars => RefillInv'
<1> SUFFICES ASSUME RefillInv, [NextI]_allVars PROVE RefillInv'
  OBVIOUS
<1>1. \A s \in Shopper : Books(s)'
  BY NextBooks
<1> QED
  BY <1>1, NextTypesI, NextInitTypes, NextWalletAsReadI, NextBalanceHeld DEF RefillInv

\* No balance leaves its type while initialize runs against payments.
THEOREM TypeCorrectI == SpecI => [](TypeOK /\ InitTypes)
<1>1. RefillInv => TypeOK /\ InitTypes
  BY DEF RefillInv
<1> QED
  BY <1>1, InitRefill, NextRefill, PTL DEF SpecI

\* Whatever payments run while the caches are cleared and filled again, and whenever
\* the entries arrive: a wallet accounts for all that was debited since it was filled,
\* because the lock keeps the entry out until the transaction that read the wallet of
\* before has committed, and the version keeps out the one that locks it later.
THEOREM NoOldWalletWritten == SpecI => []RefillConserves
<1>1. RefillInv => RefillConserves
  BY DEF RefillInv, RefillConserves, Books
<1> QED
  BY <1>1, InitRefill, NextRefill, PTL DEF SpecI

-----------------------------------------------------------------------------
(* Tokens, which initialize clears as well.                                *)

\* Clearing the tokens moves on all their versions, so that no payment that read one
\* before takes it for UNUSED, and it covers no debit.
LEMMA NextTokenInvI == RefillInv /\ TokenInv /\ [NextI]_allVars => TokenInv'
<1> SUFFICES ASSUME RefillInv, TokenInv, [NextI]_allVars PROVE TokenInv'
  OBVIOUS
<1> USE DEF RefillInv, PastCharge
<1>1. CASE [Next]_vars
  BY <1>1, NextTokenInv
<1>2. ASSUME NEW r \in Request, Rerouted(r) PROVE TokenInv'
  <2>1. /\ \A q \in Request : pc'[q] = pc[q] \/ pc'[q] \in {"begin", "load", "wallet", "rollback"}
        /\ UNCHANGED <<arg, buf, token, tokenVer, tokenLock, issued, debited, torn>>
    BY <1>2, ReroutedKeeps DEF Rerouted, tokenVars, historyVars
  <2>2. \A q \in Request : KeyOf(q)' = KeyOf(q)
    BY <2>1 DEF KeyOf
  <2>3. TokenAsRead' /\ TokenBuffered' /\ TokenHeld'
    BY <2>1, <2>2 DEF TokenInv, TokenAsRead, TokenBuffered, TokenHeld
  <2>4. HeldIsCovered' /\ ChargedOncePerIssue'
    BY <2>1, <2>2 DEF TokenInv, HeldIsCovered, ChargedOncePerIssue
  <2>5. \A q \in Request : pc'[q] # "commitToken" => pc[q] # "commitToken"
    BY <1>2 DEF Rerouted, Goto, TypeOK
  <2>6. UnusedIsCovered'
    BY <2>1, <2>2, <2>5 DEF TokenInv, UnusedIsCovered
  <2> QED
    BY <2>3, <2>4, <2>6 DEF TokenInv
<1>3. CASE Cleared
  <2>1. /\ UNCHANGED <<pc, arg, buf, tokenLock, issued, debited, torn>>
        /\ \/ UNCHANGED <<token, tokenVer>>
           \/ /\ token' = [k \in Key |-> Absent]
              /\ tokenVer' = [k \in Key |-> tokenVer[k] + 1]
        /\ \A q \in Request : KeyOf(q)' = KeyOf(q) /\ KeyOf(q) \in Key
    BY <1>3, ClearedKeeps, ArgTypes DEF KeyOf
  <2>2. \A q \in Request : buf[q].tokenVer \in Nat /\ tokenVer[KeyOf(q)] \in Nat
    BY ArgTypes DEF TypeOK, Buffer
  <2>3. TokenAsRead'
    BY <2>1, <2>2 DEF TokenInv, TokenAsRead
  <2>4. TokenBuffered' /\ TokenHeld' /\ HeldIsCovered' /\ ChargedOncePerIssue'
    BY <2>1 DEF TokenInv, TokenBuffered, TokenHeld, HeldIsCovered, ChargedOncePerIssue
  <2>5. UnusedIsCovered'
    BY <2>1 DEF TokenInv, UnusedIsCovered, Absent
  <2> QED
    BY <2>3, <2>4, <2>5 DEF TokenInv
<1> QED
  BY <1>1, <1>2, <1>3, StepsI

\* No initialisation makes a token payable twice: although the cache of tokens is
\* emptied under payments that have read from it, wallets are debited for a token at
\* most as often as it was issued, but for the commits that a crash tears.
THEOREM ChargedOnceI == SpecI => []ChargedOncePerIssue
<1>1. InitI => RefillInv /\ TokenInv
  BY InitRefill, InitTokenInv DEF InitI
<1>2. RefillInv /\ TokenInv /\ [NextI]_allVars => (RefillInv /\ TokenInv)'
  BY NextRefill, NextTokenInvI
<1>3. RefillInv /\ TokenInv => ChargedOncePerIssue
  BY DEF TokenInv
<1> QED
  BY <1>1, <1>2, <1>3, PTL DEF SpecI

-----------------------------------------------------------------------------
(* What clients are told, and what keeps them waiting, meanwhile.          *)

\* A client is shown a payment only of its own token, and one that was made.
ReplyPaid(r) ==
  reply[r] \in Request => KeyOf(reply[r]) = KeyOf(r) /\ charged[reply[r]] >= 1

\* That is what is left of ReplyIsOwn while the caches are cleared: the reply may be the
\* payment of another request with the same token, as a request that finds no wallet is
\* answered with what is stored.
NoReplyForNothing == \A r \in Request : ReplyPaid(r)

MeanwhileInv ==
  /\ RefillInv /\ TokenInv
  /\ \A r \in Request : ReplyPaid(r) /\ (MidCommit(r) => charged[r] >= 1)
  /\ \A k \in Key : Booked(k)

\* What the steps of a payment keep of it,
LEMMA NextReplyPaid ==
  ASSUME MeanwhileInv, [Next]_vars, NEW q \in Request
  PROVE  ReplyPaid(q)' /\ (MidCommit(q) => charged[q] >= 1)'
<1> USE DEF MeanwhileInv, RefillInv
<1>1. /\ \A r \in Request : KeyOf(r)' = KeyOf(r) /\ charged[r] <= charged'[r]
      /\ KeyOf(q) \in Key /\ payment[KeyOf(q)] \in Request \cup {NoRequest}
      /\ charged \in [Request -> Nat] /\ charged' \in [Request -> Nat]
      /\ Error \notin Request
  BY GridAssumption, NextTypeOK, ArgFixed, ArgTypes, VersionsMove DEF TypeOK
<1>2. ASSUME reply'[q] = reply[q], reply'[q] \in Request PROVE ReplyPaid(q)'
  BY <1>1, <1>2 DEF ReplyPaid
<1>3. reply'[q] = reply[q] => ReplyPaid(q)'
  BY <1>2 DEF ReplyPaid
<1>4. ASSUME NEW r \in Request, Quiet(r)
      PROVE  ReplyPaid(q)' /\ (MidCommit(q)' => MidCommit(q))
  <2>1. MidCommit(q)' => MidCommit(q)
    BY <1>4 DEF Quiet, QuietMove, MidCommit, Before, PastCharge
  <2>2. reply'[q] \in {reply[q], Error, payment[KeyOf(q)]}
    BY <1>4 DEF Quiet, QuietMove
  <2>3. ASSUME reply'[q] = payment[KeyOf(q)], reply'[q] \in Request PROVE ReplyPaid(q)'
    <3>1. KeyOf(payment[KeyOf(q)]) = KeyOf(q) /\ charged[payment[KeyOf(q)]] >= 1
      BY <1>1, <2>3, GridAssumption DEF Booked
    <3> QED
      BY <1>1, <2>3, <3>1 DEF ReplyPaid
  <2>4. reply'[q] = Error => ReplyPaid(q)'
    BY <1>1 DEF ReplyPaid
  <2>5. reply'[q] = payment[KeyOf(q)] => ReplyPaid(q)'
    BY <2>3 DEF ReplyPaid
  <2> QED
    BY <1>3, <2>1, <2>2, <2>4, <2>5
<1>5. ASSUME NEW r \in Request, Writes(r)
      PROVE  ReplyPaid(q)' /\ (MidCommit(q) => charged[q] >= 1)'
  <2>1. reply' = reply
    BY <1>5, WalletCommitted, TokenCommitted, PaymentCommitted DEF Writes
  <2>2. CASE CommitWallet(r)
    BY <1>1, <1>3, <2>1, <2>2, WalletCommitted DEF MidCommit
  <2>3. CASE CommitToken(r) \/ CommitPayment(r)
    BY <1>1, <1>3, <2>1, <2>3, TokenCommitted, PaymentCommitted DEF MidCommit
  <2> QED
    BY <1>5, <2>2, <2>3 DEF Writes
<1>6. ASSUME NEW k \in Key, CreateToken(k) \/ EvictToken(k) \/ EvictPayment(k)
      PROVE  ReplyPaid(q)' /\ (MidCommit(q)' => MidCommit(q))
  BY <1>3, <1>6, KeyWritten DEF MidCommit
<1>7. CASE UNCHANGED vars
  BY <1>1, <1>3, <1>7 DEF vars, historyVars, MidCommit
<1>8. \/ \E r \in Request : Quiet(r) \/ Writes(r)
      \/ \E k \in Key : CreateToken(k) \/ EvictToken(k) \/ EvictPayment(k)
      \/ UNCHANGED vars
  BY QuietOrWrites
<1> QED
  BY <1>1, <1>4, <1>5, <1>6, <1>7, <1>8

\* and initialize with them.
LEMMA NextMeanwhile == MeanwhileInv /\ [NextI]_allVars => MeanwhileInv'
<1> SUFFICES ASSUME MeanwhileInv, [NextI]_allVars PROVE MeanwhileInv'
  OBVIOUS
<1> USE DEF MeanwhileInv
<1>1. RefillInv' /\ TokenInv' /\ TypeOK
  BY NextRefill, NextTokenInvI DEF RefillInv
<1>2. CASE [Next]_vars
  <2>1. \A k \in Key : Booked(k)'
    BY <1>1, <1>2, BookedStep
  <2> QED
    BY <1>1, <1>2, <2>1, NextReplyPaid
<1>3. ASSUME NEW r \in Request, Rerouted(r) PROVE MeanwhileInv'
  <2>1. /\ UNCHANGED <<token, payment, arg, reply, issued, debited, charged>>
        /\ \A q \in Request : MidCommit(q)' => MidCommit(q)
    BY <1>1, <1>3 DEF Rerouted, Goto, MidCommit, TypeOK, tokenVars, paymentVars, historyVars
  <2> QED
    BY <1>1, <2>1 DEF ReplyPaid, Booked, KeyOf
<1>4. CASE Cleared
  <2>1. UNCHANGED <<pc, arg, reply, debited, charged>>
    BY <1>4, ClearedKeeps DEF RefillInv
  <2>2. ASSUME NEW k \in Key
        PROVE  /\ token'[k] \in {token[k], Absent}
               /\ payment'[k] \in {payment[k], NoRequest}
    BY <1>4 DEF Cleared, ClearPayment, ClearToken, ClearWallet, WalletArrives, tokenVars,
                paymentVars
  <2>3. ASSUME NEW k \in Key PROVE Booked(k)'
    <3>1. Booked(k) /\ \A r : KeyOf(r)' = KeyOf(r)
      BY <2>1 DEF KeyOf
    <3> QED
      BY <2>1, <2>2, <3>1 DEF Booked, Absent
  <2> QED
    BY <1>1, <2>1, <2>3 DEF ReplyPaid, MidCommit, KeyOf
<1> QED
  BY <1>2, <1>3, <1>4, StepsI

\* Whenever the caches are cleared, no client is shown a payment that was not made, or
\* one of a token it did not ask for.
THEOREM PaidRepliesI == SpecI => []NoReplyForNothing
<1>1. InitI => MeanwhileInv
  <2> SUFFICES ASSUME InitI PROVE MeanwhileInv
    OBVIOUS
  <2>1. RefillInv /\ TokenInv /\ PaidInv /\ Init
    BY InitRefill, InitPaid DEF InitI, PaidInv
  <2>2. \A r \in Request : ReplyPaid(r)
    BY <2>1, GridAssumption DEF Init, ReplyPaid
  <2> QED
    BY <2>1, <2>2 DEF MeanwhileInv, PaidInv, Charging
<1>2. MeanwhileInv => NoReplyForNothing
  BY DEF MeanwhileInv, NoReplyForNothing
<1> QED
  BY <1>1, <1>2, NextMeanwhile, PTL DEF SpecI

\* initialize takes no locks, and who is routed anew holds none.
LEMMA NextLocksI == RefillInv /\ LocksInOrder /\ [NextI]_allVars => LocksInOrder'
<1> SUFFICES ASSUME RefillInv, LocksInOrder, [NextI]_allVars PROVE LocksInOrder'
  OBVIOUS
<1> USE DEF RefillInv
<1>1. CASE [Next]_vars
  BY <1>1, NextLocks
<1>2. ASSUME NEW r \in Request, Rerouted(r) PROVE LocksInOrder'
  <2>1. /\ UNCHANGED <<walletLock, tokenLock, paymentLock, arg>>
        /\ \A q \in Request : pc'[q] = pc[q] \/ pc[q] \in {"stream", "begin", "wallet"}
    BY <1>2 DEF Rerouted, Goto, TypeOK, walletVars, tokenVars, paymentVars
  <2>2. \A q \in Request : KeyOf(q)' = KeyOf(q) /\ Payer(q)' = Payer(q)
    BY <2>1 DEF KeyOf, Payer
  <2>3. /\ walletLock \in [Shopper -> Request \cup {NoRequest}]
        /\ tokenLock \in [Key -> Request \cup {NoRequest}]
        /\ paymentLock \in [Key -> Request \cup {NoRequest}]
    BY DEF TypeOK
  <2> QED
    BY <2>1, <2>2, <2>3 DEF LocksInOrder
<1>3. CASE Cleared
  <2>1. UNCHANGED <<pc, arg, walletLock, tokenLock, paymentLock>>
    BY <1>3, ClearedKeeps
  <2> QED
    BY <2>1 DEF LocksInOrder, KeyOf, Payer
<1> QED
  BY <1>1, <1>2, <1>3, StepsI

\* So payments do not wait in a circle either while the caches are cleared and filled;
\* the entries that arrive wait for a lock, and nothing waits for them.
THEOREM NoDeadlockI == SpecI => []NoDeadlock
<1>1. InitI => RefillInv /\ LocksInOrder
  <2>1. Init => LocksInOrder
    BY DEF Init, LocksInOrder
  <2> QED
    BY <2>1, InitRefill DEF InitI
<1>2. RefillInv /\ LocksInOrder => NoDeadlock
  BY NobodyInCircles DEF RefillInv
<1> QED
  BY <1>1, <1>2, NextRefill, NextLocksI, PTL DEF SpecI

\* Meanwhile each step of the servers still takes its request further, and nothing but
\* the death of a node takes one back.
ForwardI(r) ==
  /\ ServeI(r) => GoesOn(r)
  /\ pc'[r] # pc[r] \/ try'[r] # try[r] => GoesOn(r) \/ OwnerLost(r)

NoEndlessRetryI == [][\A r \in Request : ForwardI(r)]_allVars

\* So a request is retried a bounded number of times there too.
THEOREM BoundedRetriesI == SpecI => NoEndlessRetryI
<1>1. ASSUME TypeOK, InitTypes, [NextI]_allVars, NEW r \in Request PROVE ForwardI(r)
  <2>1. ASSUME NEW q \in Request, Rerouted(q)
        PROVE  GoesOn(q) /\ try' = try /\ \A p \in Request \ {q} : pc'[p] = pc[p]
    BY <1>1, <2>1 DEF Rerouted, Goto, GoesOn, Place, TypeOK
  <2>2. ServeI(r) => GoesOn(r)
    <3>1. DispatchI(r) \/ BeginI(r) => GoesOn(r)
      BY <1>1 DEF DispatchI, BeginI, At, Goto, Catch, GoesOn, Place, TypeOK, taskVars
    <3>2. LoadWalletI(r) => GoesOn(r)
      BY <1>1, ServeGoesOn DEF LoadWalletI, Serve, At, Goto, Catch, GoesOn, Place, TypeOK
    <3>3. CommitWalletI(r) => GoesOn(r)
      BY <1>1, ServeGoesOn DEF CommitWalletI, Serve
    <3> QED
      BY <1>1, <3>1, <3>2, <3>3, ServeGoesOn DEF ServeI, Serve
  <2>3. ASSUME pc'[r] # pc[r] \/ try'[r] # try[r] PROVE GoesOn(r) \/ OwnerLost(r)
    <3>1. CASE [Next]_vars
      <4>1. Serve(r) => GoesOn(r)
        BY <1>1, ServeGoesOn
      <4> QED
        BY <1>1, <2>3, <3>1, <4>1, StepsForward DEF Forward
    <3>2. ASSUME NEW q \in Request, Rerouted(q) PROVE GoesOn(r)
      BY <2>1, <2>3, <3>2
    <3>3. ~Cleared
      BY <1>1, <2>3, ClearedKeeps
    <3> QED
      BY <1>1, <3>1, <3>2, <3>3, StepsI
  <2> QED
    BY <2>2, <2>3 DEF ForwardI
<1>2. TypeOK /\ InitTypes /\ [NextI]_allVars => [\A r \in Request : ForwardI(r)]_allVars
  BY <1>1
<1> QED
  BY <1>2, TypeCorrectI, PTL DEF SpecI, NoEndlessRetryI

-----------------------------------------------------------------------------
(* The ledger, while the caches are cleared and filled.                    *)

\* What a step of initialize is to the ledger: receipts that go, tokens that expire, a
\* wallet that is filled, or nothing.
Emptied ==
  \/ /\ UNCHANGED <<balance, [k \in Key |-> Open(k)]>>
     /\ \A k \in Key : Receipt(k)' \in {Receipt(k), NoRequest}
  \/ /\ UNCHANGED <<balance, [k \in Key |-> Receipt(k)]>>
     /\ \A k \in Key : Open(k)' => Open(k)
  \/ /\ \E s \in Shopper : balance' = [balance EXCEPT ![s] = InitBalance[s]]
     /\ UNCHANGED <<[k \in Key |-> Open(k)], [k \in Key |-> Receipt(k)]>>

\* Everything else is a step of the ledger or tears a commit, as it is without an
\* initialisation.
ImplementsLedgerI ==
  Ledger!Init /\ [][/\ Initialize => Emptied
                   /\ ~Initialize => Torn \/ [Ledger!Next]_(Ledger!vars)]_allVars

LEMMA NextPaymentHeldI == RefillInv /\ PaymentHeld /\ [NextI]_allVars => PaymentHeld'
<1> SUFFICES ASSUME RefillInv, PaymentHeld, [NextI]_allVars PROVE PaymentHeld'
  OBVIOUS
<1> USE DEF RefillInv
<1>1. CASE [Next]_vars
  BY <1>1, NextPaymentHeld
<1>2. ASSUME NEW r \in Request, Rerouted(r) PROVE PaymentHeld'
  <2>1. UNCHANGED <<paymentLock, arg>>
    BY <1>2 DEF Rerouted, paymentVars
  <2> QED
    BY <1>2, <2>1, ReroutedKeeps DEF PaymentHeld, KeyOf
<1>3. CASE Cleared
  <2>1. UNCHANGED <<pc, arg, paymentLock>>
    BY <1>3, ClearedKeeps
  <2> QED
    BY <2>1 DEF PaymentHeld, KeyOf
<1> QED
  BY <1>1, <1>2, <1>3, StepsI

LedgerInvI == RefillInv /\ TokenInv /\ PaymentHeld

LEMMA LedgerInvariantI == SpecI => [](LedgerInvI /\ LedgerInv)
<1>1. InitI => LedgerInvI
  BY InitRefill, InitTokenInv DEF InitI, Init, LedgerInvI, PaymentHeld
<1>2. LedgerInvI /\ [NextI]_allVars => LedgerInvI'
  BY NextRefill, NextTokenInvI, NextPaymentHeldI DEF LedgerInvI
<1>3. LedgerInvI => LedgerInv
  BY DEF LedgerInvI, LedgerInv, RefillInv
<1> QED
  BY <1>1, <1>2, <1>3, PTL DEF SpecI

\* A payment that is routed anew shows nothing to the ledger.
LEMMA ReroutedUnseen ==
  ASSUME TypeOK, NEW r \in Request, Rerouted(r)
  PROVE  UNCHANGED Ledger!vars
<1>1. UNCHANGED <<balance, token, payment, arg>>
  BY DEF Rerouted, walletVars, tokenVars, paymentVars
<1>2. \A q \in Request : pc'[q] = pc[q] \/ (/\ pc[q] \in {"stream", "begin", "wallet"}
                                         /\ pc'[q] \in {"begin", "load", "wallet", "rollback"})
  BY DEF Rerouted, Goto, TypeOK
<1>3. \A q \in Request : /\ KeyOf(q)' = KeyOf(q)
                         /\ pc'[q] = "commitToken" <=> pc[q] = "commitToken"
                         /\ pc'[q] \in {"preparePayment", "commitWallet"}
                              <=> pc[q] \in {"preparePayment", "commitWallet"}
                         /\ MidCommit(q)' <=> MidCommit(q)
  BY <1>1, <1>2 DEF KeyOf, MidCommit
<1>4. ASSUME NEW k \in Key PROVE Open(k)' = Open(k)
  BY <1>1, <1>3 DEF Open, Between
<1>5. ASSUME NEW k \in Key PROVE Receipt(k)' = Receipt(k)
  BY <1>1, <1>3 DEF Receipt
<1> QED
  BY <1>1, <1>4, <1>5, OpenStays, ReceiptStays DEF Ledger!vars

\* The clears and the puts of initialize, one by one.
LEMMA InitializeEmpties ==
  ASSUME LedgerInv, LedgerInv', Initialize
  PROVE  Emptied
<1> USE DEF Emptied, walletVars, tokenVars, paymentVars, historyVars
<1>1. ASSUME UNCHANGED <<pc, arg>>
      PROVE  \A q \in Request, k \in Key :
               /\ KeyOf(q)' = KeyOf(q) /\ (MidCommit(q)' <=> MidCommit(q))
               /\ \A labels : Between(q, labels, k)' <=> Between(q, labels, k)
  BY <1>1 DEF KeyOf, MidCommit, Between
<1>2. ASSUME UNCHANGED <<pc, arg, token>> PROVE UNCHANGED [k \in Key |-> Open(k)]
  <2>1. ASSUME NEW k \in Key PROVE Open(k)' = Open(k)
    BY <1>1, <1>2 DEF Open, Between, KeyOf
  <2> QED
    BY <2>1, OpenStays
<1>3. ASSUME UNCHANGED <<pc, arg, payment>> PROVE UNCHANGED [k \in Key |-> Receipt(k)]
  <2>1. ASSUME NEW k \in Key PROVE Receipt(k)' = Receipt(k)
    BY <1>1, <1>3 DEF Receipt
  <2> QED
    BY <2>1, ReceiptStays
<1>4. CASE ClearPayment
  <2>1. /\ UNCHANGED <<pc, arg, token, balance>>
        /\ payment' = [k \in Key |-> NoRequest]
    BY <1>4 DEF ClearPayment
  <2>2. Shown /\ (LedgerInv' => Shown')
    BY OneShown, PTL
  <2>3. ASSUME NEW k \in Key PROVE Receipt(k)' \in {Receipt(k), NoRequest}
    <3>1. CASE \E q \in Request : KeyOf(q) = k /\ MidCommit(q)
      BY <1>1, <2>1, <2>2, <3>1 DEF Shown
    <3>2. CASE ~\E q \in Request : KeyOf(q) = k /\ MidCommit(q)
      BY <1>1, <2>1, <2>2, <3>2 DEF Shown
    <3> QED
      BY <3>1, <3>2
  <2> QED
    BY <1>2, <2>1, <2>3
<1>5. CASE ClearToken
  <2>1. /\ UNCHANGED <<pc, arg, payment, balance>>
        /\ token' = [k \in Key |-> Absent]
    BY <1>5 DEF ClearToken
  <2>2. ASSUME NEW k \in Key, Open(k)' PROVE Open(k)
    BY <1>1, <2>1, <2>2 DEF Open, Absent
  <2> QED
    BY <1>3, <2>1, <2>2
<1>6. CASE ClearUser \/ ClearWallet \/ PutAll \/ \E s \in Shopper : UserArrives(s)
  <2>1. UNCHANGED <<pc, arg, token, payment, balance>>
    BY <1>6 DEF ClearUser, ClearWallet, PutAll, UserArrives, vars
  <2>2. \A k \in Key : Open(k)' = Open(k)
    BY <1>1, <2>1 DEF Open, Between, KeyOf
  <2> QED
    BY <1>3, <2>1, <2>2
<1>7. ASSUME NEW s \in Shopper, WalletArrives(s) PROVE Emptied
  <2>1. /\ UNCHANGED <<pc, arg, token, payment>>
        /\ balance' = [balance EXCEPT ![s] = InitBalance[s]]
    BY <1>7 DEF WalletArrives
  <2> QED
    BY <1>2, <1>3, <2>1
<1> QED
  BY <1>4, <1>5, <1>6, <1>7 DEF Initialize

\* A payment remains one indivisible payment of the ledger although the caches are
\* cleared and filled under it, unless a node dies between two of its commits: it takes its
\* money from what the wallet holds at that moment, as the put of a new wallet waits for
\* the lock, and its token is still open then.
THEOREM ImplementsI == SpecI => ImplementsLedgerI
<1>1. InitI => Ledger!Init
  BY InitLedger DEF InitI
<1>2. ASSUME LedgerInvI, LedgerInv, LedgerInv', [NextI]_allVars
      PROVE  /\ Initialize => Emptied
             /\ ~Initialize => Torn \/ [Ledger!Next]_(Ledger!vars)
  <2>1. Initialize => Emptied
    BY <1>2, InitializeEmpties
  <2>2. [Next]_vars => Torn \/ [Ledger!Next]_(Ledger!vars)
    BY <1>2, LedgerStep
  <2>3. ASSUME NEW r \in Request, Rerouted(r) PROVE UNCHANGED Ledger!vars
    BY <1>2, <2>3, ReroutedUnseen DEF LedgerInv
  <2>4. Cleared => Initialize
    BY DEF Cleared, Initialize
  <2> QED
    BY <1>2, <2>1, <2>2, <2>3, <2>4, StepsI
<1>3. LedgerInvI /\ LedgerInv /\ LedgerInv' /\ [NextI]_allVars
        => [/\ Initialize => Emptied
            /\ ~Initialize => Torn \/ [Ledger!Next]_(Ledger!vars)]_allVars
  BY <1>2
<1> QED
  BY <1>1, <1>3, LedgerInvariantI, PTL DEF SpecI, ImplementsLedgerI

-----------------------------------------------------------------------------
(* From the payment to its event.                                          *)

\* Where the elements for a key stand in a sequence of requests.
Places(s, k) == {i \in DOMAIN s : KeyOf(s[i]) = k}

LEMMA PlacesFinite ==
  ASSUME NEW s \in Seq(Request), NEW k
  PROVE  IsFiniteSet(Places(s, k)) /\ Cardinality(Places(s, k)) \in Nat
<1>1. DOMAIN s = 1..Len(s) /\ Len(s) \in Nat
  BY LenProperties
<1>2. IsFiniteSet(DOMAIN s)
  BY <1>1, FS_Interval
<1>3. Places(s, k) \in SUBSET DOMAIN s
  BY DEF Places
<1> QED
  BY <1>2, <1>3, FS_Subset, FS_CardinalityType

\* An event more,
LEMMA PlacesAppended ==
  ASSUME NEW s \in Seq(Request), NEW r \in Request, NEW k
  PROVE  /\ KeyOf(r) # k => Places(Append(s, r), k) = Places(s, k)
         /\ Cardinality(Places(Append(s, r), k)) <= Cardinality(Places(s, k)) + 1
<1> DEFINE t == Append(s, r)
           new == Len(s) + 1
<1>1. /\ Len(s) \in Nat /\ t \in Seq(Request) /\ Len(t) = new
      /\ \A i \in 1..Len(s) : t[i] = s[i]
      /\ t[new] = r
  BY AppendProperties, LenProperties
<1>2. DOMAIN s = 1..Len(s) /\ DOMAIN t = 1..new
  BY <1>1, LenProperties
<1> HIDE DEF t
<1>3. Places(t, k) = IF KeyOf(r) = k THEN Places(s, k) \cup {new} ELSE Places(s, k)
  <2>1. DOMAIN t = DOMAIN s \cup {new} /\ new \notin DOMAIN s
    BY <1>1, <1>2
  <2>2. \A i \in DOMAIN s : t[i] = s[i]
    BY <1>1, <1>2
  <2> HIDE DEF new
  <2> QED
    BY <1>1, <2>1, <2>2 DEF Places
<1>4. IsFiniteSet(Places(s, k)) /\ Cardinality(Places(s, k)) \in Nat
  BY PlacesFinite
<1>5. Cardinality(Places(t, k)) <= Cardinality(Places(s, k)) + 1
  <2>1. CASE KeyOf(r) = k
    <3>1. Places(t, k) = Places(s, k) \cup {new}
      BY <1>3, <2>1
    <3>2. Cardinality(Places(s, k) \cup {new})
            = IF new \in Places(s, k) THEN Cardinality(Places(s, k))
              ELSE Cardinality(Places(s, k)) + 1
      BY <1>4, FS_AddElement
    <3> QED
      BY <1>4, <3>1, <3>2
  <2>2. CASE KeyOf(r) # k
    BY <1>3, <1>4, <2>2
  <2> QED
    BY <2>1, <2>2
<1> QED
  BY <1>3, <1>5 DEF t

\* and one less.
LEMMA PlacesRemoved ==
  ASSUME NEW s \in Seq(Request), NEW t \in Seq(Request), t # <<>>, NEW k
  PROVE  Cardinality(Places(s \o Tail(t), k)) <= Cardinality(Places(s \o t, k))
<1> DEFINE before == s \o t
           after == s \o Tail(t)
           old(i) == IF i <= Len(s) THEN i ELSE i + 1
<1>1. /\ Tail(t) \in Seq(Request) /\ Len(Tail(t)) = Len(t) - 1
      /\ \A i \in 1..Len(Tail(t)) : Tail(t)[i] = t[i + 1]
      /\ Len(s) \in Nat /\ Len(t) \in Nat /\ Len(t) >= 1
  BY HeadTailProperties, LenProperties, EmptySeq
<1>2. /\ before \in Seq(Request) /\ after \in Seq(Request)
      /\ DOMAIN before = 1..(Len(s) + Len(t))
      /\ DOMAIN after = 1..(Len(s) + Len(t) - 1)
  BY <1>1, ConcatProperties, LenProperties
<1>3. ASSUME NEW i \in DOMAIN after
      PROVE  old(i) \in DOMAIN before /\ before[old(i)] = after[i]
  <2>1. i \in Int /\ 1 <= i /\ i <= Len(s) + (Len(t) - 1)
    BY <1>1, <1>2
  <2>2. CASE i <= Len(s)
    BY <1>1, <1>2, <2>1, <2>2, ConcatProperties
  <2>3. CASE i > Len(s)
    <3>1. i - Len(s) \in 1..Len(Tail(t)) /\ i + 1 - Len(s) = i - Len(s) + 1
      BY <1>1, <2>1, <2>3
    <3>2. after[i] = t[i - Len(s) + 1]
      BY <1>1, <2>1, <2>3, <3>1, ConcatProperties
    <3>3. before[i + 1] = t[i + 1 - Len(s)]
      BY <1>1, <2>1, <2>3, ConcatProperties
    <3>4. i + 1 \in DOMAIN before
      BY <1>1, <1>2, <2>1
    <3> QED
      BY <1>1, <2>1, <2>3, <3>1, <3>2, <3>3, <3>4
  <2> QED
    BY <1>1, <2>1, <2>2, <2>3
<1>4. \A i, j \in DOMAIN after : old(i) = old(j) => i = j
  BY <1>1, <1>2
<1> DEFINE f == [i \in Places(after, k) |-> old(i)]
<1>5. f \in Injection(Places(after, k), Places(before, k))
  <2> HIDE DEF before, after, old
  <2>1. f \in [Places(after, k) -> Places(before, k)]
    BY <1>3 DEF Places
  <2>2. \A i, j \in Places(after, k) : f[i] = f[j] => i = j
    BY <1>4 DEF Places
  <2> QED
    BY <2>1, <2>2 DEF Injection, IsInjective
<1>6. IsFiniteSet(Places(before, k))
  BY <1>2, PlacesFinite
<1> QED
  BY <1>5, <1>6, FS_Injection

\* Who was charged for a token, and who of them was told so.
Paid(k) == {r \in Request : KeyOf(r) = k /\ charged[r] >= 1}
PaidAndDone(k) == {r \in Paid(k) : pc[r] = "done"}

\* A request that is about to emit an event was charged for what the event is of.
ToldOfOwnKey(r) ==
  pc[r] = "notify" => reply[r] \in Request /\ KeyOf(reply[r]) = KeyOf(r) /\ charged[r] >= 1

PayersInv ==
  /\ PaidInv
  /\ \A r \in Request : ToldOfOwnKey(r)
  /\ \A k \in Key : IsFiniteSet(Paid(k)) /\ Cardinality(Paid(k)) <= debited[k]

EventInv ==
  /\ PayersInv
  /\ outbox \in Seq(Request) /\ origin \in Seq(Request)
  /\ \A k \in Key : Cardinality(EventsOf(k)) <= Cardinality(PaidAndDone(k))

LEMMA ToldStep ==
  ASSUME PayersInv, [Next]_vars, NEW q \in Request
  PROVE  ToldOfOwnKey(q)'
<1> USE DEF PayersInv, PaidInv
<1>1. /\ ToldOfOwnKey(q) /\ charged \in [Request -> Nat] /\ charged' \in [Request -> Nat]
      /\ KeyOf(q) \in Key /\ \A r : KeyOf(r)' = KeyOf(r)
      /\ payment[KeyOf(q)] \in Request \cup {NoRequest}
      /\ charged[q] <= charged'[q]
  <2>1. TypeOK'
    BY NextTypeOK
  <2> QED
    BY <2>1, ArgFixed, ArgTypes, VersionsMove DEF TypeOK
<1>2. ASSUME NEW r \in Request, Quiet(r) PROVE ToldOfOwnKey(q)'
  <2>1. CASE q = r
    <3> SUFFICES ASSUME pc'[q] = "notify" PROVE ToldOfOwnKey(q)'
      BY DEF ToldOfOwnKey
    <3>1. /\ pc[q] = "load" /\ payment[KeyOf(q)] # NoRequest
          /\ reply'[q] = payment[KeyOf(q)]
      BY <1>2, <2>1 DEF Quiet, QuietMove, Before, PastCharge
    <3>2. KeyOf(payment[KeyOf(q)]) = KeyOf(q)
      BY <1>1, <3>1 DEF Booked
    <3>3. charged[q] >= 1
      BY <3>1, NoWalletNoPayment DEF Charging
    <3> QED
      BY <1>1, <3>1, <3>2, <3>3 DEF ToldOfOwnKey
  <2>2. CASE q # r
    BY <1>1, <1>2, <2>2 DEF Quiet, ToldOfOwnKey
  <2> QED
    BY <2>1, <2>2
<1>3. ASSUME NEW r \in Request, Writes(r) PROVE ToldOfOwnKey(q)'
  <2>1. /\ pc'[r] \in {"commitToken", "commitPayment", "load"} /\ reply' = reply
        /\ \A p \in Request \ {r} : pc'[p] = pc[p]
    BY <1>3, WalletCommitted, TokenCommitted, PaymentCommitted DEF Writes
  <2> QED
    BY <1>1, <2>1 DEF ToldOfOwnKey
<1>4. ASSUME NEW k \in Key, CreateToken(k) \/ EvictToken(k) \/ EvictPayment(k)
      PROVE  ToldOfOwnKey(q)'
  BY <1>1, <1>4, KeyWritten DEF ToldOfOwnKey
<1>5. CASE UNCHANGED vars
  BY <1>1, <1>5 DEF vars, ToldOfOwnKey
<1> QED
  BY <1>2, <1>3, <1>4, <1>5, QuietOrWrites

\* Whoever is charged is charged with a debit of its own.
LEMMA PaidStep ==
  ASSUME PayersInv, [Next]_vars, NEW k \in Key
  PROVE  /\ IsFiniteSet(Paid(k))' /\ Cardinality(Paid(k))' <= debited'[k]
         /\ Paid(k) \subseteq Paid(k)'
<1> USE DEF PayersInv, PaidInv
<1>1. /\ \A r : KeyOf(r)' = KeyOf(r) /\ charged \in [Request -> Nat]
      /\ debited[k] \in Nat
      /\ IsFiniteSet(Paid(k)) /\ Cardinality(Paid(k)) <= debited[k]
      /\ Cardinality(Paid(k)) \in Nat
  BY ArgFixed, FS_CardinalityType DEF TypeOK
<1>2. CASE UNCHANGED <<charged, debited>>
  <2>1. Paid(k)' = Paid(k)
    BY <1>1, <1>2 DEF Paid
  <2> QED
    BY <1>1, <1>2, <2>1
<1>3. ASSUME NEW r \in Request, CommitWallet(r)
      PROVE  /\ IsFiniteSet(Paid(k))' /\ Cardinality(Paid(k))' <= debited'[k]
             /\ Paid(k) \subseteq Paid(k)'
  <2>1. /\ charged'[r] = charged[r] + 1 /\ charged[r] \in Nat
        /\ debited'[KeyOf(r)] = debited[KeyOf(r)] + 1
        /\ \A q \in Request \ {r} : charged'[q] = charged[q]
        /\ \A j \in Key \ {KeyOf(r)} : debited'[j] = debited[j]
    BY <1>3, WalletCommitted DEF TypeOK
  <2>2. CASE KeyOf(r) = k
    <3>1. Paid(k)' = Paid(k) \cup {r}
      BY <1>1, <2>1, <2>2 DEF Paid
    <3>2. /\ IsFiniteSet(Paid(k) \cup {r})
          /\ Cardinality(Paid(k) \cup {r})
               = IF r \in Paid(k) THEN Cardinality(Paid(k)) ELSE Cardinality(Paid(k)) + 1
      BY <1>1, FS_AddElement
    <3>3. Cardinality(Paid(k) \cup {r}) <= debited[k] + 1
      BY <1>1, <3>2
    <3> QED
      BY <2>1, <2>2, <3>1, <3>2, <3>3
  <2>3. CASE KeyOf(r) # k
    <3>1. Paid(k)' = Paid(k) /\ debited'[k] = debited[k]
      BY <1>1, <2>1, <2>3 DEF Paid
    <3> QED
      BY <1>1, <3>1
  <2> QED
    BY <2>2, <2>3
<1>4. \/ UNCHANGED <<charged, debited>>
      \/ \E r \in Request : CommitWallet(r)
  <2>1. ASSUME NEW r \in Request, Quiet(r) \/ CommitToken(r) \/ CommitPayment(r)
        PROVE  UNCHANGED <<charged, debited>>
    BY <2>1, TokenCommitted, PaymentCommitted DEF Quiet
  <2>2. ASSUME UNCHANGED vars PROVE UNCHANGED <<charged, debited>>
    BY <2>2 DEF vars, historyVars
  <2> QED
    BY <2>1, <2>2, QuietOrWrites, KeyWritten DEF Writes
<1> QED
  BY <1>2, <1>3, <1>4

\* An answer is the end of a request,
LEMMA StaysDone ==
  ASSUME TypeOK, [Next]_vars, NEW q \in Request, pc[q] = "done"
  PROVE  pc'[q] = "done"
<1>1. ASSUME NEW r \in Request, BufferKept(r) PROVE pc'[q] = "done"
  <2>1. q # r
    BY <1>1 DEF BufferKept, Submit, Dispatch, Begin, PrepareWallet, PrepareToken,
                PreparePayment, CommitWallet, CommitToken, CommitPayment, LoadPayment, Notify,
                LockTimeout, NotifyOverflow, Waiting, At
  <2> QED
    BY <1>1, <2>1, Moves
<1>2. ASSUME NEW r \in Request,
             LoadWallet(r) \/ LoadToken(r) \/ Charge(r) \/ Rollback(r) \/ OwnerLost(r)
      PROVE  pc'[q] = "done"
  <2>1. q # r
    BY <1>2 DEF LoadWallet, LoadToken, Charge, Rollback, OwnerLost, InGrid, At
  <2> QED
    BY <1>2, <2>1, Moves
<1>3. ASSUME NEW k \in Key, KeyStep(k) PROVE pc' = pc
  BY <1>3, TokenUntouched
<1>4. CASE UNCHANGED vars
  BY <1>4 DEF vars
<1> QED
  BY <1>1, <1>2, <1>3, <1>4, Steps

\* so that who was charged and answered stays so.
LEMMA DoneGrows ==
  ASSUME PayersInv, [Next]_vars, NEW k \in Key
  PROVE  /\ PaidAndDone(k) \subseteq PaidAndDone(k)'
         /\ IsFiniteSet(PaidAndDone(k)) /\ IsFiniteSet(PaidAndDone(k))'
<1>1. Paid(k) \subseteq Paid(k)' /\ IsFiniteSet(Paid(k)) /\ IsFiniteSet(Paid(k))'
  BY PaidStep DEF PayersInv
<1>2. \A r \in Request : pc[r] = "done" => pc'[r] = "done"
  BY StaysDone DEF PayersInv, PaidInv
<1>3. PaidAndDone(k) \in SUBSET Paid(k) /\ Paid(k) \subseteq Request
  BY DEF PaidAndDone, Paid
<1>4. PaidAndDone(k)' \in SUBSET Paid(k)'
  BY DEF PaidAndDone
<1>5. IsFiniteSet(PaidAndDone(k))
  BY <1>1, <1>3, FS_Subset
<1>6. IsFiniteSet(PaidAndDone(k)')
  BY <1>1, <1>4, FS_Subset
<1> QED
  BY <1>1, <1>2, <1>3, <1>5, <1>6 DEF PaidAndDone

\* What is emitted, published and refused.
LEMMA EmissionsMove ==
  ASSUME TypeOK, \A r \in Request : ToldOfOwnKey(r),
         outbox \in Seq(Request), origin \in Seq(Request), [NextP]_systemVars
  PROVE  /\ outbox' \in Seq(Request) /\ origin' \in Seq(Request)
         /\ \/ /\ [Next]_vars /\ Emissions' = Emissions
               /\ \A q \in Request : ~Notify(q)
            \/ \E r \in Request : Next /\ Notify(r) /\ Emissions' = Append(Emissions, reply[r])
            \/ Refuse /\ outbox # <<>> /\ Emissions' = origin \o Tail(outbox)
<1>1. ASSUME UNCHANGED <<outbox, origin>>
      PROVE  outbox' \in Seq(Request) /\ origin' \in Seq(Request) /\ Emissions' = Emissions
  BY <1>1 DEF Emissions
<1>2. ASSUME NEW r \in Request, ServeP(r), At(r, "notify")
      PROVE  /\ outbox' \in Seq(Request) /\ origin' \in Seq(Request)
             /\ Next /\ Notify(r) /\ Emissions' = Append(Emissions, reply[r])
  <2>1. Notify(r) /\ Next
    BY <1>2 DEF ServeP, Serve, Next, At, Dispatch, Begin, LoadWallet, LoadToken, Charge,
                PrepareWallet, PrepareToken, PreparePayment, CommitWallet, CommitToken,
                CommitPayment, Rollback, LoadPayment
  <2>2. reply[r] \in Request
    BY <1>2 DEF At, ToldOfOwnKey
  <2>3. outbox' = Append(outbox, reply[r]) /\ origin' = origin
    BY <1>2 DEF ServeP, Emitted
  <2>4. outbox' = outbox \o <<reply[r]>> /\ <<reply[r]>> \in Seq(Request)
    BY <2>2, <2>3, AppendIsConcat
  <2>5. origin \o outbox \in Seq(Request)
    BY ConcatProperties
  <2>6. origin \o (outbox \o <<reply[r]>>) = (origin \o outbox) \o <<reply[r]>>
    BY <2>4, ConcatAssociative
  <2>7. Append(origin \o outbox, reply[r]) = (origin \o outbox) \o <<reply[r]>>
    BY <2>2, <2>5, AppendIsConcat
  <2>8. outbox' \in Seq(Request)
    BY <2>2, <2>3, AppendProperties
  <2> QED
    BY <2>1, <2>3, <2>4, <2>6, <2>7, <2>8 DEF Emissions
<1>3. ASSUME NEW r \in Request, ServeP(r), ~At(r, "notify")
      PROVE  /\ Next /\ UNCHANGED <<outbox, origin>>
             /\ \A q \in Request : ~Notify(q)
  <2>1. Next /\ UNCHANGED <<outbox, origin>>
    BY <1>3 DEF ServeP, Next
  <2>2. ASSUME NEW q \in Request, Notify(q) PROVE FALSE
    <3>1. q # r /\ pc[q] = "notify"
      BY <1>3, <2>2 DEF Notify, At
    <3>2. pc'[q] = pc[q]
      BY <1>3, <3>1, Moves DEF ServeP, Serve, BufferKept
    <3> QED
      BY <2>2, <3>1, <3>2 DEF Notify, Goto, TypeOK
  <2> QED
    BY <2>1, <2>2
<1>4. ASSUME PublishP
      PROVE  /\ outbox' \in Seq(Request) /\ origin' \in Seq(Request)
             /\ UNCHANGED vars /\ Emissions' = Emissions
  <2> DEFINE first == Head(outbox)
  <2>1. /\ outbox # <<>> /\ outbox' = Tail(outbox) /\ origin' = Append(origin, first)
        /\ UNCHANGED vars
    BY <1>4 DEF PublishP
  <2>2. first \in Request /\ Tail(outbox) \in Seq(Request)
    BY <2>1, HeadTailProperties
  <2>3. Append(origin, first) = origin \o <<first>> /\ <<first>> \in Seq(Request)
    BY <2>2, AppendIsConcat
  <2>4. outbox = <<first>> \o Tail(outbox)
    BY <2>1
  <2>5. (origin \o <<first>>) \o Tail(outbox) = origin \o (<<first>> \o Tail(outbox))
    BY <2>2, <2>3, ConcatAssociative
  <2>6. origin' \in Seq(Request)
    BY <2>1, <2>2, AppendProperties
  <2> HIDE DEF first
  <2> QED
    BY <2>1, <2>2, <2>3, <2>4, <2>5, <2>6 DEF Emissions
<1>5. ASSUME Refuse
      PROVE  /\ outbox' \in Seq(Request) /\ origin' \in Seq(Request)
             /\ outbox # <<>> /\ Emissions' = origin \o Tail(outbox)
  <2>1. outbox # <<>> /\ outbox' = Tail(outbox) /\ origin' = origin
    BY <1>5 DEF Refuse
  <2> QED
    BY <2>1, HeadTailProperties DEF Emissions
<1>6. ASSUME UNCHANGED vars PROVE \A q \in Request : ~Notify(q)
  BY <1>6 DEF vars, Notify, At, Goto, TypeOK
<1>7. CASE Others
  <2>1. Next /\ UNCHANGED <<outbox, origin>>
    BY <1>7 DEF Others, Next
  <2>2. ASSUME NEW q \in Request, Notify(q) PROVE FALSE
    <3>1. pc[q] = "notify" /\ pc'[q] = "done" /\ faults' = faults /\ faults \in Nat
      BY <2>2 DEF Notify, At, Goto, TypeOK
    <3>2. ASSUME NEW r \in Request, Submit(r) PROVE FALSE
      BY <3>1, <3>2 DEF Submit, At, Goto, TypeOK
    <3>3. ASSUME NEW k \in Key, CreateToken(k) \/ EvictToken(k) \/ EvictPayment(k)
          PROVE  FALSE
      BY <3>1, <3>3, KeyWritten
    <3>4. ASSUME NEW r \in Request, LockTimeout(r) \/ OwnerLost(r) \/ NotifyOverflow(r)
          PROVE  FALSE
      BY <3>1, <3>4 DEF LockTimeout, OwnerLost, NotifyOverflow, Fault
    <3> QED
      BY <1>7, <3>2, <3>3, <3>4 DEF Others, Disturb
  <2> QED
    BY <1>1, <2>1, <2>2
<1>8. CASE Reward \/ Upset \/ UNCHANGED systemVars
  <2>1. UNCHANGED <<vars, outbox, origin>>
    BY <1>8 DEF Reward, Upset, systemVars
  <2> QED
    BY <1>1, <1>6, <2>1
<1> QED
  BY <1>1, <1>2, <1>3, <1>4, <1>5, <1>7, <1>8, <1>6 DEF NextP

\* An event is emitted by a request that was charged, once, at the end of it.
LEMMA EventInvariant == SpecP => []EventInv
<1>1. InitP => EventInv
  <2> SUFFICES ASSUME InitP PROVE EventInv
    OBVIOUS
  <2>1. PaidInv /\ outbox = <<>> /\ origin = <<>> /\ Init
    BY InitPaid DEF InitP
  <2>2. outbox \in Seq(Request) /\ origin \in Seq(Request) /\ Emissions = <<>>
    BY <2>1, EmptySeq DEF Emissions
  <2>3. ASSUME NEW r \in Request PROVE ToldOfOwnKey(r)
    BY <2>1 DEF ToldOfOwnKey, Init
  <2>4. ASSUME NEW k \in Key
        PROVE  /\ IsFiniteSet(Paid(k)) /\ Cardinality(Paid(k)) <= debited[k]
               /\ Cardinality(EventsOf(k)) <= Cardinality(PaidAndDone(k))
    <3>1. Paid(k) = {} /\ debited[k] = 0 /\ PaidAndDone(k) = {}
      BY <2>1 DEF Paid, PaidAndDone, Init
    <3>2. EventsOf(k) = {}
      BY <2>2 DEF EventsOf
    <3> QED
      BY <3>1, <3>2, FS_EmptySet
  <2> QED
    BY <2>1, <2>2, <2>3, <2>4 DEF EventInv, PayersInv
<1>2. EventInv /\ [NextP]_systemVars => EventInv'
  <2> SUFFICES ASSUME EventInv, [NextP]_systemVars PROVE EventInv'
    OBVIOUS
  <2> USE DEF EventInv
  <2>1. /\ outbox' \in Seq(Request) /\ origin' \in Seq(Request)
        /\ \/ [Next]_vars /\ Emissions' = Emissions
           \/ \E r \in Request : Next /\ Notify(r) /\ Emissions' = Append(Emissions, reply[r])
           \/ Refuse /\ outbox # <<>> /\ Emissions' = origin \o Tail(outbox)
    BY EmissionsMove DEF PayersInv, PaidInv
  <2>2. Emissions \in Seq(Request) /\ \A k : EventsOf(k) = Places(Emissions, k)
    BY ConcatProperties DEF Emissions, EventsOf, Places
  <2>3. ASSUME arg' = arg
        PROVE  \A k : EventsOf(k)' = Places(Emissions', k)
    BY <2>3 DEF EventsOf, Places, KeyOf
  <2>4. ASSUME [Next]_vars
        PROVE  PayersInv' /\ arg' = arg
    <3>1. PaidInv'
      BY <2>4, NextPaid DEF PayersInv
    <3> QED
      BY <2>4, <3>1, ToldStep, PaidStep, ArgFixed DEF PayersInv
  <2>5. CASE [Next]_vars /\ Emissions' = Emissions
    <3>1. ASSUME NEW k \in Key
          PROVE  Cardinality(EventsOf(k))' <= Cardinality(PaidAndDone(k))'
      <4>1. EventsOf(k)' = EventsOf(k)
        BY <2>2, <2>3, <2>4, <2>5
      <4>2. /\ PaidAndDone(k) \in SUBSET PaidAndDone(k)'
            /\ IsFiniteSet(PaidAndDone(k)) /\ IsFiniteSet(PaidAndDone(k)')
        BY <2>5, DoneGrows
      <4>3. /\ Cardinality(PaidAndDone(k)) <= Cardinality(PaidAndDone(k)')
            /\ Cardinality(PaidAndDone(k)) \in Nat /\ Cardinality(PaidAndDone(k)') \in Nat
        BY <4>2, FS_Subset, FS_CardinalityType
      <4>4. Cardinality(EventsOf(k)) \in Nat
        BY <2>2, PlacesFinite
      <4> QED
        BY <4>1, <4>3, <4>4
    <3> QED
      BY <2>1, <2>4, <2>5, <3>1
  <2>6. ASSUME NEW r \in Request, Next, Notify(r), Emissions' = Append(Emissions, reply[r])
        PROVE  EventInv'
    <3>1. /\ pc[r] = "notify" /\ pc'[r] = "done" /\ charged' = charged /\ KeyOf(r) \in Key
          /\ reply[r] \in Request /\ KeyOf(reply[r]) = KeyOf(r) /\ charged[r] >= 1
      BY <2>6, ArgTypes DEF Notify, At, Goto, historyVars, ToldOfOwnKey, PayersInv, PaidInv, TypeOK
    <3>2. ASSUME NEW k \in Key
          PROVE  Cardinality(EventsOf(k))' <= Cardinality(PaidAndDone(k))'
      <4>1. EventsOf(k)' = Places(Append(Emissions, reply[r]), k)
        BY <2>3, <2>4, <2>6
      <4>2. /\ PaidAndDone(k) \in SUBSET PaidAndDone(k)'
            /\ IsFiniteSet(PaidAndDone(k)) /\ IsFiniteSet(PaidAndDone(k)')
        BY <2>6, DoneGrows
      <4>3. /\ Cardinality(PaidAndDone(k)) <= Cardinality(PaidAndDone(k)')
            /\ Cardinality(PaidAndDone(k)) \in Nat /\ Cardinality(PaidAndDone(k)') \in Nat
        BY <4>2, FS_Subset, FS_CardinalityType
      <4>4. /\ Cardinality(EventsOf(k)) \in Nat
            /\ Cardinality(EventsOf(k)) <= Cardinality(PaidAndDone(k))
        BY <2>2, PlacesFinite
      <4>5. CASE KeyOf(r) # k
        <5>1. EventsOf(k)' = EventsOf(k)
          BY <2>2, <3>1, <4>1, <4>5, PlacesAppended
        <5> QED
          BY <4>3, <4>4, <5>1
      <4>6. CASE KeyOf(r) = k
        <5>1. /\ Cardinality(EventsOf(k)') <= Cardinality(EventsOf(k)) + 1
              /\ Cardinality(EventsOf(k)') \in Nat
          <6>1. Append(Emissions, reply[r]) \in Seq(Request)
            BY <2>2, <3>1, AppendProperties
          <6> QED
            BY <2>2, <3>1, <4>1, <6>1, PlacesAppended, PlacesFinite
        <5>2. r \in PaidAndDone(k)' /\ r \notin PaidAndDone(k)
          BY <2>4, <2>6, <3>1, <4>6 DEF PaidAndDone, Paid, KeyOf
        <5>3. PaidAndDone(k) # PaidAndDone(k)'
          BY <5>2
        <5>4. Cardinality(PaidAndDone(k)) # Cardinality(PaidAndDone(k)')
          BY <4>2, <5>3, FS_Subset
        <5> QED
          BY <4>3, <4>4, <5>1, <5>4
      <4> QED
        BY <4>5, <4>6
    <3> QED
      BY <2>1, <2>4, <2>6, <3>2
  <2>7. CASE Refuse /\ outbox # <<>> /\ Emissions' = origin \o Tail(outbox)
    <3>1. /\ UNCHANGED <<walletVars, tokenVars, paymentVars, pc, arg, taskVars, reply,
                         historyVars>>
          /\ faults' = faults + 1
      BY <2>7 DEF Refuse, Fault
    <3>2. TypeOK' /\ Afforded' /\ TokenInv'
      <4>1. TypeOK'
        BY <3>1 DEF PayersInv, PaidInv, TypeOK, walletVars, tokenVars, paymentVars, taskVars,
                    historyVars
      <4>2. Afforded'
        BY <3>1 DEF PayersInv, PaidInv, Afforded, taskVars, Payer, AmountOf, KeyOf
      <4>3. TokenInv'
        BY <3>1 DEF PayersInv, PaidInv, TokenInv, TokenAsRead, TokenBuffered, TokenHeld,
              HeldIsCovered, UnusedIsCovered, ChargedOncePerIssue, tokenVars, taskVars,
              historyVars, KeyOf
      <4> QED
        BY <4>1, <4>2, <4>3
    <3>3. PaidInv'
      BY <3>1, <3>2 DEF PayersInv, PaidInv, Charging, Booked, MidCommit, tokenVars,
              paymentVars, historyVars, KeyOf, Payer
    <3>4. /\ \A r \in Request : ToldOfOwnKey(r)'
          /\ \A k \in Key : Paid(k)' = Paid(k) /\ PaidAndDone(k)' = PaidAndDone(k)
                            /\ debited' = debited
      BY <3>1 DEF PayersInv, ToldOfOwnKey, Paid, PaidAndDone, historyVars, KeyOf
    <3>5. PayersInv'
      BY <3>3, <3>4 DEF PayersInv
    <3>6. ASSUME NEW k \in Key
          PROVE  Cardinality(EventsOf(k))' <= Cardinality(PaidAndDone(k))'
      <4>1. /\ Cardinality(EventsOf(k)') <= Cardinality(EventsOf(k))
            /\ Cardinality(EventsOf(k)') \in Nat
        <5>1. EventsOf(k)' = Places(origin \o Tail(outbox), k) /\ arg' = arg
          BY <2>3, <2>7, <3>1
        <5>2. EventsOf(k) = Places(origin \o outbox, k)
          BY <2>2 DEF Emissions
        <5>3. origin \o Tail(outbox) \in Seq(Request)
          BY <2>7, HeadTailProperties, ConcatProperties
        <5> QED
          BY <2>7, <5>1, <5>2, <5>3, PlacesRemoved, PlacesFinite
      <4>2. Cardinality(EventsOf(k)) \in Nat /\ Cardinality(PaidAndDone(k)) \in Nat
        <5>1. PaidAndDone(k) \in SUBSET Paid(k) /\ IsFiniteSet(Paid(k))
          BY DEF PaidAndDone, PayersInv
        <5> QED
          BY <2>2, <5>1, PlacesFinite, FS_Subset, FS_CardinalityType
      <4> QED
        BY <3>4, <4>1, <4>2
    <3> QED
      BY <2>1, <3>5, <3>6
  <2> QED
    BY <2>1, <2>5, <2>6, <2>7
<1> QED
  BY <1>1, <1>2, PTL DEF SpecP

\* Whatever is re-executed, evicted, refused or issued again under the same id, a token
\* never has more events than debits.
THEOREM EventsArePaidFor == SpecP => []NoEventForNothing
<1>1. EventInv => NoEventForNothing
  <2> SUFFICES ASSUME EventInv, NEW k \in Key
               PROVE  Cardinality(EventsOf(k)) <= debited[k]
    BY DEF NoEventForNothing
  <2>1. PaidAndDone(k) \in SUBSET Paid(k) /\ IsFiniteSet(Paid(k))
    BY DEF PaidAndDone, EventInv, PayersInv
  <2>2. /\ Cardinality(PaidAndDone(k)) <= Cardinality(Paid(k))
        /\ Cardinality(PaidAndDone(k)) \in Nat /\ Cardinality(Paid(k)) \in Nat
    BY <2>1, FS_Subset, FS_CardinalityType
  <2>3. Cardinality(EventsOf(k)) \in Nat
    <3>1. Emissions \in Seq(Request) /\ EventsOf(k) = Places(Emissions, k)
      BY ConcatProperties DEF EventInv, Emissions, EventsOf, Places
    <3> QED
      BY <3>1, PlacesFinite
  <2>4. debited[k] \in Nat
    BY DEF EventInv, PayersInv, PaidInv, TypeOK
  <2> QED
    BY <2>2, <2>3, <2>4 DEF EventInv, PayersInv
<1> QED
  BY <1>1, EventInvariant, PTL

\* The point application of the composition is that of PointPipeline: it is given the
\* events of payments, and nothing else of the payments.
THEOREM PointsAsAlone == SpecP => Points!Spec
<1>1. InitP => Points!Init
  BY DEF InitP
<1>2. EventInv /\ [NextP]_systemVars => [Points!Next]_(Points!vars)
  <2> SUFFICES ASSUME EventInv, [NextP]_systemVars PROVE [Points!Next]_(Points!vars)
    OBVIOUS
  <2>1. ASSUME UNCHANGED pointVars PROVE UNCHANGED Points!vars
    BY <2>1 DEF pointVars, Points!vars, Points!gridVars
  <2>2. ASSUME NEW r \in Request, ServeP(r) PROVE UNCHANGED pointVars
    BY <2>2 DEF ServeP
  <2>3. CASE PublishP
    <3>1. outbox # <<>> /\ Points!Publish(EventOf(Head(outbox)))
      BY <2>3 DEF PublishP
    <3>2. Head(outbox) \in Request
      BY <3>1, HeadTailProperties DEF EventInv
    <3>3. EventOf(Head(outbox)) \in Points!Event
      BY <3>2, ArgTypes DEF EventOf, Points!Event, EventInv, PayersInv, PaidInv, TypeOK, AmountOf
    <3> QED
      BY <3>1, <3>3 DEF Points!Next
  <2>4. CASE Refuse \/ Others
    BY <2>1, <2>4 DEF Refuse, Others
  <2>5. CASE Reward \/ Upset
    BY <2>5 DEF Reward, Upset, Points!Next
  <2>6. CASE UNCHANGED systemVars
    BY <2>1, <2>6 DEF systemVars
  <2> QED
    BY <2>1, <2>2, <2>3, <2>4, <2>5, <2>6 DEF NextP
<1> QED
  BY <1>1, <1>2, EventInvariant, PTL DEF SpecP, Points!Spec

\* The two instances are of one specification.
LEMMA SamePipeline == Points!Spec => Pipeline!Spec
<1>1. Points!Init => Pipeline!Init
  BY DEF Points!Init, Pipeline!Init, Points!NoRun, Pipeline!NoRun
<1>2. [Points!Next]_(Points!vars) => [Pipeline!Next]_(Pipeline!vars)
  BY DEF Points!Next, Pipeline!Next, Points!vars, Pipeline!vars, Points!gridVars,
         Pipeline!gridVars, Points!Event, Pipeline!Event, Points!NoRun, Pipeline!NoRun,
         Points!Publish, Pipeline!Publish, Points!Start, Pipeline!Start,
         Points!Receive, Pipeline!Receive, Points!Dispatch, Pipeline!Dispatch,
         Points!Return, Pipeline!Return, Points!Forget, Pipeline!Forget,
         Points!Advanced, Pipeline!Advanced, Points!StoreOffset, Pipeline!StoreOffset,
         Points!Storable, Pipeline!Storable, Points!Crash, Pipeline!Crash,
         Points!Execute, Pipeline!Execute, Points!OwnerLost, Pipeline!OwnerLost,
         Points!Add, Pipeline!Add, Points!Commit, Pipeline!Commit,
         Points!PointsFor, Pipeline!PointsFor, Points!Unchanged, Pipeline!Unchanged
<1> QED
  BY <1>1, <1>2, PTL DEF Points!Spec, Pipeline!Spec

\* So that what holds of the point application alone holds of it behind the payment: no
\* event that the stored offset covers is without its points, no points are lost to one
\* another, and none are given twice unless something crashes.
THEOREM PointsTakeEffect ==
  SpecP => [](Points!NoneSkipped /\ Points!PointsAddUp /\ Points!CreditedOnce)
<1>1. Pipeline!PointAssumption
  BY PointsAssumption DEF Points!PointAssumption, Pipeline!PointAssumption
<1>2. Pipeline!Spec => []Pipeline!NoneSkipped
  BY <1>1, Pipeline!NothingSkipped, PTL
<1>3. Pipeline!Spec => []Pipeline!PointsAddUp
  BY <1>1, Pipeline!PointsConserved, PTL
<1>4. Pipeline!Spec => []Pipeline!CreditedOnce
  BY <1>1, Pipeline!NotTwice, PTL
<1>5. Pipeline!NoneSkipped => Points!NoneSkipped
  BY DEF Pipeline!NoneSkipped, Points!NoneSkipped
<1>6. Pipeline!PointsAddUp => Points!PointsAddUp
  BY DEF Pipeline!PointsAddUp, Points!PointsAddUp
<1>7. Pipeline!CreditedOnce => Points!CreditedOnce
  BY DEF Pipeline!CreditedOnce, Points!CreditedOnce
<1> QED
  BY <1>2, <1>3, <1>4, <1>5, <1>6, <1>7, PointsAsAlone, SamePipeline, PTL

-----------------------------------------------------------------------------
(* From the money to the points.                                           *)

\* A request whose client was told that it is paid.
Told(r) == pc[r] = "done" /\ charged[r] >= 1

\* As long as no payment fails each of them has one event, its own.
OneEventEach ==
  Faultless =>
    /\ \A i \in DOMAIN Emissions : Told(Emissions[i])
    /\ \A i, j \in DOMAIN Emissions : Emissions[i] = Emissions[j] => i = j
    /\ \A r \in Request : Told(r) => \E i \in DOMAIN Emissions : Emissions[i] = r

LogOfOrigin ==
  /\ log \in Seq(Points!Event)
  /\ Len(log) = Len(origin)
  /\ \A i \in 1..Len(log) : log[i] = EventOf(origin[i])

RewardInv == EventInv /\ ReplyInv /\ LogOfOrigin /\ OneEventEach

\* Who is about to be answered with a payment stays so, unless it emits the event.
LEMMA StaysAtNotify ==
  ASSUME TypeOK, [Next]_vars, NEW q \in Request, pc[q] = "notify", ~Notify(q), faults' = 0
  PROVE  pc'[q] = "notify"
<1>1. ASSUME NEW r \in Request, BufferKept(r), ~Notify(r) PROVE pc'[q] = "notify"
  <2>1. q # r
    BY <1>1 DEF BufferKept, Submit, Dispatch, Begin, PrepareWallet, PrepareToken,
                PreparePayment, CommitWallet, CommitToken, CommitPayment, LoadPayment,
                LockTimeout, NotifyOverflow, Waiting, At, Fault, TypeOK
  <2> QED
    BY <1>1, <2>1, Moves
<1>2. ASSUME NEW r \in Request, Notify(r) PROVE pc'[q] = "notify"
  BY <1>2, Moves DEF BufferKept
<1>3. ASSUME NEW r \in Request,
             LoadWallet(r) \/ LoadToken(r) \/ Charge(r) \/ Rollback(r) \/ OwnerLost(r)
      PROVE  pc'[q] = "notify"
  <2>1. q # r
    BY <1>3 DEF LoadWallet, LoadToken, Charge, Rollback, OwnerLost, At, Fault, TypeOK
  <2> QED
    BY <1>3, <2>1, Moves
<1>4. ASSUME NEW k \in Key, KeyStep(k) PROVE pc' = pc
  BY <1>4, TokenUntouched
<1>5. CASE UNCHANGED vars
  BY <1>5 DEF vars
<1> QED
  BY <1>1, <1>2, <1>3, <1>4, <1>5, Steps

\* Without failures nobody comes to be told so but by emitting the event.
LEMMA ToldKept ==
  ASSUME ReplyInv, [Next]_vars, faults' = 0, NEW q \in Request
  PROVE  /\ Told(q) => Told(q)'
         /\ ~Notify(q) => (Told(q)' => Told(q))
<1> USE DEF ReplyInv, PaidInv
<1>1. /\ charged \in [Request -> Nat] /\ charged' \in [Request -> Nat]
      /\ charged[q] <= charged'[q] /\ faults = 0
  BY NextTypeOK, VersionsMove, FaultsCounted DEF TypeOK
<1>2. Told(q) => Told(q)'
  BY <1>1, StaysDone DEF Told
<1>3. ASSUME ~Notify(q), pc'[q] = "done", charged'[q] >= 1
      PROVE  Told(q)
  <2>1. Exact(q) /\ Exact(q)'
    BY ExactStep
  <2>2. reply'[q] # Error
    BY <1>1, <1>3, <2>1 DEF Exact
  <2>3. pc[q] # "notify"
    BY <1>3, StaysAtNotify
  <2>4. pc[q] = "done" /\ reply'[q] = reply[q]
    <3>1. ASSUME NEW r \in Request, Quiet(r) PROVE pc[q] = "done" /\ reply'[q] = reply[q]
      BY <1>3, <2>2, <2>3, <3>1 DEF Quiet, QuietMove, Before, PastCharge
    <3>2. ASSUME NEW r \in Request, Writes(r) PROVE pc[q] = "done" /\ reply'[q] = reply[q]
      BY <1>3, <3>2, WalletCommitted, TokenCommitted, PaymentCommitted DEF Writes
    <3>3. ASSUME NEW k \in Key, CreateToken(k) \/ EvictToken(k) \/ EvictPayment(k)
          PROVE  pc[q] = "done" /\ reply'[q] = reply[q]
      BY <1>3, <3>3, KeyWritten
    <3>4. CASE UNCHANGED vars
      BY <1>3, <3>4 DEF vars
    <3> QED
      BY <3>1, <3>2, <3>3, <3>4, QuietOrWrites
  <2> QED
    BY <1>1, <2>1, <2>2, <2>4 DEF Exact, Told
<1> QED
  BY <1>2, <1>3 DEF Told

\* The replies of the composition are those of the payments.
LEMMA NextReplyP ==
  ASSUME EventInv, EventInv', ReplyInv, [NextP]_systemVars
  PROVE  ReplyInv'
<1>1. \/ [Next]_vars
      \/ Refuse
  BY EmissionsMove DEF EventInv, PayersInv, PaidInv
<1>2. CASE Refuse
  <2>1. /\ UNCHANGED <<tokenVars, paymentVars, pc, arg, reply, historyVars>>
        /\ faults' = faults + 1 /\ faults \in Nat
    BY <1>2 DEF Refuse, Fault, ReplyInv, PaidInv, TypeOK
  <2>2. \A r \in Request : Own(r)'
    BY <2>1 DEF Own, KeyOf, ReplyInv, paymentVars, historyVars
  <2>3. \A r \in Request : Exact(r)' /\ Stored(r)'
    BY <2>1 DEF Exact, Stored
  <2> QED
    BY <2>1, <2>2, <2>3 DEF ReplyInv, EventInv, PayersInv
<1> QED
  BY <1>1, <1>2, NextReply

\* The log is that of the payments whose events arrived.
LEMMA NextLog ==
  ASSUME EventInv, LogOfOrigin, [NextP]_systemVars
  PROVE  LogOfOrigin'
<1>1. Len(log) \in Nat /\ origin \in Seq(Request) /\ outbox \in Seq(Request)
      /\ \A i \in 1..Len(log) : origin[i] \in Request
  BY LenProperties, ElementOfSeq DEF EventInv, LogOfOrigin
<1>2. arg' = arg /\ \A r : EventOf(r)' = EventOf(r)
  <2>1. [Next]_vars \/ Refuse
    BY EmissionsMove DEF EventInv, PayersInv, PaidInv
  <2>2. arg' = arg
    BY <2>1, ArgFixed DEF Refuse
  <2> QED
    BY <2>2 DEF EventOf, Payer, AmountOf, KeyOf
<1>3. CASE PublishP
  <2> DEFINE first == Head(outbox)
             e == EventOf(first)
  <2>1. /\ outbox # <<>> /\ log' = Append(log, e) /\ origin' = Append(origin, first)
    BY <1>3 DEF PublishP, Points!Publish
  <2>2. first \in Request
    BY <1>1, <2>1, HeadTailProperties
  <2>3. e \in Points!Event
    BY <2>2, ArgTypes DEF EventOf, Points!Event, EventInv, PayersInv, PaidInv, TypeOK, AmountOf
  <2> HIDE DEF first, e
  <2>5. /\ log' \in Seq(Points!Event) /\ Len(log') = Len(log) + 1
        /\ \A i \in 1..Len(log) : log'[i] = log[i]
        /\ log'[Len(log) + 1] = e
    BY <2>1, <2>3, AppendProperties DEF LogOfOrigin
  <2>6. /\ Len(origin') = Len(log) + 1
        /\ \A i \in 1..Len(log) : origin'[i] = origin[i]
        /\ origin'[Len(log) + 1] = first
    BY <1>1, <2>1, <2>2, AppendProperties DEF LogOfOrigin
  <2>7. \A i \in 1..Len(log') : i \in 1..Len(log) \/ i = Len(log) + 1
    BY <1>1, <2>5
  <2>8. e = EventOf(first)
    BY DEF e
  <2>9. \A i \in 1..Len(log') : log'[i] = EventOf(origin'[i])
    BY <2>5, <2>6, <2>7, <2>8 DEF LogOfOrigin
  <2> QED
    BY <1>2, <2>5, <2>6, <2>9 DEF LogOfOrigin
<1>4. CASE ~PublishP
  <2>1. UNCHANGED <<log, origin>>
    BY <1>4 DEF NextP, ServeP, Refuse, Others, Reward, Upset, pointVars, systemVars,
                Points!Start, Points!Receive, Points!Return, Points!Execute, Points!Add,
                Points!Commit, Points!StoreOffset, Points!Crash, Points!OwnerLost
  <2> QED
    BY <1>2, <2>1 DEF LogOfOrigin
<1> QED
  BY <1>3, <1>4

\* Each event is that of a payment that nobody else has told of.
LEMMA NextOneEventEach ==
  ASSUME EventInv, ReplyInv, OneEventEach, [NextP]_systemVars
  PROVE  OneEventEach'
<1> SUFFICES ASSUME Faultless' PROVE OneEventEach'
  BY DEF OneEventEach
<1>1. /\ Emissions \in Seq(Request)
      /\ \/ [Next]_vars /\ Emissions' = Emissions /\ \A q \in Request : ~Notify(q)
         \/ \E r \in Request : Next /\ Notify(r) /\ Emissions' = Append(Emissions, reply[r])
         \/ Refuse
  BY EmissionsMove, ConcatProperties DEF EventInv, PayersInv, PaidInv, Emissions
<1>2. ~Refuse /\ faults' = 0
  BY DEF Refuse, Fault, Faultless, ReplyInv, PaidInv, TypeOK
<1>3. ASSUME [Next]_vars PROVE Faultless
  BY <1>2, <1>3, FaultsCounted, IssuesCounted DEF Faultless, ReplyInv, PaidInv
<1>4. \A i \in DOMAIN Emissions : Emissions[i] \in Request
  BY <1>1, ElementOfSeq, LenProperties
<1>5. CASE [Next]_vars /\ Emissions' = Emissions /\ \A q \in Request : ~Notify(q)
  <2>1. \A q \in Request : Told(q)' <=> Told(q)
    BY <1>2, <1>5, ToldKept
  <2> QED
    BY <1>3, <1>4, <1>5, <2>1 DEF OneEventEach
<1>6. ASSUME NEW r \in Request, Next, Notify(r), Emissions' = Append(Emissions, reply[r])
      PROVE  OneEventEach'
  <2> DEFINE new == Len(Emissions) + 1
  <2>1. reply[r] = r /\ ~Told(r) /\ Told(r)'
    <3>1. /\ pc[r] = "notify" /\ pc'[r] = "done" /\ charged' = charged /\ KeyOf(r) \in Key
          /\ reply[r] \in Request /\ charged[r] >= 1
      BY <1>6, ArgTypes DEF Notify, At, Goto, historyVars, ToldOfOwnKey, EventInv, PayersInv,
                            PaidInv, TypeOK
    <3>2. reply[r] = r
      BY <1>2, <1>3, <1>6, <3>1 DEF ReplyInv, Own, Faultless
    <3> QED
      BY <3>1, <3>2 DEF Told
  <2>2. \A q \in Request : q # r => (Told(q)' <=> Told(q))
    <3>1. \A q \in Request : q # r => ~Notify(q)
      <4> SUFFICES ASSUME NEW q \in Request, q # r, Notify(q) PROVE FALSE
        OBVIOUS
      <4>1. pc[q] = "notify" /\ pc' = [pc EXCEPT ![r] = "done"] /\ pc'[q] = "done"
            /\ pc \in [Request -> Label]
        BY <1>6 DEF Notify, At, Goto, ReplyInv, PaidInv, TypeOK
      <4> QED
        BY <4>1
    <3> QED
      BY <1>2, <1>6, <3>1, ToldKept
  <2>3. /\ Emissions' \in Seq(Request) /\ Len(Emissions') = new /\ Len(Emissions) \in Nat
        /\ \A i \in 1..Len(Emissions) : Emissions'[i] = Emissions[i]
        /\ Emissions'[new] = r
    BY <1>1, <1>6, <2>1, AppendProperties, LenProperties
  <2>4. /\ DOMAIN Emissions' = DOMAIN Emissions \cup {new} /\ new \notin DOMAIN Emissions
        /\ \A i \in DOMAIN Emissions : Emissions'[i] = Emissions[i]
    BY <1>1, <2>3, LenProperties
  <2>5. \A i \in DOMAIN Emissions : Told(Emissions[i]) /\ Emissions[i] # r
    BY <1>3, <1>6, <2>1 DEF OneEventEach
  <2> HIDE DEF new
  <2>6. \A i \in DOMAIN Emissions' : pc'[Emissions'[i]] = "done" /\ charged'[Emissions'[i]] >= 1
    <3>1. pc'[r] = "done" /\ charged'[r] >= 1
      BY <2>1 DEF Told
    <3>2. \A i \in DOMAIN Emissions :
            pc'[Emissions[i]] = "done" /\ charged'[Emissions[i]] >= 1
      BY <1>4, <2>2, <2>5 DEF Told
    <3> QED
      BY <2>3, <2>4, <3>1, <3>2
  <2>7. \A i, j \in DOMAIN Emissions' : Emissions'[i] = Emissions'[j] => i = j
    <3>1. \A i, j \in DOMAIN Emissions : Emissions[i] = Emissions[j] => i = j
      BY <1>3, <1>6 DEF OneEventEach
    <3>2. \A i \in DOMAIN Emissions : Emissions[i] # r
      BY <2>5
    <3> QED
      BY <2>3, <2>4, <3>1, <3>2
  <2>8. ASSUME NEW q \in Request, Told(q)'
        PROVE  \E i \in DOMAIN Emissions' : Emissions'[i] = q
    <3>1. CASE q = r
      BY <2>3, <2>4, <3>1
    <3>2. CASE q # r
      BY <1>3, <1>6, <2>2, <2>4, <2>8, <3>2 DEF OneEventEach
    <3> QED
      BY <3>1, <3>2
  <2> QED
    BY <2>6, <2>7, <2>8 DEF OneEventEach, Told
<1> QED
  BY <1>1, <1>2, <1>5, <1>6

LEMMA RewardInvariant == SpecP => []RewardInv
<1>1. InitP => ReplyInv /\ LogOfOrigin /\ OneEventEach
  <2> SUFFICES ASSUME InitP PROVE ReplyInv /\ LogOfOrigin /\ OneEventEach
    OBVIOUS
  <2>1. Init /\ outbox = <<>> /\ origin = <<>> /\ log = <<>> /\ Emissions = <<>>
    BY DEF InitP, Points!Init, Emissions
  <2>2. ReplyInv /\ \A r \in Request : ~Told(r)
    BY <2>1, InitReply DEF Told, Init
  <2>3. LogOfOrigin
    BY <2>1, EmptySeq DEF LogOfOrigin
  <2>4. OneEventEach
    BY <2>1, <2>2 DEF OneEventEach
  <2> QED
    BY <2>2, <2>3, <2>4
<1>2. ReplyInv /\ LogOfOrigin /\ OneEventEach /\ EventInv /\ EventInv' /\ [NextP]_systemVars
        => (ReplyInv /\ LogOfOrigin /\ OneEventEach)'
  BY NextReplyP, NextLog, NextOneEventEach
<1> QED
  BY <1>1, <1>2, EventInvariant, PTL DEF SpecP, RewardInv

\* Payments have come to rest, and the broker has their events.
PaymentsSettled ==
  /\ \A r \in Request : pc[r] \in {"idle", "done"}
  /\ outbox = <<>>

\* Then the topic holds one event for each who was charged.
LEMMA EventsAtRest ==
  ASSUME RewardInv, PaymentsSettled, Faultless
  PROVE  /\ \A r \in Request : /\ charged[r] \in {0, 1}
                               /\ charged[r] = 1 => \E i \in 1..Len(log) : origin[i] = r
         /\ \A i \in 1..Len(log) : /\ origin[i] \in Request /\ charged[origin[i]] = 1
                                   /\ log[i] = EventOf(origin[i])
         /\ \A i, j \in 1..Len(log) : origin[i] = origin[j] => i = j
         /\ Len(log) \in Nat
<1>1. /\ origin \in Seq(Request) /\ DOMAIN origin = 1..Len(log) /\ Len(log) \in Nat
      /\ Emissions = origin
  BY LenProperties, ConcatEmptySeq DEF RewardInv, EventInv, LogOfOrigin, Emissions, PaymentsSettled
<1>2. \A i \in 1..Len(log) : origin[i] \in Request
  BY <1>1, ElementOfSeq DEF RewardInv, LogOfOrigin
<1>3. /\ \A i \in 1..Len(log) : Told(origin[i])
      /\ \A i, j \in 1..Len(log) : origin[i] = origin[j] => i = j
      /\ \A r \in Request : Told(r) => \E i \in 1..Len(log) : origin[i] = r
  BY <1>1 DEF RewardInv, OneEventEach
<1>4. \A r \in Request : charged[r] \in {0, 1} /\ (charged[r] = 1 => pc[r] = "done")
  BY DEF RewardInv, ReplyInv, Exact, PaymentsSettled, Faultless
<1>5. \A r \in Request : Told(r) <=> charged[r] = 1
  BY <1>4 DEF Told
<1> QED
  BY <1>1, <1>2, <1>3, <1>4, <1>5 DEF RewardInv, LogOfOrigin

\* The points that are due, and those that were given, one by one.
LEMMA PointDue ==
  ASSUME NEW s, NEW x
  PROVE  x \in PointsDue(s)
           <=> \E r \in Request :
                 /\ Payer(r) = s
                 /\ x \in {r} \X (1..charged[r]) \X (1..Points!PointsFor(AmountOf(r)))
<1>1. \A r : r \in {q \in Request : Payer(q) = s} <=> r \in Request /\ Payer(r) = s
  OBVIOUS
<1> QED
  BY <1>1 DEF PointsDue

LEMMA PointGiven ==
  ASSUME NEW s, NEW y
  PROVE  y \in Pipeline!EarnedPoints(s)
           <=> \E i \in 1..Len(log) :
                 /\ log[i].owner = s
                 /\ y \in {i} \X (1..credited[i]) \X (1..Points!PointsFor(log[i].amount))
<1>1. \A i : i \in Pipeline!EventsFor(s) <=> i \in 1..Len(log) /\ log[i].owner = s
  BY DEF Pipeline!EventsFor
<1>2. \A i : Pipeline!PointsOf(i)
               = {i} \X (1..credited[i]) \X (1..Points!PointsFor(log[i].amount))
  BY DEF Pipeline!PointsOf, Pipeline!PointsFor, Points!PointsFor
<1>3. y \in Pipeline!EarnedPoints(s)
        <=> \E i \in Pipeline!EventsFor(s) : y \in Pipeline!PointsOf(i)
  BY DEF Pipeline!EarnedPoints
<1> QED
  BY <1>1, <1>2, <1>3

\* A finite set of the point application is one here, and of the same size.
LEMMA SameFinite ==
  ASSUME NEW S
  PROVE  Pipeline!IsFiniteSet(S) <=> IsFiniteSet(S)
BY DEF Pipeline!IsFiniteSet, IsFiniteSet

LEMMA SameCount ==
  ASSUME NEW S
  PROVE  Pipeline!Cardinality(S) = Cardinality(S)
BY DEF Pipeline!Cardinality, Cardinality

\* Each point that is due was given for the event of its payment, and none else as long
\* as nothing crashes.
LEMMA WorthEarned ==
  ASSUME RewardInv, Settled, Faultless, Pipeline!PointInv, Pipeline!EarnedInv,
         PointsAssumption, NEW s \in Shopper, s # First \/ crashes = 0
  PROVE  /\ earned[s] \in Nat /\ Worth(s) \in Nat /\ Worth(s) <= earned[s]
         /\ Points!CreditedOnce /\ crashes = 0 /\ ownersLost = 0 => Worth(s) = earned[s]
<1> DEFINE Due == PointsDue(s)
           Got == Pipeline!EarnedPoints(s)
           place(r) == CHOOSE i \in 1..Len(log) : origin[i] = r
           g == [x \in Due |-> <<place(x[1]), x[2], x[3]>>]
           Pts(r) == Points!PointsFor(AmountOf(r))
<1>0. PaymentsSettled
  BY DEF Settled, PaymentsSettled
<1>1. IsFiniteSet(Got) /\ earned[s] = Cardinality(Got) /\ earned[s] \in Nat
  <2>1. earned \in [Shopper -> Nat]
    BY DEF Pipeline!PointInv, Pipeline!TypeOK
  <2>2. Pipeline!Counted(s)
    BY DEF Pipeline!EarnedInv
  <2> QED
    <3>1. IsFiniteSet(Got) /\ earned[s] = Cardinality(Got)
      BY <2>2, SameFinite, SameCount DEF Pipeline!Counted
    <3> QED
      BY <2>1, <3>1
<1>2. /\ \A i \in 1..Len(log) : /\ i \in 1..MaxEvents /\ credited[i] \in Nat /\ credited[i] >= 1
                                /\ origin[i] \in Request /\ charged[origin[i]] = 1
                                /\ log[i].owner = Payer(origin[i])
                                /\ log[i].amount = AmountOf(origin[i])
                                /\ place(origin[i]) = i
      /\ \A r \in Request : /\ charged[r] \in {0, 1}
                            /\ charged[r] = 1 => /\ place(r) \in 1..Len(log)
                                                 /\ origin[place(r)] = r
  <2>1. /\ Len(log) <= MaxEvents /\ credited \in [1..MaxEvents -> Nat] /\ MaxEvents \in Nat
        /\ Len(log) \in Nat
    BY <1>0, PointsAssumption, EventsAtRest
       DEF Pipeline!PointInv, Pipeline!TypeOK, Points!PointAssumption
  <2>2. \A i \in 1..Len(log) : credited[i] >= 1
    BY DEF Pipeline!PointInv, Pipeline!PositionCredited, Settled
  <2>3. \A i \in 1..Len(log) : i \in 1..MaxEvents /\ credited[i] \in Nat /\ credited[i] >= 1
    BY <2>1, <2>2
  <2>4. \A r \in Request : /\ charged[r] \in {0, 1}
                           /\ charged[r] = 1 => /\ place(r) \in 1..Len(log)
                                                /\ origin[place(r)] = r
    BY <1>0, EventsAtRest
  <2>5. \A i \in 1..Len(log) : place(origin[i]) = i
    BY <1>0, <2>4, EventsAtRest
  <2>6. \A i \in 1..Len(log) : /\ log[i].owner = Payer(origin[i])
                               /\ log[i].amount = AmountOf(origin[i])
    <3>1. \A i \in 1..Len(log) : log[i] = EventOf(origin[i])
      BY <1>0, EventsAtRest
    <3>2. \A r : EventOf(r).owner = Payer(r) /\ EventOf(r).amount = AmountOf(r)
      BY DEF EventOf
    <3> QED
      BY <3>1, <3>2
  <2> QED
    BY <1>0, <2>3, <2>4, <2>5, <2>6, EventsAtRest
<1> HIDE DEF place
<1>3. \A x \in Due : /\ x = <<x[1], x[2], x[3]>>
                     /\ x[1] \in Request /\ Payer(x[1]) = s /\ charged[x[1]] = 1
                     /\ x[2] = 1 /\ x[3] \in 1..Pts(x[1])
  BY <1>2, PointDue
<1>4. \A y \in Got : /\ y = <<y[1], y[2], y[3]>>
                     /\ y[1] \in 1..Len(log) /\ log[y[1]].owner = s
                     /\ y[2] \in 1..credited[y[1]] /\ y[3] \in 1..Points!PointsFor(log[y[1]].amount)
  BY PointGiven
<1>5. \A x \in Due : g[x] = <<place(x[1]), 1, x[3]>> /\ g[x] \in Got
  <2> SUFFICES ASSUME NEW x \in Due PROVE g[x] = <<place(x[1]), 1, x[3]>> /\ g[x] \in Got
    OBVIOUS
  <2> DEFINE i == place(x[1])
  <2>1. i \in 1..Len(log) /\ origin[i] = x[1]
    BY <1>2, <1>3
  <2>2. g[x] = <<i, 1, x[3]>>
    BY <1>3
  <2>3. log[i].owner = s /\ x[3] \in 1..Points!PointsFor(log[i].amount) /\ 1 \in 1..credited[i]
    BY <1>2, <1>3, <2>1
  <2> HIDE DEF i
  <2>4. <<i, 1, x[3]>> \in {i} \X (1..credited[i]) \X (1..Points!PointsFor(log[i].amount))
    BY <2>3
  <2>5. <<i, 1, x[3]>> \in Got
    BY <2>1, <2>3, <2>4, PointGiven
  <2> QED
    BY <2>2, <2>5 DEF i
<1>6. g \in Injection(Due, Got)
  <2>1. ASSUME NEW x \in Due, NEW y \in Due, g[x] = g[y] PROVE x = y
    <3>1. place(x[1]) = place(y[1]) /\ x[3] = y[3] /\ x[2] = y[2]
      BY <1>3, <1>5, <2>1
    <3>2. x[1] = y[1]
      BY <1>2, <1>3, <3>1
    <3> QED
      BY <1>3, <3>1, <3>2
  <2> HIDE DEF Due, Got
  <2>2. g \in [Due -> Got]
    BY <1>5
  <2>3. IsInjective(g)
    BY <2>1 DEF IsInjective
  <2> QED
    BY <2>2, <2>3 DEF Injection
<1> HIDE DEF g, Due, Got
<1>7. /\ IsFiniteSet(Due) /\ Cardinality(Due) <= Cardinality(Got)
      /\ Cardinality(Due) = Cardinality(Got) <=> g \in Surjection(Due, Got)
  BY <1>1, <1>6, FS_Injection
<1>8. Worth(s) = Cardinality(Due) /\ Worth(s) \in Nat
  BY <1>7, FS_CardinalityType DEF Worth, Due
<1>9. ASSUME Points!CreditedOnce, crashes = 0, ownersLost = 0 PROVE g \in Surjection(Due, Got)
  <2>1. \A i \in 1..Len(log) : credited[i] = 1
    BY <1>2, <1>9 DEF Points!CreditedOnce
  <2>2. ASSUME NEW y \in Got PROVE \E x \in Due : g[x] = y
    <3> DEFINE r == origin[y[1]]
               x == <<r, 1, y[3]>>
    <3>1. /\ y = <<y[1], 1, y[3]>> /\ r \in Request /\ charged[r] = 1 /\ Payer(r) = s
          /\ place(r) = y[1] /\ y[3] \in 1..Pts(r)
      BY <1>2, <1>4, <2>1, <2>2
    <3>2. x \in {r} \X (1..charged[r]) \X (1..Pts(r))
      BY <3>1
    <3>3. x \in Due
      BY <3>1, <3>2, PointDue DEF Due
    <3>4. g[x] = y
      BY <1>5, <3>1, <3>3
    <3> QED
      BY <3>3, <3>4
  <2>3. g \in [Due -> Got]
    BY <1>6 DEF Injection
  <2> QED
    BY <2>2, <2>3 DEF Surjection
<1> QED
  BY <1>1, <1>7, <1>8, <1>9

\* When everything has come to rest and no payment has failed, nobody's points are fewer
\* than those of the money that was taken, but for the shopper whose entry is put anew;
\* and without crashes they are just those.
THEOREM PointsAreWorthTheMoney == SpecP => []PointsMatchSpending
<1>1. Pipeline!PointAssumption
  BY PointsAssumption DEF Points!PointAssumption, Pipeline!PointAssumption
<1>2. Pipeline!Spec => [](Pipeline!PointInv /\ Pipeline!EarnedInv)
  BY <1>1, Pipeline!EarnedInvariant, PTL
<1>3. ASSUME RewardInv, Pipeline!PointInv, Pipeline!EarnedInv, Points!CreditedOnce
      PROVE  PointsMatchSpending
  <2> SUFFICES ASSUME Settled, Faultless
               PROVE  /\ \A s \in DOMAIN points \ {First} : points[s] >= StartPoints + Worth(s)
                      /\ crashes = 0 /\ ownersLost = 0
                           => \A s \in DOMAIN points : points[s] = StartPoints + Worth(s)
    BY DEF PointsMatchSpending
  <2>1. First \in Shopper /\ StartPoints \in Nat /\ DOMAIN points \subseteq Shopper
    BY <1>3, PointsAssumption DEF Points!PointAssumption, Pipeline!PointInv, Pipeline!TypeOK
  <2>2. \A s \in DOMAIN points : points[s] = StartPoints + earned[s]
    BY <1>3 DEF Pipeline!PointInv, Pipeline!PointsAddUp
  <2>3. \A s \in Shopper : s # First \/ crashes = 0 =>
          /\ earned[s] \in Nat /\ Worth(s) \in Nat /\ Worth(s) <= earned[s]
          /\ crashes = 0 /\ ownersLost = 0 => Worth(s) = earned[s]
    BY <1>3, WorthEarned, PointsAssumption
  <2>4. \A s \in DOMAIN points \ {First} : points[s] >= StartPoints + Worth(s)
    BY <2>1, <2>2, <2>3
  <2> QED
    BY <2>1, <2>2, <2>3, <2>4
<1> QED
  BY <1>2, <1>3, RewardInvariant, PointsAsAlone, SamePipeline, PointsTakeEffect, PTL

\* What PaidIsRewarded comes to where nothing moves any more.  If the consumer has handled
\* the topic, whoever was charged has got the points; if it has stopped, and nothing has
\* crashed, so has everybody before the event of a shopper without an entry.
RewardedAtRest ==
  PaymentsSettled /\ Faultless
    => /\ consumer = "idle" /\ position = Len(log)
            => \A r \in Request : charged[r] >= 1 => Rewarded(r)
       /\ consumer = "stopped" /\ crashes = 0 /\ ownersLost = 0
            => \A r \in Request : charged[r] >= 1 => Rewarded(r) \/ Blocked(r)

\* However often the point application was restarted and the nodes of its task died, while
\* its consumer goes on no event is left behind between the grid, the emitter, the topic
\* and the task; and an event that stops it by itself is that of a shopper without an entry.
THEOREM NobodyUnrewarded == SpecP => []RewardedAtRest
<1>1. Pipeline!PointAssumption
  BY PointsAssumption DEF Points!PointAssumption, Pipeline!PointAssumption
<1>2. Pipeline!Spec => [](Pipeline!PointInv /\ Pipeline!StopsForWantOfEntry)
  BY <1>1, Pipeline!PointInvariant, Pipeline!StopsOnlyAtMissing, PTL
<1>3. ASSUME RewardInv, Pipeline!PointInv, Pipeline!StopsForWantOfEntry
      PROVE  RewardedAtRest
  <2> SUFFICES ASSUME PaymentsSettled, Faultless, NEW r \in Request, charged[r] >= 1
               PROVE  /\ consumer = "idle" /\ position = Len(log) => Rewarded(r)
                      /\ consumer = "stopped" /\ crashes = 0 /\ ownersLost = 0
                           => Rewarded(r) \/ Blocked(r)
    BY DEF RewardedAtRest
  <2>1. PICK i \in 1..Len(log) : origin[i] = r
    BY <1>3, EventsAtRest
  <2>2. i \in DOMAIN origin
    BY <1>3, <2>1, LenProperties DEF RewardInv, EventInv, LogOfOrigin
  <2>3. i \in 1..position => Rewarded(r)
    BY <1>3, <2>1, <2>2 DEF Rewarded, Pipeline!PointInv, Pipeline!PositionCredited
  <2>4. position \in Nat /\ Len(log) \in Nat
    BY <1>3, EventsAtRest DEF Pipeline!PointInv, Pipeline!TypeOK
  <2>5. ASSUME consumer = "stopped", crashes = 0, ownersLost = 0, i \notin 1..position
        PROVE  Blocked(r)
    <3>1. position + 1 \in 1..i
      BY <2>1, <2>4, <2>5
    <3>2. WithoutEntry(log[position + 1].owner)
      BY <1>3, <2>5
      DEF Pipeline!StopsForWantOfEntry, Pipeline!Undisturbed, Pipeline!HasEntry, WithoutEntry
    <3> QED
      BY <2>1, <2>2, <3>1, <3>2 DEF Blocked
  <2> QED
    BY <2>1, <2>3, <2>5
<1> QED
  BY <1>2, <1>3, RewardInvariant, PointsAsAlone, SamePipeline, PTL

-----------------------------------------------------------------------------
(* What holds of the payments alone holds of them in the composition.      *)

\* What is known of payments beyond what their events need: the three caches, what
\* made a payment give up, and the locks.
SystemInv == CachesInv /\ ConflictInv /\ LocksInOrder

\* An event that is refused is a fault, and nothing of the payments.
LEMMA RefuseKeeps ==
  ASSUME EventInv', ReplyInv', SystemInv, Refuse
  PROVE  SystemInv'
<1> USE DEF SystemInv
<1>1. /\ UNCHANGED <<walletVars, tokenVars, paymentVars, pc, arg, taskVars, reply,
                     historyVars>>
      /\ faults' = faults + 1 /\ faults \in Nat
  BY DEF Refuse, Fault, CachesInv, TokenSafe, TypeOK
<1>2. TypeOK' /\ Afforded' /\ TokenInv'
  BY DEF EventInv, PayersInv, PaidInv
<1>3. WalletAsRead' /\ WalletHeld' /\ Conservation'
  <2>1. WalletAsRead /\ WalletHeld /\ Conservation
    BY DEF CachesInv, WalletInv
  <2>2. WalletAsRead' /\ WalletHeld'
    BY <1>1, <2>1 DEF WalletAsRead, WalletHeld, walletVars, taskVars, Payer, KeyOf
  <2>3. Conservation'
    BY <1>1, <2>1 DEF Conservation, walletVars, historyVars
  <2> QED
    BY <2>2, <2>3
<1>4. TokenKept' /\ PaymentHeld'
  <2>1. TokenKept
    BY DEF CachesInv, TokenSafe
  <2>2. TokenKept'
    BY <1>1, <2>1 DEF TokenKept, tokenVars, KeyOf
  <2> QED
    BY <1>1, <2>2 DEF CachesInv, PaymentHeld, paymentVars, KeyOf
<1>5. VersionsCount' /\ \A r \in Request : (OthersKeepOff(r) /\ Outrun(r) /\ Caught(r))'
  <2>1. \A r \in Request : ~Alone(r)'
    BY <1>1 DEF Alone
  <2>2. \A r \in Request : Caught(r)'
    BY <1>1 DEF ConflictInv, Caught, taskVars, Payer, KeyOf
  <2> QED
    BY <1>1, <2>1, <2>2 DEF VersionsCount, OthersKeepOff, Outrun
<1>6. LocksInOrder'
  BY <1>1 DEF LocksInOrder, walletVars, tokenVars, paymentVars, KeyOf, Payer
<1> QED
  BY <1>2, <1>3, <1>4, <1>5, <1>6 DEF CachesInv, WalletInv, TokenSafe, ConflictInv

\* Every step is one of the payments, or a refused event.
LEMMA StepsP ==
  ASSUME EventInv, [NextP]_systemVars
  PROVE  [Next]_vars \/ Refuse
BY EmissionsMove DEF EventInv, PayersInv, PaidInv

LEMMA SystemInvariant == SpecP => []SystemInv
<1>1. InitP => SystemInv
  <2>1. Init => LocksInOrder
    BY DEF Init, LocksInOrder
  <2> QED
    BY <2>1, InitCachesInv, InitConflict DEF InitP, SystemInv
<1>2. SystemInv /\ RewardInv /\ RewardInv' /\ [NextP]_systemVars => SystemInv'
  <2> SUFFICES ASSUME SystemInv, RewardInv, RewardInv', [NextP]_systemVars
               PROVE  SystemInv'
    OBVIOUS
  <2>1. CASE [Next]_vars
    BY <2>1, NextCachesInv, NextConflict, NextLocks
    DEF SystemInv, CachesInv, TokenSafe
  <2>2. CASE Refuse
    BY <2>2, RefuseKeeps DEF RewardInv
  <2> QED
    BY <2>1, <2>2, StepsP DEF RewardInv
<1> QED
  BY <1>1, <1>2, RewardInvariant, PTL DEF SpecP

\* The wallets keep their books, a token is paid once per issue of it, the caches agree
\* between commits, and nobody waits in a circle, while events are emitted, refused and
\* turned into points.
THEOREM PaymentsAsAlone ==
  SpecP => [](TypeOK /\ Conservation /\ ChargedOncePerIssue /\ AllOrNothing /\ NoDeadlock)
<1>1. SystemInv => TypeOK /\ Conservation /\ ChargedOncePerIssue /\ NoDeadlock
  BY NobodyInCircles DEF SystemInv, CachesInv, WalletInv, TokenSafe, TokenInv
<1>2. SystemInv => AllOrNothing
  BY CachesAgree DEF SystemInv, ConflictInv
<1> QED
  BY <1>1, <1>2, SystemInvariant, PTL

\* Clients are answered as truthfully, and give up for no less.
THEOREM RepliesAsAlone ==
  SpecP => [](ReplyTellsTheTruth /\ ReplyIsOwn /\ ConflictsMeanProgress)
<1>1. ReplyInv => ReplyTellsTheTruth /\ ReplyIsOwn
  BY DEF ReplyInv, Exact, Own, ReplyTellsTheTruth, ReplyIsOwn, At
<1>2. SystemInv => ReplyInv /\ ConflictsMeanProgress
  BY ConflictsCounted DEF SystemInv, ConflictInv
<1> QED
  BY <1>1, <1>2, SystemInvariant, PTL

\* Tokens live as they do without events, and no request is tried for ever: a refused
\* event moves neither.
THEOREM StepsAsAlone == SpecP => TokenLifecycle /\ NoEndlessRetry
<1>1. ASSUME SystemInv, EventInv, [NextP]_systemVars
      PROVE  /\ [\A k \in Key : Moved(k)]_vars
             /\ [\A r \in Request : Forward(r)]_vars
  <2>1. TypeOK /\ TokenSafe
    BY <1>1 DEF SystemInv, CachesInv, TokenSafe
  <2>2. CASE [Next]_vars
    BY <2>1, <2>2, TokenMoved, StepsForward
  <2>3. CASE Refuse
    BY <2>1, <2>3, ServeGoesOn DEF Refuse, Moved, Forward, tokenVars, taskVars
  <2> QED
    BY <1>1, <2>2, <2>3, StepsP
<1> QED
  BY <1>1, EventInvariant, SystemInvariant, PTL
  DEF SpecP, TokenLifecycle, Moved, NoEndlessRetry, Forward

\* Behind the payment the point application implements its ledger as it does alone, and
\* no event overtakes another.
THEOREM PointsInOrder == SpecP => Points!ImplementsLedger /\ []Pipeline!NoneOvertaken
<1>1. Pipeline!PointAssumption
  BY PointsAssumption DEF Points!PointAssumption, Pipeline!PointAssumption
<1>2. Pipeline!Spec => Pipeline!ImplementsLedger
  BY <1>1, Pipeline!Implements, PTL
<1>3. Pipeline!Spec => []Pipeline!NoneOvertaken
  BY <1>1, Pipeline!EventsInOrder, PTL
<1>4. Pipeline!Ledger!Init => Points!Ledger!Init
  BY DEF Points!Ledger!Init, Pipeline!Ledger!Init
<1>5. [Pipeline!Ledger!Next]_(Pipeline!Ledger!vars) => [Points!Ledger!Next]_(Points!Ledger!vars)
  BY DEF
         Points!Ledger!Init, Pipeline!Ledger!Init, Points!Ledger!Next, Pipeline!Ledger!Next,
         Points!Ledger!Spec, Pipeline!Ledger!Spec, Points!Ledger!vars, Pipeline!Ledger!vars,
         Points!Ledger!Event, Pipeline!Ledger!Event, Points!Ledger!Publish, Pipeline!Ledger!Publish,
         Points!Ledger!Give, Pipeline!Ledger!Give, Points!Ledger!Confirm, Pipeline!Ledger!Confirm,
         Points!Ledger!Put, Pipeline!Ledger!Put, Points!Ledger!Fail, Pipeline!Ledger!Fail,
         Points!Ledger!PointsFor, Pipeline!Ledger!PointsFor
<1>6. Pipeline!ImplementsLedger => Points!ImplementsLedger
  BY <1>4, <1>5, PTL
  DEF Pipeline!ImplementsLedger, Points!ImplementsLedger, Pipeline!Ledger!Spec,
      Points!Ledger!Spec
<1> QED
  BY <1>2, <1>3, <1>6, PointsAsAlone, SamePipeline, PTL

\* Payments and points together implement their two ledgers, but for the steps in which
\* a node dies between two commits: money is taken in one indivisible payment each,
\* points are given in one indivisible step each, and the event between them is all
\* they share.
THEOREM LedgersTogether == SpecP => ImplementsButTorn /\ Points!ImplementsLedger
<1>1. InitP => Ledger!Init
  BY InitLedger DEF InitP
<1>2. LedgerInv /\ LedgerInv' /\ EventInv /\ [NextP]_systemVars
        => [Torn \/ [Ledger!Next]_(Ledger!vars)]_vars
  <2> SUFFICES ASSUME LedgerInv, LedgerInv', EventInv, [NextP]_systemVars
               PROVE  Torn \/ [Ledger!Next]_(Ledger!vars)
    OBVIOUS
  <2>1. CASE [Next]_vars
    BY <2>1, LedgerStep
  <2>2. CASE Refuse
    BY <2>2
    DEF Refuse, Ledger!vars, Open, Receipt, Between, MidCommit, KeyOf, walletVars,
        tokenVars, paymentVars
  <2> QED
    BY <2>1, <2>2, StepsP
<1>3. SystemInv => LedgerInv
  BY CachesLedger DEF SystemInv
<1>4. SpecP => ImplementsButTorn
  BY <1>1, <1>2, <1>3, EventInvariant, SystemInvariant, PTL DEF SpecP, ImplementsButTorn
<1> QED
  BY <1>4, PointsInOrder
=============================================================================
