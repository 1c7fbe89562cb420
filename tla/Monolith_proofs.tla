--------------------------- MODULE Monolith_proofs ---------------------------
(***************************************************************************)
(* Proofs about the monolith, for every set of shoppers, tokens, payments  *)
(* and creations, every wallet, and any number of lost connections.        *)
(***************************************************************************)
EXTENDS Monolith, Wallet_proofs, TLAPS

-----------------------------------------------------------------------------
(* The invariant, request by request and token by token.                   *)

\* The labels at which a payment has the wallet's row, and the token's.
HasWallet == {"token", "charge", "commit"}
HasToken == {"charge", "commit"}
Unpaid == {"idle", "wallet", "waitWallet", "token", "charge"}

\* The rows that a payment has found are there, the wallet that it has read is locked
\* and still holds what was read.
WalletRead(r) ==
  /\ pc[r] \in {"wallet", "waitWallet"} \cup HasWallet => HasRows(Payer(r))
  /\ pc[r] \in HasWallet =>
       walletLock[Payer(r)] = r /\ buf[r].balance = balance[Payer(r)]

\* Nothing is paid before Charge; what will be stored of a token that it has locked
\* fits to what is stored of it.
TokenRead(r) ==
  /\ pc[r] \in Unpaid => ~buf[r].paid
  /\ pc[r] \in HasToken => tokenLock[KeyOf(r)] = r
  /\ pc[r] = "charge" =>
       buf[r].token = "PROCESSING" /\ token[KeyOf(r)] = "UNUSED"
  /\ pc[r] = "commit" /\ buf[r].paid =>
       /\ buf[r].token = "USED" /\ token[KeyOf(r)] = "UNUSED"
       /\ Payable(buf[r].balance, AutoCharge[Payer(r)], AmountOf(r))
  /\ pc[r] = "commit" /\ ~buf[r].paid =>
       \/ buf[r].token = token[KeyOf(r)] /\ token[KeyOf(r)] # "UNUSED"
       \/ buf[r].token = "PROCESSING" /\ token[KeyOf(r)] = "UNUSED"

\* A request has charged before it answers, if at all, and tells so unless its
\* connection breaks.
Told(r) ==
  /\ pc[r] \in Unpaid \cup {"commit"} => charged[r] = 0
  /\ pc[r] = "answer" => charged[r] = IF buf[r].paid THEN 1 ELSE 0
  /\ pc[r] = "done" /\ lost = 0 => charged[r] = IF reply[r] = Ok THEN 1 ELSE 0

RequestOK(r) == WalletRead(r) /\ TokenRead(r) /\ Told(r)

\* A token that can be paid with has an issue that was not yet paid for; and as long
\* as nothing was deleted, payments and debits go together.
TokenOK(k) ==
  /\ debited[k] <= issued[k]
  /\ token[k] = "UNUSED" => debited[k] < issued[k]
  /\ token[k] # Absent => issued[k] >= 1
  /\ since[k] > 0 => payment[k] # NoTx
  /\ era = 0 => (payment[k] # NoTx <=> debited[k] > 0)
  /\ era = 0 /\ issued[k] <= 1 => (token[k] = "USED" <=> debited[k] = 1)

\* A creation that has found a token has found one that was issued.
CreationOK(c) ==
  /\ pc[c] = "flush" => found[c] \in Key \X Status
  /\ found[c] \in Key \X Status /\ found[c][2] # Absent => issued[found[c][1]] >= 1

MonolithInv ==
  /\ TypeOK
  /\ \A r \in Request : RequestOK(r)
  /\ \A k \in Key : TokenOK(k)
  /\ \A c \in Creator : CreationOK(c)
  /\ Conservation

-----------------------------------------------------------------------------
(* What most actions have in common.                                       *)

\* Roles do not overlap.
LEMMA Roles ==
  /\ \A r \in Request : r \in Tx /\ r \notin Creator /\ r # Admin /\ r # NoTx
  /\ \A c \in Creator : c \notin Request /\ c # Admin
  /\ Admin # NoTx /\ Admin \in Tx /\ Tx = Request \cup {Admin}
BY MonolithAssumption DEF Tx

\* What a request asks for, from the types.
LEMMA ArgTypes ==
  ASSUME TypeOK, NEW r \in Request
  PROVE  /\ KeyOf(r) \in Key
         /\ Payer(r) \in Shopper
         /\ AmountOf(r) \in Money
         /\ AutoCharge[Payer(r)] \in Money
         /\ buf[r] \in [balance : Money, token : Status, era : Nat, paid : BOOLEAN]
<1>1. arg[r] \in [key : Key, amount : Amount]
  BY DEF TypeOK
<1>2. KeyOf(r) \in Key /\ AmountOf(r) \in Amount
  BY <1>1 DEF KeyOf, AmountOf
<1>3. Payer(r) \in Shopper
  BY <1>2 DEF Payer, Owner, Key
<1> QED
  BY <1>2, <1>3, MonolithAssumption DEF TypeOK

\* A step of somebody else leaves a request as it was, as long as it leaves what the
\* request has locked.
LEMMA OtherRequest ==
  ASSUME NEW r \in Request, RequestOK(r),
         pc'[r] = pc[r], buf'[r] = buf[r], arg' = arg, ready => ready',
         charged'[r] = charged[r],
         (lost' = lost /\ reply'[r] = reply[r]) \/ lost' # 0,
         pc[r] \in HasWallet /\ walletLock[Payer(r)] = r =>
           walletLock'[Payer(r)] = r /\ balance'[Payer(r)] = balance[Payer(r)],
         pc[r] \in HasToken /\ tokenLock[KeyOf(r)] = r =>
           tokenLock'[KeyOf(r)] = r /\ token'[KeyOf(r)] = token[KeyOf(r)]
  PROVE  RequestOK(r)'
<1>1. Payer(r)' = Payer(r) /\ KeyOf(r)' = KeyOf(r) /\ AmountOf(r)' = AmountOf(r)
  BY DEF Payer, KeyOf, AmountOf
<1>2. HasRows(Payer(r)) => HasRows(Payer(r))'
  BY <1>1 DEF HasRows
<1>3. WalletRead(r)'
  BY <1>1, <1>2 DEF RequestOK, WalletRead, HasWallet
<1>4. TokenRead(r)'
  BY <1>1 DEF RequestOK, TokenRead, HasToken
<1>5. Told(r)'
  BY DEF RequestOK, Told
<1> QED
  BY <1>3, <1>4, <1>5 DEF RequestOK

\* Unlock takes no lock from others.
LEMMA UnlockEffect ==
  ASSUME TypeOK, NEW t \in Tx, Unlock(t)
  PROVE  /\ walletLock' \in [Shopper -> Tx \cup {NoTx}]
         /\ tokenLock' \in [Key -> Tx \cup {NoTx}]
         /\ paymentLock' \in [Key -> Tx \cup {NoTx}]
         /\ \A u \in Tx \ {t}, s \in Shopper : walletLock[s] = u => walletLock'[s] = u
         /\ \A u \in Tx \ {t}, k \in Key : tokenLock[k] = u => tokenLock'[k] = u
BY DEF TypeOK, Unlock

\* Nothing changes for tokens and creations if no row of them and no history does.
LEMMA SameTokens ==
  ASSUME MonolithInv, UNCHANGED <<token, payment, era, issued, debited, since>>
  PROVE  \A k \in Key : TokenOK(k)'
BY DEF MonolithInv, TokenOK

\* Nor for the creations, if none of them makes a step.
LEMMA SameCreations ==
  ASSUME MonolithInv, UNCHANGED <<found, issued>>,
         \A c \in Creator : pc'[c] = pc[c]
  PROVE  \A c \in Creator : CreationOK(c)'
BY DEF MonolithInv, CreationOK

\* Nor for the sums.
LEMMA SameMoney ==
  ASSUME MonolithInv, UNCHANGED <<balance, spent, topUp>>
  PROVE  Conservation'
BY DEF MonolithInv, Conservation

\* The initial states satisfy the invariant.
LEMMA InitInv == Init => MonolithInv
<1> SUFFICES ASSUME Init PROVE MonolithInv
  OBVIOUS
<1> USE MonolithAssumption, MaxIntAssumption
<1>1. NoBuffer \in [balance : Money, token : Status, era : Nat, paid : BOOLEAN]
  BY DEF NoBuffer, Money, Status
<1>2. TypeOK
  BY <1>1 DEF Init, TypeOK, Nobody, Nothing, NoAnswer, Status, TokenStatus, Absent, Label,
              Money
<1>3. \A r \in Request : RequestOK(r)
  BY Roles
     DEF Init, RequestOK, WalletRead, TokenRead, Told, NoBuffer, HasWallet, HasToken
<1>4. \A k \in Key : TokenOK(k)
  BY DEF Init, TokenOK, Nothing, Absent
<1>5. \A c \in Creator : CreationOK(c)
  <2>1. <<>> \notin Key \X Status
    OBVIOUS
  <2> QED
    BY <2>1 DEF Init, CreationOK
<1>6. Conservation
  BY DEF Init, Conservation
<1> QED
  BY <1>2, <1>3, <1>4, <1>5, <1>6 DEF MonolithInv

-----------------------------------------------------------------------------
(* The payment, up to its commit.                                          *)

Buffer == [balance : Money, token : Status, era : Nat, paid : BOOLEAN]

\* A step of a payment that stores nothing, apart from what it does to itself.
LEMMA PaymentStep ==
  ASSUME MonolithInv, NEW r \in Request, NEW label \in Label, Goto(r, label),
         UNCHANGED <<rowVars, paymentLock, arg, found, listed, reply, lost, historyVars>>,
         NEW b \in Buffer, buf' = [buf EXCEPT ![r] = b],
         \/ walletLock' = walletLock
         \/ /\ Free(walletLock[Payer(r)])
            /\ walletLock' = [walletLock EXCEPT ![Payer(r)] = r],
         \/ tokenLock' = tokenLock
         \/ /\ Free(tokenLock[KeyOf(r)])
            /\ tokenLock' = [tokenLock EXCEPT ![KeyOf(r)] = r],
         pc'[r] = label /\ buf'[r] = b => RequestOK(r)'
  PROVE  MonolithInv'
<1> USE DEF MonolithInv
<1>1. r \in Tx \cup Creator /\ Payer(r) \in Shopper /\ KeyOf(r) \in Key
  BY Roles, ArgTypes
<1>2. /\ pc' \in [Tx \cup Creator -> Label] /\ pc'[r] = label
      /\ \A x \in (Tx \cup Creator) \ {r} : pc'[x] = pc[x]
  BY <1>1 DEF Goto, TypeOK
<1>3. /\ buf' \in [Request -> Buffer] /\ buf'[r] = b
      /\ \A x \in Request \ {r} : buf'[x] = buf[x]
  BY DEF TypeOK, Buffer
<1>4. /\ walletLock' \in [Shopper -> Tx \cup {NoTx}]
      /\ \A x \in Request \ {r}, s \in Shopper : walletLock[s] = x => walletLock'[s] = x
  BY <1>1, Roles DEF TypeOK, Free
<1>5. /\ tokenLock' \in [Key -> Tx \cup {NoTx}]
      /\ \A x \in Request \ {r}, k \in Key : tokenLock[k] = x => tokenLock'[k] = x
  BY <1>1, Roles DEF TypeOK, Free
<1>6. TypeOK'
  BY <1>2, <1>3, <1>4, <1>5 DEF TypeOK, Buffer, rowVars, historyVars
<1>7. \A x \in Request : RequestOK(x)'
  <2> SUFFICES ASSUME NEW x \in Request, x # r PROVE RequestOK(x)'
    BY <1>2, <1>3
  <2>1. x \in Tx /\ Payer(x) \in Shopper /\ KeyOf(x) \in Key
    BY Roles, ArgTypes
  <2> QED
    BY <1>2, <1>3, <1>4, <1>5, <2>1, OtherRequest DEF rowVars, historyVars
<1>8. \A k \in Key : TokenOK(k)'
  BY SameTokens DEF rowVars, historyVars
<1>9. \A c \in Creator : CreationOK(c)'
  BY <1>2, Roles, SameCreations DEF historyVars
<1>10. Conservation'
  BY SameMoney DEF rowVars, historyVars
<1> QED
  BY <1>6, <1>7, <1>8, <1>9, <1>10

\* A request that finds its shopper finds the shopper's rows.
LEMMA FindShopperInv ==
  ASSUME MonolithInv, NEW r \in Request, FindShopper(r)
  PROVE  MonolithInv'
<1> DEFINE label == IF HasRows(Payer(r)) THEN "wallet" ELSE "answer"
<1>1. /\ pc[r] = "idle" /\ Goto(r, label)
      /\ UNCHANGED <<rowVars, lockVars, taskVars, reply, lost, historyVars>>
  BY DEF FindShopper, At
<1>2. buf[r] \in Buffer /\ buf' = [buf EXCEPT ![r] = buf[r]]
  BY <1>1, ArgTypes DEF MonolithInv, Buffer, taskVars, TypeOK
<1>3. RequestOK(r) /\ label \in Label /\ label \in {"wallet", "answer"}
  BY DEF MonolithInv, Label
<1>4. pc'[r] = label => RequestOK(r)'
  <2>1. Payer(r)' = Payer(r) /\ KeyOf(r)' = KeyOf(r) /\ AmountOf(r)' = AmountOf(r)
    BY <1>1 DEF Payer, KeyOf, AmountOf, taskVars
  <2>2. HasRows(Payer(r))' = HasRows(Payer(r))
    BY <1>1, <2>1 DEF HasRows, rowVars
  <2>3. ~buf[r].paid /\ charged[r] = 0
    BY <1>1, <1>3 DEF RequestOK, TokenRead, Told, Unpaid
  <2>4. /\ buf' = buf /\ charged' = charged
    BY <1>1 DEF taskVars, historyVars
  <2>5. pc'[r] = label => WalletRead(r)'
    BY <1>3, <2>2 DEF WalletRead, HasWallet
  <2>6. pc'[r] = label => TokenRead(r)' /\ Told(r)'
    BY <1>3, <2>3, <2>4 DEF TokenRead, Told, Unpaid, HasToken
  <2> QED
    BY <2>5, <2>6 DEF RequestOK
<1> HIDE DEF label
<1> QED
  BY <1>1, <1>2, <1>3, <1>4, PaymentStep DEF lockVars, taskVars

\* What LockWallet and WakeUp have in common: the wallet's row is had, or not.
LEMMA TakeWalletInv ==
  ASSUME MonolithInv, NEW r \in Request, pc[r] \in {"wallet", "waitWallet"},
         Free(walletLock[Payer(r)]), TakeWallet(r),
         UNCHANGED <<rowVars, tokenLock, paymentLock, arg, found, listed, reply, lost,
                     historyVars>>
  PROVE  MonolithInv'
<1> DEFINE s == Payer(r)
           label == IF token[KeyOf(r)] # Absent THEN "token" ELSE "answer"
           b == [buf[r] EXCEPT !.balance = balance[s]]
<1>1. /\ Goto(r, label) /\ buf' = [buf EXCEPT ![r] = b]
      /\ walletLock' = [walletLock EXCEPT ![s] = r]
  BY DEF TakeWallet
<1>2. s \in Shopper /\ buf[r] \in Buffer /\ balance[s] \in Money
  BY ArgTypes DEF MonolithInv, TypeOK, Buffer
<1>3. /\ b \in Buffer /\ b.balance = balance[s] /\ b.paid = buf[r].paid
  BY <1>2 DEF Buffer
<1>4. RequestOK(r) /\ label \in Label /\ label \in {"token", "answer"}
  BY DEF MonolithInv, Label
<1> HIDE DEF b, label
<1>5. pc'[r] = label /\ buf'[r] = b => RequestOK(r)'
  <2> SUFFICES ASSUME pc'[r] = label, buf'[r] = b PROVE RequestOK(r)'
    OBVIOUS
  <2>1. Payer(r)' = s /\ KeyOf(r)' = KeyOf(r) /\ AmountOf(r)' = AmountOf(r)
    BY DEF Payer, KeyOf, AmountOf
  <2>2. HasRows(s) /\ HasRows(Payer(r))'
    BY <1>4, <2>1 DEF RequestOK, WalletRead, HasRows, rowVars
  <2>3. ~buf[r].paid /\ charged'[r] = 0
    BY <1>4 DEF RequestOK, TokenRead, Told, Unpaid, historyVars
  <2>4. walletLock'[s] = r /\ balance'[s] = balance[s]
    BY <1>1, <1>2 DEF MonolithInv, TypeOK, rowVars
  <2>5. WalletRead(r)'
    BY <1>3, <2>1, <2>2, <2>4 DEF WalletRead
  <2>6. TokenRead(r)' /\ Told(r)'
    BY <1>3, <1>4, <2>3 DEF TokenRead, Told, Unpaid, HasToken
  <2> QED
    BY <2>5, <2>6 DEF RequestOK
<1> QED
  BY <1>1, <1>3, <1>4, <1>5, PaymentStep

\* It must wait, or what it waited for is gone.
LEMMA NoWalletInv ==
  ASSUME MonolithInv, NEW r \in Request, pc[r] \in {"wallet", "waitWallet"},
         NEW label \in {"waitWallet", "answer"}, Goto(r, label),
         NEW e \in Nat, buf' = [buf EXCEPT ![r].era = e],
         UNCHANGED <<rowVars, walletLock, tokenLock, paymentLock, arg, found, listed,
                     reply, lost, historyVars>>
  PROVE  MonolithInv'
<1> DEFINE b == [buf[r] EXCEPT !.era = e]
<1>1. buf' = [buf EXCEPT ![r] = b]
  OBVIOUS
<1>2. buf[r] \in Buffer
  BY ArgTypes DEF MonolithInv, Buffer
<1>3. /\ b \in Buffer /\ b.paid = buf[r].paid
  BY <1>2 DEF Buffer
<1>4. RequestOK(r) /\ label \in Label
  BY DEF MonolithInv, Label
<1> HIDE DEF b
<1>5. pc'[r] = label /\ buf'[r] = b => RequestOK(r)'
  <2> SUFFICES ASSUME pc'[r] = label, buf'[r] = b PROVE RequestOK(r)'
    OBVIOUS
  <2>1. Payer(r)' = Payer(r) /\ KeyOf(r)' = KeyOf(r) /\ AmountOf(r)' = AmountOf(r)
    BY DEF Payer, KeyOf, AmountOf
  <2>2. HasRows(Payer(r))'
    BY <1>4, <2>1 DEF RequestOK, WalletRead, HasRows, rowVars
  <2>3. ~buf[r].paid /\ charged'[r] = 0
    BY <1>4 DEF RequestOK, TokenRead, Told, Unpaid, historyVars
  <2>4. WalletRead(r)'
    BY <2>2 DEF WalletRead, HasWallet
  <2>5. TokenRead(r)' /\ Told(r)'
    BY <1>3, <2>3 DEF TokenRead, Told, Unpaid, HasToken
  <2> QED
    BY <2>4, <2>5 DEF RequestOK
<1> QED
  BY <1>1, <1>3, <1>4, <1>5, PaymentStep

\* SELECT FOR UPDATE of the wallet, at once or after a wait.
LEMMA LockWalletInv ==
  ASSUME MonolithInv, NEW r \in Request, LockWallet(r) \/ WakeUp(r)
  PROVE  MonolithInv'
<1> USE DEF LockWallet, WakeUp, At
<1>1. CASE LockWallet(r) /\ Free(walletLock[Payer(r)])
  BY <1>1, TakeWalletInv
<1>2. CASE LockWallet(r) /\ ~Free(walletLock[Payer(r)])
  <2>1. era \in Nat
    BY DEF MonolithInv, TypeOK
  <2> QED
    BY <1>2, <2>1, NoWalletInv
<1>3. CASE WakeUp(r) /\ era = buf[r].era
  BY <1>3, TakeWalletInv
<1>4. CASE WakeUp(r) /\ era # buf[r].era
  <2>1. buf[r] \in Buffer /\ buf \in [Request -> Buffer] /\ buf' = buf
    BY <1>4, ArgTypes DEF MonolithInv, Buffer, TypeOK
  <2>2. buf[r].era \in Nat /\ buf' = [buf EXCEPT ![r].era = buf[r].era]
    BY <2>1 DEF Buffer
  <2> QED
    BY <1>4, <2>2, NoWalletInv
<1> QED
  BY <1>1, <1>2, <1>3, <1>4

\* The token is locked, and its status stays what was read until the commit.
LEMMA LockTokenInv ==
  ASSUME MonolithInv, NEW r \in Request, LockToken(r)
  PROVE  MonolithInv'
<1> DEFINE k == KeyOf(r)
           label == IF CanProcess(token[k]) THEN "charge" ELSE "commit"
           status == IF CanProcess(token[k]) THEN "PROCESSING" ELSE token[k]
           b == [buf[r] EXCEPT !.token = status]
<1>1. /\ pc[r] = "token" /\ Goto(r, label) /\ buf' = [buf EXCEPT ![r] = b]
      /\ Free(tokenLock[k]) /\ tokenLock' = [tokenLock EXCEPT ![k] = r]
      /\ UNCHANGED <<rowVars, walletLock, paymentLock, arg, found, listed, reply, lost,
                     historyVars>>
  BY DEF LockToken, At
<1>2. k \in Key /\ buf[r] \in Buffer /\ token[k] \in Status
  BY ArgTypes DEF MonolithInv, TypeOK, Buffer
<1>3. status \in Status
  BY <1>2 DEF Status, TokenStatus
<1> HIDE DEF status
<1>4. /\ b \in Buffer /\ b.token = status /\ b.paid = buf[r].paid
      /\ b.balance = buf[r].balance
  BY <1>2, <1>3 DEF Buffer
<1>5. RequestOK(r) /\ label \in Label
  BY DEF MonolithInv, Label
<1>6. \/ token[k] = "UNUSED" /\ label = "charge" /\ status = "PROCESSING"
      \/ token[k] # "UNUSED" /\ label = "commit" /\ status = token[k]
  BY DEF CanProcess, status
<1> HIDE DEF b, label
<1>7. pc'[r] = label /\ buf'[r] = b => RequestOK(r)'
  <2> SUFFICES ASSUME pc'[r] = label, buf'[r] = b PROVE RequestOK(r)'
    OBVIOUS
  <2>1. Payer(r)' = Payer(r) /\ KeyOf(r)' = k /\ AmountOf(r)' = AmountOf(r)
    BY <1>1 DEF Payer, KeyOf, AmountOf
  <2>2. WalletRead(r)'
    BY <1>1, <1>4, <1>5, <2>1 DEF RequestOK, WalletRead, HasWallet, HasRows, rowVars
  <2>3. ~b.paid /\ charged'[r] = 0
    BY <1>1, <1>4, <1>5 DEF RequestOK, TokenRead, Told, Unpaid, historyVars
  <2>4. tokenLock'[k] = r /\ token'[k] = token[k]
    BY <1>1, <1>2 DEF MonolithInv, TypeOK, rowVars
  <2>5. TokenRead(r)'
    BY <1>4, <1>6, <2>1, <2>3, <2>4 DEF TokenRead
  <2>6. Told(r)'
    BY <1>6, <2>3 DEF Told
  <2> QED
    BY <2>2, <2>5, <2>6 DEF RequestOK
<1> QED
  BY <1>1, <1>4, <1>5, <1>7, PaymentStep

\* Wallet.pay: what it can pay is to be stored as paid, and nothing else.
LEMMA ChargeInv ==
  ASSUME MonolithInv, NEW r \in Request, Charge(r)
  PROVE  MonolithInv'
<1> DEFINE pays == Payable(buf[r].balance, AutoCharge[Payer(r)], AmountOf(r))
           b == IF pays THEN [buf[r] EXCEPT !.token = "USED", !.paid = TRUE] ELSE buf[r]
<1>1. /\ pc[r] = "charge" /\ Goto(r, "commit")
      /\ UNCHANGED <<rowVars, lockVars, arg, found, listed, reply, lost, historyVars>>
  BY DEF Charge, At
<1>2. buf[r] \in Buffer /\ buf \in [Request -> Buffer]
  BY ArgTypes DEF MonolithInv, TypeOK, Buffer
<1>3. buf' = [buf EXCEPT ![r] = b]
  <2>1. CASE pays
    BY <2>1 DEF Charge
  <2>2. CASE ~pays
    <3>1. buf' = [buf EXCEPT ![r] = [buf[r] EXCEPT !.token = buf[r].token]]
      BY <2>2 DEF Charge, Refused
    <3>2. [buf[r] EXCEPT !.token = buf[r].token] = buf[r]
      BY <1>2 DEF Buffer
    <3> QED
      BY <2>2, <3>1, <3>2
  <2> QED
    BY <2>1, <2>2
<1>4. RequestOK(r) /\ "commit" \in Label
  BY DEF MonolithInv, Label
<1>5. /\ ~buf[r].paid /\ charged[r] = 0 /\ tokenLock[KeyOf(r)] = r
      /\ buf[r].token = "PROCESSING" /\ token[KeyOf(r)] = "UNUSED"
  BY <1>1, <1>4 DEF RequestOK, TokenRead, Told, Unpaid, HasToken
<1>6. /\ b \in Buffer /\ b.balance = buf[r].balance
      /\ \/ pays /\ b.paid = TRUE /\ b.token = "USED"
         \/ ~b.paid /\ b.token = "PROCESSING"
  <2>1. CASE pays
    BY <1>2, <2>1 DEF Buffer, Status, TokenStatus
  <2>2. CASE ~pays
    BY <1>2, <1>5, <2>2
  <2> QED
    BY <2>1, <2>2
<1> HIDE DEF b
<1>7. pc'[r] = "commit" /\ buf'[r] = b => RequestOK(r)'
  <2> SUFFICES ASSUME pc'[r] = "commit", buf'[r] = b PROVE RequestOK(r)'
    OBVIOUS
  <2>1. Payer(r)' = Payer(r) /\ KeyOf(r)' = KeyOf(r) /\ AmountOf(r)' = AmountOf(r)
    BY <1>1 DEF Payer, KeyOf, AmountOf
  <2>2. WalletRead(r)'
    BY <1>1, <1>4, <1>6, <2>1
       DEF RequestOK, WalletRead, HasWallet, HasRows, rowVars, lockVars
  <2>3. TokenRead(r)'
    BY <1>1, <1>5, <1>6, <2>1 DEF TokenRead, rowVars, lockVars, Unpaid
  <2>4. Told(r)'
    BY <1>1, <1>5 DEF Told, historyVars
  <2> QED
    BY <2>2, <2>3, <2>4 DEF RequestOK
<1> QED
  BY <1>1, <1>3, <1>4, <1>6, <1>7, PaymentStep DEF lockVars

-----------------------------------------------------------------------------
(* The end of a transaction.                                               *)

\* What the end of a transaction is to the others: they keep what they have locked.
LEMMA OthersAtTheEnd ==
  ASSUME MonolithInv, NEW t \in Tx, Unlock(t), NEW label \in Label, Goto(t, label),
         UNCHANGED taskVars, ready => ready', lost' = lost \/ lost' # 0,
         \A x \in Request \ {t} : charged'[x] = charged[x] /\ reply'[x] = reply[x],
         \A s \in Shopper :
           walletLock[s] \in Request \ {t} => balance'[s] = balance[s],
         \A k \in Key :
           tokenLock[k] \in Request \ {t} => token'[k] = token[k]
  PROVE  /\ pc' \in [Tx \cup Creator -> Label] /\ pc'[t] = label
         /\ \A c \in Creator : pc'[c] = pc[c]
         /\ \A x \in Request \ {t} : RequestOK(x)'
<1> USE DEF MonolithInv
<1>1. /\ pc' \in [Tx \cup Creator -> Label] /\ pc'[t] = label
      /\ \A x \in (Tx \cup Creator) \ {t} : pc'[x] = pc[x]
  BY DEF Goto, TypeOK
<1>2. ASSUME NEW x \in Request \ {t} PROVE RequestOK(x)'
  <2>1. x \in Tx /\ Payer(x) \in Shopper /\ KeyOf(x) \in Key
    BY Roles, ArgTypes
  <2>2. walletLock[Payer(x)] = x =>
          walletLock'[Payer(x)] = x /\ balance'[Payer(x)] = balance[Payer(x)]
    BY <2>1, UnlockEffect
  <2>3. tokenLock[KeyOf(x)] = x =>
          tokenLock'[KeyOf(x)] = x /\ token'[KeyOf(x)] = token[KeyOf(x)]
    BY <2>1, UnlockEffect
  <2>4. pc'[x] = pc[x] /\ buf' = buf /\ arg' = arg
    BY <1>1, <2>1 DEF taskVars
  <2> QED
    BY <2>2, <2>3, <2>4, OtherRequest
<1>3. \A c \in Creator : c # t
  BY Roles
<1> QED
  BY <1>1, <1>2, <1>3

\* A transaction that ends without having stored anything.
LEMMA NothingStored ==
  ASSUME MonolithInv, NEW t \in Tx, Unlock(t), NEW label \in Label, Goto(t, label),
         UNCHANGED <<rowVars, taskVars, historyVars>>,
         lost' = lost \/ (lost' \in Nat /\ lost' # 0),
         reply' \in [Request -> {NoAnswer, Ok, Error}],
         \A x \in Request \ {t} : reply'[x] = reply[x],
         t \in Request /\ pc'[t] = label => RequestOK(t)'
  PROVE  MonolithInv'
<1> USE DEF MonolithInv
<1>1. /\ pc' \in [Tx \cup Creator -> Label] /\ pc'[t] = label
      /\ \A c \in Creator : pc'[c] = pc[c]
      /\ \A x \in Request \ {t} : RequestOK(x)'
  BY OthersAtTheEnd DEF rowVars, historyVars
<1>2. TypeOK'
  <2>1. lost' \in Nat
    BY DEF TypeOK
  <2>2. /\ walletLock' \in [Shopper -> Tx \cup {NoTx}]
        /\ tokenLock' \in [Key -> Tx \cup {NoTx}]
        /\ paymentLock' \in [Key -> Tx \cup {NoTx}]
    BY UnlockEffect
  <2> QED
    BY <1>1, <2>1, <2>2 DEF TypeOK, rowVars, taskVars, historyVars
<1>3. \A x \in Request : RequestOK(x)'
  BY <1>1
<1>4. \A k \in Key : TokenOK(k)'
  BY SameTokens DEF rowVars, historyVars
<1>5. \A c \in Creator : CreationOK(c)'
  BY <1>1, SameCreations DEF taskVars, historyVars
<1>6. Conservation'
  BY SameMoney DEF rowVars, historyVars
<1> QED
  BY <1>2, <1>3, <1>4, <1>5, <1>6

\* The answer tells what was stored.
LEMMA AnswerInv ==
  ASSUME MonolithInv, NEW r \in Request, Answer(r)
  PROVE  MonolithInv'
<1>1. /\ pc[r] = "answer" /\ Unlock(r) /\ Goto(r, "done")
      /\ reply' = [reply EXCEPT ![r] = Outcome(buf[r].paid)]
      /\ UNCHANGED <<rowVars, taskVars, lost, historyVars>>
  BY DEF Answer, At
<1>2. /\ reply' \in [Request -> {NoAnswer, Ok, Error}]
      /\ reply'[r] = (IF buf[r].paid THEN Ok ELSE Error)
      /\ \A x \in Request \ {r} : reply'[x] = reply[x]
  BY <1>1 DEF MonolithInv, TypeOK, Outcome
<1>3. pc'[r] = "done" => RequestOK(r)'
  <2> SUFFICES ASSUME pc'[r] = "done" PROVE RequestOK(r)'
    OBVIOUS
  <2>1. charged'[r] = IF buf[r].paid THEN 1 ELSE 0
    BY <1>1 DEF MonolithInv, RequestOK, Told, historyVars
  <2>2. charged'[r] = IF reply'[r] = Ok THEN 1 ELSE 0
    BY <1>2, <2>1 DEF Ok, Error
  <2> QED
    BY <2>2 DEF RequestOK, WalletRead, TokenRead, Told, Unpaid, HasWallet, HasToken
<1>4. r \in Tx /\ "done" \in Label
  BY Roles DEF Label
<1> QED
  BY <1>1, <1>2, <1>3, <1>4, NothingStored

\* A rollback tells of failure; what was stored before is an answer lost with its
\* connection.
LEMMA RollbackInv ==
  ASSUME MonolithInv, NEW t \in Tx, Rollback(t),
         \/ lost' = lost /\ (t \in Request => pc[t] \in Unpaid \cup {"commit"})
         \/ lost' \in Nat /\ lost' # 0
  PROVE  MonolithInv'
<1>1. /\ Unlock(t) /\ Goto(t, "done")
      /\ reply' = [r \in Request |-> IF r = t THEN Error ELSE reply[r]]
      /\ UNCHANGED <<rowVars, taskVars, historyVars>>
  BY DEF Rollback
<1>2. /\ reply' \in [Request -> {NoAnswer, Ok, Error}]
      /\ \A x \in Request \ {t} : reply'[x] = reply[x]
      /\ t \in Request => reply'[t] = Error
  BY <1>1 DEF MonolithInv, TypeOK
<1>3. t \in Request /\ pc'[t] = "done" => RequestOK(t)'
  <2> SUFFICES ASSUME t \in Request, pc'[t] = "done" PROVE RequestOK(t)'
    OBVIOUS
  <2>1. lost' = 0 => charged'[t] = 0
    BY <1>1 DEF MonolithInv, RequestOK, Told, historyVars
  <2> QED
    BY <1>2, <2>1
       DEF RequestOK, WalletRead, TokenRead, Told, Unpaid, HasWallet, HasToken, Ok, Error
<1>4. "done" \in Label
  BY DEF Label
<1> QED
  BY <1>1, <1>2, <1>3, <1>4, NothingStored

\* Only a request that has not committed can be the victim of a deadlock.
LEMMA BreakDeadlockInv ==
  ASSUME MonolithInv, NEW t \in Tx, BreakDeadlock(t)
  PROVE  MonolithInv'
<1>1. t \in Request => pc[t] \in Unpaid \cup {"commit"}
  BY Roles DEF BreakDeadlock, Deadlocked, WaitsFor, At, Unpaid
<1> QED
  BY <1>1, RollbackInv DEF BreakDeadlock

\* A lost connection leaves everything stored or nothing.
LEMMA LoseInv ==
  ASSUME MonolithInv, NEW t \in Tx, Lose(t)
  PROVE  MonolithInv'
<1>1. lost' \in Nat /\ lost' # 0
  BY DEF Lose, MonolithInv, TypeOK
<1> QED
  BY <1>1, RollbackInv DEF Lose

\* What a transaction that ends knows of the rows that it has locked.
LEMMA AtCommit ==
  ASSUME MonolithInv, NEW r \in Request, pc[r] = "commit"
  PROVE  /\ KeyOf(r) \in Key /\ Payer(r) \in Shopper
         /\ AmountOf(r) \in Money /\ AutoCharge[Payer(r)] \in Money
         /\ walletLock[Payer(r)] = r /\ tokenLock[KeyOf(r)] = r
         /\ buf[r].balance = balance[Payer(r)] /\ balance[Payer(r)] \in Money
         /\ buf[r].token \in Status /\ charged[r] = 0
         /\ buf[r].paid =>
              /\ buf[r].token = "USED" /\ token[KeyOf(r)] = "UNUSED"
              /\ Payable(balance[Payer(r)], AutoCharge[Payer(r)], AmountOf(r))
         /\ ~buf[r].paid =>
              \/ buf[r].token = token[KeyOf(r)] /\ token[KeyOf(r)] # "UNUSED"
              \/ buf[r].token = "PROCESSING" /\ token[KeyOf(r)] = "UNUSED"
<1>1. RequestOK(r) /\ TypeOK
  BY DEF MonolithInv
<1>2. /\ KeyOf(r) \in Key /\ Payer(r) \in Shopper
      /\ AmountOf(r) \in Money /\ AutoCharge[Payer(r)] \in Money
      /\ buf[r].token \in Status
  BY <1>1, ArgTypes
<1>3. balance[Payer(r)] \in Money
  BY <1>1, <1>2 DEF TypeOK
<1> QED
  BY <1>1, <1>2, <1>3
     DEF RequestOK, WalletRead, TokenRead, Told, HasWallet, HasToken

\* The wallet, the token, the payment and the history are written at once.
LEMMA CommitPaidInv ==
  ASSUME MonolithInv, NEW r \in Request, CommitPaid(r)
  PROVE  MonolithInv'
<1> USE DEF MonolithInv
<1> DEFINE s == Payer(r)
           k == KeyOf(r)
           auto == AutoCharge[s]
           bill == AmountOf(r)
           left == Left(balance[s], auto, bill)
           top == Charges(balance[s], auto, bill) * auto
<1>1. /\ k \in Key /\ s \in Shopper /\ bill \in Money /\ auto \in Money
      /\ walletLock[s] = r /\ tokenLock[k] = r
      /\ buf[r].balance = balance[s] /\ balance[s] \in Money
      /\ buf[r].token = "USED" /\ token[k] = "UNUSED" /\ charged[r] = 0
      /\ Payable(balance[s], auto, bill)
  BY AtCommit DEF CommitPaid, At
<1>2. left \in Money /\ top \in Nat /\ left + bill = balance[s] + top
  BY <1>1, LeftIsMoney, ChargesNat
<1>3. /\ balance' = [balance EXCEPT ![s] = left]
      /\ spent' = [spent EXCEPT ![s] = @ + bill]
      /\ topUp' = [topUp EXCEPT ![s] = @ + top]
      /\ token' = [token EXCEPT ![k] = "USED"]
      /\ payment' = [payment EXCEPT ![k] = r]
      /\ debited' = [debited EXCEPT ![k] = @ + 1]
      /\ since' = [since EXCEPT ![k] = @ + 1]
      /\ charged' = [charged EXCEPT ![r] = @ + 1]
      /\ earned' = [earned EXCEPT ![s] = @ + PointsFor(bill)]
      /\ points' = [points EXCEPT ![s] = @]
  BY <1>1 DEF CommitPaid, PaymentStored, StoredPoints
<1>4. /\ UNCHANGED <<ready, era, taskVars, reply, lost, issued>>
      /\ Unlock(r) /\ Goto(r, "answer") /\ buf[r].paid
  BY DEF CommitPaid
<1> HIDE DEF left, top
<1>5. r \in Tx /\ "answer" \in Label
  BY Roles DEF Label
<1>6. /\ balance' \in [Shopper -> Money] /\ balance'[s] = left
      /\ \A t \in Shopper \ {s} : balance'[t] = balance[t]
  BY <1>1, <1>2, <1>3 DEF TypeOK
<1>7. /\ token' \in [Key -> Status] /\ token'[k] = "USED"
      /\ \A q \in Key \ {k} : token'[q] = token[q]
  BY <1>1, <1>3 DEF TypeOK, Status, TokenStatus
<1>8. /\ charged' \in [Request -> Nat] /\ charged'[r] = 1
      /\ \A x \in Request \ {r} : charged'[x] = charged[x]
  BY <1>1, <1>3 DEF TypeOK
<1>9. /\ pc' \in [Tx \cup Creator -> Label] /\ pc'[r] = "answer"
      /\ \A c \in Creator : pc'[c] = pc[c]
      /\ \A x \in Request \ {r} : RequestOK(x)'
  <2>1. \A t \in Shopper : walletLock[t] \in Request \ {r} => balance'[t] = balance[t]
    BY <1>1, <1>6
  <2>2. \A q \in Key : tokenLock[q] \in Request \ {r} => token'[q] = token[q]
    BY <1>1, <1>7
  <2>3. UNCHANGED taskVars /\ (ready => ready') /\ lost' = lost /\ reply' = reply
    BY <1>4
  <2> QED
    BY <1>4, <1>5, <1>8, <2>1, <2>2, <2>3, OthersAtTheEnd
<1>10. RequestOK(r)'
  <2>1. buf'[r].paid
    BY <1>4 DEF taskVars
  <2> QED
    BY <1>8, <1>9, <2>1
       DEF RequestOK, WalletRead, TokenRead, Told, Unpaid, HasWallet, HasToken
<1>11. TypeOK'
  <2>1. /\ walletLock' \in [Shopper -> Tx \cup {NoTx}]
        /\ tokenLock' \in [Key -> Tx \cup {NoTx}]
        /\ paymentLock' \in [Key -> Tx \cup {NoTx}]
    BY <1>4, <1>5, UnlockEffect
  <2>2. payment' \in [Key -> Request \cup {NoTx}]
    BY <1>1, <1>3 DEF TypeOK
  <2>3. debited' \in [Key -> Nat] /\ since' \in [Key -> Nat]
    BY <1>1, <1>3 DEF TypeOK
  <2>4. spent' \in [Shopper -> Nat] /\ topUp' \in [Shopper -> Nat]
    <3>1. bill \in Nat
      BY <1>1, MaxIntAssumption DEF Money
    <3>2. spent \in [Shopper -> Nat] /\ topUp \in [Shopper -> Nat]
      BY DEF TypeOK
    <3>3. \A t \in Shopper : spent[t] + bill \in Nat
      BY <3>1, <3>2
    <3>4. spent' \in [Shopper -> Nat]
      BY <1>3, <3>2, <3>3
    <3> QED
      BY <1>2, <1>3, <3>2, <3>4
  <2>5. earned' \in [Shopper -> Nat] /\ points' \in [Shopper -> Nat]
    <3>1. PointsFor(bill) \in Nat
      BY <1>1, MaxIntAssumption DEF PointsFor, Money
    <3> QED
      BY <1>1, <1>3, <3>1 DEF TypeOK
  <2> QED
    BY <1>4, <1>6, <1>7, <1>8, <1>9, <2>1, <2>2, <2>3, <2>4, <2>5 DEF TypeOK, taskVars
<1>12. ASSUME NEW q \in Key PROVE TokenOK(q)'
  <2>1. /\ debited[q] \in Nat /\ issued[q] \in Nat /\ era \in Nat
        /\ TokenOK(q) /\ issued' = issued /\ era' = era
    BY <1>4 DEF TypeOK
  <2>2. CASE q = k
    <3>1. /\ debited'[k] = debited[k] + 1 /\ payment'[k] = r /\ token'[k] = "USED"
      BY <1>1, <1>3 DEF TypeOK
    <3>2. r # NoTx
      BY Roles
    <3> QED
      BY <1>1, <2>1, <2>2, <3>1, <3>2 DEF TokenOK, Absent
  <2>3. CASE q # k
    <3>1. /\ debited'[q] = debited[q] /\ payment'[q] = payment[q] /\ token'[q] = token[q]
          /\ since'[q] = since[q]
      BY <1>1, <1>3, <2>3 DEF TypeOK
    <3> QED
      BY <2>1, <3>1 DEF TokenOK
  <2> QED
    BY <2>2, <2>3
<1>13. \A c \in Creator : CreationOK(c)'
  BY <1>4, <1>9, SameCreations DEF taskVars
<1>14. Conservation'
  <2> SUFFICES ASSUME NEW t \in Shopper
               PROVE  balance'[t] + spent'[t] = InitBalance[t] + topUp'[t]
    BY DEF Conservation
  <2>1. /\ balance[t] + spent[t] = InitBalance[t] + topUp[t]
        /\ balance[t] \in Nat /\ spent[t] \in Nat /\ topUp[t] \in Nat
        /\ InitBalance[t] \in Nat
    BY MonolithAssumption, MaxIntAssumption DEF Conservation, TypeOK, Money
  <2>2. CASE t = s
    <3>1. spent'[s] = spent[s] + bill /\ topUp'[s] = topUp[s] + top
      BY <1>1, <1>3 DEF TypeOK
    <3>2. bill \in Nat /\ left \in Nat
      BY <1>1, <1>2, MaxIntAssumption DEF Money
    <3> QED
      BY <1>2, <1>6, <2>1, <2>2, <3>1, <3>2
  <2>3. CASE t # s
    <3>1. spent'[t] = spent[t] /\ topUp'[t] = topUp[t]
      BY <1>1, <1>3, <2>3 DEF TypeOK
    <3> QED
      BY <1>6, <2>1, <2>3, <3>1
  <2> QED
    BY <2>2, <2>3
<1> QED
  BY <1>9, <1>10, <1>11, <1>12, <1>13, <1>14

\* The end of a refused payment stores the token, and no money moves.
LEMMA CommitRefusedInv ==
  ASSUME MonolithInv, NEW r \in Request, CommitRefused(r)
  PROVE  MonolithInv'
<1> USE DEF MonolithInv
<1> DEFINE k == KeyOf(r)
<1>1. /\ k \in Key /\ tokenLock[k] = r /\ charged[r] = 0 /\ buf[r].token \in Status
      /\ \/ buf[r].token = token[k] /\ token[k] # "UNUSED"
         \/ buf[r].token = "PROCESSING" /\ token[k] = "UNUSED"
  BY AtCommit DEF CommitRefused, At
<1>2. /\ token' = [token EXCEPT ![k] = buf[r].token]
      /\ UNCHANGED <<ready, era, balance, points, payment, taskVars, reply, lost,
                     historyVars>>
      /\ Unlock(r) /\ Goto(r, "answer") /\ ~buf[r].paid
  BY DEF CommitRefused
<1>3. r \in Tx /\ "answer" \in Label
  BY Roles DEF Label
<1>4. /\ token' \in [Key -> Status] /\ token'[k] = buf[r].token
      /\ \A q \in Key \ {k} : token'[q] = token[q]
  BY <1>1, <1>2 DEF TypeOK
<1>5. /\ pc' \in [Tx \cup Creator -> Label] /\ pc'[r] = "answer"
      /\ \A c \in Creator : pc'[c] = pc[c]
      /\ \A x \in Request \ {r} : RequestOK(x)'
  <2>1. \A q \in Key : tokenLock[q] \in Request \ {r} => token'[q] = token[q]
    BY <1>1, <1>4
  <2>2. /\ UNCHANGED taskVars /\ (ready => ready') /\ lost' = lost /\ reply' = reply
        /\ charged' = charged /\ balance' = balance
    BY <1>2 DEF historyVars
  <2> QED
    BY <1>2, <1>3, <2>1, <2>2, OthersAtTheEnd
<1>6. RequestOK(r)'
  <2>1. ~buf'[r].paid /\ charged'[r] = 0
    BY <1>1, <1>2 DEF taskVars, historyVars
  <2> QED
    BY <1>5, <2>1
       DEF RequestOK, WalletRead, TokenRead, Told, Unpaid, HasWallet, HasToken
<1>7. TypeOK'
  <2>1. /\ walletLock' \in [Shopper -> Tx \cup {NoTx}]
        /\ tokenLock' \in [Key -> Tx \cup {NoTx}]
        /\ paymentLock' \in [Key -> Tx \cup {NoTx}]
    BY <1>2, <1>3, UnlockEffect
  <2> QED
    BY <1>2, <1>4, <1>5, <2>1 DEF TypeOK, taskVars, historyVars
<1>8. ASSUME NEW q \in Key PROVE TokenOK(q)'
  <2>1. /\ debited[q] \in Nat /\ issued[q] \in Nat
        /\ TokenOK(q) /\ UNCHANGED <<issued, debited, since, payment, era>>
    BY <1>2 DEF TypeOK, historyVars
  <2>2. \/ token'[q] = token[q]
        \/ token[q] = "UNUSED" /\ token'[q] = "PROCESSING"
    BY <1>1, <1>4
  <2> QED
    BY <2>1, <2>2 DEF TokenOK, Absent
<1>9. \A c \in Creator : CreationOK(c)'
  BY <1>2, <1>5, SameCreations DEF taskVars, historyVars
<1>10. Conservation'
  BY <1>2, SameMoney DEF historyVars
<1> QED
  BY <1>5, <1>6, <1>7, <1>8, <1>9, <1>10

-----------------------------------------------------------------------------
(* The creation of a token.                                                *)

\* A step of a creation leaves the payments alone if it writes no locked token.
LEMMA CreationStep ==
  ASSUME MonolithInv, NEW c \in Creator, NEW label \in Label, Goto(c, label),
         UNCHANGED <<ready, balance, lockVars, arg, buf, reply, lost, charged>>,
         \A k \in Key : tokenLock[k] \in Request => token'[k] = token[k]
  PROVE  /\ pc' \in [Tx \cup Creator -> Label] /\ pc'[c] = label
         /\ \A x \in Creator \ {c} : pc'[x] = pc[x]
         /\ \A r \in Request : RequestOK(r)'
<1>1. /\ pc' \in [Tx \cup Creator -> Label] /\ pc'[c] = label
      /\ \A x \in (Tx \cup Creator) \ {c} : pc'[x] = pc[x]
  BY DEF Goto, MonolithInv, TypeOK
<1>2. ASSUME NEW r \in Request PROVE RequestOK(r)'
  <2>1. KeyOf(r) \in Key /\ Payer(r) \in Shopper /\ RequestOK(r)
    BY ArgTypes DEF MonolithInv
  <2>2. pc'[r] = pc[r]
    BY <1>1, Roles
  <2> QED
    BY <2>1, <2>2, OtherRequest DEF lockVars
<1> QED
  BY <1>1, <1>2

\* save() finds a token that was issued, or none.
LEMMA MergeTokenInv ==
  ASSUME MonolithInv, NEW c \in Creator, MergeToken(c)
  PROVE  MonolithInv'
<1> USE DEF MonolithInv
<1>1. /\ Goto(c, "flush")
      /\ UNCHANGED <<rowVars, lockVars, arg, buf, listed, reply, lost, historyVars>>
  BY DEF MergeToken
<1>2. PICK k \in Key : found' = [found EXCEPT ![c] = <<k, token[k]>>]
  BY DEF MergeToken
<1>3. /\ pc' \in [Tx \cup Creator -> Label] /\ pc'[c] = "flush"
      /\ \A x \in Creator \ {c} : pc'[x] = pc[x]
      /\ \A r \in Request : RequestOK(r)'
  <2>1. "flush" \in Label
    BY DEF Label
  <2> QED
    BY <1>1, <2>1, CreationStep DEF rowVars, historyVars
<1>4. <<k, token[k]>> \in Key \X Status
  BY DEF TypeOK
<1>5. /\ found' \in [Creator -> {<<>>} \cup (Key \X Status)]
      /\ found'[c] = <<k, token[k]>>
      /\ \A x \in Creator \ {c} : found'[x] = found[x]
  BY <1>2, <1>4 DEF TypeOK
<1>6. TypeOK'
  BY <1>1, <1>3, <1>5 DEF TypeOK, rowVars, lockVars, historyVars
<1>7. \A q \in Key : TokenOK(q)'
  BY <1>1, SameTokens DEF rowVars, historyVars
<1>8. ASSUME NEW x \in Creator PROVE CreationOK(x)'
  <2>1. CASE x = c
    <3>1. token[k] # Absent => issued[k] >= 1
      BY DEF TokenOK
    <3> QED
      BY <1>1, <1>4, <1>5, <2>1, <3>1 DEF CreationOK, historyVars
  <2>2. CASE x # c
    BY <1>1, <1>3, <1>5, <2>2 DEF CreationOK, historyVars
  <2> QED
    BY <2>1, <2>2
<1>9. Conservation'
  BY <1>1, SameMoney DEF rowVars, historyVars
<1> QED
  BY <1>3, <1>6, <1>7, <1>8, <1>9

\* What FlushToken may do to a token: nothing, issue it, or find it issued already.
LEMMA FlushTokenInv ==
  ASSUME MonolithInv, NEW c \in Creator, FlushToken(c)
  PROVE  MonolithInv'
<1> USE DEF MonolithInv
<1> DEFINE k == found[c][1]
           old == found[c][2]
           fails == (old = Absent /\ token[k] # Absent)
                      \/ (old \notin {Absent, "UNUSED"} /\ token[k] = Absent)
           writes == ~fails /\ old # "UNUSED"
<1>1. /\ pc[c] = "flush" /\ Goto(c, "done")
      /\ old # "UNUSED" => Free(tokenLock[k])
      /\ token' = IF writes THEN [token EXCEPT ![k] = "UNUSED"] ELSE token
      /\ issued' = IF fails THEN issued ELSE [issued EXCEPT ![k] = @ + 1]
      /\ UNCHANGED <<ready, era, balance, points, payment, lockVars, taskVars,
                     reply, lost, debited, charged, since, spent, topUp, earned>>
  BY DEF FlushToken, At
<1>2. /\ found[c] \in Key \X Status
      /\ k \in Key /\ (old # Absent => issued[k] >= 1)
  BY <1>1 DEF CreationOK
<1>3. /\ writes => Free(tokenLock[k])
      /\ ~fails /\ ~writes => old # Absent
  BY <1>1 DEF Absent
<1> HIDE DEF fails, writes, old
<1>4. /\ token' \in [Key -> Status]
      /\ \A q \in Key \ {k} : token'[q] = token[q]
      /\ token'[k] = IF writes THEN "UNUSED" ELSE token[k]
  BY <1>1, <1>2 DEF TypeOK, Status, TokenStatus
<1>5. /\ issued' \in [Key -> Nat]
      /\ \A q \in Key \ {k} : issued'[q] = issued[q]
      /\ issued'[k] = IF fails THEN issued[k] ELSE issued[k] + 1
  BY <1>1, <1>2 DEF TypeOK
<1>6. writes => ~fails
  BY DEF writes
<1>7. /\ pc' \in [Tx \cup Creator -> Label] /\ pc'[c] = "done"
      /\ \A x \in Creator \ {c} : pc'[x] = pc[x]
      /\ \A r \in Request : RequestOK(r)'
  <2>1. "done" \in Label
    BY DEF Label
  <2>2. \A q \in Key : tokenLock[q] \in Request => token'[q] = token[q]
    BY <1>3, <1>4, Roles DEF Free
  <2> QED
    BY <1>1, <2>1, <2>2, CreationStep DEF taskVars
<1>8. TypeOK'
  BY <1>1, <1>4, <1>5, <1>7 DEF TypeOK, lockVars, taskVars
<1>9. ASSUME NEW q \in Key PROVE TokenOK(q)'
  <2>1. /\ debited[q] \in Nat /\ issued[q] \in Nat /\ TokenOK(q)
        /\ UNCHANGED <<debited, since, payment, era>>
    BY <1>1 DEF TypeOK
  <2>2. CASE q # k
    BY <1>4, <1>5, <2>1, <2>2 DEF TokenOK
  <2>3. CASE q = k /\ writes
    <3>1. token'[q] = "UNUSED" /\ issued'[q] = issued[q] + 1
      BY <1>4, <1>5, <1>6, <2>3
    <3> QED
      BY <2>1, <3>1 DEF TokenOK, Absent
  <2>4. CASE q = k /\ ~writes /\ fails
    <3>1. token'[q] = token[q] /\ issued'[q] = issued[q]
      BY <1>4, <1>5, <2>4
    <3> QED
      BY <2>1, <3>1 DEF TokenOK
  <2>5. CASE q = k /\ ~writes /\ ~fails
    <3>1. token'[q] = token[q] /\ issued'[q] = issued[q] + 1 /\ issued[q] >= 1
      BY <1>2, <1>3, <1>4, <1>5, <2>5
    <3> QED
      BY <2>1, <3>1 DEF TokenOK
  <2> QED
    BY <2>2, <2>3, <2>4, <2>5
<1>10. ASSUME NEW x \in Creator PROVE CreationOK(x)'
  <2>1. \A q \in Key : issued[q] \in Nat /\ issued'[q] >= issued[q]
    <3>1. issued \in [Key -> Nat]
      BY DEF TypeOK
    <3> QED
      BY <1>2, <1>5, <3>1
  <2>2. found'[x] = found[x] /\ (pc'[x] = "flush" => pc[x] = "flush")
    BY <1>1, <1>7 DEF taskVars
  <2>3. found[x] \in Key \X Status => found[x][1] \in Key
    OBVIOUS
  <2>4. CreationOK(x)
    OBVIOUS
  <2>5. ASSUME found[x] \in Key \X Status, found[x][2] # Absent
        PROVE  issued'[found[x][1]] >= 1
    <3>1. /\ issued[found[x][1]] >= 1 /\ issued'[found[x][1]] >= issued[found[x][1]]
          /\ issued[found[x][1]] \in Nat /\ issued'[found[x][1]] \in Nat
      BY <1>5, <2>1, <2>3, <2>4, <2>5 DEF CreationOK
    <3> QED
      BY <3>1
  <2> QED
    BY <2>2, <2>4, <2>5 DEF CreationOK
<1>11. Conservation'
  BY <1>1, SameMoney
<1> QED
  BY <1>7, <1>8, <1>9, <1>10, <1>11

-----------------------------------------------------------------------------
(* The initialisation.                                                     *)

\* Until its commit it only lists rows and takes free locks.
LEMMA AdminStep ==
  ASSUME MonolithInv,
         UNCHANGED <<rowVars, arg, buf, found, reply, lost, historyVars>>,
         pc' = pc \/ \E label \in Label : Goto(Admin, label),
         listed' \in [payments : SUBSET Key, tokens : SUBSET Key],
         \/ walletLock' = walletLock
         \/ \E s \in Shopper : /\ Free(walletLock[s])
                              /\ walletLock' = [walletLock EXCEPT ![s] = Admin],
         \/ tokenLock' = tokenLock
         \/ \E k \in Key : /\ Free(tokenLock[k])
                          /\ tokenLock' = [tokenLock EXCEPT ![k] = Admin],
         \/ paymentLock' = paymentLock
         \/ \E k \in Key : paymentLock' = [paymentLock EXCEPT ![k] = Admin]
  PROVE  MonolithInv'
<1> USE DEF MonolithInv
<1>1. /\ pc' \in [Tx \cup Creator -> Label]
      /\ \A x \in Request \cup Creator : pc'[x] = pc[x]
  <2>1. pc \in [Tx \cup Creator -> Label]
    BY DEF TypeOK
  <2>2. CASE pc' = pc
    BY <2>1, <2>2
  <2>3. CASE \E label \in Label : Goto(Admin, label)
    <3>1. PICK label \in Label : pc' = [pc EXCEPT ![Admin] = label]
      BY <2>3 DEF Goto
    <3> QED
      BY <2>1, <3>1, Roles
  <2> QED
    BY <2>2, <2>3
<1>2. /\ walletLock' \in [Shopper -> Tx \cup {NoTx}]
      /\ \A r \in Request, s \in Shopper : walletLock[s] = r => walletLock'[s] = r
  BY Roles DEF TypeOK, Free
<1>3. /\ tokenLock' \in [Key -> Tx \cup {NoTx}]
      /\ \A r \in Request, k \in Key : tokenLock[k] = r => tokenLock'[k] = r
  BY Roles DEF TypeOK, Free
<1>4. paymentLock' \in [Key -> Tx \cup {NoTx}]
  BY Roles DEF TypeOK
<1>5. TypeOK'
  BY <1>1, <1>2, <1>3, <1>4 DEF TypeOK, rowVars, historyVars
<1>6. ASSUME NEW r \in Request PROVE RequestOK(r)'
  <2>1. Payer(r) \in Shopper /\ KeyOf(r) \in Key
    BY ArgTypes
  <2> QED
    BY <1>1, <1>2, <1>3, <2>1, OtherRequest DEF rowVars, historyVars
<1>7. \A k \in Key : TokenOK(k)'
  BY SameTokens DEF rowVars, historyVars
<1>8. \A c \in Creator : CreationOK(c)'
  BY <1>1, SameCreations DEF historyVars
<1>9. Conservation'
  BY SameMoney DEF rowVars, historyVars
<1> QED
  BY <1>5, <1>6, <1>7, <1>8, <1>9

\* deleteAll reads the rows of a table.
LEMMA ListInv ==
  ASSUME MonolithInv, ListPayments \/ ListTokens
  PROVE  MonolithInv'
<1>1. listed' \in [payments : SUBSET Key, tokens : SUBSET Key]
  <2>1. listed \in [payments : SUBSET Key, tokens : SUBSET Key]
    BY DEF MonolithInv, TypeOK
  <2> QED
    BY <2>1 DEF ListPayments, ListTokens
<1>2. "list" \in Label /\ "delete" \in Label
  BY DEF Label
<1> QED
  BY <1>1, <1>2, AdminStep DEF ListPayments, ListTokens, lockVars

\* And removes them, which takes their locks.
LEMMA DeleteInv ==
  ASSUME MonolithInv,
         \/ \E k \in Key : DeletePayment(k) \/ DeleteToken(k)
         \/ \E s \in Shopper : DeleteWallet(s)
  PROVE  MonolithInv'
<1>1. listed \in [payments : SUBSET Key, tokens : SUBSET Key]
  BY DEF MonolithInv, TypeOK
<1> QED
  BY <1>1, AdminStep DEF DeletePayment, DeleteToken, DeleteWallet, taskVars

\* When it commits, it has locked the wallets of all shoppers that are there, so that no
\* payment is past its own lock, and every token that it deletes.
LEMMA CommitInitInv ==
  ASSUME MonolithInv, CommitInit
  PROVE  MonolithInv'
<1> USE DEF MonolithInv
<1>1. /\ WalletsLeft = {} /\ ready' = TRUE /\ era' = era + 1
      /\ balance' = InitBalance
      /\ points' = [s \in Shopper |-> InitPoints]
      /\ token' = [k \in Key |-> IF k \in listed.tokens THEN Absent ELSE token[k]]
      /\ payment' = [k \in Key |-> IF k \in listed.payments THEN NoTx ELSE payment[k]]
      /\ Unlock(Admin) /\ Goto(Admin, "done")
      /\ since' = [k \in Key |-> 0]
      /\ spent' = [s \in Shopper |-> 0]
      /\ topUp' = [s \in Shopper |-> 0]
      /\ earned' = [s \in Shopper |-> 0]
      /\ UNCHANGED <<taskVars, reply, lost, issued, debited, charged>>
  BY DEF CommitInit
<1>2. /\ pc' \in [Tx \cup Creator -> Label]
      /\ \A x \in Request \cup Creator : pc'[x] = pc[x]
  BY <1>1, Roles DEF Goto, TypeOK, Label
<1>3. ASSUME NEW r \in Request PROVE RequestOK(r)'
  <2>1. Payer(r) \in Shopper /\ RequestOK(r)
    BY ArgTypes
  <2>2. pc[r] \notin HasWallet
    BY <1>1, <2>1, Roles DEF WalletsLeft, RequestOK, WalletRead
  <2>3. pc[r] \notin HasToken
    BY <2>2 DEF HasWallet, HasToken
  <2> QED
    BY <1>1, <1>2, <2>1, <2>2, <2>3, OtherRequest DEF taskVars
<1>4. TypeOK'
  <2>1. /\ walletLock' \in [Shopper -> Tx \cup {NoTx}]
        /\ tokenLock' \in [Key -> Tx \cup {NoTx}]
        /\ paymentLock' \in [Key -> Tx \cup {NoTx}]
    BY <1>1, Roles, UnlockEffect
  <2>2. era' \in Nat /\ ready' \in BOOLEAN
    BY <1>1 DEF TypeOK
  <2>3. balance' \in [Shopper -> Money] /\ points' \in [Shopper -> Nat]
    BY <1>1, MonolithAssumption
  <2>4. token' \in [Key -> Status] /\ payment' \in [Key -> Request \cup {NoTx}]
    BY <1>1 DEF TypeOK, Status
  <2>5. /\ since' \in [Key -> Nat] /\ spent' \in [Shopper -> Nat]
        /\ topUp' \in [Shopper -> Nat] /\ earned' \in [Shopper -> Nat]
    BY <1>1
  <2> QED
    BY <1>1, <1>2, <2>1, <2>2, <2>3, <2>4, <2>5 DEF TypeOK, taskVars
<1>5. ASSUME NEW k \in Key PROVE TokenOK(k)'
  <2>1. era' # 0 /\ since'[k] = 0 /\ TokenOK(k)
    BY <1>1 DEF TypeOK
  <2>2. token'[k] = token[k] \/ token'[k] = Absent
    BY <1>1
  <2> QED
    BY <1>1, <2>1, <2>2 DEF TokenOK, Absent
<1>6. \A c \in Creator : CreationOK(c)'
  BY <1>1, <1>2, SameCreations DEF taskVars
<1>7. Conservation'
  BY <1>1, MonolithAssumption, MaxIntAssumption DEF Conservation, Money
<1> QED
  BY <1>3, <1>4, <1>5, <1>6, <1>7

-----------------------------------------------------------------------------
(* Every step, and what follows.                                           *)

\* Every step keeps the invariant.
LEMMA NextInv == MonolithInv /\ [Next]_vars => MonolithInv'
<1> SUFFICES ASSUME MonolithInv, [Next]_vars PROVE MonolithInv'
  OBVIOUS
<1>1. CASE UNCHANGED vars
  <2>1. \A k \in Key : TokenOK(k)'
    BY <1>1, SameTokens DEF vars, rowVars, historyVars
  <2>2. \A c \in Creator : CreationOK(c)'
    BY <1>1, SameCreations DEF vars, taskVars, historyVars
  <2>3. Conservation'
    BY <1>1, SameMoney DEF vars, rowVars, historyVars
  <2>4. TypeOK'
    BY <1>1 DEF MonolithInv, TypeOK, vars, rowVars, lockVars, taskVars, historyVars
  <2>5. \A r \in Request : RequestOK(r)'
    BY <1>1, OtherRequest DEF MonolithInv, vars, rowVars, lockVars, taskVars, historyVars
  <2> QED
    BY <2>1, <2>2, <2>3, <2>4, <2>5 DEF MonolithInv
<1>2. ASSUME NEW r \in Request, FindShopper(r) \/ Serve(r)
      PROVE  MonolithInv'
  BY <1>2, FindShopperInv, LockWalletInv, LockTokenInv, ChargeInv, CommitPaidInv,
     CommitRefusedInv, AnswerInv DEF Serve
<1>3. ASSUME NEW c \in Creator, MergeToken(c) \/ FlushToken(c)
      PROVE  MonolithInv'
  BY <1>3, MergeTokenInv, FlushTokenInv
<1>4. CASE ListPayments \/ Initialize
  BY <1>4, ListInv, DeleteInv, CommitInitInv DEF Initialize
<1>5. ASSUME NEW t \in Tx, BreakDeadlock(t) \/ Lose(t)
      PROVE  MonolithInv'
  BY <1>5, BreakDeadlockInv, LoseInv
<1> QED
  BY <1>1, <1>2, <1>3, <1>4, <1>5 DEF Next

\* What each transaction knows of the rows that it has locked is true at any time.
THEOREM MonolithInvariant == Spec => []MonolithInv
<1> QED
  BY InitInv, NextInv, PTL DEF Spec

\* Every variable keeps its type, so that a balance that is committed is an int and is
\* not negative, however payments, creations and initialisations interleave.
THEOREM TypeCorrect == Spec => []TypeOK
<1>1. MonolithInv => TypeOK
  BY DEF MonolithInv
<1> QED
  BY <1>1, MonolithInvariant, PTL

\* No update of a wallet is lost: PESSIMISTIC_WRITE keeps others from the wallet between
\* the time a payment reads it and the end of its transaction.
THEOREM NoMoneyLost == Spec => []Conservation
<1>1. MonolithInv => Conservation
  BY DEF MonolithInv
<1> QED
  BY <1>1, MonolithInvariant, PTL

\* A token is paid for at most as often as it was issued, even when the creation of a
\* token meets an id that is in use.
THEOREM OncePerIssue == Spec => []ChargedOncePerIssue
<1>1. MonolithInv => ChargedOncePerIssue
  BY DEF MonolithInv, TokenOK, ChargedOncePerIssue
<1> QED
  BY <1>1, MonolithInvariant, PTL

\* Wallet, token and payment are stored together or not at all.
THEOREM AllTogether == Spec => []AllOrNothing
<1>1. MonolithInv => AllOrNothing
  <2> SUFFICES ASSUME MonolithInv, NEW k \in Key
               PROVE  /\ since[k] > 0 => payment[k] # NoTx
                      /\ era = 0 /\ issued[k] <= 1 =>
                           /\ token[k] = "USED" <=> debited[k] = 1
                           /\ payment[k] # NoTx <=> debited[k] = 1
    BY DEF AllOrNothing
  <2>1. TokenOK(k) /\ debited[k] \in Nat /\ issued[k] \in Nat
    BY DEF MonolithInv, TypeOK
  <2>2. issued[k] <= 1 => (debited[k] > 0 <=> debited[k] = 1)
    BY <2>1 DEF TokenOK
  <2> QED
    BY <2>1, <2>2 DEF TokenOK
<1> QED
  BY <1>1, MonolithInvariant, PTL

\* As long as no connection breaks, a client is told of success exactly when its payment
\* was charged, once: a victim of a deadlock has charged nothing.
THEOREM HonestReply == Spec => []ReplyTellsTheTruth
<1>1. MonolithInv => ReplyTellsTheTruth
  BY DEF MonolithInv, RequestOK, Told, ReplyTellsTheTruth, At
<1> QED
  BY <1>1, MonolithInvariant, PTL

-----------------------------------------------------------------------------
(* What a step does to a token, and to the ledger.                         *)

Moves(k) ==
  \/ token'[k] = "UNUSED" /\ issued'[k] = issued[k] + 1
  \/ token[k] = "UNUSED" /\ token'[k] = "USED" /\ debited'[k] = debited[k] + 1
  \/ token[k] = "UNUSED" /\ token'[k] \in {"PROCESSING", "FAILED"}
                           /\ balance' = balance
  \/ token'[k] = Absent /\ era' = era + 1

\* Only these four actions write a row of the token.
LEMMA Writers ==
  ASSUME [Next]_vars
  PROVE  \/ UNCHANGED <<era, balance, token, payment>>
         \/ \E r \in Request : CommitPaid(r) \/ CommitRefused(r)
         \/ \E c \in Creator : FlushToken(c)
         \/ CommitInit
<1>1. CASE UNCHANGED vars
  BY <1>1 DEF vars, rowVars
<1>2. ASSUME NEW r \in Request, FindShopper(r) \/ Serve(r)
      PROVE  \/ UNCHANGED <<era, balance, token, payment>>
             \/ CommitPaid(r) \/ CommitRefused(r)
  BY <1>2 DEF FindShopper, Serve, LockWallet, WakeUp, LockToken, Charge, Answer, rowVars
<1>3. ASSUME NEW c \in Creator, MergeToken(c)
      PROVE  UNCHANGED <<era, balance, token, payment>>
  BY <1>3 DEF MergeToken, rowVars
<1>4. CASE ListPayments \/ Initialize
  BY <1>4 DEF ListPayments, Initialize, ListTokens, DeletePayment, DeleteToken,
              DeleteWallet, rowVars
<1>5. ASSUME NEW t \in Tx, BreakDeadlock(t) \/ Lose(t)
      PROVE  UNCHANGED <<era, balance, token, payment>>
  BY <1>5 DEF BreakDeadlock, Lose, Rollback, rowVars
<1> QED
  BY <1>1, <1>2, <1>3, <1>4, <1>5 DEF Next

\* What a payment that commits writes.
LEMMA PaidWrites ==
  ASSUME MonolithInv, NEW r \in Request, CommitPaid(r)
  PROVE  LET k == KeyOf(r)
             s == Payer(r)
         IN  /\ k \in Key /\ s \in Shopper /\ s = Owner(k) /\ AmountOf(r) \in Amount
             /\ token[k] = "UNUSED" /\ token' = [token EXCEPT ![k] = "USED"]
             /\ Payable(balance[s], AutoCharge[s], AmountOf(r))
             /\ balance' = [balance EXCEPT
                              ![s] = Left(balance[s], AutoCharge[s], AmountOf(r))]
             /\ payment' = [payment EXCEPT ![k] = r]
             /\ debited' = [debited EXCEPT ![k] = @ + 1]
<1>1. arg[r] \in [key : Key, amount : Amount]
  BY DEF MonolithInv, TypeOK
<1>2. AmountOf(r) \in Amount
  BY <1>1 DEF AmountOf
<1> QED
  BY <1>2, AtCommit DEF CommitPaid, At, PaymentStored, Payer

\* And one that was refused.
LEMMA RefusedWrites ==
  ASSUME MonolithInv, NEW r \in Request, CommitRefused(r)
  PROVE  /\ KeyOf(r) \in Key /\ UNCHANGED <<era, balance, payment>>
         /\ \/ token' = token
            \/ /\ token[KeyOf(r)] = "UNUSED"
               /\ token' = [token EXCEPT ![KeyOf(r)] = "PROCESSING"]
<1> DEFINE k == KeyOf(r)
<1>1. token \in [Key -> Status]
  BY DEF MonolithInv, TypeOK
<1>2. /\ k \in Key
      /\ \/ buf[r].token = token[k]
         \/ buf[r].token = "PROCESSING" /\ token[k] = "UNUSED"
  BY AtCommit DEF CommitRefused, At
<1>3. /\ token' = [token EXCEPT ![k] = buf[r].token]
      /\ UNCHANGED <<era, balance, payment>>
  BY DEF CommitRefused
<1> HIDE DEF k
<1>4. token' = token \/ (token[k] = "UNUSED" /\ token' = [token EXCEPT ![k] = "PROCESSING"])
  BY <1>1, <1>2, <1>3
<1> QED
  BY <1>2, <1>3, <1>4 DEF k

\* And a creation.
LEMMA FlushWrites ==
  ASSUME MonolithInv, NEW c \in Creator, FlushToken(c)
  PROVE  /\ UNCHANGED <<era, balance, payment>>
         /\ \/ token' = token
            \/ \E k \in Key : /\ token' = [token EXCEPT ![k] = "UNUSED"]
                             /\ issued' = [issued EXCEPT ![k] = @ + 1]
<1>1. found[c] \in Key \X Status
  BY DEF MonolithInv, CreationOK, FlushToken, At
<1>2. found[c][1] \in Key
  BY <1>1
<1> QED
  BY <1>2 DEF FlushToken

\* A step that changes a token is one of the four.
LEMMA TokenMoves ==
  ASSUME MonolithInv, [Next]_vars, NEW k \in Key, token'[k] # token[k]
  PROVE  Moves(k)
<1>1. token \in [Key -> Status] /\ issued \in [Key -> Nat] /\ debited \in [Key -> Nat]
  BY DEF MonolithInv, TypeOK
<1>2. ASSUME NEW r \in Request, CommitPaid(r) PROVE Moves(k)
  BY <1>1, <1>2, PaidWrites DEF Moves
<1>3. ASSUME NEW r \in Request, CommitRefused(r) PROVE Moves(k)
  BY <1>1, <1>3, RefusedWrites DEF Moves
<1>4. ASSUME NEW c \in Creator, FlushToken(c) PROVE Moves(k)
  BY <1>1, <1>4, FlushWrites DEF Moves
<1>5. CASE CommitInit
  BY <1>5 DEF CommitInit, Moves
<1> QED
  BY <1>2, <1>3, <1>4, <1>5, Writers

\* A token is issued, paid with, spoilt or deleted, and changes in no other way.
THEOREM LifeOfAToken == Spec => TokenLifecycle
<1>1. MonolithInv /\ [Next]_vars =>
        [\A k \in Key : token'[k] # token[k] =>
           \/ token'[k] = "UNUSED" /\ issued'[k] = issued[k] + 1
           \/ token[k] = "UNUSED" /\ token'[k] = "USED" /\ debited'[k] = debited[k] + 1
           \/ token[k] = "UNUSED" /\ token'[k] \in {"PROCESSING", "FAILED"}
                                    /\ balance' = balance
           \/ token'[k] = Absent /\ era' = era + 1]_vars
  BY TokenMoves DEF Moves
<1> QED
  BY <1>1, MonolithInvariant, PTL DEF Spec, TokenLifecycle

\* Both compute a payment in the same way.
LEMMA SameArithmetic ==
  \A money, auto, bill :
    /\ Ledger!Payable(money, auto, bill) <=> Payable(money, auto, bill)
    /\ Ledger!Left(money, auto, bill) = Left(money, auto, bill)
BY DEF Ledger!Payable, Payable, Ledger!Left, Left, Ledger!Charges, Charges,
       Ledger!CanPay, CanPay, Ledger!AutoChargeable, AutoChargeable

\* Apart from an initialisation a step of the monolith is one of the ledger.
LEMMA LedgerStep ==
  ASSUME MonolithInv, [Next]_vars, era' = era
  PROVE  [Ledger!Next]_(Ledger!vars)
<1> USE DEF Ledger!Next, Ledger!vars, Ledger!Key, Key
<1>1. CASE UNCHANGED <<balance, token, payment>>
  BY <1>1
<1>2. ASSUME NEW r \in Request, CommitPaid(r) PROVE Ledger!Next
  <2>1. PICK k \in Key, amount \in Amount : k = KeyOf(r) /\ amount = AmountOf(r)
    BY <1>2, PaidWrites
  <2> DEFINE s == k[1]
             left == Left(balance[s], AutoCharge[s], amount)
  <2>2. /\ token \in [Key -> Status]
        /\ token[k] = "UNUSED" /\ token' = [token EXCEPT ![k] = "USED"]
        /\ Payable(balance[s], AutoCharge[s], amount)
        /\ balance' = [balance EXCEPT ![s] = left]
        /\ payment' = [payment EXCEPT ![k] = r]
    BY <1>2, <2>1, PaidWrites DEF MonolithInv, TypeOK, Payer, Owner
  <2> HIDE DEF left
  <2>3. [q \in Key |-> token'[q] = "UNUSED"]
          = [[q \in Key |-> token[q] = "UNUSED"] EXCEPT ![k] = FALSE]
    BY <2>2
  <2>4. Ledger!Pay(r, k, amount)
    BY <2>2, <2>3, SameArithmetic DEF Ledger!Pay, Ledger!Owner, left
  <2> QED
    BY <2>4
<1>3. ASSUME NEW r \in Request, CommitRefused(r), token' # token PROVE Ledger!Next
  <2>1. PICK k \in Key : k = KeyOf(r)
    BY <1>3, RefusedWrites
  <2>2. token \in [Key -> Status]
    BY DEF MonolithInv, TypeOK
  <2>3. [q \in Key |-> token'[q] = "UNUSED"]
          = [[q \in Key |-> token[q] = "UNUSED"] EXCEPT ![k] = FALSE]
    BY <1>3, <2>1, <2>2, RefusedWrites
  <2>4. Ledger!Expire(k)
    BY <1>3, <2>3, RefusedWrites DEF Ledger!Expire
  <2> QED
    BY <2>4
<1>4. ASSUME NEW c \in Creator, FlushToken(c), token' # token PROVE Ledger!Next
  <2>1. PICK k \in Key : token' = [token EXCEPT ![k] = "UNUSED"]
    BY <1>4, FlushWrites
  <2>2. token \in [Key -> Status]
    BY DEF MonolithInv, TypeOK
  <2>3. [q \in Key |-> token'[q] = "UNUSED"]
          = [[q \in Key |-> token[q] = "UNUSED"] EXCEPT ![k] = TRUE]
    BY <2>1, <2>2
  <2>4. Ledger!Issue(k)
    BY <1>4, <2>3, FlushWrites DEF Ledger!Issue
  <2> QED
    BY <2>4
<1>5. ~CommitInit
  BY DEF CommitInit, MonolithInv, TypeOK
<1> QED
  BY <1>1, <1>2, <1>3, <1>4, <1>5, Writers, RefusedWrites, FlushWrites

\* The monolith implements the ledger that the data grid implements: every step is one
\* indivisible payment, issue or loss of a token, or nothing, until the wallets are
\* filled anew.
THEOREM Implements == Spec => ImplementsLedger
<1>1. Init => Ledger!Init
  BY DEF Init, Ledger!Init, Ledger!Key, Key, Nothing, Absent
<1>2. MonolithInv /\ [Next]_vars =>
        [era' = era => [Ledger!Next]_(Ledger!vars)]_vars
  BY LedgerStep
<1> QED
  BY <1>1, <1>2, MonolithInvariant, PTL DEF Spec, ImplementsLedger

-----------------------------------------------------------------------------
(* Who waits for whom.                                                     *)

\* The labels at which a transaction has nothing to do, not yet or not any more.
Over == {"idle", "done"}

\* A payment locks no wallet and no token but those it asks for, in that order, and
\* no payment row at all; the initialiser locks only while it deletes.
LocksHeld ==
  /\ \A s \in Shopper, r \in Request : walletLock[s] = r =>
       s = Payer(r) /\ pc[r] \in HasWallet \cup {"answer"}
  /\ \A k \in Key, r \in Request : tokenLock[k] = r =>
       k = KeyOf(r) /\ pc[r] \in HasToken
  /\ \A k \in Key : paymentLock[k] \in {Admin, NoTx}
  /\ pc[Admin] # "delete" =>
       /\ \A s \in Shopper : walletLock[s] # Admin
       /\ \A k \in Key : tokenLock[k] # Admin /\ paymentLock[k] # Admin

\* Each transaction of a set waits for one of the set.
WaitInCircles(C) == \A t \in C : \E u \in C : WaitsFor(t, u)

\* Transactions wait in circles only if the initialiser and a payment wait for each
\* other, which the database finds.
CirclesAreFound ==
  \A C \in SUBSET Tx : C # {} /\ WaitInCircles(C) =>
    \E r \in C \ {Admin} : WaitsFor(r, Admin) /\ WaitsFor(Admin, r)

\* As long as a transaction is under way, one of them waits for no other or is
\* in a deadlock that the database finds.
SomebodyGoesOn ==
  (\E t \in Tx : pc[t] \notin Over) =>
    \E t \in Tx : /\ pc[t] \notin Over
                  /\ (\A u \in Tx : ~WaitsFor(t, u)) \/ Deadlocked(t)

\* A step of one transaction, which leaves the locks of the others alone.
LEMMA LockStep ==
  ASSUME TypeOK, LocksHeld, NEW t \in Tx \cup Creator, NEW label \in Label,
         Goto(t, label), arg' = arg,
         \A s \in Shopper : walletLock'[s] # t => walletLock'[s] \in {walletLock[s], NoTx},
         \A k \in Key : tokenLock'[k] # t => tokenLock'[k] \in {tokenLock[k], NoTx},
         \A k \in Key : paymentLock'[k] # t => paymentLock'[k] \in {paymentLock[k], NoTx},
         t \in Request =>
           /\ \A s \in Shopper : walletLock'[s] = t =>
                s = Payer(t) /\ label \in HasWallet \cup {"answer"}
           /\ \A k \in Key : tokenLock'[k] = t => k = KeyOf(t) /\ label \in HasToken
           /\ \A k \in Key : paymentLock'[k] # t,
         t = Admin /\ label # "delete" =>
           /\ \A s \in Shopper : walletLock'[s] # Admin
           /\ \A k \in Key : tokenLock'[k] # Admin /\ paymentLock'[k] # Admin,
         t \in Creator => UNCHANGED lockVars
  PROVE  LocksHeld'
<1>1. /\ pc'[t] = label
      /\ \A x \in (Tx \cup Creator) \ {t} : pc'[x] = pc[x]
  BY DEF TypeOK, Goto
<1>2. \A r \in Request : Payer(r)' = Payer(r) /\ KeyOf(r)' = KeyOf(r)
  BY DEF Payer, KeyOf
<1>3. ASSUME NEW s \in Shopper, NEW r \in Request, walletLock'[s] = r
      PROVE  s = Payer(r)' /\ pc'[r] \in HasWallet \cup {"answer"}
  <2>1. CASE r = t
    BY <1>1, <1>2, <1>3, <2>1
  <2>2. CASE r # t
    BY <1>1, <1>2, <1>3, <2>2, Roles DEF LocksHeld
  <2> QED
    BY <2>1, <2>2
<1>4. ASSUME NEW k \in Key, NEW r \in Request, tokenLock'[k] = r
      PROVE  k = KeyOf(r)' /\ pc'[r] \in HasToken
  <2>1. CASE r = t
    BY <1>1, <1>2, <1>4, <2>1
  <2>2. CASE r # t
    BY <1>1, <1>2, <1>4, <2>2, Roles DEF LocksHeld
  <2> QED
    BY <2>1, <2>2
<1>5. \A k \in Key : paymentLock'[k] \in {Admin, NoTx}
  BY Roles DEF LocksHeld, lockVars
<1>6. pc'[Admin] # "delete" =>
        /\ \A s \in Shopper : walletLock'[s] # Admin
        /\ \A k \in Key : tokenLock'[k] # Admin /\ paymentLock'[k] # Admin
  <2>1. CASE t = Admin
    BY <1>1, <2>1
  <2>2. CASE t # Admin
    BY <1>1, <2>2, Roles DEF LocksHeld
  <2> QED
    BY <2>1, <2>2
<1> QED
  BY <1>3, <1>4, <1>5, <1>6 DEF LocksHeld

\* The end of a transaction frees what it has locked.
LEMMA LocksFreed ==
  ASSUME TypeOK, LocksHeld, NEW t \in Tx, Unlock(t), arg' = arg,
         NEW label \in {"answer", "done"}, Goto(t, label)
  PROVE  LocksHeld'
<1>1. /\ \A s \in Shopper : walletLock'[s] # t /\ walletLock'[s] \in {walletLock[s], NoTx}
      /\ \A k \in Key : tokenLock'[k] # t /\ tokenLock'[k] \in {tokenLock[k], NoTx}
      /\ \A k \in Key : paymentLock'[k] # t /\ paymentLock'[k] \in {paymentLock[k], NoTx}
  BY Roles DEF Unlock
<1>2. t \in Tx \cup Creator /\ t \notin Creator /\ label \in Label /\ label # "delete"
  BY Roles DEF Label
<1> QED
  BY <1>1, <1>2, LockStep

\* A payment that takes no lock.
LEMMA LocksSame ==
  ASSUME TypeOK, LocksHeld, NEW t \in Tx \cup Creator, NEW label \in Label,
         Goto(t, label), UNCHANGED <<lockVars, arg>>,
         t \in Request =>
           \/ pc[t] \in {"idle", "wallet", "waitWallet"}
           \/ pc[t] = "token" /\ label \in HasWallet
           \/ pc[t] = "charge" /\ label = "commit",
         t = Admin => label = "delete" \/ pc[Admin] # "delete"
  PROVE  LocksHeld'
<1>1. /\ walletLock' = walletLock /\ tokenLock' = tokenLock /\ paymentLock' = paymentLock
  BY DEF lockVars
<1>2. t \in Request =>
        /\ \A s \in Shopper : walletLock'[s] = t =>
             s = Payer(t) /\ label \in HasWallet \cup {"answer"}
        /\ \A k \in Key : tokenLock'[k] = t => k = KeyOf(t) /\ label \in HasToken
        /\ \A k \in Key : paymentLock'[k] # t
  BY <1>1, Roles DEF LocksHeld, HasWallet, HasToken
<1>3. t = Admin /\ label # "delete" =>
        /\ \A s \in Shopper : walletLock'[s] # Admin
        /\ \A k \in Key : tokenLock'[k] # Admin /\ paymentLock'[k] # Admin
  BY <1>1 DEF LocksHeld
<1> QED
  BY <1>1, <1>2, <1>3, LockStep

\* SELECT FOR UPDATE of the wallet.
LEMMA TakeWalletLocks ==
  ASSUME TypeOK, LocksHeld, NEW r \in Request, TakeWallet(r),
         pc[r] \in {"wallet", "waitWallet"}, UNCHANGED <<tokenLock, paymentLock, arg>>
  PROVE  LocksHeld'
<1> DEFINE label == IF token[KeyOf(r)] # Absent THEN "token" ELSE "answer"
<1>1. Goto(r, label) /\ walletLock' = [walletLock EXCEPT ![Payer(r)] = r]
  BY DEF TakeWallet
<1>2. label \in Label /\ label \in HasWallet \cup {"answer"}
  BY DEF Label, HasWallet
<1> HIDE DEF label
<1>3. /\ r \in Tx \cup Creator /\ r # Admin /\ r \notin Creator
      /\ \A s \in Shopper : walletLock[s] # r
      /\ \A k \in Key : tokenLock[k] # r /\ paymentLock[k] # r
  BY Roles DEF LocksHeld, HasWallet, HasToken
<1>4. \A s \in Shopper : walletLock'[s] = IF s = Payer(r) THEN r ELSE walletLock[s]
  BY <1>1, ArgTypes DEF TypeOK
<1> QED
  BY <1>1, <1>2, <1>3, <1>4, LockStep

\* SELECT FOR UPDATE of the token.
LEMMA LockTokenLocks ==
  ASSUME TypeOK, LocksHeld, NEW r \in Request, LockToken(r)
  PROVE  LocksHeld'
<1>1. PICK label \in {"charge", "commit"} : Goto(r, label)
  BY DEF LockToken
<1>2. /\ pc[r] = "token" /\ UNCHANGED <<walletLock, paymentLock, arg>>
      /\ tokenLock' = [tokenLock EXCEPT ![KeyOf(r)] = r]
  BY DEF LockToken, At
<1>3. label \in Label /\ label \in HasWallet /\ label \in HasToken
  BY DEF Label, HasWallet, HasToken
<1>4. /\ r \in Tx \cup Creator /\ r # Admin /\ r \notin Creator
      /\ \A s \in Shopper : walletLock[s] = r => s = Payer(r)
      /\ \A k \in Key : tokenLock[k] # r /\ paymentLock[k] # r
  BY <1>2, Roles DEF LocksHeld, HasToken
<1>5. \A k \in Key : tokenLock'[k] = IF k = KeyOf(r) THEN r ELSE tokenLock[k]
  BY <1>2, ArgTypes DEF TypeOK
<1> QED
  BY <1>1, <1>2, <1>3, <1>4, <1>5, LockStep

\* The initialiser locks the row that it deletes.
LEMMA DeleteLocks ==
  ASSUME TypeOK, LocksHeld,
         \/ \E k \in Key : DeletePayment(k) \/ DeleteToken(k)
         \/ \E s \in Shopper : DeleteWallet(s)
  PROVE  LocksHeld'
<1>1. pc[Admin] = "delete" /\ pc' = pc /\ arg' = arg
  BY DEF DeletePayment, DeleteToken, DeleteWallet, At, taskVars
<1>2. /\ \A s \in Shopper : walletLock'[s] \in {walletLock[s], Admin}
      /\ \A k \in Key : tokenLock'[k] \in {tokenLock[k], Admin}
      /\ \A k \in Key : paymentLock'[k] \in {paymentLock[k], Admin}
  BY DEF DeletePayment, DeleteToken, DeleteWallet, TypeOK
<1>3. \A r \in Request : Payer(r)' = Payer(r) /\ KeyOf(r)' = KeyOf(r)
  BY <1>1 DEF Payer, KeyOf
<1> QED
  BY <1>1, <1>2, <1>3, Roles DEF LocksHeld

\* LocksHeld is inductive.
LEMMA LocksHeldInv ==
  ASSUME TypeOK, LocksHeld, [Next]_vars
  PROVE  LocksHeld'
<1>1. ASSUME NEW r \in Request, FindShopper(r) PROVE LocksHeld'
  <2>1. PICK label \in {"wallet", "answer"} : Goto(r, label)
    BY <1>1 DEF FindShopper
  <2>2. label \in Label /\ r \in Tx \cup Creator /\ r # Admin /\ pc[r] = "idle"
    BY <1>1, Roles DEF Label, FindShopper, At
  <2> QED
    BY <1>1, <2>1, <2>2, LocksSame DEF FindShopper, taskVars
<1>2. ASSUME NEW r \in Request, LockWallet(r) \/ WakeUp(r) PROVE LocksHeld'
  <2>1. pc[r] \in {"wallet", "waitWallet"} /\ UNCHANGED <<tokenLock, paymentLock, arg>>
    BY <1>2 DEF LockWallet, WakeUp, At
  <2>2. CASE TakeWallet(r)
    BY <2>1, <2>2, TakeWalletLocks
  <2>3. ASSUME ~TakeWallet(r) PROVE LocksHeld'
    <3>1. PICK label \in {"waitWallet", "answer"} : Goto(r, label)
      BY <1>2, <2>3 DEF LockWallet, WakeUp
    <3>2. label \in Label /\ r \in Tx \cup Creator /\ r # Admin
      BY Roles DEF Label
    <3>3. walletLock' = walletLock
      BY <1>2, <2>3 DEF LockWallet, WakeUp
    <3> QED
      BY <2>1, <3>1, <3>2, <3>3, LocksSame DEF lockVars
  <2> QED
    BY <2>2, <2>3
<1>3. ASSUME NEW r \in Request, LockToken(r) PROVE LocksHeld'
  BY <1>3, LockTokenLocks
<1>4. ASSUME NEW r \in Request, Charge(r) PROVE LocksHeld'
  <2>1. "commit" \in Label /\ r \in Tx \cup Creator /\ r # Admin /\ pc[r] = "charge"
    BY <1>4, Roles DEF Label, Charge, At
  <2>2. Goto(r, "commit") /\ UNCHANGED <<lockVars, arg>>
    BY <1>4 DEF Charge
  <2> QED
    BY <2>1, <2>2, LocksSame
<1>5. ASSUME NEW r \in Request, CommitPaid(r) \/ CommitRefused(r) PROVE LocksHeld'
  <2>1. r \in Tx /\ Unlock(r) /\ arg' = arg /\ Goto(r, "answer")
    BY <1>5, Roles DEF CommitPaid, CommitRefused, taskVars
  <2> QED
    BY <2>1, LocksFreed
<1>6. ASSUME NEW r \in Request, Answer(r) PROVE LocksHeld'
  <2>1. r \in Tx /\ Unlock(r) /\ arg' = arg /\ Goto(r, "done")
    BY <1>6, Roles DEF Answer, taskVars
  <2> QED
    BY <2>1, LocksFreed
<1>7. ASSUME NEW c \in Creator, MergeToken(c) \/ FlushToken(c) PROVE LocksHeld'
  <2>1. PICK label \in {"flush", "done"} : Goto(c, label)
    BY <1>7 DEF MergeToken, FlushToken
  <2>2. /\ label \in Label /\ c \in Tx \cup Creator /\ c \notin Request /\ c # Admin
        /\ UNCHANGED <<lockVars, arg>>
    BY <1>7, Roles DEF Label, MergeToken, FlushToken, taskVars
  <2> QED
    BY <2>1, <2>2, LocksSame
<1>8. ASSUME ListPayments \/ ListTokens PROVE LocksHeld'
  <2>1. PICK label \in {"list", "delete"} : Goto(Admin, label)
    BY <1>8 DEF ListPayments, ListTokens
  <2>2. /\ label \in Label /\ Admin \in Tx \cup Creator /\ Admin \notin Request
        /\ pc[Admin] # "delete" /\ UNCHANGED <<lockVars, arg>>
    BY <1>8, Roles DEF Label, ListPayments, ListTokens, At
  <2> QED
    BY <2>1, <2>2, LocksSame
<1>9. CASE CommitInit
  <2>1. Admin \in Tx /\ Unlock(Admin) /\ arg' = arg /\ Goto(Admin, "done")
    BY <1>9, Roles DEF CommitInit, taskVars
  <2> QED
    BY <2>1, LocksFreed
<1>10. ASSUME NEW t \in Tx, BreakDeadlock(t) \/ Lose(t) PROVE LocksHeld'
  <2>1. Unlock(t) /\ arg' = arg /\ Goto(t, "done")
    BY <1>10 DEF BreakDeadlock, Lose, Rollback, taskVars
  <2> QED
    BY <2>1, LocksFreed
<1>11. CASE UNCHANGED vars
  BY <1>11 DEF vars, lockVars, taskVars, LocksHeld, Payer, KeyOf
<1> QED
  BY <1>1, <1>2, <1>3, <1>4, <1>5, <1>6, <1>7, <1>8, <1>9, <1>10, <1>11, DeleteLocks
     DEF Next, Serve, Initialize

\* Every lock is held by a transaction that is under way and may hold it.
THEOREM LocksInvariant == Spec => []LocksHeld
<1>1. Init => LocksHeld
  BY Roles DEF Init, LocksHeld, Nobody, Nothing
<1>2. TypeOK /\ LocksHeld /\ [Next]_vars => LocksHeld'
  BY LocksHeldInv
<1> QED
  BY <1>1, <1>2, TypeCorrect, PTL DEF Spec

\* A payment that waits for a token or a payment row waits for the initialiser, since
\* it has locked the wallet that another payment would need for it.
LEMMA WaitsWithWallet ==
  ASSUME MonolithInv, LocksHeld, NEW r \in Request, pc[r] \in HasWallet,
         NEW u \in Tx, WaitsFor(r, u)
  PROVE  u = Admin
<1>1. pc[r] # "waitWallet"
  BY DEF HasWallet
<1>2. r # Admin /\ KeyOf(r) \in Key
  BY Roles, ArgTypes DEF MonolithInv
<1>3. CASE pc[r] = "commit" /\ paymentLock[KeyOf(r)] = u
  BY <1>2, <1>3, Roles DEF LocksHeld
<1>4. CASE pc[r] = "token" /\ tokenLock[KeyOf(r)] = u
  <2> SUFFICES ASSUME u \in Request PROVE FALSE
    BY Roles
  <2>1. KeyOf(u) = KeyOf(r) /\ pc[u] \in HasToken
    BY <1>2, <1>4 DEF LocksHeld
  <2>2. Payer(u) = Payer(r)
    BY <2>1 DEF Payer
  <2>3. walletLock[Payer(r)] = r /\ walletLock[Payer(u)] = u
    BY <2>1 DEF MonolithInv, RequestOK, WalletRead, HasToken, HasWallet
  <2> QED
    BY <1>4, <2>1, <2>2, <2>3 DEF HasToken
<1> QED
  BY <1>1, <1>2, <1>3, <1>4 DEF WaitsFor, At

\* Whoever waits, waits for one that has locks.
LEMMA WaitsForHolder ==
  ASSUME MonolithInv, LocksHeld, NEW t \in Tx, NEW u \in Tx, WaitsFor(t, u)
  PROVE  /\ u \in Request => pc[u] \in HasWallet \cup {"answer"}
         /\ u = Admin => pc[Admin] = "delete"
         /\ t # u
<1>1. CASE t \in Request
  <2>1. KeyOf(t) \in Key /\ Payer(t) \in Shopper /\ t # Admin
    BY <1>1, Roles, ArgTypes DEF MonolithInv
  <2>2. \/ pc[t] = "waitWallet" /\ walletLock[Payer(t)] = u
        \/ pc[t] = "token" /\ tokenLock[KeyOf(t)] = u
        \/ pc[t] = "commit" /\ paymentLock[KeyOf(t)] = u
    BY <2>1 DEF WaitsFor, At
  <2>3. /\ u \in Request => pc[u] \in HasWallet \cup {"answer"}
        /\ u = Admin => pc[Admin] = "delete"
    BY <2>1, <2>2, Roles DEF LocksHeld, HasToken, HasWallet
  <2>4. ASSUME u = t PROVE FALSE
    BY <1>1, <2>1, <2>2, <2>4, Roles DEF LocksHeld, HasToken, HasWallet
  <2> QED
    BY <2>3, <2>4
<1>2. CASE t = Admin
  <2>1. u # Admin
    BY <1>2, Roles DEF WaitsFor, PaymentsLeft, TokensLeft, WalletsLeft
  <2>2. listed.payments \subseteq Key /\ listed.tokens \subseteq Key
    BY DEF MonolithInv, TypeOK
  <2>3. \/ \E k \in Key : paymentLock[k] = u
        \/ \E k \in Key : tokenLock[k] = u
        \/ \E s \in Shopper : walletLock[s] = u
    BY <1>2, <2>2, Roles DEF WaitsFor, PaymentsLeft, TokensLeft, WalletsLeft
  <2>4. u \in Request => pc[u] \in HasWallet \cup {"answer"}
    BY <2>1, <2>3, Roles DEF LocksHeld, HasToken, HasWallet
  <2> QED
    BY <1>2, <2>1, <2>4
<1> QED
  BY <1>1, <1>2, Roles

\* Who waits for the wallet waits for one with locks; who has locks waits for the
\* initialiser only; and it waits for one with locks.
LEMMA Circles == MonolithInv /\ LocksHeld => CirclesAreFound
<1> SUFFICES ASSUME MonolithInv, LocksHeld, NEW C \in SUBSET Tx, NEW t \in C,
                    WaitInCircles(C)
             PROVE  \E r \in C \ {Admin} : WaitsFor(r, Admin) /\ WaitsFor(Admin, r)
  BY DEF CirclesAreFound
<1>1. \A x \in C : x \in Tx /\ \E y \in C : WaitsFor(x, y)
  BY DEF WaitInCircles
<1>2. ASSUME NEW x \in C \ {Admin}, pc[x] \in HasWallet \cup {"answer"}
      PROVE  WaitsFor(x, Admin) /\ Admin \in C
  <2>1. x \in Request /\ pc[x] # "answer"
    BY <1>1, <1>2, Roles DEF WaitsFor, At
  <2> QED
    BY <1>1, <1>2, <2>1, WaitsWithWallet
<1>3. Admin \in C
  <2> SUFFICES ASSUME t # Admin PROVE Admin \in C
    OBVIOUS
  <2>1. PICK u \in C : WaitsFor(t, u)
    BY <1>1
  <2>2. u = Admin \/ pc[u] \in HasWallet \cup {"answer"}
    BY <1>1, <2>1, WaitsForHolder, Roles
  <2> QED
    BY <1>2, <2>2
<1>4. PICK r \in C : WaitsFor(Admin, r)
  BY <1>1, <1>3
<1>5. r # Admin /\ pc[r] \in HasWallet \cup {"answer"}
  BY <1>1, <1>3, <1>4, WaitsForHolder, Roles
<1> QED
  BY <1>2, <1>4, <1>5

\* The deadlocks of the monolith are pairs, so that BreakDeadlock breaks all there are:
\* payments lock wallet, token and payment in this order, and the initialiser, which
\* takes them in the other one, is only one.
THEOREM DeadlocksArePairs == Spec => []CirclesAreFound
  BY MonolithInvariant, LocksInvariant, Circles, PTL

\* No payment and no initialisation can be stuck: the database always finds one that goes
\* on, whoever waits for whom.
THEOREM NeverStuck == Spec => []SomebodyGoesOn
<1>1. ASSUME MonolithInv, LocksHeld PROVE SomebodyGoesOn
  <2> DEFINE C == {t \in Tx : pc[t] \notin Over}
  <2> SUFFICES ASSUME C # {}, WaitInCircles(C) PROVE \E t \in C : Deadlocked(t)
    <3>1. ASSUME NEW t \in C, \A u \in C : ~WaitsFor(t, u) PROVE \A u \in Tx : ~WaitsFor(t, u)
      BY <1>1, <3>1, WaitsForHolder, Roles DEF Over, HasWallet
    <3> QED
      BY <3>1 DEF SomebodyGoesOn, WaitInCircles
  <2>1. PICK r \in C : WaitsFor(r, Admin) /\ WaitsFor(Admin, r)
    BY <1>1, Circles DEF CirclesAreFound
  <2> QED
    BY <2>1, Roles DEF Deadlocked
<1> QED
  BY <1>1, MonolithInvariant, LocksInvariant, PTL

\* How far a transaction has come.
Rank(label) == CASE label = "idle" -> 0
                 [] label \in {"wallet", "list", "flush"} -> 1
                 [] label \in {"waitWallet", "delete"} -> 2
                 [] label = "token" -> 3
                 [] label = "charge" -> 4
                 [] label = "commit" -> 5
                 [] label = "answer" -> 6
                 [] OTHER -> 7

\* No transaction ever goes back: it makes at most seven steps, and the initialiser one
\* for each row that it deletes, of which it leaves fewer with every step, while no
\* other transaction gives it more to do.
NobodyGoesBack ==
  [][/\ \A t \in Tx \cup Creator : pc'[t] # pc[t] => Rank(pc'[t]) > Rank(pc[t])
     /\ \A r \in Request : Serve(r) => pc'[r] # pc[r]
     /\ pc[Admin] = "delete" /\ pc'[Admin] = "delete" =>
          /\ listed' = listed
          /\ PaymentsLeft' \subseteq PaymentsLeft
          /\ TokensLeft' \subseteq TokensLeft
          /\ WalletsLeft' \subseteq WalletsLeft
          /\ Initialize => <<PaymentsLeft, TokensLeft, WalletsLeft>>'
                             # <<PaymentsLeft, TokensLeft, WalletsLeft>>]_vars

\* Whoever makes a step goes on.
LEMMA LabelsMove ==
  ASSUME TypeOK, [Next]_vars, NEW t \in Tx \cup Creator, pc'[t] # pc[t]
  PROVE  Rank(pc'[t]) > Rank(pc[t])
<1> USE DEF Goto, At
<1>1. pc \in [Tx \cup Creator -> Label]
  BY DEF TypeOK
<1>2. ASSUME NEW r \in Request, FindShopper(r) PROVE Rank(pc'[t]) > Rank(pc[t])
  BY <1>1, <1>2 DEF FindShopper, Rank
<1>3. ASSUME NEW r \in Request, LockWallet(r) \/ WakeUp(r)
      PROVE  Rank(pc'[t]) > Rank(pc[t])
  BY <1>1, <1>3 DEF LockWallet, WakeUp, TakeWallet, Rank
<1>4. ASSUME NEW r \in Request, LockToken(r) \/ Charge(r)
      PROVE  Rank(pc'[t]) > Rank(pc[t])
  BY <1>1, <1>4 DEF LockToken, Charge, Rank
<1>5. ASSUME NEW r \in Request, CommitPaid(r) \/ CommitRefused(r) \/ Answer(r)
      PROVE  Rank(pc'[t]) > Rank(pc[t])
  BY <1>1, <1>5 DEF CommitPaid, CommitRefused, Answer, Rank
<1>6. ASSUME NEW c \in Creator, MergeToken(c) \/ FlushToken(c)
      PROVE  Rank(pc'[t]) > Rank(pc[t])
  BY <1>1, <1>6 DEF MergeToken, FlushToken, Rank
<1>7. CASE ListPayments \/ ListTokens \/ CommitInit
  BY <1>1, <1>7 DEF ListPayments, ListTokens, CommitInit, Rank
<1>8. ASSUME NEW x \in Tx, BreakDeadlock(x) \/ Lose(x)
      PROVE  Rank(pc'[t]) > Rank(pc[t])
  <2>1. pc' = [pc EXCEPT ![x] = "done"]
    BY <1>8 DEF BreakDeadlock, Lose, Rollback
  <2>2. pc'[t] = "done" /\ pc[t] \in Label \ {"done"}
    BY <1>1, <2>1
  <2> QED
    BY <2>2 DEF Rank, Label
<1>9. pc' # pc
  OBVIOUS
<1> QED
  BY <1>2, <1>3, <1>4, <1>5, <1>6, <1>7, <1>8, <1>9
     DEF Next, Serve, Initialize, DeletePayment, DeleteToken, DeleteWallet, vars

\* The server does not serve a payment without taking it further.
LEMMA ServeMoves ==
  ASSUME TypeOK, NEW r \in Request, Serve(r)
  PROVE  pc'[r] # pc[r]
<1>1. pc \in [Tx \cup Creator -> Label] /\ r \in Tx \cup Creator
  BY Roles DEF TypeOK
<1> QED
  BY <1>1 DEF Serve, LockWallet, WakeUp, TakeWallet, LockToken, Charge, CommitPaid,
              CommitRefused, Answer, Goto, At

\* While the initialiser deletes, what it has locked stays locked.
LEMMA DeletedStays ==
  ASSUME TypeOK, [Next]_vars, pc[Admin] = "delete", pc'[Admin] = "delete"
  PROVE  /\ listed' = listed /\ ready' = ready
         /\ \A s \in Shopper : walletLock[s] = Admin => walletLock'[s] = Admin
         /\ \A k \in Key : tokenLock[k] = Admin => tokenLock'[k] = Admin
         /\ \A k \in Key : paymentLock[k] = Admin => paymentLock'[k] = Admin
<1> USE DEF Goto, At, rowVars, lockVars, taskVars, Free
<1>1. /\ pc \in [Tx \cup Creator -> Label] /\ Admin \in Tx \cup Creator
      /\ walletLock \in [Shopper -> Tx \cup {NoTx}]
      /\ tokenLock \in [Key -> Tx \cup {NoTx}]
  BY Roles DEF TypeOK
<1>2. ~ListPayments /\ ~ListTokens /\ ~CommitInit
  BY <1>1 DEF ListPayments, ListTokens, CommitInit
<1>3. CASE \E r \in Request : FindShopper(r) \/ Charge(r)
  BY <1>3 DEF FindShopper, Charge
<1>4. ASSUME NEW r \in Request, LockWallet(r) \/ WakeUp(r) \/ LockToken(r)
      PROVE  /\ listed' = listed /\ ready' = ready
             /\ \A s \in Shopper : walletLock[s] = Admin => walletLock'[s] = Admin
             /\ \A k \in Key : tokenLock[k] = Admin => tokenLock'[k] = Admin
             /\ \A k \in Key : paymentLock[k] = Admin => paymentLock'[k] = Admin
  BY <1>1, <1>4, Roles DEF LockWallet, WakeUp, TakeWallet, LockToken
<1>5. ASSUME NEW t \in Tx, Unlock(t), t # Admin, UNCHANGED <<listed, ready>>
      PROVE  /\ listed' = listed /\ ready' = ready
             /\ \A s \in Shopper : walletLock[s] = Admin => walletLock'[s] = Admin
             /\ \A k \in Key : tokenLock[k] = Admin => tokenLock'[k] = Admin
             /\ \A k \in Key : paymentLock[k] = Admin => paymentLock'[k] = Admin
  BY <1>5 DEF Unlock
<1>6. ASSUME NEW r \in Request, CommitPaid(r) \/ CommitRefused(r) \/ Answer(r)
      PROVE  Unlock(r) /\ r \in Tx /\ r # Admin /\ UNCHANGED <<listed, ready>>
  BY <1>6, Roles DEF CommitPaid, CommitRefused, Answer
<1>7. ASSUME NEW t \in Tx, BreakDeadlock(t) \/ Lose(t)
      PROVE  Unlock(t) /\ t # Admin /\ UNCHANGED <<listed, ready>>
  BY <1>1, <1>7 DEF BreakDeadlock, Lose, Rollback
<1>8. CASE \E c \in Creator : MergeToken(c) \/ FlushToken(c)
  BY <1>8 DEF MergeToken, FlushToken
<1>9. CASE \E k \in Key : DeletePayment(k) \/ DeleteToken(k)
  BY <1>9 DEF DeletePayment, DeleteToken, TypeOK
<1>10. CASE \E s \in Shopper : DeleteWallet(s)
  BY <1>10 DEF DeleteWallet, TypeOK
<1>11. CASE UNCHANGED vars
  BY <1>11 DEF vars
<1> QED
  BY <1>2, <1>3, <1>4, <1>5, <1>6, <1>7, <1>8, <1>9, <1>10, <1>11
     DEF Next, Serve, Initialize

\* And a step of its own locks one more row.
LEMMA DeleteGoesOn ==
  ASSUME TypeOK, Initialize, pc[Admin] = "delete", pc'[Admin] = "delete"
  PROVE  <<PaymentsLeft, TokensLeft, WalletsLeft>>'
           # <<PaymentsLeft, TokensLeft, WalletsLeft>>
<1>1. ~ListTokens /\ ~CommitInit
  BY Roles DEF ListTokens, CommitInit, TypeOK, Goto, At
<1>2. ASSUME NEW k \in Key, DeletePayment(k) PROVE k \in PaymentsLeft /\ k \notin PaymentsLeft'
  BY <1>2 DEF DeletePayment, PaymentsLeft, TypeOK
<1>3. ASSUME NEW k \in Key, DeleteToken(k) PROVE k \in TokensLeft /\ k \notin TokensLeft'
  BY <1>3 DEF DeleteToken, TokensLeft, TypeOK
<1>4. ASSUME NEW s \in Shopper, DeleteWallet(s) PROVE s \in WalletsLeft /\ s \notin WalletsLeft'
  BY <1>4 DEF DeleteWallet, WalletsLeft, TypeOK
<1> QED
  BY <1>1, <1>2, <1>3, <1>4 DEF Initialize

\* Every transaction has a bounded number of steps to make: with NeverStuck this is all
\* that Answered and Initialized need apart from fairness.
THEOREM BoundedSteps == Spec => NobodyGoesBack
<1>1. ASSUME TypeOK, [Next]_vars
      PROVE  /\ \A t \in Tx \cup Creator : pc'[t] # pc[t] => Rank(pc'[t]) > Rank(pc[t])
             /\ \A r \in Request : Serve(r) => pc'[r] # pc[r]
             /\ pc[Admin] = "delete" /\ pc'[Admin] = "delete" =>
                  /\ listed' = listed
                  /\ PaymentsLeft' \subseteq PaymentsLeft
                  /\ TokensLeft' \subseteq TokensLeft
                  /\ WalletsLeft' \subseteq WalletsLeft
                  /\ Initialize => <<PaymentsLeft, TokensLeft, WalletsLeft>>'
                                     # <<PaymentsLeft, TokensLeft, WalletsLeft>>
  <2>1. ASSUME pc[Admin] = "delete", pc'[Admin] = "delete"
        PROVE  /\ listed' = listed
               /\ PaymentsLeft' \subseteq PaymentsLeft
               /\ TokensLeft' \subseteq TokensLeft
               /\ WalletsLeft' \subseteq WalletsLeft
    <3>1. listed.payments \subseteq Key /\ listed.tokens \subseteq Key
      BY <1>1 DEF TypeOK
    <3> QED
      BY <1>1, <2>1, <3>1, DeletedStays DEF PaymentsLeft, TokensLeft, WalletsLeft, HasRows
  <2> QED
    BY <1>1, <2>1, LabelsMove, ServeMoves, DeleteGoesOn
<1>2. TypeOK /\ [Next]_vars =>
        [/\ \A t \in Tx \cup Creator : pc'[t] # pc[t] => Rank(pc'[t]) > Rank(pc[t])
         /\ \A r \in Request : Serve(r) => pc'[r] # pc[r]
         /\ pc[Admin] = "delete" /\ pc'[Admin] = "delete" =>
              /\ listed' = listed
              /\ PaymentsLeft' \subseteq PaymentsLeft
              /\ TokensLeft' \subseteq TokensLeft
              /\ WalletsLeft' \subseteq WalletsLeft
              /\ Initialize => <<PaymentsLeft, TokensLeft, WalletsLeft>>'
                                 # <<PaymentsLeft, TokensLeft, WalletsLeft>>]_vars
  BY <1>1
<1> QED
  BY <1>2, TypeCorrect, PTL DEF Spec, NobodyGoesBack
=============================================================================
