------------------------------- MODULE GridInit -------------------------------
(***************************************************************************)
(* Payments in the data grid while InitializeResource.initialize empties   *)
(* the caches and fills them again.  The four clear() calls are made one   *)
(* after the other and take no locks; the two putAllAsync() calls are not  *)
(* awaited, so their entries arrive in any order, long after the handler   *)
(* has answered.  A shopper then may have a name but no wallet, or the     *)
(* other way round, and transactions that began before are still running.  *)
(*                                                                         *)
(* The entries of GridPayment's "user" and "wallet" caches, constants      *)
(* there, come and go here; its other actions are taken as they are.       *)
(***************************************************************************)
EXTENDS GridPayment

VARIABLES
  hasUser,     \* shoppers with an entry in the "user" cache
  hasWallet,   \* shoppers with an entry in the "wallet" cache
  initPc,      \* the next statement of initialize
  userSent,    \* entries of userCache.putAllAsync on their way
  walletSent,  \* entries of walletCache.putAllAsync on their way
  refill       \* history: shopper |-> what had been spent and charged when
               \* the wallet was filled last

initVars == <<hasUser, hasWallet, initPc, userSent, walletSent, refill>>
allVars == <<vars, initVars>>

\* The caches hold what an earlier initialize put there.
InitI ==
  /\ Init
  /\ hasUser = Registered
  /\ hasWallet = WalletOwner
  /\ initPc = "clearPayment"
  /\ userSent = {}
  /\ walletSent = {}
  /\ refill = [s \in Shopper |-> [spent |-> 0, topUp |-> 0]]

-----------------------------------------------------------------------------
(* initialize                                                              *)

ClearPayment ==
  /\ initPc = "clearPayment"
  /\ payment' = [k \in Key |-> NoRequest]
  /\ paymentVer' = [k \in Key |-> paymentVer[k] + 1]
  /\ initPc' = "clearUser"
  /\ UNCHANGED <<walletVars, tokenVars, paymentLock, pc, arg, taskVars, reply,
                 faults, historyVars, hasUser, hasWallet, userSent, walletSent,
                 refill>>

ClearUser ==
  /\ initPc = "clearUser"
  /\ hasUser' = {}
  /\ initPc' = "clearToken"
  /\ UNCHANGED <<vars, hasWallet, userSent, walletSent, refill>>

ClearToken ==
  /\ initPc = "clearToken"
  /\ token' = [k \in Key |-> Absent]
  /\ tokenVer' = [k \in Key |-> tokenVer[k] + 1]
  /\ initPc' = "clearWallet"
  /\ UNCHANGED <<walletVars, tokenLock, paymentVars, pc, arg, taskVars, reply,
                 faults, historyVars, hasUser, hasWallet, userSent, walletSent,
                 refill>>

ClearWallet ==
  /\ initPc = "clearWallet"
  /\ hasWallet' = {}
  /\ walletVer' = [s \in Shopper |-> walletVer[s] + 1]
  /\ initPc' = "putAll"
  /\ UNCHANGED <<balance, walletLock, tokenVars, paymentVars, pc, arg, taskVars,
                 reply, faults, historyVars, hasUser, userSent, walletSent,
                 refill>>

\* Slip: the map that is cleared after the call is empty when it is sent.
SentCleared(entries) == {}

\* The maps are marshalled when they are sent; clearing them afterwards does not
\* touch what is on its way.
Marshalled(entries) == entries

\* Both puts are sent, then the handler answers.
PutAll ==
  /\ initPc = "putAll"
  /\ userSent' = Marshalled(Registered)
  /\ walletSent' = Marshalled(WalletOwner)
  /\ initPc' = "answered"
  /\ UNCHANGED <<vars, hasUser, hasWallet, refill>>

UserArrives(s) ==
  /\ s \in userSent
  /\ userSent' = userSent \ {s}
  /\ hasUser' = hasUser \cup {s}
  /\ UNCHANGED <<vars, hasWallet, initPc, walletSent, refill>>

\* Slip: the put does not wait for the transaction that holds the entry.
NoWait(s) == TRUE

\* A put outside of a transaction commits in one phase, under the entry's lock.
Unlocked(s) == walletLock[s] = NoRequest

WalletArrives(s) ==
  /\ s \in walletSent
  /\ Unlocked(s)
  /\ walletSent' = walletSent \ {s}
  /\ balance' = [balance EXCEPT ![s] = InitBalance[s]]
  /\ walletVer' = [walletVer EXCEPT ![s] = @ + 1]
  /\ hasWallet' = hasWallet \cup {s}
  /\ refill' = [refill EXCEPT ![s] = [spent |-> spent[s], topUp |-> topUp[s]]]
  /\ UNCHANGED <<walletLock, tokenVars, paymentVars, pc, arg, taskVars, reply,
                 faults, historyVars, hasUser, initPc, userSent>>

Initialize ==
  \/ ClearPayment \/ ClearUser \/ ClearToken \/ ClearWallet \/ PutAll
  \/ \E s \in Shopper : UserArrives(s) \/ WalletArrives(s)

-----------------------------------------------------------------------------
(* The steps of a payment that look whether an entry is there.             *)

\* Without a wallet entry the stream has nothing to run the function on.
DispatchI(r) ==
  /\ At(r, "stream")
  /\ Goto(r, IF Payer(r) \in hasWallet THEN "begin" ELSE "load")
  /\ UNCHANGED <<walletVars, tokenVars, paymentVars, arg, taskVars, reply,
                 faults, historyVars, initVars>>

BeginI(r) ==
  /\ At(r, "begin")
  /\ IF Payer(r) \in hasUser
       THEN Goto(r, "wallet") /\ UNCHANGED causes
       ELSE Catch(r, "shopper")
  /\ UNCHANGED <<walletVars, tokenVars, paymentVars, arg, try, buf, reply,
                 faults, historyVars, initVars>>

\* get returns null, and the repository reads a field of it.
WalletMissing(r) == Payer(r) \notin hasWallet

LoadWalletI(r) ==
  \/ /\ ~WalletMissing(r)
     /\ LoadWallet(r)
     /\ UNCHANGED initVars
  \/ /\ At(r, "wallet")
     /\ WalletMissing(r)
     /\ Catch(r, "shopper")
     /\ UNCHANGED <<walletVars, tokenVars, paymentVars, arg, try, buf, reply,
                    faults, historyVars, initVars>>

\* The put of a transaction that was prepared before the clear brings the entry
\* back.
CommitWalletI(r) ==
  /\ CommitWallet(r)
  /\ hasWallet' = hasWallet \cup {Payer(r)}
  /\ UNCHANGED <<hasUser, initPc, userSent, walletSent, refill>>

ServeI(r) ==
  \/ DispatchI(r) \/ BeginI(r) \/ LoadWalletI(r) \/ CommitWalletI(r)
  \/ /\ \/ LoadToken(r) \/ Charge(r)
        \/ PrepareWallet(r) \/ PrepareToken(r) \/ PreparePayment(r)
        \/ CommitToken(r) \/ CommitPayment(r)
        \/ Rollback(r) \/ LoadPayment(r) \/ Notify(r)
     /\ UNCHANGED initVars

NextI ==
  \/ Initialize
  \/ \E r \in Request : ServeI(r)
  \/ /\ \/ \E r \in Request : Submit(r)
        \/ \E k \in Key : CreateToken(k)
        \/ \E r \in Request : LockTimeout(r) \/ OwnerLost(r)
     /\ UNCHANGED initVars

SpecI == InitI /\ [][NextI]_allVars

\* A request that is being served has a thread of a server: it takes its next
\* step when it can.  initialize runs on a thread of its own to the end, and the grid
\* delivers the entries that were sent.  Clients and faults owe nothing.
FairSpecI ==
  /\ SpecI
  /\ \A r \in Request : WF_allVars(ServeI(r))
  /\ WF_allVars(ClearPayment \/ ClearUser \/ ClearToken \/ ClearWallet \/ PutAll)
  /\ \A s \in Shopper : WF_allVars(WalletArrives(s)) /\ WF_allVars(UserArrives(s))

-----------------------------------------------------------------------------
\* Whatever transactions were running when the wallets were cleared and filled:
\* a wallet holds what it was filled with last, the automatic charges and less
\* the debits since; no payment computed from the wallet of before gets in.
RefillConserves ==
  \A s \in Shopper \cap hasWallet : walletSent = {} /\ initPc = "answered" =>
    balance[s] + (spent[s] - refill[s].spent)
      = InitBalance[s] + (topUp[s] - refill[s].topUp)

\* An initialisation under load comes to its end: once the caches are cleared,
\* every shopper gets a name and a wallet again, and keeps them.
Refilled ==
  initPc = "clearUser" ~> [](Registered \subseteq hasUser /\ WalletOwner \subseteq hasWallet)
=============================================================================
