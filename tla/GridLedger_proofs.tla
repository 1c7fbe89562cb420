------------------------- MODULE GridLedger_proofs --------------------------
(***************************************************************************)
(* Proofs about what GridPayment tells its clients and stores for them,    *)
(* and that it implements PaymentLedger.                                   *)
(***************************************************************************)
EXTENDS GridPayment_proofs, FiniteSetTheorems

-----------------------------------------------------------------------------
(* The steps, by what they do to money, tokens, payments and replies.      *)

\* The labels of PaymentFunction up to the commit of the wallet.
Before == {"begin", "wallet", "token", "charge", "rollback"} \cup PastCharge
InFunction == Before \cup {"commitToken", "commitPayment"}

\* How a request can go on without writing an entry, and what its client is told.
QuietMove(r) ==
  \/ pc[r] = "idle" /\ pc'[r] = "stream" /\ reply'[r] = reply[r]
  \/ pc[r] = "stream" /\ pc'[r] = "begin" /\ reply'[r] = reply[r]
       /\ Payer(r) \in WalletOwner
  \/ pc[r] = "stream" /\ pc'[r] = "load" /\ reply'[r] = reply[r]
       /\ Payer(r) \notin WalletOwner
  \/ pc[r] \in Before /\ pc'[r] \in Before /\ reply'[r] = reply[r]
  \/ pc[r] = "rollback" /\ pc'[r] = "done" /\ reply'[r] = Error
  \/ pc[r] = "load" /\ payment[KeyOf(r)] # NoRequest
       /\ pc'[r] = "notify" /\ reply'[r] = payment[KeyOf(r)]
  \/ pc[r] = "load" /\ payment[KeyOf(r)] = NoRequest
       /\ pc'[r] = "done" /\ reply'[r] = Error
  \/ pc[r] = "notify" /\ pc'[r] = "done" /\ reply'[r] = reply[r]
  \/ faults' # 0 /\ pc'[r] \in {"stream", "done"} /\ reply'[r] \in {reply[r], Error}

Quiet(r) ==
  /\ UNCHANGED <<token, payment, issued, debited, charged>>
  /\ faults' # 0 \/ (faults' = faults /\ torn' = torn)
  /\ torn' = 0 => torn = 0
  /\ \A q \in Request \ {r} : pc'[q] = pc[q] /\ reply'[q] = reply[q]
  /\ QuietMove(r)

\* A step that writes an entry of the caches.
Writes(r) == CommitWallet(r) \/ CommitToken(r) \/ CommitPayment(r)

\* Every step is quiet, writes an entry for a request, or is one of the three that
\* are nobody's.
LEMMA QuietOrWrites ==
  ASSUME TypeOK, [Next]_vars
  PROVE  \/ \E r \in Request : Quiet(r) \/ Writes(r)
         \/ \E k \in Key : CreateToken(k) \/ EvictToken(k) \/ EvictPayment(k)
         \/ UNCHANGED vars
<1> USE DEF walletVars, tokenVars, paymentVars, taskVars, historyVars, Quiet, QuietMove,
            Before, PastCharge, At, Goto, Catch, Answer, GiveUp
<1>1. /\ pc \in [Request -> Label] /\ reply \in [Request -> Request \cup {NoReply, Error}]
      /\ faults \in Nat /\ torn \in Nat
  BY DEF TypeOK
<1>2. ASSUME NEW r \in Request, Submit(r) \/ Dispatch(r) PROVE Quiet(r)
  BY <1>1, <1>2 DEF Submit, Dispatch
<1>3. ASSUME NEW r \in Request, Begin(r) \/ LoadWallet(r) \/ LoadToken(r) \/ Charge(r)
      PROVE  Quiet(r)
  BY <1>1, <1>3 DEF Begin, LoadWallet, LoadToken, Charge
<1>4. ASSUME NEW r \in Request, PrepareWallet(r) \/ PrepareToken(r) \/ PreparePayment(r)
      PROVE  Quiet(r)
  BY <1>1, <1>4 DEF PrepareWallet, PrepareToken, PreparePayment
<1>5. ASSUME NEW r \in Request, Rollback(r) PROVE Quiet(r)
  BY <1>1, <1>5 DEF Rollback, ReleaseLocks
<1>6. ASSUME NEW r \in Request, LoadPayment(r) \/ Notify(r) PROVE Quiet(r)
  BY <1>1, <1>6 DEF LoadPayment, Notify
<1>7. ASSUME NEW r \in Request, LockTimeout(r) \/ NotifyOverflow(r) PROVE Quiet(r)
  BY <1>1, <1>7 DEF LockTimeout, NotifyOverflow, Fault, Waiting
<1>8. ASSUME NEW r \in Request, OwnerLost(r) PROVE Quiet(r)
  BY <1>1, <1>8 DEF OwnerLost, Fault, ReleaseLocks
<1> QED
  BY <1>2, <1>3, <1>4, <1>5, <1>6, <1>7, <1>8 DEF Next, Serve, Disturb, Writes

-----------------------------------------------------------------------------
(* Who was charged.                                                        *)

\* Only who has a wallet gets as far as the function, and is charged between its
\* first commit and its reply.
Charging(r) ==
  /\ pc[r] \in InFunction \/ charged[r] >= 1 => Payer(r) \in WalletOwner
  /\ MidCommit(r) => charged[r] >= 1
  /\ pc[r] = "load" => charged[r] >= 1 \/ Payer(r) \notin WalletOwner

\* The books of a token and those of the requests for it agree; what is stored for
\* it as used or paid was debited.
Booked(k) ==
  /\ \A r \in Request : KeyOf(r) = k => charged[r] <= debited[k]
  /\ \A r, q \in Request :
       r # q /\ KeyOf(r) = k /\ KeyOf(q) = k => charged[r] + charged[q] <= debited[k]
  /\ debited[k] >= 1 => \E r \in Request : KeyOf(r) = k /\ charged[r] >= 1
  /\ token[k] = "USED" => debited[k] >= 1
  /\ payment[k] # NoRequest => KeyOf(payment[k]) = k /\ charged[payment[k]] >= 1

PaidInv ==
  /\ TypeOK /\ Afforded /\ TokenInv
  /\ \A r \in Request : Charging(r)
  /\ \A k \in Key : Booked(k)

\* Nobody is charged at first.
LEMMA InitPaid == Init => PaidInv
<1> SUFFICES ASSUME Init PROVE PaidInv
  OBVIOUS
<1>1. TypeOK /\ Afforded /\ TokenInv
  BY InitTokenInv
<1>2. \A r \in Request : Charging(r)
  BY DEF Init, Charging, InFunction, Before, PastCharge, MidCommit
<1>3. \A k \in Key : Booked(k)
  BY DEF Init, Booked, Absent
<1> QED
  BY <1>1, <1>2, <1>3 DEF PaidInv

\* What the writing steps do to the books.
LEMMA WalletCommitted ==
  ASSUME TypeOK, NEW r \in Request, CommitWallet(r)
  PROVE  /\ pc[r] = "commitWallet" /\ pc'[r] = "commitToken"
         /\ charged'[r] = charged[r] + 1
         /\ debited'[KeyOf(r)] = debited[KeyOf(r)] + 1
         /\ \A q \in Request \ {r} : charged'[q] = charged[q] /\ pc'[q] = pc[q]
         /\ \A k \in Key \ {KeyOf(r)} : debited'[k] = debited[k]
         /\ UNCHANGED <<token, payment, issued, reply, faults, torn>>
<1>1. KeyOf(r) \in Key
  BY ArgTypes
<1> QED
  BY <1>1 DEF CommitWallet, At, Goto, TypeOK, tokenVars, paymentVars

\* The token is committed as used,
LEMMA TokenCommitted ==
  ASSUME TypeOK, TokenInv, NEW r \in Request, CommitToken(r)
  PROVE  /\ pc[r] = "commitToken" /\ pc'[r] = "commitPayment"
         /\ token'[KeyOf(r)] = "USED"
         /\ \A q \in Request \ {r} : pc'[q] = pc[q]
         /\ \A k \in Key \ {KeyOf(r)} : token'[k] = token[k]
         /\ UNCHANGED <<payment, issued, debited, charged, reply, faults, torn>>
<1>1. KeyOf(r) \in Key /\ (pc[r] = "commitToken" => buf[r].token = "USED")
  BY ArgTypes DEF TokenInv, TokenBuffered
<1> QED
  BY <1>1 DEF CommitToken, At, Goto, TypeOK, paymentVars, historyVars

\* and the payment as the request's own.
LEMMA PaymentCommitted ==
  ASSUME TypeOK, NEW r \in Request, CommitPayment(r)
  PROVE  /\ pc[r] = "commitPayment" /\ pc'[r] = "load"
         /\ payment'[KeyOf(r)] = r
         /\ \A q \in Request \ {r} : pc'[q] = pc[q]
         /\ \A k \in Key \ {KeyOf(r)} : payment'[k] = payment[k]
         /\ UNCHANGED <<token, issued, debited, charged, reply, faults, torn>>
<1>1. KeyOf(r) \in Key
  BY ArgTypes
<1> QED
  BY <1>1 DEF CommitPayment, At, Goto, TypeOK, tokenVars, historyVars

\* And the three steps that are nobody's.
LEMMA KeyWritten ==
  ASSUME TypeOK, NEW k \in Key, CreateToken(k) \/ EvictToken(k) \/ EvictPayment(k)
  PROVE  /\ UNCHANGED <<pc, reply, debited, charged, torn>>
         /\ \A j \in Key : payment'[j] = payment[j] \/ (payment'[j] = NoRequest /\ faults' # 0)
         /\ \A j \in Key :
              \/ token'[j] = token[j]
              \/ token'[j] = "UNUSED" /\ issued'[j] = issued[j] + 1
              \/ token'[j] = Absent /\ faults' # 0
         /\ \A j \in Key : issued'[j] = issued[j] \/ issued'[j] = issued[j] + 1
         /\ faults' = faults \/ faults' # 0
<1> USE DEF tokenVars, paymentVars, historyVars
<1>1. /\ token \in [Key -> Status] /\ issued \in [Key -> Nat] /\ faults \in Nat
      /\ payment \in [Key -> Request \cup {NoRequest}]
  BY DEF TypeOK
<1>2. CASE CreateToken(k)
  BY <1>1, <1>2 DEF CreateToken
<1>3. CASE EvictToken(k)
  BY <1>1, <1>3 DEF EvictToken, Fault
<1>4. CASE EvictPayment(k)
  BY <1>1, <1>4 DEF EvictPayment, Fault
<1> QED
  BY <1>2, <1>3, <1>4

\* Every step keeps who is charged,
LEMMA ChargingStep ==
  ASSUME PaidInv, [Next]_vars, NEW q \in Request
  PROVE  Charging(q)'
<1> USE DEF PaidInv
<1>1. /\ Charging(q) /\ charged \in [Request -> Nat]
      /\ Payer(q)' = Payer(q)
  BY ArgFixed DEF TypeOK
<1>2. ASSUME NEW r \in Request, Quiet(r) PROVE Charging(q)'
  <2>1. CASE q = r
    BY <1>1, <1>2, <2>1
       DEF Quiet, QuietMove, Charging, InFunction, Before, PastCharge, MidCommit
  <2>2. CASE q # r
    BY <1>1, <1>2, <2>2 DEF Quiet, Charging, MidCommit
  <2> QED
    BY <2>1, <2>2
<1>3. ASSUME NEW r \in Request, Writes(r) PROVE Charging(q)'
  <2>1. CASE q = r
    BY <1>1, <1>3, <2>1, WalletCommitted, TokenCommitted, PaymentCommitted
       DEF Writes, Charging, InFunction, Before, PastCharge, MidCommit
  <2>2. CASE q # r
    BY <1>1, <1>3, <2>2, WalletCommitted, TokenCommitted, PaymentCommitted
       DEF Writes, Charging, MidCommit
  <2> QED
    BY <2>1, <2>2
<1>4. ASSUME NEW k \in Key, CreateToken(k) \/ EvictToken(k) \/ EvictPayment(k)
      PROVE  Charging(q)'
  BY <1>1, <1>4, KeyWritten DEF Charging, MidCommit
<1>5. CASE UNCHANGED vars
  BY <1>1, <1>5 DEF vars, historyVars, Charging, MidCommit
<1> QED
  BY <1>2, <1>3, <1>4, <1>5, QuietOrWrites

\* what tokens and payments are booked for,
LEMMA BookedStep ==
  ASSUME TypeOK, TokenInv, [Next]_vars, NEW k \in Key, Booked(k),
         \A r \in Request : MidCommit(r) => charged[r] >= 1
  PROVE  Booked(k)'
<1>1. /\ charged \in [Request -> Nat] /\ debited \in [Key -> Nat]
      /\ payment \in [Key -> Request \cup {NoRequest}]
      /\ \A r \in Request : KeyOf(r)' = KeyOf(r)
      /\ Booked(k)
  BY ArgFixed DEF TypeOK
<1>2. ASSUME NEW r \in Request, Quiet(r) PROVE Booked(k)'
  BY <1>1, <1>2 DEF Quiet, Booked
<1>3. ASSUME NEW r \in Request, CommitWallet(r) PROVE Booked(k)'
  <2>1. CASE KeyOf(r) = k
    BY <1>1, <1>3, <2>1, WalletCommitted DEF Booked
  <2>2. CASE KeyOf(r) # k
    BY <1>1, <1>3, <2>2, WalletCommitted DEF Booked
  <2> QED
    BY <2>1, <2>2
<1>4. ASSUME NEW r \in Request, CommitToken(r) PROVE Booked(k)'
  <2>1. charged[r] >= 1
    BY <1>4, TokenCommitted DEF MidCommit
  <2> QED
    BY <1>1, <1>4, <2>1, TokenCommitted DEF Booked
<1>5. ASSUME NEW r \in Request, CommitPayment(r) PROVE Booked(k)'
  <2>1. charged[r] >= 1
    BY <1>5, PaymentCommitted DEF MidCommit
  <2> QED
    BY <1>1, <1>5, <2>1, PaymentCommitted DEF Booked
<1>6. ASSUME NEW j \in Key, CreateToken(j) \/ EvictToken(j) \/ EvictPayment(j)
      PROVE  Booked(k)'
  BY <1>1, <1>6, KeyWritten DEF Booked, Absent
<1>7. CASE UNCHANGED vars
  BY <1>1, <1>7 DEF vars, historyVars, tokenVars, paymentVars, Booked
<1> QED
  BY <1>2, <1>3, <1>4, <1>5, <1>6, <1>7, QuietOrWrites DEF Writes

\* and so all of it.
LEMMA NextPaid == PaidInv /\ [Next]_vars => PaidInv'
<1> SUFFICES ASSUME PaidInv, [Next]_vars PROVE PaidInv'
  OBVIOUS
<1>1. (TypeOK /\ Afforded /\ TokenInv)'
  BY NextTokenInv DEF PaidInv
<1>2. \A r \in Request : MidCommit(r) => charged[r] >= 1
  BY DEF PaidInv, Charging
<1>3. \A k \in Key : Booked(k)'
  BY <1>2, BookedStep DEF PaidInv
<1> QED
  BY <1>1, <1>3, ChargingStep DEF PaidInv

-----------------------------------------------------------------------------
(* What clients are told.                                                  *)

\* Without faults it is known at every label whether a request was charged.
Exact(r) ==
  faults = 0 =>
    /\ pc[r] \in {"idle", "stream"} \cup Before => charged[r] = 0
    /\ MidCommit(r) => charged[r] = 1
    /\ pc[r] = "load" => charged[r] = IF payment[KeyOf(r)] = NoRequest THEN 0 ELSE 1
    /\ pc[r] = "notify" => charged[r] = 1 /\ reply[r] # Error
    /\ pc[r] = "done" => charged[r] = IF reply[r] = Error THEN 0 ELSE 1

\* A token that was issued once has one payment, which is shown to the request that
\* made it.
Own(r) ==
  issued[KeyOf(r)] <= 1 /\ torn = 0 =>
    /\ pc[r] = "load" => payment[KeyOf(r)] \in {r, NoRequest}
    /\ reply[r] \in Request => reply[r] = r

\* And which is stored as soon as the three commits are over.
Stored(r) ==
  charged[r] >= 1 /\ issued[KeyOf(r)] <= 1 /\ faults = 0 =>
    \/ pc[r] = "commitToken"
    \/ /\ token[KeyOf(r)] = "USED"
       /\ pc[r] = "commitPayment" \/ payment[KeyOf(r)] = r

ReplyInv ==
  /\ PaidInv
  /\ faults = 0 => torn = 0
  /\ \A r \in Request : Exact(r) /\ Own(r) /\ Stored(r)

\* Only one request is charged for a token that was issued once.
LEMMA OnePayer ==
  ASSUME PaidInv, NEW r \in Request, NEW q \in Request, KeyOf(q) = KeyOf(r),
         charged[r] >= 1, charged[q] >= 1, issued[KeyOf(r)] <= 1, torn = 0
  PROVE  q = r
<1> DEFINE k == KeyOf(r)
<1>1. /\ k \in Key /\ debited[k] \in Nat /\ issued[k] \in Nat
      /\ charged[r] \in Nat /\ charged[q] \in Nat
  BY ArgTypes DEF PaidInv, TypeOK
<1>2. debited[k] <= 1
  BY <1>1 DEF PaidInv, TokenInv, ChargedOncePerIssue
<1>3. r # q => charged[r] + charged[q] <= debited[k]
  BY <1>1 DEF PaidInv, Booked
<1> QED
  BY <1>1, <1>2, <1>3

\* The payment stored for somebody without a wallet: there is none.
LEMMA NoWalletNoPayment ==
  ASSUME PaidInv, NEW r \in Request, Payer(r) \notin WalletOwner
  PROVE  payment[KeyOf(r)] = NoRequest /\ charged[r] = 0
<1>1. KeyOf(r) \in Key /\ charged[r] \in Nat /\ payment[KeyOf(r)] \in Request \cup {NoRequest}
  BY ArgTypes DEF PaidInv, TypeOK
<1>2. Booked(KeyOf(r)) /\ \A q \in Request : Charging(q)
  BY <1>1 DEF PaidInv
<1> QED
  BY <1>1, <1>2 DEF Booked, Charging, Payer

\* Nobody is told anything at first.
LEMMA InitReply == Init => ReplyInv
<1> SUFFICES ASSUME Init PROVE ReplyInv
  OBVIOUS
<1>1. \A r \in Request : Exact(r) /\ Own(r) /\ Stored(r)
  BY GridAssumption DEF Init, Exact, Own, Stored, MidCommit, Before, PastCharge
<1> QED
  BY <1>1, InitPaid DEF ReplyInv, Init

\* Counters only grow: torn commits are faults,
LEMMA FaultsCounted ==
  ASSUME TypeOK, TokenInv, [Next]_vars
  PROVE  /\ torn' = 0 => torn = 0
         /\ faults' = 0 => faults = 0 /\ torn' = torn
<1>1. ASSUME NEW r \in Request, Quiet(r) \/ Writes(r)
      PROVE  /\ torn' = 0 => torn = 0
             /\ faults' = 0 => faults = 0 /\ torn' = torn
  BY <1>1, WalletCommitted, TokenCommitted, PaymentCommitted DEF Quiet, Writes
<1>2. ASSUME NEW k \in Key, CreateToken(k) \/ EvictToken(k) \/ EvictPayment(k)
      PROVE  torn' = torn /\ (faults' = 0 => faults = 0)
  BY <1>2, KeyWritten
<1>3. CASE UNCHANGED vars
  BY <1>3 DEF vars, historyVars
<1> QED
  BY <1>1, <1>2, <1>3, QuietOrWrites

\* and a token that was issued at most once never was issued more often.
LEMMA IssuesCounted ==
  ASSUME TypeOK, TokenInv, [Next]_vars, NEW k \in Key
  PROVE  issued'[k] <= 1 => issued[k] <= 1
<1>1. issued[k] \in Nat
  BY DEF TypeOK
<1>2. ASSUME NEW r \in Request, Quiet(r) \/ Writes(r) PROVE issued' = issued
  BY <1>2, WalletCommitted, TokenCommitted, PaymentCommitted DEF Quiet, Writes
<1>3. ASSUME NEW j \in Key, CreateToken(j) \/ EvictToken(j) \/ EvictPayment(j)
      PROVE  issued'[k] <= 1 => issued[k] <= 1
  BY <1>1, <1>3, KeyWritten
<1>4. CASE UNCHANGED vars
  BY <1>4 DEF vars, historyVars
<1> QED
  BY <1>2, <1>3, <1>4, QuietOrWrites

\* Every step keeps what is known of the charge of a request,
LEMMA ExactStep ==
  ASSUME ReplyInv, [Next]_vars, NEW q \in Request
  PROVE  Exact(q)'
<1> USE DEF ReplyInv, PaidInv
<1>1. /\ Exact(q) /\ charged \in [Request -> Nat]
      /\ KeyOf(q) \in Key /\ KeyOf(q)' = KeyOf(q) /\ Payer(q)' = Payer(q)
      /\ payment[KeyOf(q)] \in Request \cup {NoRequest}
      /\ Error \notin Request /\ NoRequest \notin Request
  BY ArgFixed, ArgTypes, GridAssumption DEF TypeOK
<1>2. ASSUME NEW r \in Request, Quiet(r) PROVE Exact(q)'
  <2>1. CASE q = r
    <3>1. Payer(q) \notin WalletOwner => payment[KeyOf(q)] = NoRequest
      BY NoWalletNoPayment
    <3> QED
      BY <1>1, <1>2, <2>1, <3>1
         DEF Quiet, QuietMove, Exact, Before, PastCharge, MidCommit
  <2>2. CASE q # r
    BY <1>1, <1>2, <2>2 DEF Quiet, Exact, MidCommit
  <2> QED
    BY <2>1, <2>2
<1>3. ASSUME NEW r \in Request, CommitWallet(r) PROVE Exact(q)'
  BY <1>1, <1>3, WalletCommitted DEF Exact, Before, PastCharge, MidCommit
<1>4. ASSUME NEW r \in Request, CommitToken(r) PROVE Exact(q)'
  BY <1>1, <1>4, TokenCommitted DEF Exact, Before, PastCharge, MidCommit
<1>5. ASSUME NEW r \in Request, CommitPayment(r) PROVE Exact(q)'
  <2>1. CASE q = r
    BY <1>1, <1>5, <2>1, PaymentCommitted DEF Exact, Before, PastCharge, MidCommit
  <2>2. CASE q # r /\ KeyOf(q) = KeyOf(r)
    <3>1. Payer(q) \in WalletOwner
      BY <1>5, <2>2, PaymentCommitted DEF Charging, InFunction, Payer
    <3>2. pc[q] = "load" => charged[q] >= 1
      BY <3>1 DEF Charging
    <3> QED
      BY <1>1, <1>5, <2>2, <3>2, PaymentCommitted DEF Exact, Before, PastCharge, MidCommit
  <2>3. CASE KeyOf(q) # KeyOf(r)
    BY <1>1, <1>5, <2>3, PaymentCommitted DEF Exact, Before, PastCharge, MidCommit
  <2> QED
    BY <2>1, <2>2, <2>3
<1>6. ASSUME NEW k \in Key, CreateToken(k) \/ EvictToken(k) \/ EvictPayment(k)
      PROVE  Exact(q)'
  BY <1>1, <1>6, KeyWritten DEF Exact, MidCommit
<1>7. CASE UNCHANGED vars
  BY <1>1, <1>7 DEF vars, historyVars, paymentVars, Exact, MidCommit
<1> QED
  BY <1>2, <1>3, <1>4, <1>5, <1>6, <1>7, QuietOrWrites DEF Writes

\* what it is shown,
LEMMA OwnStep ==
  ASSUME ReplyInv, [Next]_vars, NEW q \in Request
  PROVE  Own(q)'
<1> USE DEF ReplyInv, PaidInv
<1>1. /\ Own(q) /\ KeyOf(q) \in Key /\ KeyOf(q)' = KeyOf(q)
      /\ Error \notin Request /\ NoRequest \notin Request
      /\ issued'[KeyOf(q)] <= 1 => issued[KeyOf(q)] <= 1
      /\ torn' = 0 => torn = 0
  BY ArgFixed, ArgTypes, GridAssumption, FaultsCounted, IssuesCounted
<1>2. ASSUME NEW r \in Request, Quiet(r) PROVE Own(q)'
  <2>1. CASE q = r
    <3>1. Payer(q) \notin WalletOwner => payment[KeyOf(q)] = NoRequest
      BY NoWalletNoPayment
    <3> QED
      BY <1>1, <1>2, <2>1, <3>1 DEF Quiet, QuietMove, Own, Before, PastCharge
  <2>2. CASE q # r
    BY <1>1, <1>2, <2>2 DEF Quiet, Own
  <2> QED
    BY <2>1, <2>2
<1>3. ASSUME NEW r \in Request, CommitWallet(r) \/ CommitToken(r) PROVE Own(q)'
  BY <1>1, <1>3, WalletCommitted, TokenCommitted DEF Own
<1>4. ASSUME NEW r \in Request, CommitPayment(r) PROVE Own(q)'
  <2>1. CASE q = r
    BY <1>1, <1>4, <2>1, PaymentCommitted DEF Own
  <2>2. CASE q # r /\ KeyOf(q) = KeyOf(r)
    <3>1. charged[r] >= 1 /\ Payer(q) \in WalletOwner
      BY <1>4, <2>2, PaymentCommitted DEF Charging, InFunction, Payer, MidCommit
    <3>2. issued[KeyOf(q)] <= 1 /\ torn = 0 => pc[q] # "load"
      BY <2>2, <3>1, OnePayer DEF Charging
    <3> QED
      BY <1>1, <1>4, <2>2, <3>2, PaymentCommitted DEF Own
  <2>3. CASE KeyOf(q) # KeyOf(r)
    BY <1>1, <1>4, <2>3, PaymentCommitted DEF Own
  <2> QED
    BY <2>1, <2>2, <2>3
<1>5. ASSUME NEW k \in Key, CreateToken(k) \/ EvictToken(k) \/ EvictPayment(k)
      PROVE  Own(q)'
  BY <1>1, <1>5, KeyWritten DEF Own
<1>6. CASE UNCHANGED vars
  BY <1>1, <1>6 DEF vars, historyVars, paymentVars, Own
<1> QED
  BY <1>2, <1>3, <1>4, <1>5, <1>6, QuietOrWrites DEF Writes

\* what is stored for it,
LEMMA StoredStep ==
  ASSUME ReplyInv, [Next]_vars, NEW q \in Request
  PROVE  Stored(q)'
<1> USE DEF ReplyInv, PaidInv
<1>1. /\ Stored(q) /\ KeyOf(q) \in Key /\ KeyOf(q)' = KeyOf(q)
      /\ issued'[KeyOf(q)] <= 1 => issued[KeyOf(q)] <= 1
      /\ faults' = 0 => faults = 0 /\ torn = 0
      /\ charged \in [Request -> Nat] /\ issued[KeyOf(q)] \in Nat
  BY ArgFixed, ArgTypes, FaultsCounted, IssuesCounted DEF TypeOK
<1>2. ASSUME NEW r \in Request, Quiet(r) PROVE Stored(q)'
  BY <1>1, <1>2 DEF Quiet, QuietMove, Stored, Before, PastCharge
<1>3. ASSUME NEW r \in Request, CommitWallet(r) PROVE Stored(q)'
  BY <1>1, <1>3, WalletCommitted DEF Stored
<1>4. ASSUME NEW r \in Request, CommitToken(r) PROVE Stored(q)'
  <2>1. CASE KeyOf(q) = KeyOf(r)
    BY <1>1, <1>4, <2>1, TokenCommitted DEF Stored
  <2>2. CASE KeyOf(q) # KeyOf(r)
    BY <1>1, <1>4, <2>2, TokenCommitted DEF Stored
  <2> QED
    BY <2>1, <2>2
<1>5. ASSUME NEW r \in Request, CommitPayment(r) PROVE Stored(q)'
  <2>1. charged[r] >= 1
    BY <1>5, PaymentCommitted DEF Charging, MidCommit
  <2>2. CASE q = r
    BY <1>1, <1>5, <2>2, PaymentCommitted DEF Stored
  <2>3. CASE q # r /\ KeyOf(q) = KeyOf(r)
    <3>1. ~(charged[q] >= 1 /\ issued[KeyOf(q)] <= 1 /\ torn = 0)
      BY <2>1, <2>3, OnePayer
    <3> QED
      BY <1>1, <1>5, <3>1, PaymentCommitted DEF Stored
  <2>4. CASE KeyOf(q) # KeyOf(r)
    BY <1>1, <1>5, <2>4, PaymentCommitted DEF Stored
  <2> QED
    BY <2>2, <2>3, <2>4
<1>6. ASSUME NEW k \in Key, CreateToken(k) \/ EvictToken(k) \/ EvictPayment(k)
      PROVE  Stored(q)'
  <2>1. charged[q] <= debited[KeyOf(q)] /\ debited[KeyOf(q)] <= issued[KeyOf(q)] + torn
    BY <1>1 DEF Booked, TokenInv, ChargedOncePerIssue
  <2>2. debited[KeyOf(q)] \in Nat /\ charged[q] \in Nat
    BY <1>1 DEF TypeOK
  <2>3. torn = 0 /\ issued[KeyOf(q)] = 0 => charged[q] = 0
    BY <2>1, <2>2
  <2> QED
    BY <1>1, <1>6, <2>3, KeyWritten DEF Stored
<1>7. CASE UNCHANGED vars
  BY <1>1, <1>7 DEF vars, historyVars, paymentVars, tokenVars, Stored
<1> QED
  BY <1>2, <1>3, <1>4, <1>5, <1>6, <1>7, QuietOrWrites DEF Writes

\* and so all of it.
LEMMA NextReply == ReplyInv /\ [Next]_vars => ReplyInv'
<1> SUFFICES ASSUME ReplyInv, [Next]_vars PROVE ReplyInv'
  OBVIOUS
<1>1. PaidInv'
  BY NextPaid DEF ReplyInv
<1>2. (faults = 0 => torn = 0)'
  BY FaultsCounted DEF ReplyInv, PaidInv
<1> QED
  BY <1>1, <1>2, ExactStep, OwnStep, StoredStep DEF ReplyInv

\* Without faults a client is told of an error exactly when its request was not charged,
\* though the reply is built after the transaction from what is stored by then.
THEOREM HonestReply == Spec => []ReplyTellsTheTruth
<1>1. ReplyInv => ReplyTellsTheTruth
  BY DEF ReplyInv, Exact, ReplyTellsTheTruth, At
<1> QED
  BY <1>1, InitReply, NextReply, PTL DEF Spec

\* The payment that a client is shown is its own, whatever is evicted, times out or
\* crashes between two commits of another cache than the token's.
THEOREM OwnReply == Spec => []ReplyIsOwn
<1>1. ReplyInv => ReplyIsOwn
  BY DEF ReplyInv, Own, ReplyIsOwn
<1> QED
  BY <1>1, InitReply, NextReply, PTL DEF Spec

\* So it is after every commit.
LEMMA CachesAgree == ReplyInv => AllOrNothing
<1> SUFFICES ASSUME ReplyInv, NEW k \in Key, faults = 0, issued[k] <= 1,
                    \A r \in Request : KeyOf(r) = k => ~MidCommit(r)
             PROVE  /\ token[k] = "USED" <=> payment[k] # NoRequest
                    /\ token[k] = "USED" <=> debited[k] = 1
                    /\ \A r \in Request : charged[r] = 1 /\ KeyOf(r) = k <=> payment[k] = r
  BY DEF AllOrNothing
<1> USE DEF ReplyInv, PaidInv
<1>1. /\ debited[k] \in Nat /\ issued[k] \in Nat /\ charged \in [Request -> Nat]
      /\ payment[k] \in Request \cup {NoRequest} /\ NoRequest \notin Request
  BY GridAssumption DEF TypeOK
<1>2. debited[k] <= 1
  BY <1>1 DEF TokenInv, ChargedOncePerIssue
<1>3. \A r \in Request : KeyOf(r) = k /\ charged[r] >= 1 =>
        charged[r] = 1 /\ token[k] = "USED" /\ payment[k] = r
  BY <1>1, <1>2 DEF Stored, Booked, MidCommit
<1>4. payment[k] # NoRequest => KeyOf(payment[k]) = k /\ charged[payment[k]] >= 1
  BY DEF Booked
<1>5. debited[k] >= 1 => \E r \in Request : KeyOf(r) = k /\ charged[r] >= 1
  BY DEF Booked
<1>6. /\ token[k] = "USED" => debited[k] >= 1
      /\ \A r \in Request : KeyOf(r) = k /\ charged[r] >= 1 => debited[k] >= 1
  BY <1>1 DEF Booked
<1> QED
  BY <1>1, <1>2, <1>3, <1>4, <1>5, <1>6

\* The three caches agree between commits, although they commit one by one.
THEOREM AllTogether == Spec => []AllOrNothing
  BY CachesAgree, InitReply, NextReply, PTL DEF Spec

-----------------------------------------------------------------------------
(* What a request that gives up was stopped by.                            *)

\* Every payment moves the version of its wallet once.
Payers(s) == {q \in Request : Payer(q) = s /\ charged[q] > 0}

VersionsCount ==
  faults = 0 => \A s \in Shopper :
    IsFiniteSet(Payers(s)) /\ walletVer[s] = Cardinality(Payers(s))

\* A request that nothing but write conflicts has stopped, for a token of its own.
Alone(r) ==
  /\ faults = 0
  /\ causes[r] \subseteq {"conflict"}
  /\ issued[KeyOf(r)] <= 1
  /\ \A q \in Request : KeyOf(q) = KeyOf(r) => charged[q] = 0

\* Its token and its payment are as it has read them,
OthersKeepOff(r) ==
  Alone(r) =>
    /\ pc[r] \in {"charge", "prepareWallet", "prepareToken"}
         => issued[KeyOf(r)] = 1 /\ buf[r].tokenVer = tokenVer[KeyOf(r)]
    /\ pc[r] \in {"prepareWallet", "prepareToken", "preparePayment"}
         => buf[r].paymentVer = paymentVer[KeyOf(r)]

\* and between two of its tries the wallet has got a new version.
Outrun(r) ==
  Alone(r) =>
    /\ try[r] <= walletVer[Payer(r)] + 1
    /\ pc[r] \in {"token", "charge"} \cup PastCharge => try[r] <= buf[r].walletVer + 1
    /\ pc[r] = "rollback" => try[r] <= walletVer[Payer(r)]
    /\ reply[r] = Error =>
         pc[r] = "done" /\ (causes[r] # {} => MaxRetry <= walletVer[Payer(r)])

Caught(r) == causes[r] # {} => Payer(r) \in WalletOwner

ConflictInv ==
  /\ ReplyInv /\ WalletAsRead /\ VersionsCount
  /\ \A r \in Request : OthersKeepOff(r) /\ Outrun(r) /\ Caught(r)

\* Only a payment moves the version of a wallet, and only forward.
LEMMA VersionsMove ==
  ASSUME TypeOK, [Next]_vars
  PROVE  /\ \/ UNCHANGED <<walletVer, charged>>
            \/ \E r \in Request :
                 CommitWallet(r) /\ walletVer' = [walletVer EXCEPT ![Payer(r)] = @ + 1]
         /\ \A s \in Shopper : walletVer[s] <= walletVer'[s]
         /\ \A r \in Request : charged[r] <= charged'[r]
<1>1. ASSUME NEW r \in Request, CommitWallet(r)
      PROVE  /\ walletVer' = [walletVer EXCEPT ![Payer(r)] = @ + 1]
             /\ \A s \in Shopper : walletVer[s] <= walletVer'[s]
             /\ \A q \in Request : charged[q] <= charged'[q]
  BY <1>1 DEF CommitWallet, TypeOK
<1>2. ASSUME NEW r \in Request, BufferKept(r), ~CommitWallet(r)
      PROVE  UNCHANGED <<walletVer, charged>>
  <2>1. UNCHANGED walletVer
    BY <1>2, WalletUntouched
  <2>2. UNCHANGED charged
    BY <1>2 DEF BufferKept, Submit, Dispatch, Begin, PrepareWallet, PrepareToken,
                PreparePayment, CommitToken, CommitPayment, LoadPayment, Notify, LockTimeout,
                NotifyOverflow, historyVars
  <2> QED
    BY <2>1, <2>2
<1>3. ASSUME NEW r \in Request,
             LoadWallet(r) \/ LoadToken(r) \/ Charge(r) \/ Rollback(r) \/ OwnerLost(r)
      PROVE  UNCHANGED <<walletVer, charged>>
  BY <1>3 DEF LoadWallet, LoadToken, Charge, Rollback, OwnerLost, ReleaseLocks, walletVars,
              historyVars
<1>4. ASSUME NEW k \in Key, KeyStep(k) PROVE UNCHANGED <<walletVer, charged>>
  BY <1>4 DEF KeyStep, CreateToken, EvictToken, EvictPayment, walletVars, historyVars
<1>5. ASSUME UNCHANGED vars PROVE UNCHANGED <<walletVer, charged>>
  BY <1>5 DEF vars, walletVars, historyVars
<1>6. ASSUME UNCHANGED <<walletVer, charged>>
      PROVE  /\ \A s \in Shopper : walletVer[s] <= walletVer'[s]
             /\ \A r \in Request : charged[r] <= charged'[r]
  BY <1>6 DEF TypeOK
<1> QED
  BY <1>1, <1>2, <1>3, <1>4, <1>5, <1>6, Steps

LEMMA VersionsStep ==
  ASSUME ReplyInv, VersionsCount, [Next]_vars
  PROVE  VersionsCount'
<1> USE DEF ReplyInv, PaidInv
<1> SUFFICES ASSUME faults' = 0, NEW s \in Shopper
             PROVE  IsFiniteSet(Payers(s))' /\ walletVer'[s] = Cardinality(Payers(s))'
  BY DEF VersionsCount
<1>1. /\ faults = 0 /\ IsFiniteSet(Payers(s)) /\ walletVer[s] = Cardinality(Payers(s))
      /\ \A r : Payer(r)' = Payer(r)
  BY FaultsCounted, ArgFixed DEF VersionsCount
<1>2. CASE UNCHANGED <<walletVer, charged>>
  <2>1. Payers(s)' = Payers(s)
    BY <1>1, <1>2 DEF Payers
  <2> QED
    BY <1>1, <1>2, <2>1
<1>3. ASSUME NEW r \in Request, CommitWallet(r),
             walletVer' = [walletVer EXCEPT ![Payer(r)] = @ + 1]
      PROVE  IsFiniteSet(Payers(s))' /\ walletVer'[s] = Cardinality(Payers(s))'
  <2>1. /\ charged[r] = 0 /\ charged'[r] = 1
        /\ \A q \in Request \ {r} : charged'[q] = charged[q]
    BY <1>1, <1>3, WalletCommitted DEF Exact, Before, PastCharge
  <2>2. CASE Payer(r) = s
    <3>1. Payers(s)' = Payers(s) \cup {r} /\ r \notin Payers(s)
      BY <1>1, <2>1, <2>2 DEF Payers
    <3>2. walletVer'[s] = walletVer[s] + 1
      BY <1>3, <2>2 DEF TypeOK
    <3> QED
      BY <1>1, <3>1, <3>2, FS_AddElement
  <2>3. CASE Payer(r) # s
    <3>1. Payers(s)' = Payers(s)
      BY <1>1, <2>1, <2>3 DEF Payers
    <3>2. walletVer'[s] = walletVer[s]
      BY <1>3, <2>3 DEF TypeOK
    <3> QED
      BY <1>1, <3>1, <3>2
  <2> QED
    BY <2>2, <2>3
<1> QED
  BY <1>2, <1>3, VersionsMove

\* How a request steps, as far as its tries go.
LEMMA CausesKept ==
  ASSUME TypeOK, TokenInv, [Next]_vars, faults' = 0, NEW q \in Request
  PROVE  causes[q] \subseteq causes'[q]
<1>0. \A r, cause : Catch(r, cause) => causes[q] \subseteq causes'[q]
  BY DEF Catch, TypeOK
<1>1. ASSUME NEW r \in Request, BufferKept(r) PROVE causes[q] \subseteq causes'[q]
  <2>1. causes' = causes \/ \E cause : Catch(r, cause)
    BY <1>1 DEF BufferKept, Submit, Dispatch, Begin, PrepareWallet, PrepareToken,
                PreparePayment, CommitWallet, CommitToken, CommitPayment, LoadPayment,
                Notify, LockTimeout, NotifyOverflow, taskVars
  <2> QED
    BY <1>0, <2>1
<1>2. ASSUME NEW r \in Request, LoadWallet(r) \/ LoadToken(r) \/ Charge(r) \/ Rollback(r)
      PROVE  causes[q] \subseteq causes'[q]
  <2>1. causes' = causes \/ \E cause : Catch(r, cause)
    BY <1>2 DEF LoadWallet, LoadToken, Charge, Rollback
  <2> QED
    BY <1>0, <2>1
<1>3. ASSUME NEW r \in Request, OwnerLost(r) PROVE FALSE
  BY <1>3 DEF OwnerLost, Fault, TypeOK
<1>4. ASSUME NEW k \in Key, KeyStep(k) PROVE causes' = causes
  BY <1>4 DEF KeyStep, CreateToken, EvictToken, EvictPayment, taskVars
<1>5. CASE UNCHANGED vars
  BY <1>5 DEF vars, taskVars
<1> QED
  BY <1>1, <1>2, <1>3, <1>4, <1>5, Steps

LEMMA AloneBefore ==
  ASSUME TypeOK, TokenInv, [Next]_vars, NEW r \in Request, Alone(r)'
  PROVE  Alone(r)
<1>1. faults' = 0 /\ faults = 0 /\ KeyOf(r) \in Key /\ issued[KeyOf(r)] <= 1
  BY FaultsCounted, IssuesCounted, ArgTypes, ArgFixed DEF Alone
<1>2. causes[r] \subseteq {"conflict"}
  BY <1>1, CausesKept DEF Alone
<1>3. ASSUME NEW q \in Request, KeyOf(q) = KeyOf(r) PROVE charged[q] = 0
  BY <1>3, ArgFixed, VersionsMove DEF Alone, TypeOK
<1> QED
  BY <1>1, <1>2, <1>3 DEF Alone

\* What a step does to the tries of requests other than the one that steps.
LEMMA OthersKept ==
  ASSUME TypeOK, NEW r \in Request, NEW q \in Request, q # r,
         \/ BufferKept(r)
         \/ LoadWallet(r) \/ LoadToken(r) \/ Charge(r) \/ Rollback(r) \/ OwnerLost(r)
  PROVE  /\ pc'[q] = pc[q] /\ buf'[q] = buf[q] /\ try'[q] = try[q]
         /\ causes'[q] = causes[q] /\ reply'[q] = reply[q]
<1>1. pc'[q] = pc[q] /\ buf'[q] = buf[q]
  BY Moves
<1>2. \A cause : Catch(r, cause) => causes'[q] = causes[q]
  BY DEF Catch, TypeOK
<1>3. \A answer : Answer(r, answer) => reply'[q] = reply[q]
  BY DEF Answer, TypeOK
<1>4. CASE BufferKept(r)
  <2>1. causes' = causes \/ \E cause : Catch(r, cause)
    BY <1>4 DEF BufferKept, Submit, Dispatch, Begin, PrepareWallet, PrepareToken,
                PreparePayment, CommitWallet, CommitToken, CommitPayment, LoadPayment, Notify,
                LockTimeout, NotifyOverflow, taskVars
  <2>2. \/ reply' = reply \/ \E answer : Answer(r, answer)
        \/ reply' = [reply EXCEPT ![r] = payment[KeyOf(r)]]
    BY <1>4 DEF BufferKept, Submit, Dispatch, Begin, PrepareWallet, PrepareToken,
                PreparePayment, CommitWallet, CommitToken, CommitPayment, LoadPayment, Notify,
                LockTimeout, NotifyOverflow
  <2>3. try' = try
    BY <1>4 DEF BufferKept, Submit, Dispatch, Begin, PrepareWallet, PrepareToken,
                PreparePayment, CommitWallet, CommitToken, CommitPayment, LoadPayment, Notify,
                LockTimeout, NotifyOverflow, taskVars
  <2>4. reply'[q] = reply[q]
    BY <1>3, <2>2 DEF TypeOK
  <2> QED
    BY <1>1, <1>2, <2>1, <2>3, <2>4
<1>5. CASE LoadWallet(r) \/ LoadToken(r) \/ Charge(r)
  <2>1. (causes' = causes \/ \E cause : Catch(r, cause)) /\ UNCHANGED <<try, reply>>
    BY <1>5 DEF LoadWallet, LoadToken, Charge
  <2> QED
    BY <1>1, <1>2, <2>1
<1>6. CASE Rollback(r) \/ OwnerLost(r)
  <2>1. causes'[q] = causes[q]
    BY <1>6 DEF Rollback, OwnerLost, TypeOK
  <2>2. try'[q] = try[q]
    BY <1>6 DEF Rollback, OwnerLost, TypeOK
  <2>3. reply' = reply \/ \E answer : Answer(r, answer)
    BY <1>6 DEF Rollback, OwnerLost, GiveUp
  <2> QED
    BY <1>1, <1>3, <2>1, <2>2, <2>3
<1> QED
  BY <1>4, <1>5, <1>6


\* Only the function catches anything, and it runs where there is a wallet.
LEMMA CaughtStep ==
  ASSUME ReplyInv, [Next]_vars, NEW q \in Request, Caught(q)
  PROVE  Caught(q)'
<1> USE DEF ReplyInv, PaidInv
<1>1. Payer(q)' = Payer(q)
  BY ArgFixed
<1>2. ASSUME causes'[q] # causes[q], causes'[q] # {} PROVE pc[q] \in Before
  <2>1. ASSUME NEW r \in Request, BufferKept(r) PROVE pc[q] \in Before
    <3>1. q = r
      BY <1>2, <2>1, OthersKept
    <3>2. Begin(r) \/ PrepareWallet(r) \/ PrepareToken(r) \/ PreparePayment(r) \/ LockTimeout(r)
      BY <1>2, <2>1 DEF BufferKept, Submit, Dispatch, CommitWallet, CommitToken, CommitPayment,
                        LoadPayment, Notify, NotifyOverflow, taskVars
    <3> QED
      BY <3>1, <3>2 DEF Begin, PrepareWallet, PrepareToken, PreparePayment, LockTimeout, Waiting,
                        At, Before, PastCharge
  <2>2. ASSUME NEW r \in Request, LoadWallet(r) \/ LoadToken(r) \/ Charge(r)
        PROVE  pc[q] \in Before
    <3>1. q = r
      BY <1>2, <2>2, OthersKept
    <3> QED
      BY <2>2, <3>1 DEF LoadWallet, LoadToken, Charge, At, Before
  <2>3. ASSUME NEW r \in Request, Rollback(r) \/ OwnerLost(r) PROVE FALSE
    <3>1. causes' = causes \/ causes' = [causes EXCEPT ![r] = {}]
      BY <2>3 DEF Rollback, OwnerLost
    <3> QED
      BY <1>2, <2>3, <3>1 DEF TypeOK
  <2>4. ASSUME NEW k \in Key, KeyStep(k) PROVE FALSE
    BY <1>2, <2>4 DEF KeyStep, CreateToken, EvictToken, EvictPayment, taskVars
  <2>5. ~UNCHANGED vars
    BY <1>2 DEF vars, taskVars
  <2> QED
    BY <2>1, <2>2, <2>3, <2>4, <2>5, Steps
<1> QED
  BY <1>1, <1>2 DEF Caught, Charging, InFunction

\* While nobody else is charged for it, and nothing fails, the entries of a token that
\* was issued stand still.
LEMMA EntriesStand ==
  ASSUME ReplyInv, [Next]_vars, NEW q \in Request, Alone(q)'
  PROVE  /\ paymentVer'[KeyOf(q)] = paymentVer[KeyOf(q)]
         /\ \/ issued[KeyOf(q)] = 0
            \/ /\ issued'[KeyOf(q)] = issued[KeyOf(q)]
               /\ tokenVer'[KeyOf(q)] = tokenVer[KeyOf(q)]
<1> USE DEF ReplyInv, PaidInv
<1> DEFINE k == KeyOf(q)
<1>1. Alone(q) /\ k \in Key /\ KeyOf(q)' = k
  BY AloneBefore, ArgTypes, ArgFixed
<1>2. \A r \in Request : KeyOf(r) = k => ~MidCommit(r)
  BY <1>1 DEF Alone, Exact
<1>3. ASSUME NEW r \in Request, BufferKept(r)
      PROVE  paymentVer'[k] = paymentVer[k] /\ UNCHANGED issued /\ tokenVer'[k] = tokenVer[k]
  <2>1. CASE CommitPayment(r)
    <3>1. KeyOf(r) # k
      BY <1>2, <2>1 DEF CommitPayment, At, MidCommit
    <3> QED
      BY <1>1, <2>1, <3>1 DEF CommitPayment, tokenVars, historyVars, TypeOK
  <2>2. CASE CommitToken(r)
    <3>1. KeyOf(r) # k
      BY <1>2, <2>2 DEF CommitToken, At, MidCommit
    <3> QED
      BY <1>1, <2>2, <3>1 DEF CommitToken, paymentVars, historyVars, TypeOK
  <2>3. CASE ~CommitPayment(r) /\ ~CommitToken(r)
    <3>1. UNCHANGED <<issued, tokenVer>>
      BY <1>3, <2>3, TokenUntouched
    <3>2. UNCHANGED paymentVer
      BY <1>3, <2>3 DEF BufferKept, Submit, Dispatch, Begin, PrepareWallet, PrepareToken,
                PreparePayment, CommitWallet, LoadPayment, Notify, LockTimeout, NotifyOverflow,
                paymentVars
    <3> QED
      BY <3>1, <3>2
  <2> QED
    BY <2>1, <2>2, <2>3
<1>4. ASSUME NEW r \in Request,
             LoadWallet(r) \/ LoadToken(r) \/ Charge(r) \/ Rollback(r) \/ OwnerLost(r)
      PROVE  UNCHANGED <<paymentVer, issued, tokenVer>>
  <2>1. UNCHANGED <<issued, tokenVer>>
    BY <1>4, TokenUntouched
  <2>2. UNCHANGED paymentVer
    BY <1>4 DEF LoadWallet, LoadToken, Charge, Rollback, OwnerLost, ReleaseLocks, paymentVars
  <2> QED
    BY <2>1, <2>2
<1>5. ASSUME NEW j \in Key, KeyStep(j)
      PROVE  /\ paymentVer'[k] = paymentVer[k]
             /\ issued[k] = 0 \/ (issued'[k] = issued[k] /\ tokenVer'[k] = tokenVer[k])
  <2>1. CreateToken(j)
    BY <1>1, <1>5 DEF KeyStep, EvictToken, EvictPayment, Fault, Alone, TypeOK
  <2>2. UNCHANGED paymentVer
    BY <2>1 DEF CreateToken, paymentVars
  <2>3. CASE j = k
    <3>1. issued'[k] = issued[k] + 1 /\ issued'[k] <= 1 /\ issued[k] \in Nat
      BY <1>1, <2>1, <2>3 DEF CreateToken, TypeOK, Alone
    <3> QED
      BY <2>2, <3>1
  <2>4. CASE j # k
    BY <1>1, <2>1, <2>2, <2>4 DEF CreateToken, TypeOK
  <2> QED
    BY <2>3, <2>4
<1>6. ASSUME UNCHANGED vars PROVE UNCHANGED <<paymentVer, issued, tokenVer>>
  BY <1>6 DEF vars, paymentVars, tokenVars, historyVars
<1> QED
  BY <1>3, <1>4, <1>5, <1>6, Steps

\* A request that reads its token in time reads it UNUSED, and it was issued.
LEMMA KeepOffStep ==
  ASSUME ReplyInv, [Next]_vars, NEW q \in Request, OthersKeepOff(q)
  PROVE  OthersKeepOff(q)'
<1> USE DEF ReplyInv, PaidInv
<1> DEFINE k == KeyOf(q)
<1> SUFFICES ASSUME Alone(q)' PROVE OthersKeepOff(q)'
  BY DEF OthersKeepOff
<1>1. /\ Alone(q) /\ k \in Key /\ KeyOf(q)' = k /\ issued[k] \in Nat
      /\ \A r \in Request : pc[r] = "commitToken" => KeyOf(r) # k
  <2>1. Alone(q) /\ k \in Key /\ KeyOf(q)' = k
    BY AloneBefore, ArgTypes, ArgFixed
  <2> QED
    BY <2>1 DEF Alone, Exact, MidCommit, TypeOK
<1>2. /\ paymentVer'[k] = paymentVer[k]
      /\ issued[k] = 0 \/ (issued'[k] = issued[k] /\ tokenVer'[k] = tokenVer[k])
  BY EntriesStand
<1>3. /\ pc[q] \in {"charge", "prepareWallet", "prepareToken"}
           => issued[k] = 1 /\ buf[q].tokenVer = tokenVer[k]
      /\ pc[q] \in {"prepareWallet", "prepareToken", "preparePayment"}
           => buf[q].paymentVer = paymentVer[k]
  BY <1>1 DEF OthersKeepOff
<1>4. ASSUME NEW r \in Request, q # r,
             \/ BufferKept(r)
             \/ LoadWallet(r) \/ LoadToken(r) \/ Charge(r) \/ Rollback(r) \/ OwnerLost(r)
      PROVE  OthersKeepOff(q)'
  BY <1>1, <1>2, <1>3, <1>4, OthersKept DEF OthersKeepOff
<1>5. CASE BufferKept(q)
  BY <1>1, <1>2, <1>3, <1>5, Moves DEF OthersKeepOff
<1>6. CASE LoadToken(q)
  <2>1. CASE pc'[q] = "charge"
    <3>1. /\ token[k] = "UNUSED" /\ buf'[q].tokenVer = tokenVer[k]
          /\ UNCHANGED <<tokenVer, issued>>
      BY <1>6, <2>1 DEF LoadToken, CanProcess, Catch, Goto, tokenVars, historyVars, TypeOK, Buffer
    <3>2. issued[k] = 1
      <4>1. debited[k] < issued[k] + torn /\ torn = 0
        BY <1>1, <3>1 DEF TokenInv, UnusedIsCovered, Alone
      <4>2. debited[k] \in Nat /\ issued[k] <= 1
        BY <1>1 DEF Alone, TypeOK
      <4> QED
        BY <1>1, <4>1, <4>2
    <3> QED
      BY <1>1, <2>1, <3>1, <3>2 DEF OthersKeepOff
  <2>2. CASE pc'[q] = "rollback"
    BY <2>2 DEF OthersKeepOff
  <2> QED
    BY <1>6, <2>1, <2>2, Moves
<1>7. CASE Charge(q)
  <2>1. CASE pc'[q] = "prepareWallet"
    <3>1. /\ pc[q] = "charge"
          /\ buf'[q].tokenVer = buf[q].tokenVer /\ buf'[q].paymentVer = paymentVer[k]
          /\ UNCHANGED <<tokenVer, issued, paymentVer>>
      BY <1>7, <2>1 DEF Charge, Catch, Goto, At, tokenVars, paymentVars, historyVars, TypeOK, Buffer
    <3> QED
      BY <1>1, <1>3, <2>1, <3>1 DEF OthersKeepOff
  <2>2. CASE pc'[q] = "rollback"
    BY <2>2 DEF OthersKeepOff
  <2> QED
    BY <1>7, <2>1, <2>2, Moves
<1>8. CASE LoadWallet(q) \/ Rollback(q) \/ OwnerLost(q)
  BY <1>8, Moves DEF OthersKeepOff
<1>9. ASSUME NEW j \in Key, KeyStep(j) PROVE OthersKeepOff(q)'
  <2>1. UNCHANGED <<pc, buf>>
    BY <1>9, TokenUntouched
  <2> QED
    BY <1>1, <1>2, <1>3, <2>1 DEF OthersKeepOff
<1>10. CASE UNCHANGED vars
  <2>1. UNCHANGED <<pc, buf>>
    BY <1>10 DEF vars, taskVars
  <2> QED
    BY <1>1, <1>2, <1>3, <2>1 DEF OthersKeepOff
<1> QED
  BY <1>4, <1>5, <1>6, <1>7, <1>8, <1>9, <1>10, Steps

\* The try that ends in a conflict ends because of the wallet, which somebody has paid
\* from since it was read.
LEMMA OutrunStep ==
  ASSUME ReplyInv, WalletAsRead, [Next]_vars, NEW q \in Request,
         OthersKeepOff(q), Caught(q), Outrun(q)
  PROVE  Outrun(q)'
<1> USE DEF ReplyInv, PaidInv
<1> SUFFICES ASSUME Alone(q)' PROVE Outrun(q)'
  BY DEF Outrun
<1>1. /\ Alone(q) /\ Payer(q) \in Shopper /\ Payer(q)' = Payer(q)
      /\ faults = 0 /\ faults' = 0 /\ causes'[q] \subseteq {"conflict"}
      /\ issued[KeyOf(q)] <= 1
  BY AloneBefore, ArgTypes, ArgFixed DEF Alone
<1>2. /\ walletVer[Payer(q)] <= walletVer'[Payer(q)]
      /\ walletVer[Payer(q)] \in Nat /\ walletVer'[Payer(q)] \in Nat
      /\ try[q] \in Nat /\ buf[q].walletVer \in Nat /\ MaxRetry \in Nat
  <2>1. walletVer[Payer(q)] <= walletVer'[Payer(q)] /\ walletVer[Payer(q)] \in Nat
    BY <1>1, VersionsMove DEF TypeOK
  <2>2. TypeOK'
    BY NextTypeOK
  <2> QED
    BY <1>1, <2>1, <2>2, GridAssumption DEF TypeOK, Buffer
<1>3. /\ try[q] <= walletVer[Payer(q)] + 1
      /\ pc[q] \in {"token", "charge"} \cup PastCharge => try[q] <= buf[q].walletVer + 1
      /\ pc[q] = "rollback" => try[q] <= walletVer[Payer(q)]
      /\ reply[q] = Error =>
           pc[q] = "done" /\ (causes[q] # {} => MaxRetry <= walletVer[Payer(q)])
  BY <1>1 DEF Outrun
<1>4. ASSUME pc'[q] = pc[q], buf'[q] = buf[q], try'[q] = try[q], causes'[q] = causes[q],
             reply'[q] = reply[q]
      PROVE  Outrun(q)'
  BY <1>1, <1>2, <1>3, <1>4 DEF Outrun
<1>5. \A cause \in Cause \ {"conflict"} : ~Catch(q, cause)
  <2>1. \A cause : Catch(q, cause) => causes'[q] = causes[q] \cup {cause}
    BY DEF Catch, TypeOK
  <2> QED
    BY <1>1, <2>1
<1>6. CASE BufferKept(q)
  <2>1. buf' = buf /\ try' = try
    BY <1>6 DEF BufferKept, Submit, Dispatch, Begin, PrepareWallet, PrepareToken,
                PreparePayment, CommitWallet, CommitToken, CommitPayment, LoadPayment, Notify,
                LockTimeout, NotifyOverflow, taskVars
  <2>2. pc'[q] \in {"token", "charge"} \cup PastCharge => pc[q] \in PastCharge
    BY <1>6, Moves DEF PastCharge
  <2>3. pc'[q] = "rollback" => try[q] <= walletVer'[Payer(q)]
    <3> SUFFICES ASSUME pc'[q] = "rollback" PROVE try[q] <= walletVer[Payer(q)]
      BY <1>2
    <3>1. PrepareWallet(q) \/ PrepareToken(q) \/ PreparePayment(q)
      BY <1>1, <1>5, <1>6 DEF BufferKept, Submit, Dispatch, Begin, CommitWallet, CommitToken,
              CommitPayment, LoadPayment, Notify, LockTimeout, NotifyOverflow, Fault, Goto,
              Answer, Cause, TypeOK
    <3>2. CASE PrepareWallet(q)
      <4>1. pc[q] = "prepareWallet" /\ buf[q].walletVer # walletVer[Payer(q)]
        BY <3>2 DEF PrepareWallet, At, Goto, Unchanged, TypeOK
      <4>2. buf[q].walletVer <= walletVer[Payer(q)]
        BY <4>1 DEF WalletAsRead, PastCharge
      <4> QED
        BY <1>2, <1>3, <4>1, <4>2 DEF PastCharge
    <3>3. CASE PrepareToken(q)
      <4>1. pc[q] = "prepareToken" /\ buf[q].tokenVer # tokenVer[KeyOf(q)]
        BY <3>3 DEF PrepareToken, At, Goto, Unchanged, TypeOK
      <4> QED
        BY <1>1, <4>1 DEF OthersKeepOff
    <3>4. CASE PreparePayment(q)
      <4>1. pc[q] = "preparePayment" /\ buf[q].paymentVer # paymentVer[KeyOf(q)]
        BY <3>4 DEF PreparePayment, At, Goto, Unchanged, TypeOK
      <4> QED
        BY <1>1, <4>1 DEF OthersKeepOff
    <3> QED
      BY <3>1, <3>2, <3>3, <3>4
  <2>4. reply'[q] = Error => pc'[q] = "done" /\ causes'[q] = {}
    <3> SUFFICES ASSUME reply'[q] = Error PROVE pc'[q] = "done" /\ causes'[q] = {}
      OBVIOUS
    <3>1. pc[q] # "done"
      BY <1>6 DEF BufferKept, Submit, Dispatch, Begin, PrepareWallet, PrepareToken,
                PreparePayment, CommitWallet, CommitToken, CommitPayment, LoadPayment, Notify,
                LockTimeout, NotifyOverflow, Waiting, At
    <3>2. reply' # reply
      BY <1>3, <3>1
    <3>3. LoadPayment(q)
      BY <1>1, <1>6, <3>2 DEF BufferKept, Submit, Dispatch, Begin, PrepareWallet, PrepareToken,
                PreparePayment, CommitWallet, CommitToken, CommitPayment, Notify,
                LockTimeout, NotifyOverflow, Fault
    <3>4. /\ pc[q] = "load" /\ payment[KeyOf(q)] = NoRequest
          /\ pc'[q] = "done" /\ causes' = causes
      <4>1. payment[KeyOf(q)] \in Request \cup {NoRequest} /\ Error \notin Request
        BY ArgTypes, GridAssumption DEF TypeOK
      <4> QED
        BY <3>3, <4>1 DEF LoadPayment, Answer, Goto, At, taskVars, TypeOK
    <3>5. Payer(q) \notin WalletOwner
      BY <1>1, <3>4 DEF Exact, Charging
    <3> QED
      BY <3>4, <3>5 DEF Caught
  <2> QED
    BY <1>1, <1>2, <1>3, <2>1, <2>2, <2>3, <2>4 DEF Outrun
<1>7. CASE LoadWallet(q)
  <2>1. /\ pc[q] = "wallet" /\ pc'[q] = "token" /\ buf'[q].walletVer = walletVer[Payer(q)]
        /\ UNCHANGED <<try, causes, reply, walletVer>>
    BY <1>7 DEF LoadWallet, Goto, At, walletVars, TypeOK, Buffer
  <2> QED
    BY <1>1, <1>2, <1>3, <2>1 DEF Outrun
<1>8. CASE LoadToken(q) \/ Charge(q)
  <2>1. /\ pc[q] \in {"token", "charge"} /\ pc'[q] \in {"charge", "prepareWallet"}
        /\ buf'[q].walletVer = buf[q].walletVer
        /\ UNCHANGED <<try, causes, reply, walletVer>>
    <3>1. CASE LoadToken(q)
      BY <1>5, <3>1 DEF LoadToken, Goto, At, walletVars, TypeOK, Buffer, Cause
    <3>2. CASE Charge(q)
      BY <1>5, <3>2 DEF Charge, Goto, At, walletVars, TypeOK, Buffer, Cause
    <3> QED
      BY <1>8, <3>1, <3>2
  <2> QED
    BY <1>1, <1>2, <1>3, <2>1 DEF Outrun, PastCharge
<1>9. CASE Rollback(q)
  <2>1. /\ pc[q] = "rollback" /\ UNCHANGED <<causes, walletVer>>
        /\ \/ try'[q] = try[q] + 1 /\ reply' = reply /\ pc'[q] = "begin"
           \/ try' = try /\ MaxRetry <= try[q] /\ pc'[q] = "done"
    BY <1>2, <1>9 DEF Rollback, MayRetry, GiveUp, Answer, Goto, At, ReleaseLocks, historyVars,
                      TypeOK
  <2> QED
    BY <1>1, <1>2, <1>3, <2>1 DEF Outrun, PastCharge
<1>10. ~OwnerLost(q)
  BY <1>1 DEF OwnerLost, Fault
<1>11. ASSUME NEW j \in Key, KeyStep(j) PROVE Outrun(q)'
  BY <1>4, <1>11 DEF KeyStep, CreateToken, EvictToken, EvictPayment, taskVars
<1>12. CASE UNCHANGED vars
  BY <1>4, <1>12 DEF vars, taskVars
<1> QED
  BY <1>4, <1>6, <1>7, <1>8, <1>9, <1>10, <1>11, <1>12, OthersKept, Steps

\* At first nobody has tried.
LEMMA InitConflict == Init => ConflictInv
<1> SUFFICES ASSUME Init PROVE ConflictInv
  OBVIOUS
<1>1. ReplyInv /\ WalletAsRead
  BY InitReply, InitWalletInv DEF WalletInv
<1>2. TypeOK
  BY <1>1 DEF ReplyInv, PaidInv
<1>3. ASSUME NEW s \in Shopper
      PROVE  IsFiniteSet(Payers(s)) /\ walletVer[s] = Cardinality(Payers(s))
  <2>1. Payers(s) = {} /\ walletVer[s] = 0
    BY DEF Init, Payers
  <2> QED
    BY <2>1, FS_EmptySet
<1>4. ASSUME NEW r \in Request PROVE OthersKeepOff(r) /\ Outrun(r) /\ Caught(r)
  <2>1. /\ pc[r] = "idle" /\ try[r] = 1 /\ reply[r] # Error /\ causes[r] = {}
        /\ walletVer[Payer(r)] = 0
    BY <1>2, ArgTypes DEF Init, NoReply, Error
  <2> QED
    BY <2>1 DEF OthersKeepOff, Outrun, Caught, PastCharge
<1> QED
  BY <1>1, <1>3, <1>4 DEF ConflictInv, VersionsCount

\* And every step keeps it.
LEMMA NextConflict == ConflictInv /\ [Next]_vars => ConflictInv'
<1> SUFFICES ASSUME ConflictInv, [Next]_vars PROVE ConflictInv'
  OBVIOUS
<1>1. ReplyInv' /\ WalletAsRead' /\ VersionsCount'
  BY NextReply, NextWalletAsRead, VersionsStep DEF ConflictInv, ReplyInv, PaidInv
<1>2. \A r \in Request : (OthersKeepOff(r) /\ Outrun(r) /\ Caught(r))'
  BY KeepOffStep, OutrunStep, CaughtStep DEF ConflictInv
<1> QED
  BY <1>1, <1>2 DEF ConflictInv

\* Each further try was forced by the payment of somebody else.
LEMMA ConflictsCounted == ConflictInv => ConflictsMeanProgress
<1> SUFFICES ASSUME ConflictInv, NEW r \in Request, reply[r] = Error,
                    causes[r] = {"conflict"}, faults = 0, issued[KeyOf(r)] <= 1,
                    \A q \in Request : KeyOf(q) = KeyOf(r) => charged[q] = 0
             PROVE  Cardinality(Payers(Payer(r))) >= MaxRetry
  BY DEF ConflictsMeanProgress, Payers
<1>1. Alone(r)
  BY DEF Alone
<1>2. MaxRetry <= walletVer[Payer(r)]
  BY <1>1 DEF ConflictInv, Outrun
<1>3. walletVer[Payer(r)] = Cardinality(Payers(Payer(r))) /\ walletVer[Payer(r)] \in Nat
  BY ArgTypes DEF ConflictInv, VersionsCount, ReplyInv, PaidInv, TypeOK
<1> QED
  BY <1>2, <1>3, GridAssumption

\* MaxRetry tries are enough unless that many others got through: at faults that are none,
\* each try that ended in a conflict was outrun by a payment of its own.
THEOREM OutrunByOthers == Spec => []ConflictsMeanProgress
  BY InitConflict, NextConflict, ConflictsCounted, PTL DEF Spec

-----------------------------------------------------------------------------
(* The life of a token in the cache.                                       *)

\* A token that is locked to be written is still the one that was checked, unless it
\* was evicted.
TokenKept ==
  \A r \in Request : pc[r] \in {"preparePayment", "commitWallet", "commitToken"}
    => \/ token[KeyOf(r)] = "UNUSED"
       \/ token[KeyOf(r)] = Absent /\ faults # 0

TokenSafe == TypeOK /\ Afforded /\ TokenInv /\ TokenKept

\* The lock keeps other payments and new tokens out.
LEMMA NextTokenKept == TokenSafe /\ [Next]_vars => TokenKept'
<1> DEFINE Holding == {"preparePayment", "commitWallet", "commitToken"}
           Kept(q) == \/ token[KeyOf(q)] = "UNUSED"
                      \/ token[KeyOf(q)] = Absent /\ faults # 0
<1> SUFFICES ASSUME TokenSafe, [Next]_vars, NEW q \in Request, pc'[q] \in Holding
             PROVE  Kept(q)'
  BY DEF TokenKept
<1> USE DEF TokenSafe
<1>1. /\ pc[q] \in Holding => Kept(q)
      /\ KeyOf(q) \in Key /\ KeyOf(q)' = KeyOf(q)
      /\ faults' = 0 => faults = 0
  BY ArgFixed, ArgTypes, FaultsCounted DEF TokenKept
<1>2. ASSUME pc[q] \in Holding, token'[KeyOf(q)] = token[KeyOf(q)]
      PROVE  Kept(q)'
  BY <1>1, <1>2
<1>3. ASSUME NEW r \in Request, BufferKept(r), ~PrepareToken(r), ~CommitToken(r)
      PROVE  Kept(q)'
  <2>1. pc[q] \in Holding /\ token' = token
    BY <1>3, Moves, CommitMoves, TokenUntouched
  <2> QED
    BY <1>2, <2>1
<1>4. ASSUME NEW r \in Request, PrepareToken(r)
      PROVE  Kept(q)'
  <2>1. BufferKept(r) /\ token' = token
    BY <1>4 DEF PrepareToken, BufferKept
  <2>2. CASE q = r
    <3>1. Unchanged(buf[q].tokenVer, tokenVer[KeyOf(q)])
      BY <1>4, <2>2 DEF PrepareToken, Catch, Goto, TypeOK
    <3>2. token[KeyOf(q)] = "UNUSED"
      BY <1>4, <2>2, <3>1 DEF PrepareToken, At, Unchanged, TokenInv, TokenAsRead
    <3> QED
      BY <1>1, <2>1, <3>2
  <2>3. CASE q # r
    BY <1>2, <2>1, <2>3, Moves
  <2> QED
    BY <2>2, <2>3
<1>5. ASSUME NEW r \in Request, CommitToken(r)
      PROVE  Kept(q)'
  <2>1. q # r /\ pc[q] \in Holding
    BY <1>5, Moves, CommitMoves
  <2>2. KeyOf(q) # KeyOf(r)
    BY <1>5, <2>1, CommitMoves, OneHolder DEF TokenInv
  <2>3. token'[KeyOf(q)] = token[KeyOf(q)]
    BY <1>1, <1>5, <2>2, TokenWritten, ArgTypes
  <2> QED
    BY <1>2, <2>1, <2>3
<1>6. ASSUME NEW r \in Request, LoadWallet(r) \/ LoadToken(r) \/ Charge(r)
                                \/ Rollback(r) \/ OwnerLost(r)
      PROVE  Kept(q)'
  <2>1. pc[q] \in Holding /\ token' = token
    BY <1>6, Moves, TokenUntouched
  <2> QED
    BY <1>2, <2>1
<1>7. ASSUME NEW k \in Key, KeyStep(k)
      PROVE  Kept(q)'
  <2>1. pc[q] \in Holding
    BY <1>7, TokenUntouched
  <2>2. CASE CreateToken(k)
    <3>1. k # KeyOf(q)
      BY <2>1, <2>2, GridAssumption DEF CreateToken, TokenInv, TokenHeld
    <3> QED
      BY <1>1, <1>2, <2>1, <2>2, <3>1, TokenWritten
  <2>3. CASE EvictToken(k)
    <3>1. faults' # 0 /\ token' = [token EXCEPT ![k] = Absent]
      BY <2>3 DEF EvictToken, Fault, TypeOK
    <3> QED
      BY <1>1, <2>1, <3>1 DEF TypeOK
  <2>4. CASE EvictPayment(k)
    BY <1>2, <2>1, <2>4, TokenUntouched
  <2> QED
    BY <1>7, <2>2, <2>3, <2>4 DEF KeyStep
<1>8. CASE UNCHANGED vars
  BY <1>1, <1>2, <1>8 DEF vars, tokenVars
<1> QED
  BY <1>3, <1>4, <1>5, <1>6, <1>7, <1>8, Steps

\* Nothing is locked at first, and so all of it is kept by every step.
LEMMA TokenInvariant == Spec => []TokenSafe
<1>1. Init => TokenSafe
  BY InitTokenInv DEF TokenSafe, TokenKept, Init
<1>2. TokenSafe /\ [Next]_vars => TokenSafe'
  BY NextTokenInv, NextTokenKept DEF TokenSafe
<1> QED
  BY <1>1, <1>2, PTL DEF Spec

\* How the token of a key may change.
Moved(k) ==
  token'[k] # token[k] =>
    \/ token'[k] = "UNUSED" /\ issued'[k] = issued[k] + 1
    \/ token'[k] = "USED" /\ token[k] \in {"UNUSED", Absent}
                            /\ (token[k] = Absent => faults > 0)
    \/ token'[k] = Absent /\ faults' = faults + 1

\* And every step does.
LEMMA TokenMoved ==
  ASSUME TokenSafe, [Next]_vars, NEW k \in Key
  PROVE  Moved(k)
<1> USE DEF Moved, TokenSafe
<1>1. token \in [Key -> Status] /\ issued \in [Key -> Nat] /\ faults \in Nat
  BY DEF TypeOK
<1>2. ASSUME NEW r \in Request, CommitToken(r) PROVE Moved(k)
  <2>1. /\ pc[r] = "commitToken" /\ token'[KeyOf(r)] = "USED"
        /\ \A j \in Key \ {KeyOf(r)} : token'[j] = token[j]
    BY <1>2, TokenCommitted
  <2>2. \/ token[KeyOf(r)] = "UNUSED"
        \/ token[KeyOf(r)] = Absent /\ faults > 0
    BY <1>1, <2>1 DEF TokenKept
  <2> QED
    BY <2>1, <2>2 DEF Absent
<1>3. ASSUME NEW j \in Key, KeyStep(j) PROVE Moved(k)
  BY <1>1, <1>3
  DEF KeyStep, CreateToken, EvictToken, EvictPayment, Fault, tokenVars
<1>4. ASSUME NEW r \in Request,
             \/ BufferKept(r) /\ ~CommitToken(r)
             \/ LoadWallet(r) \/ LoadToken(r) \/ Charge(r) \/ Rollback(r) \/ OwnerLost(r)
      PROVE  Moved(k)
  BY <1>4, TokenUntouched
<1>5. CASE UNCHANGED vars
  BY <1>5 DEF vars, tokenVars
<1> QED
  BY <1>2, <1>3, <1>4, <1>5, Steps

\* In the cache a token is only issued, used or evicted: what a transaction stores on its
\* way, PROCESSING above all, is never seen outside of it.
THEOREM LifeOfAToken == Spec => TokenLifecycle
<1>1. TokenSafe /\ [Next]_vars => [\A k \in Key : Moved(k)]_vars
  BY TokenMoved
<1> QED
  BY <1>1, TokenInvariant, PTL DEF Spec, TokenLifecycle, Moved

-----------------------------------------------------------------------------
(* The ledger.                                                             *)

\* A payment is locked from its check until it is written.
PaymentHeld ==
  \A r \in Request : pc[r] \in {"commitWallet", "commitToken", "commitPayment"}
    => paymentLock[KeyOf(r)] = r

CachesInv == WalletInv /\ TokenSafe /\ PaymentHeld

\* A wallet that is locked to be written is the one that was read.
BalanceHeld ==
  \A r \in Request : pc[r] \in PastCharge \ {"prepareWallet"}
    => /\ walletLock[Payer(r)] = r
       /\ buf[r].balance = balance[Payer(r)]

\* What of all this the ledger needs.
LedgerInv == TypeOK /\ Afforded /\ BalanceHeld /\ TokenInv /\ PaymentHeld

LEMMA CachesLedger == CachesInv => LedgerInv
  BY DEF CachesInv, LedgerInv, WalletInv, WalletAsRead, WalletHeld, BalanceHeld, TokenSafe,
         PastCharge

\* Who has reached which part of its commit.
Holds(r) == pc[r] \in {"preparePayment", "commitWallet"}

Phase(r) == <<Holds(r), pc[r] = "commitToken", pc[r] = "commitPayment">>

\* A payment that is given up before the first of its commits.
Aborts(r) ==
  /\ ~MidCommit(r)
  /\ pc'[r] \notin {"preparePayment", "commitWallet", "commitToken", "commitPayment"}
  /\ \A q \in Request \ {r} : pc'[q] = pc[q]
  /\ UNCHANGED <<balance, token, payment>>

\* Nothing the ledger shows changes.
Unseen ==
  /\ UNCHANGED <<balance, token, payment>>
  /\ \A q \in Request : Phase(q)' = Phase(q)

\* A node dies in the middle of a commit.
Torn == \E r \in Request : OwnerLost(r) /\ MidCommit(r)

\* The steps, by what they do to the ledger.
LEMMA LedgerSteps ==
  ASSUME TypeOK, [Next]_vars
  PROVE  \/ Unseen
         \/ Torn
         \/ \E r \in Request : PrepareToken(r) \/ Aborts(r) \/ Writes(r)
         \/ \E k \in Key : KeyStep(k)
<1> USE DEF Unseen, Phase, Holds, At, Goto, Catch, Answer, GiveUp, Aborts,
            walletVars, tokenVars, paymentVars, taskVars, MidCommit
<1>1. pc \in [Request -> Label]
  BY DEF TypeOK
<1>2. ASSUME NEW r \in Request, Submit(r) \/ Dispatch(r) \/ Begin(r) PROVE Unseen
  BY <1>1, <1>2 DEF Submit, Dispatch, Begin
<1>3. ASSUME NEW r \in Request, LoadWallet(r) \/ LoadToken(r) \/ Charge(r) PROVE Unseen
  BY <1>1, <1>3 DEF LoadWallet, LoadToken, Charge
<1>4. ASSUME NEW r \in Request, PrepareWallet(r) \/ Rollback(r) PROVE Unseen
  BY <1>1, <1>4 DEF PrepareWallet, Rollback, ReleaseLocks
<1>5. ASSUME NEW r \in Request, PreparePayment(r) PROVE Unseen \/ Aborts(r)
  BY <1>1, <1>5 DEF PreparePayment
<1>6. ASSUME NEW r \in Request, LoadPayment(r) \/ Notify(r) \/ NotifyOverflow(r) PROVE Unseen
  BY <1>1, <1>6 DEF LoadPayment, Notify, NotifyOverflow
<1>7. ASSUME NEW r \in Request, LockTimeout(r) PROVE Unseen \/ Aborts(r)
  BY <1>1, <1>7 DEF LockTimeout, Waiting
<1>8. CASE UNCHANGED vars
  BY <1>8 DEF vars
<1>9. ASSUME NEW r \in Request, OwnerLost(r) PROVE Aborts(r) \/ Torn
  BY <1>1, <1>9 DEF OwnerLost, ReleaseLocks, Torn
<1> QED
  BY <1>2, <1>3, <1>4, <1>5, <1>6, <1>7, <1>8, <1>9
  DEF Next, Serve, Disturb, Writes, KeyStep

\* Only the payment that holds the lock of its entry writes it.
LEMMA NextPaymentHeld == TypeOK /\ PaymentHeld /\ [Next]_vars => PaymentHeld'
<1> DEFINE Holding == {"commitWallet", "commitToken", "commitPayment"}
<1> SUFFICES ASSUME TypeOK, PaymentHeld, [Next]_vars, NEW q \in Request, pc'[q] \in Holding
             PROVE  paymentLock'[KeyOf(q)] = q
  BY ArgFixed DEF PaymentHeld
<1> USE DEF At, Goto, Catch, Answer, GiveUp, walletVars, tokenVars, paymentVars
<1>1. /\ pc[q] \in Holding => paymentLock[KeyOf(q)] = q
      /\ KeyOf(q) \in Key /\ q # NoRequest
      /\ pc \in [Request -> Label] /\ paymentLock \in [Key -> Request \cup {NoRequest}]
  BY ArgTypes, GridAssumption DEF PaymentHeld, TypeOK
<1>2. ASSUME NEW r \in Request, Submit(r) \/ Dispatch(r) \/ Begin(r)
      PROVE  paymentLock'[KeyOf(q)] = q
  BY <1>1, <1>2 DEF Submit, Dispatch, Begin
<1>3. ASSUME NEW r \in Request, LoadWallet(r) \/ LoadToken(r) \/ Charge(r)
      PROVE  paymentLock'[KeyOf(q)] = q
  BY <1>1, <1>3 DEF LoadWallet, LoadToken, Charge
<1>4. ASSUME NEW r \in Request, PrepareWallet(r) \/ PrepareToken(r)
      PROVE  paymentLock'[KeyOf(q)] = q
  BY <1>1, <1>4 DEF PrepareWallet, PrepareToken
<1>5. ASSUME NEW r \in Request, PreparePayment(r)
      PROVE  paymentLock'[KeyOf(q)] = q
  BY <1>1, <1>5 DEF PreparePayment
<1>6. ASSUME NEW r \in Request, CommitWallet(r) \/ CommitToken(r)
      PROVE  paymentLock'[KeyOf(q)] = q
  BY <1>1, <1>6 DEF CommitWallet, CommitToken
<1>7. ASSUME NEW r \in Request, CommitPayment(r)
      PROVE  paymentLock'[KeyOf(q)] = q
  <2>1. paymentLock[KeyOf(r)] = r
    BY <1>7 DEF CommitPayment, PaymentHeld
  <2> QED
    BY <1>1, <1>7, <2>1 DEF CommitPayment
<1>8. ASSUME NEW r \in Request, Rollback(r) \/ OwnerLost(r)
      PROVE  paymentLock'[KeyOf(q)] = q
  BY <1>1, <1>8 DEF Rollback, OwnerLost, ReleaseLocks
<1>9. ASSUME NEW r \in Request, LoadPayment(r) \/ Notify(r) \/ NotifyOverflow(r)
                                \/ LockTimeout(r)
      PROVE  paymentLock'[KeyOf(q)] = q
  BY <1>1, <1>9 DEF LoadPayment, Notify, NotifyOverflow, LockTimeout
<1>10. ASSUME NEW k \in Key, KeyStep(k)
       PROVE  paymentLock'[KeyOf(q)] = q
  BY <1>1, <1>10 DEF KeyStep, CreateToken, EvictToken, EvictPayment
<1>11. CASE UNCHANGED vars
  BY <1>1, <1>11 DEF vars
<1> QED
  BY <1>2, <1>3, <1>4, <1>5, <1>6, <1>7, <1>8, <1>9, <1>10, <1>11
  DEF Next, Serve, Disturb, KeyStep

\* All of which holds at first, and is kept by every step.
LEMMA InitCachesInv == Init => CachesInv
  BY InitWalletInv, InitTokenInv
  DEF CachesInv, TokenSafe, TokenKept, PaymentHeld, Init

LEMMA NextCachesInv == CachesInv /\ [Next]_vars => CachesInv'
  BY NextWalletInv, NextTokenInv, NextTokenKept, NextPaymentHeld
  DEF CachesInv, TokenSafe

\* So it is true of every behaviour.
LEMMA CachesInvariant == Spec => []CachesInv
  BY InitCachesInv, NextCachesInv, PTL DEF Spec

\* No two payments of a token commit at the same time.
LEMMA OneCommits ==
  ASSUME LedgerInv, NEW r \in Request, NEW q \in Request, KeyOf(q) = KeyOf(r)
  PROVE  /\ Holds(r) \/ pc[r] = "commitToken" => (Holds(q) \/ pc[q] = "commitToken" => q = r)
         /\ MidCommit(r) \/ pc[r] = "commitWallet" => (MidCommit(q) => q = r)
<1>1. TokenHeld /\ PaymentHeld
  BY DEF LedgerInv, TokenInv
<1> QED
  BY <1>1 DEF TokenHeld, PaymentHeld, Holds, MidCommit

\* What the ledger shows of a payment, if only one request at a time commits it.
Shown ==
  \A k \in Key :
    /\ \A r \in Request : KeyOf(r) = k /\ MidCommit(r) => Receipt(k) = r
    /\ (\A r \in Request : KeyOf(r) = k => ~MidCommit(r)) => Receipt(k) = payment[k]

\* Which the locks see to.
LEMMA OneShown == LedgerInv => Shown
<1> SUFFICES ASSUME LedgerInv, NEW k \in Key
             PROVE  /\ \A r \in Request : KeyOf(r) = k /\ MidCommit(r) => Receipt(k) = r
                    /\ (\A r \in Request : KeyOf(r) = k => ~MidCommit(r))
                         => Receipt(k) = payment[k]
  BY DEF Shown
<1>1. ASSUME NEW r \in Request, KeyOf(r) = k, MidCommit(r) PROVE Receipt(k) = r
  <2>1. \A q \in Request : KeyOf(q) = k /\ MidCommit(q) => q = r
    BY <1>1, OneCommits
  <2> QED
    BY <1>1, <2>1 DEF Receipt
<1>2. (\A r \in Request : KeyOf(r) = k => ~MidCommit(r)) => Receipt(k) = payment[k]
  BY DEF Receipt
<1> QED
  BY <1>1, <1>2

\* What the books of one token show, as the ledger's variables.
LEMMA OpenMaps ==
  ASSUME NEW k \in Key, NEW flag \in BOOLEAN, Open(k)' = flag,
         \A j \in Key \ {k} : Open(j)' = Open(j)
  PROVE  [j \in Key |-> Open(j)]' = [[j \in Key |-> Open(j)] EXCEPT ![k] = flag]
BY DEF Open

\* The same for its receipt.
LEMMA ReceiptMaps ==
  ASSUME NEW k \in Key, NEW r, Receipt(k)' = r,
         \A j \in Key \ {k} : Receipt(j)' = Receipt(j)
  PROVE  [j \in Key |-> Receipt(j)]' = [[j \in Key |-> Receipt(j)] EXCEPT ![k] = r]
OBVIOUS

\* And nothing shows where no token changes,
LEMMA OpenStays ==
  ASSUME \A j \in Key : Open(j)' = Open(j)
  PROVE  UNCHANGED [j \in Key |-> Open(j)]
OBVIOUS

\* nor where no receipt does.
LEMMA ReceiptStays ==
  ASSUME \A j \in Key : Receipt(j)' = Receipt(j)
  PROVE  UNCHANGED [j \in Key |-> Receipt(j)]
OBVIOUS

\* A token whose books are closed without a payment has expired.
LEMMA Expires ==
  ASSUME NEW k \in Key, balance' = balance, ~Open(k)',
         \A j \in Key : Receipt(j)' = Receipt(j),
         \A j \in Key \ {k} : Open(j)' = Open(j)
  PROVE  Ledger!Next
<1>1. Open(k)' = FALSE
  BY DEF Open
<1>2. [j \in Key |-> Open(j)]' = [[j \in Key |-> Open(j)] EXCEPT ![k] = FALSE]
  BY <1>1, OpenMaps
<1>3. UNCHANGED [j \in Key |-> Receipt(j)]
  BY ReceiptStays
<1>4. Ledger!Expire(k)
  BY <1>2, <1>3 DEF Ledger!Expire
<1> QED
  BY <1>4 DEF Ledger!Next, Ledger!Key, Key

\* What a step leaves open and what it leaves paid.
LEMMA OpenKept ==
  ASSUME TypeOK, [Next]_vars, NEW k \in Key, token'[k] = token[k],
         \A q \in Request : KeyOf(q) = k =>
           (Holds(q)' <=> Holds(q)) /\ (pc'[q] = "commitToken" <=> pc[q] = "commitToken")
  PROVE  Open(k)' = Open(k)
<1>1. \A q \in Request : KeyOf(q)' = KeyOf(q)
  BY ArgFixed
<1> QED
  BY <1>1 DEF Open, Between, Holds

\* The receipt, which the ledger shows from the commit of the wallet on.
LEMMA ReceiptKept ==
  ASSUME TypeOK, [Next]_vars, Shown, Shown', NEW k \in Key, payment'[k] = payment[k],
         \A q \in Request : KeyOf(q) = k => (MidCommit(q)' <=> MidCommit(q))
  PROVE  Receipt(k)' = Receipt(k)
<1>1. \A q \in Request : KeyOf(q)' = KeyOf(q)
  BY ArgFixed
<1>2. CASE \E q \in Request : KeyOf(q) = k /\ MidCommit(q)
  <2>1. PICK q \in Request : KeyOf(q) = k /\ MidCommit(q)
    BY <1>2
  <2>2. Receipt(k) = q
    BY <2>1 DEF Shown
  <2>3. Receipt(k)' = q
    BY <1>1, <2>1 DEF Shown
  <2> QED
    BY <2>2, <2>3
<1>3. CASE ~\E q \in Request : KeyOf(q) = k /\ MidCommit(q)
  <2>1. Receipt(k) = payment[k]
    BY <1>3 DEF Shown
  <2>2. Receipt(k)' = payment'[k]
    BY <1>1, <1>3 DEF Shown
  <2> QED
    BY <2>1, <2>2
<1> QED
  BY <1>2, <1>3

\* A step between states of which all of this is known.
Mapped == LedgerInv /\ Shown /\ Shown' /\ [Next]_vars

\* What no shopper can notice is nothing to the ledger,
LEMMA UnseenKeeps ==
  ASSUME Mapped, Unseen
  PROVE  UNCHANGED Ledger!vars
<1> USE DEF Mapped, LedgerInv
<1>1. \A k \in Key : Open(k)' = Open(k)
  BY OpenKept DEF Unseen, Phase
<1>2. \A k \in Key : Receipt(k)' = Receipt(k)
  BY ReceiptKept DEF Unseen, Phase, MidCommit
<1> QED
  BY <1>1, <1>2, OpenStays, ReceiptStays DEF Ledger!vars, Unseen

\* nor is it that a token passes the check of its version: it was UNUSED, and stays open.
LEMMA PrepareTokenKeeps ==
  ASSUME Mapped, NEW r \in Request, PrepareToken(r)
  PROVE  UNCHANGED Ledger!vars
<1> USE DEF Mapped, LedgerInv
<1>1. /\ pc[r] = "prepareToken" /\ pc'[r] \in {"preparePayment", "rollback"}
      /\ \A q \in Request \ {r} : pc'[q] = pc[q]
      /\ UNCHANGED <<balance, token, payment>>
      /\ tokenLock[KeyOf(r)] = NoRequest
      /\ pc'[r] = "preparePayment" => Unchanged(buf[r].tokenVer, tokenVer[KeyOf(r)])
  BY DEF PrepareToken, At, Goto, Catch, TypeOK, walletVars, paymentVars
<1>2. \A k \in Key : Receipt(k)' = Receipt(k)
  BY <1>1, ReceiptKept DEF MidCommit
<1>3. ASSUME NEW k \in Key PROVE Open(k)' = Open(k)
  <2>1. CASE KeyOf(r) = k /\ pc'[r] = "preparePayment"
    <3>1. token[k] = "UNUSED"
      BY <1>1, <2>1 DEF Unchanged, TokenInv, TokenAsRead
    <3>2. \A q \in Request : KeyOf(q) = k => pc[q] # "commitToken"
      BY <1>1, <2>1, GridAssumption DEF TokenInv, TokenHeld
    <3>3. Open(k)
      BY <3>1, <3>2 DEF Open, Between
    <3>4. Open(k)'
      BY <2>1, ArgFixed DEF Open, Between
    <3> QED
      BY <3>3, <3>4 DEF Open
  <2>2. CASE ~(KeyOf(r) = k /\ pc'[r] = "preparePayment")
    BY <1>1, <2>2, OpenKept DEF Holds
  <2> QED
    BY <2>1, <2>2
<1> QED
  BY <1>1, <1>2, <1>3, OpenStays, ReceiptStays DEF Ledger!vars

\* A payment given up after that leaves the token as it is: open, or gone if it was
\* evicted meanwhile.
LEMMA AbortExpires ==
  ASSUME Mapped, NEW r \in Request, Aborts(r)
  PROVE  [Ledger!Next]_(Ledger!vars)
<1> USE DEF Mapped, LedgerInv
<1>1. PICK k \in Key : k = KeyOf(r)
  BY ArgTypes
<1>2. \A j \in Key : Receipt(j)' = Receipt(j)
  BY ReceiptKept DEF Aborts, MidCommit
<1>3. \A j \in Key \ {k} : Open(j)' = Open(j)
  BY <1>1, OpenKept DEF Aborts, Holds
<1>4. CASE Open(k)'
  <2>1. Open(k)
    BY <1>1, <1>4, ArgFixed DEF Aborts, Open, Between, MidCommit
  <2>2. Open(k)' = Open(k)
    BY <1>4, <2>1 DEF Open
  <2>3. \A j \in Key : Open(j)' = Open(j)
    BY <1>3, <2>2
  <2> QED
    BY <1>2, <2>3, OpenStays, ReceiptStays DEF Ledger!vars, Aborts
<1>5. CASE ~Open(k)'
  BY <1>2, <1>3, <1>5, Expires DEF Aborts
<1> QED
  BY <1>4, <1>5

\* The grid and the ledger compute a payment in the same way.
LEMMA SameArithmetic ==
  \A money, auto, bill :
    /\ Ledger!Payable(money, auto, bill) <=> Payable(money, auto, bill)
    /\ Ledger!Left(money, auto, bill) = Left(money, auto, bill)
BY DEF Ledger!Payable, Payable, Ledger!Left, Left, Ledger!Charges, Charges,
       Ledger!CanPay, CanPay, Ledger!AutoChargeable, AutoChargeable

\* The commit of the wallet is the payment: what was read of it still holds, and nobody
\* else pays with the token.
LEMMA CommitWalletPays ==
  ASSUME Mapped, NEW r \in Request, CommitWallet(r)
  PROVE  Ledger!Next
<1> USE DEF Mapped, LedgerInv
<1>1. PICK k \in Key, amount \in Amount : k = KeyOf(r) /\ amount = AmountOf(r)
  BY ArgTypes DEF AmountOf, TypeOK
<1> DEFINE s == k[1]
           left == Left(balance[s], AutoCharge[s], amount)
<1>2. /\ pc[r] = "commitWallet" /\ pc'[r] = "commitToken"
      /\ \A q \in Request \ {r} : pc'[q] = pc[q]
      /\ UNCHANGED <<token, payment>>
  BY WalletCommitted
<1>3. /\ buf[r].balance = balance[s]
      /\ Payable(balance[s], AutoCharge[s], amount)
  BY <1>1, <1>2
  DEF BalanceHeld, Afforded, PastCharge, Payer, Owner
<1>4. balance' = [balance EXCEPT ![s] = left]
  BY <1>1, <1>3 DEF CommitWallet, Payer, Owner
<1> HIDE DEF left
<1>5. Open(k) /\ Open(k)' = FALSE
  <2>1. Open(k)
    BY <1>1, <1>2 DEF Open, Between
  <2>2. \A q \in Request \ {r} : KeyOf(q) = k => ~Holds(q)
    BY <1>1, <1>2, OneCommits DEF Holds
  <2>3. ~Open(k)'
    BY <1>1, <1>2, <2>2, ArgFixed DEF Open, Between, Holds
  <2> QED
    BY <2>1, <2>3 DEF Open
<1>6. \A j \in Key \ {k} : Open(j)' = Open(j) /\ Receipt(j)' = Receipt(j)
  <2> SUFFICES ASSUME NEW j \in Key \ {k}
               PROVE  Open(j)' = Open(j) /\ Receipt(j)' = Receipt(j)
    OBVIOUS
  <2>1. \A q \in Request : KeyOf(q) = j => pc'[q] = pc[q]
    BY <1>1, <1>2
  <2> QED
    BY <1>2, <2>1, OpenKept, ReceiptKept DEF Holds, MidCommit
<1>7. Receipt(k)' = r
  BY <1>1, <1>2, ArgFixed DEF Shown, MidCommit
<1>8. /\ [j \in Key |-> Open(j)]' = [[j \in Key |-> Open(j)] EXCEPT ![k] = FALSE]
      /\ [j \in Key |-> Receipt(j)]' = [[j \in Key |-> Receipt(j)] EXCEPT ![k] = r]
  BY <1>5, <1>6, <1>7, OpenMaps, ReceiptMaps
<1>9. Ledger!Pay(r, k, amount)
  BY <1>3, <1>4, <1>5, <1>8, SameArithmetic DEF Ledger!Pay, Ledger!Owner, left
<1> QED
  BY <1>9 DEF Ledger!Next, Ledger!Key, Key

\* The commits of the token and of the payment only write down what the ledger has
\* already.
LEMMA CommitTokenKeeps ==
  ASSUME Mapped, NEW r \in Request, CommitToken(r)
  PROVE  UNCHANGED Ledger!vars
<1> USE DEF Mapped, LedgerInv
<1>1. /\ pc[r] = "commitToken" /\ pc'[r] = "commitPayment"
      /\ token'[KeyOf(r)] = "USED"
      /\ \A q \in Request \ {r} : pc'[q] = pc[q]
      /\ \A k \in Key \ {KeyOf(r)} : token'[k] = token[k]
      /\ UNCHANGED payment
  BY TokenCommitted
<1>2. \A k \in Key : Receipt(k)' = Receipt(k)
  BY <1>1, ReceiptKept DEF MidCommit
<1>3. ASSUME NEW k \in Key PROVE Open(k)' = Open(k)
  <2>1. CASE KeyOf(r) = k
    <3>1. \A q \in Request : KeyOf(q) = k => ~Holds(q)
      BY <1>1, <2>1, OneCommits DEF Holds
    <3>2. ~Open(k)
      BY <1>1, <2>1, <3>1 DEF Open, Between, Holds
    <3>3. ~Open(k)'
      BY <1>1, <2>1, <3>1, ArgFixed DEF Open, Between, Holds
    <3> QED
      BY <3>2, <3>3 DEF Open
  <2>2. CASE KeyOf(r) # k
    <3>1. \A q \in Request : KeyOf(q) = k => pc'[q] = pc[q]
      BY <1>1, <2>2
    <3> QED
      BY <1>1, <2>2, <3>1, OpenKept DEF Holds
  <2> QED
    BY <2>1, <2>2
<1>4. balance' = balance
  BY DEF CommitToken, walletVars
<1> QED
  BY <1>2, <1>3, <1>4, OpenStays, ReceiptStays DEF Ledger!vars

\* For the payment, which the ledger showed since the wallet was committed.
LEMMA CommitPaymentKeeps ==
  ASSUME Mapped, NEW r \in Request, CommitPayment(r)
  PROVE  UNCHANGED Ledger!vars
<1> USE DEF Mapped, LedgerInv
<1>1. /\ pc[r] = "commitPayment" /\ pc'[r] = "load"
      /\ payment'[KeyOf(r)] = r
      /\ \A q \in Request \ {r} : pc'[q] = pc[q]
      /\ \A k \in Key \ {KeyOf(r)} : payment'[k] = payment[k]
      /\ UNCHANGED token
  BY PaymentCommitted
<1>2. \A k \in Key : Open(k)' = Open(k)
  BY <1>1, OpenKept DEF Holds
<1>3. ASSUME NEW k \in Key PROVE Receipt(k)' = Receipt(k)
  <2>1. CASE KeyOf(r) = k
    <3>1. \A q \in Request \ {r} : KeyOf(q) = k => ~MidCommit(q)
      BY <1>1, <2>1, OneCommits DEF MidCommit
    <3>2. Receipt(k) = r
      BY <1>1, <2>1 DEF Shown, MidCommit
    <3>3. Receipt(k)' = payment'[k]
      BY <1>1, <2>1, <3>1, ArgFixed DEF Shown, MidCommit
    <3> QED
      BY <1>1, <2>1, <3>2, <3>3
  <2>2. CASE KeyOf(r) # k
    <3>1. \A q \in Request : KeyOf(q) = k => pc'[q] = pc[q]
      BY <1>1, <2>2
    <3> QED
      BY <1>1, <2>2, <3>1, ReceiptKept DEF MidCommit
  <2> QED
    BY <2>1, <2>2
<1>4. balance' = balance
  BY DEF CommitPayment, walletVars
<1> QED
  BY <1>2, <1>3, <1>4, OpenStays, ReceiptStays DEF Ledger!vars

\* A token that is issued is open at once, as no payment of it is under way.
LEMMA CreateTokenIssues ==
  ASSUME Mapped, NEW k \in Key, CreateToken(k)
  PROVE  Ledger!Next
<1> USE DEF Mapped, LedgerInv
<1>1. /\ tokenLock[k] = NoRequest /\ token' = [token EXCEPT ![k] = "UNUSED"]
      /\ UNCHANGED <<balance, payment, pc>>
  BY DEF CreateToken, walletVars, paymentVars
<1>2. \A q \in Request : KeyOf(q) = k => pc[q] # "commitToken"
  BY <1>1, GridAssumption DEF TokenInv, TokenHeld
<1>3. Open(k)' = TRUE
  BY <1>1, <1>2, ArgFixed DEF Open, Between, TypeOK
<1>4. \A j \in Key \ {k} : Open(j)' = Open(j)
  BY <1>1, OpenKept DEF Holds, TypeOK
<1>5. \A j \in Key : Receipt(j)' = Receipt(j)
  BY <1>1, ReceiptKept DEF MidCommit
<1>6. [j \in Key |-> Open(j)]' = [[j \in Key |-> Open(j)] EXCEPT ![k] = TRUE]
  BY <1>3, <1>4, OpenMaps
<1>7. UNCHANGED [j \in Key |-> Receipt(j)]
  BY <1>5, ReceiptStays
<1>8. Ledger!Issue(k)
  BY <1>1, <1>6, <1>7 DEF Ledger!Issue
<1> QED
  BY <1>8 DEF Ledger!Next, Ledger!Key, Key

\* A token that is evicted has expired, unless it is locked by a payment, which goes on.
LEMMA EvictTokenExpires ==
  ASSUME Mapped, NEW k \in Key, EvictToken(k)
  PROVE  [Ledger!Next]_(Ledger!vars)
<1> USE DEF Mapped, LedgerInv
<1>1. token' = [token EXCEPT ![k] = Absent] /\ UNCHANGED <<balance, payment, pc>>
  BY DEF EvictToken, walletVars, paymentVars
<1>2. \A j \in Key \ {k} : Open(j)' = Open(j)
  BY <1>1, OpenKept DEF Holds, TypeOK
<1>3. \A j \in Key : Receipt(j)' = Receipt(j)
  BY <1>1, ReceiptKept DEF MidCommit
<1>4. CASE Open(k)'
  <2>1. Open(k)
    BY <1>1, <1>4, ArgFixed DEF Open, Between, TypeOK, Absent
  <2>2. \A j \in Key : Open(j)' = Open(j)
    BY <1>2, <1>4, <2>1 DEF Open
  <2> QED
    BY <1>1, <1>3, <2>2, OpenStays, ReceiptStays DEF Ledger!vars
<1>5. CASE ~Open(k)'
  BY <1>1, <1>2, <1>3, <1>5, Expires
<1> QED
  BY <1>4, <1>5

\* A payment that is evicted is forgotten, unless the next one is being written over it.
LEMMA EvictPaymentForgets ==
  ASSUME Mapped, NEW k \in Key, EvictPayment(k)
  PROVE  [Ledger!Next]_(Ledger!vars)
<1> USE DEF Mapped, LedgerInv
<1>1. payment' = [payment EXCEPT ![k] = NoRequest] /\ UNCHANGED <<balance, token, pc>>
  BY DEF EvictPayment, walletVars, tokenVars
<1>2. \A j \in Key : Open(j)' = Open(j)
  BY <1>1, OpenKept DEF Holds
<1>3. \A j \in Key \ {k} : Receipt(j)' = Receipt(j)
  BY <1>1, ReceiptKept DEF MidCommit, TypeOK
<1>4. CASE \E q \in Request : KeyOf(q) = k /\ MidCommit(q)
  <2>1. PICK q \in Request : KeyOf(q) = k /\ MidCommit(q)
    BY <1>4
  <2>2. Receipt(k) = q /\ Receipt(k)' = q
    BY <1>1, <2>1, ArgFixed DEF Shown, MidCommit
  <2>3. \A j \in Key : Receipt(j)' = Receipt(j)
    BY <1>3, <2>2
  <2> QED
    BY <1>1, <1>2, <2>3, OpenStays, ReceiptStays DEF Ledger!vars
<1>5. CASE ~\E q \in Request : KeyOf(q) = k /\ MidCommit(q)
  <2>1. Receipt(k)' = NoRequest
    BY <1>1, <1>5, ArgFixed DEF Shown, MidCommit, TypeOK
  <2>2. [j \in Key |-> Receipt(j)]' = [[j \in Key |-> Receipt(j)] EXCEPT ![k] = NoRequest]
    BY <1>3, <2>1, ReceiptMaps
  <2>3. UNCHANGED [j \in Key |-> Open(j)]
    BY <1>2, OpenStays
  <2>4. Ledger!Forget(k)
    BY <1>1, <2>2, <2>3 DEF Ledger!Forget
  <2> QED
    BY <2>4 DEF Ledger!Next, Ledger!Key, Key
<1> QED
  BY <1>4, <1>5

\* No token is open at first.
LEMMA InitLedger == Init => Ledger!Init
<1> SUFFICES ASSUME Init PROVE Ledger!Init
  OBVIOUS
<1>1. \A k \in Key : Open(k) = FALSE /\ Receipt(k) = NoRequest
  BY DEF Init, Open, Between, Receipt, MidCommit, Absent
<1> QED
  BY <1>1 DEF Init, Ledger!Init, Ledger!Key, Key

\* Every step between such states is one of the ledger, or tears a commit.
LEMMA LedgerStep ==
  ASSUME LedgerInv, LedgerInv', [Next]_vars
  PROVE  Torn \/ [Ledger!Next]_(Ledger!vars)
<1>1. LedgerInv' => Shown'
  BY OneShown, PTL
<1>2. Mapped
  BY <1>1, OneShown DEF Mapped
<1>3. TypeOK /\ [Next]_vars
  BY DEF LedgerInv
<1>4. ASSUME NEW r \in Request, PrepareToken(r) \/ Aborts(r) \/ Writes(r)
      PROVE  [Ledger!Next]_(Ledger!vars)
  BY <1>2, <1>4, PrepareTokenKeeps, AbortExpires, CommitWalletPays, CommitTokenKeeps,
     CommitPaymentKeeps DEF Writes
<1>5. ASSUME NEW k \in Key, KeyStep(k)
      PROVE  [Ledger!Next]_(Ledger!vars)
  BY <1>2, <1>5, CreateTokenIssues, EvictTokenExpires, EvictPaymentForgets DEF KeyStep
<1> QED
  BY <1>2, <1>3, <1>4, <1>5, LedgerSteps, UnseenKeeps

\* The grid implements the ledger, whatever is evicted, times out or crashes, but for the
\* very steps in which a node dies between two commits of a payment: the reads, checks,
\* locks, retries and the three commits of a payment amount to one indivisible payment,
\* and everything else to an issue, a loss, or nothing.
ImplementsButTorn == Ledger!Init /\ [][Torn \/ [Ledger!Next]_(Ledger!vars)]_vars

\* Whatever fails, only a torn commit goes beside the ledger.
THEOREM LedgerButTorn == Spec => ImplementsButTorn
<1>1. LedgerInv /\ LedgerInv' /\ [Next]_vars => [Torn \/ [Ledger!Next]_(Ledger!vars)]_vars
  BY LedgerStep
<1> QED
  BY <1>1, InitLedger, CachesInvariant, CachesLedger, PTL DEF Spec, ImplementsButTorn

\* Hence it implements the ledger without exception where no node dies.
THEOREM Implements ==
  ASSUME "crash" \notin FaultKinds
  PROVE  Spec => ImplementsLedger
<1>1. LedgerInv /\ LedgerInv' /\ [Next]_vars => [Ledger!Next]_(Ledger!vars)
  BY LedgerStep DEF Torn, OwnerLost, Fault
<1> QED
  BY <1>1, InitLedger, CachesInvariant, CachesLedger, PTL
  DEF Spec, ImplementsLedger, Ledger!Spec

-----------------------------------------------------------------------------
(* Waiting for locks.                                                      *)

\* The three caches are prepared one after the other, and a lock is given up by the
\* commit of its entry or by the rollback: who holds a lock is behind that prepare.
LocksInOrder ==
  /\ \A s \in Shopper : walletLock[s] # NoRequest =>
       /\ Payer(walletLock[s]) = s
       /\ pc[walletLock[s]] \in {"prepareToken", "preparePayment", "commitWallet", "rollback"}
  /\ \A k \in Key : tokenLock[k] # NoRequest =>
       /\ KeyOf(tokenLock[k]) = k
       /\ pc[tokenLock[k]] \in {"preparePayment", "commitWallet", "commitToken", "rollback"}
  /\ \A k \in Key : paymentLock[k] # NoRequest =>
       /\ KeyOf(paymentLock[k]) = k
       /\ pc[paymentLock[k]] \in {"commitWallet", "commitToken", "commitPayment", "rollback"}

\* Whom a request waits for.
WaitsFor(r, q) ==
  \/ At(r, "prepareWallet") /\ walletLock[Payer(r)] = q
  \/ At(r, "prepareToken") /\ tokenLock[KeyOf(r)] = q
  \/ At(r, "preparePayment") /\ paymentLock[KeyOf(r)] = q

\* How far a request has come in taking locks; whoever has taken them all gives them
\* up without waiting.
Progress(r) ==
  CASE pc[r] = "prepareToken" -> 1
    [] pc[r] = "preparePayment" -> 2
    [] pc[r] \in {"commitWallet", "commitToken", "commitPayment", "rollback"} -> 3
    [] OTHER -> 0

\* Whoever is waited for has come further than who waits, so that nobody waits in a
\* circle, and where somebody waits there is one who holds locks and goes on.
NoDeadlock ==
  /\ \A r, q \in Request : WaitsFor(r, q) => Progress(r) < Progress(q)
  /\ \A r \in Request : Waiting(r) =>
       \E q \in Request : Progress(q) > Progress(r) /\ ~Waiting(q)

LEMMA NextLocks == TypeOK /\ LocksInOrder /\ [Next]_vars => LocksInOrder'
<1> SUFFICES ASSUME TypeOK, LocksInOrder, [Next]_vars PROVE LocksInOrder'
  OBVIOUS
<1>1. arg' = arg
  BY ArgFixed
<1>2. /\ pc \in [Request -> Label]
      /\ walletLock \in [Shopper -> Request \cup {NoRequest}]
      /\ tokenLock \in [Key -> Request \cup {NoRequest}]
      /\ paymentLock \in [Key -> Request \cup {NoRequest}]
      /\ NoRequest \notin Request
  BY GridAssumption DEF TypeOK
<1>3. ASSUME NEW r \in Request
      PROVE  KeyOf(r) \in Key /\ Payer(r) \in Shopper
  BY ArgTypes
<1> USE DEF At, Goto, Catch, Answer, GiveUp, walletVars, tokenVars, paymentVars
<1>4. ASSUME UNCHANGED <<walletLock, tokenLock, paymentLock>>,
             NEW r \in Request, NEW label,
             \/ pc[r] \notin {"prepareToken", "preparePayment", "commitWallet", "commitToken",
                              "commitPayment", "rollback"}
             \/ label = "rollback",
             pc' = [pc EXCEPT ![r] = label]
      PROVE  LocksInOrder'
  <2>1. \A q \in Request : pc'[q] = pc[q] \/ (q = r /\ pc'[q] = label)
    BY <1>2, <1>4
  <2> QED
    BY <1>1, <1>2, <1>4, <2>1 DEF LocksInOrder, KeyOf, Payer
<1>5. ASSUME NEW r \in Request,
             \/ Submit(r) \/ Dispatch(r) \/ Begin(r) \/ LoadWallet(r) \/ LoadToken(r)
             \/ Charge(r) \/ LoadPayment(r) \/ Notify(r) \/ LockTimeout(r) \/ NotifyOverflow(r)
      PROVE  LocksInOrder'
  <2>1. UNCHANGED <<walletLock, tokenLock, paymentLock>>
    BY <1>5 DEF Submit, Dispatch, Begin, LoadWallet, LoadToken, Charge, LoadPayment, Notify,
                LockTimeout, NotifyOverflow
  <2>2. ASSUME LockTimeout(r) PROVE pc' = [pc EXCEPT ![r] = "rollback"]
    BY <2>2 DEF LockTimeout
  <2>3. ASSUME ~LockTimeout(r)
        PROVE  /\ pc[r] \in {"idle", "stream", "begin", "wallet", "token", "charge", "load",
                             "notify"}
               /\ \E label : pc' = [pc EXCEPT ![r] = label]
    BY <1>5, <2>3 DEF Submit, Dispatch, Begin, LoadWallet, LoadToken, Charge, LoadPayment,
                      Notify, NotifyOverflow
  <2> QED
    BY <1>4, <2>1, <2>2, <2>3
<1>6. ASSUME NEW r \in Request, PrepareWallet(r) \/ PrepareToken(r) \/ PreparePayment(r)
      PROVE  LocksInOrder'
  <2>1. \A q \in Request : q # r => pc'[q] = pc[q]
    BY <1>2, <1>6 DEF PrepareWallet, PrepareToken, PreparePayment
  <2>2. CASE PrepareWallet(r)
    <3>1. /\ pc[r] = "prepareWallet" /\ pc'[r] \in {"prepareToken", "rollback"}
          /\ walletLock' = [walletLock EXCEPT ![Payer(r)] = r]
          /\ UNCHANGED <<tokenLock, paymentLock>>
      BY <1>2, <2>2 DEF PrepareWallet
    <3>2. \A s \in Shopper : walletLock'[s] = walletLock[s] \/ (walletLock'[s] = r /\ s = Payer(r))
      BY <1>2, <1>3, <3>1
    <3> QED
      BY <1>1, <1>2, <2>1, <3>1, <3>2 DEF LocksInOrder, KeyOf, Payer
  <2>3. CASE PrepareToken(r)
    <3>1. /\ pc[r] = "prepareToken" /\ pc'[r] \in {"preparePayment", "rollback"}
          /\ tokenLock' = [tokenLock EXCEPT ![KeyOf(r)] = r]
          /\ UNCHANGED <<walletLock, paymentLock>>
      BY <1>2, <2>3 DEF PrepareToken
    <3>2. \A k \in Key : tokenLock'[k] = tokenLock[k] \/ (tokenLock'[k] = r /\ k = KeyOf(r))
      BY <1>2, <1>3, <3>1
    <3> QED
      BY <1>1, <1>2, <2>1, <3>1, <3>2 DEF LocksInOrder, KeyOf, Payer
  <2>4. CASE PreparePayment(r)
    <3>1. /\ pc[r] = "preparePayment" /\ pc'[r] \in {"commitWallet", "rollback"}
          /\ paymentLock' = [paymentLock EXCEPT ![KeyOf(r)] = r]
          /\ UNCHANGED <<walletLock, tokenLock>>
      BY <1>2, <2>4 DEF PreparePayment
    <3>2. \A k \in Key : paymentLock'[k] = paymentLock[k] \/ (paymentLock'[k] = r /\ k = KeyOf(r))
      BY <1>2, <1>3, <3>1
    <3> QED
      BY <1>1, <1>2, <2>1, <3>1, <3>2 DEF LocksInOrder, KeyOf, Payer
  <2> QED
    BY <1>6, <2>2, <2>3, <2>4
<1>7. ASSUME NEW r \in Request, CommitWallet(r) \/ CommitToken(r) \/ CommitPayment(r)
      PROVE  LocksInOrder'
  <2>1. \A q \in Request : q # r => pc'[q] = pc[q]
    BY <1>2, <1>7 DEF CommitWallet, CommitToken, CommitPayment
  <2>2. CASE CommitWallet(r)
    <3>1. /\ pc[r] = "commitWallet" /\ pc'[r] = "commitToken"
          /\ walletLock' = [walletLock EXCEPT ![Payer(r)] = NoRequest]
          /\ UNCHANGED <<tokenLock, paymentLock>>
      BY <1>2, <2>2 DEF CommitWallet
    <3>2. \A s \in Shopper : /\ s # Payer(r) => walletLock'[s] = walletLock[s]
                             /\ s = Payer(r) => walletLock'[s] = NoRequest
      BY <1>2, <1>3, <3>1
    <3> QED
      BY <1>1, <1>2, <2>1, <3>1, <3>2 DEF LocksInOrder, KeyOf, Payer
  <2>3. CASE CommitToken(r)
    <3>1. /\ pc[r] = "commitToken" /\ pc'[r] = "commitPayment"
          /\ tokenLock' = [tokenLock EXCEPT ![KeyOf(r)] = NoRequest]
          /\ UNCHANGED <<walletLock, paymentLock>>
      BY <1>2, <2>3 DEF CommitToken
    <3>2. \A k \in Key : /\ k # KeyOf(r) => tokenLock'[k] = tokenLock[k]
                         /\ k = KeyOf(r) => tokenLock'[k] = NoRequest
      BY <1>2, <1>3, <3>1
    <3> QED
      BY <1>1, <1>2, <2>1, <3>1, <3>2 DEF LocksInOrder, KeyOf, Payer
  <2>4. CASE CommitPayment(r)
    <3>1. /\ pc[r] = "commitPayment" /\ pc'[r] = "load"
          /\ paymentLock' = [paymentLock EXCEPT ![KeyOf(r)] = NoRequest]
          /\ UNCHANGED <<walletLock, tokenLock>>
      BY <1>2, <2>4 DEF CommitPayment
    <3>2. \A k \in Key : /\ k # KeyOf(r) => paymentLock'[k] = paymentLock[k]
                         /\ k = KeyOf(r) => paymentLock'[k] = NoRequest
      BY <1>2, <1>3, <3>1
    <3> QED
      BY <1>1, <1>2, <2>1, <3>1, <3>2 DEF LocksInOrder, KeyOf, Payer
  <2> QED
    BY <1>7, <2>2, <2>3, <2>4
<1>8. ASSUME NEW r \in Request, Rollback(r) \/ OwnerLost(r) PROVE LocksInOrder'
  <2>1. \A q \in Request : q # r => pc'[q] = pc[q]
    BY <1>8, Moves
  <2>2. /\ \A s \in Shopper : walletLock'[s] # r /\ walletLock'[s] \in {walletLock[s], NoRequest}
        /\ \A k \in Key : tokenLock'[k] # r /\ tokenLock'[k] \in {tokenLock[k], NoRequest}
        /\ \A k \in Key : paymentLock'[k] # r /\ paymentLock'[k] \in {paymentLock[k], NoRequest}
    BY <1>2, <1>8 DEF Rollback, OwnerLost, ReleaseLocks
  <2> QED
    BY <1>1, <1>2, <2>1, <2>2 DEF LocksInOrder, KeyOf, Payer
<1>9. ASSUME UNCHANGED <<pc, walletLock, tokenLock, paymentLock>> PROVE LocksInOrder'
  BY <1>1, <1>9 DEF LocksInOrder, KeyOf, Payer
<1>10. ASSUME NEW k \in Key, CreateToken(k) \/ EvictToken(k) \/ EvictPayment(k)
       PROVE  UNCHANGED <<pc, walletLock, tokenLock, paymentLock>>
  BY <1>10 DEF CreateToken, EvictToken, EvictPayment
<1>11. ASSUME UNCHANGED vars PROVE UNCHANGED <<pc, walletLock, tokenLock, paymentLock>>
  BY <1>11 DEF vars
<1> QED
  BY <1>5, <1>6, <1>7, <1>8, <1>9, <1>10, <1>11 DEF Next, Serve, Disturb

\* Who waits in this order, waits for one that comes before it to its end.
LEMMA NobodyInCircles == TypeOK /\ LocksInOrder => NoDeadlock
<1> SUFFICES ASSUME TypeOK, LocksInOrder PROVE NoDeadlock
  OBVIOUS
<1> USE DEF At
<1>1. \A r, q \in Request : WaitsFor(r, q) => Progress(r) < Progress(q)
  <2> SUFFICES ASSUME NEW r \in Request, NEW q \in Request, WaitsFor(r, q)
               PROVE  Progress(r) < Progress(q)
    OBVIOUS
  <2>1. KeyOf(r) \in Key /\ Payer(r) \in Shopper /\ q # NoRequest
    BY ArgTypes, GridAssumption
  <2> QED
    BY <2>1 DEF WaitsFor, Progress, LocksInOrder
<1>2. \A r \in Request : Waiting(r) => \E q \in Request : WaitsFor(r, q)
  <2> SUFFICES ASSUME NEW r \in Request, Waiting(r)
               PROVE  \E q \in Request : WaitsFor(r, q)
    OBVIOUS
  <2>1. KeyOf(r) \in Key /\ Payer(r) \in Shopper
    BY ArgTypes
  <2> QED
    BY <2>1 DEF Waiting, WaitsFor, TypeOK
<1>3. \A r \in Request : Progress(r) \in 0..3 /\ (Progress(r) = 3 => ~Waiting(r))
  BY DEF Progress, Waiting
<1> DEFINE Helped(r) == \E q \in Request : Progress(q) > Progress(r) /\ ~Waiting(q)
<1>4. ASSUME NEW r \in Request, Waiting(r),
             \A q \in Request : Progress(q) > Progress(r) /\ Waiting(q) => Helped(q)
      PROVE  Helped(r)
  <2>1. PICK q \in Request : Progress(r) < Progress(q)
    BY <1>1, <1>2, <1>4
  <2> QED
    BY <1>3, <1>4, <2>1
<1>5. \A r \in Request : Waiting(r) /\ Progress(r) = 2 => Helped(r)
  BY <1>3, <1>4
<1>6. \A r \in Request : Waiting(r) /\ Progress(r) = 1 => Helped(r)
  BY <1>3, <1>4, <1>5
<1>7. \A r \in Request : Waiting(r) /\ Progress(r) = 0 => Helped(r)
  BY <1>3, <1>4, <1>5, <1>6
<1> QED
  BY <1>1, <1>3, <1>5, <1>6, <1>7 DEF NoDeadlock

\* Locks are taken in one order by all, whatever fails: wallet, token, payment.
THEOREM LocksNeverDeadlock == Spec => []NoDeadlock
<1>1. Init => LocksInOrder
  BY DEF Init, LocksInOrder
<1> QED
  BY <1>1, NobodyInCircles, NextLocks, TypeCorrect, PTL DEF Spec

-----------------------------------------------------------------------------
(* Going on.                                                               *)

\* How far a request has come in its present try.
Place(label) ==
  CASE label = "idle" -> 0 [] label = "stream" -> 1 [] label = "begin" -> 2
    [] label = "wallet" -> 3 [] label = "token" -> 4 [] label = "charge" -> 5
    [] label = "prepareWallet" -> 6 [] label = "prepareToken" -> 7
    [] label = "preparePayment" -> 8 [] label = "commitWallet" -> 9
    [] label = "commitToken" -> 10 [] label = "commitPayment" -> 11
    [] label = "rollback" -> 12 [] label = "load" -> 13 [] label = "notify" -> 14
    [] OTHER -> 15

\* It comes further, or begins its next try.
GoesOn(r) ==
  \/ try'[r] = try[r] /\ Place(pc'[r]) > Place(pc[r])
  \/ pc[r] = "rollback" /\ pc'[r] = "begin" /\ try'[r] = try[r] + 1 /\ try[r] < MaxRetry

\* Nothing sends a request back to where it was in a try, or to an earlier try, but the
\* death of its node, and each step of the servers takes it further: between two faults
\* it makes no more than 16 * MaxRetry steps, and with NoDeadlock there is always one
\* that makes the next.
NoEndlessRetry ==
  [][\A r \in Request :
       /\ Serve(r) => GoesOn(r)
       /\ pc'[r] # pc[r] \/ try'[r] # try[r] => GoesOn(r) \/ OwnerLost(r)]_vars

\* What the servers do for a request takes this one further and moves no other.
LEMMA ServeGoesOn ==
  ASSUME TypeOK, NEW r \in Request, Serve(r)
  PROVE  /\ GoesOn(r)
         /\ \A q \in Request \ {r} : pc'[q] = pc[q] /\ try'[q] = try[q]
<1> USE DEF Goto, At, GoesOn, Place, Catch, Answer, taskVars
<1>1. pc \in [Request -> Label] /\ try \in [Request -> 1..MaxRetry] /\ MaxRetry \in Nat
  BY GridAssumption DEF TypeOK
<1>2. CASE Dispatch(r) \/ Begin(r) \/ LoadWallet(r)
  BY <1>1, <1>2 DEF Dispatch, Begin, LoadWallet
<1>3. CASE LoadToken(r) \/ Charge(r)
  BY <1>1, <1>3 DEF LoadToken, Charge
<1>4. CASE PrepareWallet(r) \/ PrepareToken(r) \/ PreparePayment(r)
  BY <1>1, <1>4 DEF PrepareWallet, PrepareToken, PreparePayment
<1>5. CASE CommitWallet(r) \/ CommitToken(r) \/ CommitPayment(r)
  BY <1>1, <1>5 DEF CommitWallet, CommitToken, CommitPayment
<1>6. CASE Rollback(r)
  BY <1>1, <1>6 DEF Rollback, MayRetry, GiveUp
<1>7. CASE LoadPayment(r) \/ Notify(r)
  BY <1>1, <1>7 DEF LoadPayment, Notify
<1> QED
  BY <1>2, <1>3, <1>4, <1>5, <1>6, <1>7 DEF Serve

\* A step that moves a request takes it further, unless its node dies.
Forward(r) ==
  /\ Serve(r) => GoesOn(r)
  /\ pc'[r] # pc[r] \/ try'[r] # try[r] => GoesOn(r) \/ OwnerLost(r)

LEMMA StepsForward ==
  ASSUME TypeOK, [Next]_vars, NEW r \in Request
  PROVE  Forward(r)
<1> SUFFICES ASSUME pc'[r] # pc[r] \/ try'[r] # try[r], ~Serve(r)
             PROVE  GoesOn(r) \/ OwnerLost(r)
  BY ServeGoesOn DEF Forward
<1>1. pc \in [Request -> Label] /\ try \in [Request -> 1..MaxRetry]
  BY DEF TypeOK
<1>2. ~ \E q \in Request : Serve(q)
  BY ServeGoesOn
<1>3. ASSUME NEW q \in Request, Submit(q) \/ LockTimeout(q) \/ NotifyOverflow(q)
      PROVE  GoesOn(r)
  BY <1>1, <1>3 DEF Submit, LockTimeout, NotifyOverflow, Waiting, GoesOn, Place, Goto, At,
                    Catch, Answer, taskVars
<1>4. ASSUME NEW q \in Request, OwnerLost(q) PROVE q = r
  BY <1>1, <1>4 DEF OwnerLost, Goto, Answer
<1>5. ~ \E k \in Key : CreateToken(k) \/ EvictToken(k) \/ EvictPayment(k)
  BY DEF CreateToken, EvictToken, EvictPayment, taskVars
<1>6. ~UNCHANGED vars
  BY DEF vars, taskVars
<1> QED
  BY <1>2, <1>3, <1>4, <1>5, <1>6 DEF Next, Disturb

\* There is no endless retry: every request comes to its answer after a bounded number of
\* steps, unless its node dies again and again.
THEOREM BoundedRetries == Spec => NoEndlessRetry
<1>1. TypeOK /\ [Next]_vars => [\A r \in Request : Forward(r)]_vars
  BY StepsForward
<1> QED
  BY <1>1, TypeCorrect, PTL DEF Spec, NoEndlessRetry, Forward
=============================================================================
