-------------------------- MODULE PaymentFlowProofs --------------------------
(***************************************************************************)
(* Proofs about PaymentFlow, for every number of requests, payments,       *)
(* pushes and deliveries.                                                  *)
(*                                                                         *)
(* PaidIsBacked and NoUnpaidJob are not inductive: a commit is safe only   *)
(* because of what its transaction read before (HoldersOK), that push is   *)
(* found only because it was created for a payment (PushRowsOK), and the   *)
(* paid prompt behind a confirmed payment is never sent a second time      *)
(* because a push belongs to one request (RequestsOK).                     *)
(***************************************************************************)
EXTENDS PaymentFlow, FiniteSetTheorems, TLAPS

\* A row that does not exist has no payment and no prompt; a push whose
\* checkout id is saved has a payment.
PushRowsOK ==
    \A s \in Pushes :
      /\ pushStatus[s] = "absent" => pushPay[s] = NoRow /\ prompt[s] = "none"
      /\ s \in known => pushPay[s] \in Payments

\* A request that pushes works on an existing payment; the push it creates is
\* its own until the provider has answered, and no prompt was sent for it.
RequestsOK ==
    \A r \in Requests :
      /\ pc[r] \in {"push", "createPush"} => mine[r] \in Payments
      /\ pc[r] \in {"daraja", "saveSent"} =>
           cur[r] \in Pushes /\ pushPay[cur[r]] \in Payments
      /\ pc[r] = "daraja" =>
           /\ prompt[cur[r]] = "none"
           /\ \A q \in Requests : q # r /\ pc[q] = "daraja" => cur[q] # cur[r]

\* A callback transaction between its reads and its commit: it holds its
\* payment, the customer has paid, and if it found no job then no payment it
\* could be about was confirmed.
HoldersOK ==
    \A s \in Pushes : cb[s] = "holding" =>
      /\ pushPay[s] \in Payments
      /\ payLock[pushPay[s]] = s
      /\ prompt[s] = "paid"
      /\ cbJob[s] <= jobs
      /\ cbJob[s] = NoRow => pushPay[s] \notin confirmed

IndInv ==
    /\ TypeOK
    /\ PushRowsOK
    /\ RequestsOK
    /\ HoldersOK
    /\ PaidIsBacked
    /\ NoUnpaidJob

-----------------------------------------------------------------------------
(***************************************************************************)
(* Type correctness.                                                       *)
(***************************************************************************)

LEMMA TypeInit == Init => TypeOK
BY PaymentFlowAssumption DEF Init, TypeOK, PC, PaymentStatus, PushStatus, PromptState, NoRow, Payments, Pushes

\* The variables CommitWith writes.
LEMMA CommitWithType ==
    ASSUME TypeOK, NEW r \in Requests, NEW p \in Payments, NEW st \in PaymentStatus,
           CommitWith(r, p, st)
    PROVE  /\ quote' \in {"sent", "accepted"}
           /\ quoteLock' \in SUBSET Requests
           /\ pc' \in [Requests -> PC]
           /\ thenPush' \in [Requests -> BOOLEAN]
           /\ mine' \in [Requests -> Payments \cup {NoRow}]
           /\ seen' \in [Requests -> PaymentStatus]
           /\ cur' \in [Requests -> Pushes \cup {NoRow}]
<1>1. quote' \in {"sent", "accepted"} /\ quoteLock' \in SUBSET Requests
  BY DEF CommitWith, TypeOK
<1>2. CASE thenPush[r]
  BY <1>1, <1>2 DEF CommitWith, TypeOK, PC
<1>3. CASE ~thenPush[r]
  BY <1>1, <1>3 DEF CommitWith, TypeOK, PC, Finish, PaymentStatus
<1>4. QED
  BY <1>2, <1>3

\* A post uses up one of those that are due.
LEMMA DeliveredType ==
    ASSUME TypeOK, NEW s \in Pushes, Delivered(s)
    PROVE  /\ deliveries' \in [Pushes -> 0..MaxDeliveries]
           /\ prompt' = prompt
<1>1. deliveries[s] - 1 \in 0..MaxDeliveries
  BY PaymentFlowAssumption DEF Delivered, TypeOK
<1>2. QED
  BY <1>1 DEF Delivered, TypeOK

\* A push whose answer is saved exists (RequestsOK), and so does the payment
\* a callback holds (HoldersOK).
LEMMA TypeStep == TypeOK /\ RequestsOK /\ HoldersOK /\ [Next]_vars => TypeOK'
<1> SUFFICES ASSUME TypeOK, RequestsOK, HoldersOK, [Next]_vars PROVE TypeOK'
  OBVIOUS
<1> USE PaymentFlowAssumption DEF TypeOK, NoRow, quoteVars, paymentVars, pushVars,
      phoneVars, cbVars, requestVars, Finish, GoTo
<1>1. ASSUME NEW r \in Requests, NEW push \in BOOLEAN, AcceptQuote(r, push)
      PROVE  TypeOK'
  BY <1>1 DEF AcceptQuote, PC
<1>2. ASSUME NEW r \in Requests, MarkAccepted(r) \/ ClientLinkPayment(r)
      PROVE  TypeOK'
  BY <1>2 DEF MarkAccepted, ClientLinkPayment, PC
<1>3. ASSUME NEW r \in Requests, NEW p \in Payments, PushExisting(r, p)
      PROVE  TypeOK'
  BY <1>3 DEF PushExisting, PC
<1>4. ASSUME NEW r \in Requests, CheckPaid(r)
      PROVE  TypeOK'
  BY <1>4 DEF CheckPaid, PC, PaymentStatus
<1>5. ASSUME NEW r \in Requests, LookupActive(r)
      PROVE  TypeOK'
  <2>1. CASE GoTo(r, "insert") /\ UNCHANGED quoteVars
    BY <1>5, <2>1 DEF LookupActive, PC
  <2>2. ASSUME NEW p \in Payments, CommitWith(r, p, payStatus[p])
        PROVE  TypeOK'
    <3>1. payStatus[p] \in PaymentStatus
      OBVIOUS
    <3>2. QED
      BY <1>5, <2>2, <3>1, CommitWithType DEF LookupActive
  <2>3. QED
    BY <1>5, <2>1, <2>2 DEF LookupActive
<1>6. ASSUME NEW r \in Requests, InsertPayment(r)
      PROVE  TypeOK'
  <2>1. PICK p \in Payments : /\ payStatus' = [payStatus EXCEPT ![p] = "pending"]
                              /\ CommitWith(r, p, "pending")
    BY <1>6 DEF InsertPayment
  <2>2. "pending" \in PaymentStatus
    BY DEF PaymentStatus
  <2>3. QED
    BY <1>6, <2>1, <2>2, CommitWithType DEF InsertPayment
<1>7. ASSUME NEW r \in Requests, PushCheck(r)
      PROVE  TypeOK'
  BY <1>7 DEF PushCheck, PC, PaymentStatus
<1>8. ASSUME NEW r \in Requests, MarkProcessing(r) \/ ResetPending(r)
      PROVE  TypeOK'
  BY <1>8 DEF MarkProcessing, ResetPending, SaveStatus, PC, PaymentStatus
<1>9. ASSUME NEW r \in Requests, CreatePush(r)
      PROVE  TypeOK'
  BY <1>9 DEF CreatePush, PC, PushStatus
<1>10. ASSUME NEW r \in Requests, CallDaraja(r)
       PROVE  TypeOK'
  BY <1>10 DEF CallDaraja, PC, PromptState
<1>11. ASSUME NEW r \in Requests, SaveSent(r)
       PROVE  TypeOK'
  <2>1. cur[r] \in Pushes
    BY <1>11 DEF SaveSent, RequestsOK
  <2>2. QED
    BY <1>11, <2>1 DEF SaveSent, PC, PushStatus
<1>12. ASSUME NEW r \in Requests, SaveFailed(r)
       PROVE  TypeOK'
  <2>1. pushStatus' \in [Pushes -> PushStatus]
    BY <1>12 DEF SaveFailed, PushStatus
  <2>2. CASE Finish(r)
    BY <1>12, <2>1, <2>2 DEF SaveFailed, PC, PaymentStatus
  <2>3. CASE GoTo(r, "reset")
    BY <1>12, <2>1, <2>3 DEF SaveFailed, PC
  <2>4. QED
    BY <1>12, <2>2, <2>3 DEF SaveFailed
<1>13. ASSUME NEW r \in Requests, Die(r)
       PROVE  TypeOK'
  BY <1>13 DEF Die, PC, PaymentStatus
<1>14. ASSUME NEW s \in Pushes, CustomerAnswers(s)
       PROVE  TypeOK'
  BY <1>14 DEF CustomerAnswers, PromptState
<1>15. ASSUME NEW s \in Pushes, CallbackUnknown(s) \/ CallbackFailure(s) \/ CallbackRepeat(s)
       PROVE  TypeOK'
  <2>1. /\ deliveries' \in [Pushes -> 0..MaxDeliveries]
        /\ prompt' = prompt
    BY <1>15, DeliveredType DEF CallbackUnknown, CallbackFailure, CallbackRepeat
  <2>2. CASE CallbackUnknown(s)
    BY <2>1, <2>2 DEF CallbackUnknown
  <2>3. CASE CallbackFailure(s)
    <3>1. pushStatus' \in [Pushes -> PushStatus]
      BY <2>3 DEF CallbackFailure, PushStatus
    <3>2. payStatus' \in [Payments -> PaymentStatus]
      BY <2>3 DEF CallbackFailure, PaymentStatus
    <3>3. QED
      BY <2>1, <2>3, <3>1, <3>2 DEF CallbackFailure
  <2>4. CASE CallbackRepeat(s)
    BY <2>1, <2>4 DEF CallbackRepeat, PushStatus
  <2>5. QED
    BY <1>15, <2>2, <2>3, <2>4
<1>16. ASSUME NEW s \in Pushes, CallbackSuccess(s)
       PROVE  TypeOK'
  BY <1>16, DeliveredType DEF CallbackSuccess
<1>17. ASSUME NEW s \in Pushes, CallbackCommit(s)
       PROVE  TypeOK'
  <2>1. pushStatus' \in [Pushes -> PushStatus] /\ payStatus' \in [Payments -> PaymentStatus]
    BY <1>17 DEF CallbackCommit, PushStatus, PaymentStatus
  <2>2. confirmed' \in SUBSET Payments
    BY <1>17 DEF CallbackCommit, HoldersOK
  <2>3. jobs' \in Nat /\ payJob' \in [Payments -> Nat]
    <3> DEFINE job == IF cbJob[s] = NoRow THEN jobs + 1 ELSE cbJob[s]
    <3>1. job \in Nat
      BY DEF NoRow
    <3>2. /\ payJob' = [payJob EXCEPT ![pushPay[s]] = job]
          /\ jobs' = IF cbJob[s] = NoRow THEN job ELSE jobs
      BY <1>17 DEF CallbackCommit
    <3> HIDE DEF job
    <3>3. QED
      BY <3>1, <3>2
  <2>4. QED
    BY <1>17, <2>1, <2>2, <2>3 DEF CallbackCommit, EndCallback
<1>18. ASSUME NEW s \in Pushes, CallbackAbort(s)
       PROVE  TypeOK'
  BY <1>18 DEF CallbackAbort, EndCallback
<1>19. CASE UNCHANGED vars
  BY <1>19 DEF vars
<1>20. QED
  BY <1>1, <1>2, <1>3, <1>4, <1>5, <1>6, <1>7, <1>8, <1>9, <1>10, <1>11, <1>12,
     <1>13, <1>14, <1>15, <1>16, <1>17, <1>18, <1>19
     DEF Next, RequestStep, CallbackStep, BreakDeadlock

-----------------------------------------------------------------------------
(***************************************************************************)
(* The inductive invariant.                                                *)
(***************************************************************************)

LEMMA IndInit == Init => IndInv
<1> SUFFICES ASSUME Init PROVE IndInv
  OBVIOUS
<1>1. TypeOK
  BY TypeInit
<1>2. PushRowsOK /\ RequestsOK /\ HoldersOK /\ PaidIsBacked
  BY DEF Init, PushRowsOK, RequestsOK, HoldersOK, PaidIsBacked
<1>3. NoUnpaidJob
  BY FS_EmptySet DEF Init, NoUnpaidJob
<1>4. QED
  BY <1>1, <1>2, <1>3 DEF IndInv

\* Only CreatePush, SaveSent, CallDaraja and CustomerAnswers touch what
\* PushRowsOK speaks of.
LEMMA PushRowsStep == IndInv /\ [Next]_vars => PushRowsOK'
<1> SUFFICES ASSUME IndInv, [Next]_vars PROVE PushRowsOK'
  OBVIOUS
<1> USE DEF IndInv, TypeOK, PushRowsOK, NoRow
<1>1. ASSUME NEW r \in Requests, CreatePush(r)
      PROVE  PushRowsOK'
  <2>1. mine[r] \in Payments
    BY <1>1 DEF CreatePush, RequestsOK
  <2>2. QED
    BY <1>1, <2>1 DEF CreatePush, phoneVars, GoTo
<1>2. ASSUME NEW r \in Requests, CallDaraja(r)
      PROVE  PushRowsOK'
  <2>1. cur[r] \in Pushes /\ pushStatus[cur[r]] # "absent"
    BY <1>2 DEF CallDaraja, RequestsOK, Payments
  <2>2. QED
    BY <1>2, <2>1 DEF CallDaraja, pushVars
<1>3. ASSUME NEW r \in Requests, SaveSent(r)
      PROVE  PushRowsOK'
  <2>1. cur[r] \in Pushes /\ pushPay[cur[r]] \in Payments
    BY <1>3 DEF SaveSent, RequestsOK
  <2>2. QED
    BY <1>3, <2>1 DEF SaveSent, phoneVars
<1>4. ASSUME NEW r \in Requests, SaveFailed(r)
      PROVE  PushRowsOK'
  BY <1>4 DEF SaveFailed, phoneVars
<1>5. ASSUME NEW s \in Pushes, CustomerAnswers(s)
      PROVE  PushRowsOK'
  BY <1>5 DEF CustomerAnswers, pushVars
<1>6. ASSUME NEW s \in Pushes,
             CallbackFailure(s) \/ CallbackRepeat(s) \/ CallbackCommit(s)
      PROVE  PushRowsOK'
  <2>1. /\ pushPay' = pushPay /\ known' = known /\ prompt' = prompt
        /\ \A t \in Pushes : pushStatus'[t] = pushStatus[t] \/ pushStatus'[t] # "absent"
    BY <1>6 DEF CallbackFailure, CallbackRepeat, CallbackCommit, Delivered, phoneVars
  <2>2. QED
    BY <2>1
<1>7. ASSUME UNCHANGED pushVars, UNCHANGED prompt
      PROVE  PushRowsOK'
  BY <1>7 DEF pushVars
<1>8. QED
  BY <1>1, <1>2, <1>3, <1>4, <1>5, <1>6, <1>7
     DEF Next, RequestStep, CallbackStep, BreakDeadlock, vars, phoneVars, pushVars,
         AcceptQuote, MarkAccepted, ClientLinkPayment, PushExisting, CheckPaid,
         LookupActive, InsertPayment, PushCheck, MarkProcessing, ResetPending, Die,
         CallbackUnknown, CallbackSuccess, CallbackAbort, Delivered

\* A request that leaves the pushing states, or stays out of them, keeps
\* RequestsOK as long as no push is written.
LEMMA RequestsFrame ==
    ASSUME RequestsOK, NEW r \in Requests,
           \A q \in Requests : q # r => /\ pc'[q] = pc[q]
                                       /\ mine'[q] = mine[q]
                                       /\ cur'[q] = cur[q],
           pc'[r] \notin {"push", "createPush", "daraja", "saveSent"},
           pushPay' = pushPay, prompt' = prompt
    PROVE  RequestsOK'
BY DEF RequestsOK, Payments, Pushes

\* The same for a request that begins to push an existing payment.
LEMMA RequestsEnter ==
    ASSUME RequestsOK, NEW r \in Requests,
           \A q \in Requests : q # r => /\ pc'[q] = pc[q]
                                       /\ mine'[q] = mine[q]
                                       /\ cur'[q] = cur[q],
           pc'[r] \in {"push", "createPush"}, mine'[r] \in Payments,
           pushPay' = pushPay, prompt' = prompt
    PROVE  RequestsOK'
BY DEF RequestsOK, Payments, Pushes

LEMMA RequestsStep == IndInv /\ [Next]_vars => RequestsOK'
<1> SUFFICES ASSUME IndInv, [Next]_vars PROVE RequestsOK'
  OBVIOUS
<1> USE DEF IndInv, TypeOK
<1>1. ASSUME NEW r \in Requests,
             \/ \E push \in BOOLEAN : AcceptQuote(r, push)
             \/ MarkAccepted(r) \/ ClientLinkPayment(r) \/ CheckPaid(r)
             \/ MarkProcessing(r) \/ SaveSent(r) \/ SaveFailed(r) \/ ResetPending(r)
             \/ Die(r)
      PROVE  RequestsOK'
  <2>1. /\ \A q \in Requests : q # r => /\ pc'[q] = pc[q]
                                        /\ mine'[q] = mine[q]
                                        /\ cur'[q] = cur[q]
        /\ pc'[r] \notin {"push", "createPush", "daraja", "saveSent"}
        /\ pushPay' = pushPay /\ prompt' = prompt
    BY <1>1 DEF AcceptQuote, MarkAccepted, ClientLinkPayment, CheckPaid, MarkProcessing,
         SaveSent, SaveFailed, ResetPending, Die, SaveStatus, Finish, GoTo, pushVars, phoneVars
  <2>2. QED
    BY <2>1, RequestsFrame
<1>2. ASSUME NEW r \in Requests, NEW p \in Payments, NEW st, CommitWith(r, p, st),
             pushPay' = pushPay, prompt' = prompt
      PROVE  RequestsOK'
  <2>1. CASE thenPush[r]
    BY <1>2, <2>1, RequestsEnter DEF CommitWith
  <2>2. CASE ~thenPush[r]
    BY <1>2, <2>2, RequestsFrame DEF CommitWith, Finish
  <2>3. QED
    BY <2>1, <2>2
<1>3. ASSUME NEW r \in Requests, LookupActive(r)
      PROVE  RequestsOK'
  <2>1. CASE GoTo(r, "insert")
    BY <1>3, <2>1, RequestsFrame DEF LookupActive, GoTo, pushVars, phoneVars
  <2>2. QED
    BY <1>2, <1>3, <2>1 DEF LookupActive, pushVars, phoneVars
<1>4. ASSUME NEW r \in Requests, InsertPayment(r)
      PROVE  RequestsOK'
  BY <1>2, <1>4 DEF InsertPayment, pushVars, phoneVars
<1>5. ASSUME NEW r \in Requests, NEW p \in Payments, PushExisting(r, p)
      PROVE  RequestsOK'
  BY <1>5, RequestsEnter DEF PushExisting, pushVars, phoneVars
<1>6. ASSUME NEW r \in Requests, PushCheck(r)
      PROVE  RequestsOK'
  <2>1. CASE GoTo(r, "createPush")
    <3>1. mine[r] \in Payments
      BY <1>6 DEF PushCheck, RequestsOK
    <3>2. QED
      BY <1>6, <2>1, <3>1, RequestsEnter DEF PushCheck, GoTo, pushVars, phoneVars
  <2>2. CASE pc'[r] \in {"idle", "reuse"}
    BY <1>6, <2>2, RequestsFrame DEF PushCheck, Finish, GoTo, pushVars, phoneVars
  <2>3. QED
    BY <1>6, <2>1, <2>2 DEF PushCheck, Finish
<1>7. ASSUME NEW r \in Requests, CreatePush(r)
      PROVE  RequestsOK'
  <2>1. mine[r] \in Payments
    BY <1>7 DEF CreatePush, RequestsOK
  <2>2. PICK s \in Pushes : /\ IsNextKey(s, pushStatus, Pushes)
                            /\ pushPay' = [pushPay EXCEPT ![s] = mine[r]]
                            /\ cur' = [cur EXCEPT ![r] = s]
    BY <1>7 DEF CreatePush
  <2>3. pushPay[s] = NoRow /\ prompt[s] = "none"
    BY <2>2 DEF IsNextKey, PushRowsOK
  <2>4. \A q \in Requests : pc[q] \in {"daraja", "saveSent"} => cur[q] # s
    BY <2>3 DEF RequestsOK, NoRow, Payments
  <2>5. pc' = [pc EXCEPT ![r] = "daraja"] /\ mine' = mine /\ prompt' = prompt
    BY <1>7 DEF CreatePush, phoneVars
  <2>6. QED
    BY <2>1, <2>2, <2>3, <2>4, <2>5 DEF RequestsOK
<1>8. ASSUME NEW r \in Requests, CallDaraja(r)
      PROVE  RequestsOK'
  BY <1>8 DEF CallDaraja, GoTo, RequestsOK, pushVars
<1>9. ASSUME NEW s \in Pushes, CustomerAnswers(s)
      PROVE  RequestsOK'
  BY <1>9 DEF CustomerAnswers, RequestsOK, requestVars, pushVars
<1>10. ASSUME UNCHANGED requestVars, UNCHANGED pushPay, UNCHANGED prompt
       PROVE  RequestsOK'
  BY <1>10 DEF RequestsOK, requestVars
<1>11. QED
  BY <1>1, <1>3, <1>4, <1>5, <1>6, <1>7, <1>8, <1>9, <1>10
     DEF Next, RequestStep, CallbackStep, BreakDeadlock, vars, phoneVars, pushVars,
         CallbackUnknown, CallbackFailure, CallbackRepeat, CallbackSuccess,
         CallbackCommit, CallbackAbort, Delivered

LEMMA HoldersStep == IndInv /\ [Next]_vars => HoldersOK'
<1> SUFFICES ASSUME IndInv, [Next]_vars PROVE HoldersOK'
  OBVIOUS
<1> USE DEF IndInv, TypeOK, HoldersOK
<1>1. ASSUME NEW r \in Requests, CreatePush(r)
      PROVE  HoldersOK'
  <2>1. PICK s \in Pushes : /\ IsNextKey(s, pushStatus, Pushes)
                            /\ pushPay' = [pushPay EXCEPT ![s] = mine[r]]
    BY <1>1 DEF CreatePush
  <2>2. cb[s] # "holding"
    BY <2>1 DEF IsNextKey, PushRowsOK
  <2>3. QED
    BY <1>1, <2>1, <2>2 DEF CreatePush, paymentVars, phoneVars, cbVars
<1>2. ASSUME NEW r \in Requests, CallDaraja(r)
      PROVE  HoldersOK'
  <2>1. \A s \in Pushes : prompt[s] = "paid" => prompt'[s] = "paid"
    BY <1>2 DEF CallDaraja, RequestsOK
  <2>2. QED
    BY <1>2, <2>1 DEF CallDaraja, paymentVars, pushVars, cbVars
<1>3. ASSUME NEW s \in Pushes, CustomerAnswers(s)
      PROVE  HoldersOK'
  <2>1. \A t \in Pushes : prompt[t] = "paid" => prompt'[t] = "paid"
    BY <1>3 DEF CustomerAnswers
  <2>2. QED
    BY <1>3, <2>1 DEF CustomerAnswers, paymentVars, pushVars, cbVars
<1>4. ASSUME NEW s \in Pushes, CallbackSuccess(s)
      PROVE  HoldersOK'
  <2>1. /\ pushPay[s] \in Payments /\ payLock[pushPay[s]] = NoRow
        /\ cb[s] = "idle" /\ prompt[s] = "paid"
    BY <1>4 DEF CallbackSuccess, Found, PushRowsOK
  <2>2. jobs = NoRow => pushPay[s] \notin confirmed
    BY <2>1 DEF PaidIsBacked, NoRow
  <2>3. \A t \in Pushes : cb[t] = "holding" => pushPay[t] # pushPay[s]
    BY <2>1 DEF NoRow, Pushes
  <2>4. /\ payLock' = [payLock EXCEPT ![pushPay[s]] = s]
        /\ cb' = [cb EXCEPT ![s] = "holding"] /\ cbJob' = [cbJob EXCEPT ![s] = jobs]
        /\ UNCHANGED <<pushPay, prompt, jobs, confirmed>>
    BY <1>4 DEF CallbackSuccess, Delivered, pushVars
  <2>5. QED
    BY <2>1, <2>2, <2>3, <2>4
<1>5. ASSUME NEW s \in Pushes, cb[s] = "holding", EndCallback(s),
             UNCHANGED <<pushPay, prompt>>, jobs' >= jobs, jobs' \in Nat,
             confirmed' \subseteq confirmed \cup {pushPay[s]}
      PROVE  HoldersOK'
  <2>1. \A t \in Pushes : cb'[t] = "holding" => t # s /\ cb[t] = "holding"
    BY <1>5 DEF EndCallback
  <2>2. \A t \in Pushes : cb'[t] = "holding" =>
          /\ pushPay[t] # pushPay[s]
          /\ payLock'[pushPay[t]] = payLock[pushPay[t]]
          /\ cbJob'[t] = cbJob[t]
    BY <1>5, <2>1 DEF EndCallback
  <2>3. QED
    BY <1>5, <2>1, <2>2
<1>6. ASSUME NEW s \in Pushes, CallbackCommit(s)
      PROVE  HoldersOK'
  <2>1. jobs' >= jobs /\ jobs' \in Nat
    BY <1>6 DEF CallbackCommit
  <2>2. QED
    BY <1>5, <1>6, <2>1 DEF CallbackCommit, phoneVars
<1>7. ASSUME NEW s \in Pushes, CallbackAbort(s)
      PROVE  HoldersOK'
  BY <1>5, <1>7 DEF CallbackAbort, pushVars, phoneVars
<1>8. ASSUME UNCHANGED <<cb, cbJob, payLock, jobs, confirmed, pushPay, prompt>>
      PROVE  HoldersOK'
  BY <1>8
<1>9. QED
  BY <1>1, <1>2, <1>3, <1>4, <1>6, <1>7, <1>8
     DEF Next, RequestStep, CallbackStep, BreakDeadlock, vars, paymentVars, pushVars,
         phoneVars, cbVars, AcceptQuote, MarkAccepted, ClientLinkPayment, PushExisting,
         CheckPaid, LookupActive, InsertPayment, PushCheck, MarkProcessing, SaveSent,
         SaveFailed, ResetPending, SaveStatus, Die, CallbackUnknown, CallbackFailure,
         CallbackRepeat, Delivered

LEMMA PaidStep == IndInv /\ [Next]_vars => PaidIsBacked'
<1> SUFFICES ASSUME IndInv, [Next]_vars PROVE PaidIsBacked'
  OBVIOUS
<1> USE DEF IndInv, TypeOK
<1>1. ASSUME \A p \in Payments : payStatus'[p] = "paid" => payStatus[p] = "paid",
             \A s \in Pushes : prompt[s] = "paid" =>
                prompt'[s] = "paid" /\ pushPay'[s] = pushPay[s],
             UNCHANGED <<confirmed, payJob, jobs>>
      PROVE  PaidIsBacked'
  BY <1>1 DEF PaidIsBacked
<1>2. ASSUME NEW r \in Requests,
             InsertPayment(r) \/ MarkProcessing(r) \/ ResetPending(r)
      PROVE  PaidIsBacked'
  BY <1>1, <1>2 DEF InsertPayment, MarkProcessing, ResetPending, SaveStatus, pushVars, phoneVars
<1>3. ASSUME NEW r \in Requests, CreatePush(r)
      PROVE  PaidIsBacked'
  BY <1>1, <1>3 DEF CreatePush, IsNextKey, PushRowsOK, paymentVars, phoneVars
<1>4. ASSUME NEW r \in Requests, CallDaraja(r)
      PROVE  PaidIsBacked'
  BY <1>1, <1>4 DEF CallDaraja, RequestsOK, paymentVars, pushVars
<1>5. ASSUME NEW s \in Pushes, CustomerAnswers(s)
      PROVE  PaidIsBacked'
  BY <1>1, <1>5 DEF CustomerAnswers, paymentVars, pushVars
<1>6. ASSUME NEW s \in Pushes, CallbackFailure(s)
      PROVE  PaidIsBacked'
  BY <1>1, <1>6 DEF CallbackFailure, Delivered
<1>7. ASSUME NEW s \in Pushes, CallbackCommit(s)
      PROVE  PaidIsBacked'
  <2>1. pushPay[s] \in Payments /\ prompt[s] = "paid" /\ cbJob[s] <= jobs
    BY <1>7 DEF CallbackCommit, HoldersOK
  <2>2. /\ jobs' \in Nat /\ jobs' >= jobs
        /\ payJob'[pushPay[s]] \in 1..jobs'
        /\ \A p \in Payments : p # pushPay[s] => payJob'[p] = payJob[p]
    BY <1>7, <2>1 DEF CallbackCommit, NoRow
  <2>3. /\ UNCHANGED <<pushPay, prompt>>
        /\ confirmed' = confirmed \cup {pushPay[s]}
        /\ \A p \in Payments : p # pushPay[s] => payStatus'[p] = payStatus[p]
    BY <1>7 DEF CallbackCommit, phoneVars
  <2>4. QED
    BY <2>1, <2>2, <2>3 DEF PaidIsBacked
<1>8. ASSUME UNCHANGED <<payStatus, confirmed, payJob, jobs, prompt, pushPay>>
      PROVE  PaidIsBacked'
  BY <1>1, <1>8
<1>9. QED
  BY <1>2, <1>3, <1>4, <1>5, <1>6, <1>7, <1>8
     DEF Next, RequestStep, CallbackStep, BreakDeadlock, vars, paymentVars, pushVars,
         phoneVars, AcceptQuote, MarkAccepted, ClientLinkPayment, PushExisting,
         CheckPaid, LookupActive, PushCheck, SaveSent, SaveFailed, Die,
         CallbackUnknown, CallbackRepeat, CallbackSuccess, CallbackAbort, Delivered

LEMMA JobsStep == IndInv /\ [Next]_vars => NoUnpaidJob'
<1> SUFFICES ASSUME IndInv, [Next]_vars PROVE NoUnpaidJob'
  OBVIOUS
<1> USE DEF IndInv, TypeOK, NoUnpaidJob
<1>1. IsFiniteSet(confirmed) /\ Cardinality(confirmed) \in Nat
  <2>1. IsFiniteSet(Payments)
    BY FS_Interval, PaymentFlowAssumption DEF Payments
  <2>2. QED
    BY <2>1, FS_Subset, FS_CardinalityType
<1>2. ASSUME NEW s \in Pushes, CallbackCommit(s)
      PROVE  NoUnpaidJob'
  <2>1. confirmed' = confirmed \cup {pushPay[s]}
    BY <1>2 DEF CallbackCommit
  <2>2. CASE pushPay[s] \in confirmed
    <3>1. confirmed' = confirmed /\ jobs' = jobs
      BY <1>2, <2>1, <2>2 DEF CallbackCommit, HoldersOK
    <3>2. QED
      BY <3>1
  <2>3. CASE pushPay[s] \notin confirmed
    <3>1. Cardinality(confirmed') = Cardinality(confirmed) + 1
      BY <1>1, <2>1, <2>3, FS_AddElement
    <3>2. jobs' <= jobs + 1
      BY <1>2 DEF CallbackCommit, NoRow
    <3>3. jobs' \in Nat
      BY <1>2 DEF CallbackCommit
    <3>4. QED
      BY <1>1, <3>1, <3>2, <3>3
  <2>4. QED
    BY <2>2, <2>3
<1>3. ASSUME UNCHANGED <<jobs, confirmed>>
      PROVE  NoUnpaidJob'
  BY <1>3
<1>4. QED
  BY <1>2, <1>3
     DEF Next, RequestStep, CallbackStep, BreakDeadlock, vars, paymentVars,
         AcceptQuote, MarkAccepted, ClientLinkPayment, PushExisting, CheckPaid,
         LookupActive, InsertPayment, PushCheck, MarkProcessing, CreatePush, CallDaraja,
         SaveSent, SaveFailed, ResetPending, SaveStatus, Die, CustomerAnswers,
         CallbackUnknown, CallbackFailure, CallbackRepeat, CallbackSuccess, CallbackAbort

LEMMA IndStep == IndInv /\ [Next]_vars => IndInv'
<1>1. IndInv => TypeOK /\ RequestsOK /\ HoldersOK
  BY DEF IndInv
<1>2. QED
  BY <1>1, TypeStep, PushRowsStep, RequestsStep, HoldersStep, PaidStep, JobsStep DEF IndInv

-----------------------------------------------------------------------------
\* Every variable keeps its type.
THEOREM TypeCorrect == Spec => []TypeOK
<1>1. IndInv => TypeOK
  BY DEF IndInv
<1>2. QED
  BY IndInit, IndStep, <1>1, PTL DEF Spec

\* Payments are PAID only on the provider's word and then have their job, and
\* the callbacks never create more jobs than there are confirmed payments.
THEOREM MoneyBacksJobsAlways == Spec => []MoneyBacksJobs
<1>1. IndInv => MoneyBacksJobs
  BY DEF IndInv, MoneyBacksJobs
<1>2. QED
  BY IndInit, IndStep, <1>1, PTL DEF Spec

\* The one way a payment leaves PAID: every other step that writes a payment's
\* status leaves PAID alone.
THEOREM OnlyAStalePush == Spec => OnlyAStalePushUnpays
<1> DEFINE Stale(p) == \E r \in Requests :
             /\ mine[r] = p /\ pc[r] \in {"reuse", "processing", "reset"}
             /\ pc'[r] = "idle"
           Unpaid == \A p \in Payments :
             payStatus[p] = "paid" /\ payStatus'[p] # "paid" => Stale(p)
<1>1. TypeOK /\ [Next]_vars => [Unpaid]_vars
  <2> SUFFICES ASSUME TypeOK, Next, NEW p \in Payments,
                      payStatus[p] = "paid", payStatus'[p] # "paid"
               PROVE  Stale(p)
    BY DEF vars
  <2> USE DEF TypeOK
  <2>1. ASSUME NEW r \in Requests, MarkProcessing(r) \/ ResetPending(r)
        PROVE  Stale(p)
    BY <2>1 DEF MarkProcessing, ResetPending, SaveStatus, Finish
  <2>2. ASSUME NEW r \in Requests, InsertPayment(r)
        PROVE  FALSE
    BY <2>2 DEF InsertPayment, IsNextKey
  <2>3. ASSUME NEW s \in Pushes, CallbackFailure(s) \/ CallbackCommit(s)
        PROVE  FALSE
    BY <2>3 DEF CallbackFailure, CallbackCommit
  <2>4. QED
    BY <2>1, <2>2, <2>3
       DEF Next, RequestStep, CallbackStep, BreakDeadlock, paymentVars, AcceptQuote,
           MarkAccepted, ClientLinkPayment, PushExisting, CheckPaid, LookupActive,
           PushCheck, CreatePush, CallDaraja, SaveSent, SaveFailed, Die, CustomerAnswers,
           CallbackUnknown, CallbackRepeat, CallbackSuccess, CallbackAbort
<1>2. QED
  BY TypeCorrect, <1>1, PTL DEF Spec, OnlyAStalePushUnpays
-----------------------------------------------------------------------------
(***************************************************************************)
(* PaymentFlow implements PaymentLedger.                                   *)
(***************************************************************************)

\* What the ledger sees of the tables.
Shown == {p \in Payments : payStatus[p] = "paid"}
ledgerVars == <<Received, confirmed, Shown, jobs, payJob>>

\* A commit that keeps the job it found links one that is there; one that found
\* none confirms a payment that was not confirmed (HoldersOK).
LEMMA CommitConfirms ==
    ASSUME IndInv, NEW s \in Pushes, CallbackCommit(s)
    PROVE  \E p \in Payments : Ledger!Confirm(p)
<1> USE DEF IndInv, TypeOK
<1>1. PICK p \in Payments : p = pushPay[s]
  BY DEF CallbackCommit, HoldersOK
<1>2. /\ prompt[s] = "paid" /\ cbJob[s] <= jobs
      /\ cbJob[s] = NoRow => p \notin confirmed
  BY <1>1 DEF CallbackCommit, HoldersOK
<1>3. p \in Received /\ Received' = Received
  BY <1>1, <1>2 DEF Received, CallbackCommit, phoneVars
<1>4. Shown' = Shown \cup {p} /\ confirmed' = confirmed \cup {p}
  BY <1>1 DEF Shown, CallbackCommit
<1>5. PICK j : /\ j = IF cbJob[s] = NoRow THEN jobs + 1 ELSE cbJob[s]
               /\ payJob' = [payJob EXCEPT ![p] = j]
               /\ jobs' = IF cbJob[s] = NoRow THEN j ELSE jobs
  BY <1>1 DEF CallbackCommit
<1>6. /\ j \in 1..(jobs + 1)
      /\ \/ j <= jobs /\ jobs' = jobs
         \/ j > jobs /\ jobs' = j /\ p \notin confirmed
  BY <1>2, <1>5 DEF NoRow
<1>7. Ledger!Confirm(p)
  BY <1>3, <1>4, <1>5, <1>6 DEF Ledger!Confirm, Shown
<1>8. QED
  BY <1>7

\* The customer's answer brings the money of at most one payment.
LEMMA AnswerReceives ==
    ASSUME IndInv, NEW s \in Pushes, CustomerAnswers(s)
    PROVE  UNCHANGED ledgerVars \/ \E p \in Payments : Ledger!Receive(p)
<1> USE DEF IndInv, TypeOK
<1>1. PICK a : prompt' = [prompt EXCEPT ![s] = a]
  BY DEF CustomerAnswers
<1>2. prompt[s] = "live" /\ UNCHANGED <<pushPay, confirmed, Shown, jobs, payJob>>
  BY DEF CustomerAnswers, pushVars, paymentVars, Shown
<1>3. CASE a = "paid" /\ pushPay[s] \in Payments \ Received
  <2>1. Received' = Received \cup {pushPay[s]}
    BY <1>1, <1>2, <1>3 DEF Received
  <2>2. Ledger!Receive(pushPay[s])
    BY <1>2, <1>3, <2>1 DEF Ledger!Receive, Shown
  <2>3. QED
    BY <1>3, <2>2
<1>4. CASE ~(a = "paid" /\ pushPay[s] \in Payments \ Received)
  <2>1. Received' = Received
    BY <1>1, <1>2, <1>4 DEF Received
  <2>2. QED
    BY <1>2, <2>1 DEF ledgerVars
<1>5. QED
  BY <1>3, <1>4

\* A save of a payment's status that does not say PAID hides at most that payment.
LEMMA SaveUnshows ==
    ASSUME IndInv, NEW p \in Payments, NEW st \in PaymentStatus \ {"paid"},
           payStatus' = [payStatus EXCEPT ![p] = st],
           UNCHANGED <<pushPay, prompt, confirmed, jobs, payJob>>
    PROVE  UNCHANGED ledgerVars \/ Ledger!Unshow(p)
<1> USE DEF IndInv, TypeOK
<1>1. Received' = Received
  BY DEF Received
<1>2. Shown' = Shown \ {p}
  BY DEF Shown
<1>3. CASE p \in Shown
  BY <1>1, <1>2, <1>3 DEF Ledger!Unshow, Shown
<1>4. CASE p \notin Shown
  BY <1>1, <1>2, <1>4 DEF ledgerVars
<1>5. QED
  BY <1>3, <1>4

\* Every step of a request, a callback or the customer is a step of the ledger
\* or leaves it alone.
LEMMA LedgerStep == IndInv /\ [Next]_vars => [Ledger!Next]_(Ledger!vars)
<1> SUFFICES ASSUME IndInv, [Next]_vars
             PROVE  UNCHANGED ledgerVars \/ Ledger!Next
  BY DEF Ledger!vars, ledgerVars, Shown
<1> USE DEF IndInv, TypeOK
<1>1. ASSUME NEW r \in Requests, MarkProcessing(r) \/ ResetPending(r)
      PROVE  UNCHANGED ledgerVars \/ Ledger!Next
  <2>1. ASSUME NEW p \in Payments, mine[r] = p
        PROVE  UNCHANGED ledgerVars \/ Ledger!Next
    <3>1. PICK st \in {"processing", "pending"} :
            payStatus' = [payStatus EXCEPT ![p] = st]
      BY <1>1, <2>1 DEF MarkProcessing, ResetPending, SaveStatus
    <3>2. UNCHANGED <<pushPay, prompt, confirmed, jobs, payJob>>
      BY <1>1 DEF MarkProcessing, ResetPending, SaveStatus, pushVars, phoneVars
    <3>3. UNCHANGED ledgerVars \/ Ledger!Unshow(p)
      BY <3>1, <3>2, SaveUnshows DEF PaymentStatus
    <3>4. QED
      BY <3>3 DEF Ledger!Next
  <2>2. CASE mine[r] \notin Payments
    <3>1. UNCHANGED <<payStatus, pushPay, prompt, confirmed, jobs, payJob>>
      BY <1>1, <2>2 DEF MarkProcessing, ResetPending, SaveStatus, pushVars, phoneVars
    <3>2. QED
      BY <3>1 DEF ledgerVars, Received, Shown
  <2>3. QED
    BY <2>1, <2>2
<1>2. ASSUME NEW s \in Pushes, CallbackFailure(s)
      PROVE  UNCHANGED ledgerVars \/ Ledger!Next
  <2>1. pushPay[s] \in Payments
    BY <1>2 DEF CallbackFailure, Found, PushRowsOK
  <2>2. UNCHANGED <<pushPay, prompt, confirmed, jobs, payJob>>
    BY <1>2 DEF CallbackFailure, Delivered
  <2>3. CASE payStatus[pushPay[s]] = "paid"
    <3>1. payStatus' = payStatus
      BY <1>2, <2>1, <2>3 DEF CallbackFailure
    <3>2. QED
      BY <2>2, <3>1 DEF ledgerVars, Received, Shown
  <2>4. CASE payStatus[pushPay[s]] # "paid"
    <3>1. payStatus' = [payStatus EXCEPT ![pushPay[s]] = "failed"]
      BY <1>2, <2>1, <2>4 DEF CallbackFailure
    <3>2. QED
      BY <2>1, <2>2, <3>1, SaveUnshows DEF PaymentStatus, Ledger!Next
  <2>5. QED
    BY <2>3, <2>4
<1>3. ASSUME NEW r \in Requests, InsertPayment(r)
      PROVE  UNCHANGED ledgerVars \/ Ledger!Next
  <2>1. PICK p \in Payments : payStatus' = [payStatus EXCEPT ![p] = "pending"]
    BY <1>3 DEF InsertPayment
  <2>2. UNCHANGED <<pushPay, prompt, confirmed, jobs, payJob>>
    BY <1>3 DEF InsertPayment, pushVars, phoneVars
  <2>3. QED
    BY <2>1, <2>2, SaveUnshows DEF PaymentStatus, Ledger!Next
<1>4. ASSUME NEW r \in Requests, CreatePush(r)
      PROVE  UNCHANGED ledgerVars
  <2>1. PICK s \in Pushes : /\ IsNextKey(s, pushStatus, Pushes)
                            /\ pushPay' = [pushPay EXCEPT ![s] = mine[r]]
    BY <1>4 DEF CreatePush
  <2>2. prompt[s] = "none" /\ prompt' = prompt
    BY <1>4, <2>1 DEF CreatePush, IsNextKey, PushRowsOK, phoneVars
  <2>3. Received' = Received
    BY <2>1, <2>2 DEF Received
  <2>4. QED
    BY <1>4, <2>3 DEF CreatePush, ledgerVars, Shown, paymentVars
<1>5. ASSUME NEW r \in Requests, CallDaraja(r)
      PROVE  UNCHANGED ledgerVars
  <2>1. \A s \in Pushes : prompt'[s] = "paid" <=> prompt[s] = "paid"
    BY <1>5 DEF CallDaraja, RequestsOK
  <2>2. Received' = Received
    BY <1>5, <2>1 DEF Received, CallDaraja, pushVars
  <2>3. QED
    BY <1>5, <2>2 DEF CallDaraja, ledgerVars, Shown, paymentVars
<1>6. ASSUME NEW s \in Pushes, CustomerAnswers(s)
      PROVE  UNCHANGED ledgerVars \/ Ledger!Next
  BY <1>6, AnswerReceives DEF Ledger!Next
<1>7. ASSUME NEW s \in Pushes, CallbackCommit(s)
      PROVE  Ledger!Next
  BY <1>7, CommitConfirms DEF Ledger!Next
<1>8. ASSUME UNCHANGED <<pushPay, prompt, payStatus, confirmed, jobs, payJob>>
      PROVE  UNCHANGED ledgerVars
  BY <1>8 DEF ledgerVars, Received, Shown
<1>9. QED
  BY <1>1, <1>2, <1>3, <1>4, <1>5, <1>6, <1>7, <1>8
     DEF Next, RequestStep, CallbackStep, BreakDeadlock, vars, paymentVars, pushVars,
         phoneVars, AcceptQuote, MarkAccepted, ClientLinkPayment, PushExisting,
         CheckPaid, LookupActive, PushCheck, SaveSent, SaveFailed, Die,
         CallbackUnknown, CallbackRepeat, CallbackSuccess, CallbackAbort, Delivered

\* The tables of payments, pushes and jobs implement the ledger: initial states
\* map to initial states, and every step to a step or a stutter.
THEOREM Implements == Spec => KeepsLedger
<1>1. Init => Ledger!Init
  BY DEF Init, Ledger!Init, Received, NoRow
<1>2. IndInv /\ [Next]_vars => [Ledger!Next]_(Ledger!vars)
  BY LedgerStep
<1>3. QED
  BY <1>1, <1>2, IndInit, IndStep, PTL DEF Spec, KeepsLedger, Ledger!Spec
=============================================================================
