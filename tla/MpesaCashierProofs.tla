------------------------- MODULE MpesaCashierProofs -------------------------
(***************************************************************************)
(* Proofs about MpesaCashier, for every number of rows, of checks in       *)
(* progress and of posts.                                                  *)
(*                                                                         *)
(* What a callback may write depends on how far the request that made the  *)
(* row has got: a row is found by its checkout id only after that request  *)
(* has saved it for the last time (RowsOK), so no later save of the        *)
(* request can undo a settlement; the checks, which save what they decided *)
(* on an old instance, never write PAID nor an open status of their own    *)
(* (ChecksOK).                                                             *)
(***************************************************************************)
EXTENDS MpesaCashier, TLAPS

\* A row exists from its INSERT on; until the provider has answered there is no
\* prompt; the request has finished with the row when its checkout id is saved,
\* and only then can a receipt be stored.
RowsOK ==
    \A p \in Rows :
      /\ push[p] \in {"none", "calling", "rejected"} => prompt[p] = "none"
      /\ p \in checkout => push[p] = "over"
      /\ p \in receipts => p \in checkout
      /\ status[p] = "paid" => p \in checkout

\* A check in progress has read a row.
ChecksOK == \A c \in Checks : task[c] # "none" => row[c] \in Rows

\* A settlement, due or done, belongs to a stored receipt for the full amount.
SettlementOK ==
    \A p \in Rows :
      p \in settling \/ settled[p] > 0 => p \in receipts /\ prompt[p] = "paid"

IndInv ==
    /\ TypeOK
    /\ RowsOK
    /\ ChecksOK
    /\ SettlementOK
    /\ PaidByReceipt
    /\ SettledOnce
    /\ JobIsPaidFor
    /\ ReceiptIsTerminal

-----------------------------------------------------------------------------
LEMMA IndInit == Init => IndInv
<1> SUFFICES ASSUME Init PROVE IndInv
  OBVIOUS
<1> USE MpesaCashierAssumption DEF Init
<1>1. TypeOK
  <2>1. 0 \in 0..MaxPosts /\ 0 \in 0..2
    OBVIOUS
  <2>2. status \in [Rows -> Status] /\ recon \in [Rows -> Recon]
    BY DEF Status, Recon
  <2>3. QED
    BY <2>1, <2>2 DEF TypeOK
<1>2. RowsOK /\ ChecksOK /\ SettlementOK
  BY DEF RowsOK, ChecksOK, SettlementOK, Checks
<1>3. PaidByReceipt /\ SettledOnce /\ JobIsPaidFor /\ ReceiptIsTerminal
  BY DEF PaidByReceipt, SettledOnce, JobIsPaidFor, ReceiptIsTerminal
<1>4. QED
  BY <1>1, <1>2, <1>3 DEF IndInv

\* A post that was due leaves the bound on posts intact.
LEMMA PostedType ==
    ASSUME TypeOK, NEW p \in Rows, Posted(p)
    PROVE  posts' \in [Rows -> 0..MaxPosts]
<1>1. posts[p] - 1 \in 0..MaxPosts
  BY MpesaCashierAssumption DEF Posted, TypeOK
<1>2. QED
  BY <1>1 DEF Posted, TypeOK

\* What a check saves is a terminal status or the one the row has.
LEMMA FinishWrites ==
    ASSUME TypeOK, ChecksOK, NEW c \in Checks, FinishCheck(c)
    PROVE  /\ row[c] \in Rows
           /\ \E st \in {"cancelled", "needs_review", status[row[c]]} : Conclude(c, st)
           /\ status'[row[c]] = "paid" => recon' = recon /\ status[row[c]] = "paid"
           /\ \A p \in Rows \ {row[c]} : recon'[p] = recon[p]
           /\ recon' \in [Rows -> Recon]
<1> USE DEF TypeOK, Conclude
<1>1. row[c] \in Rows
  BY DEF FinishCheck, FinishQuery, FinishCancel, FinishFlag, ChecksOK
<1>2. CASE FinishQuery(c)
  BY <1>1, <1>2 DEF FinishQuery
<1>3. CASE FinishCancel(c)
  BY <1>1, <1>3 DEF FinishCancel
<1>4. CASE FinishFlag(c)
  BY <1>1, <1>4 DEF FinishFlag, Recon
<1>5. QED
  BY <1>2, <1>3, <1>4, <1>1 DEF FinishCheck

-----------------------------------------------------------------------------
(***************************************************************************)
(* One lemma per group of actions.                                         *)
(***************************************************************************)

\* The request that creates the row saves it before any callback finds it.
LEMMA RequestStep ==
    ASSUME IndInv, NEW p \in Rows,
           \/ CreatePayment(p) \/ CallDaraja(p) \/ MarkRejected(p)
           \/ MarkPushSent(p) \/ RequestDies(p)
    PROVE  IndInv'
<1> USE DEF IndInv, TypeOK, rowVars, phoneVars, jobVars, checkVars, CreatePayment,
      CallDaraja, MarkRejected, MarkPushSent, RequestDies
<1>1. TypeOK'
  BY DEF Status, Recon, Terminal
<1>2. RowsOK'
  BY DEF RowsOK
<1>3. ChecksOK'
  BY DEF ChecksOK
<1>4. SettlementOK'
  BY DEF SettlementOK, RowsOK
<1>5. PaidByReceipt'
  BY DEF PaidByReceipt, RowsOK
<1>6. SettledOnce'
  BY DEF SettledOnce
<1>7. JobIsPaidFor'
  BY DEF JobIsPaidFor, RowsOK
<1>8. ReceiptIsTerminal'
  BY DEF ReceiptIsTerminal, RowsOK, Terminal
<1>9. QED
  BY <1>1, <1>2, <1>3, <1>4, <1>5, <1>6, <1>7, <1>8

\* The customer answers only a live prompt; time changes no row.
LEMMA WorldStep ==
    ASSUME IndInv, NEW p \in Rows, CustomerAnswers(p) \/ Age(p)
    PROVE  IndInv'
<1> USE DEF IndInv, TypeOK, rowVars, phoneVars, jobVars, checkVars, CustomerAnswers, Age
<1>1. TypeOK'
  <2>1. age[p] < 2 => age[p] + 1 \in 0..2
    OBVIOUS
  <2>2. QED
    BY <2>1 DEF Outcomes, Successes
<1>2. RowsOK'
  BY DEF RowsOK
<1>3. ChecksOK'
  BY DEF ChecksOK
<1>4. SettlementOK'
  BY DEF SettlementOK
<1>5. PaidByReceipt'
  BY DEF PaidByReceipt
<1>6. SettledOnce' /\ ReceiptIsTerminal'
  BY DEF SettledOnce, ReceiptIsTerminal
<1>7. JobIsPaidFor'
  BY DEF JobIsPaidFor
<1>8. QED
  BY <1>1, <1>2, <1>3, <1>4, <1>5, <1>6, <1>7

\* A callback that is ignored.
LEMMA IgnoredStep ==
    ASSUME IndInv, NEW p \in Rows, CallbackUnknown(p) \/ CallbackDuplicate(p)
    PROVE  IndInv'
<1>1. Posted(p)
  BY DEF CallbackUnknown, CallbackDuplicate
<1> USE DEF IndInv, rowVars, jobVars, checkVars, CallbackUnknown, CallbackDuplicate
<1>2. TypeOK'
  BY <1>1, PostedType DEF TypeOK, Posted
<1>3. RowsOK' /\ ChecksOK' /\ SettlementOK'
  BY <1>1 DEF RowsOK, ChecksOK, SettlementOK, Posted
<1>4. PaidByReceipt' /\ SettledOnce' /\ JobIsPaidFor' /\ ReceiptIsTerminal'
  BY <1>1 DEF PaidByReceipt, SettledOnce, JobIsPaidFor, ReceiptIsTerminal, Posted
<1>5. QED
  BY <1>2, <1>3, <1>4

\* A callback that changes its row: the row is not terminal, so it has no
\* receipt yet and was never settled.
LEMMA CallbackStep ==
    ASSUME IndInv, NEW p \in Rows,
           CallbackSuccess(p) \/ CallbackBare(p) \/ CallbackFailure(p)
    PROVE  IndInv'
<1>1. /\ Posted(p)
      /\ p \in checkout /\ p \notin receipts /\ status[p] # "paid"
      /\ settled[p] = 0 /\ p \notin settling
  BY DEF CallbackSuccess, CallbackBare, CallbackFailure, Fresh, IndInv, SettlementOK,
         ReceiptIsTerminal, Terminal, TypeOK
<1> USE DEF IndInv, TypeOK, rowVars, jobVars, checkVars, CallbackSuccess, CallbackBare,
      CallbackFailure, Confirm, Park, Close
<1>2. TypeOK'
  <2>1. /\ posts' \in [Rows -> 0..MaxPosts]
        /\ UNCHANGED <<prompt, task, row, batch, push, age, told, settled, jobPaid, checkout>>
    BY <1>1, PostedType DEF Posted
  <2>2. recon' \in [Rows -> Recon] /\ receipts' \in SUBSET Rows /\ settling' \in SUBSET Rows
    BY DEF Recon
  <2>3. status' \in [Rows -> Status]
    BY DEF Status, Terminal
  <2>4. QED
    BY <2>1, <2>2, <2>3
<1>3. RowsOK'
  BY <1>1 DEF RowsOK, Posted
<1>4. ChecksOK'
  BY <1>1 DEF ChecksOK, Posted
<1>5. SettlementOK'
  BY <1>1 DEF SettlementOK, Posted
<1>6. PaidByReceipt'
  BY <1>1 DEF PaidByReceipt, Posted
<1>7. SettledOnce'
  BY <1>1 DEF SettledOnce, Posted
<1>8. JobIsPaidFor'
  BY <1>1 DEF JobIsPaidFor, Posted
<1>9. ReceiptIsTerminal'
  BY <1>1 DEF ReceiptIsTerminal, Posted, Terminal
<1>10. QED
  BY <1>2, <1>3, <1>4, <1>5, <1>6, <1>7, <1>8, <1>9

\* After the commit: the job is confirmed, or the signal is lost.  A status
\* result finds only rows that have a receipt, and those are terminal.
LEMMA AfterwardsStep ==
    ASSUME IndInv, NEW p \in Rows,
           SettleManagedJob(p) \/ SettlementLost(p) \/ StatusResult(p)
    PROVE  IndInv'
<1>1. p \in receipts => status[p] \in Terminal
  BY DEF IndInv, ReceiptIsTerminal
<1> USE DEF IndInv, TypeOK, rowVars, phoneVars, jobVars, checkVars, SettleManagedJob,
      SettlementLost, StatusResult
<1>2. TypeOK'
  <2>1. p \in settling => settled[p] + 1 \in Nat
    OBVIOUS
  <2>2. settled' \in [Rows -> Nat]
    BY <2>1
  <2>3. QED
    BY <1>1, <2>2
<1>3. RowsOK'
  BY <1>1 DEF RowsOK
<1>4. ChecksOK'
  BY <1>1 DEF ChecksOK
<1>5. SettlementOK'
  BY <1>1 DEF SettlementOK
<1>6. PaidByReceipt'
  BY <1>1 DEF PaidByReceipt
<1>7. SettledOnce'
  BY <1>1 DEF SettledOnce
<1>8. JobIsPaidFor'
  <2>1. CASE SettleManagedJob(p)
    <3>1. p \in receipts' /\ settled'[p] = 1 /\ prompt'[p] = "paid"
      BY <2>1 DEF SettledOnce, SettlementOK
    <3>2. QED
      BY <3>1 DEF JobIsPaidFor
  <2>2. CASE ~SettleManagedJob(p)
    BY <1>1, <2>2 DEF JobIsPaidFor
  <2>3. QED
    BY <2>1, <2>2
<1>9. ReceiptIsTerminal'
  BY <1>1 DEF ReceiptIsTerminal
<1>10. QED
  BY <1>2, <1>3, <1>4, <1>5, <1>6, <1>7, <1>8, <1>9

\* A check starts: nothing but its own state changes.
LEMMA BeginStep ==
    ASSUME IndInv, NEW c \in Checks, NEW t \in {"query", "cancel", "flag"},
           NEW p \in Rows, Begin(c, t, p), batch' \in [Rows -> 0..2]
    PROVE  IndInv'
<1> USE DEF IndInv, rowVars, phoneVars, jobVars, Begin
<1>1. TypeOK'
  BY DEF TypeOK
<1>2. RowsOK' /\ SettlementOK'
  BY DEF RowsOK, SettlementOK
<1>3. ChecksOK'
  BY DEF ChecksOK, TypeOK
<1>4. PaidByReceipt' /\ SettledOnce' /\ JobIsPaidFor' /\ ReceiptIsTerminal'
  BY DEF PaidByReceipt, SettledOnce, JobIsPaidFor, ReceiptIsTerminal
<1>5. QED
  BY <1>1, <1>2, <1>3, <1>4

\* A run of mpesa_reconcile fetches its rows.
LEMMA FetchStep ==
    ASSUME IndInv, FetchStale
    PROVE  IndInv'
<1> USE DEF IndInv, rowVars, phoneVars, jobVars, FetchStale
<1>1. batch' \in [Rows -> 0..2]
  BY DEF TypeOK
<1>2. TypeOK'
  BY <1>1 DEF TypeOK
<1>3. RowsOK' /\ ChecksOK' /\ SettlementOK'
  BY DEF RowsOK, ChecksOK, SettlementOK
<1>4. PaidByReceipt' /\ SettledOnce' /\ JobIsPaidFor' /\ ReceiptIsTerminal'
  BY DEF PaidByReceipt, SettledOnce, JobIsPaidFor, ReceiptIsTerminal
<1>5. QED
  BY <1>2, <1>3, <1>4

\* A check saves what it decided.
LEMMA FinishStep ==
    ASSUME IndInv, NEW c \in Checks, FinishCheck(c)
    PROVE  IndInv'
<1>1. PICK st \in {"cancelled", "needs_review", status[row[c]]} : Conclude(c, st)
  BY FinishWrites DEF IndInv
<1>2. /\ row[c] \in Rows /\ status' = [status EXCEPT ![row[c]] = st]
      /\ status'[row[c]] = "paid" => recon' = recon /\ status[row[c]] = "paid"
      /\ \A p \in Rows \ {row[c]} : recon'[p] = recon[p]
      /\ recon' \in [Rows -> Recon]
  BY <1>1, FinishWrites DEF IndInv, Conclude
<1>3. /\ task' = [task EXCEPT ![c] = "none"] /\ row' = [row EXCEPT ![c] = NoRow]
      /\ UNCHANGED <<checkout, receipts, prompt, posts, settling, settled, jobPaid, batch, push, age,
                  told>>
  BY <1>1 DEF Conclude, phoneVars, jobVars
<1> USE DEF IndInv, TypeOK
<1>4. TypeOK'
  BY <1>2, <1>3 DEF Status, Terminal
<1>5. RowsOK'
  BY <1>2, <1>3 DEF RowsOK
<1>6. ChecksOK'
  BY <1>3 DEF ChecksOK
<1>7. SettlementOK' /\ SettledOnce' /\ JobIsPaidFor'
  BY <1>3 DEF SettlementOK, SettledOnce, JobIsPaidFor
<1>8. PaidByReceipt'
  BY <1>2, <1>3 DEF PaidByReceipt
<1>9. ReceiptIsTerminal'
  BY <1>2, <1>3 DEF ReceiptIsTerminal, Terminal
<1>10. QED
  BY <1>4, <1>5, <1>6, <1>7, <1>8, <1>9

LEMMA StutterStep == IndInv /\ UNCHANGED vars => IndInv'
BY DEF IndInv, TypeOK, RowsOK, ChecksOK, SettlementOK, PaidByReceipt, SettledOnce,
       JobIsPaidFor, ReceiptIsTerminal, vars, rowVars, phoneVars, jobVars, checkVars

LEMMA IndStep == IndInv /\ [Next]_vars => IndInv'
<1> SUFFICES ASSUME IndInv, Next PROVE IndInv'
  BY StutterStep
<1>1. ASSUME NEW p \in Rows, Reconcile(p) PROVE IndInv'
  <2>1. Begin(Cron, "cancel", p) \/ Begin(Cron, "query", p)
    BY <1>1 DEF Reconcile
  <2>2. batch' \in [Rows -> 0..2]
    BY <1>1 DEF Reconcile, IndInv, TypeOK
  <2>3. QED
    BY <2>1, <2>2, BeginStep DEF Checks
<1>2. ASSUME NEW p \in Rows, NEW c \in Users, BeginQuery(c, p) \/ BeginFlag(c, p)
      PROVE  IndInv'
  <2>1. batch' \in [Rows -> 0..2]
    BY <1>2 DEF BeginQuery, BeginFlag, IndInv, TypeOK
  <2>2. QED
    BY <1>2, <2>1, BeginStep DEF BeginQuery, BeginFlag, Checks
<1>3. QED
  BY <1>1, <1>2, RequestStep, WorldStep, IgnoredStep, CallbackStep, AfterwardsStep,
     FetchStep, FinishStep DEF Next

-----------------------------------------------------------------------------
\* Every variable keeps its type.
THEOREM TypeCorrect == Spec => []TypeOK
<1>1. IndInv => TypeOK
  BY DEF IndInv
<1>2. QED
  BY IndInit, IndStep, <1>1, PTL DEF Spec

\* A row is PAID only with a receipt for the amount asked, whatever queries,
\* reconciliation and staff save on old instances; and a row whose receipt is
\* stored is never open again, which is why a status-query result, looked up by
\* receipt, settles nothing.
THEOREM ReceiptsDecideAlways == Spec => []ReceiptsDecide
<1>1. IndInv => ReceiptsDecide
  BY DEF IndInv, ReceiptsDecide
<1>2. QED
  BY IndInit, IndStep, <1>1, PTL DEF Spec

\* Repeated callbacks settle a payment at most once, and the job counts as paid
\* only if a receipt for the full amount was settled.
THEOREM SettlementIsRealAlways == Spec => []SettlementIsReal
<1>1. IndInv => SettlementIsReal
  BY DEF IndInv, SettlementIsReal
<1>2. QED
  BY IndInit, IndStep, <1>1, PTL DEF Spec
=============================================================================
