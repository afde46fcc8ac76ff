---------------------------- MODULE MpesaCashier ----------------------------
(***************************************************************************)
(* The `mpesa_payments` app: direct Lipa na M-Pesa payments for one        *)
(* ManagedJob.  Every attempt is an `MpesaPayment` row of its own.  A row  *)
(* is written by the request that creates it, by the provider's callbacks, *)
(* by status queries (a user's, an operator's, or mpesa_reconcile's from   *)
(* cron) and by staff.  Only the callbacks lock the row; everyone else     *)
(* decides on an instance read earlier and saves its status afterwards.    *)
(***************************************************************************)
EXTENDS Integers, FiniteSets

CONSTANTS
    Rows,       \* MpesaPayment rows
    Users,      \* status queries and staff actions in progress at a time
    Cron,       \* the mpesa_reconcile process
    NoRow,      \* the row of a check that is not in progress
    MaxPosts    \* bound: times the provider posts one outcome

ASSUME MpesaCashierAssumption ==
    /\ MaxPosts \in Nat
    /\ Cron \notin Users
    /\ NoRow \notin Rows

Checks == Users \cup {Cron}

VARIABLES
    status,     \* MpesaPayment.status ("absent": no row)
    recon,      \* MpesaPayment.reconciliation_status
    checkout,   \* rows whose checkout_request_id is saved; the others have ""
    receipts,   \* rows with mpesa_receipt_number and confirmed_at
    push,       \* progress of the request that creates the row
    prompt,     \* the prompt on the customer's phone and its outcome
    posts,      \* callbacks about it still to come
    settling,   \* rows whose mpesa_payment_confirmed signal is not handled yet
    settled,    \* times the signal of a row was handled
    jobPaid,    \* ManagedJob.payment_status = CONFIRMED
    age,        \* 0: fresh, 1: pending over 10 minutes, 2: over 24 hours
    task,       \* what a check is about to save
    row,        \* the row it read
    batch,      \* the rows this run of mpesa_reconcile has still to do, by their
                \* age when it fetched them (0: not among them)
    told        \* rows whose receipt a status-query result has named

rowVars   == <<status, recon, checkout, receipts>>
phoneVars == <<prompt, posts>>
jobVars   == <<settling, settled, jobPaid>>
checkVars == <<task, row, batch>>
vars == <<rowVars, phoneVars, jobVars, checkVars, push, age, told>>

Terminal  == {"paid", "failed", "cancelled", "needs_review"}
Status    == {"absent", "initiated", "pending"} \cup Terminal
Recon     == {"pending", "confirmed", "amount_mismatch", "manual_review"}
\* Outcomes with ResultCode 0: the full amount, another amount, and a success
\* body without receipt or amount.
Successes == {"paid", "mismatch", "bare"}
Outcomes  == Successes \cup {"cancelled", "failed"}

TypeOK ==
    /\ status \in [Rows -> Status]
    /\ recon \in [Rows -> Recon]
    /\ checkout \in SUBSET Rows
    /\ receipts \in SUBSET Rows
    /\ push \in [Rows -> {"none", "calling", "accepted", "rejected", "over"}]
    /\ prompt \in [Rows -> {"none", "live"} \cup Outcomes]
    /\ posts \in [Rows -> 0..MaxPosts]
    /\ settling \in SUBSET Rows
    /\ settled \in [Rows -> Nat]
    /\ jobPaid \in BOOLEAN
    /\ age \in [Rows -> 0..2]
    /\ task \in [Checks -> {"none", "query", "cancel", "flag"}]
    /\ row \in [Checks -> Rows \cup {NoRow}]
    /\ batch \in [Rows -> 0..2]
    /\ told \in SUBSET Rows

Init ==
    /\ status = [p \in Rows |-> "absent"]
    /\ recon = [p \in Rows |-> "pending"]
    /\ checkout = {}
    /\ receipts = {}
    /\ push = [p \in Rows |-> "none"]
    /\ prompt = [p \in Rows |-> "none"]
    /\ posts = [p \in Rows |-> 0]
    /\ settling = {}
    /\ settled = [p \in Rows |-> 0]
    /\ jobPaid = FALSE
    /\ age = [p \in Rows |-> 0]
    /\ task = [c \in Checks |-> "none"]
    /\ row = [c \in Checks |-> NoRow]
    /\ batch = [p \in Rows |-> 0]
    /\ told = {}

-----------------------------------------------------------------------------
(***************************************************************************)
(* The request that creates a row: MpesaStkPushView.                       *)
(***************************************************************************)

\* checkout_request_id is unique and "" until a push is accepted: the INSERT
\* fails, and the view answers 502, while any row still has "".
CreatePayment(p) ==
    /\ push[p] = "none"
    /\ \A q \in Rows : push[q] # "none" => q \in checkout
    /\ status' = [status EXCEPT ![p] = "initiated"]
    /\ push' = [push EXCEPT ![p] = "calling"]
    /\ UNCHANGED <<recon, checkout, receipts, phoneVars, jobVars, checkVars, age, told>>

\* The call either reaches the customer's phone or not, and its answer either
\* arrives or not: a timeout or an incomplete answer ends the request, without a
\* write, whether or not there is a prompt now.
CallDaraja(p) ==
    /\ push[p] = "calling"
    /\ \/ /\ prompt' = [prompt EXCEPT ![p] = "live"]
          /\ \E next \in {"accepted", "over"} : push' = [push EXCEPT ![p] = next]
       \/ /\ UNCHANGED prompt
          /\ \E next \in {"rejected", "over"} : push' = [push EXCEPT ![p] = next]
    /\ UNCHANGED <<rowVars, posts, jobVars, checkVars, age, told>>

\* Daraja refuses the push: mark_failed.
MarkRejected(p) ==
    /\ push[p] = "rejected"
    /\ status' = [status EXCEPT ![p] = "failed"]
    /\ push' = [push EXCEPT ![p] = "over"]
    /\ UNCHANGED <<recon, checkout, receipts, phoneVars, jobVars, checkVars, age, told>>

\* Daraja accepts it: mark_push_sent.
MarkPushSent(p) ==
    /\ push[p] = "accepted"
    /\ status' = [status EXCEPT ![p] = "pending"]
    /\ recon' = [recon EXCEPT ![p] = "pending"]
    /\ checkout' = checkout \cup {p}
    /\ push' = [push EXCEPT ![p] = "over"]
    /\ UNCHANGED <<receipts, phoneVars, jobVars, checkVars, age, told>>

\* The worker dies before it saves the answer.
RequestDies(p) ==
    /\ push[p] \in {"calling", "accepted", "rejected"}
    /\ push' = [push EXCEPT ![p] = "over"]
    /\ UNCHANGED <<rowVars, phoneVars, jobVars, checkVars, age, told>>

-----------------------------------------------------------------------------
(***************************************************************************)
(* The customer, the provider and the clock (external).                    *)
(***************************************************************************)

CustomerAnswers(p) ==
    /\ prompt[p] = "live"
    /\ \E outcome \in Outcomes : prompt' = [prompt EXCEPT ![p] = outcome]
    /\ \E n \in 0..MaxPosts : posts' = [posts EXCEPT ![p] = n]
    /\ UNCHANGED <<rowVars, jobVars, checkVars, push, age, told>>

Age(p) ==
    /\ status[p] = "pending" /\ age[p] < 2
    /\ age' = [age EXCEPT ![p] = @ + 1]
    /\ UNCHANGED <<rowVars, phoneVars, jobVars, checkVars, push, told>>

-----------------------------------------------------------------------------
(***************************************************************************)
(* Callbacks: MpesaCallbackView and process_callback, with the row locked. *)
(***************************************************************************)

\* Mutant: a post is handled whether or not one was due.
PostedUnasked(p) ==
    /\ posts' = [posts EXCEPT ![p] = @ - 1]
    /\ UNCHANGED <<prompt, checkVars, push, age, told>>

Posted(p) ==
    /\ posts[p] > 0
    /\ posts' = [posts EXCEPT ![p] = @ - 1]
    /\ UNCHANGED <<prompt, checkVars, push, age, told>>

\* No row has this checkout id yet: the body goes to the canonical handler,
\* which does not know it either; the view logs the error and answers 200.
CallbackUnknown(p) ==
    /\ p \notin checkout
    /\ Posted(p)
    /\ UNCHANGED <<rowVars, jobVars>>

\* Mutant: no check for a terminal state.
FreshAlways(p) == p \in checkout

\* The row is found, and is not terminal.
Fresh(p) == p \in checkout /\ status[p] \notin Terminal

\* A terminal row: logged as a duplicate.
CallbackDuplicate(p) ==
    /\ p \in checkout /\ status[p] \in Terminal
    /\ Posted(p)
    /\ UNCHANGED <<rowVars, jobVars>>

\* mark_confirmed; the signal is sent once the transaction has committed.
Confirm(p, matched) ==
    /\ status' = [status EXCEPT ![p] = IF matched THEN "paid" ELSE "needs_review"]
    /\ recon' = [recon EXCEPT ![p] = IF matched THEN "confirmed" ELSE "amount_mismatch"]
    /\ receipts' = receipts \cup {p}
    /\ settling' = IF matched THEN settling \cup {p} ELSE settling
    /\ UNCHANGED checkout

CallbackSuccess(p) ==
    /\ Fresh(p) /\ prompt[p] \in {"paid", "mismatch"}
    /\ Posted(p)
    /\ Confirm(p, prompt[p] = "paid")
    /\ UNCHANGED <<settled, jobPaid>>

\* mark_needs_review
Park(p) ==
    /\ status' = [status EXCEPT ![p] = "needs_review"]
    /\ recon' = [recon EXCEPT ![p] = "manual_review"]
    /\ UNCHANGED <<checkout, receipts, settling>>

\* mark_failed or mark_cancelled
Close(p, as) ==
    /\ status' = [status EXCEPT ![p] = as]
    /\ UNCHANGED <<recon, checkout, receipts, settling>>

\* ResultCode 0 without receipt or amount.
CallbackBare(p) ==
    /\ Fresh(p) /\ prompt[p] = "bare"
    /\ Posted(p)
    /\ Park(p)
    /\ UNCHANGED <<settled, jobPaid>>

\* Any other ResultCode.
CallbackFailure(p) ==
    /\ Fresh(p) /\ prompt[p] \in {"cancelled", "failed"}
    /\ Posted(p)
    /\ Close(p, prompt[p])
    /\ UNCHANGED <<settled, jobPaid>>

\* After the commit: on_mpesa_payment_confirmed advances the job.
SettleManagedJob(p) ==
    /\ p \in settling
    /\ settling' = settling \ {p}
    /\ settled' = [settled EXCEPT ![p] = @ + 1]
    /\ jobPaid' = TRUE
    /\ UNCHANGED <<rowVars, phoneVars, checkVars, push, age, told>>

\* The worker dies between commit and signal, or the receiver raises and logs.
SettlementLost(p) ==
    /\ p \in settling
    /\ settling' = settling \ {p}
    /\ UNCHANGED <<settled, jobPaid, rowVars, phoneVars, checkVars, push, age, told>>

\* The verdict on a receipt an operator asked about:
\* process_transaction_status_result finds the row by the receipt it carries.
\* It confirms an open row, parks it when no amount came, or closes it.
StatusResult(p) ==
    /\ prompt[p] \in Successes
    /\ told' = told \cup {p}
    /\ IF p \in receipts /\ status[p] \notin Terminal
         THEN Confirm(p, prompt[p] = "paid") \/ Park(p) \/ Close(p, "failed")
         ELSE UNCHANGED <<rowVars, settling>>
    /\ UNCHANGED <<phoneVars, settled, jobPaid, checkVars, push, age>>

-----------------------------------------------------------------------------
(***************************************************************************)
(* Checks: read an instance, ask the provider or decide, save the status.  *)
(***************************************************************************)

Begin(c, t, p) ==
    /\ task[c] = "none"
    /\ task' = [task EXCEPT ![c] = t]
    /\ row' = [row EXCEPT ![c] = p]
    /\ UNCHANGED <<rowVars, phoneVars, jobVars, push, age, told>>

\* MpesaPaymentQueryView and the admin's query: a row that is not terminal and
\* has a session to ask about.
BeginQuery(c, p) ==
    /\ p \in checkout /\ status[p] \notin Terminal
    /\ Begin(c, "query", p)
    /\ UNCHANGED batch

\* The admin's flag: refused only for an instance that is PAID.
BeginFlag(c, p) ==
    /\ push[p] # "none" /\ status[p] # "paid"
    /\ Begin(c, "flag", p)
    /\ UNCHANGED batch

\* mpesa_reconcile: a run fetches all stale pending rows at its start, and judges
\* them by the clock of that moment.
Stale == {p \in Rows : status[p] = "pending" /\ age[p] > 0}

FetchStale ==
    /\ task[Cron] = "none" /\ \A p \in Rows : batch[p] = 0
    /\ Stale # {}
    /\ batch' = [p \in Rows |-> IF p \in Stale THEN age[p] ELSE 0]
    /\ UNCHANGED <<rowVars, phoneVars, jobVars, task, row, push, age, told>>

\* Mutant: a row nobody will answer for any more is only asked about again.
ReconcileForever(p) ==
    /\ batch[p] > 0
    /\ Begin(Cron, "query", p)
    /\ batch' = [batch EXCEPT ![p] = 0]

\* Then it does one after the other, whatever has become of it meanwhile.
Reconcile(p) ==
    /\ batch[p] > 0
    /\ Begin(Cron, IF batch[p] = 2 THEN "cancel" ELSE "query", p)
    /\ batch' = [batch EXCEPT ![p] = 0]

Conclude(c, st) ==
    /\ task' = [task EXCEPT ![c] = "none"]
    /\ row' = [row EXCEPT ![c] = NoRow]
    /\ status' = [status EXCEPT ![row[c]] = st]
    /\ UNCHANGED <<checkout, receipts, phoneVars, jobVars, batch, push, age, told>>

\* Mutant: a query that reports success marks the row PAID.
FinishQueryPaid(c) ==
    /\ task[c] = "query"
    /\ \/ prompt[row[c]] \in Successes /\ Conclude(c, "paid")
       \/ prompt[row[c]] = "cancelled" /\ Conclude(c, "cancelled")
       \/ Conclude(c, status[row[c]])
    /\ UNCHANGED recon

\* query_stk_status: a success parks the row in NEEDS_REVIEW, a cancellation
\* cancels it, any other answer (still processing, failed, unreachable) leaves
\* its status alone.
FinishQuery(c) ==
    /\ task[c] = "query"
    /\ \/ prompt[row[c]] \in Successes /\ Conclude(c, "needs_review")
       \/ prompt[row[c]] = "cancelled" /\ Conclude(c, "cancelled")
       \/ Conclude(c, status[row[c]])
    /\ UNCHANGED recon

\* mark_cancelled on an instance that was pending.
FinishCancel(c) ==
    /\ task[c] = "cancel"
    /\ Conclude(c, "cancelled")
    /\ UNCHANGED recon

\* mark_needs_review on an instance that was not PAID.
FinishFlag(c) ==
    /\ task[c] = "flag"
    /\ Conclude(c, "needs_review")
    /\ recon' = [recon EXCEPT ![row[c]] = "manual_review"]

FinishCheck(c) == FinishQuery(c) \/ FinishCancel(c) \/ FinishFlag(c)

-----------------------------------------------------------------------------

Next ==
    \/ \E p \in Rows :
         \/ CreatePayment(p) \/ CallDaraja(p) \/ MarkRejected(p) \/ MarkPushSent(p)
         \/ RequestDies(p) \/ CustomerAnswers(p) \/ Age(p)
         \/ CallbackUnknown(p) \/ CallbackDuplicate(p) \/ CallbackSuccess(p)
         \/ CallbackBare(p) \/ CallbackFailure(p)
         \/ SettleManagedJob(p) \/ SettlementLost(p) \/ StatusResult(p)
         \/ Reconcile(p)
         \/ \E c \in Users : BeginQuery(c, p) \/ BeginFlag(c, p)
    \/ FetchStale
    \/ \E c \in Checks : FinishCheck(c)

Spec == Init /\ [][Next]_vars

\* Time passes and cron runs mpesa_reconcile again and again; a run goes on until it
\* has done all the rows it fetched.
Fairness ==
    /\ \A p \in Rows : WF_vars(Age(p))
    /\ WF_vars(FetchStale) /\ WF_vars(\E p \in Rows : Reconcile(p))
    /\ WF_vars(FinishCheck(Cron))

FairSpec == Spec /\ Fairness

-----------------------------------------------------------------------------
(***************************************************************************)
(* Properties.                                                             *)
(***************************************************************************)

\* README.md:106 of the app: never paid from initiation, a query or a wrong
\* amount.  A PAID row has a receipt, and the customer paid the amount asked.
PaidByReceipt ==
    \A p \in Rows : status[p] = "paid" =>
      /\ p \in receipts /\ recon[p] = "confirmed"
      /\ prompt[p] = "paid"

\* services.py:564: a payment settles at most once, whatever is retried,
\* queried, flagged or reconciled around it.
SettledOnce ==
    \A p \in Rows : settled[p] <= 1 /\ (p \in settling => settled[p] = 0)

\* The job is confirmed only by a settlement that a matching receipt backs.
JobIsPaidFor ==
    jobPaid => \E p \in receipts : settled[p] >= 1 /\ prompt[p] = "paid"

\* A row with a receipt has reached a terminal state for good: nothing that
\* looks a row up by its receipt can settle it.
ReceiptIsTerminal == \A p \in receipts : status[p] \in Terminal

\* The receipt decides, whatever instances are saved late: no PAID without one,
\* and none on an open row.
ReceiptsDecide == PaidByReceipt /\ ReceiptIsTerminal

\* Settling is done once per payment, and nothing else makes the job paid.
SettlementIsReal == SettledOnce /\ JobIsPaidFor

\* mpesa_reconcile.py:4: "nothing sits in pending forever".
NothingStaysPending == \A p \in Rows : status[p] = "pending" ~> status[p] # "pending"
=============================================================================
