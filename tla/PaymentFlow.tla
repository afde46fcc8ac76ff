----------------------------- MODULE PaymentFlow -----------------------------
(***************************************************************************)
(* Collecting the money of ONE accepted quote: `payments.Payment` rows,    *)
(* the M-Pesa STK pushes made for them, the provider's callbacks, and the  *)
(* `ManagedJob` a confirmed payment creates.                               *)
(*                                                                         *)
(* Web requests run concurrently, each in its own worker process, against  *)
(* one PostgreSQL database at READ COMMITTED.  An action of this module is *)
(* one SQL statement, or a group of statements of one transaction that no  *)
(* other transaction can separate; a request keeps between two actions the *)
(* `payment` instance it read earlier (`seen`).  Row locks taken by        *)
(* select_for_update are kept in `quoteLock` and `payLock`.                *)
(*                                                                         *)
(* Amounts are not in this module (they are in QuoteCharge): every push    *)
(* asks for, and every success reports, the expected amount.               *)
(***************************************************************************)
EXTENDS Integers, FiniteSets

CONSTANTS
    Requests,       \* web requests that can be in progress at the same time
    MaxPayments,    \* bound: Payment rows of the quote
    MaxPushes,      \* bound: MpesaSTKRequest rows
    MaxDeliveries   \* bound: times the provider posts one result

ASSUME PaymentFlowAssumption ==
    /\ MaxPayments \in Nat
    /\ MaxPushes \in Nat
    /\ MaxDeliveries \in Nat

Payments == 1..MaxPayments      \* primary keys, in creation order
Pushes   == 1..MaxPushes

NoRow == 0                      \* a null foreign key

VARIABLES
    quote,       \* Quote.status, as far as payment depends on it
    quoteLock,   \* {r} while request r holds the quote row FOR UPDATE, else {}
    payStatus,   \* Payment.status ("absent": the row does not exist)
    confirmed,   \* Payments with confirmed_at set
    payJob,      \* Payment.managed_job
    payLock,     \* the push whose callback holds the payment row, if any
    jobs,        \* ManagedJob rows with source_quote = the quote, numbered 1..jobs
    pushPay,     \* MpesaSTKRequest.payment
    pushStatus,  \* MpesaSTKRequest.status
    known,       \* pushes whose checkout_request_id has been saved
    prompt,      \* the prompt on the customer's phone and its outcome
    deliveries,  \* posts of that outcome still to come
    cbJob,       \* job an unfinished callback transaction looked up
    cb,          \* progress of the callback transaction of a push
    pc,          \* next statement of a request
    thenPush,    \* the request goes on to push after accepting
    mine,        \* the Payment instance a request works on
    seen,        \* the status in that instance
    cur          \* the MpesaSTKRequest instance a request works on

quoteVars   == <<quote, quoteLock>>
paymentVars == <<payStatus, confirmed, payJob, payLock, jobs>>
pushVars    == <<pushPay, pushStatus, known>>
phoneVars   == <<prompt, deliveries>>
cbVars      == <<cb, cbJob>>
requestVars == <<pc, thenPush, mine, seen, cur>>
vars == <<quoteVars, paymentVars, pushVars, phoneVars, cbVars, requestVars>>

ActivePaymentStatuses == {"pending", "processing"}
OpenPushStatuses      == {"pending", "sent"}

\* "failed" stands for FAILED and CANCELLED: only the admin's sandbox
\* simulation, which is not modelled, tells them apart.
\* EXPIRED is never written.
PaymentStatus == {"absent", "pending", "processing", "paid", "failed"}
PushStatus    == {"absent", "pending", "sent", "success", "failed"}
PromptState   == {"none", "live", "paid", "failed"}
PC == {"idle", "accepting", "checkPaid", "lookup", "insert",
       "push", "reuse", "createPush", "daraja", "saveSent", "processing",
       "saveFailed", "reset"}

TypeOK ==
    /\ quote \in {"sent", "accepted"}
    /\ quoteLock \in SUBSET Requests
    /\ payStatus \in [Payments -> PaymentStatus]
    /\ confirmed \in SUBSET Payments
    /\ payJob \in [Payments -> Nat]
    /\ payLock \in [Payments -> Pushes \cup {NoRow}]
    /\ jobs \in Nat
    /\ pushPay \in [Pushes -> Payments \cup {NoRow}]
    /\ pushStatus \in [Pushes -> PushStatus]
    /\ known \in SUBSET Pushes
    /\ prompt \in [Pushes -> PromptState]
    /\ deliveries \in [Pushes -> 0..MaxDeliveries]
    /\ cb \in [Pushes -> {"idle", "holding"}]
    /\ cbJob \in [Pushes -> Nat]
    /\ pc \in [Requests -> PC]
    /\ thenPush \in [Requests -> BOOLEAN]
    /\ mine \in [Requests -> Payments \cup {NoRow}]
    /\ seen \in [Requests -> PaymentStatus]
    /\ cur \in [Requests -> Pushes \cup {NoRow}]

Init ==
    /\ quote = "sent"
    /\ quoteLock = {}
    /\ payStatus = [p \in Payments |-> "absent"]
    /\ confirmed = {}
    /\ payJob = [p \in Payments |-> NoRow]
    /\ payLock = [p \in Payments |-> NoRow]
    /\ jobs = 0
    /\ pushPay = [s \in Pushes |-> NoRow]
    /\ pushStatus = [s \in Pushes |-> "absent"]
    /\ known = {}
    /\ prompt = [s \in Pushes |-> "none"]
    /\ deliveries = [s \in Pushes |-> 0]
    /\ cb = [s \in Pushes |-> "idle"]
    /\ cbJob = [s \in Pushes |-> NoRow]
    /\ pc = [r \in Requests |-> "idle"]
    /\ thenPush = [r \in Requests |-> FALSE]
    /\ mine = [r \in Requests |-> NoRow]
    /\ seen = [r \in Requests |-> "absent"]
    /\ cur = [r \in Requests |-> NoRow]

-----------------------------------------------------------------------------
(***************************************************************************)
(* Helpers.                                                                *)
(***************************************************************************)

\* x is .order_by("-created_at", "-id").first() of the rows in S.
IsLatest(x, S) == x \in S /\ \A y \in S : y <= x

\* k is the next primary key a table hands out.
IsNextKey(k, status, Keys) ==
    /\ k \in Keys /\ status[k] = "absent"
    /\ \A m \in Keys : m < k => status[m] # "absent"

ActivePayments == {p \in Payments : payStatus[p] \in ActivePaymentStatuses}

OpenPushesOf(p) == {s \in Pushes : pushPay[s] = p /\ pushStatus[s] \in OpenPushStatuses}

\* The request returns its response, or an error: its transaction, if one is
\* open, ends and gives up its locks.
Finish(r) ==
    /\ pc' = [pc EXCEPT ![r] = "idle"]
    /\ thenPush' = [thenPush EXCEPT ![r] = FALSE]
    /\ mine' = [mine EXCEPT ![r] = NoRow]
    /\ seen' = [seen EXCEPT ![r] = "absent"]
    /\ cur' = [cur EXCEPT ![r] = NoRow]

GoTo(r, label) ==
    /\ pc' = [pc EXCEPT ![r] = label]
    /\ UNCHANGED <<thenPush, mine, seen, cur>>

-----------------------------------------------------------------------------
(***************************************************************************)
(* Accepting the quote: accept_quote_for_payment, then the three           *)
(* statements of create_payment_for_quote.                                 *)
(***************************************************************************)

\* CustomerQuoteRequestViewSet.accept saves the quote as ACCEPTED, outside any
\* transaction, before it goes on to accept_quote_for_payment.
MarkAccepted(r) ==
    /\ pc[r] = "idle"
    /\ quote = "sent"
    /\ quoteLock = {}
    /\ quote' = "accepted"
    /\ GoTo(r, "accepting")
    /\ UNCHANGED quoteLock
    /\ UNCHANGED <<paymentVars, pushVars, phoneVars, cbVars>>

\* QuoteAcceptView (push = FALSE) and the two initiate-STK views that accept
\* first (push = TRUE).  The quote row, joined with its request, is locked
\* until the transaction ends.
AcceptQuote(r, push) ==
    /\ \/ pc[r] = "idle"
       \/ pc[r] = "accepting" /\ push = FALSE
    /\ quoteLock = {}
    /\ quoteLock' = {r}
    /\ pc' = [pc EXCEPT ![r] = "checkPaid"]
    /\ thenPush' = [thenPush EXCEPT ![r] = push]
    /\ UNCHANGED <<quote, mine, seen, cur>>
    /\ UNCHANGED <<paymentVars, pushVars, phoneVars, cbVars>>

\* ClientLinkPaymentView: creates the payment of an accepted quote without
\* locking the quote, and leaves the push to another request.
ClientLinkPayment(r) ==
    /\ pc[r] = "idle"
    /\ quote = "accepted"
    /\ GoTo(r, "checkPaid")
    /\ UNCHANGED <<quoteVars, paymentVars, pushVars, phoneVars, cbVars>>

\* First query of create_payment_for_quote: a paid payment ends the request
\* with "This quote has already been paid."
CheckPaid(r) ==
    /\ pc[r] = "checkPaid"
    /\ IF \E p \in Payments : payStatus[p] = "paid"
         THEN Finish(r) /\ quoteLock' = quoteLock \ {r}
         ELSE GoTo(r, "lookup") /\ UNCHANGED quoteLock
    /\ UNCHANGED quote
    /\ UNCHANGED <<paymentVars, pushVars, phoneVars, cbVars>>

\* Mutant: the quote lock outlives the acceptance that goes on to push.
CommitWithKeptLock(r, p, st) ==
    /\ quote' = IF r \in quoteLock THEN "accepted" ELSE quote
    /\ quoteLock' = IF thenPush[r] THEN quoteLock ELSE quoteLock \ {r}
    /\ IF thenPush[r]
         THEN /\ pc' = [pc EXCEPT ![r] = "push"]
              /\ mine' = [mine EXCEPT ![r] = p]
              /\ seen' = [seen EXCEPT ![r] = st]
              /\ UNCHANGED <<thenPush, cur>>
         ELSE Finish(r)

\* The transaction of a create_payment_for_quote that returns payment p in
\* status st commits; an accepting one makes the quote accepted.
CommitWith(r, p, st) ==
    /\ quote' = IF r \in quoteLock THEN "accepted" ELSE quote
    /\ quoteLock' = quoteLock \ {r}
    /\ IF thenPush[r]
         THEN /\ pc' = [pc EXCEPT ![r] = "push"]
              /\ mine' = [mine EXCEPT ![r] = p]
              /\ seen' = [seen EXCEPT ![r] = st]
              /\ UNCHANGED <<thenPush, cur>>
         ELSE Finish(r)

\* Second query, FOR UPDATE: the latest active payment.  A row a callback
\* holds is waited for.
LookupActive(r) ==
    /\ pc[r] = "lookup"
    /\ \/ ActivePayments = {} /\ GoTo(r, "insert") /\ UNCHANGED quoteVars
       \/ \E p \in Payments :
            /\ IsLatest(p, ActivePayments)
            /\ payLock[p] = NoRow
            /\ CommitWith(r, p, payStatus[p])
    /\ UNCHANGED <<paymentVars, pushVars, phoneVars, cbVars>>

\* Payment.objects.create and COMMIT.  The foreign key needs a share lock on
\* the quote row, so another request's FOR UPDATE is waited for.
InsertPayment(r) ==
    /\ pc[r] = "insert"
    /\ quoteLock \subseteq {r}
    /\ \E p \in Payments :
         /\ IsNextKey(p, payStatus, Payments)
         /\ payStatus' = [payStatus EXCEPT ![p] = "pending"]
         /\ CommitWith(r, p, "pending")
    /\ UNCHANGED <<confirmed, payJob, payLock, jobs>>
    /\ UNCHANGED <<pushVars, phoneVars, cbVars>>

-----------------------------------------------------------------------------
(***************************************************************************)
(* Pushing: initiate_stk_push.  It opens no transaction: every statement   *)
(* commits by itself, and nothing is read again after the provider answers.*)
(***************************************************************************)

\* A push for an existing payment: PaymentInitiateSTKView with a payment_id,
\* whatever its status, and ManagedJobMpesaSTKPushView.
PushExisting(r, p) ==
    /\ pc[r] = "idle"
    /\ payStatus[p] # "absent"
    /\ pc' = [pc EXCEPT ![r] = "push"]
    /\ mine' = [mine EXCEPT ![r] = p]
    /\ seen' = [seen EXCEPT ![r] = payStatus[p]]
    /\ UNCHANGED <<thenPush, cur>>
    /\ UNCHANGED <<quoteVars, paymentVars, pushVars, phoneVars, cbVars>>

\* The guard on the instance's status, then the search for an open push.
PushCheck(r) ==
    /\ pc[r] = "push"
    /\ \/ seen[r] = "paid" /\ Finish(r)
       \/ /\ seen[r] # "paid"
          /\ OpenPushesOf(mine[r]) = {}
          /\ GoTo(r, "createPush")
       \/ /\ seen[r] # "paid"
          /\ \E s \in Pushes :
               /\ IsLatest(s, OpenPushesOf(mine[r]))
               /\ cur' = [cur EXCEPT ![r] = s]
          /\ pc' = [pc EXCEPT ![r] = "reuse"]
          /\ UNCHANGED <<thenPush, mine, seen>>
    /\ UNCHANGED <<quoteVars, paymentVars, pushVars, phoneVars, cbVars>>

\* payment.save(update_fields=["status", ...]): overwrites whatever status the
\* row has by now; only a row lock delays it.
SaveStatus(r, st) ==
    /\ payLock[mine[r]] = NoRow
    /\ payStatus' = [payStatus EXCEPT ![mine[r]] = st]
    /\ UNCHANGED <<confirmed, payJob, payLock, jobs>>
    /\ Finish(r)

\* mark_payment_processing, for a push found open and for one just sent.
MarkProcessing(r) ==
    /\ pc[r] \in {"reuse", "processing"}
    /\ SaveStatus(r, "processing")
    /\ UNCHANGED <<quoteVars, pushVars, phoneVars, cbVars>>

\* MpesaSTKRequest.objects.create.
CreatePush(r) ==
    /\ pc[r] = "createPush"
    /\ payLock[mine[r]] = NoRow
    /\ \E s \in Pushes :
         /\ IsNextKey(s, pushStatus, Pushes)
         /\ pushPay' = [pushPay EXCEPT ![s] = mine[r]]
         /\ pushStatus' = [pushStatus EXCEPT ![s] = "pending"]
         /\ cur' = [cur EXCEPT ![r] = s]
    /\ pc' = [pc EXCEPT ![r] = "daraja"]
    /\ UNCHANGED <<thenPush, mine, seen, known>>
    /\ UNCHANGED <<quoteVars, paymentVars, phoneVars, cbVars>>

\* The HTTP call to Daraja: taken and answered, taken with the answer lost
\* (a timeout), or refused.
CallDaraja(r) ==
    /\ pc[r] = "daraja"
    /\ \/ prompt' = [prompt EXCEPT ![cur[r]] = "live"] /\ GoTo(r, "saveSent")
       \/ prompt' = [prompt EXCEPT ![cur[r]] = "live"] /\ GoTo(r, "saveFailed")
       \/ UNCHANGED prompt /\ GoTo(r, "saveFailed")
    /\ UNCHANGED <<quoteVars, paymentVars, pushVars, deliveries, cbVars>>

\* The answer, with its checkout_request_id, is stored on the push.
SaveSent(r) ==
    /\ pc[r] = "saveSent"
    /\ pushStatus' = [pushStatus EXCEPT ![cur[r]] = "sent"]
    /\ known' = known \cup {cur[r]}
    /\ GoTo(r, "processing")
    /\ UNCHANGED pushPay
    /\ UNCHANGED <<quoteVars, paymentVars, phoneVars, cbVars>>

\* The exception branch: the push is FAILED; the payment goes back to PENDING
\* unless the instance says it already is.
SaveFailed(r) ==
    /\ pc[r] = "saveFailed"
    /\ pushStatus' = [pushStatus EXCEPT ![cur[r]] = "failed"]
    /\ IF seen[r] = "pending" THEN Finish(r) ELSE GoTo(r, "reset")
    /\ UNCHANGED <<pushPay, known>>
    /\ UNCHANGED <<quoteVars, paymentVars, phoneVars, cbVars>>

ResetPending(r) ==
    /\ pc[r] = "reset"
    /\ SaveStatus(r, "pending")
    /\ UNCHANGED <<quoteVars, pushVars, phoneVars, cbVars>>

\* The worker process dies: an open transaction rolls back, what was committed
\* stays.
Die(r) ==
    /\ pc[r] # "idle"
    /\ quoteLock' = quoteLock \ {r}
    /\ Finish(r)
    /\ UNCHANGED quote
    /\ UNCHANGED <<paymentVars, pushVars, phoneVars, cbVars>>

\* Bound: the rows this model has are used up, and the request ends as if it died.
OutOfRows(r) ==
    /\ \/ pc[r] = "insert" /\ \A p \in Payments : payStatus[p] # "absent"
       \/ pc[r] = "createPush" /\ \A s \in Pushes : pushStatus[s] # "absent"
    /\ Die(r)

-----------------------------------------------------------------------------
(***************************************************************************)
(* The customer and the provider (external).                               *)
(***************************************************************************)

\* The customer enters the PIN, cancels (result 1032), or the prompt fails; the
\* provider will post the result, once or, on a retry, more often.
CustomerAnswers(s) ==
    /\ prompt[s] = "live"
    /\ \E answer \in {"paid", "failed"} :
         prompt' = [prompt EXCEPT ![s] = answer]
    /\ \E n \in 1..MaxDeliveries : deliveries' = [deliveries EXCEPT ![s] = n]
    /\ UNCHANGED <<quoteVars, paymentVars, pushVars, cbVars, requestVars>>

-----------------------------------------------------------------------------
(***************************************************************************)
(* Callbacks: handle_stk_callback, one transaction.                        *)
(***************************************************************************)

\* Mutant: a post is accepted whether or not one was due.
DeliveredUnasked(s) ==
    /\ deliveries' = [deliveries EXCEPT ![s] = @ - 1]
    /\ UNCHANGED prompt

\* A post about push s arrives and finds the row and its payment unlocked.
Delivered(s) ==
    /\ deliveries[s] > 0
    /\ deliveries' = [deliveries EXCEPT ![s] = @ - 1]
    /\ UNCHANGED prompt

Found(s) == s \in known /\ cb[s] = "idle" /\ payLock[pushPay[s]] = NoRow

\* No MpesaSTKRequest has this checkout_request_id (its save has not happened,
\* or never will): ValidationError, nothing is written.
CallbackUnknown(s) ==
    /\ s \notin known
    /\ Delivered(s)
    /\ UNCHANGED <<quoteVars, paymentVars, pushVars, cbVars, requestVars>>

\* Mutant: a late failure overwrites PAID.
CallbackFailureUnguarded(s) ==
    /\ Found(s) /\ prompt[s] = "failed"
    /\ Delivered(s)
    /\ pushStatus' = [pushStatus EXCEPT ![s] = "failed"]
    /\ payStatus' = [payStatus EXCEPT ![pushPay[s]] = "failed"]
    /\ UNCHANGED <<confirmed, payJob, payLock, jobs, pushPay, known>>
    /\ UNCHANGED <<quoteVars, cbVars, requestVars>>

\* Result code other than 0: the push fails, and so does its payment unless it
\* is PAID (mark_payment_failed).
CallbackFailure(s) ==
    /\ Found(s) /\ prompt[s] = "failed"
    /\ Delivered(s)
    /\ pushStatus' = [pushStatus EXCEPT ![s] = "failed"]
    /\ payStatus' = [payStatus EXCEPT
         ![pushPay[s]] = IF @ = "paid" THEN @ ELSE "failed"]
    /\ UNCHANGED <<confirmed, payJob, payLock, jobs, pushPay, known>>
    /\ UNCHANGED <<quoteVars, cbVars, requestVars>>

\* Result code 0 for a payment that is PAID and has its job: only the push is
\* written.
CallbackRepeat(s) ==
    /\ Found(s) /\ prompt[s] = "paid"
    /\ payStatus[pushPay[s]] = "paid" /\ payJob[pushPay[s]] # NoRow
    /\ Delivered(s)
    /\ pushStatus' = [pushStatus EXCEPT ![s] = "success"]
    /\ UNCHANGED <<pushPay, known>>
    /\ UNCHANGED <<quoteVars, paymentVars, cbVars, requestVars>>

\* Result code 0 otherwise: with the push and the payment locked, the
\* transaction looks for a ManagedJob of the quote.
CallbackSuccess(s) ==
    /\ Found(s) /\ prompt[s] = "paid"
    /\ ~ (payStatus[pushPay[s]] = "paid" /\ payJob[pushPay[s]] # NoRow)
    /\ Delivered(s)
    /\ payLock' = [payLock EXCEPT ![pushPay[s]] = s]
    /\ cb' = [cb EXCEPT ![s] = "holding"]
    /\ cbJob' = [cbJob EXCEPT ![s] = jobs]
    /\ UNCHANGED <<payStatus, confirmed, payJob, jobs>>
    /\ UNCHANGED <<quoteVars, pushVars, requestVars>>

EndCallback(s) ==
    /\ payLock' = [payLock EXCEPT ![pushPay[s]] = NoRow]
    /\ cb' = [cb EXCEPT ![s] = "idle"]
    /\ cbJob' = [cbJob EXCEPT ![s] = NoRow]

\* It commits: push SUCCESS, payment PAID and linked to the job it found, or
\* to one it inserts.  The insert needs a share lock on the quote row.
CallbackCommit(s) ==
    /\ cb[s] = "holding"
    /\ cbJob[s] = NoRow => quoteLock = {}
    /\ LET p   == pushPay[s]
           job == IF cbJob[s] = NoRow THEN jobs + 1 ELSE cbJob[s]
       IN  /\ pushStatus' = [pushStatus EXCEPT ![s] = "success"]
           /\ payStatus' = [payStatus EXCEPT ![p] = "paid"]
           /\ confirmed' = confirmed \cup {p}
           /\ payJob' = [payJob EXCEPT ![p] = job]
           /\ jobs' = IF cbJob[s] = NoRow THEN job ELSE jobs
    /\ EndCallback(s)
    /\ UNCHANGED <<pushPay, known>>
    /\ UNCHANGED <<quoteVars, phoneVars, requestVars>>

\* Mutant: the job is committed before the payment is.
CallbackAbortKeepsJob(s) ==
    /\ cb[s] = "holding"
    /\ EndCallback(s)
    /\ jobs' = IF cbJob[s] = NoRow THEN jobs + 1 ELSE jobs
    /\ UNCHANGED <<payStatus, confirmed, payJob>>
    /\ UNCHANGED <<quoteVars, pushVars, phoneVars, requestVars>>

\* Its worker dies, or PostgreSQL chooses it as a deadlock victim: it rolls back.
CallbackAbort(s) ==
    /\ cb[s] = "holding"
    /\ EndCallback(s)
    /\ UNCHANGED <<payStatus, confirmed, payJob, jobs>>
    /\ UNCHANGED <<quoteVars, pushVars, phoneVars, requestVars>>

-----------------------------------------------------------------------------
(***************************************************************************)
(* Deadlock.  An accepting request holds the quote and waits for a payment *)
(* row; the callback holding that payment waits for the quote.  PostgreSQL *)
(* notices after deadlock_timeout and rolls one of the two back.           *)
(***************************************************************************)

Deadlocked(r, s) ==
    /\ pc[r] = "lookup" /\ r \in quoteLock
    /\ \E p \in Payments : IsLatest(p, ActivePayments) /\ payLock[p] = s
    /\ cb[s] = "holding" /\ cbJob[s] = NoRow

BreakDeadlock(r, s) ==
    /\ Deadlocked(r, s)
    /\ Die(r) \/ CallbackAbort(s)

-----------------------------------------------------------------------------

RequestStep(r) ==
    \/ pc[r] = "accepting" /\ AcceptQuote(r, FALSE)
    \/ CheckPaid(r) \/ LookupActive(r) \/ InsertPayment(r)
    \/ PushCheck(r) \/ MarkProcessing(r) \/ CreatePush(r) \/ CallDaraja(r)
    \/ SaveSent(r) \/ SaveFailed(r) \/ ResetPending(r)

CallbackStep(s) ==
    \/ CallbackUnknown(s) \/ CallbackFailure(s) \/ CallbackRepeat(s)
    \/ CallbackSuccess(s) \/ CallbackCommit(s)

Next ==
    \/ \E r \in Requests :
         \/ \E push \in BOOLEAN : AcceptQuote(r, push)
         \/ MarkAccepted(r)
         \/ ClientLinkPayment(r)
         \/ \E p \in Payments : PushExisting(r, p)
         \/ RequestStep(r)
         \/ Die(r)
    \/ \E s \in Pushes : CustomerAnswers(s) \/ CallbackStep(s) \/ CallbackAbort(s)
    \/ \E r \in Requests, s \in Pushes : BreakDeadlock(r, s)

Spec == Init /\ [][Next]_vars

\* A live worker executes its next statement, a callback that has arrived is
\* processed, PostgreSQL grants a row lock to those who wait for it in turn
\* (strong fairness) and breaks deadlocks.  Nobody is obliged to answer a
\* prompt, to start a request or to die.
Fairness ==
    /\ \A r \in Requests : SF_vars(RequestStep(r)) /\ WF_vars(OutOfRows(r))
    /\ \A s \in Pushes : SF_vars(CallbackStep(s))
    /\ \A r \in Requests, s \in Pushes : WF_vars(BreakDeadlock(r, s))

FairSpec == Spec /\ Fairness

-----------------------------------------------------------------------------
(***************************************************************************)
(* Properties.                                                             *)
(***************************************************************************)

\* "Paid" is never shown unless the provider confirmed it (payments/states.py,
\* law 10.7): a PAID payment was confirmed, a confirmed payment has a push whose
\* prompt the customer paid, and its ManagedJob, made in the same transaction.
PaidIsBacked ==
    \A p \in Payments :
      /\ payStatus[p] = "paid" => p \in confirmed
      /\ p \in confirmed =>
           /\ payJob[p] \in 1..jobs
           /\ \E s \in Pushes : pushPay[s] = p /\ prompt[s] = "paid"

\* "A ManagedJob cannot exist until a client has paid" (README.md:26): the
\* callbacks never create more jobs than there are confirmed payments.
NoUnpaidJob == jobs <= Cardinality(confirmed)

\* Money and jobs agree in both directions: no payment shows PAID without the
\* customer's prompt and its job, and no job exists without its own payment.
MoneyBacksJobs == PaidIsBacked /\ NoUnpaidJob

\* A PAID payment leaves PAID only when a push that began earlier saves the
\* status it decided on before: no callback and no acceptance takes it back.
OnlyAStalePushUnpays ==
    [][\A p \in Payments : payStatus[p] = "paid" /\ payStatus'[p] # "paid" =>
         \E r \in Requests :
           /\ mine[r] = p /\ pc[r] \in {"reuse", "processing", "reset"}
           /\ pc'[r] = "idle"]_vars

\* Payments whose prompt the customer has paid.
Received == {p \in Payments : \E s \in Pushes : pushPay[s] = p /\ prompt[s] = "paid"}

\* The tables keep the promise of PaymentLedger: whatever is saved late, posted
\* twice or rolled back, a commit that confirms a payment finds its money, links
\* a job, and inserts one only for a payment not confirmed before.
\* Code: payments/services.py:605-677, jobs/services/managed_job_creation.py:198.
Ledger == INSTANCE PaymentLedger WITH
    received <- Received,
    shown <- {p \in Payments : payStatus[p] = "paid"},
    jobOf <- payJob

KeepsLedger == Ledger!Spec

\* Requests and callbacks that lock the quote, the push and the payment in
\* different orders all come to an end.
EveryCallEnds ==
    /\ \A r \in Requests : pc[r] # "idle" ~> pc[r] = "idle"
    /\ \A s \in Pushes : cb[s] # "idle" ~> cb[s] = "idle"
=============================================================================
