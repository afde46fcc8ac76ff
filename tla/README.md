# Printy API: specifications, model checking and proofs

Printy is a print marketplace for Kenya: a Django/DRF application over one PostgreSQL database.
A client asks for a quote, a print manager prices it, the client accepts and pays by M-Pesa, a
print shop produces and delivers, and manager and shop are paid out.  This directory holds TLA+
models of the parts of that program where the order of events matters, the TLC configurations
that check them on small instances, and theorems about them that TLAPS proves for every instance.

Contents: [1 The system](#1-the-system) - [2 The modules](#2-the-modules) -
[3 The runs](#3-the-runs) - [4 The proofs](#4-the-proofs) -
[5 What the models found](#5-what-the-models-found) - [6 Limits](#6-limits) - [7 Plan](#7-plan).

How to run everything, in this directory:

    tlc -config MCPaymentFlow.cfg MCPaymentFlow     # and so on for each .cfg, see section 3
    tlapm PaymentFlowProofs.tla                     # and so on for each *Proofs.tla

## 1. The system

### 1.1 Components

Paths are relative to the repository's root.  "Modelled by" is empty for a part that has no model;
section 6 says why and section 7 what is planned.

| Component | State it keeps | Operations that change it | What makes it correct | Modelled by |
|---|---|---|---|---|
| canonical payments, `payments/` | `Payment`, `MpesaSTKRequest` | create a payment at acceptance or from a client link, push, provider callback | PAID only on the provider's word; a job for every paid payment and no more; no request hangs | PaymentFlow, PaymentLedger |
| M-Pesa transactions, `mpesa_payments/` | `MpesaPayment`, callback log | initiate, STK callback, status query, status-query result, `mpesa_reconcile`, admin flag, settlement receiver | PAID by a matching receipt only; settled once; nothing pending for ever | MpesaCashier |
| quote price, acceptance and charge, `quotes/acceptance.py`, `pricing/services/platform_fee_policy.py`, quote views of `api/` | `Quote.status/total/accepted_at`, `QuoteRequest.status`, `QuoteFinancialSplit`, `Payment.amount` | accept (four ways), adjust, respond, send, patch financials, reject, cancel, expire | after acceptance the client is asked for the frozen split, which nobody rewrites | QuoteCharge, PriceAgreement |
| dispatch, assignments, delivery, payouts, `jobs/` | `ManagedJob`, `JobAssignment`, `ManagedJobPayout` | confirm payment, create-job, dispatch, auto-dispatch, six shop transitions, deliver, complete, release | dispatched and paid out once, whole, after the money; work in order | JobFulfilment |
| artwork gate, `jobs/artwork_workflow.py`, `jobs/artwork_confirmation.py` | `ManagedJob.workflow_metadata`, the job's artwork file | claim, accept, decline, acknowledge, upload, ask, approve, reject | nothing is recorded that nobody said; a decision and an approval stand | ArtworkGate |
| job files and proofs, `jobs/file_services.py`, `jobs/views.py` | `JobFile`, `ManagedJob.artwork_reminder_sent` | import, upload, release, withhold, approve, reject, ask for a revision, print ready, remind | the client sees what a manager released; a verdict stands; few reminders | JobFiles |
| quote versions, outcomes, price transactions, `quotes/snapshots.py`, `quotes/transactions.py`, `quotes/guardrails.py` | `QuoteVersion`, `PriceTransaction` | new version, supersede, outcome, expiry, settlement | the latest version is in force, one is open, the accepted one is settled at its price | QuoteVersions |
| pricing of a request, `quotes/pricing_service.py`, `api/views.py`, `api/serializers.py`, `api/quote_views.py` | `QuoteItem`, the offer's total | add, edit, tweak, remove, submit, send | a sent total is the sum of its lines; an outdated price is flagged | QuotePricing, PriceRules |
| rate cards, `services/pricing/mvp_rate_card.py`, `pricing/models.py` | `ShopRateCardSetup`, the live rates | load, save, edit a rate directly | a checked save loses nobody's work; a version names one card | RateCard |
| fee policy, `pricing/services/platform_fee_policy.py` | - (pure) | split a sale | the shares add up to the client's total, the shop gets its cost | PriceRules |
| client invites and managed clients, `accounts/services/client_invites.py`, `clients/services/managed_clients.py` | `ClientInvite`, `QuoteRequest.on_behalf_of` | create for a client, attach, send, invite, claim, expire, register | one open invite, one claimed; the client owns every open request of the phone | ClientOnboarding |
| messages and e-mail outbox, `quotes/messaging.py`, `process_email_outbox` | `EmailOutbox`, `QuoteRequestMessage.email_status` | queue, send at once, in a thread, from cron, mark | sent once, tried a bounded number of times, and the message tells it | EmailOutbox |
| timing and SLA, `jobs/timing*.py` | due dates, stage columns, event log | set at acceptance, acknowledge, assert, project | no production without a due date; due dates and stage windows are working time | WorkingCalendar, JobFulfilment |
| booklets, previews, projections, `services/pricing/` | - (pure) | price, preview, project | - | - |
| OTP and client links, `clients/` | `ClientOtp`, links | send, resend, verify | access control | - |
| production matching, `services/production_matching.py` | - (reads only) | rank shops | - | - |
| direct submission and intake, `quotes/direct_shop_submission.py`, `client_calculator/` | creates quotes and requests | submit | - | - |
| artwork before a quote, `quotes/pending_artwork.py` | token-keyed files | upload, attach, purge | - | - |
| legacy production orders, `production/` | `ProductionOrder` | created by create-job, mirrored | - | JobFulfilment (its effect on the assignment) |
| workflow demo, `workflow/` | its own rows | transitions by role | - | - |
| notifications | `Notification` | `get_or_create` on a key | best effort | - |
| accounts, roles; catalogue, shops, inventory, set-up; gallery, contact, locations, seeds | records | CRUD, permissions | - | - |

### 1.2 How they interact

Every web request runs in a worker process of its own.  There is no `ATOMIC_REQUESTS`: outside an
explicit `transaction.atomic()` each SQL statement commits by itself, and PostgreSQL runs at READ
COMMITTED, so two statements of one transaction may see different committed data.  Components
share state in four ways only:

* **rows**, read by one request and saved by another, often with `save()` of every column or of
  one JSON column, from an instance read before;
* **row locks** (`select_for_update`): the quote during acceptance, push and payment during a
  callback, the job during dispatch and payout release, an `MpesaPayment` during its callback;
* **the provider** (Daraja), called over HTTP in the middle of a request, which posts the result
  of a prompt to `/api/payments/mpesa/callback/` in a request of its own: once, several times,
  before the first request has saved the id the post carries, or never;
* **callbacks inside the process**: `transaction.on_commit` (auto-dispatch after a payment, the
  `mpesa_payment_confirmed` signal and its receiver), whose failures are logged and swallowed, and
  cron commands (`mpesa_reconcile`, expiry of quotes, the e-mail outbox).

The life of an order crosses all the models.  A client with nothing but a phone number is invited
and claims the requests a manager made for them (ClientOnboarding); the items of a request are
priced from the shop's rate card and sent as an offer (QuotePricing, RateCard, PriceRules); every
offer the buyer saw is a version (QuoteVersions) and a message with an e-mail (EmailOutbox); the
offer is edited, accepted and its split frozen (QuoteCharge); its payment is created and collected
(PaymentFlow, or MpesaCashier for a payment started from the job); the callback that confirms it
settles the accepted version (`SettledVersion` of QuoteVersions) and creates the job (PaymentFlow,
`PaymentConfirmed` of JobFulfilment); the artwork gate opens (ArtworkGate, `gate` of
JobFulfilment) and proofs go between shop, manager and client (JobFiles); the job is dispatched,
produced, delivered and paid out (JobFulfilment).

### 1.3 What is hard in it

* a request that *reads, calls the provider, and saves* what it read (`initiate_stk_push`,
  `query_stk_status`, `mpesa_reconcile`);
* a view that *reads and checks* a row without a lock, and a service that saves it later (the shop's
  transitions, the artwork steps, every editor of a quote);
* two modules that own keys of one JSON column and both write the whole column;
* handlers that commit in the middle (ACCEPTED before the acceptance proper, the resent total
  before its split, the file before the metadata that records it);
* locks taken in opposite orders (acceptance: quote, then payment; callback: payment, then quote);
* posts that come twice, late, early or never; workers that die between two commits;
* locks taken on a row that may not exist yet (first save of a rate card, first invite of a phone):
  two first comers lock nothing;
* numbers read and inserted without a lock (`QuoteVersion`), where only a unique constraint stands
  between two writers;
* a chain of autocommitted writes that ends with a price (`QuoteItemWriteSerializer.update`), so
  that specification and price of an item are apart in between, or for good if the chain breaks.

`PROJECT.json` lists 40 such hazards at the line where each bites, with the properties that would
catch it going wrong.

## 2. The modules

| Module | What it is |
|---|---|
| `PaymentFlow` | one quote's payments, pushes, callbacks, and the jobs callbacks create |
| `PaymentLedger` | abstract: what collecting money promises; PaymentFlow implements it |
| `MpesaCashier` | the transactions of `mpesa_payments` for one job |
| `JobFulfilment` | one job and its assignment, from creation to payout |
| `WorkingCalendar` | working time, due dates, stage windows and lateness, as functions; no state |
| `ArtworkGate` | one job's `workflow_metadata` and the dispatch it gates |
| `JobFiles` | the files of one job and the verdicts on its proofs |
| `QuoteCharge` | one quote's price from offer to charge |
| `PriceAgreement` | abstract: what acceptance promises about the price; QuoteCharge implements it |
| `QuoteVersions` | the versions of the quotes of one request |
| `PriceRules` | the arithmetic of a price and of its split, as operators; no state |
| `RateCard` | one shop's rate card, its versions and the live rates |
| `QuotePricing` | the items of one request and the offer made for them; EXTENDS RateCard and PriceRules |
| `ClientOnboarding` | the invites, accounts and requests of one phone number |
| `EmailOutbox` | the e-mail copy of one message and everybody who tries to send it |
| `MC*` | the modules extended with constants and their symmetry, for TLC; `MCJobDesk` holds ArtworkGate and JobFiles, which share nothing: an instance is of the one or of the other |
| `*Proofs` | theorems, for TLAPS: PaymentFlow, MpesaCashier, JobFulfilment with WorkingCalendar, JobDesk (ArtworkGate, JobFiles), QuoteCharge, QuoteRecord (QuoteVersions, EmailOutbox), ClientOnboarding, Pricing (QuotePricing, RateCard, PriceRules) |

Conventions.  An action is one SQL statement, or a group of statements no other transaction can
separate.  A handler that has a lock and reads again under it is one action; a handler that reads
first and saves later is a `Begin`/`Read` action and one action per later save, and the instance
it holds in between is state (`seen`, `doing`, `row`, `task`).  Refused requests change nothing
and need no action, except where the refusal comes after a commit.  The worker of a request can
die between any two of its actions (`Die`, `RequestDies`, `Abandon`, `Stop`, `CreateJobDies`,
`AutoDispatchLost`, `SettlementLost`).  A definition marked *Mutant* is a plausible bug of the
definition after it: the property of the run it belongs to must fail when it is put in its place.

### 2.1 PaymentFlow and PaymentLedger

State: `quote` (accepted or not) and `quoteLock`, the holder of its row lock; per payment
`payStatus`, `confirmed`, `payJob`, `payLock`; `jobs`, the number of managed jobs of the quote;
per push `pushPay`, `pushStatus`, `known` (checkout id saved), `prompt` (the customer's phone),
`deliveries` (posts still to come), `cb`/`cbJob` (a callback transaction in progress and the job
it looked up); per request `pc` (its next statement), `mine`, `seen`, `cur` (payment instance,
its status when read, push instance), `thenPush`.

| Action | Code |
|---|---|
| `MarkAccepted` | `CustomerQuoteRequestViewSet.accept`, `api/quote_views.py`: the save before the acceptance |
| `AcceptQuote(r, push)` | `accept_quote_for_payment`, from the quote views or the two STK views that accept first |
| `ClientLinkPayment` | `ClientLinkPaymentView`, `clients/views.py`: no lock on the quote |
| `CheckPaid`, `LookupActive`, `InsertPayment` | the three statements of `create_payment_for_quote`, `payments/services.py` |
| `PushExisting`, `PushCheck`, `MarkProcessing`, `CreatePush`, `CallDaraja`, `SaveSent`, `SaveFailed`, `ResetPending` | `initiate_stk_push` and its callers: no transaction, no second read |
| `CustomerAnswers` | customer and provider (external) |
| `CallbackUnknown`, `CallbackFailure`, `CallbackRepeat`, `CallbackSuccess`, `CallbackCommit`, `CallbackAbort` | `handle_stk_callback`, `mark_payment_paid/failed`, `create_managed_job_from_payment` |
| `Deadlocked`, `BreakDeadlock` | PostgreSQL's deadlock detector |

`PaymentLedger` has five variables and three actions: money comes in for a payment; a payment it has
come in for is confirmed, says PAID and is linked to a job, a new one only if it was not confirmed
before; and a payment may stop saying PAID, which takes back neither confirmation nor job.
`KeepsLedger` is its specification under `received <- Received, shown <- {p \in Payments :
payStatus[p] = "paid"}, jobOf <- payJob`, with `confirmed` and `jobs` by their own names.  Locks,
pushes, posts and what requests remember are hidden.  It is proved (section 4), not a property of a run.  The ledger is weaker than the documents: it
allows two payments of one quote, each confirmed with a job of its own (section 5.2).

### 2.2 MpesaCashier

State: per row `status`, `recon`, `checkout` (id saved; all other rows hold the same unique `""`),
`receipts`, `push` (the request that makes the row), `prompt`, `posts`, `age`; `settling` and
`settled` (the signal after commit), `jobPaid`; per check (a user's query, the admin's flag, the
reconcile command) `task` and `row`, what it decided on the instance it read; `batch`, the rows the reconcile run in progress has
fetched and not yet handled.

`CreatePayment`, `CallDaraja`, `MarkRejected`, `MarkPushSent` are `MpesaStkPushView` and
`initiate_stk_push`; the `Callback*` actions are `process_callback` with the row locked;
`StatusResult` is `process_transaction_status_result`; `SettleManagedJob` and `SettlementLost` are
the signal and `receivers.py`; `BeginQuery`, `BeginFlag`, `Reconcile` and `FinishQuery`,
`FinishFlag`, `FinishCancel` are the unlocked checks.  `mpesa_reconcile` fetches all stale pending rows when
it starts (`FetchStale`) and handles one after the other as it read them then (`Reconcile`).  `Age` is the clock.

### 2.3 JobFulfilment

State: the columns of the job the handlers' guards read (`status`, `payStatus`, `asgStatus`,
`assignedShop`, `dispatched`, `due`, `hold`, `stamps`, and `manager`: whether the split gives the
manager a share and whether there is a recipient), the active `assignment` and whether it carries the
shop's share (`shopShare`), `split` (whether the quote has its QuoteFinancialSplit; a quote can be
accepted without one, section 5.2, and get it later), `doing` (what each unlocked request is about
to save), `older` (history: the requests that were in progress when the assignment was rejected),
`gate` (ArtworkGate's answer, which may change at any time), `paid` (history: money arrived),
`auto` (auto-dispatches that wait for a commit, or are past their own checks), `ordered`
(create-job's production order), and the counters `dispatches`, `released`, `transfers`.

`PaymentConfirmed` is `create_managed_job_from_payment`.  create-job (`QuoteViewSet.create_job`,
`managed_services.py`) is a request of its own whose commits are `BeginCreateJob`, `CreateOrder`,
`CreateJob`, `CreateAssignment` (twice for a new job with a shop) and `AttachOrder`; two can overlap
and each can die anywhere.  Each existence check is merged with its INSERT: the job's reference and
the active assignment are unique, so who loses the race fails.  `AutoDispatchChecks` is the unlocked
part of `ensure_job_assignment_for_paid_job`; `Dispatch` and `AutoDispatch` are its and the manager's
way into `DispatchJobToShop`, which locks; `Begin`/`FinishTransition` are the six transitions of
`assignment_services.py`; `FinishDeliver`, `FinishConfirm` are `delivery_services.py`;
`FinishSettle` is `mpesa_payments/receivers.py`; `ReleasePayouts` is `payout_services.py`.  A split's
shop payout is taken to be positive (it rounds to 0 only for production below half a shilling), and
shops and brokers are not deleted.

`WorkingCalendar` has the functions of `jobs/timing.py` the due date comes from:
`NextWorkingInstant` and `WorkOff` are the loops of `next_working_instant` and `add_working_hours`
as recursive functions (their limit of 3660 rounds, ten years of days, is left out), `StageEnds`,
`ComputeDueDate` and `DueDateAtAcceptance` what is placed at acceptance, `StageOverdue`,
`LateByMinutes` and `LateAtAll` what the projections say of it.  `MCJobFulfilment` EXTENDS it next to JobFulfilment.

### 2.4 ArtworkGate

State: `meta`, the column as the two modules read it; `file`; per request `doing` (operation,
what it read, whether its check has passed); `dispatched`; the history variables `decided`,
`said`, `overlapped`.  `Read` is the view that loads the job, `Check` the service's conditions (and,
for an upload, the file stored in a transaction of its own), `Save` the write of the whole column,
`Stop` a refusal or a death.  `May` and `Changed` hold the conditions and effects of the nine
operations.

### 2.5 QuoteCharge and PriceAgreement

State: `status`, `acceptedAt`, `total`, `lapsed` of the quote; `req`, `flagged` of its request;
`split` and `locked`, the financial split; `charge`, the amount of the open payment; per request
`at` (next step), `seen` (instance read), `asked` (amount carried); the history variables
`settled` (an acceptance went through), `overlapped` and `raced` (what was in progress when the
first one did).

`AcceptAndPay`, `SaveAccepted` + `AcceptSaved`, and `Respond` are the ways to accept; all end in
`accept_quote_for_payment` (`Accept`), `ensure_quote_financial_split` (`NewSplit`) and
`create_payment_for_quote`.  `Adjust` + `AdjustStatus` (the serializer's two saves) + `Adjusted` are `QuoteViewSet.partial_update`,
`UpdateResponse` is `update_quote_response`, `SendToClient` + `SplitSent` + `ReadSplit` +
`AskClient` are `PartnerQuoteSendToClientView`, `PatchFinancials` the financials endpoint,
`ExpireQuote` is `expire_quote`; `SiblingAccepted`, `ShopTakesRequest`, `RecordOverride`,
`AcknowledgePrice` are other writers of the same rows, each one read and save.

`PriceAgreement` has four variables and three actions: a price may be worked out again until it is
frozen; a client who has not agreed may be asked for any amount; agreement freezes the price and
asks for it.  `KeepsAgreement` is its specification under
`price <- split, frozen <- locked, agreed <- (settled /\ ~raced)`.

### 2.6 JobFiles

State: `files`, the rows (type, visibility, status); `call`, what each request does, to which file,
and the row it loaded; `reminded`, the job's flag; the history variables `released`, `reminders`,
`deaths`.  `AddFile` is `create_job_file` under its callers; `OpenFile` + `SaveVerdict` are the
verdict views, which load a file without a lock, and the services, which check what was loaded
(`MayJudge`) and save two or three columns (`Judged`); `OpenJob`, `Remind`, `Record` are
`PartnerJobListDetailView.get` and `notify_missing_artwork`: the flag is read, the messages go out,
the flag is saved; `Drop` is a refusal or a death.  `ClientSees` is the filter of
`get_visible_job_files_for_actor`.

### 2.7 QuoteVersions

State: per quote `status` and `total`, the request's `req`, the sequence `versions` (quote, price,
outcome; position is `version_number`), `agreed`, and per worker what it does and has read.
`StartOnQuote` and the `Save*` actions are the callers (revise, send, reject, expire, refuse), each
of which saves the quote or request first (`op` says which it is throughout, `early` what was accepted since it began); `ReadOpen`, `ReadNumber`, `Insert`, `RecordFails` are
`record_quote_version`, a transaction that reads without a lock and may violate the unique
constraint; `ReadLatest`, `SaveOutcome` are `mark_quote_outcome`; `SaveExpired`, the outcome and
`SaveEnded` are `expire_quote`: quote, version, request; `StartStale`, `SaveStale`, `SaveRetired`, `SaveOutcome`
are `expire_quotes`: quote, request, version.  `Accept` is `accept_quote_for_payment`, one action because
every insert of a version waits for the rows it locks; its checks of the validity period and of a
changed price are left out (QuoteCharge has them), so it accepts more often than the code does.  `SettledVersion` is `_accepted_version_for`.

### 2.8 RateCard, PriceRules, QuotePricing

`RateCard`: the saved `card` (version, rows, and a `serial` that tells copies apart), the live
`rates`, and per page what it loaded.  `Load`, `Begin`, `Commit` are `build_shop_rate_card_setup`
and `save_shop_rate_card_setup`; `Begin` takes the row lock and compares versions, if there is a
row; `DirectEdit` are the views that edit one rate and change no version.

`PriceRules`: rounding as `common/money.py` and PostgreSQL do it, imposition and the sheets billed,
single and double print prices, finishing with what an item says of it (an `Entry`: a price of its
own and its sides), rolls, the tiers and limits of the fee policy and the three shares; each operator
is named for the function it stands for in `PROJECT.json`.  Prices and rates may be below zero: no
column or serializer forbids it.  The rolls are the gallery's (`compute_pricing_from_spec`).

`QuotePricing`: the request's `status`, its `items` (specification, finishing entry, `line`, and `of`,
what the line was computed for), its `offers`, and per worker the call it serves.  `BeginChange`, `BeginAdd`,
`BeginRemove`, `BeginSubmit`, `BeginSend` are the views' checks of the status; `Save`, `Clear`,
`Attach`, `Price`, `StoreEdit`, `Flag` are the statements of `QuoteItemWriteSerializer.update`,
each committed on its own; `TweakWrite` and `StoreOwn`, `CommitItem` are the tweak and the
transactional additions; `Fetch`, `StoreSend`, `Sum`, `CommitSend` are `send_quote`; `Total` is its `sum()`, `SentRow` what it
leaves of a row.  `Wrote` are the rows a call has written and not committed, and so locks;
`HoldsFinishing` says whose finishing a tweak holds too, and `FinishingSeen` which finishing a pricing
reads: its transaction's own, or the committed one.  `Price` reads the paper and the finishing,
`StoreEdit`, `StoreOwn` and `StoreSend` the printing rate, and a card may be saved in between.  A roll item raises in
its pricing, since a `QuoteItem` has no material (`quotes/pricing_service.py:622`): an edit or an addition flags
it (`Flag`), a tweak or a send fails (`Fail`).  History marks: `met`, the items a call under way shares
with another; `disturbed`, those that calls shared, or an edit died on, until a call that has the item
to itself prices it; `late`, a line written after the sum it should be in.

### 2.9 ClientOnboarding

State: the `accounts`, `invites` and `requests` that carry one phone, and per worker its call.
`Begin`, `Resolve`, `Want`, the lock and insert steps and `Write*` are the manager's transactions
(create for a client, invite, attach of the phone's client or of another one).
`PartnerQuote` is `create_partner_quote`, which looks up no account.  `SendContact`, `SendAnswer` and
`SendFinal` are the three saves `PartnerQuoteSendToClientView` makes of a request, each a commit of
the copy loaded at first.  `ClaimLock` and `ClaimCommit` are the claim, which makes the account and
links the requests of the phone (`Adopted`) but for those ACCEPTED or CANCELLED (`SetAside`); ACCEPTED
is what the shop says when it starts on a quote, so such a request goes on (`SetStatus`).
Registration, expiry, the offline claim and rollbacks are actions of their own.  History marks:
`dirty` and `late` say that a call was already running when another committed to what it had read,
`skipped` that no linking took the row.

### 2.10 EmailOutbox

State: the settings `mode` and `atomic`, the progress `stage` of `create_quote_message`, the
message's `msg`, the outbox `row`, and per sender what it does and the attempts it has read.
`CreateMessage`, `Enqueue`, `EnqueueFails`, `CloseMessage` are `create_quote_message`;
`StartThread`, `Provider`, `MarkRow`, `MarkMessage` the automatic sender, which has no lock; `Take`,
`Provider`, `Mark` one run of `process_email_outbox`, which locks the row; `Die` a death or an
answer that is lost.
## 3. The runs

Every run of the table is one question; each property of a passing run also has a mutant of the
code's definition (`PROJECT.json`) under which TLC finds it violated.

| Run (`.cfg`) | Instance | What it shows |
|---|---|---|
| `payment_flow` (`MCPaymentFlow`) | 2 requests, 2 payments, 2 pushes, 1 post each | `MoneyBacksJobs`: PAID only with a confirmation, a paid prompt of its own push and its job, and never more jobs than confirmed payments. `OnlyAStalePushUnpays`: PAID is lost only to the stale save of a push that began earlier. |
| `payment_flow_live` (`MCPaymentFlowLive`) | 2 requests, 2 payments, 1 push, 2 posts | `EveryCallEnds`: the opposite lock orders, with PostgreSQL breaking deadlocks, never leave a request or a callback hanging |
| `cashier` (`MCMpesaCashier`) | 2 rows, 1 user and cron, 2 posts | `ReceiptsDecide` (PAID by a matching receipt, and a row with a receipt is terminal) and `SettlementIsReal` (settled once, and only a settlement makes the job paid) against duplicate, early, late and lost posts and checks on stale instances |
| `cashier_live` (`MCMpesaCashierLive`) | 2 rows, cron only, 1 post | `NothingStaysPending`, although every post may be lost |
| `fulfilment` (`MCJobFulfilment`) | 2 unlocked requests or create-jobs | `DispatchIsWhole` (once, with its assignment), `PayoutsAreRight` (once per role, from money that arrived, to all who are owed), `WorkInOrder`, `RejectedForGood` (against all but what had read before the rejection, and an order's copied status); and `DueDatesKeepWorkingTime`: the loops of the calendar against a count of working ticks, for every start in two weeks with a four-day week end |
| `artwork_and_files` (`MCJobDesk`) | 2 requests on the metadata, or 2 on 2 files with 1 death | `MetadataIsTrue` (nothing invented under any interleaving; the last decision stands until two overlap); `ClientSeesReleased`, `VerdictsStand`, `RemindersAreFew` under stale saves |
| `quote_charge` (`MCQuoteCharge`) | 2 requests, 2 amounts | `ChargeIsFrozenPrice`, `AcceptedOnlySuperseded`, and the refinement `KeepsAgreement` |
| `quote_versions` (`MCQuoteVersions`) | 2 workers, 2 quotes, 2 prices, 3 versions, 3 tasks | `VersionsInOrder` (no quote is left with a superseded latest version; serially one is open), `SettledAtAgreedPrice`, `AcceptedVersionStands` (under any overlap, but for what began before the acceptance) |
| `email_outbox` (`MCEmailOutbox`) | the automatic sender and 2 cron runs, 5 attempts, 2 faults | `SendsAreFew` (once unless senders overlap; tries bounded), `RecordsTell` (row and message say what happened), `EndsSentOrGivenUp` (liveness) |
| `client_onboarding` (`MCClientOnboarding`) | 2 workers, 1 request, 2 invites, 2 accounts | `InvitesEndOnce` (one open, one claimed, none for a client), `ClientOwnsTheirRequests` (but for rows the linking passes over and overtaken calls), `RequestKeepsItsClient` |
| `quote_pricing` (`MCQuotePricing`) | 2 workers, 2 rate card pages, 2 items, 3 calls | `SentOfferAddsUp` (whatever the buyer writes while the send prices), `StalePriceIsFlagged` (also after overlaps and deaths, once a call alone has priced the item), `PricesAreSound` (a line covers its sheets under any finishing price the buyer types, a roll its artwork, every allowed sale is split soundly), `NoSilentOverwrite` |
| `claim_AcceptedPriceIsCharged` | 1 request, 2 amounts | violated: see 5 |

The longest runs take one to four minutes with two workers (`payment_flow`, `fulfilment` and
`artwork_and_files` with 4.4 million states each, `client_onboarding` with 4.1 million, `cashier` and
`quote_charge` with 2.7 million, `quote_versions` with 1.7 million and `quote_pricing` with 1.5 million); the
others seconds.

**Bounds, and why they are enough.**  All hazards of section 1.3 are between *two* actors: a stale
writer and whoever wrote meanwhile.  Two requests, each of which can be any handler, and the
callbacks, checks, cron and on-commit steps that run beside them, give every such pair and most
triples.  Two payments and two pushes are needed for "a second payment of the same quote" and "a
late failure of an older push"; two posts for a duplicate; two rows of `MpesaPayment` for the
unique empty checkout id; two amounts to tell the old price from the new one.  Two quotes are what
an acceptance of the other needs, three versions and three tasks a revision that is overtaken by
two others; two accounts a client who claims and also registered alone, two invites one that aged
and its heir; three calls let two pages save while one price is worked out, or two buyers' calls
meet a send; one finishing that the item prices below zero on one side, one as the shop charges it, and
none; a banner, whose pricing raises; rolls on which a piece lies, is turned, is cut into strips or stays under the minimum; five stages and a buffer, of one day to four, meet every edge of a working day, a week end and
holidays next to it; the costs and markups of `quote_pricing` lie on both sides of every limit of the fee
policy and of every rounding.  `MaxPayments`, `MaxPushes`, `MaxDeliveries`, `MaxPosts`,
`MaxFiles`, `MaxDeaths`, `MaxVersions`, `MaxTasks`, `MaxInvites`, `MaxAccounts`, `MaxItems`,
`MaxCalls` and `MaxFaults` are the only bounds (`MaxAttempts` is the code's own); a request that would need
a row beyond them ends as if its worker had died (`OutOfRows`).  Requests, rows and amounts are
symmetric in every passing safety run; the liveness runs use no symmetry.  The theorems of section 4 lift
the bounds.

**Fairness.**  `PaymentFlow!FairSpec`: a live worker executes its next statement and a delivered
post is processed; both may wait for a row lock again and again while others take it, and
PostgreSQL queues waiters, hence strong fairness of `RequestStep` and `CallbackStep`; the deadlock
detector runs after `deadlock_timeout`, hence weak fairness of `BreakDeadlock`.  `OutOfRows` is
the bound's way out and weakly fair with them.  Nobody has to start a request, answer a prompt or
die.  `MpesaCashier!FairSpec`: time passes (`Age`), cron runs `mpesa_reconcile` again and again
(`FetchStale`), a run fetches every stale row and goes on until it has handled them all (`Reconcile`, and the end of each
check); weak fairness of each is enough.  `EmailOutbox!FairOutboxSpec`: a web request or thread that is sending goes on, and
`process_email_outbox` is run again and again, each run ending because the provider's answer has a
time limit (weak fairness of both).  No fairness is assumed of the provider, the customer or the users.

**Deadlock** is checked everywhere but where the system really can stop: in `cashier_live` (there
are no users, and a row without a checkout id keeps every other row from being created), in
`email_outbox` (the e-mail is sent or given up and nothing is left to do) and in `quote_pricing`
(the calls are used up and the quote is sent).
## 4. The proofs

TLAPS checks the theorems of eight modules for every value of the constants.  The only assumptions
are on the constants: bounds are natural numbers, some of them positive (`PaymentFlowAssumption`,
`MpesaCashierAssumption`, `FilesAssumption`, `CardAssumption`), the set of `Callers` of JobFiles is finite and not
empty, the reconcile process is not a user and `NoRow` not a row, `NoAmount` is not an amount
(`QuoteChargeAssumption`), `NoPrice` is not a price (`QuoteVersionsAssumption`), the automatic sender is no command
(`EmailOutboxAssumption`), a rate table has a set of prices (`CardAssumption`),
and jobs and rates are what the columns may hold (`PricingAssumption`), a day is longer than its working
hours, holidays are finitely many and a stage takes some time (`CalendarAssumption`).  TLC evaluates them
in every run of those modules.

Each module of proofs follows one plan: an inductive invariant as a conjunction of named parts,
one lemma per group of actions (or, in PaymentFlowProofs, one per part), their combination
`IndStep`, and temporal theorems that use nothing else.

* **PaymentFlowProofs** - `TypeCorrect`, `MoneyBacksJobsAlways`, `OnlyAStalePush`, `Implements`.  `PaidIsBacked` and `NoUnpaidJob` are not inductive.  A commit is safe only
  because of what its transaction read under its lock (`HoldersOK`: it holds its payment, the
  customer has paid, and if it found no job no payment it could be about is confirmed); the push
  it found was made for a payment (`PushRowsOK`); and the prompt behind a confirmed payment is
  never sent a second time, because a push belongs to one request (`RequestsOK`).  Counting jobs
  against confirmed payments uses the library's facts on finite sets.  `Implements` is the refinement
  `Spec => KeepsLedger`, from the same invariant: a commit maps to `Confirm` because the money is there
  and, if it found no job, its payment was not confirmed (`HoldersOK`); a stale save or a late failure
  maps to `Unshow` or a stutter; sending a prompt never takes back one that was paid (`RequestsOK`).
* **MpesaCashierProofs** - `TypeCorrect`, `ReceiptsDecideAlways`, `SettlementIsRealAlways`.  The key is `RowsOK`: a callback finds a row by
  its checkout id, which is the last thing the request that made the row saves, so none of that
  request's saves comes after a settlement; the checks save stale decisions, but never PAID and
  never an open status (`ChecksOK`); a settlement due or done has its receipt (`SettlementOK`).
* **JobFulfilmentProofs** - `TypeCorrect`, `DispatchStaysWhole`, `PayoutsStayRight`, `WorkIsInOrder`,
  `RejectionIsFinal`.  A request that has begun saves what it checked long ago, so each property
  needs a counterpart for requests in progress (`AssignmentOK`, `MoneyOK`, `WorkOK`): what held
  when a request began still holds when it finishes, because assignments, due dates, timestamps
  and payments are never taken back.  `NoJobYet` covers the time before there is a job, `ShareOK` why
  an assignment carries the shop's share whenever the job carries the manager's, `OlderOK` why a
  transition that saves over a rejection is older than it.
  Of WorkingCalendar: `SumsAreWorkingTime` and `DueDatesStayRight`, for every length of a day, opening hours,
  finite set of holidays, stages and buffer.  Its loops are recursive functions, and the library's induction
  theorems cannot be used; each is compared with what it should compute instead.  The first working instant
  (`FirstWorking`) exists because seven times as many days as there are holidays hold a Monday that is none
  (`WorkingDaysGoOn`, a pigeonhole); the end of so many hours (`EndOf`) exists because one hour more ends after
  the next working instant.  Both satisfy the recursion, so some function does; and that no other does follows from the
  least argument at which it would differ (the distance to the working instant, the hours left).
  That `EndOf` is one instant, and that parts add up (`EndsAdd`), gives stage windows, kept due dates
  and lateness.
* **JobDeskProofs** - of ArtworkGate: `TypeCorrect`, `MetadataStaysTrue` (from `NothingInventedAlways`
  and `DecisionsStandSerially`), `ApprovalStandsSerially` (until two requests overlap, no step takes
  the client's approval back).  `GateInv` says that whatever a request has read was known when it
  read it, and that a check that passed still holds of what was read; `SerialInv` adds that, until
  two requests overlap, what the only active request has read is the column itself.
  Of JobFiles: `FilesTypeCorrect`, `ShownIsReleased`, `VerdictsStay`, `FewReminders`.
  `FilesInv` says that an unreleased proof still waits or was withheld (`ProofsUnreleased`), that what
  a request loaded allowed its verdict (`VerdictsAllowed`), and that a client's answer was asked
  for a released proof (`AnswersAreAsked`): a stale save may come late, but never from a row the
  verdict could not have been given on.  `Counted` adds up reminders sent, requests about to send
  one, and deaths.  `DeskTypeCorrect` puts the two together, for the module the run checks.
* **QuoteChargeProofs** - `TypeCorrect`, `ChargeIsFrozen`, `AcceptanceStands`, and `Implements`:
  `Spec => KeepsAgreement`, the refinement of PriceAgreement, initial states to initial states and
  every step to a step or a stutter.  `Carried` and `Frozen` say that an amount on its way to a
  payment is the frozen one; `Standing` says that nothing still to be saved was checked against a
  quote that could be changed.
* **QuoteRecordProofs** - of QuoteVersions: `TypeCorrect`, `VersionsStayInOrder`, `PaymentsSettleRight`,
  `AcceptedVersionsStand`.  That the latest version stands needs, whatever overlaps, only that a
  request supersedes rows it read before it took its number, and that a number is inserted once
  (`TasksSound`).  The rest is about requests that follow one another, and there none of the
  properties is inductive: that one version is open after an insert rests on the list of open
  versions having been read after the last insert (`WhatWasRead`), which rests on one request
  being at work (`OneBusy`); that a payment settles the accepted price rests on the newest version
  being closed once the quote is accepted (`AgreedIsLast`), on an accepted version being the newest
  of its quote (`AcceptedIsLast`), and on the newest version having the quote's price unless the
  next one is about to be written (`LastIsPriced`).  `AcceptedVersionsStand` needs no serial order, but that an
  accepted version belongs to a quote that is accepted or `reopened`, and that a task at work on an accepted
  version, or on a quote it takes for open, began before the acceptance or met a reopened quote (`StandInv`).  `Serial` is their conjunction, under
  `~overlapped`; `HighestIsMaximum` gives `Highest` its meaning from the well-foundedness of `<`.
  Of EmailOutbox: `OutboxTypeCorrect`, `SendsStayFew`, `RecordsStayTrue`.  The row counts every try whose
  sender lived (`TriesCounted`), plus those under way and the faults; the automatic sender may set
  the count back, once, and that is where the factor 2 of the bound comes from.  Whoever says SENT
  has an accepted try behind it (`SentWasTaken`); while no command meets the automatic sender the
  senders follow one another (`OneByOne`), and in a transaction the message is told what the row
  was told (`ToldInOrder`).
* **PricingProofs** - of RateCard: `VersionsNameCopies` and `NoSaveIsLostUnseen`, from `CardInv`
  (at most one page holds the lock, versions number the saved copies, a page's version names the
  copy it loaded, and a checked save holds what is stored).  Of PriceRules, for all numbers:
  `BilledSheetsSuffice` (the sheets billed hold all copies, and exceed them by no more than the cap on
  spoilage), `LinesCoverGoodSheets` (a sheet line is at least paper and print of the good sheets, with the
  finishing on top, for every price an item names for its finishing), `RollsCoverTheirArtwork` (however
  a piece is turned or cut, the roll charged is no less than the artwork: `RowsHoldThePieces`) and
  `AllowedSalesSplitSoundly` (whatever sale the policy allows, the shares add up to what the client
  pays, the shop gets at least the production cost, the manager no loss and no more than the
  markup, and Printy's residual is bounded below).  The last three are what `PricesAreSound`
  checks on the run's jobs, costs and markups.
  Of QuotePricing: `PricingTypeCorrect`, `OffersAddUp`, `StalePricesAreFlagged`, `PricesStaySound` and
  `NoSaveIsLostWhilePricing`, from `PricingInv`; none of the properties is inductive, since each
  speaks of rows, while what comes next to the rows is in the memory of the calls.  `CallShape` says
  what a call holds at each step (`TweakShape`, `AddShape`, `SendShape`), that what it read of the rates
  was in the tables and that every row it holds covers its sheets (`PriceShape`).  `Apart` remembers
  two calls at work on one item: they have `met` on it, and it is `disturbed`.  Of the other items
  `Knows` says that a call knows them: the row still has the specification it read, and the finishing
  it is about to price, so a call that had an item to itself leaves a price of the row as it is; hence
  `RowsFresh`, which is the property.  For the sum, `SumHolds`: until a write comes too late, the total
  of a send that is about to commit is the sum of the lines as it sees them, its own over the
  committed; the commit makes that the sum of the rows.  `OffersInOrder` keeps the last offer the one in force.
  A line covers its sheets because it was computed from prices of the tables (`LineTotalCovers`) and
  the billed sheets hold all copies (`LinesCoverGoodSheets`).
  `Total` is a recursive function; that it is a number (`TotalType`) is shown with the least
  argument at which it would not be.  The assumption `PricingAssumption` types what the database may hold: quantities
  and sizes are not negative (the columns' types and validators), a roll job has a size, and prices, rates
  and overrides are any numbers.
* **ClientOnboardingProofs** - `OnboardingTyped`, `InvitesEndOnceAlways`,
  `ClientOwnsTheirRequestsAlways`, `RequestKeepsItsClientAlways`.  The invariant `IInv` adds to the
  properties what every call under way may rely on (`TxnsFit`): who holds the lock holds the pending
  invite and is alone (`OneHolder`), so a claim under the lock is the first (`ClaimIsFirst`); a
  manager's call that still wants an invite for a phone with an account was overtaken
  (`WantIsOvertaken`); and what a call read of its request is still so unless it was overtaken
  (`ReadHolds`).  `Written` is what every commit of a manager's call leaves of the requests.

Only model-checked: the liveness properties `EveryCallEnds`, `NothingStaysPending` and
`EndsSentOrGivenUp` (liveness under fairness is beyond the prover); the limit of 3660 rounds of the
calendar's loops, which the model leaves out; and, being violated, the claim of section 5.  Every
invariant and action property of the passing runs is a theorem.
## 5. What the models found

Most of what the code promises holds.  The following does not.

### 5.1 With a run that shows it

* **An adjusted price is accepted and the old one charged** (`claim_AcceptedPriceIsCharged`).  Two
  views save ACCEPTED before `accept_quote_for_payment` (`api/workflow_views.py:2080`,
  `api/quote_views.py:283`), so `ensure_quote_financial_split` believes an earlier acceptance and
  keeps the old split, against its docstring (`pricing/services/platform_fee_policy.py:370-372`).

### 5.2 Seen while modelling

TLC showed most of these as counterexamples to variants of the properties of the same modules, the
others were met in reading; no run is kept for them.  Where a property of section 3 names an exception, these are the reason.

*PaymentFlow.*  A paid quote can get a second payment: `create_payment_for_quote`
(`payments/services.py:113-124`) checks for a paid payment and looks for an open one in two
statements, and a callback that commits PAID between them is seen by neither
(`payments/tests/test_payment_flow.py:252` says a paid payment blocks a duplicate).  Callbacks of two payments of one quote each create a job
(`jobs/services/managed_job_creation.py:198`; `docs/CANONICAL_MODELS.md:80` promises a single one).
`initiate_stk_push` overwrites PAID with PROCESSING from a stale instance (`payments/services.py:585`),
although PAID is published as terminal.  `ClientLinkPaymentView` does not lock the quote, so two
requests both insert a payment (`clients/views.py:493`; README.md:72 says "idempotently").  A success
post that comes before the checkout id is saved, or for a push whose answer was lost, is refused and
the money is never booked (`payments/services.py:619`).

*MpesaCashier.*  One failed attempt blocks all later ones: `checkout_request_id` is unique with
default `""` (`mpesa_payments/models.py:123`), an attempt that ends without an id keeps `""`, and the
next INSERT violates the constraint, although the user is told "Please try again"
(`mpesa_payments/services.py:324`).  A query or reconcile on a stale instance overwrites PAID with NEEDS_REVIEW or
CANCELLED (`mpesa_payments/services.py:394`; its line 360 says it only leaves pending).  A row parked
in NEEDS_REVIEW by a bare query success ignores the callback it waits for (`:576`, against the app's
README:112).  A status-query result looks rows up by the receipt that only a confirmation writes
(`:668`), so it cannot confirm a payment whose callback was lost (`views.py:138`).  The receiver
runs after the commit and swallows errors, so a settlement can be lost for good
(`receivers.py:165`, against its lines 145-146).

*JobFulfilment.*  A job can be dispatched before payment: rejecting an assignment sets the job to
`payment_confirmed` whether or not anyone paid (`jobs/assignment_services.py:200`), and dispatch takes
that status for a payment (`jobs/services/dispatch.py:47`; README.md:39 says nothing is dispatched
before payment clears).  create-job makes a job nobody paid for (`api/quote_views.py:871`; README.md:26 says
it cannot exist), and can put its assignment into production without a due date
(`jobs/managed_services.py:458`).  A later confirmation takes `payment_status` back from RELEASED
(`managed_job_creation.py:260`).  A shop's stale transition takes the job back from COMPLETED
(`assignment_services.py:227`).  A failed auto-dispatch is repaired by nobody:
`ensure_job_assignment_for_paid_job` has no other caller (`managed_job_creation.py:308`, README.md:78).
A rejected assignment stays so, and no operation gives the job another shop; but a shop's transition
that read it before, and the order's status that create-job copies at its end
(`managed_services.py:458`), save over the rejection (`RejectedForGood` is checked and proved with
exactly these two).  `QuoteViewSet.accept` saves ACCEPTED before the split is made, which may then
be refused (`api/quote_views.py:283`, `:326`): create-job makes a job without shares, and once the
split exists its manager is owed what the job cannot pay, so every release is refused.

*ArtworkGate.*  A new claim resets acceptance and decline but not `printer_acknowledged_at`
(`jobs/artwork_workflow.py:201` against its docstring, line 11), so an old acknowledgement opens the
gate for new artwork.  A concurrent claim erases a confirmation request from the column, and dispatch is
open again (`artwork_workflow.py:84`).  A crash between an upload's two commits, or a stale accept,
leaves a file next to an accepted claim, which dispatch refuses without an acknowledgement that
`printer_acknowledge_artwork` refuses in turn (`:232`, `:318`).  `MpesaStkPushView` starts a payment
without the artwork check (`mpesa_payments/views.py:100`).

*QuoteCharge.*  A send that had read the split writes its old amount to the payment after the client
accepted (the `raced` exception of `ChargeIsFrozenPrice`).  A stale save of the whole quote
(`update_quote_response`, `partial_update`) un-accepts it (the `overlapped` exception of
`AcceptedOnlySuperseded`).  A refused split leaves the resent total behind.  The client's accept
view can answer 400 and leave the quote ACCEPTED (`api/quote_views.py:298`).  A sibling superseded
by an acceptance can be sent and accepted too.

*JobFiles.*  `mark_file_print_ready` asks for no approval, while its notification says "approved and
ready to print" (`jobs/file_services.py:705`), and printing the job's only artwork leaves the job
without one.  A proof that was withheld or sent back for revision cannot be released again: the view
calls the manager's approval only for a proof that waits (`jobs/views.py:973`), although the service
takes more (`file_services.py:539-544`); nor can the shop's old attachments.  A manager's approve of
a released proof is recorded as the client's approval.

*QuoteVersions.*  Concurrent first versions of two requests violate the unique constraint, and the
caller that swallows it leaves a price without a version (the `unversioned` exception of
`SettledAtAgreedPrice`).  `PartnerQuoteSendToClientView` changes a total and makes no version
(`api/dashboard_views.py:1352`).  `reject_request` on a closed request makes the accepted version
LOST; `expire_quotes` saves EXPIRED on a version that was accepted since it was read
(`expire_quotes.py:58`); a second acceptance takes ACCEPTED from the first one's version; a
revision or rejection that began before the acceptance overwrites the quote's status, after which the shop may
revise and the client reject it again (`reopened`).

*QuotePricing, RateCard, PriceRules.*  An edit that is under way writes a deleted item again
(`api/serializers.py:742`).  `compute_and_store_pricing` says "Call inside transaction.atomic()"
(`quotes/pricing_service.py:859`) and is called outside of one (`serializers.py:776`).  The paper and
the finishing of one line can come from two rate cards, although a breakdown can "always be traced
back to the rules" (`pricing_service.py:866`).  Two first saves of a card both become version "1"
(the `raced` exception of `NoSilentOverwrite`).  A rate edited directly is overwritten by the next
card save, with no version to warn the page.  A job without paper, or with a machine and no
rate or no fit, has a line of 0 or without print, is not flagged and can be sent.  The price an item
names for its finishing (`api/serializers.py:595`) has no bound: below zero it takes the line under its
sheets, and below zero itself, and such a request can be sent; hence `PricesAreSound` counts the
finishing on top of the sheets, and nothing is said of the line's sign.  The validators do not keep the rates of a
card from going below zero either.  An item on a roll cannot be priced: the pricing asks for
`material_id` (`pricing_service.py:622`), which `QuoteItem` does not have, so an edit or an addition
flags the item, a tweak is refused, and a request with such an item cannot be sent.  A line written after
the send took its sum, or by a call that had passed the status check before the send, parts an offer
from its total (the `late` exception of `SentOfferAddsUp`).  A second submit can
take QUOTED back; two `send_quote` calls can create two sent offers.  Printy's residual is negative
for some allowed sales in the upper tiers (bounded in `SoundSplit`).

*ClientOnboarding.*  A request the shop was preparing a quote for when the client claimed is linked to
nobody, then or later (`accounts/services/client_invites.py:249` leaves ACCEPTED rows out;
`api/quote_views.py:497` sets it on a request in progress), and a draft saved with the phone after the
claim looks up no account (`quotes/partner_services.py:324`): the `skipped` exceptions.  A call
that resolved the phone before a claim makes an invite, or a request without an owner, after it (the
`late` exceptions).  An account that never verified the phone is
found before the verified one (`accounts/services/client_invites.py:80`: `-phone_verified_at` sorts
nulls first).

*EmailOutbox.*  Outside of a transaction the on_commit callback runs at once, and `create_quote_message`
saves NOT_SENT over SENT (`quotes/messaging.py:498`; `quotes/models.py:843` says the column tells
"Whether an email copy was sent successfully").  The automatic sender has no lock, so a mail can go
out twice next to cron, and it can set the count of attempts back.

*Timing.*  When a second quote of a request is accepted, the due date of the first acceptance stays
(`jobs/timing_services.py:102`) but its job's stages are counted from the second
(`timing.py:118-124`): once more working time lies between the two than the buffer has, the stages promise a date
after the due date (`WrongDueDates` has the exact bound).  `record_date_revision` is never given a new date by the views, and
`record_lateness` and `ensure_job_due_date` have no caller.  `current_stage` of a job is not refreshed
by delivery, completion or dispatch.  `stage_timeline` calls a completed stage overdue when its
elapsed minutes exceed the *working* minutes allowed, so a stage finished before its own `due_at`
can be overdue (`jobs/timing.py:246-249`).

## 6. Limits

*Composition.*  Each model has one quote, one request, one job, one card or one phone, and the
others' effects as steps that may happen at any time: JobFulfilment lets the artwork gate open and
close freely and lets a payment be confirmed at any time; QuoteCharge lets a sibling quote be
accepted at any time; QuoteVersions lets the request be cancelled or taken up at any time.  That is
more behaviour than the program has, so the safety properties carry over.  What really composes is
QuotePricing with RateCard: an item is priced while the card is saved.

*Left out of the modelled components.*  Amounts and the amount check of callbacks in PaymentFlow
(a post for an older amount is refused, `payments/services.py:250-253`); the phone-consent step; the
stub provider; the OAuth token cache and the callback log of `mpesa_payments`;
`record_payout_failure`, which nothing calls; exception flags, events, notifications and snapshots
of jobs, which no guard of the modelled handlers reads; fee arithmetic in QuoteCharge, where only
the equality of amounts matters and a step that the policy's cap may refuse may be refused
(PriceRules has the arithmetic); in JobFiles `artwork_required`, which is only shown, and the
statuses and operations nothing writes or calls (PROOF_UPLOADED, `create_print_ready_file`,
`mark_job_file_replaced`); what a version's snapshot holds; services of an order in
QuotePricing (`_compute_services_total` sums rows that nothing under `src/` but tests writes; volume
discounts are records that no price reads), and more than one finishing of an item; the text of mails and messages.

*Not modelled.*

* Booklets, previews and role projections are pure functions of one request that change no row.
* Date revisions: the protocol that would revise a due date has no caller with a new date, and
  lateness is recorded by nobody.
* OTP codes and client links are questions of access control.
* Matching is a read-only ranking; notifications are `get_or_create` on a key and best effort.
* Direct submission and intake create their rows in one transaction and meet no other writer.
* Artwork uploaded before a quote is file input and output.
* Accounts, catalogue, shops, set-up, gallery, contact and locations are records edited by their
  owner without a protocol; the workflow app is a demonstration whose rows can be rewritten
  through a plain `ModelViewSet`, so no property of its transitions holds of them.

These, with serializers that only render, admin pages, settings, seeds and fixtures, are most of
the repository's lines; the models are of the part where the order of events or the arithmetic
decides.

*External parts*, modelled from how the code uses them: the customer's phone and Daraja
(`CustomerAnswers`), the mail provider (`Provider`), the clock (`Age`, `Lapse`, `Expired`),
PostgreSQL's row locks and deadlock detector.

*Abstraction.*  READ COMMITTED is modelled statement by statement; a statement is atomic.  A
statement of a transaction whose effects cannot be seen before the commit is merged with it.
FAILED and CANCELLED payments are one status; REJECTED, CANCELLED and EXPIRED requests too.

*History variables.*  Several properties except what a named race does (`overlapped`, `raced`,
`late`, `dirty`, `older`, `skipped`, `early`, `reopened`, `met`,
`disturbed`): a variable that records that the race has happened and that no
guard reads.  The exceptions are the findings of section 5.2; without them TLC violates the
property.

## 7. Plan

Done, in this order: PaymentFlow (money comes first: "PAID only on the provider's word" is what
everything downstream relies on) with its abstraction PaymentLedger, MpesaCashier, JobFulfilment, ArtworkGate, QuoteCharge with its
abstraction PriceAgreement; then QuoteVersions, EmailOutbox, ClientOnboarding, JobFiles,
QuotePricing over RateCard and PriceRules, WorkingCalendar; the theorems of section 4.

Next, most important first:

1. `JobFulfilment` with `ArtworkGate` instead of its free `gate`.
2. The sections of a booklet, priced with the operators of PriceRules.
3. An abstract specification of a job (paid, dispatched once, made in order, paid out once), with
   JobFulfilment shown to implement it.

Runs stay small: two actors and two rows wherever a race needs two.
