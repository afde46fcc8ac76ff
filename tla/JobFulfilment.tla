--------------------------- MODULE JobFulfilment ---------------------------
(***************************************************************************)
(* One `ManagedJob` from its creation to its payouts, with its active      *)
(* `JobAssignment`: dispatch to a shop, the shop's transitions, delivery,  *)
(* the client's completion and the release of the payouts.                 *)
(*                                                                         *)
(* Dispatch, payment confirmation and payout release lock the job's row    *)
(* and read it again.  The other requests read job and assignment without  *)
(* a lock, check what they read, and save a few columns afterwards: a      *)
(* request here begins (reads and checks) and finishes (saves) in two      *)
(* steps, with anything in between.                                        *)
(*                                                                         *)
(* create-job is not one transaction: order, job, assignment and the copy   *)
(* of the order's status are saved one after the other.                    *)
(*                                                                         *)
(* Left out, because no guard of these handlers reads them: exception      *)
(* flags, the mirrored ProductionOrder, events, notifications, snapshots.  *)
(***************************************************************************)
EXTENDS Integers, FiniteSets

CONSTANT Requests   \* requests of shop, client and provider, and create-jobs, in progress

VARIABLES
    status,         \* ManagedJob.status ("absent": no job)
    payStatus,      \* ManagedJob.payment_status
    asgStatus,      \* ManagedJob.assignment_status
    assignedShop,   \* ManagedJob.assigned_shop is set
    dispatched,     \* ManagedJob.dispatched_at is set
    due,            \* ManagedJob.due_date is set
    hold,           \* ManagedJob.payout_hold
    stamps,         \* of production_started_at, ready_at, delivered_at, completed_at: those set
    manager,        \* the split's broker_payout: none, payable, or owed to no broker
    assignment,     \* status of the active JobAssignment ("absent": none)
    shopShare,      \* JobAssignment.shop_payout is set
    split,          \* the quote has its QuoteFinancialSplit
    gate,           \* the artwork gates let the job be dispatched
    paid,           \* the customer's money has arrived
    auto,           \* auto-dispatches: due after a commit, or past their own checks
    ordered,        \* a ProductionOrder exists: create-job was called
    doing,          \* what each request is about to save
    older,          \* history: the requests that read before the assignment was rejected
    dispatches,     \* times the job was sent to a shop
    released,       \* roles with a RELEASED payout row
    transfers       \* per role, the times its payout was released

jobVars     == <<status, payStatus, asgStatus, assignedShop, dispatched, due, stamps, manager>>
asgVars     == <<assignment, shopShare>>
payoutVars  == <<released, transfers, hold>>
worldVars   == <<split, gate, paid, auto, ordered>>
requestVars == <<doing, older>>
vars == <<jobVars, asgVars, worldVars, requestVars, dispatches, payoutVars>>

Status == {"absent", "awaiting_payment", "payment_confirmed", "assigned", "in_production",
           "finishing", "ready", "delivered", "completed"}
Assignment == {"absent", "pending", "accepted", "rejected", "in_production", "finishing",
               "ready", "completed", "cancelled"}
Roles  == {"manager", "shop"}
Stamps == {"started", "ready", "delivered", "completed"}
\* What a ProductionOrder's status makes of the assignment.
OrderStatus == {"accepted", "in_production", "ready", "completed", "cancelled"}

\* The shop's transitions, and the other requests that do not lock.
ShopOps == {"accept", "reject", "start", "finish", "makeReady", "complete"}
Ops     == ShopOps \cup {"deliver", "confirm", "settleEarly", "settle"}

\* What a create-job is about to save; in the end, the order's status itself.
Creating == {"order", "job", "first", "assign"} \cup OrderStatus

TypeOK ==
    /\ status \in Status
    /\ payStatus \in {"pending", "confirmed", "released"}
    /\ asgStatus \in {"unassigned", "assignment_pending", "assigned", "reassignment_required"}
    /\ {assignedShop, dispatched, due, hold, gate, paid, ordered, split, shopShare} \subseteq BOOLEAN
    /\ auto \in SUBSET {"due", "checked"}
    /\ stamps \in SUBSET Stamps
    /\ manager \in {"none", "payable", "owed"}
    /\ assignment \in Assignment
    /\ doing \in [Requests -> Ops \cup Creating \cup {"none"}]
    /\ older \in SUBSET Requests
    /\ dispatches \in Nat
    /\ released \in SUBSET Roles
    /\ transfers \in [Roles -> Nat]

Init ==
    /\ status = "absent" /\ payStatus = "pending" /\ asgStatus = "unassigned"
    /\ assignedShop = FALSE /\ dispatched = FALSE /\ due = FALSE /\ hold = FALSE
    /\ stamps = {} /\ manager = "none" /\ assignment = "absent"
    /\ shopShare = FALSE
    /\ gate \in BOOLEAN /\ split \in BOOLEAN
    /\ paid = FALSE /\ auto = {} /\ ordered = FALSE
    /\ doing = [r \in Requests |-> "none"] /\ older = {}
    /\ dispatches = 0
    /\ released = {} /\ transfers = [role \in Roles |-> 0]

Exists == status # "absent"

-----------------------------------------------------------------------------
(***************************************************************************)
(* How the job comes to be.                                                *)
(***************************************************************************)

Early(st) == st = "awaiting_payment"

Done(r) ==
    /\ doing' = [doing EXCEPT ![r] = "none"]
    /\ older' = older \ {r}

\* create_managed_job_from_payment, in the callback's transaction, which locks
\* payment and job: a new job, or one that exists is (again) marked paid.
PaymentConfirmed ==
    /\ split
    /\ paid' = TRUE
    /\ payStatus' = "confirmed"
    /\ IF Exists
         THEN /\ status' = IF Early(status) THEN "payment_confirmed" ELSE status
              /\ UNCHANGED <<assignedShop, due, manager>>
         ELSE /\ status' = "payment_confirmed"
              /\ assignedShop' = TRUE
              /\ due' \in BOOLEAN
              /\ manager' \in {"none", "payable", "owed"}
    /\ auto' = IF assignedShop' /\ asgStatus = "unassigned" THEN auto \cup {"due"} ELSE auto
    /\ UNCHANGED <<asgStatus, dispatched, stamps, asgVars, split, gate, ordered, requestVars,
                   dispatches, payoutVars>>

\* accept_quote_for_payment makes the split a quote may have been accepted
\* without; a job that exists keeps the manager's share it does not have.
SplitRecorded ==
    /\ ~split
    /\ split' = TRUE
    /\ manager' \in IF Exists THEN {"none", "owed"} ELSE {"none"}
    /\ UNCHANGED <<status, payStatus, asgStatus, assignedShop, dispatched, due, stamps, asgVars,
                   gate, paid, auto, ordered, requestVars, dispatches, payoutVars>>

\* The create-job action of an accepted quote, which has no order yet ...
BeginCreateJob(r) ==
    /\ ~ordered
    /\ doing[r] = "none"
    /\ doing' = [doing EXCEPT ![r] = "order"]
    /\ UNCHANGED <<jobVars, asgVars, worldVars, older, dispatches, payoutVars>>

\* ... saves the ProductionOrder,
CreateOrder(r) ==
    /\ doing[r] = "order"
    /\ ordered' = TRUE
    /\ doing' = [doing EXCEPT ![r] = "job"]
    /\ UNCHANGED <<jobVars, asgVars, split, gate, paid, auto, older, dispatches, payoutVars>>

\* then the job the quote still lacks: with a broker no shop is assigned yet,
\* and without a split the job carries no share for the manager,
CreateJob(r) ==
    /\ doing[r] = "job"
    /\ IF Exists
         THEN UNCHANGED jobVars
         ELSE /\ status' = "awaiting_payment"
              /\ manager' \in IF split THEN {"none", "payable", "owed"} ELSE {"none"}
              /\ assignedShop' \in {b \in BOOLEAN : (manager' = "payable" => ~b)
                                                    /\ (manager' = "owed" => b)}
              /\ asgStatus' = IF assignedShop' THEN "assignment_pending" ELSE "unassigned"
              /\ UNCHANGED <<payStatus, dispatched, due, stamps>>
    /\ doing' = [doing EXCEPT ![r] = IF ~Exists /\ assignedShop' THEN "first" ELSE "assign"]
    /\ UNCHANGED <<asgVars, worldVars, older, dispatches, payoutVars>>

\* then the assignment it still lacks, a new job's with the job's own shop first,
CreateAssignment(r) ==
    /\ doing[r] \in {"first", "assign"}
    /\ IF assignment = "absent"
         THEN assignment' = "pending" /\ shopShare' = split
         ELSE UNCHANGED asgVars
    /\ \/ /\ doing[r] = "first"
          /\ doing' = [doing EXCEPT ![r] = "assign"]
          /\ UNCHANGED older
       \/ /\ doing[r] = "assign"
          /\ \E next \in OrderStatus \ {assignment'} : doing' = [doing EXCEPT ![r] = next]
          /\ UNCHANGED older
       \/ /\ doing[r] = "assign" /\ assignment' \in OrderStatus
          /\ Done(r)
    /\ UNCHANGED <<jobVars, worldVars, dispatches, payoutVars>>

\* Mutant: the order's own word for its status is copied.
AttachRawStatus(r) ==
    /\ doing[r] \in OrderStatus
    /\ assignment' = IF doing[r] = "in_production" THEN "in_progress" ELSE doing[r]
    /\ Done(r)
    /\ UNCHANGED <<jobVars, shopShare, worldVars, dispatches, payoutVars>>

\* and gives the assignment the order's status, where it had read another one.
AttachOrder(r) ==
    /\ doing[r] \in OrderStatus
    /\ assignment' = doing[r]
    /\ Done(r)
    /\ UNCHANGED <<jobVars, shopShare, worldVars, dispatches, payoutVars>>

-----------------------------------------------------------------------------
(***************************************************************************)
(* Dispatch, with the job locked.                                          *)
(***************************************************************************)

Dispatchable ==
    /\ Exists /\ gate /\ split
    /\ payStatus = "confirmed" \/ status = "payment_confirmed"

SendToShop ==
    /\ assignment' = IF assignment = "absent" THEN "pending" ELSE assignment
    /\ shopShare' = TRUE
    /\ status' = "assigned" /\ asgStatus' = "assigned"
    /\ assignedShop' = TRUE /\ dispatched' = TRUE
    /\ dispatches' = dispatches + 1
    /\ UNCHANGED <<payStatus, due, stamps, manager>>

\* Mutant: the lock is taken, but what was read before it is trusted.
DispatchOnOldRead ==
    IF Dispatchable /\ dispatches < 3
      THEN SendToShop
      ELSE UNCHANGED <<jobVars, asgVars, dispatches>>

\* dispatch_job_to_shop.  For a job already dispatched the existing assignment
\* is returned, whatever its status, and nothing changes.
DispatchJobToShop ==
    IF Dispatchable /\ ~dispatched
      THEN SendToShop
      ELSE UNCHANGED <<jobVars, asgVars, dispatches>>

\* JobDispatchView.
Dispatch ==
    /\ Dispatchable /\ ~dispatched
    /\ DispatchJobToShop
    /\ UNCHANGED <<worldVars, requestVars, payoutVars>>

\* After the commit of a payment: ensure_job_assignment_for_paid_job first looks
\* at the job without a lock ...
AutoDispatchChecks ==
    /\ "due" \in auto
    /\ auto' = IF Dispatchable /\ ~dispatched /\ assignment = "absent" /\ assignedShop
                 THEN {"checked"} ELSE auto \ {"due"}
    /\ UNCHANGED <<jobVars, asgVars, split, gate, paid, ordered, requestVars, dispatches, payoutVars>>

\* ... and then dispatches it.
AutoDispatch ==
    /\ "checked" \in auto
    /\ auto' = auto \ {"checked"}
    /\ DispatchJobToShop
    /\ UNCHANGED <<split, gate, paid, ordered, requestVars, payoutVars>>

\* Whatever either raises is logged, and nobody calls them again.
AutoDispatchLost ==
    /\ \E a \in auto : auto' = auto \ {a}
    /\ UNCHANGED <<jobVars, asgVars, split, gate, paid, ordered, requestVars, dispatches, payoutVars>>

-----------------------------------------------------------------------------
(***************************************************************************)
(* Requests that read without a lock.                                      *)
(***************************************************************************)

\* Mutant: a shop may mark an assignment ready that it only accepted.
MayReadyEarly(op) ==
    \/ op = "accept"      /\ assignment = "pending"
    \/ op = "reject"      /\ assignment \in {"pending", "accepted"}
    \/ op = "start"       /\ assignment = "accepted" /\ due
    \/ op = "finish"      /\ assignment = "in_production"
    \/ op = "makeReady"   /\ assignment \in {"accepted", "in_production", "finishing"}
    \/ op = "complete"    /\ assignment = "ready"
    \/ op = "deliver"     /\ status \in {"in_production", "finishing", "ready"}
    \/ op = "confirm"     /\ status \in {"ready", "delivered"}
    \/ op = "settleEarly" /\ Early(status) /\ payStatus # "confirmed"
    \/ op = "settle"      /\ ~Early(status) /\ payStatus # "confirmed"

\* Mutant: a shop may still accept what it rejected.
MayAcceptRejected(op) ==
    \/ op = "accept"      /\ assignment \in {"pending", "rejected"}
    \/ op = "reject"      /\ assignment \in {"pending", "accepted"}
    \/ op = "start"       /\ assignment = "accepted" /\ due
    \/ op = "finish"      /\ assignment = "in_production"
    \/ op = "makeReady"   /\ assignment \in {"in_production", "finishing"}
    \/ op = "complete"    /\ assignment = "ready"
    \/ op = "deliver"     /\ status \in {"in_production", "finishing", "ready"}
    \/ op = "confirm"     /\ status \in {"ready", "delivered"}
    \/ op = "settleEarly" /\ Early(status) /\ payStatus # "confirmed"
    \/ op = "settle"      /\ ~Early(status) /\ payStatus # "confirmed"

\* The checks of each handler on the rows it has read; a request that fails
\* them answers 400 and changes nothing.
May(op) ==
    \/ op = "accept"      /\ assignment = "pending"
    \/ op = "reject"      /\ assignment \in {"pending", "accepted"}
    \/ op = "start"       /\ assignment = "accepted" /\ due
    \/ op = "finish"      /\ assignment = "in_production"
    \/ op = "makeReady"   /\ assignment \in {"in_production", "finishing"}
    \/ op = "complete"    /\ assignment = "ready"
    \/ op = "deliver"     /\ status \in {"in_production", "finishing", "ready"}
    \/ op = "confirm"     /\ status \in {"ready", "delivered"}
    \/ op = "settleEarly" /\ Early(status) /\ payStatus # "confirmed"
    \/ op = "settle"      /\ ~Early(status) /\ payStatus # "confirmed"

Begin(r, op) ==
    /\ Exists
    /\ doing[r] = "none" /\ May(op)
    /\ doing' = [doing EXCEPT ![r] = op]
    /\ paid' = (paid \/ op \in {"settle", "settleEarly"})
    /\ UNCHANGED <<jobVars, asgVars, split, gate, auto, ordered, older, dispatches, payoutVars>>

\* _transition_assignment saves a status on the assignment and one on the job,
\* and sets timestamps the job does not have yet.
Save(r, op, asg, job, stamp) ==
    /\ doing[r] = op
    /\ assignment' = asg
    /\ status' = job
    /\ asgStatus' = IF op = "reject" THEN "reassignment_required" ELSE "assigned"
    /\ stamps' = stamps \cup stamp
    /\ doing' = [doing EXCEPT ![r] = "none"]
    /\ older' = IF op = "reject" /\ assignment # "rejected"
                  THEN {q \in Requests : doing'[q] # "none"}
                  ELSE older \ {r}
    /\ UNCHANGED <<payStatus, assignedShop, dispatched, due, manager, shopShare, worldVars,
                   dispatches, payoutVars>>

FinishTransition(r) ==
    \/ Save(r, "accept",   "accepted",      "assigned",          {})
    \/ Save(r, "reject",   "rejected",      "payment_confirmed", {})
    \/ Save(r, "start",    "in_production", "in_production",     {"started"})
    \/ Save(r, "finish",   "finishing",     "finishing",         {})
    \/ Save(r, "makeReady", "ready",        "ready",             {"ready"})
    \/ Save(r, "complete", "completed",     "completed",         {"completed"})

\* mark_managed_job_delivered.
FinishDeliver(r) ==
    /\ doing[r] = "deliver"
    /\ status' = "delivered"
    /\ stamps' = stamps \cup {"delivered"}
    /\ Done(r)
    /\ UNCHANGED <<payStatus, asgStatus, assignedShop, dispatched, due, manager, asgVars,
                   worldVars, dispatches, payoutVars>>

\* confirm_managed_job_completed: the assignment is read inside the transaction
\* and completed with the job if it is ready.
FinishConfirm(r) ==
    /\ doing[r] = "confirm"
    /\ status' = "completed"
    /\ stamps' = stamps \cup {"completed"}
    /\ IF assignment = "ready"
         THEN assignment' = "completed" /\ asgStatus' = "assigned"
         ELSE UNCHANGED <<assignment, asgStatus>>
    /\ Done(r)
    /\ UNCHANGED <<payStatus, assignedShop, dispatched, due, manager, shopShare, worldVars,
                   dispatches, payoutVars>>

\* _settle_managed_job, the receiver of a direct M-Pesa payment.
FinishSettle(r) ==
    /\ doing[r] \in {"settle", "settleEarly"}
    /\ payStatus' = "confirmed"
    /\ status' = IF doing[r] = "settleEarly" THEN "payment_confirmed" ELSE status
    /\ Done(r)
    /\ UNCHANGED <<asgStatus, assignedShop, dispatched, due, stamps, manager, asgVars,
                   worldVars, dispatches, payoutVars>>

\* The worker dies, or the database ends the transaction.
Abandon(r) ==
    /\ doing[r] # "none"
    /\ Done(r)
    /\ UNCHANGED <<jobVars, asgVars, worldVars, dispatches, payoutVars>>

-----------------------------------------------------------------------------
(***************************************************************************)
(* Staff, artwork and payouts.                                             *)
(***************************************************************************)

\* The artwork gates open and close.
GateMoves ==
    /\ gate' = ~gate
    /\ UNCHANGED <<jobVars, asgVars, split, paid, auto, ordered, requestVars, dispatches, payoutVars>>

\* acknowledge_date_update: the buyer accepts a new due date.
AcknowledgeDate ==
    /\ Exists /\ ~due
    /\ due' = TRUE
    /\ UNCHANGED <<status, payStatus, asgStatus, assignedShop, dispatched, stamps, manager,
                   asgVars, worldVars, requestVars, dispatches, payoutVars>>

\* Staff put the payout on hold or lift it.
ToggleHold ==
    /\ Exists
    /\ hold' = ~hold
    /\ UNCHANGED <<jobVars, asgVars, worldVars, requestVars, dispatches, released, transfers>>

HasConfirmedPayment == payStatus \in {"confirmed", "released"} \/ paid

\* Whoever has a share that the job or its assignment carries; the manager's of
\* a job without a broker is owed to nobody.
Payees == {role \in Roles :
             \/ role = "manager" /\ manager = "payable"
             \/ role = "shop" /\ shopShare}

Releasable ==
    /\ ~hold /\ status \in {"ready", "completed"}
    /\ HasConfirmedPayment
    /\ Payees # {}

\* _release_payout for the roles in `new`, whose rows are not RELEASED yet.
PayOut(new) ==
    /\ transfers' = [role \in Roles |-> IF role \in new THEN transfers[role] + 1 ELSE transfers[role]]
    /\ released' = released \cup new
    /\ payStatus' = "released"
    /\ UNCHANGED <<status, asgStatus, assignedShop, dispatched, due, stamps, manager, asgVars,
                   worldVars, requestVars, dispatches, hold>>

\* Mutant: an earlier release is recognised by the job's payment status.
ReleaseOncePerStatus == Releasable /\ manager # "owed" /\ payStatus # "released" /\ PayOut(Payees)

\* release_managed_job_payouts, with the job locked.  A row that is RELEASED
\* already is left alone; a share owed to nobody refuses the whole release.
ReleasePayouts == Releasable /\ manager # "owed" /\ PayOut(Payees \ released)

-----------------------------------------------------------------------------

RequestStep(r) ==
    \/ \E op \in Ops : Begin(r, op)
    \/ FinishTransition(r) \/ FinishDeliver(r) \/ FinishConfirm(r) \/ FinishSettle(r)
    \/ BeginCreateJob(r) \/ CreateOrder(r) \/ CreateJob(r) \/ CreateAssignment(r) \/ AttachOrder(r)
    \/ Abandon(r)

Next ==
    \/ PaymentConfirmed \/ SplitRecorded
    \/ Dispatch \/ AutoDispatchChecks \/ AutoDispatch \/ AutoDispatchLost
    \/ GateMoves \/ AcknowledgeDate \/ ToggleHold \/ ReleasePayouts
    \/ \E r \in Requests : RequestStep(r)

Spec == Init /\ [][Next]_vars

-----------------------------------------------------------------------------
(***************************************************************************)
(* Properties.                                                             *)
(***************************************************************************)

\* dispatch.py:53: callbacks, auto-dispatch and managers may all try, but a job
\* is sent to a shop once.
DispatchedOnce == dispatches = IF dispatched THEN 1 ELSE 0

\* dispatch.py:57 and 147-152: the two cases for a dispatched job without an
\* assignment never arise; a finished job has an assignment as well.
DispatchHasAssignment ==
    dispatched \/ status \in {"ready", "delivered", "completed"} => assignment # "absent"

\* A job is sent to a shop once, and together with its assignment.
DispatchIsWhole == DispatchedOnce /\ DispatchHasAssignment

\* payout_services.py:82: a payout is released once per role, although the job's
\* payment status can fall back from RELEASED and the release be called again.
PaidOutOnce == \A role \in Roles : transfers[role] = IF role \in released THEN 1 ELSE 0

\* payout_services.py:183: money leaves only after the client's money arrived,
\* even for a job that was created, or rejected by its shop, before payment.
PayoutsArePaidFor == released # {} => paid

\* payout_services.py:198-235: never one of two who are owed.  The manager's share
\* is in the job and the shop's in the assignment, each copied from a split that
\* may come late, so one could be there without the other.
PayoutsWhole ==
    released # {} => "shop" \in released /\ (manager # "none" => "manager" \in released)

\* Payouts are made once, from money that arrived, to everybody who is owed.
PayoutsAreRight == PaidOutOnce /\ PayoutsArePaidFor /\ PayoutsWhole

\* assignment_services.py:212: production starts with a due date; and unless
\* create-job set the assignment's status, nothing is ready, delivered,
\* completed or paid out that production did not start.
WorkInOrder ==
    /\ "started" \in stamps => due
    /\ ~ordered /\ (stamps # {} \/ released # {}) => "started" \in stamps

\* assignment_services.py:174-279: a rejection stands, before and after dispatch
\* and order: only a transition that had read the assignment before it, or the
\* order's status copied at the end of a create-job, takes its place.
RejectedForGood ==
    [][assignment = "rejected" /\ assignment' # "rejected" =>
         \E r \in Requests : /\ doing[r] # "none" /\ doing'[r] = "none"
                             /\ \/ doing[r] \in OrderStatus
                                \/ doing[r] \in ShopOps /\ r \in older]_vars
=============================================================================
