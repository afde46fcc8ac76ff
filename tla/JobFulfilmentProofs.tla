------------------------ MODULE JobFulfilmentProofs ------------------------
(***************************************************************************)
(* Proofs about JobFulfilment, for every number of requests in progress,   *)
(* and about the WorkingCalendar of its due date, for every calendar.      *)
(*                                                                         *)
(* A request that has begun saves what it checked long ago, so each safety *)
(* property needs its counterpart for the requests in progress: what held  *)
(* when a request began still holds when it finishes, because assignments, *)
(* due dates, timestamps and payments are never taken back.                *)
(*                                                                         *)
(* The loops of the calendar are recursive functions.  Each is compared    *)
(* with what it is for: the first working instant (FirstWorking), the      *)
(* instant at which so many hours are worked (EndOf).  That satisfies the  *)
(* recursion, so a function that does exists; and the least argument at    *)
(* which such a function would differ does not exist.                      *)
(***************************************************************************)
EXTENDS MCJobFulfilment, FiniteSetTheorems, FunctionTheorems, WellFoundedInduction, TLAPS

-----------------------------------------------------------------------------
(* Jobs *)

\* Before there is a job there is nothing else; a create-job may be under way.
NoJobYet ==
    ~Exists =>
      /\ assignment = "absent" /\ ~dispatched
      /\ stamps = {} /\ released = {}
      /\ \A r \in Requests : doing[r] \in {"none", "order", "job"}

\* From dispatch on, in the job's status and in what requests are about to save,
\* there is an assignment.
AssignmentOK ==
    /\ status \in {"assigned", "in_production", "finishing", "ready", "delivered", "completed"}
         => assignment # "absent"
    /\ \A r \in Requests :
         doing[r] \in ShopOps \cup {"deliver", "confirm"} \cup OrderStatus => assignment # "absent"
    /\ dispatched => assignment # "absent"

\* The shares come from the split: where the job carries the manager's, its
\* assignment carries the shop's.
ShareOK ==
    /\ shopShare \/ manager # "none" => split
    /\ assignment # "absent" /\ manager = "payable" => shopShare
    /\ released # {} => shopShare

\* A payment status other than pending, saved or about to be, is backed by money.
MoneyOK ==
    /\ payStatus # "pending" => paid
    /\ \A r \in Requests : doing[r] \in {"settle", "settleEarly"} => paid

\* Production has been started wherever its results show, unless create-job may
\* have set the assignment's status.
WorkOK ==
    /\ \A r \in Requests : doing[r] = "start" => due
    /\ ~ordered =>
         /\ \A r \in Requests : doing[r] \notin {"job", "first", "assign"} \cup OrderStatus
         /\ assignment \in {"in_production", "finishing", "ready", "completed"} => "started" \in stamps
         /\ status \in {"in_production", "finishing", "ready", "delivered", "completed"}
              => "started" \in stamps
         /\ \A r \in Requests :
              doing[r] \in {"finish", "makeReady", "complete", "deliver", "confirm"}
                => "started" \in stamps

\* A transition of a rejected assignment is an older one.
OlderOK ==
    assignment = "rejected" => \A r \in Requests : doing[r] \in ShopOps => r \in older

IndInv ==
    /\ TypeOK
    /\ NoJobYet
    /\ AssignmentOK
    /\ ShareOK
    /\ MoneyOK
    /\ WorkOK
    /\ OlderOK
    /\ DispatchedOnce
    /\ PaidOutOnce
    /\ PayoutsWhole
    /\ PayoutsArePaidFor
    /\ WorkInOrder

-----------------------------------------------------------------------------
LEMMA IndInit == Init => IndInv
<1> SUFFICES ASSUME Init PROVE IndInv
  OBVIOUS
<1> USE DEF Init
<1>1. TypeOK
  BY DEF TypeOK, Status, Assignment, Roles, Stamps, Ops, OrderStatus
<1>2. NoJobYet /\ AssignmentOK /\ ShareOK /\ MoneyOK /\ WorkOK /\ OlderOK
  BY DEF NoJobYet, Exists, AssignmentOK, ShareOK, MoneyOK, WorkOK, OlderOK, ShopOps, OrderStatus
<1>3. DispatchedOnce /\ PaidOutOnce /\ PayoutsWhole /\ PayoutsArePaidFor /\ WorkInOrder
  BY DEF DispatchedOnce, PaidOutOnce, PayoutsWhole, PayoutsArePaidFor, WorkInOrder
<1>4. QED
  BY <1>1, <1>2, <1>3 DEF IndInv

-----------------------------------------------------------------------------
(***************************************************************************)
(* One lemma per group of actions.                                         *)
(***************************************************************************)

\* A payment is confirmed.
LEMMA PaymentStep ==
    ASSUME IndInv, PaymentConfirmed
    PROVE  IndInv'
<1> USE DEF IndInv, TypeOK, asgVars, requestVars, payoutVars, PaymentConfirmed, Exists, Early
<1>1. TypeOK'
  BY DEF Status
<1>2. NoJobYet' /\ AssignmentOK' /\ ShareOK' /\ OlderOK'
  BY DEF NoJobYet, AssignmentOK, ShareOK, OlderOK
<1>3. MoneyOK' /\ WorkOK'
  BY DEF MoneyOK, WorkOK, NoJobYet
<1>4. DispatchedOnce' /\ PaidOutOnce'
  BY DEF DispatchedOnce, PaidOutOnce
<1>5. PayoutsWhole' /\ PayoutsArePaidFor'
  BY DEF PayoutsWhole, PayoutsArePaidFor, NoJobYet
<1>6. WorkInOrder'
  BY DEF WorkInOrder, NoJobYet
<1>7. QED
  BY <1>1, <1>2, <1>3, <1>4, <1>5, <1>6

\* The quote gets its split: no share has been paid yet.
LEMMA SplitStep ==
    ASSUME IndInv, SplitRecorded
    PROVE  IndInv'
<1> USE DEF IndInv, SplitRecorded, asgVars, requestVars, payoutVars
<1>1. released = {} /\ ~shopShare /\ manager' \in {"none", "owed"}
  BY DEF ShareOK
<1>2. TypeOK'
  BY <1>1 DEF TypeOK
<1>3. NoJobYet' /\ AssignmentOK' /\ ShareOK' /\ OlderOK'
  BY <1>1 DEF NoJobYet, Exists, AssignmentOK, ShareOK, OlderOK
<1>4. MoneyOK' /\ WorkOK' /\ WorkInOrder'
  BY DEF MoneyOK, WorkOK, WorkInOrder
<1>5. DispatchedOnce' /\ PaidOutOnce' /\ PayoutsWhole' /\ PayoutsArePaidFor'
  BY <1>1 DEF DispatchedOnce, PaidOutOnce, PayoutsWhole, PayoutsArePaidFor
<1>6. QED
  BY <1>2, <1>3, <1>4, <1>5

\* create-job begins, and saves order and job.
LEMMA CreateJobStep ==
    ASSUME IndInv, NEW r \in Requests, BeginCreateJob(r) \/ CreateOrder(r) \/ CreateJob(r)
    PROVE  IndInv'
<1> USE DEF IndInv, TypeOK, jobVars, asgVars, worldVars, payoutVars, BeginCreateJob, CreateOrder,
      CreateJob, Exists
<1>1. TypeOK'
  <2>1. doing' \in [Requests -> Ops \cup Creating \cup {"none"}]
    BY DEF Creating
  <2>2. status' \in Status
    BY DEF Status
  <2>3. QED
    BY <2>1, <2>2
<1>2. NoJobYet'
  BY DEF NoJobYet
<1>3. AssignmentOK'
  BY DEF AssignmentOK, NoJobYet, OrderStatus, ShopOps
<1>4. ShareOK' /\ PayoutsWhole'
  BY DEF ShareOK, PayoutsWhole, NoJobYet
<1>5. MoneyOK'
  BY DEF MoneyOK
<1>6. WorkOK'
  <2>1. CASE BeginCreateJob(r)
    BY <2>1 DEF WorkOK, OrderStatus
  <2>2. CASE CreateOrder(r)
    BY <2>2 DEF WorkOK
  <2>3. CASE CreateJob(r)
    <3>1. ordered
      BY <2>3 DEF WorkOK
    <3>2. \A q \in Requests : doing'[q] = "start" => doing[q] = "start"
      BY <2>3
    <3>3. ordered' /\ due' = due
      BY <2>3, <3>1
    <3>4. QED
      BY <3>2, <3>3 DEF WorkOK
  <2>4. QED
    BY <2>1, <2>2, <2>3
<1>7. OlderOK'
  BY DEF OlderOK, ShopOps
<1>8. DispatchedOnce' /\ PaidOutOnce' /\ PayoutsArePaidFor'
  BY DEF DispatchedOnce, PaidOutOnce, PayoutsArePaidFor
<1>9. WorkInOrder'
  BY DEF WorkInOrder, NoJobYet
<1>10. QED
  BY <1>1, <1>2, <1>3, <1>4, <1>5, <1>6, <1>7, <1>8, <1>9

\* create-job saves the assignment, and the order's status on it.
LEMMA CreateAssignmentStep ==
    ASSUME IndInv, NEW r \in Requests, CreateAssignment(r) \/ AttachOrder(r)
    PROVE  IndInv'
<1>1. /\ UNCHANGED <<jobVars, worldVars, dispatches, payoutVars>>
      /\ ordered /\ Exists
      /\ assignment' \in Assignment \ {"absent"}
      /\ shopShare' = IF assignment = "absent" THEN split ELSE shopShare
  <2>1. CASE CreateAssignment(r)
    BY <2>1 DEF CreateAssignment, IndInv, TypeOK, NoJobYet, WorkOK, Assignment, asgVars, ShareOK
  <2>2. CASE AttachOrder(r)
    BY <2>2 DEF AttachOrder, IndInv, NoJobYet, WorkOK, AssignmentOK, Assignment, OrderStatus, Exists
  <2>3. QED
    BY <2>1, <2>2
<1>2. /\ doing' \in [Requests -> Ops \cup Creating \cup {"none"}]
      /\ \A q \in Requests : \/ doing'[q] = doing[q]
                             \/ doing'[q] \in OrderStatus \cup {"none", "assign"}
      /\ older' \in SUBSET Requests /\ older \subseteq older' \cup {r}
      /\ doing'[r] \in OrderStatus \cup {"none", "assign"}
  BY DEF CreateAssignment, AttachOrder, Done, IndInv, TypeOK, Creating
<1>3. assignment' = "rejected" => assignment = "rejected"
  BY DEF CreateAssignment, AttachOrder, OrderStatus, asgVars
<1> USE <1>1, <1>2, <1>3 DEF IndInv, jobVars, worldVars, payoutVars
<1>4. TypeOK'
  BY DEF TypeOK
<1>5. NoJobYet' /\ AssignmentOK'
  BY DEF NoJobYet, Exists, AssignmentOK
<1>6. ShareOK' /\ PayoutsWhole' /\ PayoutsArePaidFor'
  BY DEF ShareOK, TypeOK, PayoutsWhole, PayoutsArePaidFor
<1>7. MoneyOK'
  BY DEF MoneyOK, OrderStatus
<1>8. WorkOK'
  BY DEF WorkOK, OrderStatus
<1>9. OlderOK'
  BY DEF OlderOK, OrderStatus, ShopOps
<1>10. DispatchedOnce' /\ PaidOutOnce' /\ WorkInOrder'
  BY DEF DispatchedOnce, PaidOutOnce, WorkInOrder
<1>11. QED
  BY <1>4, <1>5, <1>6, <1>7, <1>8, <1>9, <1>10

\* Dispatch locks the job, and does nothing for one that is dispatched.
LEMMA DispatchStep ==
    ASSUME IndInv, Dispatch \/ AutoDispatchChecks \/ AutoDispatch \/ AutoDispatchLost
    PROVE  IndInv'
<1>1. /\ UNCHANGED <<split, gate, paid, ordered, requestVars, payoutVars, payStatus, due, stamps,
                     manager>>
      /\ auto' \in SUBSET {"due", "checked"}
  BY DEF Dispatch, AutoDispatchChecks, AutoDispatch, AutoDispatchLost, DispatchJobToShop,
     SendToShop, worldVars, jobVars, IndInv, TypeOK
<1>2. CASE Dispatchable /\ ~dispatched /\ SendToShop
  <2> USE <1>1, <1>2 DEF IndInv, TypeOK, requestVars, payoutVars, SendToShop
  <2>1. TypeOK'
    <3>1. dispatches' \in Nat /\ status' \in Status /\ assignment' \in Assignment
      BY DEF Status, Assignment
    <3>2. QED
      BY <3>1
  <2>2. NoJobYet'
    BY DEF NoJobYet, Exists
  <2>3. AssignmentOK'
    BY DEF AssignmentOK
  <2>4. ShareOK'
    BY DEF ShareOK, Dispatchable
  <2>5. MoneyOK' /\ OlderOK'
    BY DEF MoneyOK, OlderOK
  <2>6. WorkOK'
    BY DEF WorkOK
  <2>7. DispatchedOnce' /\ PaidOutOnce'
    BY DEF DispatchedOnce, PaidOutOnce
  <2>8. PayoutsWhole' /\ PayoutsArePaidFor' /\ WorkInOrder'
    BY DEF PayoutsWhole, PayoutsArePaidFor, WorkInOrder
  <2>9. QED
    BY <2>1, <2>2, <2>3, <2>4, <2>5, <2>6, <2>7, <2>8
<1>3. CASE UNCHANGED <<jobVars, asgVars, dispatches>>
  BY <1>1, <1>3 DEF IndInv, TypeOK, NoJobYet, Exists, AssignmentOK, ShareOK, MoneyOK, WorkOK,
     OlderOK, DispatchedOnce, PaidOutOnce, PayoutsWhole, PayoutsArePaidFor, WorkInOrder,
     jobVars, asgVars, requestVars, payoutVars
<1>4. QED
  BY <1>2, <1>3 DEF Dispatch, AutoDispatchChecks, AutoDispatch, AutoDispatchLost, DispatchJobToShop

\* A request reads and checks; a rejected assignment passes no transition's check.
LEMMA BeginStep ==
    ASSUME IndInv, NEW r \in Requests, NEW op \in Ops, Begin(r, op)
    PROVE  IndInv'
<1> USE DEF IndInv, TypeOK, jobVars, asgVars, payoutVars, Begin, Exists
<1>1. TypeOK'
  BY DEF Ops
<1>2. NoJobYet' /\ ShareOK'
  BY DEF NoJobYet, ShareOK
<1>3. AssignmentOK'
  BY DEF AssignmentOK, May, ShopOps, OrderStatus
<1>4. MoneyOK'
  BY DEF MoneyOK
<1>5. WorkOK'
  BY DEF WorkOK, May, OrderStatus
<1>6. OlderOK'
  BY DEF OlderOK, May, ShopOps
<1>7. DispatchedOnce' /\ PaidOutOnce' /\ PayoutsWhole' /\ PayoutsArePaidFor' /\ WorkInOrder'
  BY DEF DispatchedOnce, PaidOutOnce, PayoutsWhole, PayoutsArePaidFor, WorkInOrder
<1>8. QED
  BY <1>1, <1>2, <1>3, <1>4, <1>5, <1>6, <1>7

\* A transition of the shop saves what it decided.
LEMMA TransitionStep ==
    ASSUME IndInv, NEW r \in Requests, FinishTransition(r)
    PROVE  IndInv'
<1>1. /\ doing[r] \in ShopOps
      /\ doing' = [doing EXCEPT ![r] = "none"]
      /\ UNCHANGED <<payStatus, assignedShop, dispatched, due, manager, shopShare, split, gate, paid,
                     auto, ordered, dispatches, released, transfers, hold>>
  BY DEF FinishTransition, Save, ShopOps, worldVars, payoutVars
<1>2. /\ assignment' \in Assignment \ {"absent"}
      /\ status' \in Status \ {"absent"}
      /\ asgStatus' \in {"assigned", "reassignment_required"}
      /\ stamps \subseteq stamps' /\ stamps' \in SUBSET Stamps
      /\ "started" \in stamps' \ stamps => doing[r] = "start"
      /\ stamps' # stamps => doing[r] \in {"start", "makeReady", "complete"}
      /\ doing[r] = "start" => "started" \in stamps'
      /\ assignment' \in {"in_production", "finishing", "ready", "completed"}
           => doing[r] \in {"start", "finish", "makeReady", "complete"}
      /\ status' \in {"in_production", "finishing", "ready", "delivered", "completed"}
           => doing[r] \in {"start", "finish", "makeReady", "complete"}
  BY DEF FinishTransition, Save, Assignment, Status, Stamps, IndInv, TypeOK
<1>3. /\ older' \in SUBSET Requests
      /\ assignment' = "rejected" =>
           \/ assignment = "rejected" /\ older' = older \ {r}
           \/ older' = {q \in Requests : doing'[q] # "none"}
  BY DEF FinishTransition, Save, IndInv, TypeOK
<1> USE <1>1, <1>2 DEF IndInv, TypeOK
<1>4. TypeOK'
  BY <1>3
<1>5. NoJobYet'
  BY DEF NoJobYet, Exists
<1>6. AssignmentOK'
  BY DEF AssignmentOK
<1>7. ShareOK'
  <2>1. assignment # "absent"
    BY DEF AssignmentOK
  <2>2. QED
    BY <2>1 DEF ShareOK
<1>8. MoneyOK'
  BY DEF MoneyOK
<1>9. WorkOK'
  BY DEF WorkOK, OrderStatus
<1>10. OlderOK'
  BY <1>3 DEF OlderOK, ShopOps
<1>11. DispatchedOnce' /\ PaidOutOnce' /\ PayoutsWhole' /\ PayoutsArePaidFor'
  BY DEF DispatchedOnce, PaidOutOnce, PayoutsWhole, PayoutsArePaidFor
<1>12. WorkInOrder'
  BY DEF WorkInOrder, WorkOK
<1>13. QED
  BY <1>4, <1>5, <1>6, <1>7, <1>8, <1>9, <1>10, <1>11, <1>12

\* Delivery, completion, settlement, or a request that ends without saving.
LEMMA FinishStep ==
    ASSUME IndInv, NEW r \in Requests,
           FinishDeliver(r) \/ FinishConfirm(r) \/ FinishSettle(r) \/ Abandon(r)
    PROVE  IndInv'
<1> USE DEF IndInv, TypeOK, jobVars, asgVars, worldVars, payoutVars, Done, FinishDeliver,
      FinishConfirm, FinishSettle, Abandon
<1>1. TypeOK'
  <2>1. CASE FinishDeliver(r)
    BY <2>1 DEF Status, Stamps
  <2>2. CASE FinishConfirm(r)
    BY <2>2 DEF Status, Stamps, Assignment
  <2>3. CASE FinishSettle(r)
    BY <2>3 DEF Status
  <2>4. CASE Abandon(r)
    BY <2>4
  <2>5. QED
    BY <2>1, <2>2, <2>3, <2>4
<1>2. NoJobYet'
  BY DEF NoJobYet, Exists
<1>3. AssignmentOK'
  <2>1. CASE FinishDeliver(r)
    BY <2>1 DEF AssignmentOK, ShopOps, OrderStatus
  <2>2. CASE FinishConfirm(r)
    BY <2>2 DEF AssignmentOK, ShopOps, OrderStatus
  <2>3. CASE FinishSettle(r) \/ Abandon(r)
    BY <2>3 DEF AssignmentOK, ShopOps, OrderStatus
  <2>4. QED
    BY <2>1, <2>2, <2>3
<1>4. ShareOK'
  BY DEF ShareOK
<1>5. MoneyOK'
  BY DEF MoneyOK
<1>6. WorkOK'
  <2>1. CASE FinishDeliver(r)
    BY <2>1 DEF WorkOK, OrderStatus
  <2>2. CASE FinishConfirm(r)
    BY <2>2 DEF WorkOK, OrderStatus
  <2>3. CASE FinishSettle(r) \/ Abandon(r)
    BY <2>3 DEF WorkOK, OrderStatus
  <2>4. QED
    BY <2>1, <2>2, <2>3
<1>7. OlderOK'
  BY DEF OlderOK, ShopOps
<1>8. DispatchedOnce' /\ PaidOutOnce'
  BY DEF DispatchedOnce, PaidOutOnce
<1>9. PayoutsWhole' /\ PayoutsArePaidFor'
  BY DEF PayoutsWhole, PayoutsArePaidFor
<1>10. WorkInOrder'
  BY DEF WorkInOrder, WorkOK
<1>11. QED
  BY <1>1, <1>2, <1>3, <1>4, <1>5, <1>6, <1>7, <1>8, <1>9, <1>10

\* The artwork gates, the due date and the payout hold.
LEMMA StaffStep ==
    ASSUME IndInv, GateMoves \/ AcknowledgeDate \/ ToggleHold
    PROVE  IndInv'
<1> USE DEF IndInv, jobVars, asgVars, worldVars, requestVars, payoutVars, GateMoves,
      AcknowledgeDate, ToggleHold
<1>1. TypeOK'
  BY DEF TypeOK
<1>2. NoJobYet' /\ AssignmentOK' /\ ShareOK' /\ MoneyOK' /\ OlderOK'
  BY DEF NoJobYet, Exists, AssignmentOK, ShareOK, MoneyOK, OlderOK
<1>3. WorkOK' /\ WorkInOrder'
  BY DEF WorkOK, WorkInOrder
<1>4. DispatchedOnce' /\ PaidOutOnce' /\ PayoutsWhole' /\ PayoutsArePaidFor'
  BY DEF DispatchedOnce, PaidOutOnce, PayoutsWhole, PayoutsArePaidFor
<1>5. QED
  BY <1>1, <1>2, <1>3, <1>4

\* A release pays every payee that is not paid yet: the shop is one of them.
LEMMA ReleaseStep ==
    ASSUME IndInv, ReleasePayouts
    PROVE  IndInv'
<1> USE DEF IndInv, asgVars, worldVars, requestVars, ReleasePayouts, PayOut, Releasable
<1>1. Payees \subseteq Roles /\ assignment # "absent"
  BY DEF Payees, AssignmentOK
<1>2. shopShare
  BY <1>1 DEF Payees, ShareOK, Roles
<1>3. TypeOK'
  <2>1. transfers' \in [Roles -> Nat]
    BY DEF TypeOK
  <2>2. QED
    BY <1>1, <2>1 DEF TypeOK
<1>4. NoJobYet' /\ AssignmentOK' /\ ShareOK'
  BY <1>1, <1>2 DEF NoJobYet, Exists, AssignmentOK, ShareOK
<1>5. MoneyOK' /\ PayoutsArePaidFor'
  BY DEF MoneyOK, PayoutsArePaidFor, HasConfirmedPayment
<1>6. WorkOK' /\ DispatchedOnce' /\ OlderOK'
  BY DEF WorkOK, DispatchedOnce, OlderOK
<1>7. PaidOutOnce'
  BY <1>1 DEF PaidOutOnce, TypeOK
<1>8. PayoutsWhole'
  BY <1>1, <1>2 DEF PayoutsWhole, Payees, Roles, TypeOK
<1>9. WorkInOrder'
  BY DEF WorkInOrder, WorkOK
<1>10. QED
  BY <1>3, <1>4, <1>5, <1>6, <1>7, <1>8, <1>9

LEMMA StutterStep == IndInv /\ UNCHANGED vars => IndInv'
BY DEF IndInv, TypeOK, NoJobYet, Exists, AssignmentOK, ShareOK, MoneyOK, WorkOK, OlderOK,
       DispatchedOnce, PaidOutOnce, PayoutsWhole, PayoutsArePaidFor, WorkInOrder, vars, jobVars,
       asgVars, worldVars, requestVars, payoutVars

LEMMA IndStep == IndInv /\ [Next]_vars => IndInv'
BY StutterStep, PaymentStep, SplitStep, CreateJobStep, CreateAssignmentStep, DispatchStep,
   BeginStep, TransitionStep, FinishStep, StaffStep, ReleaseStep DEF Next, RequestStep

-----------------------------------------------------------------------------
\* Every variable keeps its type.
THEOREM TypeCorrect == Spec => []TypeOK
<1>1. IndInv => TypeOK
  BY DEF IndInv
<1>2. QED
  BY IndInit, IndStep, <1>1, PTL DEF Spec

\* jobs/services/dispatch.py:53: a job is sent to a shop at most once, whoever
\* dispatches it, and a job that counts as dispatched has its assignment.
THEOREM DispatchStaysWhole == Spec => []DispatchIsWhole
<1>1. IndInv => DispatchedOnce
  BY DEF IndInv
<1>2. IndInv => DispatchHasAssignment
  BY DEF IndInv, AssignmentOK, DispatchHasAssignment
<1>3. IndInv => DispatchIsWhole
  BY <1>1, <1>2 DEF DispatchIsWhole
<1>4. QED
  BY IndInit, IndStep, <1>3, PTL DEF Spec

\* jobs/payout_services.py:82 and 198-235: each role is paid out at most once,
\* from money that has arrived, and nobody without the others who are owed.
THEOREM PayoutsStayRight == Spec => []PayoutsAreRight
<1>1. IndInv => PayoutsAreRight
  BY DEF IndInv, PayoutsAreRight
<1>2. QED
  BY IndInit, IndStep, <1>1, PTL DEF Spec

\* Production has a due date, and nothing is finished that it did not start.
THEOREM WorkIsInOrder == Spec => []WorkInOrder
<1>1. IndInv => WorkInOrder
  BY DEF IndInv
<1>2. QED
  BY IndInit, IndStep, <1>1, PTL DEF Spec

\* A rejection, before dispatch or after it, gives way only to a transition that
\* had read the assignment before it, and to the order's status of a create-job.
THEOREM RejectionIsFinal == Spec => RejectedForGood
<1> DEFINE Excused ==
      \E r \in Requests : /\ doing[r] # "none" /\ doing'[r] = "none"
                          /\ \/ doing[r] \in OrderStatus
                             \/ doing[r] \in ShopOps /\ r \in older
<1>1. IndInv /\ [Next]_vars => [assignment = "rejected" /\ assignment' # "rejected" => Excused]_vars
  <2> SUFFICES ASSUME IndInv, Next, assignment = "rejected", assignment' # "rejected"
               PROVE  Excused
    BY DEF vars
  <2> USE DEF asgVars
  <2>1. CASE PaymentConfirmed \/ SplitRecorded
    BY <2>1 DEF PaymentConfirmed, SplitRecorded
  <2>2. CASE Dispatch \/ AutoDispatchChecks \/ AutoDispatch \/ AutoDispatchLost
    BY <2>2 DEF Dispatch, AutoDispatchChecks, AutoDispatch, AutoDispatchLost, DispatchJobToShop,
       SendToShop
  <2>3. CASE GateMoves \/ AcknowledgeDate \/ ToggleHold \/ ReleasePayouts
    BY <2>3 DEF GateMoves, AcknowledgeDate, ToggleHold, ReleasePayouts, PayOut
  <2>4. ASSUME NEW r \in Requests, RequestStep(r)
        PROVE  Excused
    <3>1. CASE FinishTransition(r)
      <4>1. doing[r] \in ShopOps /\ doing[r] # "none" /\ doing'[r] = "none"
        BY <3>1 DEF FinishTransition, Save, ShopOps, IndInv, TypeOK
      <4>2. r \in older
        BY <4>1 DEF IndInv, OlderOK
      <4>3. QED
        BY <4>1, <4>2
    <3>2. CASE AttachOrder(r)
      BY <3>2 DEF AttachOrder, Done, OrderStatus, IndInv, TypeOK
    <3>3. CASE ~FinishTransition(r) /\ ~AttachOrder(r)
      BY <2>4, <3>3 DEF RequestStep, Begin, FinishDeliver, FinishConfirm, FinishSettle, Abandon,
         BeginCreateJob, CreateOrder, CreateJob, CreateAssignment
    <3>4. QED
      BY <3>1, <3>2, <3>3
  <2>5. QED
    BY <2>1, <2>2, <2>3, <2>4 DEF Next
<1>2. QED
  BY IndInit, IndStep, <1>1, PTL DEF Spec, RejectedForGood

-----------------------------------------------------------------------------
(* The calendar: numbers *)

\* Numbers have a least one.
LEMMA LeastNumber ==
    ASSUME NEW S \in SUBSET Nat, S # {}
    PROVE  \E x \in S : \A y \in S : x <= y
<1>1. PICK x \in S : \A y \in S : <<y, x>> \notin OpToRel(<, Nat)
  BY NatLessThanWellFounded, WFMin
<1>2. \A y \in S : ~(y < x)
  BY <1>1 DEF OpToRel
<1> QED BY <1>2

-----------------------------------------------------------------------------
(* Days *)

\* A day is over before the next one.
LEMMA DaysFollow ==
    ASSUME NEW a \in Nat, NEW b \in Nat, a < b
    PROVE  a * Day + Day <= b * Day
<1>1. Day \in Nat \ {0}
  BY CalendarAssumption
<1>2. \A x \in Nat : (a + 1) * Day <= (a + 1 + x) * Day
  BY <1>1
<1>3. (a + 1) * Day = a * Day + Day
  BY <1>1
<1>4. b = a + 1 + (b - (a + 1)) /\ b - (a + 1) \in Nat
  OBVIOUS
<1> QED BY <1>2, <1>3, <1>4

\* An instant is a day and a clock, in one way.
LEMMA DaysAndClocks ==
    /\ \A t \in Nat : DayOf(t) \in Nat /\ Clock(t) \in 0 .. (Day - 1) /\ t = At(DayOf(t), Clock(t))
    /\ \A d \in Nat, c \in 0 .. (Day - 1) :
          At(d, c) \in Nat /\ DayOf(At(d, c)) = d /\ Clock(At(d, c)) = c
<1>1. Day \in Nat \ {0}
  BY CalendarAssumption
<1>2. ASSUME NEW t \in Nat
      PROVE  DayOf(t) \in Nat /\ Clock(t) \in 0 .. (Day - 1) /\ t = At(DayOf(t), Clock(t))
  BY <1>1 DEF DayOf, Clock, At
<1>3. ASSUME NEW d \in Nat, NEW c \in 0 .. (Day - 1)
      PROVE  At(d, c) \in Nat /\ DayOf(At(d, c)) = d /\ Clock(At(d, c)) = c
  <2>1. At(d, c) \in Nat
    <3>1. d * Day \in Nat
      BY <1>1
    <3> QED BY <1>1, <3>1 DEF At
  <2> DEFINE q == DayOf(At(d, c))
             r == Clock(At(d, c))
  <2>2. q \in Nat /\ r \in 0 .. (Day - 1) /\ d * Day + c = q * Day + r
    BY <1>2, <2>1 DEF At
  <2> HIDE DEF q, r
  <2>3. \A a, b \in Nat : a < b => a * Day + Day <= b * Day
    BY DaysFollow
  <2>4. d * Day \in Nat /\ q * Day \in Nat
    BY <1>1, <2>2
  <2>5. q = d
    BY <1>1, <2>2, <2>3, <2>4
  <2>6. r = c
    BY <1>1, <2>2, <2>4, <2>5
  <2> QED BY <2>1, <2>5, <2>6 DEF q, r
<1> QED BY <1>2, <1>3

\* Later instants are on later days, or later on the day.
LEMMA DaysInOrder ==
    ASSUME NEW t \in Nat, NEW u \in Nat
    PROVE  t < u <=> DayOf(t) < DayOf(u) \/ (DayOf(t) = DayOf(u) /\ Clock(t) < Clock(u))
<1> DEFINE d == DayOf(t)
           c == Clock(t)
           q == DayOf(u)
           r == Clock(u)
<1>1. /\ Day \in Nat \ {0} /\ d \in Nat /\ c \in 0 .. (Day - 1) /\ q \in Nat /\ r \in 0 .. (Day - 1)
      /\ t = d * Day + c /\ u = q * Day + r
  BY CalendarAssumption, DaysAndClocks DEF At
<1> HIDE DEF d, c, q, r
<1>2. \A a, b \in Nat : a < b => a * Day + Day <= b * Day
  BY DaysFollow
<1>3. d * Day \in Nat /\ q * Day \in Nat
  BY <1>1
<1>4. d < q => t < u
  BY <1>1, <1>2, <1>3
<1>5. q < d => u < t
  BY <1>1, <1>2, <1>3
<1>6. d = q => (t < u <=> c < r)
  BY <1>1, <1>3
<1>7. d < q \/ q < d \/ d = q
  BY <1>1
<1>8. t < u <=> d < q \/ (d = q /\ c < r)
  BY <1>1, <1>4, <1>5, <1>6, <1>7
<1> QED BY <1>8 DEF d, c, q, r

\* There is always a Monday to come that is no holiday.
LEMMA WorkingDaysGoOn ==
    ASSUME NEW n \in Nat
    PROVE  \E d \in Nat : d > n /\ IsWorkingDay(d)
<1>1. IsFiniteSet(Holidays) /\ Cardinality(Holidays) \in Nat
  BY CalendarAssumption, FS_CardinalityType
<1> DEFINE m == Cardinality(Holidays)
           mondays == [k \in 0 .. m |-> 7 * (n + 1 + k)]
<1>2. PICK k \in 0 .. m : mondays[k] \notin Holidays
  <2> SUFFICES ASSUME \A k \in 0 .. m : mondays[k] \in Holidays PROVE FALSE
    OBVIOUS
  <2>1. mondays \in Injection(0 .. m, Holidays)
    BY <1>1 DEF Injection, IsInjective
  <2>2. Cardinality(0 .. m) <= m
    BY <1>1, <2>1, FS_Injection
  <2>3. Cardinality(0 .. m) = m + 1
    BY <1>1, FS_Interval
  <2> QED BY <1>1, <2>2, <2>3
<1>3. mondays[k] \in Nat /\ mondays[k] > n /\ mondays[k] % 7 = 0
  BY <1>1
<1> QED BY <1>2, <1>3 DEF IsWorkingDay

-----------------------------------------------------------------------------
(* Working time *)

\* The working hours of a day.
LEMMA WorkingHours ==
    /\ Day \in Nat \ {0} /\ Opens \in Nat /\ Closes \in Nat /\ Opens < Closes
    /\ Opens \in 0 .. (Day - 1) /\ Closes \in 0 .. (Day - 1)
<1>1. Day \in Nat \ {0} /\ Opens \in Nat /\ Closes \in Nat /\ Opens < Closes /\ Closes < Day
  BY CalendarAssumption
<1> QED BY <1>1

\* How many instants there are between two.
LEMMA Lasts ==
    ASSUME NEW a \in Nat, NEW b \in Nat, a <= b
    PROVE  IsFiniteSet(a .. (b - 1)) /\ Cardinality(a .. (b - 1)) = b - a
<1>1. a \in Int /\ b - 1 \in Int
  OBVIOUS
<1>2. /\ IsFiniteSet(a .. (b - 1))
      /\ Cardinality(a .. (b - 1)) = IF a > b - 1 THEN 0 ELSE (b - 1) - a + 1
  BY <1>1, FS_Interval
<1> QED BY <1>2

WorkingIn(from, to) == {t \in from .. (to - 1) : IsWorking(t)}

\* Working time is a number, at most the time that goes by,
LEMMA WorkedType ==
    ASSUME NEW a \in Nat, NEW b \in Nat, a <= b
    PROVE  /\ IsFiniteSet(WorkingIn(a, b)) /\ WorkedBetween(a, b) = Cardinality(WorkingIn(a, b))
           /\ WorkedBetween(a, b) \in Nat /\ WorkedBetween(a, b) <= b - a
<1>1. IsFiniteSet(a .. (b - 1)) /\ Cardinality(a .. (b - 1)) = b - a
  BY Lasts
<1>2. WorkingIn(a, b) \in SUBSET (a .. (b - 1))
  BY DEF WorkingIn
<1>3. IsFiniteSet(WorkingIn(a, b)) /\ Cardinality(WorkingIn(a, b)) <= b - a
  BY <1>1, <1>2, FS_Subset
<1> QED BY <1>3, FS_CardinalityType DEF WorkedBetween, WorkingIn

\* adds up,
LEMMA WorkedAdds ==
    ASSUME NEW a \in Nat, NEW b \in Nat, NEW c \in Nat, a <= b, b <= c
    PROVE  WorkedBetween(a, c) = WorkedBetween(a, b) + WorkedBetween(b, c)
<1>1. /\ IsFiniteSet(WorkingIn(a, b)) /\ IsFiniteSet(WorkingIn(b, c))
      /\ WorkedBetween(a, b) = Cardinality(WorkingIn(a, b)) /\ WorkedBetween(a, b) \in Nat
      /\ WorkedBetween(b, c) = Cardinality(WorkingIn(b, c)) /\ WorkedBetween(b, c) \in Nat
  BY WorkedType
<1>4. WorkedBetween(a, c) = Cardinality(WorkingIn(a, c))
  BY WorkedType
<1>2. /\ WorkingIn(a, b) \cup WorkingIn(b, c) = WorkingIn(a, c)
      /\ WorkingIn(a, b) \cap WorkingIn(b, c) = {}
  BY DEF WorkingIn
<1>3. Cardinality(WorkingIn(a, b) \cap WorkingIn(b, c)) = 0
  BY <1>2, FS_EmptySet
<1>5. Cardinality(WorkingIn(a, b) \cup WorkingIn(b, c)) =
        Cardinality(WorkingIn(a, b)) + Cardinality(WorkingIn(b, c)) - Cardinality(WorkingIn(a, b) \cap WorkingIn(b, c))
  BY <1>1, FS_Union
<1>6. Cardinality(WorkingIn(a, c)) =
        Cardinality(WorkingIn(a, b)) + Cardinality(WorkingIn(b, c)) - 0
  BY <1>2, <1>3, <1>5
<1>7. \A m, n \in Nat : m + n - 0 = m + n
  OBVIOUS
<1> QED BY <1>1, <1>4, <1>6, <1>7

\* and is nothing, or all of the time, when it should be.
LEMMA WorkedNone ==
    ASSUME NEW a \in Nat, NEW b \in Nat, \A t \in a .. (b - 1) : ~IsWorking(t)
    PROVE  WorkedBetween(a, b) = 0
<1>1. {t \in a .. (b - 1) : IsWorking(t)} = {}
  OBVIOUS
<1> QED BY <1>1, FS_EmptySet DEF WorkedBetween

LEMMA WorkedAll ==
    ASSUME NEW a \in Nat, NEW b \in Nat, a <= b, \A t \in a .. (b - 1) : IsWorking(t)
    PROVE  WorkedBetween(a, b) = b - a
<1>1. {t \in a .. (b - 1) : IsWorking(t)} = a .. (b - 1)
  OBVIOUS
<1>2. Cardinality(a .. (b - 1)) = b - a
  BY Lasts
<1> QED BY <1>1, <1>2 DEF WorkedBetween

-----------------------------------------------------------------------------
(* The next working instant *)

IsFirstWorking(t, s) ==
    s \in Nat /\ s >= t /\ IsWorking(s) /\ \A u \in t .. (s - 1) : ~IsWorking(u)

FirstWorking(t) == CHOOSE s : IsFirstWorking(t, s)

\* Work always goes on,
LEMMA FirstWorkingExists ==
    ASSUME NEW t \in Nat
    PROVE  IsFirstWorking(t, FirstWorking(t))
<1>1. PICK d \in Nat : d > DayOf(t) /\ IsWorkingDay(d)
  BY DaysAndClocks, WorkingDaysGoOn
<1> DEFINE later == {s \in Nat : s >= t /\ IsWorking(s)}
<1>2. At(d, Opens) \in later
  <2>1. Opens \in 0 .. (Day - 1) /\ Opens < Closes /\ Opens \in Nat
    BY CalendarAssumption
  <2>2. At(d, Opens) \in Nat /\ DayOf(At(d, Opens)) = d /\ Clock(At(d, Opens)) = Opens
    BY <2>1, DaysAndClocks
  <2>3. t < At(d, Opens)
    BY <1>1, <2>2, DaysInOrder, DaysAndClocks
  <2> QED BY <1>1, <2>1, <2>2, <2>3 DEF IsWorking
<1>3. PICK s \in later : \A u \in later : s <= u
  <2>1. later \in SUBSET Nat /\ later # {}
    BY <1>2
  <2> HIDE DEF later
  <2> QED BY <2>1, LeastNumber
<1>4. IsFirstWorking(t, s)
  BY <1>3 DEF IsFirstWorking
<1> QED BY <1>4 DEF FirstWorking

\* at one instant.
LEMMA FirstWorkingIs ==
    ASSUME NEW t \in Nat, NEW s, IsFirstWorking(t, s)
    PROVE  FirstWorking(t) = s
<1>1. IsFirstWorking(t, FirstWorking(t))
  BY FirstWorkingExists
<1> DEFINE r == FirstWorking(t)
<1>2. r \in Nat /\ r >= t /\ IsWorking(r) /\ \A u \in t .. (r - 1) : ~IsWorking(u)
  BY <1>1 DEF IsFirstWorking
<1> HIDE DEF r
<1>3. s \in Nat /\ s >= t /\ IsWorking(s) /\ \A u \in t .. (s - 1) : ~IsWorking(u)
  BY DEF IsFirstWorking
<1>4. r = s
  BY <1>2, <1>3
<1> QED BY <1>4 DEF r

\* Where nobody works it is the one of any instant up to it.
LEMMA FirstWorkingSkips ==
    ASSUME NEW t \in Nat, NEW n \in Nat, t <= n, \A u \in t .. (n - 1) : ~IsWorking(u)
    PROVE  FirstWorking(t) = FirstWorking(n)
<1> DEFINE s == FirstWorking(n)
<1>1. s \in Nat /\ s >= n /\ IsWorking(s) /\ \A u \in n .. (s - 1) : ~IsWorking(u)
  BY FirstWorkingExists DEF IsFirstWorking
<1> HIDE DEF s
<1>2. IsFirstWorking(t, s)
  BY <1>1 DEF IsFirstWorking
<1> QED BY <1>2, FirstWorkingIs DEF s

Morrow(t) == At(DayOf(t) + 1, Opens)

\* After a day's work nobody works before the next day's opening.
LEMMA NightsAreFree ==
    ASSUME NEW t \in Nat, ~IsWorkingDay(DayOf(t)) \/ Clock(t) >= Closes
    PROVE  /\ Morrow(t) \in Nat /\ Morrow(t) > t
           /\ \A u \in t .. (Morrow(t) - 1) : ~IsWorking(u)
<1>1. Opens \in 0 .. (Day - 1) /\ Closes \in Nat /\ DayOf(t) \in Nat
  BY WorkingHours, DaysAndClocks
<1>5. DayOf(t) + 1 \in Nat
  BY <1>1
<1>2. /\ Morrow(t) \in Nat /\ DayOf(Morrow(t)) = DayOf(t) + 1
      /\ Clock(Morrow(t)) = Opens
  BY <1>1, <1>5, DaysAndClocks DEF Morrow
<1>3. Morrow(t) > t
  BY <1>1, <1>2, DaysInOrder
<1>4. ASSUME NEW u \in t .. (Morrow(t) - 1) PROVE ~IsWorking(u)
  <2>1. u \in Nat /\ ~(u < t) /\ u < Morrow(t)
    BY <1>2
  <2>2. DayOf(u) \in Nat /\ Clock(u) \in Nat /\ Clock(t) \in Nat
    BY <2>1, DaysAndClocks
  <2>3. /\ ~(DayOf(u) < DayOf(t) \/ (DayOf(u) = DayOf(t) /\ Clock(u) < Clock(t)))
        /\ DayOf(u) < DayOf(t) + 1 \/ (DayOf(u) = DayOf(t) + 1 /\ Clock(u) < Opens)
    BY <1>2, <2>1, DaysInOrder
  <2>4. \/ DayOf(u) = DayOf(t) /\ Clock(u) >= Clock(t)
        \/ Clock(u) < Opens
    BY <1>1, <2>2, <2>3
  <2> QED BY <1>1, <2>2, <2>4 DEF IsWorking
<1> QED BY <1>2, <1>3, <1>4

\* What the loop looks for is the first working instant.
LEMMA FirstWorkingUnfolds ==
    ASSUME NEW t \in Nat
    PROVE  FirstWorking(t) =
             IF ~IsWorkingDay(DayOf(t)) \/ Clock(t) >= Closes THEN FirstWorking(Morrow(t))
             ELSE IF Clock(t) < Opens THEN At(DayOf(t), Opens) ELSE t
<1>1. /\ DayOf(t) \in Nat /\ Clock(t) \in 0 .. (Day - 1) /\ Opens \in 0 .. (Day - 1)
      /\ Opens < Closes /\ Closes \in Nat
  BY WorkingHours, DaysAndClocks
<1>2. CASE ~IsWorkingDay(DayOf(t)) \/ Clock(t) >= Closes
  BY <1>2, NightsAreFree, FirstWorkingSkips
<1>3. CASE IsWorkingDay(DayOf(t)) /\ Clock(t) < Opens
  <2> DEFINE s == At(DayOf(t), Opens)
  <2>1. s \in Nat /\ DayOf(s) = DayOf(t) /\ Clock(s) = Opens
    BY <1>1, DaysAndClocks
  <2> HIDE DEF s
  <2>2. s > t /\ IsWorking(s)
    BY <1>1, <1>3, <2>1, DaysInOrder DEF IsWorking
  <2>3. ASSUME NEW u \in t .. (s - 1) PROVE ~IsWorking(u)
    <3>1. u \in Nat /\ ~(u < t) /\ u < s
      BY <2>1
    <3>2. DayOf(u) \in Nat /\ Clock(u) \in Nat
      BY <3>1, DaysAndClocks
    <3>3. Clock(u) < Opens
      BY <1>1, <2>1, <3>1, <3>2, DaysInOrder
    <3> QED BY <1>1, <3>2, <3>3 DEF IsWorking
  <2>4. IsFirstWorking(t, s)
    BY <2>1, <2>2, <2>3 DEF IsFirstWorking
  <2>5. FirstWorking(t) = s
    BY <2>4, FirstWorkingIs
  <2>6. ~(Clock(t) >= Closes)
    BY <1>1, <1>3
  <2> QED BY <1>3, <2>5, <2>6 DEF s
<1>4. CASE IsWorkingDay(DayOf(t)) /\ ~(Clock(t) < Opens) /\ ~(Clock(t) >= Closes)
  <2>1. IsFirstWorking(t, t)
    BY <1>1, <1>4 DEF IsFirstWorking, IsWorking
  <2> QED BY <1>4, <2>1, FirstWorkingIs
<1> QED BY <1>2, <1>3, <1>4

\* The loop ends there.
LEMMA NextIsFirstWorking ==
    ASSUME NEW t \in Nat
    PROVE  NextWorkingInstant[t] = FirstWorking(t)
<1> DEFINE Is(f) == f = [u \in Nat |-> IF ~IsWorkingDay(DayOf(u)) \/ Clock(u) >= Closes
                                         THEN f[At(DayOf(u) + 1, Opens)]
                                         ELSE IF Clock(u) < Opens THEN At(DayOf(u), Opens) ELSE u]
           next == CHOOSE f : Is(f)
           first == [u \in Nat |-> FirstWorking(u)]
<1>1. \A u \in Nat : Morrow(u) \in Nat
  <2>1. \A u \in Nat : DayOf(u) + 1 \in Nat /\ Opens \in 0 .. (Day - 1)
    BY DaysAndClocks, WorkingHours
  <2> QED BY <2>1, DaysAndClocks DEF Morrow
<1>2. Is(first)
  BY <1>1, FirstWorkingUnfolds DEF Morrow
<1>3. Is(next)
  BY <1>2
<1>4. NextWorkingInstant = next
  BY DEF NextWorkingInstant
<1>5. \A u \in Nat :
         next[u] = IF ~IsWorkingDay(DayOf(u)) \/ Clock(u) >= Closes THEN next[Morrow(u)]
                   ELSE IF Clock(u) < Opens THEN At(DayOf(u), Opens) ELSE u
  BY <1>3 DEF Morrow
<1> HIDE DEF next
<1> DEFINE far == {FirstWorking(u) - u : u \in {v \in Nat : next[v] # FirstWorking(v)}}
<1>6. far = {}
  <2> SUFFICES ASSUME far # {} PROVE FALSE
    OBVIOUS
  <2>1. \A u \in Nat : FirstWorking(u) \in Nat /\ FirstWorking(u) >= u
    BY FirstWorkingExists DEF IsFirstWorking
  <2>2. far \in SUBSET Nat
    BY <2>1
  <2>3. PICK d \in far : \A e \in far : d <= e
    <3> HIDE DEF far
    <3> QED BY <2>2, LeastNumber
  <2>4. PICK u \in Nat : next[u] # FirstWorking(u) /\ d = FirstWorking(u) - u
    BY <2>3
  <2>5. ~IsWorkingDay(DayOf(u)) \/ Clock(u) >= Closes
    BY <1>5, <2>4, FirstWorkingUnfolds
  <2>6. Morrow(u) > u /\ Morrow(u) \in Nat /\ FirstWorking(u) = FirstWorking(Morrow(u))
    BY <2>5, NightsAreFree, FirstWorkingUnfolds
  <2>7. next[Morrow(u)] # FirstWorking(Morrow(u))
    BY <1>5, <2>4, <2>5, <2>6
  <2>8. FirstWorking(Morrow(u)) - Morrow(u) \in far
    BY <2>6, <2>7
  <2>9. FirstWorking(Morrow(u)) - Morrow(u) < d
    BY <2>1, <2>4, <2>6
  <2>10. d <= FirstWorking(Morrow(u)) - Morrow(u)
    BY <2>3, <2>8
  <2> QED BY <2>1, <2>4, <2>6, <2>9, <2>10
<1>7. next[t] = FirstWorking(t)
  BY <1>6
<1> QED BY <1>4, <1>7

-----------------------------------------------------------------------------
(* Adding working hours *)

\* Where the hours end that begin at s: with the last of them worked.
Ends(s, hours, e) ==
    /\ e \in Nat /\ e >= s /\ WorkedBetween(s, e) = hours
    /\ IF hours = 0 THEN e = s ELSE IsWorking(e - 1)

EndOf(s, hours) == CHOOSE e : Ends(s, hours, e)

\* More is worked in a longer time, if the last of it is worked.
LEMMA WorkedMore ==
    ASSUME NEW s \in Nat, NEW a \in Nat, NEW b \in Nat, s <= a, a < b, IsWorking(b - 1)
    PROVE  WorkedBetween(s, a) < WorkedBetween(s, b)
<1>1. b - 1 \in Nat /\ a <= b - 1 /\ s <= b - 1 /\ b - 1 <= b
  OBVIOUS
<1>2. WorkedBetween(s, b - 1) = WorkedBetween(s, a) + WorkedBetween(a, b - 1)
  BY <1>1, WorkedAdds
<1>3. WorkedBetween(s, b) = WorkedBetween(s, b - 1) + WorkedBetween(b - 1, b)
  BY <1>1, WorkedAdds
<1>4. WorkedBetween(b - 1, b) = 1
  <2>1. \A t \in (b - 1) .. (b - 1) : IsWorking(t)
    BY <1>1
  <2>2. WorkedBetween(b - 1, b) = b - (b - 1)
    BY <1>1, <2>1, WorkedAll
  <2> QED BY <2>2
<1>5. WorkedBetween(s, a) \in Nat /\ WorkedBetween(a, b - 1) \in Nat
  BY <1>1, WorkedType
<1> QED BY <1>2, <1>3, <1>4, <1>5

\* Hours end at one instant.
LEMMA EndIsOne ==
    ASSUME NEW s \in Nat, NEW hours \in Nat, NEW a, NEW b, Ends(s, hours, a), Ends(s, hours, b)
    PROVE  a = b
<1>1. /\ a \in Nat /\ b \in Nat /\ s <= a /\ s <= b
      /\ WorkedBetween(s, a) = WorkedBetween(s, b) /\ WorkedBetween(s, a) \in Nat
      /\ hours # 0 => IsWorking(a - 1) /\ IsWorking(b - 1)
      /\ hours = 0 => a = b
  BY DEF Ends
<1>2. ~(a < b) \/ hours = 0
  BY <1>1, WorkedMore
<1>3. ~(b < a) \/ hours = 0
  BY <1>1, WorkedMore
<1> QED BY <1>1, <1>2, <1>3

\* An hour more ends with the next working instant.
LEMMA EndsLater ==
    ASSUME NEW s \in Nat, NEW hours \in Nat, NEW e, Ends(s, hours, e)
    PROVE  Ends(s, hours + 1, FirstWorking(e) + 1)
<1>1. e \in Nat /\ s <= e /\ WorkedBetween(s, e) = hours
  BY DEF Ends
<1> DEFINE n == FirstWorking(e)
<1>2. n \in Nat /\ n >= e /\ IsWorking(n) /\ \A u \in e .. (n - 1) : ~IsWorking(u)
  BY <1>1, FirstWorkingExists DEF IsFirstWorking
<1> HIDE DEF n
<1>3. WorkedBetween(e, n) = 0
  BY <1>1, <1>2, WorkedNone
<1>4. WorkedBetween(n, n + 1) = 1
  <2>1. \A t \in n .. ((n + 1) - 1) : IsWorking(t)
    BY <1>2
  <2>2. n + 1 \in Nat /\ n <= n + 1 /\ (n + 1) - n = 1
    BY <1>2
  <2>3. WorkedBetween(n, n + 1) = (n + 1) - n
    BY <1>2, <2>1, <2>2, WorkedAll
  <2> QED BY <2>2, <2>3
<1>5. WorkedBetween(s, n) = hours + 0
  BY <1>1, <1>2, <1>3, WorkedAdds
<1>6. WorkedBetween(s, n + 1) = hours + 0 + 1
  <2>1. s <= n /\ n <= n + 1 /\ n + 1 \in Nat
    BY <1>1, <1>2
  <2> QED BY <1>2, <1>4, <1>5, <2>1, WorkedAdds
<1>7. hours + 0 + 1 = hours + 1 /\ hours + 1 # 0 /\ (n + 1) - 1 = n /\ n + 1 \in Nat /\ n + 1 >= s
  BY <1>1, <1>2
<1> QED BY <1>2, <1>6, <1>7 DEF Ends, n

\* The end exists, for any hours from any instant.
LEMMA EndExists ==
    ASSUME NEW s \in Nat, NEW hours \in Nat
    PROVE  Ends(s, hours, EndOf(s, hours))
<1> DEFINE endless == {h \in Nat : \A e : ~Ends(s, h, e)}
<1>1. endless = {}
  <2> SUFFICES ASSUME endless # {} PROVE FALSE
    OBVIOUS
  <2>1. PICK h \in endless : \A k \in endless : h <= k
    <3>1. endless \in SUBSET Nat
      OBVIOUS
    <3> HIDE DEF endless
    <3> QED BY <3>1, LeastNumber
  <2>2. Ends(s, 0, s)
    <3>1. WorkedBetween(s, s) = 0
      BY WorkedNone
    <3> QED BY <3>1 DEF Ends
  <2>3. h \in Nat /\ h # 0
    BY <2>1, <2>2
  <2>4. h - 1 \in Nat /\ h - 1 \notin endless /\ (h - 1) + 1 = h
    BY <2>1, <2>3
  <2>5. PICK e : Ends(s, h - 1, e)
    BY <2>4
  <2>6. Ends(s, h, FirstWorking(e) + 1)
    BY <2>4, <2>5, EndsLater
  <2> QED BY <2>1, <2>6
<1>2. \E e : Ends(s, hours, e)
  BY <1>1
<1> QED BY <1>2 DEF EndOf

\* That is the end.
LEMMA EndIs ==
    ASSUME NEW s \in Nat, NEW hours \in Nat, NEW e, Ends(s, hours, e)
    PROVE  EndOf(s, hours) = e
BY EndExists, EndIsOne

\* The hours are worked one part after the other.
LEMMA EndsInTurn ==
    ASSUME NEW s \in Nat, NEW a \in Nat, NEW hours \in Nat \ {0}, NEW c \in Nat, s <= c,
           WorkedBetween(s, c) = a
    PROVE  EndOf(s, a + hours) = EndOf(c, hours)
<1> DEFINE e == EndOf(c, hours)
<1>1. e \in Nat /\ e >= c /\ WorkedBetween(c, e) = hours /\ IsWorking(e - 1)
  BY EndExists DEF Ends
<1> HIDE DEF e
<1>2. WorkedBetween(s, e) = a + hours
  BY <1>1, WorkedAdds
<1>3. Ends(s, a + hours, e)
  BY <1>1, <1>2 DEF Ends
<1> QED BY <1>3, EndIs DEF e

DayEnd(c) == At(DayOf(c), Closes)
Rest(c)   == DayEnd(c) - c

\* The end of a day, and where work goes on.
LEMMA DayEndType ==
    ASSUME NEW c \in Nat
    PROVE  /\ DayEnd(c) \in Nat /\ DayEnd(c) + 1 \in Nat /\ Rest(c) \in Int
           /\ NextWorkingInstant[DayEnd(c) + 1] = FirstWorking(DayEnd(c) + 1)
           /\ FirstWorking(DayEnd(c) + 1) \in Nat /\ IsWorking(FirstWorking(DayEnd(c) + 1))
<1>1. DayEnd(c) \in Nat
  BY DaysAndClocks, WorkingHours DEF DayEnd
<1>2. DayEnd(c) + 1 \in Nat
  BY <1>1
<1> QED BY <1>1, <1>2, NextIsFirstWorking, FirstWorkingExists DEF Rest, IsFirstWorking

\* From a working instant the day is worked to its end.
LEMMA WorkedToday ==
    ASSUME NEW c \in Nat, IsWorking(c)
    PROVE  /\ Rest(c) \in Nat /\ Rest(c) # 0 /\ ~IsWorking(DayEnd(c))
           /\ \A t \in c .. (DayEnd(c) - 1) : IsWorking(t)
<1>1. /\ DayOf(c) \in Nat /\ Clock(c) \in Nat /\ Opens \in Nat /\ Closes \in 0 .. (Day - 1)
      /\ IsWorkingDay(DayOf(c)) /\ Opens <= Clock(c) /\ Clock(c) < Closes /\ Closes \in Nat
  BY DaysAndClocks, WorkingHours DEF IsWorking
<1>2. DayEnd(c) \in Nat /\ DayOf(DayEnd(c)) = DayOf(c) /\ Clock(DayEnd(c)) = Closes
  BY <1>1, DaysAndClocks DEF DayEnd
<1>3. c < DayEnd(c)
  BY <1>1, <1>2, DaysInOrder
<1>4. ASSUME NEW t \in c .. (DayEnd(c) - 1) PROVE IsWorking(t)
  <2>1. t \in Nat /\ ~(t < c) /\ t < DayEnd(c)
    BY <1>2
  <2>2. DayOf(t) \in Nat /\ Clock(t) \in Nat
    BY <2>1, DaysAndClocks
  <2>3. ~(DayOf(t) < DayOf(c) \/ (DayOf(t) = DayOf(c) /\ Clock(t) < Clock(c)))
    BY <2>1, DaysInOrder
  <2>4. DayOf(t) < DayOf(c) \/ (DayOf(t) = DayOf(c) /\ Clock(t) < Closes)
    BY <1>2, <2>1, DaysInOrder
  <2>5. DayOf(t) = DayOf(c) /\ Clock(c) <= Clock(t) /\ Clock(t) < Closes
    BY <1>1, <2>2, <2>3, <2>4
  <2> QED BY <1>1, <2>2, <2>5 DEF IsWorking
<1>5. ~IsWorking(DayEnd(c))
  BY <1>1, <1>2 DEF IsWorking
<1> QED BY <1>2, <1>3, <1>4, <1>5 DEF Rest

\* What the loop of add_working_hours does, said of the end.
LEMMA EndUnfolds ==
    ASSUME NEW c \in Nat, NEW left \in Nat, IsWorking(c)
    PROVE  EndOf(c, left) = IF Rest(c) >= left THEN c + left
                            ELSE EndOf(FirstWorking(DayEnd(c) + 1), left - Rest(c))
<1>1. /\ Rest(c) \in Nat /\ Rest(c) # 0 /\ ~IsWorking(DayEnd(c))
      /\ \A t \in c .. (DayEnd(c) - 1) : IsWorking(t)
  BY WorkedToday
<1>2. DayEnd(c) \in Nat /\ DayEnd(c) = c + Rest(c) /\ c <= DayEnd(c)
  BY <1>1, DayEndType DEF Rest
<1>3. CASE Rest(c) >= left
  <2>1. c + left \in Nat /\ c + left <= DayEnd(c)
    BY <1>1, <1>2, <1>3
  <2>2. \A t \in c .. ((c + left) - 1) : IsWorking(t)
    BY <1>1, <1>2, <2>1
  <2>3. WorkedBetween(c, c + left) = (c + left) - c
    BY <2>1, <2>2, WorkedAll
  <2>4. left # 0 => IsWorking((c + left) - 1)
    BY <2>1, <2>2
  <2>5. Ends(c, left, c + left)
    BY <2>1, <2>3, <2>4 DEF Ends
  <2> QED BY <1>3, <2>5, EndIs
<1>4. CASE ~(Rest(c) >= left)
  <2> DEFINE n == FirstWorking(DayEnd(c) + 1)
  <2>1. n \in Nat /\ n >= DayEnd(c) + 1 /\ \A u \in (DayEnd(c) + 1) .. (n - 1) : ~IsWorking(u)
    BY DayEndType, FirstWorkingExists DEF IsFirstWorking
  <2> HIDE DEF n
  <2>2. \A u \in DayEnd(c) .. (n - 1) : ~IsWorking(u)
    BY <1>1, <1>2, <2>1
  <2>3. WorkedBetween(DayEnd(c), n) = 0
    BY <1>2, <2>1, <2>2, WorkedNone
  <2>4. WorkedBetween(c, DayEnd(c)) = Rest(c)
    BY <1>1, <1>2, WorkedAll DEF Rest
  <2>5. DayEnd(c) <= n
    BY <1>2, <2>1
  <2>6. WorkedBetween(c, n) = Rest(c) + 0
    BY <1>2, <2>1, <2>3, <2>4, <2>5, WorkedAdds
  <2>7. /\ left - Rest(c) \in Nat /\ left - Rest(c) # 0 /\ Rest(c) + (left - Rest(c)) = left
        /\ Rest(c) + 0 = Rest(c) /\ c <= n
    BY <1>1, <1>2, <1>4, <2>5, <2>1
  <2>8. EndOf(c, left) = EndOf(n, left - Rest(c))
    BY <1>1, <2>1, <2>6, <2>7, EndsInTurn
  <2> QED BY <1>4, <2>8 DEF n
<1> QED BY <1>3, <1>4

\* The loop ends there, wherever in working time it begins.
LEMMA WorkOffEnds ==
    ASSUME NEW c \in Nat, NEW hours \in Nat, IsWorking(c)
    PROVE  WorkOff[<<c, hours>>] = EndOf(c, hours)
<1> DEFINE Is(f) == f = [task \in Nat \X Nat |->
                           LET cursor    == task[1]
                               left      == task[2]
                               dayEnd    == At(DayOf(cursor), Closes)
                               available == dayEnd - cursor
                           IN  IF available >= left THEN cursor + left
                               ELSE f[<<NextWorkingInstant[dayEnd + 1], left - available>>]]
           work == CHOOSE f : Is(f)
           Goal(d, h) == EndOf(FirstWorking(DayEnd(d) + 1), h - Rest(d))
           whole == [task \in Nat \X Nat |->
                       IF Rest(task[1]) >= task[2] THEN task[1] + task[2] ELSE Goal(task[1], task[2])]
<1>1. ASSUME NEW d \in Nat, NEW h \in Nat, ~(Rest(d) >= h)
      PROVE  /\ FirstWorking(DayEnd(d) + 1) \in Nat /\ h - Rest(d) \in Nat
             /\ whole[<<FirstWorking(DayEnd(d) + 1), h - Rest(d)>>] = Goal(d, h)
  <2> DEFINE n == FirstWorking(DayEnd(d) + 1)
             k == h - Rest(d)
  <2>1. n \in Nat /\ IsWorking(n) /\ k \in Nat
    BY <1>1, DayEndType
  <2> HIDE DEF n, k
  <2>2. whole[<<n, k>>] = EndOf(n, k)
    BY <2>1, EndUnfolds
  <2> QED BY <2>1, <2>2 DEF n, k
<1>2. Is(whole)
  <2>1. ASSUME NEW d \in Nat, NEW h \in Nat
        PROVE  (IF Rest(d) >= h THEN d + h
                ELSE whole[<<NextWorkingInstant[DayEnd(d) + 1], h - Rest(d)>>])
                 = IF Rest(d) >= h THEN d + h ELSE Goal(d, h)
    <3> HIDE DEF whole, Goal
    <3> QED BY <1>1, DayEndType
  <2>2. ASSUME NEW task \in Nat \X Nat
        PROVE  (LET cursor    == task[1]
                    left      == task[2]
                    dayEnd    == At(DayOf(cursor), Closes)
                    available == dayEnd - cursor
                IN  IF available >= left THEN cursor + left
                    ELSE whole[<<NextWorkingInstant[dayEnd + 1], left - available>>])
                 = IF Rest(task[1]) >= task[2] THEN task[1] + task[2] ELSE Goal(task[1], task[2])
    <3> HIDE DEF whole, Goal
    <3> QED BY <2>1 DEF Rest, DayEnd
  <2> HIDE DEF Goal
  <2> QED BY <2>2
<1>3. Is(work)
  BY <1>2
<1>4. WorkOff = work
  BY DEF WorkOff
<1>5. ASSUME NEW d \in Nat, NEW h \in Nat
      PROVE  work[<<d, h>>] = IF Rest(d) >= h THEN d + h
                          ELSE work[<<FirstWorking(DayEnd(d) + 1), h - Rest(d)>>]
  <2> HIDE DEF work
  <2>1. work[<<d, h>>] = IF Rest(d) >= h THEN d + h
                     ELSE work[<<NextWorkingInstant[DayEnd(d) + 1], h - Rest(d)>>]
    BY <1>3 DEF Rest, DayEnd
  <2> QED BY <2>1, DayEndType
<1> HIDE DEF work
<1> DEFINE wrong == {h \in Nat : \E d \in Nat : IsWorking(d) /\ work[<<d, h>>] # EndOf(d, h)}
<1>6. wrong = {}
  <2> SUFFICES ASSUME wrong # {} PROVE FALSE
    OBVIOUS
  <2>1. PICK h \in wrong : \A k \in wrong : h <= k
    <3>1. wrong \in SUBSET Nat
      OBVIOUS
    <3> HIDE DEF wrong
    <3> QED BY <3>1, LeastNumber
  <2>2. PICK d \in Nat : IsWorking(d) /\ work[<<d, h>>] # EndOf(d, h)
    BY <2>1
  <2> DEFINE n == FirstWorking(DayEnd(d) + 1)
             k == h - Rest(d)
  <2>3. Rest(d) \in Nat /\ Rest(d) # 0 /\ h \in Nat
    BY <2>1, <2>2, WorkedToday
  <2>4. ~(Rest(d) >= h)
    BY <1>5, <2>1, <2>2, EndUnfolds
  <2>5. n \in Nat /\ IsWorking(n) /\ k \in Nat /\ k < h
    BY <2>3, <2>4, DayEndType
  <2>6. work[<<n, k>>] # EndOf(n, k)
    <3>1. work[<<d, h>>] = work[<<n, k>>]
      BY <1>5, <2>3, <2>4
    <3>2. EndOf(d, h) = EndOf(n, k)
      BY <2>2, <2>3, <2>4, EndUnfolds
    <3> QED BY <2>2, <3>1, <3>2
  <2> HIDE DEF n, k
  <2>7. k \in wrong
    BY <2>5, <2>6
  <2> QED BY <2>1, <2>3, <2>5, <2>7
<1>7. work[<<c, hours>>] = EndOf(c, hours)
  BY <1>6
<1> QED BY <1>4, <1>7

\* add_working_hours finds the end, from any start.
LEMMA AddIsEnd ==
    ASSUME NEW start \in Nat, NEW hours \in Nat
    PROVE  AddWorkingHours(start, hours) = EndOf(start, hours)
<1>1. CASE hours = 0
  <2>1. Ends(start, 0, start)
    BY WorkedNone DEF Ends
  <2> QED BY <1>1, <2>1, EndIs DEF AddWorkingHours
<1>2. CASE hours # 0
  <2> DEFINE n == FirstWorking(start)
  <2>1. n \in Nat /\ n >= start /\ IsWorking(n) /\ \A u \in start .. (n - 1) : ~IsWorking(u)
    BY FirstWorkingExists DEF IsFirstWorking
  <2>2. AddWorkingHours(start, hours) = WorkOff[<<n, hours>>]
    BY <1>2, NextIsFirstWorking DEF AddWorkingHours
  <2> HIDE DEF n
  <2>3. WorkedBetween(start, n) = 0
    BY <2>1, WorkedNone
  <2>4. EndOf(start, 0 + hours) = EndOf(n, hours)
    BY <1>2, <2>1, <2>3, EndsInTurn
  <2> QED BY <2>1, <2>2, <2>4, WorkOffEnds
<1> QED BY <1>1, <1>2

\* timing.py:56: between a start and the sum lies exactly the working time that was
\* added, and its last hour is worked, over week ends and holidays.
THEOREM SumsAreWorkingTime == WrongSums = {}
<1>1. ASSUME NEW start \in Nat, NEW hours \in Nat
      PROVE  LET end == AddWorkingHours(start, hours) IN
             /\ WorkedBetween(start, end) = hours
             /\ hours = 0 \/ IsWorking(end - 1)
  BY AddIsEnd, EndExists DEF Ends
<1>2. Starts \subseteq Nat /\ Spans \subseteq Nat
  BY CalendarAssumption
<1> QED BY <1>1, <1>2 DEF WrongSums

-----------------------------------------------------------------------------
(* Stages *)

\* The stages of a job.
LEMMA StageHours ==
    /\ Len(Sla) \in Nat /\ Len(Sla) # 0 /\ Buffer \in Nat
    /\ \A i \in 1 .. Len(Sla) : Sla[i] \in Nat /\ Sla[i] > 0
    /\ Stages = 1 .. Len(Sla)
    /\ Starts \subseteq Nat /\ Minute \in Nat \ {0}
<1>1. Sla \in Seq(Nat \ {0}) /\ Sla # <<>> /\ Buffer \in Nat /\ Starts \subseteq Nat
      /\ Minute \in Nat \ {0}
  BY CalendarAssumption
<1>2. Len(Sla) \in Nat /\ DOMAIN Sla = 1 .. Len(Sla) /\ \A i \in 1 .. Len(Sla) : Sla[i] \in Nat \ {0}
  BY <1>1
<1>3. Len(Sla) # 0
  BY <1>1
<1> QED BY <1>1, <1>2, <1>3 DEF Stages

\* The hours of the first stages are a number, at least one once there is a stage.
LEMMA SlaUpToGrows ==
    /\ \A i \in 0 .. Len(Sla) : SlaUpTo[i] \in Nat
    /\ SlaUpTo[0] = 0
    /\ \A i \in 1 .. Len(Sla) : SlaUpTo[i] = SlaUpTo[i - 1] + Sla[i]
<1> DEFINE N     == Len(Sla)
           Is(f) == f = [i \in 0 .. N |-> IF i = 0 THEN 0 ELSE f[i - 1] + Sla[i]]
           Up(n) == {f \in [0 .. n -> Nat] :
                       \A i \in 0 .. n : f[i] = IF i = 0 THEN 0 ELSE f[i - 1] + Sla[i]}
           none  == {n \in 0 .. N : Up(n) = {}}
           upTo  == CHOOSE f : Is(f)
<1>1. N \in Nat /\ \A i \in 1 .. N : Sla[i] \in Nat
  BY StageHours
<1> HIDE DEF N
<1>2. none = {}
  <2> SUFFICES ASSUME none # {} PROVE FALSE
    OBVIOUS
  <2>1. PICK n \in none : \A k \in none : n <= k
    <3>1. none \in SUBSET Nat
      BY <1>1
    <3> HIDE DEF none
    <3> QED BY <3>1, LeastNumber
  <2>2. [i \in 0 .. 0 |-> 0] \in Up(0)
    OBVIOUS
  <2>3. n # 0
    BY <2>1, <2>2
  <2>4. n \in Nat /\ n - 1 \in 0 .. N /\ n - 1 \notin none /\ n \in 1 .. N
    <3>1. n \in 0 .. N
      BY <2>1
    <3>2. n \in Nat /\ n - 1 \in 0 .. N /\ n \in 1 .. N /\ ~(n <= n - 1)
      BY <1>1, <2>3, <3>1
    <3> HIDE DEF none
    <3> QED BY <2>1, <3>2
  <2>5. PICK f : f \in Up(n - 1)
    BY <2>4
  <2> DEFINE g == [i \in 0 .. n |-> IF i = n THEN f[n - 1] + Sla[n] ELSE f[i]]
  <2>6. f \in [0 .. n - 1 -> Nat] /\ n - 1 \in 0 .. n - 1 /\ Sla[n] \in Nat
    BY <1>1, <2>4, <2>5
  <2>7. g \in [0 .. n -> Nat]
    BY <2>4, <2>6
  <2>8. ASSUME NEW i \in 0 .. n PROVE g[i] = IF i = 0 THEN 0 ELSE g[i - 1] + Sla[i]
    <3>1. CASE i = n
      BY <2>3, <2>4, <2>6, <3>1
    <3>2. CASE i # n
      BY <2>4, <2>5, <2>6, <3>2
    <3> QED BY <3>1, <3>2
  <2>9. g \in Up(n)
    BY <2>7, <2>8
  <2> QED BY <2>1, <2>9
<1>3. PICK f : f \in Up(N)
  <2>1. N \in 0 .. N
    BY <1>1
  <2> HIDE DEF Up
  <2> QED BY <1>2, <2>1
<1>4. Is(f)
  BY <1>3
<1>5. Is(upTo)
  BY <1>4
<1>6. SlaUpTo = upTo
  BY DEF SlaUpTo, N
<1> HIDE DEF upTo
<1>7. \A i \in 0 .. N : upTo[i] = IF i = 0 THEN 0 ELSE upTo[i - 1] + Sla[i]
  BY <1>5
<1> DEFINE wrong == {i \in 0 .. N : upTo[i] \notin Nat}
<1>8. wrong = {}
  <2> SUFFICES ASSUME wrong # {} PROVE FALSE
    OBVIOUS
  <2>1. PICK i \in wrong : \A k \in wrong : i <= k
    <3>1. wrong \in SUBSET Nat
      BY <1>1
    <3> HIDE DEF wrong
    <3> QED BY <3>1, LeastNumber
  <2>2. i # 0
    BY <1>1, <1>7, <2>1
  <2>3. i - 1 \in 0 .. N /\ i - 1 \notin wrong /\ i \in 1 .. N
    BY <1>1, <2>1, <2>2
  <2> QED BY <1>1, <1>7, <2>1, <2>2, <2>3
<1>9. \A i \in 1 .. N : i \in 0 .. N /\ i # 0
  BY <1>1
<1>10. 0 \in 0 .. N
  BY <1>1
<1>11. \A i \in 0 .. N : upTo[i] \in Nat
  BY <1>8
<1>12. upTo[0] = 0 /\ \A i \in 1 .. N : upTo[i] = upTo[i - 1] + Sla[i]
  BY <1>7, <1>9, <1>10
<1> QED BY <1>6, <1>11, <1>12 DEF N

\* Ends one after the other are the end of the sum.
LEMMA EndsAdd ==
    ASSUME NEW s \in Nat, NEW a \in Nat, NEW b \in Nat
    PROVE  EndOf(s, a) \in Nat /\ EndOf(s, a) >= s /\ EndOf(EndOf(s, a), b) = EndOf(s, a + b)
<1> DEFINE c == EndOf(s, a)
<1>1. c \in Nat /\ c >= s /\ WorkedBetween(s, c) = a
  BY EndExists DEF Ends
<1> HIDE DEF c
<1>2. CASE b = 0
  <2>1. Ends(c, 0, c)
    BY <1>1, WorkedNone DEF Ends
  <2>2. EndOf(c, b) = c
    BY <1>1, <1>2, <2>1, EndIs
  <2> QED BY <1>1, <1>2, <2>2 DEF c
<1>3. CASE b # 0
  <2>1. EndOf(s, a + b) = EndOf(c, b)
    BY <1>1, <1>3, EndsInTurn
  <2> QED BY <1>1, <2>1 DEF c
<1> QED BY <1>2, <1>3

\* timing.py:106: each stage ends where its hours and those before it end.
LEMMA StageEndsAre ==
    ASSUME NEW s \in Nat, NEW i \in 0 .. Len(Sla)
    PROVE  StageEnds(s)[i] = EndOf(s, SlaUpTo[i])
<1> DEFINE N     == Len(Sla)
           Is(f) == f = [j \in 0 .. N |-> IF j = 0 THEN s ELSE AddWorkingHours(f[j - 1], Sla[j])]
           stage == CHOOSE f : Is(f)
           ends  == [j \in 0 .. N |-> EndOf(s, SlaUpTo[j])]
<1>1. N \in Nat /\ \A j \in 1 .. N : Sla[j] \in Nat
  BY StageHours
<1>2. EndOf(s, SlaUpTo[0]) = s
  <2>1. Ends(s, 0, s)
    BY WorkedNone DEF Ends
  <2> QED BY <2>1, EndIs, SlaUpToGrows
<1>3. ASSUME NEW j \in 1 .. N
      PROVE  AddWorkingHours(EndOf(s, SlaUpTo[j - 1]), Sla[j]) = EndOf(s, SlaUpTo[j])
  <2>1. j - 1 \in 0 .. N /\ Sla[j] \in Nat
    BY <1>1
  <2>2. SlaUpTo[j - 1] \in Nat /\ SlaUpTo[j] = SlaUpTo[j - 1] + Sla[j]
    BY <2>1, SlaUpToGrows
  <2>3. EndOf(s, SlaUpTo[j - 1]) \in Nat
    BY <2>2, EndsAdd
  <2>4. AddWorkingHours(EndOf(s, SlaUpTo[j - 1]), Sla[j]) = EndOf(EndOf(s, SlaUpTo[j - 1]), Sla[j])
    BY <2>1, <2>3, AddIsEnd
  <2>5. EndOf(EndOf(s, SlaUpTo[j - 1]), Sla[j]) = EndOf(s, SlaUpTo[j - 1] + Sla[j])
    BY <2>1, <2>2, EndsAdd
  <2> QED BY <2>2, <2>4, <2>5
<1> HIDE DEF N
<1>4. Is(ends)
  <2>1. \A j \in 0 .. N : j = 0 \/ (j \in 1 .. N /\ j - 1 \in 0 .. N)
    BY <1>1
  <2>2. ASSUME NEW j \in 0 .. N
        PROVE  (IF j = 0 THEN s ELSE AddWorkingHours(ends[j - 1], Sla[j])) = EndOf(s, SlaUpTo[j])
    <3>1. CASE j = 0
      BY <1>2, <3>1
    <3>2. CASE j # 0
      <4>1. j \in 1 .. N /\ j - 1 \in 0 .. N
        BY <2>1, <3>2
      <4>2. ends[j - 1] = EndOf(s, SlaUpTo[j - 1])
        BY <4>1
      <4> HIDE DEF ends
      <4> QED BY <1>3, <3>2, <4>1, <4>2
    <3> QED BY <3>1, <3>2
  <2> QED BY <2>2
<1>5. Is(stage)
  BY <1>4
<1>6. StageEnds(s) = stage
  BY DEF StageEnds, N
<1> HIDE DEF stage
<1>7. \A j \in 0 .. N : stage[j] = IF j = 0 THEN s ELSE AddWorkingHours(stage[j - 1], Sla[j])
  BY <1>5
<1> DEFINE wrong == {j \in 0 .. N : stage[j] # EndOf(s, SlaUpTo[j])}
<1>8. wrong = {}
  <2> SUFFICES ASSUME wrong # {} PROVE FALSE
    OBVIOUS
  <2>1. PICK j \in wrong : \A k \in wrong : j <= k
    <3>1. wrong \in SUBSET Nat
      BY <1>1
    <3> HIDE DEF wrong
    <3> QED BY <3>1, LeastNumber
  <2>2. j # 0
    BY <1>2, <1>7, <2>1
  <2>3. j - 1 \in 0 .. N /\ j - 1 \notin wrong /\ j \in 1 .. N
    BY <1>1, <2>1, <2>2
  <2>4. stage[j] = AddWorkingHours(EndOf(s, SlaUpTo[j - 1]), Sla[j])
    BY <1>7, <2>1, <2>2, <2>3
  <2> QED BY <1>3, <2>1, <2>3, <2>4
<1> QED BY <1>6, <1>8 DEF N

Hours == SlaUpTo[Len(Sla)]

\* A job takes some working time.
LEMMA HoursArePositive == Hours \in Nat /\ Hours # 0 /\ Hours + Buffer \in Nat
<1>1. Len(Sla) \in 1 .. Len(Sla) /\ Len(Sla) \in 0 .. Len(Sla) /\ Len(Sla) - 1 \in 0 .. Len(Sla)
  BY StageHours
<1>2. /\ Hours = SlaUpTo[Len(Sla) - 1] + Sla[Len(Sla)]
      /\ SlaUpTo[Len(Sla) - 1] \in Nat /\ Sla[Len(Sla)] \in Nat /\ Sla[Len(Sla)] > 0
  BY <1>1, SlaUpToGrows, StageHours DEF Hours
<1>3. Hours \in Nat /\ Hours # 0
  BY <1>2
<1> QED BY <1>3, StageHours

\* timing_services.py:86: a due date that an earlier acceptance placed leaves room
\* for the stages of a later one exactly if the working time between fits the buffer.
LEMMA KeptDateFits ==
    ASSUME NEW p \in Nat, NEW q \in Nat, p <= q
    PROVE  EndOf(q, Hours) <= EndOf(p, Hours + Buffer) <=> WorkedBetween(p, q) <= Buffer
<1> DEFINE last == EndOf(q, Hours)
           kept == EndOf(p, Hours + Buffer)
<1>1. /\ last \in Nat /\ last >= q /\ WorkedBetween(q, last) = Hours /\ IsWorking(last - 1)
      /\ kept \in Nat /\ kept >= p /\ WorkedBetween(p, kept) = Hours + Buffer
      /\ IsWorking(kept - 1)
  <2>1. Hours \in Nat /\ Hours # 0 /\ Hours + Buffer \in Nat /\ Hours + Buffer # 0
    BY HoursArePositive, StageHours
  <2>2. Ends(q, Hours, last) /\ Ends(p, Hours + Buffer, kept)
    BY <2>1, EndExists
  <2> HIDE DEF last, kept
  <2> QED BY <2>1, <2>2 DEF Ends
<1> HIDE DEF last, kept
<1>2. p <= last
  BY <1>1
<1>3. WorkedBetween(p, last) = WorkedBetween(p, q) + Hours
  BY <1>1, WorkedAdds
<1>4. last <= kept <=> WorkedBetween(p, last) <= WorkedBetween(p, kept)
  <2>1. last < kept => WorkedBetween(p, last) < WorkedBetween(p, kept)
    BY <1>1, <1>2, WorkedMore
  <2>2. kept < last => WorkedBetween(p, kept) < WorkedBetween(p, last)
    BY <1>1, <1>2, WorkedMore
  <2>3. WorkedBetween(p, last) \in Nat /\ WorkedBetween(p, kept) \in Nat
    BY <1>1, <1>2, WorkedType
  <2>4. last < kept \/ kept < last \/ last = kept
    BY <1>1
  <2> QED BY <1>1, <2>1, <2>2, <2>3, <2>4
<1>5. WorkedBetween(p, q) \in Nat /\ Hours \in Nat /\ Buffer \in Nat
  BY WorkedType, HoursArePositive, StageHours
<1>6. last <= kept <=> WorkedBetween(p, q) <= Buffer
  BY <1>1, <1>3, <1>4, <1>5
<1> QED BY <1>6 DEF last, kept

\* A kept due date is judged right by the stages of the second acceptance.
LEMMA DueDatesAreRight == WrongDueDates = {}
<1>1. ASSUME NEW p \in Nat, NEW q \in Nat, p <= q
      PROVE  LET kept == DueDateAtAcceptance(DueDateAtAcceptance(Unset, p), q)
                 last == StageWindows(q)[Len(Sla)].end
             IN  (last <= kept) <=> (WorkedBetween(p, q) <= Buffer)
  <2>1. ComputeDueDate(p) = EndOf(p, Hours + Buffer) /\ ComputeDueDate(p) \in Nat
    BY HoursArePositive, AddIsEnd, EndsAdd DEF ComputeDueDate, Hours
  <2>2. DueDateAtAcceptance(DueDateAtAcceptance(Unset, p), q) = EndOf(p, Hours + Buffer)
    BY <2>1 DEF DueDateAtAcceptance, Unset
  <2>3. StageWindows(q)[Len(Sla)].end = EndOf(q, Hours)
    <3>1. Len(Sla) \in Stages /\ Len(Sla) \in 0 .. Len(Sla)
      BY StageHours
    <3>2. StageEnds(q)[Len(Sla)] = EndOf(q, Hours)
      BY <3>1, StageEndsAre DEF Hours
    <3> QED BY <3>1, <3>2 DEF StageWindows
  <2>4. EndOf(q, Hours) <= EndOf(p, Hours + Buffer) <=> WorkedBetween(p, q) <= Buffer
    BY <1>1, KeptDateFits
  <2> QED BY <2>2, <2>3, <2>4
<1>2. Starts \subseteq Nat
  BY StageHours
<1>3. ASSUME NEW pair \in WrongDueDates PROVE FALSE
  <2>1. pair[1] \in Nat /\ pair[2] \in Nat /\ pair[1] <= pair[2]
    BY <1>2 DEF WrongDueDates
  <2> QED BY <1>1, <2>1 DEF WrongDueDates
<1> QED BY <1>3

\* A minute more is a whole minute more.
LEMMA MinutesGrow ==
    ASSUME NEW m \in Nat \ {0}, NEW a \in Nat, NEW b \in Nat, a + m <= b
    PROVE  a \div m \in Nat /\ b \div m \in Nat /\ a \div m < b \div m
<1>1. /\ a \div m \in Nat /\ b \div m \in Nat
      /\ a % m \in 0 .. (m - 1) /\ b % m \in 0 .. (m - 1)
      /\ a = (a \div m) * m + (a % m) /\ b = (b \div m) * m + (b % m)
  OBVIOUS
<1> DEFINE x == a \div m
           y == b \div m
<1>2. x \in Nat /\ y \in Nat /\ x * m \in Nat /\ y * m \in Nat /\ x * m + m <= a + m /\ b < y * m + m
  <2>1. \A n \in Nat : n * m \in Nat
    OBVIOUS
  <2> QED BY <1>1, <2>1
<1> HIDE DEF x, y
<1>3. x < y
  <2> SUFFICES ASSUME y <= x PROVE FALSE
    BY <1>2
  <2>1. \A k \in Nat : y * m <= (y + k) * m
    BY <1>2
  <2>2. x - y \in Nat /\ y + (x - y) = x
    BY <1>2
  <2>3. y * m <= x * m
    BY <2>1, <2>2
  <2> QED BY <1>2, <2>3
<1> QED BY <1>1, <1>3 DEF x, y

\* timing.py:209: a stage lasts at least its hours, and is called late accordingly.
LEMMA LatenessIsRight == WrongLateness = {}
<1> SUFFICES ASSUME NEW s \in Nat, NEW i \in Stages, NEW t,
                    LET window == StageWindows(s)[i] IN t \in window.start .. (window.end + Day)
             PROVE  LET window == StageWindows(s)[i] IN
                    /\ t >= window.end + Minute => StageOverdue(i, window, t, t)
                    /\ StageOverdue(i, window, Unset, t) <=> t > window.end
                    /\ LateByMinutes(window.end, t) => LateAtAll(window.end, t)
                    /\ LateAtAll(window.end, t) => t < window.end + Minute \/ LateByMinutes(window.end, t)
  BY StageHours DEF WrongLateness
<1> DEFINE window == StageWindows(s)[i]
           from   == StageEnds(s)[i - 1]
           to     == StageEnds(s)[i]
<1>1. window.start = from /\ window.end = to
  BY DEF StageWindows
<1>2. /\ i - 1 \in 0 .. Len(Sla) /\ i \in 0 .. Len(Sla) /\ Sla[i] \in Nat
      /\ Minute \in Nat \ {0} /\ Day \in Nat
  BY StageHours, WorkingHours
<1>3. from \in Nat /\ to \in Nat /\ from + Sla[i] <= to
  <2>1. /\ SlaUpTo[i - 1] \in Nat /\ SlaUpTo[i] = SlaUpTo[i - 1] + Sla[i]
        /\ from = EndOf(s, SlaUpTo[i - 1]) /\ to = EndOf(s, SlaUpTo[i])
    BY <1>2, StageHours, SlaUpToGrows, StageEndsAre
  <2> HIDE DEF from, to
  <2>2. from \in Nat /\ to = EndOf(from, Sla[i])
    <3>1. SlaUpTo[i - 1] \in Nat /\ Sla[i] \in Nat
      BY <1>2, <2>1
    <3>2. /\ EndOf(s, SlaUpTo[i - 1]) \in Nat
          /\ EndOf(EndOf(s, SlaUpTo[i - 1]), Sla[i]) = EndOf(s, SlaUpTo[i - 1] + Sla[i])
      BY <3>1, EndsAdd
    <3> QED BY <2>1, <3>2
  <2>3. to \in Nat /\ to >= from /\ WorkedBetween(from, to) = Sla[i]
    BY <1>2, <2>2, EndExists DEF Ends
  <2>4. Sla[i] <= to - from
    BY <2>2, <2>3, WorkedType
  <2> QED BY <1>2, <2>2, <2>3, <2>4
<1> HIDE DEF from, to, window
<1>4. t \in Nat /\ t >= from
  BY <1>1, <1>2, <1>3 DEF window
<1>5. t >= to + Minute => StageOverdue(i, window, t, t)
  <2> SUFFICES ASSUME t >= to + Minute PROVE StageOverdue(i, window, t, t)
    OBVIOUS
  <2>1. Sla[i] + Minute <= t - from /\ t - from \in Nat
    BY <1>2, <1>3, <1>4
  <2>2. Sla[i] \div Minute < (t - from) \div Minute
    BY <1>2, <2>1, MinutesGrow
  <2> QED BY <1>1, <1>2, <1>3, <1>4, <2>2 DEF StageOverdue, WholeMinutes, Unset
<1>6. StageOverdue(i, window, Unset, t) <=> t > to
  BY <1>1, <1>4 DEF StageOverdue
<1>7. LateByMinutes(to, t) => LateAtAll(to, t)
  BY <1>2, <1>3, <1>4 DEF LateByMinutes, LateAtAll, WholeMinutes
<1>8. LateAtAll(to, t) => t < to + Minute \/ LateByMinutes(to, t)
  <2> SUFFICES ASSUME t > to, t >= to + Minute PROVE LateByMinutes(to, t)
    BY <1>2, <1>3, <1>4 DEF LateAtAll
  <2>1. 0 + Minute <= t - to /\ t - to \in Nat
    BY <1>2, <1>3, <1>4
  <2>2. 0 \div Minute \in Nat /\ 0 \div Minute < (t - to) \div Minute /\ (t - to) \div Minute \in Nat
    BY <1>2, <2>1, MinutesGrow
  <2> QED BY <1>3, <1>4, <2>2 DEF LateByMinutes, WholeMinutes
<1> QED BY <1>1, <1>5, <1>6, <1>7, <1>8 DEF window

\* timing.py, timing_services.py:86: sums, kept due dates, stage windows and the two
\* answers about lateness agree with the working time they are made of.
THEOREM CalendarStaysSound == CalendarIsSound
BY SumsAreWorkingTime, DueDatesAreRight, LatenessIsRight DEF CalendarIsSound

\* A due date that is set is right, in every state of the job.
THEOREM DueDatesStayRight == Spec => []DueDatesKeepWorkingTime
<1>1. DueDatesKeepWorkingTime
  BY CalendarStaysSound DEF DueDatesKeepWorkingTime
<1> QED BY <1>1, PTL
=============================================================================
