---------------------------- MODULE PaymentLedger ----------------------------
(***************************************************************************)
(* What collecting money promises, whatever requests, pushes and posts     *)
(* overlap: money is received before a payment is confirmed, a payment     *)
(* says PAID only once it is confirmed, a confirmation is never taken back *)
(* and always has a job, and each new job answers to one new confirmation. *)
(* What a payment says may be lost again; what was confirmed may not.      *)
(* PaymentFlow implements this.                                            *)
(***************************************************************************)
EXTENDS Naturals

CONSTANTS Payments

VARIABLES
    received,   \* payments the customer's money has come in for
    confirmed,  \* payments on record as confirmed
    shown,      \* payments that say PAID
    jobs,       \* jobs made so far, numbered 1..jobs
    jobOf       \* the job a payment is linked to

vars == <<received, confirmed, shown, jobs, jobOf>>

Init ==
    /\ received = {} /\ confirmed = {} /\ shown = {}
    /\ jobs = 0
    /\ jobOf = [p \in Payments |-> 0]

\* The customer pays: nothing else changes until somebody is told.
Receive(p) ==
    /\ p \notin received
    /\ received' = received \cup {p}
    /\ UNCHANGED <<confirmed, shown, jobs, jobOf>>

\* A received payment is confirmed, says PAID and has its job, all at once: a
\* job that is there, or a new one the first time this payment is confirmed.
Confirm(p) ==
    /\ p \in received
    /\ confirmed' = confirmed \cup {p}
    /\ shown' = shown \cup {p}
    /\ \E j \in 1..(jobs + 1) :
         /\ jobOf' = [jobOf EXCEPT ![p] = j]
         /\ \/ j <= jobs /\ jobs' = jobs
            \/ j > jobs /\ jobs' = j /\ p \notin confirmed
    /\ UNCHANGED received

\* A payment stops saying PAID; its confirmation and its job remain.
Unshow(p) ==
    /\ p \in shown
    /\ shown' = shown \ {p}
    /\ UNCHANGED <<received, confirmed, jobs, jobOf>>

Next == \E p \in Payments : Receive(p) \/ Confirm(p) \/ Unshow(p)

Spec == Init /\ [][Next]_vars
=============================================================================
