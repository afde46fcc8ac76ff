----------------------------- MODULE QuoteCharge -----------------------------
(***************************************************************************)
(* The price of ONE quote, from an offer anyone on the shop's side can     *)
(* still edit to the amount its payment asks the client for.               *)
(*                                                                         *)
(* Three rows carry that price: `Quote.total`, `QuoteFinancialSplit`       *)
(* (what the client pays and how it is shared) and `Payment.amount`.  Web  *)
(* requests read the quote without a lock, check what they read, and save  *)
(* later; only accept_quote_for_payment locks the quote, and everything    *)
(* it does is one action here.  A step is a group of saves no other        *)
(* request can tell apart; between its steps a request keeps the instance  *)
(* it read (`seen`).                                                       *)
(*                                                                         *)
(* Only equality of amounts matters: fees, payouts and the policy's cap on *)
(* the markup are left out, but a step they can refuse may be refused.     *)
(* Which payment row is open, and when it is PAID, is in PaymentFlow.      *)
(***************************************************************************)
CONSTANTS
    Requests,   \* web requests that can be in progress at the same time
    Amounts,    \* client prices
    NoAmount    \* no row yet

ASSUME QuoteChargeAssumption == NoAmount \notin Amounts

VARIABLES
    status,      \* Quote.status; "sent" is SENT or REVISED, "superseded" is
                 \* REJECTED by the acceptance of another quote
    acceptedAt,  \* Quote.accepted_at is set
    total,       \* Quote.total
    lapsed,      \* Quote.expires_at has passed
    req,         \* QuoteRequest.status; "working" before QUOTED, "dead" is
                 \* REJECTED, CANCELLED or EXPIRED
    flagged,     \* QuoteRequest.price_updated
    split,       \* QuoteFinancialSplit.client_total
    locked,      \* QuoteFinancialSplit.locked
    charge,      \* amount of the newest open Payment
    at,          \* the next step of each web request
    seen,        \* the quote and request it has read
    asked,       \* the amount it carries from one step to the next
    settled,     \* history: an acceptance has been carried through
    overlapped,  \* history: the first one overlapped another web request
    raced        \* history: one that was about to write the payment

quoteVars   == <<status, acceptedAt, total>>
requestVars == <<req, flagged>>
splitVars   == <<split, locked>>
history     == <<settled, overlapped, raced>>
webVars     == <<at, seen, asked>>
vars == <<quoteVars, lapsed, requestVars, splitVars, charge, webVars, history>>

Statuses == {"pending", "sent", "modified", "accepted", "rejected",
             "superseded", "expired"}
Offered  == {"sent", "modified"}
Progress == {"working", "quoted", "closed", "dead"}

Ops   == {"accept", "respond", "adjust", "update", "reject", "cancel",
          "expire", "send", "patch"}
Later == {"saved", "adjusting", "parked", "adjusted", "sending", "billing", "asking"}
Steps == Ops \cup Later \cup {"idle"}

Row   == [status : Statuses, acceptedAt : BOOLEAN, req : Progress]
NoRow == [status |-> "pending", acceptedAt |-> FALSE, req |-> "working"]

\* Of the instances a web request has read, what it uses later.
Kept(op) ==
    CASE op \in {"adjust", "update", "send", "patch"} ->
             [NoRow EXCEPT !.status = status, !.acceptedAt = acceptedAt]
      [] op \in {"accept", "expire"} -> [NoRow EXCEPT !.req = req]
      [] OTHER -> NoRow

\* The rows have the types of their columns; a frozen split has an amount, and
\* so has a web request that is about to write one to the payment.
TypeOK ==
    /\ status \in Statuses
    /\ acceptedAt \in BOOLEAN /\ lapsed \in BOOLEAN
    /\ total \in Amounts
    /\ req \in Progress
    /\ flagged \in BOOLEAN
    /\ split \in Amounts \cup {NoAmount}
    /\ locked \in BOOLEAN
    /\ locked => split \in Amounts
    /\ charge \in Amounts \cup {NoAmount}
    /\ at \in [Requests -> Steps]
    /\ seen \in [Requests -> Row]
    /\ asked \in [Requests -> Amounts \cup {NoAmount}]
    /\ \A r \in Requests : at[r] = "asking" => asked[r] \in Amounts
    /\ settled \in BOOLEAN /\ overlapped \in BOOLEAN /\ raced \in BOOLEAN

\* A quote a manager has prepared with a split, or one a shop has written or
\* sent without.
Init ==
    /\ status \in {"pending", "sent"}
    /\ acceptedAt = FALSE /\ lapsed = FALSE
    /\ total \in Amounts
    /\ req \in {"working", "quoted"}
    /\ flagged = FALSE
    /\ split \in {NoAmount, total}
    /\ locked = FALSE
    /\ charge = NoAmount
    /\ at = [r \in Requests |-> "idle"]
    /\ seen = [r \in Requests |-> NoRow]
    /\ asked = [r \in Requests |-> NoAmount]
    /\ settled = FALSE /\ overlapped = FALSE /\ raced = FALSE

-----------------------------------------------------------------------------
(***************************************************************************)
(* A web request reads the quote, checks what it read, and goes on later.  *)
(***************************************************************************)

\* Mutant: the client may turn down a quote whatever its status.
ClientMayRejectAny(op) ==
    /\ op \in {"accept", "respond"} => ~lapsed
    /\ op = "accept" => status = "sent"
    /\ op = "respond" => status \in Offered /\ req \in {"working", "quoted"}
    /\ op = "cancel" => status # "accepted" /\ req # "closed"

\* The client's checks on the instances read, before any save.  Both ways to
\* accept refuse an offer that has lapsed.
ClientMay(op) ==
    /\ op \in {"accept", "respond"} => ~lapsed
    /\ op = "accept" => status = "sent"
    /\ op = "respond" => status \in Offered /\ req \in {"working", "quoted"}
    /\ op = "reject" => status # "accepted"
    /\ op = "cancel" => status # "accepted" /\ req # "closed"

\* The checks of the shop, and of the expiry of an offer.  Sending a quote to
\* the client and patching its financials have none.
ShopMay(op) ==
    /\ op = "adjust" => status \in {"pending", "sent"}
    /\ op = "update" => status \in Offered \cup {"pending"}
    /\ op = "expire" => status \in Offered /\ lapsed

Read(r, op) ==
    /\ at[r] = "idle"
    /\ ClientMay(op) /\ ShopMay(op)
    /\ at' = [at EXCEPT ![r] = op]
    /\ seen' = [seen EXCEPT ![r] = Kept(op)]
    /\ UNCHANGED <<quoteVars, lapsed, requestVars, splitVars, charge, asked, history>>

Goto(r, step) ==
    /\ at' = [at EXCEPT ![r] = step]
    /\ UNCHANGED <<seen, lapsed, flagged>>

\* The response is sent, and the instances are gone.
Done(r) ==
    /\ at' = [at EXCEPT ![r] = "idle"]
    /\ seen' = [seen EXCEPT ![r] = NoRow]
    /\ asked' = [asked EXCEPT ![r] = NoAmount]
    /\ UNCHANGED <<lapsed, flagged>>

-----------------------------------------------------------------------------
(***************************************************************************)
(* Acceptance: accept_quote_for_payment, one transaction under the quote's *)
(* row lock.                                                               *)
(***************************************************************************)

\* Every check of it, on the rows as they are under the lock: st and rq are the
\* two statuses.
CanAccept(st, rq) ==
    /\ ~lapsed /\ ~flagged
    /\ st \in Offered \cup {"accepted"}
    /\ rq \in {"closed", "dead"} => st = "accepted"

\* Mutant: a split is assumed once the quote is accepted.
NewSplitAssumed(st, acc) == IF locked \/ st = "accepted" \/ acc THEN split ELSE total

\* Mutant: every acceptance derives the split again.
NewSplitAlways(st, acc) == total

\* ensure_quote_financial_split: the split of a quote accepted before is final,
\* any other is derived again from the total.
NewSplit(st, acc) ==
    IF split # NoAmount /\ (locked \/ st = "accepted" \/ acc) THEN split ELSE total

InFlight(r, steps) == \E o \in Requests \ {r} : at[o] \in steps

\* Mutant: an open payment is reused as it is.
AcceptReusing(r, st, acc) ==
    /\ CanAccept(st, req)
    /\ status' = "accepted"
    /\ acceptedAt' = (acc \/ st # "accepted")
    /\ req' = "closed"
    /\ split' = NewSplit(st, acc)
    /\ locked' = TRUE
    /\ charge' = IF charge = NoAmount THEN split' ELSE charge
    /\ settled' = TRUE
    /\ overlapped' = (overlapped \/ (~settled /\ InFlight(r, Steps \ {"idle"})))
    /\ raced' = (raced \/ (~settled /\ InFlight(r, {"asking"})))
    /\ UNCHANGED total

\* The split is frozen, and create_payment_for_quote asks for its amount: the
\* open payment is corrected, or a new one made.
Accept(r, st, acc) ==
    /\ CanAccept(st, req)
    /\ status' = "accepted"
    /\ acceptedAt' = (acc \/ st # "accepted")
    /\ req' = "closed"
    /\ split' = NewSplit(st, acc)
    /\ locked' = TRUE
    /\ charge' = split'
    /\ settled' = TRUE
    /\ overlapped' = (overlapped \/ (~settled /\ InFlight(r, Steps \ {"idle"})))
    /\ raced' = (raced \/ (~settled /\ InFlight(r, {"asking"})))
    /\ UNCHANGED total

\* It raises: its transaction leaves nothing behind.
Refused == UNCHANGED <<quoteVars, req, splitVars, charge, history>>

\* Paying straight away: QuoteAcceptView and the two STK views read nothing of
\* the quote before the lock.
AcceptAndPay(r) ==
    /\ at[r] = "idle"
    /\ Accept(r, status, acceptedAt)
    /\ Done(r)

\* CustomerQuoteRequestViewSet.accept saves the quote as ACCEPTED and, unless the
\* request it read is dead, closes the request; both are committed before ...
SaveAccepted(r) ==
    /\ at[r] = "accept"
    /\ status' = "accepted" /\ acceptedAt' = TRUE
    /\ IF seen[r].req = "dead"
         THEN req' = req /\ Done(r)
         ELSE req' = "closed" /\ Goto(r, "saved") /\ UNCHANGED asked
    /\ UNCHANGED <<total, splitVars, charge, history>>

\* ... the acceptance proper.
AcceptSaved(r) ==
    /\ at[r] = "saved"
    /\ Accept(r, status, acceptedAt) \/ Refused
    /\ Done(r)

\* ClientResponseAcceptView saves ACCEPTED and accepts in one transaction.
Respond(r) ==
    /\ at[r] = "respond"
    /\ Accept(r, "accepted", TRUE) \/ Refused
    /\ Done(r)

-----------------------------------------------------------------------------
(***************************************************************************)
(* The client's other answers.                                             *)
(***************************************************************************)

\* ClientResponseRejectView.
RejectQuote(r) ==
    /\ at[r] = "reject"
    /\ status' = "rejected"
    /\ Done(r)
    /\ UNCHANGED <<acceptedAt, total, req, splitVars, charge, history>>

CancelRequest(r) ==
    /\ at[r] = "cancel"
    /\ req' = "dead"
    /\ Done(r)
    /\ UNCHANGED <<quoteVars, splitVars, charge, history>>

\* expire_quote, by a view that met the lapsed offer or by the daily command:
\* the request, read with the quote or only now, goes with it unless it was
\* closed, or a later quote answers it.
ExpireQuote(r) ==
    /\ at[r] = "expire"
    /\ status' = "expired"
    /\ \/ req' = req
       \/ {seen[r].req, req} # {"closed"} /\ req' = "dead"
    /\ Done(r)
    /\ UNCHANGED <<acceptedAt, total, splitVars, charge, history>>

-----------------------------------------------------------------------------
(***************************************************************************)
(* The shop's side.                                                        *)
(***************************************************************************)

\* QuoteViewSet.partial_update: the serializer writes the whole instance back with
\* another total, ...
Adjust(r) ==
    /\ at[r] = "adjust"
    /\ status' = seen[r].status /\ acceptedAt' = seen[r].acceptedAt
    /\ \E p \in Amounts : total' = p /\ asked' = [asked EXCEPT ![r] = p]
    /\ Goto(r, "adjusting")
    /\ UNCHANGED <<req, splitVars, charge, history>>

\* ... and once more, with another status if the body says so; ...
AdjustStatus(r) ==
    /\ at[r] = "adjusting"
    /\ status' \in {seen[r].status, "pending", "sent"}
    /\ acceptedAt' = seen[r].acceptedAt
    /\ total' = asked[r]
    /\ asked' = [asked EXCEPT ![r] = NoAmount]
    /\ Goto(r, IF status' = "pending" THEN "parked" ELSE "adjusted")
    /\ UNCHANGED <<req, splitVars, charge, history>>

\* ... then it reads the quote again and makes it REVISED, unless it is a draft.
Adjusted(r) ==
    /\ at[r] \in {"parked", "adjusted"}
    /\ LET draft == at[r] = "parked" \/ status = "pending" IN
         /\ status' = IF draft THEN status ELSE "sent"
         /\ req' = IF draft THEN "working" ELSE "quoted"
    /\ Done(r)
    /\ UNCHANGED <<acceptedAt, total, splitVars, charge, history>>

\* _assert_response_transition, for the statuses the serializer lets through.
Answers(st) ==
    CASE st = "pending"  -> {"pending", "modified", "sent", "accepted", "rejected"}
      [] st = "modified" -> {"modified", "sent", "accepted", "rejected"}
      [] st = "sent"     -> {"sent", "accepted", "rejected"}
      [] OTHER           -> {}

\* QuoteResponseDetailView.patch: update_quote_response checks the instance it
\* was given and writes all of it back.
UpdateResponse(r) ==
    /\ at[r] = "update"
    /\ status' \in Answers(seen[r].status)
    /\ acceptedAt' = seen[r].acceptedAt
    /\ total' \in Amounts
    /\ req' = IF status' = "rejected" THEN "dead" ELSE "quoted"
    /\ Done(r)
    /\ UNCHANGED <<splitVars, charge, history>>

\* create_quote_financial_split, for a quote read earlier: the split row is
\* locked and read afresh; when it is frozen, or the quote was read as ACCEPTED,
\* nothing is written.
WriteSplit(p, row) ==
    IF split # NoAmount /\ (locked \/ row.status = "accepted")
      THEN UNCHANGED splitVars
      ELSE /\ split' = p
           /\ locked' = (row.status = "accepted" \/ row.acceptedAt)

\* PATCH of the quote's financials: any price, whatever the total says.
PatchFinancials(r) ==
    /\ at[r] = "patch"
    /\ \E p \in Amounts : WriteSplit(p, seen[r])
    /\ Done(r)
    /\ UNCHANGED <<quoteVars, req, charge, history>>

\* PartnerQuoteSendToClientView: the manager's price becomes the total, and a
\* draft becomes SENT (update_quote_response writes all of the instance); a
\* request that was a draft is QUOTED.  expires_at counts from sent_at, which a
\* quote sent before keeps, so sending it again does not undo `lapsed`; ...
SendToClient(r) ==
    /\ at[r] = "send"
    /\ \E p \in Amounts :
         /\ total' = p
         /\ asked' = [asked EXCEPT ![r] = p]
    /\ IF seen[r].status = "pending"
         THEN /\ status' = "sent" /\ acceptedAt' = seen[r].acceptedAt
              /\ req' = "quoted"
         ELSE /\ UNCHANGED <<status, acceptedAt>>
              /\ req' = req \/ (req = "working" /\ req' = "quoted")
    /\ Goto(r, "sending")
    /\ UNCHANGED <<splitVars, charge, history>>

\* ... then the split is written, which fails when a frozen one differs; ...
SplitSent(r) ==
    /\ at[r] = "sending"
    /\ WriteSplit(asked[r], seen[r])
    /\ \/ Done(r)
       \/ split' = asked[r] /\ Goto(r, "billing") /\ asked' = [asked EXCEPT ![r] = NoAmount]
    /\ UNCHANGED <<quoteVars, req, charge, history>>

\* ... and a client without an account is asked to pay at once:
\* create_payment_for_quote reads the split, without a lock, ...
ReadSplit(r) ==
    /\ at[r] = "billing"
    /\ asked' = [asked EXCEPT ![r] = split]
    /\ Goto(r, "asking")
    /\ UNCHANGED <<quoteVars, req, splitVars, charge, history>>

\* ... and then writes the payment.
AskClient(r) ==
    /\ at[r] = "asking"
    /\ charge' = asked[r]
    /\ Done(r)
    /\ UNCHANGED <<quoteVars, req, splitVars, history>>

-----------------------------------------------------------------------------
(***************************************************************************)
(* Other writers of these rows, each a single read and save.               *)
(***************************************************************************)

OthersUnchanged == UNCHANGED <<lapsed, splitVars, charge, webVars, history>>

\* Another quote of the request, or of its broadcast group, is accepted.
SiblingAccepted ==
    /\ status' = IF status = "pending" THEN "pending" ELSE "superseded"
    /\ req' = "closed"
    /\ UNCHANGED <<acceptedAt, total, flagged>>
    /\ OthersUnchanged

\* accept_request and ask_question, then reject_request: a CLOSED request passes
\* their check.
ShopTakesRequest ==
    /\ req \in {"working", "closed"}
    /\ req' \in {"working", "dead"}
    /\ UNCHANGED <<quoteVars, flagged>>
    /\ OthersUnchanged

\* record_override flags a changed price until the client acknowledges it.
RecordOverride ==
    /\ status # "accepted"
    /\ flagged' = TRUE
    /\ UNCHANGED <<quoteVars, req>>
    /\ OthersUnchanged

AcknowledgePrice ==
    /\ flagged' = FALSE
    /\ UNCHANGED <<quoteVars, req>>
    /\ OthersUnchanged

\* Time passes: the offer's validity ends.
Lapse ==
    /\ ~lapsed
    /\ lapsed' = TRUE
    /\ UNCHANGED <<quoteVars, requestVars, splitVars, charge, webVars, history>>

Next ==
    \/ \E r \in Requests :
         \/ \E op \in Ops : Read(r, op)
         \/ AcceptAndPay(r) \/ SaveAccepted(r) \/ AcceptSaved(r) \/ Respond(r)
         \/ RejectQuote(r) \/ CancelRequest(r) \/ ExpireQuote(r)
         \/ Adjust(r) \/ AdjustStatus(r) \/ Adjusted(r) \/ UpdateResponse(r)
         \/ PatchFinancials(r)
         \/ SendToClient(r) \/ SplitSent(r) \/ ReadSplit(r) \/ AskClient(r)
    \/ SiblingAccepted \/ ShopTakesRequest
    \/ RecordOverride \/ AcknowledgePrice \/ Lapse

Spec == Init /\ [][Next]_vars

-----------------------------------------------------------------------------
(***************************************************************************)
(* Properties                                                              *)
(***************************************************************************)

\* What the client of an accepted quote is asked to pay is the frozen split,
\* however the quote is edited, resent, superseded or accepted again later.  The
\* one exception is a manager's send that had read the split and not yet
\* written the payment when the client accepted (`raced`).
\* Code: quotes/acceptance.py:28, payments/services.py:108.
ChargeIsFrozenPrice == settled /\ ~raced => locked /\ charge = split

\* Once an acceptance went through with no other web request in progress, only
\* the acceptance of another quote takes ACCEPTED away: no check of the client,
\* the shop or the expiry lets a later request do it.
\* Code: the checks of api/quote_views.py, api/workflow_views.py,
\* api/quote_serializers.py:892 and quotes/services_workflow.py:904.
AcceptedOnlySuperseded ==
    [][settled /\ ~overlapped' /\ status = "accepted"
         => status' \in {"accepted", "superseded"}]_vars

\* The quote, its split and its payment keep the promise of PriceAgreement: a
\* frozen split is never rewritten by any of its writers, and an agreed charge
\* never moves.
\* Code: pricing/services/platform_fee_policy.py:300-308.
Agreement == INSTANCE PriceAgreement WITH
    price <- split, frozen <- locked, agreed <- (settled /\ ~raced)

KeepsAgreement == Agreement!Spec

\* Claim of the docstring of ensure_quote_financial_split: on every path to
\* acceptance by the client (accepted_at is set) the split is derived again from
\* quote.total, the amount accepted, before it is locked.
AcceptedPriceIsCharged ==
    [][~settled /\ settled' /\ acceptedAt' => charge' = total]_vars
=============================================================================
