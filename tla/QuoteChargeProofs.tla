-------------------------- MODULE QuoteChargeProofs --------------------------
(***************************************************************************)
(* Theorems about QuoteCharge, for any set of web requests and of amounts. *)
(***************************************************************************)
EXTENDS QuoteCharge, TLAPS

USE QuoteChargeAssumption

(***************************************************************************)
(* The invariant.  Frozen: a payment about to be written carries the       *)
(* frozen amount.  Standing: nothing that is still to be saved was checked *)
(* against a quote that could be changed.                                  *)
(***************************************************************************)

Carried ==
    \A r \in Requests :
        /\ at[r] \in {"adjusting", "sending"} => asked[r] \in Amounts
        /\ at[r] = "billing" => split \in Amounts

Frozen ==
    settled /\ ~raced =>
        /\ locked /\ charge = split
        /\ \A r \in Requests : at[r] = "asking" => asked[r] = split

Editing == {"accept", "respond", "adjust", "adjusting", "adjusted", "update", "expire"}

Standing ==
    settled /\ ~overlapped =>
        /\ status \in {"accepted", "superseded", "rejected"}
        /\ \A r \in Requests :
             /\ at[r] \notin Editing
             /\ at[r] = "send" => seen[r].status # "pending"
             /\ at[r] = "reject" => status # "accepted"

ChargeInv == TypeOK /\ Carried /\ Frozen /\ Standing

LEMMA ChargeInit == Init => ChargeInv
<1> SUFFICES ASSUME Init PROVE ChargeInv
  OBVIOUS
<1>1. TypeOK
  BY DEF Init, TypeOK, Statuses, Progress, Steps, Ops, Later, Row, NoRow
<1>2. Carried /\ Frozen /\ Standing
  BY DEF Init, Carried, Frozen, Standing
<1>3. QED
  BY <1>1, <1>2 DEF ChargeInv

-----------------------------------------------------------------------------
(* Types. *)

USE DEF quoteVars, requestVars, splitVars, history, webVars

LEMMA AcceptTypes ==
    ASSUME TypeOK, Carried, NEW r \in Requests, NEW st \in Statuses,
           NEW acc \in BOOLEAN, Accept(r, st, acc), Done(r)
    PROVE  TypeOK' /\ Carried'
<1>1. split' \in Amounts
  BY DEF Accept, NewSplit, TypeOK
<1>2. /\ at' \in [Requests -> Steps]
      /\ seen' \in [Requests -> Row]
      /\ asked' \in [Requests -> Amounts \cup {NoAmount}]
      /\ \A o \in Requests : at'[o] = "asking" => asked'[o] \in Amounts
  BY DEF Done, TypeOK, Steps, Row, NoRow, Statuses, Progress
<1>3. TypeOK'
  BY <1>1, <1>2 DEF TypeOK, Accept, Done, Statuses, Progress
<1>4. Carried'
  BY <1>1 DEF Carried, Done, TypeOK
<1>5. QED
  BY <1>3, <1>4

\* What the last step of a web request does to its own variables.
LEMMA DoneTypes ==
    ASSUME TypeOK, NEW r \in Requests, Done(r)
    PROVE  /\ at' \in [Requests -> Steps]
           /\ seen' \in [Requests -> Row]
           /\ asked' \in [Requests -> Amounts \cup {NoAmount}]
           /\ \A o \in Requests : at'[o] = "asking" => asked'[o] \in Amounts
           /\ \A o \in Requests : at'[o] # "idle" => at'[o] = at[o] /\ asked'[o] = asked[o]
           /\ lapsed' \in BOOLEAN /\ flagged' \in BOOLEAN
  BY DEF Done, TypeOK, Steps, Row, NoRow, Statuses, Progress

\* What a step that goes on does to them.
LEMMA GotoTypes ==
    ASSUME TypeOK, NEW r \in Requests, NEW step \in Steps \ {"asking"},
           Goto(r, step)
    PROVE  /\ at' \in [Requests -> Steps]
           /\ seen' \in [Requests -> Row]
           /\ \A o \in Requests : o # r => at'[o] = at[o]
           /\ at'[r] = step
           /\ lapsed' \in BOOLEAN /\ flagged' \in BOOLEAN
  BY DEF Goto, TypeOK

LEMMA WriteSplitTypes ==
    ASSUME TypeOK, NEW p \in Amounts, NEW row \in Row, WriteSplit(p, row)
    PROVE  /\ split' \in Amounts \cup {NoAmount}
           /\ locked' \in BOOLEAN
           /\ locked' => split' \in Amounts
           /\ split \in Amounts => split' \in Amounts
           /\ locked => split' = split /\ locked'
  BY DEF TypeOK, WriteSplit, Row

LEMMA TypesStep ==
    ASSUME TypeOK, Carried, [Next]_vars
    PROVE  TypeOK' /\ Carried'
<1>1. ASSUME NEW r \in Requests, NEW op \in Ops, Read(r, op)
      PROVE  TypeOK' /\ Carried'
  <2>1. Kept(op) \in Row
    BY DEF Kept, Row, NoRow, TypeOK, Statuses, Progress
  <2>2. op \in Steps /\ op \notin Later
    BY DEF Ops, Steps, Later
  <2>3. TypeOK'
    BY <1>1, <2>1, <2>2 DEF Read, TypeOK, Later
  <2>4. Carried'
    BY <1>1, <2>2 DEF Read, Carried, TypeOK, Later
  <2>5. QED
    BY <2>3, <2>4
<1>2. ASSUME NEW r \in Requests, AcceptAndPay(r)
      PROVE  TypeOK' /\ Carried'
  BY <1>2, AcceptTypes DEF AcceptAndPay, TypeOK
<1>3. ASSUME NEW r \in Requests, SaveAccepted(r)
      PROVE  TypeOK' /\ Carried'
  <2>1. CASE Done(r)
    BY <1>3, <2>1, DoneTypes DEF SaveAccepted, TypeOK, Carried, Statuses, Progress
  <2>2. CASE Goto(r, "saved") /\ req' = "closed" /\ UNCHANGED asked
    <3>1. "saved" \in Steps \ {"asking"}
      BY DEF Steps, Later
    <3>2. QED
      BY <1>3, <2>2, <3>1, GotoTypes DEF SaveAccepted, TypeOK, Carried, Statuses, Progress
  <2>3. QED
    BY <1>3, <2>1, <2>2 DEF SaveAccepted
<1>4. ASSUME NEW r \in Requests, AcceptSaved(r) \/ Respond(r)
      PROVE  TypeOK' /\ Carried'
  <2>1. CASE Refused /\ Done(r)
    BY <2>1, DoneTypes DEF Refused, TypeOK, Carried
  <2>2. CASE Accept(r, status, acceptedAt) /\ Done(r)
    BY <2>2, AcceptTypes DEF TypeOK
  <2>3. CASE Accept(r, "accepted", TRUE) /\ Done(r)
    BY <2>3, AcceptTypes DEF Statuses
  <2>4. QED
    BY <1>4, <2>1, <2>2, <2>3 DEF AcceptSaved, Respond
<1>5. ASSUME NEW r \in Requests, RejectQuote(r) \/ CancelRequest(r) \/ ExpireQuote(r)
      PROVE  TypeOK' /\ Carried'
  <2>1. Done(r)
    BY <1>5 DEF RejectQuote, CancelRequest, ExpireQuote
  <2>2. QED
    BY <1>5, <2>1, DoneTypes DEF RejectQuote, CancelRequest, ExpireQuote, TypeOK, Carried, Statuses, Progress
<1>6. ASSUME NEW r \in Requests,
             Adjust(r) \/ AdjustStatus(r) \/ Adjusted(r) \/ UpdateResponse(r)
      PROVE  TypeOK' /\ Carried'
  <2>0. seen[r].status \in Statuses /\ seen[r].acceptedAt \in BOOLEAN
    BY DEF TypeOK, Row
  <2>1. CASE Adjust(r)
    BY <2>0, <2>1 DEF Adjust, Goto, TypeOK, Carried, Steps, Later
  <2>2. CASE AdjustStatus(r)
    <3>1. PICK step \in {"parked", "adjusted"} : Goto(r, step)
      BY <2>2 DEF AdjustStatus
    <3>2. step \in Steps \ {"asking"} /\ step \notin {"adjusting", "sending", "billing"}
      BY DEF Steps, Later
    <3>3. total' \in Amounts
      BY <2>2 DEF AdjustStatus, Carried
    <3>4. QED
      BY <2>0, <2>2, <3>1, <3>2, <3>3, GotoTypes DEF AdjustStatus, TypeOK, Carried, Statuses
  <2>3. CASE Adjusted(r)
    BY <2>3, DoneTypes DEF Adjusted, TypeOK, Carried, Statuses, Progress
  <2>4. CASE UpdateResponse(r)
    <3>1. Answers(seen[r].status) \subseteq Statuses
      BY DEF Answers, Statuses
    <3>2. QED
      BY <2>0, <2>4, <3>1, DoneTypes DEF UpdateResponse, TypeOK, Carried, Progress
  <2>5. QED
    BY <1>6, <2>1, <2>2, <2>3, <2>4
<1>7. ASSUME NEW r \in Requests, PatchFinancials(r)
      PROVE  TypeOK' /\ Carried'
  <2>1. PICK p \in Amounts : WriteSplit(p, seen[r])
    BY <1>7 DEF PatchFinancials
  <2>2. seen[r] \in Row
    BY DEF TypeOK
  <2>3. QED
    BY <1>7, <2>1, <2>2, DoneTypes, WriteSplitTypes DEF PatchFinancials, TypeOK, Carried
<1>8. ASSUME NEW r \in Requests, SendToClient(r)
      PROVE  TypeOK' /\ Carried'
  <2>0. seen[r].status \in Statuses /\ seen[r].acceptedAt \in BOOLEAN
    BY DEF TypeOK, Row
  <2>1. QED
    BY <1>8, <2>0 DEF SendToClient, Goto, TypeOK, Carried, Statuses, Progress, Steps, Later
<1>9. ASSUME NEW r \in Requests, SplitSent(r)
      PROVE  TypeOK' /\ Carried'
  <2>1. seen[r] \in Row /\ asked[r] \in Amounts
    BY <1>9 DEF TypeOK, Carried, SplitSent
  <2>2. CASE Done(r)
    BY <1>9, <2>1, <2>2, DoneTypes, WriteSplitTypes DEF SplitSent, TypeOK, Carried
  <2>3. CASE split' = asked[r] /\ Goto(r, "billing") /\ asked' = [asked EXCEPT ![r] = NoAmount]
    BY <1>9, <2>1, <2>3, WriteSplitTypes DEF SplitSent, Goto, TypeOK, Carried, Steps, Later
  <2>4. QED
    BY <1>9, <2>2, <2>3 DEF SplitSent
<1>10. ASSUME NEW r \in Requests, ReadSplit(r)
      PROVE  TypeOK' /\ Carried'
  <2>1. split \in Amounts /\ "asking" \in Steps
    BY <1>10 DEF ReadSplit, Carried, Steps, Later
  <2>2. TypeOK'
    BY <1>10, <2>1 DEF ReadSplit, Goto, TypeOK
  <2>3. Carried'
    BY <1>10, <2>1 DEF ReadSplit, Goto, TypeOK, Carried
  <2>4. QED
    BY <2>2, <2>3
<1>11. ASSUME NEW r \in Requests, AskClient(r)
      PROVE  TypeOK' /\ Carried'
  <2>1. asked[r] \in Amounts
    BY <1>11 DEF AskClient, TypeOK
  <2>2. Done(r)
    BY <1>11 DEF AskClient
  <2>3. QED
    BY <1>11, <2>1, <2>2, DoneTypes DEF AskClient, TypeOK, Carried
<1>12. ASSUME SiblingAccepted \/ ShopTakesRequest \/ RecordOverride \/ AcknowledgePrice
       PROVE  TypeOK' /\ Carried'
  <2>1. UNCHANGED <<acceptedAt, total, lapsed, split, locked, charge, at, seen, asked,
                    settled, overlapped, raced>>
    BY <1>12 DEF SiblingAccepted, ShopTakesRequest, RecordOverride, AcknowledgePrice, OthersUnchanged
  <2>2. status' \in Statuses /\ req' \in Progress /\ flagged' \in BOOLEAN
    BY <1>12 DEF SiblingAccepted, ShopTakesRequest, RecordOverride, AcknowledgePrice, TypeOK, Statuses, Progress
  <2>3. QED
    BY <2>1, <2>2 DEF TypeOK, Carried
<1>13. ASSUME Lapse \/ UNCHANGED vars
       PROVE  TypeOK' /\ Carried'
  <2>1. UNCHANGED <<status, acceptedAt, total, req, flagged, split, locked, charge,
                    at, seen, asked, settled, overlapped, raced>>
    BY <1>13 DEF Lapse, vars
  <2>2. lapsed' \in BOOLEAN
    BY <1>13 DEF Lapse, vars, TypeOK
  <2>3. QED
    BY <2>1, <2>2 DEF TypeOK, Carried
<1>14. QED
  BY <1>1, <1>2, <1>3, <1>4, <1>5, <1>6, <1>7, <1>8, <1>9, <1>10, <1>11, <1>12, <1>13 DEF Next

-----------------------------------------------------------------------------
(* The charge. *)

\* Until the history variables move, only the price rows matter to Frozen.
LEMMA FrozenKept ==
    ASSUME Frozen, UNCHANGED <<split, locked, charge, settled, raced>>,
           \A o \in Requests :
               at'[o] = "asking" => at[o] = "asking" /\ asked'[o] = asked[o]
    PROVE  Frozen'
  BY DEF Frozen

LEMMA AcceptFrozen ==
    ASSUME TypeOK, Carried, Frozen, NEW r \in Requests, NEW st \in Statuses,
           NEW acc \in BOOLEAN, Accept(r, st, acc), Done(r), at[r] # "asking"
    PROVE  /\ locked' /\ charge' = split'
           /\ locked => split' = split
           /\ Frozen'
<1>1. locked' /\ charge' = split' /\ (locked => split' = split)
  BY DEF Accept, NewSplit, TypeOK
<1>2. \A o \in Requests : at'[o] = "asking" => o # r /\ at[o] = "asking" /\ asked'[o] = asked[o]
  BY DEF Done, TypeOK
<1>3. CASE settled /\ ~raced
  BY <1>1, <1>2, <1>3 DEF Frozen, Accept
<1>4. CASE ~(settled /\ ~raced)
  BY <1>1, <1>2, <1>4 DEF Frozen, Accept, InFlight
<1>5. QED
  BY <1>1, <1>3, <1>4

LEMMA FrozenStep ==
    ASSUME TypeOK, Carried, Frozen, [Next]_vars
    PROVE  Frozen'
<1>0. ASSUME NEW r \in Requests, Done(r)
      PROVE  \A o \in Requests : at'[o] = "asking" => at[o] = "asking" /\ asked'[o] = asked[o]
  BY <1>0 DEF Done, TypeOK
<1>1. ASSUME NEW r \in Requests, NEW op \in Ops, Read(r, op)
      PROVE  Frozen'
  <2>1. op # "asking"
    BY DEF Ops
  <2>2. \A o \in Requests : at'[o] = "asking" => at[o] = "asking" /\ asked'[o] = asked[o]
    BY <1>1, <2>1 DEF Read, TypeOK
  <2>3. QED
    BY <1>1, <2>2, FrozenKept DEF Read
<1>2. ASSUME NEW r \in Requests, AcceptAndPay(r) \/ AcceptSaved(r) \/ Respond(r)
      PROVE  Frozen'
  <2>1. Done(r) /\ at[r] # "asking"
    BY <1>2 DEF AcceptAndPay, AcceptSaved, Respond
  <2>2. CASE Refused
    BY <1>0, <2>1, <2>2, FrozenKept DEF Refused
  <2>3. CASE Accept(r, status, acceptedAt)
    BY <2>1, <2>3, AcceptFrozen DEF TypeOK
  <2>4. CASE Accept(r, "accepted", TRUE)
    BY <2>1, <2>4, AcceptFrozen DEF Statuses
  <2>5. QED
    BY <1>2, <2>2, <2>3, <2>4 DEF AcceptAndPay, AcceptSaved, Respond
<1>3. ASSUME NEW r \in Requests,
             SaveAccepted(r) \/ RejectQuote(r) \/ CancelRequest(r) \/ ExpireQuote(r)
               \/ Adjust(r) \/ AdjustStatus(r) \/ Adjusted(r) \/ UpdateResponse(r)
               \/ SendToClient(r)
      PROVE  Frozen'
  <2>1. UNCHANGED <<split, locked, charge, settled, raced>>
    BY <1>3 DEF SaveAccepted, RejectQuote, CancelRequest, ExpireQuote, Adjust, AdjustStatus, Adjusted, UpdateResponse, SendToClient
  <2>2. \A o \in Requests : at'[o] = "asking" => at[o] = "asking" /\ asked'[o] = asked[o]
    <3>1. CASE Done(r)
      BY <1>0, <3>1
    <3>2. CASE SaveAccepted(r) /\ Goto(r, "saved") /\ UNCHANGED asked
      BY <3>2 DEF Goto, TypeOK
    <3>3. CASE Adjust(r) \/ AdjustStatus(r)
      BY <3>3 DEF Adjust, AdjustStatus, Goto, TypeOK
    <3>4. CASE SendToClient(r)
      BY <3>4 DEF SendToClient, Goto, TypeOK
    <3>5. QED
      BY <1>3, <3>1, <3>2, <3>3, <3>4
         DEF SaveAccepted, RejectQuote, CancelRequest, ExpireQuote, Adjusted, UpdateResponse
  <2>3. QED
    BY <2>1, <2>2, FrozenKept
<1>4. ASSUME NEW r \in Requests, PatchFinancials(r) \/ SplitSent(r)
      PROVE  Frozen'
  <2>1. PICK p : WriteSplit(p, seen[r])
    BY <1>4 DEF PatchFinancials, SplitSent
  <2>2. locked => split' = split /\ locked'
    BY <2>1 DEF WriteSplit, TypeOK
  <2>3. UNCHANGED <<charge, settled, raced>>
    BY <1>4 DEF PatchFinancials, SplitSent
  <2>4. \A o \in Requests : at'[o] = "asking" => at[o] = "asking" /\ asked'[o] = asked[o]
    BY <1>0, <1>4 DEF PatchFinancials, SplitSent, Goto, TypeOK
  <2>5. QED
    BY <2>2, <2>3, <2>4 DEF Frozen
<1>5. ASSUME NEW r \in Requests, ReadSplit(r)
      PROVE  Frozen'
  BY <1>5 DEF ReadSplit, Goto, TypeOK, Frozen
<1>6. ASSUME NEW r \in Requests, AskClient(r)
      PROVE  Frozen'
  BY <1>0, <1>6 DEF AskClient, Frozen
<1>7. ASSUME SiblingAccepted \/ ShopTakesRequest \/ RecordOverride \/ AcknowledgePrice
               \/ Lapse \/ UNCHANGED vars
      PROVE  Frozen'
  <2>1. UNCHANGED <<split, locked, charge, settled, raced, at, asked>>
    BY <1>7 DEF SiblingAccepted, ShopTakesRequest, RecordOverride, AcknowledgePrice, OthersUnchanged, Lapse, vars
  <2>2. QED
    BY <2>1, FrozenKept
<1>8. QED
  BY <1>1, <1>2, <1>3, <1>4, <1>5, <1>6, <1>7 DEF Next

-----------------------------------------------------------------------------
(* The acceptance. *)

LEMMA AcceptStanding ==
    ASSUME TypeOK, Standing, NEW r \in Requests, NEW st, NEW acc,
           Accept(r, st, acc), Done(r),
           settled /\ ~overlapped => st = status
    PROVE  Standing'
<1>1. \A o \in Requests : at'[o] # "idle" => o # r /\ at'[o] = at[o] /\ seen'[o] = seen[o]
  BY DEF Done, TypeOK
<1>2. CASE settled /\ ~overlapped
  BY <1>1, <1>2 DEF Standing, Accept, CanAccept, Offered, Editing
<1>3. CASE ~settled /\ ~overlapped'
  <2>1. \A o \in Requests : at'[o] = "idle"
    BY <1>1, <1>3 DEF Accept, InFlight, TypeOK
  <2>2. QED
    BY <2>1 DEF Standing, Accept, Editing
<1>4. CASE overlapped'
  BY <1>4 DEF Standing
<1>5. QED
  BY <1>2, <1>3, <1>4 DEF Accept

LEMMA StandingStep ==
    ASSUME TypeOK, Standing, [Next]_vars
    PROVE  /\ Standing'
           /\ settled /\ ~overlapped' /\ status = "accepted"
                => status' \in {"accepted", "superseded"}
<1> DEFINE Goal == /\ Standing'
                   /\ settled /\ ~overlapped' /\ status = "accepted"
                        => status' \in {"accepted", "superseded"}
<1>0. ASSUME NEW r \in Requests, Done(r)
      PROVE  \A o \in Requests : at'[o] # "idle" => at'[o] = at[o] /\ seen'[o] = seen[o]
  BY <1>0 DEF Done, TypeOK
<1>1. ASSUME NEW r \in Requests, NEW op \in Ops, Read(r, op)
      PROVE  Goal
  <2>1. CASE settled /\ ~overlapped
    <3>1. op \notin Editing
      BY <1>1, <2>1 DEF Read, ClientMay, ShopMay, Standing, Offered, Editing, Ops
    <3>2. op = "reject" => status # "accepted"
      BY <1>1 DEF Read, ClientMay
    <3>3. op = "send" => Kept(op).status # "pending"
      BY <2>1 DEF Kept, NoRow, Standing
    <3>4. QED
      BY <1>1, <2>1, <3>1, <3>2, <3>3 DEF Read, Standing, TypeOK
  <2>2. CASE ~(settled /\ ~overlapped)
    BY <1>1, <2>2 DEF Read, Standing
  <2>3. QED
    BY <2>1, <2>2
<1>2. ASSUME NEW r \in Requests, AcceptAndPay(r) \/ AcceptSaved(r) \/ Respond(r)
      PROVE  Goal
  <2>1. Done(r)
    BY <1>2 DEF AcceptAndPay, AcceptSaved, Respond
  <2>2. CASE Refused
    BY <1>0, <2>1, <2>2 DEF Refused, Standing, Editing
  <2>3. CASE Accept(r, status, acceptedAt)
    BY <2>1, <2>3, AcceptStanding DEF Accept
  <2>4. CASE Accept(r, "accepted", TRUE) /\ at[r] = "respond"
    <3>1. ~(settled /\ ~overlapped)
      BY <2>4 DEF Standing, Editing
    <3>2. QED
      BY <2>1, <2>4, <3>1, AcceptStanding DEF Accept
  <2>5. QED
    BY <1>2, <2>2, <2>3, <2>4 DEF AcceptAndPay, AcceptSaved, Respond
<1>3. ASSUME NEW r \in Requests,
             ExpireQuote(r) \/ Adjust(r) \/ AdjustStatus(r) \/ UpdateResponse(r)
               \/ (Adjusted(r) /\ at[r] = "adjusted")
               \/ (SaveAccepted(r) /\ at[r] = "accept")
      PROVE  Goal
  <2>1. at[r] \in Editing /\ UNCHANGED <<settled, overlapped>>
    BY <1>3 DEF ExpireQuote, Adjust, AdjustStatus, UpdateResponse, Adjusted, SaveAccepted, Editing
  <2>2. QED
    BY <2>1 DEF Standing
<1>4. ASSUME NEW r \in Requests,
             RejectQuote(r) \/ CancelRequest(r) \/ PatchFinancials(r) \/ AskClient(r)
               \/ (Adjusted(r) /\ at[r] = "parked")
      PROVE  Goal
  <2>1. Done(r) /\ UNCHANGED <<settled, overlapped>>
    BY <1>4 DEF RejectQuote, CancelRequest, PatchFinancials, AskClient, Adjusted
  <2>2. CASE RejectQuote(r)
    BY <1>0, <2>1, <2>2 DEF RejectQuote, Standing, Editing
  <2>3. CASE ~RejectQuote(r)
    <3>1. status' = status
      BY <1>4, <2>3 DEF CancelRequest, PatchFinancials, AskClient, Adjusted
    <3>2. QED
      BY <1>0, <2>1, <3>1 DEF Standing, Editing
  <2>4. QED
    BY <2>2, <2>3
<1>5. ASSUME NEW r \in Requests, SendToClient(r) \/ SplitSent(r) \/ ReadSplit(r)
      PROVE  Goal
  <2>1. UNCHANGED <<settled, overlapped>>
    BY <1>5 DEF SendToClient, SplitSent, ReadSplit
  <2>2. settled /\ ~overlapped => status' = status
    BY <1>5 DEF SendToClient, SplitSent, ReadSplit, Standing
  <2>3. \A o \in Requests :
          at'[o] \in {"idle", "sending", "billing", "asking"} \/ (at'[o] = at[o] /\ seen'[o] = seen[o])
    <3>1. CASE Done(r)
      BY <1>0, <3>1 DEF Done, TypeOK
    <3>2. CASE \E step \in {"sending", "billing", "asking"} : Goto(r, step)
      BY <3>2 DEF Goto, TypeOK
    <3>3. QED
      BY <1>5, <3>1, <3>2 DEF SendToClient, SplitSent, ReadSplit
  <2>4. QED
    BY <2>1, <2>2, <2>3 DEF Standing, Editing
<1>6. ASSUME SiblingAccepted \/ ShopTakesRequest \/ RecordOverride \/ AcknowledgePrice
               \/ Lapse \/ UNCHANGED vars
      PROVE  Goal
  <2>1. UNCHANGED <<settled, overlapped, at, seen>>
    BY <1>6 DEF SiblingAccepted, ShopTakesRequest, RecordOverride, AcknowledgePrice, OthersUnchanged, Lapse, vars
  <2>2. status' = status \/ status' = "superseded"
    BY <1>6 DEF SiblingAccepted, ShopTakesRequest, RecordOverride, AcknowledgePrice, OthersUnchanged, Lapse, vars
  <2>3. QED
    BY <2>1, <2>2 DEF Standing
<1>7. QED
  BY <1>1, <1>2, <1>3, <1>4, <1>5, <1>6 DEF Next, SaveAccepted, Adjusted

-----------------------------------------------------------------------------
(***************************************************************************)
(* Theorems                                                                *)
(***************************************************************************)

THEOREM Invariance == Spec => []ChargeInv
<1>1. ChargeInv /\ [Next]_vars => ChargeInv'
  BY TypesStep, FrozenStep, StandingStep DEF ChargeInv
<1>2. QED
  BY <1>1, ChargeInit, PTL DEF Spec

\* The rows and the steps in progress keep their types, and a frozen split always
\* has an amount.
THEOREM TypeCorrect == Spec => []TypeOK
<1>1. ChargeInv => TypeOK
  BY DEF ChargeInv
<1>2. QED
  BY <1>1, Invariance, PTL

\* However many web requests edit, send, accept and patch the quote at once, the
\* payment of an accepted quote asks for the frozen split.
THEOREM ChargeIsFrozen == Spec => []ChargeIsFrozenPrice
<1>1. ChargeInv => ChargeIsFrozenPrice
  BY DEF ChargeInv, Frozen, ChargeIsFrozenPrice
<1>2. QED
  BY <1>1, Invariance, PTL

\* An acceptance that no other web request overlapped is undone by nothing but the
\* acceptance of another quote.
THEOREM AcceptanceStands == Spec => AcceptedOnlySuperseded
<1>1. ChargeInv /\ [Next]_vars =>
        [settled /\ ~overlapped' /\ status = "accepted"
           => status' \in {"accepted", "superseded"}]_vars
  BY StandingStep DEF ChargeInv
<1>2. QED
  BY <1>1, Invariance, PTL DEF Spec, AcceptedOnlySuperseded

-----------------------------------------------------------------------------
(* Refinement of PriceAgreement. *)

LEMMA AgreementStep ==
    ASSUME ChargeInv, [Next]_vars
    PROVE  [Agreement!Next]_(Agreement!vars)
<1> USE DEF Agreement!vars, Agreement!Next
<1>0. TypeOK /\ Carried /\ Frozen
  BY DEF ChargeInv
<1>1. ASSUME NEW r \in Requests, NEW st \in Statuses, NEW acc \in BOOLEAN,
             Accept(r, st, acc), Done(r), at[r] # "asking"
      PROVE  Agreement!Agree
  <2>1. locked' /\ charge' = split' /\ (locked => split' = split)
    BY <1>0, <1>1, AcceptFrozen
  <2>2. split' \in Amounts
    BY <1>0, <1>1, <2>1, AcceptTypes DEF TypeOK
  <2>3. (settled /\ ~raced) => (settled /\ ~raced)'
    BY <1>1 DEF Accept
  <2>4. locked' = TRUE /\ (settled /\ ~raced)' \in BOOLEAN
    BY <1>1 DEF Accept
  <2>5. QED
    BY <2>1, <2>2, <2>3, <2>4 DEF Agreement!Agree
<1>2. ASSUME NEW r \in Requests, AcceptAndPay(r) \/ AcceptSaved(r) \/ Respond(r)
      PROVE  Agreement!Agree \/ UNCHANGED Agreement!vars
  <2>1. Done(r) /\ at[r] # "asking"
    BY <1>2 DEF AcceptAndPay, AcceptSaved, Respond
  <2>2. CASE Refused
    BY <2>2 DEF Refused
  <2>3. CASE Accept(r, status, acceptedAt)
    BY <1>0, <1>1, <2>1, <2>3 DEF TypeOK
  <2>4. CASE Accept(r, "accepted", TRUE)
    BY <1>1, <2>1, <2>4 DEF Statuses
  <2>5. QED
    BY <1>2, <2>2, <2>3, <2>4 DEF AcceptAndPay, AcceptSaved, Respond
<1>3. ASSUME NEW r \in Requests, PatchFinancials(r) \/ SplitSent(r)
      PROVE  Agreement!Reprice \/ UNCHANGED Agreement!vars
  <2>1. PICK p \in Amounts : WriteSplit(p, seen[r])
    BY <1>0, <1>3 DEF PatchFinancials, SplitSent, Carried
  <2>2. UNCHANGED <<charge, settled, raced>>
    BY <1>3 DEF PatchFinancials, SplitSent
  <2>3. CASE UNCHANGED <<split, locked>>
    BY <2>2, <2>3
  <2>4. CASE ~UNCHANGED <<split, locked>>
    <3>1. ~locked /\ split' = p /\ locked' \in BOOLEAN
      BY <1>0, <2>1, <2>4 DEF WriteSplit, TypeOK, Row
    <3>2. QED
      BY <2>2, <3>1 DEF Agreement!Reprice
  <2>5. QED
    BY <2>3, <2>4
<1>4. ASSUME NEW r \in Requests, AskClient(r)
      PROVE  Agreement!Ask \/ UNCHANGED Agreement!vars
  <2>1. charge' = asked[r] /\ asked[r] \in Amounts /\ UNCHANGED <<split, locked, settled, raced>>
    BY <1>0, <1>4 DEF AskClient, TypeOK
  <2>2. CASE settled /\ ~raced
    <3>1. charge' = charge
      BY <1>0, <1>4, <2>1, <2>2 DEF Frozen, AskClient
    <3>2. QED
      BY <2>1, <3>1
  <2>3. CASE ~(settled /\ ~raced)
    BY <2>1, <2>3 DEF Agreement!Ask
  <2>4. QED
    BY <2>2, <2>3
<1>5. ASSUME \/ \E r \in Requests :
                  \/ \E op \in Ops : Read(r, op)
                  \/ SaveAccepted(r) \/ RejectQuote(r) \/ CancelRequest(r) \/ ExpireQuote(r)
                  \/ Adjust(r) \/ AdjustStatus(r) \/ Adjusted(r) \/ UpdateResponse(r)
                  \/ SendToClient(r) \/ ReadSplit(r)
             \/ SiblingAccepted \/ ShopTakesRequest \/ RecordOverride \/ AcknowledgePrice
             \/ Lapse \/ UNCHANGED vars
      PROVE  UNCHANGED Agreement!vars
  BY <1>5 DEF Read, SaveAccepted, RejectQuote, CancelRequest, ExpireQuote, Adjust, AdjustStatus, Adjusted,
     UpdateResponse, SendToClient, ReadSplit, SiblingAccepted, ShopTakesRequest, RecordOverride,
     AcknowledgePrice, OthersUnchanged, Lapse, vars
<1>6. QED
  BY <1>2, <1>3, <1>4, <1>5 DEF Next

\* The rows of a quote implement the promise of PriceAgreement: a frozen price is
\* never rewritten, and what is asked of a client who agreed never moves.
THEOREM Implements == Spec => KeepsAgreement
<1>1. Init => Agreement!Init
  BY DEF Init, Agreement!Init
<1>2. ChargeInv /\ [Next]_vars => [Agreement!Next]_(Agreement!vars)
  BY AgreementStep
<1>3. QED
  BY <1>1, <1>2, Invariance, PTL DEF Spec, KeepsAgreement, Agreement!Spec
=============================================================================
