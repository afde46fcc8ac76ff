---------------------------- MODULE QuotePricing ----------------------------
(***************************************************************************)
(* The items of one quote request and what they are sold at: the buyer's   *)
(* calls that add, change and remove items (api/views.py,                  *)
(* api/serializers.py), the submission, and the shop's send_quote          *)
(* (api/quote_views.py), each of which prices items by the live rates      *)
(* (quotes/pricing_service.py) while the shop may be saving its rate card  *)
(* (RateCard) under them.                                                  *)
(*                                                                         *)
(* Some handlers are one transaction and some are a chain of autocommitted *)
(* statements; all check the request's status once, at the start, on a row *)
(* read without a lock.  A step below is one read, one committed write or  *)
(* one lock taken; queries next to each other that read rows no handler    *)
(* writes together are one step.                                           *)
(***************************************************************************)
EXTENDS RateCard, PriceRules, Sequences, FiniteSetsExt

CONSTANTS Workers,     \* the server threads that answer requests
          MaxItems,    \* bound: ids quote items can get
          Jobs,        \* name of a specification |-> its job record (PriceRules)
          Requests,    \* what buyers ask for: a specification and a finishing
          Entries,     \* name |-> what an item may say of its finishing
          Finishing,   \* the one finishing rate, its price aside
          PrintRate,   \* the machine's printing rate, its single price aside
          Rolls,       \* jobs on a roll, which the gallery prices
          Costs,       \* production costs a sale is checked at, in cents
          Markups      \* markups of a manager, in cents

ASSUME PricingAssumption ==
    /\ MaxItems \in Nat \ {0}
    /\ {"none", "keep"} \cap DOMAIN Entries = {}
    /\ \A name \in DOMAIN Entries : Entries[name] \in Entry
    /\ Requests \subseteq [job : DOMAIN Jobs, fin : {"keep", "none"} \cup DOMAIN Entries]
    /\ \A name \in DOMAIN Jobs : Jobs[name].mode = "SHEET" => SheetJob(Jobs[name])
    /\ \A job \in Rolls : RollJob(job)
    /\ \A t \in DOMAIN Prices : Prices[t] \subseteq Int
    /\ Finishing \in FinishingRate /\ PrintRate \in PrintingRate
    /\ Costs \subseteq Int /\ Markups \subseteq Int

VARIABLES status,     \* QuoteRequest.status
          items,      \* the QuoteItem rows, by id
          offers,     \* the Quote rows of the request, in order of creation
          txn,        \* what each worker is in the middle of
          late,       \* history: a line was written past the sum it belongs to
          met,        \* history: the items a worker's call shared with another call
          disturbed   \* history: items that calls shared, or an edit died on, and no
                      \* call priced alone since

pricingVars == <<status, items, offers, txn, late, met, disturbed>>
vars == <<cardVars, pricingVars>>

Items == 1 .. MaxItems
Names == DOMAIN Jobs
Fins  == DOMAIN Entries \cup {"none"}

\* job: the specification.  fin: its finishing, "none" without one.  line, of:
\* line_total and what it was computed for ("" before the first pricing).
\* offer: the Quote linked.
Row == [job : Names, fin : Fins, line : Int,
        of : [job : Names \cup {""}, fin : Fins], offer : Nat, review : BOOLEAN]

\* An id that was not given yet, and one whose row was deleted.
Unused == [state |-> "unused"]
Gone   == [state |-> "gone"]
Exists(i) == items[i] \in Row
Present   == {i \in Items : Exists(i)}

NotPriced == [job |-> "", fin |-> "none"]
NewRow(job, fin) == [job |-> job, fin |-> fin, line |-> 0, of |-> NotPriced,
                     offer |-> 0, review |-> FALSE]

\* item: the item of the call.  job, fin: what the request asks for ("keep": no
\* finishings in the payload, "none": an empty list).  seen: the rows as this call read them.  own: the
\* rows its transaction wrote and did not commit yet, and so locks.  left: the items
\* still to price.  paper, finRow, finPrice: what the pricing read.  total: the sum.
Call == [call : {"none", "submit", "edit", "tweak", "add", "remove", "send"},
         step : {"idle", "read", "write", "clear", "attach", "fetch", "price", "store",
                 "sum", "commit"},
         item : Items \cup {0}, job : Names \cup {""}, fin : Fins \cup {"keep"},
         seen : [Items -> Row \cup {Unused}], own : [Items -> Row \cup {Unused}],
         left : SUBSET Items, paper : Int, finRow : Fins, finPrice : Int, total : Int]

NoRows == [i \in Items |-> Unused]

Idle == [call |-> "none", step |-> "idle", item |-> 0, job |-> "", fin |-> "keep",
         seen |-> NoRows, own |-> NoRows, left |-> {}, paper |-> 0,
         finRow |-> "none", finPrice |-> 0, total |-> 0]

Offer == [status : {"PENDING", "SENT"}, total : Int, computed : BOOLEAN]

TypeOK ==
    /\ CardTypeOK
    /\ status \in {"DRAFT", "SUBMITTED", "AWAITING", "QUOTED"}
    /\ items \in [Items -> Row \cup {Unused, Gone}]
    /\ offers \in Seq(Offer)
    /\ txn \in [Workers -> Call]
    /\ late \in BOOLEAN
    /\ met \in [Workers -> SUBSET Items]
    /\ disturbed \subseteq Items

-----------------------------------------------------------------------------
(* Rows and locks *)

At(w, call, step) == txn[w].call = call /\ txn[w].step = step

Goto(w, step) == txn' = [txn EXCEPT ![w].step = step]

End(w) == txn' = [txn EXCEPT ![w] = Idle] /\ met' = [met EXCEPT ![w] = {}]

\* The rows a call has written and not committed.
Wrote(c) == {i \in Items : c.own[i] \in Row}

\* Another transaction wrote the row and holds its lock.
Locked(w, i) == \E v \in Workers \ {w} : i \in Wrote(txn[v])

\* The items a call is at work on.
AtWork(c) == IF c.call = "send" THEN Items ELSE {c.item} \cap Items

Sent == \E k \in DOMAIN offers : offers[k].status = "SENT"

\* The items a new call c of w shares with the call of v.
Shared(w, c, v) == IF v = w THEN {} ELSE AtWork(c) \cap AtWork(txn[v])

\* A call priced these items; what it had to itself is in order again.
Settles(w, these) == disturbed' = disturbed \ (these \ met[w])

\* A call wrote lines or added or removed an item: too late for an offer that was
\* sent, and for a send that has its sum.
Writes(w) == late' = (late \/ Sent \/ \E v \in Workers \ {w} : At(v, "send", "commit"))

\* already_sent, and the statuses a quote may be sent in
Sendable == ~Sent /\ status \in {"SUBMITTED", "AWAITING"}

Unmoved == UNCHANGED cardVars

-----------------------------------------------------------------------------
(* Calls begin *)

Starts(w, c) ==
    /\ txn[w] = Idle
    /\ OneMoreCall
    /\ txn' = [txn EXCEPT ![w] = c]
    /\ met' = [v \in Workers |-> IF v = w THEN UNION {Shared(w, c, u) : u \in Workers}
                                 ELSE met[v] \cup Shared(w, c, v)]
    /\ disturbed' = disturbed \cup met'[w]
    /\ UNCHANGED <<card, rates, tabs, raced, status, items, offers, late>>

\* check_buyer_and_draft.  The tweak reads its item in the same query.
BeginChange(w) ==
    \E i \in Present, r \in Requests :
       /\ status = "DRAFT"
       /\ \/ Starts(w, [Idle EXCEPT !.call = "edit", !.step = "read", !.item = i,
                                    !.job = r.job, !.fin = r.fin])
          \/ Starts(w, [Idle EXCEPT !.call = "tweak", !.step = "write", !.item = i,
                                    !.job = r.job, !.fin = r.fin, !.seen[i] = items[i]])

BeginRemove(w) ==
    \E i \in Present :
       /\ status = "DRAFT"
       /\ Starts(w, [Idle EXCEPT !.call = "remove", !.step = "write", !.item = i])

\* The item and its finishings are inserted in one transaction.
BeginAdd(w) ==
    \E i \in Items, r \in Requests :
       /\ status = "DRAFT"
       /\ items[i] = Unused
       /\ \A v \in Workers : txn[v].item # i
       /\ \A j \in 1 .. (i - 1) : items[j] # Unused \/ \E v \in Workers : txn[v].item = j
       /\ LET row == NewRow(r.job, IF r.fin = "keep" THEN "none" ELSE r.fin)
          IN  Starts(w, [Idle EXCEPT !.call = "add", !.step = "price", !.item = i,
                                     !.job = r.job, !.fin = r.fin, !.seen[i] = row,
                                     !.own[i] = row])

BeginSubmit(w) ==
    /\ status = "DRAFT"
    /\ Starts(w, [Idle EXCEPT !.call = "submit", !.step = "write"])

BeginSend(w) ==
    /\ Sendable
    /\ Starts(w, [Idle EXCEPT !.call = "send", !.step = "fetch"])

-----------------------------------------------------------------------------
(* The buyer's calls *)

\* Mutant: the status of a quote, which no check of a request knows.
SubmitPending(w) ==
    /\ At(w, "submit", "write")
    /\ status' = "PENDING"
    /\ End(w)
    /\ Unmoved /\ UNCHANGED <<items, offers, late, disturbed>>

\* submit: the status alone is saved.
Submit(w) ==
    /\ At(w, "submit", "write")
    /\ status' = "SUBMITTED"
    /\ End(w)
    /\ Unmoved /\ UNCHANGED <<items, offers, late, disturbed>>

\* get_object of the edit; an item that is gone is a 404.
Read(w) ==
    LET i == txn[w].item IN
    /\ At(w, "edit", "read")
    /\ \/ /\ Exists(i)
          /\ txn' = [txn EXCEPT ![w].seen[i] = items[i], ![w].step = "write"]
          /\ UNCHANGED met
       \/ ~Exists(i) /\ End(w)
    /\ Unmoved /\ UNCHANGED <<status, items, offers, late, disturbed>>

\* destroy
Destroy(w) ==
    LET i == txn[w].item IN
    /\ At(w, "remove", "write")
    /\ ~Locked(w, i)
    /\ items' = IF Exists(i) THEN [items EXCEPT ![i] = Gone] ELSE items
    /\ Writes(w)
    /\ End(w)
    /\ Unmoved /\ UNCHANGED <<status, offers, disturbed>>

AfterSave(w) == IF txn[w].fin = "keep" THEN "price" ELSE "clear"

\* The finishing of an item that is there.
Finishes(i) == IF Exists(i) THEN items[i].fin ELSE "none"

\* instance.save(): every column as it was read, the specification replaced.  The
\* finishings are rows of their own.  Saving a deleted item inserts it again.
SavedRow(w, i) == [txn[w].seen[i] EXCEPT !.job = txn[w].job, !.fin = Finishes(i)]

\* QuoteItemWriteSerializer.update: committed at once.
Save(w) ==
    LET i == txn[w].item IN
    /\ At(w, "edit", "write")
    /\ ~Locked(w, i)
    /\ items' = [items EXCEPT ![i] = SavedRow(w, i)]
    /\ txn' = [txn EXCEPT ![w].seen[i] = SavedRow(w, i), ![w].step = AfterSave(w)]
    /\ Writes(w)
    /\ Unmoved /\ UNCHANGED <<status, offers, met, disturbed>>

\* A tweak deleted or inserted the finishing of item i and did not commit yet.
HoldsFinishing(c, i) ==
    /\ c.call = "tweak" /\ i \in Wrote(c)
    /\ \/ c.fin \in DOMAIN Entries
       \/ c.fin = "none" /\ c.seen[i].fin # "none"

\* instance.finishings.all().delete()
Clear(w) ==
    LET i == txn[w].item IN
    /\ At(w, "edit", "clear")
    /\ \A v \in Workers \ {w} : ~HoldsFinishing(txn[v], i)
    /\ items' = IF Exists(i) THEN [items EXCEPT ![i].fin = "none"] ELSE items
    /\ Goto(w, IF txn[w].fin = "none" THEN "price" ELSE "attach")
    /\ Unmoved /\ UNCHANGED <<status, offers, late, met, disturbed>>

\* QuoteItemFinishing.objects.create: refused (Fail) without the item, or when
\* another edit attached the finishing meanwhile.
Attach(w) ==
    LET i == txn[w].item IN
    /\ At(w, "edit", "attach")
    /\ \A v \in Workers \ {w} : ~HoldsFinishing(txn[v], i)
    /\ Exists(i) /\ items[i].fin = "none"
    /\ items' = [items EXCEPT ![i].fin = txn[w].fin]
    /\ Goto(w, "price")
    /\ Unmoved /\ UNCHANGED <<status, offers, late, met, disturbed>>

\* TweakedItemUpdateView.patch and QuoteItemAddSerializer.update: the same in one
\* transaction; the first write takes the row's lock.
TweakWrite(w) ==
    LET i   == txn[w].item
        row == [SavedRow(w, i) EXCEPT
                  !.fin = IF txn[w].fin = "keep" THEN Finishes(i) ELSE txn[w].fin]
    IN  /\ At(w, "tweak", "write")
        /\ ~Locked(w, i)
        /\ txn' = [txn EXCEPT ![w].own[i] = row, ![w].step = "price",
                              ![w].seen[i].fin = Finishes(i)]
        /\ Unmoved /\ UNCHANGED <<status, items, offers, late, met, disturbed>>

-----------------------------------------------------------------------------
(* Pricing: compute_and_store_pricing *)

Target(c) == IF c.call = "send" THEN Min(c.left) ELSE c.item

\* The finishing a call sees on item i: its own, or the one that is committed.  A
\* tweak that keeps the finishings, or deleted none, has none of its own.
FinishingSeen(c, i) ==
    IF c.call = "add" \/ HoldsFinishing(c, i) THEN c.own[i].fin ELSE Finishes(i)

\* The specification priced is the one in memory.
SpecOf(c) ==
    LET i == Target(c)
    IN  IF i \in Wrote(c) THEN c.own[i].job ELSE c.seen[i].job

\* The paper, and the finishings of the item with their rate.  The pricing of a job
\* on a roll raises: it asks for a material, which an item does not have.
Price(w) ==
    /\ txn[w].step = "price"
    /\ Jobs[SpecOf(txn[w])].mode = "SHEET"
    /\ txn' = [txn EXCEPT ![w].paper = rates["paper"], ![w].finPrice = rates["finishing"],
                          ![w].finRow = FinishingSeen(txn[w], Target(txn[w])),
                          ![w].step = "store"]
    /\ Unmoved /\ UNCHANGED <<status, items, offers, late, met, disturbed>>

\* The finishing rate at a price, and what the item says of it.
RateOf(fin, price) == IF fin = "none" THEN NoFinishing ELSE [Finishing EXCEPT !.price = price]
EntryOf(fin)       == IF fin = "none" THEN Plain ELSE Entries[fin]

\* compute_quote_item_pricing, with the printing rate found last.
LineTotal(job, fin, paperPrice, finPrice, printPrice) ==
    IF job.quantity = 0 THEN 0
    ELSE SheetLine(job, RateOf(fin, finPrice), EntryOf(fin), paperPrice,
                   [PrintRate EXCEPT !.single = printPrice])

\* The columns of the price are saved.
Priced(w, row) ==
    [row EXCEPT !.line = LineTotal(Jobs[SpecOf(txn[w])], txn[w].finRow, txn[w].paper,
                                   txn[w].finPrice, rates["printing"]),
                !.of = [job |-> SpecOf(txn[w]), fin |-> txn[w].finRow],
                !.review = FALSE]

StoreEdit(w) ==
    LET i == txn[w].item IN
    /\ At(w, "edit", "store")
    /\ ~Locked(w, i) /\ Exists(i)
    /\ items' = [items EXCEPT ![i] = Priced(w, @)]
    /\ Writes(w)
    /\ Settles(w, {i})
    /\ End(w)
    /\ Unmoved /\ UNCHANGED <<status, offers>>

StoreOwn(w) ==
    LET i == txn[w].item IN
    /\ txn[w].call \in {"tweak", "add"} /\ txn[w].step = "store"
    /\ txn' = [txn EXCEPT ![w].own[i] = Priced(w, @), ![w].step = "commit"]
    /\ Unmoved /\ UNCHANGED <<status, items, offers, late, met, disturbed>>

\* send_quote prices its items one after the other, and locks them so.
StoreSend(w) ==
    LET i == Target(txn[w]) IN
    /\ At(w, "send", "store")
    /\ ~Locked(w, i) /\ Exists(i)
    /\ txn' = [txn EXCEPT ![w].own[i] = Priced(w, items[i]),
                          ![w].left = @ \ {i},
                          ![w].step = IF txn[w].left = {i} THEN "sum" ELSE "price"]
    /\ Unmoved /\ UNCHANGED <<status, items, offers, late, met, disturbed>>

\* Mutant: the exception is only logged.
FlagNothing(w) ==
    /\ txn[w].step \in {"price", "store"}
    /\ \/ /\ txn[w].call = "edit"
          /\ Settles(w, {txn[w].item})
          /\ End(w)
       \/ /\ txn[w].call = "add"
          /\ Goto(w, "commit")
          /\ UNCHANGED <<met, disturbed>>
    /\ Unmoved /\ UNCHANGED <<status, items, offers, late>>

\* The pricing raised: the edit and the plain add keep the item and flag it.
Flag(w) ==
    LET i == txn[w].item IN
    /\ txn[w].step \in {"price", "store"}
    /\ \/ /\ txn[w].call = "edit"
          /\ ~Locked(w, i) /\ Exists(i)
          /\ items' = [items EXCEPT ![i].review = TRUE]
          /\ Settles(w, {i})
          /\ End(w)
       \/ /\ txn[w].call = "add"
          /\ txn' = [txn EXCEPT ![w].own[i].review = TRUE,
                                ![w].step = "commit"]
          /\ UNCHANGED <<items, met, disturbed>>
    /\ Unmoved /\ UNCHANGED <<status, offers, late>>

CommitItem(w) ==
    LET i == txn[w].item IN
    /\ txn[w].call \in {"tweak", "add"} /\ txn[w].step = "commit"
    /\ items' = [items EXCEPT ![i] = [txn[w].own[i] EXCEPT !.fin = FinishingSeen(txn[w], i)]]
    /\ Writes(w)
    /\ Settles(w, {i})
    /\ End(w)
    /\ Unmoved /\ UNCHANGED <<status, offers>>

-----------------------------------------------------------------------------
(* The shop's call: send_quote, one transaction after its checks *)

\* The queryset is read once, in order of id.
Fetch(w) ==
    /\ At(w, "send", "fetch")
    /\ txn' = [txn EXCEPT ![w].seen = [i \in Items |-> IF Exists(i) THEN items[i] ELSE Unused],
                          ![w].left = Present,
                          ![w].step = IF Present = {} THEN "sum" ELSE "price"]
    /\ Unmoved /\ UNCHANGED <<status, items, offers, late, met, disturbed>>

\* What the transaction sees of the items: its own writes over what is committed.
LineSeen(c, i) ==
    IF ~Exists(i) THEN 0 ELSE IF i \in Wrote(c) THEN c.own[i].line ELSE items[i].line

\* sum(): of the lines of the items, 0 for those that are not there.
Total(line) ==
    LET sum[n \in 0 .. MaxItems] == IF n = 0 THEN 0 ELSE sum[n - 1] + line[n]
    IN  sum[MaxItems]

LineTotals == [i \in Items |-> IF Exists(i) THEN items[i].line ELSE 0]

\* Mutant: the total is made of the rows as they were fetched, before their pricing.
SumFetched(w) ==
    /\ At(w, "send", "sum")
    /\ txn' = [txn EXCEPT ![w].total = Total([i \in Items |->
                             IF txn[w].seen[i] \in Row THEN txn[w].seen[i].line ELSE 0]),
                          ![w].step = "commit"]
    /\ Unmoved /\ UNCHANGED <<status, items, offers, late, met, disturbed>>

\* sum((i.line_total or 0) for i in qr.items.all())
Sum(w) ==
    /\ At(w, "send", "sum")
    /\ txn' = [txn EXCEPT ![w].total = Total([i \in Items |-> LineSeen(txn[w], i)]),
                          ![w].step = "commit"]
    /\ Unmoved /\ UNCHANGED <<status, items, offers, late, met, disturbed>>

\* The columns the call wrote over the row as it is; a sent offer k is linked to it.
SentRow(w, i, k, to) ==
    LET own == txn[w].own[i]
        row == IF i \in Wrote(txn[w])
               THEN [items[i] EXCEPT !.line = own.line, !.of = own.of, !.review = FALSE]
               ELSE items[i]
    IN  IF to = "SENT" THEN [row EXCEPT !.offer = k] ELSE row

\* The pending quote of the request, if there is one, becomes the offer; the shop
\* may type a total of its own.  A sent offer is linked to every item.
CommitSend(w) ==
    LET pending == {k \in DOMAIN offers : offers[k].status = "PENDING"}
        k       == IF pending = {} THEN Len(offers) + 1 ELSE Max(pending)
    IN  /\ At(w, "send", "commit")
        /\ \E to \in {"PENDING", "SENT"}, computed \in BOOLEAN :
              LET offer == [status |-> to, computed |-> computed,
                            total |-> IF computed THEN txn[w].total ELSE 0]
              IN  /\ to = "SENT" => \A i \in Present : ~Locked(w, i)
                  /\ offers' = IF pending = {} THEN Append(offers, offer)
                               ELSE [offers EXCEPT ![k] = offer]
                  /\ items' = [i \in Items |-> IF Exists(i) THEN SentRow(w, i, k, to) ELSE items[i]]
                  /\ status' = IF to = "SENT" THEN "QUOTED" ELSE "AWAITING"
                  /\ late' = (\/ late
                              \/ to = "PENDING" /\ Sent
                              \/ \E v \in Workers \ {w} : At(v, "send", "commit"))
        /\ Settles(w, Items)
        /\ End(w)
        /\ Unmoved

-----------------------------------------------------------------------------

\* An error or the worker's death: a transaction leaves nothing, an edit what it
\* has saved so far.
Fail(w) ==
    /\ txn[w] # Idle
    /\ disturbed' = IF txn[w].call = "edit" /\ txn[w].step \in {"clear", "attach", "price", "store"}
                    THEN disturbed \cup {txn[w].item} ELSE disturbed
    /\ End(w)
    /\ Unmoved /\ UNCHANGED <<status, items, offers, late>>

\* A draft with one item on sheets, just added and priced by the rates of the day.
Init ==
    /\ CardInit
    /\ status = "DRAFT"
    /\ \E r \in {q \in Requests : Jobs[q.job].mode = "SHEET" /\ q.fin # "keep"} :
          LET line == LineTotal(Jobs[r.job], r.fin, rates["paper"], rates["finishing"], rates["printing"])
          IN  items = [i \in Items |->
                 IF i = 1 THEN [NewRow(r.job, r.fin) EXCEPT !.line = line, !.of = r] ELSE Unused]
    /\ offers = <<>>
    /\ txn = [w \in Workers |-> Idle]
    /\ late = FALSE
    /\ met = [w \in Workers |-> {}]
    /\ disturbed = {}

Begins(w) == BeginChange(w) \/ BeginRemove(w) \/ BeginAdd(w) \/ BeginSubmit(w) \/ BeginSend(w)

Step(w) ==
    \/ Submit(w) \/ Read(w) \/ Destroy(w) \/ Save(w) \/ Clear(w) \/ Attach(w) \/ TweakWrite(w)
    \/ Price(w) \/ StoreEdit(w) \/ StoreOwn(w) \/ StoreSend(w) \/ Flag(w) \/ CommitItem(w)
    \/ Fetch(w) \/ Sum(w) \/ CommitSend(w) \/ Fail(w)

Next ==
    \/ \E w \in Workers : Begins(w) \/ Step(w)
    \/ CardNext /\ UNCHANGED pricingVars

Spec == Init /\ [][Next]_vars

-----------------------------------------------------------------------------
(* Properties *)

\* api/quote_views.py:625: the total of the offer in force, when the shop did not type
\* one, is the sum of the lines of the items it is linked to, and of no others,
\* whatever the buyer wrote while the send was pricing them.  Only a line written after
\* the sum was taken, or after the offer was sent, can part them.
SentOfferAddsUp ==
    LET sent == {k \in DOMAIN offers : offers[k].status = "SENT"} IN
    (~late /\ sent # {}) =>
       LET k == Max(sent) IN
       /\ \A i \in Present : items[i].offer = k
       /\ offers[k].computed => offers[k].total = Total(LineTotals)

\* api/serializers.py:742: a stored price belongs to another specification only while an
\* edit or two calls are at work on the item, or the item says that it needs review, or
\* an edit died on it or calls overlapped and no call that had the item to itself has
\* priced it since: the next edit, tweak or send that nothing disturbs puts it right.
StalePriceIsFlagged ==
    \A i \in Present :
       items[i].of # [job |-> items[i].job, fin |-> items[i].fin] =>
          \/ items[i].review
          \/ i \in disturbed
          \/ \E w \in Workers : txn[w].call = "edit" /\ txn[w].item = i

\* Paper and print of a sheet at two prices of the tables, and the line of a job with
\* them for the sheets that hold its copies and no more.
SheetAt(job, paperPrice, printPrice) ==
    SheetPrice(job, paperPrice, [PrintRate EXCEPT !.single = printPrice])

Floor(job, fin, paperPrice, printPrice, finPrice) ==
    Finished(job, RateOf(fin, finPrice), EntryOf(fin),
             GoodSheets(job.quantity, Copies(job)) * SheetAt(job, paperPrice, printPrice))

\* The line of a sheet job that the shop can print bills every sheet that holds a copy,
\* at prices the shop had and with the finishing on top: the item's own price for its
\* finishing, which may be below zero, takes nothing off the sheets.  A shop that sells
\* its sheets below zero is left out.
Covers(row) ==
    LET job == Jobs[row.of.job]
    IN  (/\ row.of.job # "" /\ job.mode = "SHEET" /\ job.quantity > 0
         /\ job.paper.chosen /\ ~NoTotals(job)
         /\ \A p \in Prices["paper"], q \in Prices["printing"] : SheetAt(job, p, q) >= 0)
        => \E p \in Prices["paper"], q \in Prices["printing"], f \in Prices["finishing"] :
              row.line >= Floor(job, row.of.fin, p, q, f)

LinesCoverTheSheets == \A i \in Present : Covers(items[i])

\* large_format_calculator.py: material and print of a roll job are charged on no less
\* than its artwork, however it is turned, cut into strips and rounded.
RollsCoverTheArtwork ==
    \A job \in Rolls, price \in Prices["finishing"], sides \in {"SINGLE", "DOUBLE", "BOTH"} :
       LET rate  == [Finishing EXCEPT !.price = price]
           entry == [Plain EXCEPT !.sides = sides]
       IN  job.roll.price >= 0 /\ job.roll.print >= 0 =>
              RollLine(job, rate, entry) >=
                RollFinished(job, rate, entry, RollCharge(job, ArtworkArea(job)))

SoundAtEveryMarkup(cost) ==
    \A markup \in Markups : SplitAllowed(cost, markup) => SoundSplit(cost, markup)

SoundAtTheLimits == \A cost \in Costs : SoundAtEveryMarkup(cost)

\* platform_fee_policy.py:135 and 201: every sale the policy allows is split soundly,
\* around the limits of its tiers and at every total an offer was made for.
SharesAreSound ==
    /\ SoundAtTheLimits
    /\ \A k \in DOMAIN offers : SoundAtEveryMarkup(offers[k].total)

\* What is charged covers the sheets or the roll it is for, and is shared out soundly.
PricesAreSound == LinesCoverTheSheets /\ RollsCoverTheArtwork /\ SharesAreSound
=============================================================================
