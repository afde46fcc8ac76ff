---------------------------- MODULE QuoteVersions ----------------------------
(***************************************************************************)
(* The versions of the quotes of ONE request: the write-once record of     *)
(* every offer the buyer saw, how each of them ended, and the one a        *)
(* verified payment settles.                                               *)
(*                                                                         *)
(* record_quote_version is a transaction, but it reads the open versions   *)
(* and the highest number without a lock and only the unique constraint on *)
(* (quote_request, version_number) stands between two of them;             *)
(* mark_quote_outcome reads the latest version and saves it later.  The    *)
(* views save the quote first, in a statement of their own.                *)
(*                                                                         *)
(* accept_quote_for_payment locks the quote and its request, on which      *)
(* every insert of a version waits (foreign keys), so all it does is one   *)
(* action.  Version n is versions[n]: numbers are dense and unique.        *)
(***************************************************************************)
EXTENDS Naturals, Sequences

CONSTANTS
    Workers,      \* web requests and commands that can run at the same time
    LastQuote,    \* quotes 1..LastQuote, in the order of their creation
    Prices,       \* totals
    NoPrice,      \* nothing agreed
    MaxVersions,  \* bound on the versions of the request
    MaxTasks      \* bound on the tasks the workers start

ASSUME QuoteVersionsAssumption ==
    /\ LastQuote \in Nat \ {0} /\ MaxVersions \in Nat /\ MaxTasks \in Nat
    /\ NoPrice \notin Prices

VARIABLES
    status,     \* Quote.status; "offered" is SENT, REVISED or MODIFIED
    total,      \* Quote.total
    req,        \* QuoteRequest.status; "working" before QUOTED, "dead" is
                \* REJECTED, CANCELLED or EXPIRED
    versions,   \* the QuoteVersion rows, by version_number
    agreed,     \* history: the total the client accepted
    work,       \* what each worker is doing, and what it has read
    started,    \* tasks the workers have started
    unversioned,\* history: quotes whose price changed without a version
    overlapped, \* history: two of the workers were busy at the same time
    failed,     \* history: a record_quote_version left nothing behind
    reopened    \* history: accepted quotes whose status a task that began before
                \* the acceptance has overwritten

quoteVars == <<status, total, req>>
history   == <<unversioned, overlapped, failed, reopened>>
vars == <<quoteVars, versions, agreed, work, started, history>>

Quotes   == 1 .. LastQuote
Statuses == {"pending", "offered", "accepted", "rejected", "expired"}
Progress == {"working", "quoted", "closed", "dead"}
Outcomes == {"open", "accepted", "lost", "expired", "superseded"}
Version  == [quote : 0 .. LastQuote, price : Prices \cup {NoPrice}, outcome : Outcomes]

Ops   == {"revise", "send", "reject", "expire", "refuse", "stale"}
Later == {"marking", "retiring", "closing", "recording", "numbering", "inserting", "ending"}
Numbers == 0 .. MaxVersions + 1

\* quote 0 is None; `ver` is the version it will save, or the number it will
\* insert; `open` the versions it will supersede; `early` (history) the quotes that
\* were accepted since it began.
Task == [op : Ops \cup {"idle"}, at : Ops \cup Later \cup {"idle"}, quote : 0 .. LastQuote,
         price : Prices \cup {NoPrice}, outcome : Outcomes,
         ver : Numbers, open : SUBSET Numbers,
         status : Statuses, req : Progress, early : SUBSET Quotes]
Idle == [op |-> "idle", at |-> "idle", quote |-> 0, price |-> NoPrice, outcome |-> "open",
         ver |-> 0, open |-> {}, status |-> "pending", req |-> "working",
         early |-> {}]

\* The rows have the types of their columns, numbers stay within the bound, and
\* the version of a quote has a price.
TypeOK ==
    /\ status \in [Quotes -> Statuses]
    /\ total \in [Quotes -> Prices]
    /\ req \in Progress
    /\ versions \in Seq(Version) /\ Len(versions) <= MaxVersions
    /\ \A n \in DOMAIN versions : versions[n].quote # 0 => versions[n].price \in Prices
    /\ agreed \in [Quotes -> Prices \cup {NoPrice}]
    /\ work \in [Workers -> Task]
    /\ started \in 0 .. MaxTasks
    /\ unversioned \subseteq Quotes
    /\ overlapped \in BOOLEAN /\ failed \in BOOLEAN
    /\ reopened \subseteq Quotes

\* Drafts of the shops that will answer.
Init ==
    /\ status = [q \in Quotes |-> "pending"]
    /\ total \in [Quotes -> Prices]
    /\ req = "working"
    /\ versions = << >>
    /\ agreed = [q \in Quotes |-> NoPrice]
    /\ work = [w \in Workers |-> Idle]
    /\ started = 0
    /\ unversioned = {}
    /\ overlapped = FALSE /\ failed = FALSE
    /\ reopened = {}

-----------------------------------------------------------------------------
Highest(S) == IF S = {} THEN 0 ELSE CHOOSE n \in S : \A k \in S : k <= n

\* QuoteRequest.get_latest_response, or None.
LatestResponse == Highest({q \in Quotes : status[q] # "pending"})

\* The versions of a quote; with no quote, of the request.
VersionsOf(q) == {n \in DOMAIN versions : q \in {0, versions[n].quote}}

\* Mutant: the versions in the order of their numbers.
FirstOf(q) == IF VersionsOf(q) = {} THEN 0 ELSE CHOOSE n \in VersionsOf(q) :
                                                  \A k \in VersionsOf(q) : n <= k

LatestOf(q) == Highest(VersionsOf(q))

Close(vs, n, outcome) == [vs EXCEPT ![n].outcome = outcome]

Busy(w) == work[w].at # "idle"
OthersBusy(w) == \E o \in Workers \ {w} : Busy(o)

Step(w, at) == work' = [work EXCEPT ![w].at = at]
Done(w)     == work' = [work EXCEPT ![w] = Idle]

\* A version was written or needs no write: expire_quote goes on to its request.
AfterVersion(w) ==
    work' = [work EXCEPT ![w] =
               IF work[w].op = "expire"
               THEN [Idle EXCEPT !.op = "expire", !.at = "ending", !.quote = work[w].quote,
                                 !.req = work[w].req, !.early = work[w].early]
               ELSE Idle]

\* The task saves the status of its quote: over an acceptance it did not know of?
Overwrites(w, q) ==
    reopened' = IF status[q] = "accepted" /\ q \in work[w].early
                THEN reopened \cup {q} ELSE reopened

-----------------------------------------------------------------------------
(***************************************************************************)
(* A view reads the quote and its request and checks what it read.         *)
(***************************************************************************)

\* The shop revises its quote, the manager sends his, the client rejects, a
\* view or the daily command meets a lapsed offer.
MayStart(op, q) ==
    CASE op = "revise" -> status[q] \in {"pending", "offered"}
      [] op = "send"   -> TRUE
      [] op = "reject" -> status[q] # "accepted"
      [] op = "expire" -> status[q] = "offered"
      [] OTHER         -> FALSE

Begin(w, task) ==
    /\ ~Busy(w) /\ started < MaxTasks
    /\ started' = started + 1
    /\ work' = [work EXCEPT ![w] = task]
    /\ overlapped' = (overlapped \/ OthersBusy(w))
    /\ UNCHANGED <<quoteVars, versions, agreed, unversioned, failed, reopened>>

\* The request comes with the quote; only expire_quote decides on it later.
StartOnQuote(w, op, q) ==
    /\ MayStart(op, q)
    /\ Begin(w, [Idle EXCEPT !.op = op, !.at = op, !.quote = q, !.price = total[q],
                             !.status = status[q],
                             !.req = IF op = "expire" THEN req ELSE Idle.req])

\* IncomingRequestViewSet.reject_request refuses a request that is QUOTED or
\* dead, not one that is CLOSED.
StartRefuse(w) ==
    /\ req \in {"working", "closed"}
    /\ Begin(w, [Idle EXCEPT !.op = "refuse", !.at = "refuse"])

\* Mutant: the age of the version is all that counts.
StartStaleAny(w, n) ==
    /\ versions[n].quote # 0
    /\ Begin(w, [Idle EXCEPT !.op = "stale", !.at = "stale", !.quote = versions[n].quote, !.ver = n,
                             !.status = status[versions[n].quote], !.req = req])

\* _expire_stale_versions meets an open version past QUOTE_VALIDITY_DAYS: the
\* quote and the request come with it.
StartStale(w, n) ==
    /\ versions[n].outcome = "open"
    /\ versions[n].quote # 0
    /\ Begin(w, [Idle EXCEPT !.op = "stale", !.at = "stale", !.quote = versions[n].quote, !.ver = n,
                             !.status = status[versions[n].quote], !.req = req])

-----------------------------------------------------------------------------
(***************************************************************************)
(* The view saves the quote, or the request; the version comes later.      *)
(***************************************************************************)

\* The saves of partial_update, quote and create_quote_response or
\* update_quote_response: a draft may stay one, and then has no version; the
\* shop may also write ACCEPTED or REJECTED itself.
SaveRevision(w) ==
    LET q == work[w].quote IN
    /\ work[w].at = "revise"
    /\ \E p \in Prices, s \in {"pending", "offered", "accepted", "rejected"} :
         /\ total' = [total EXCEPT ![q] = p]
         /\ status' = [status EXCEPT ![q] = s]
         /\ req' = CASE s = "pending" -> "working"
                     [] s = "rejected" -> "dead"
                     [] OTHER -> "quoted"
         /\ IF s = "accepted" THEN UNCHANGED reopened ELSE Overwrites(w, q)
         /\ IF s = "pending"
              THEN /\ Done(w)
                   /\ unversioned' = unversioned \cup {q}
              ELSE /\ work' = [work EXCEPT ![w].at = "recording", ![w].price = p,
                                        ![w].status = Idle.status]
                   /\ unversioned' = unversioned
    /\ UNCHANGED <<versions, agreed, started, overlapped, failed>>

\* PartnerQuoteSendToClientView: the manager's price becomes the total.  A draft
\* goes through update_quote_response and gets a version; a quote that was sent
\* before does not.
SendToClient(w) ==
    LET q == work[w].quote
        draft == work[w].status = "pending" IN
    /\ work[w].at = "send"
    /\ \E p \in Prices :
         /\ total' = [total EXCEPT ![q] = p]
         /\ IF draft THEN work' = [work EXCEPT ![w].at = "recording", ![w].price = p,
                                          ![w].status = Idle.status]
                     ELSE Done(w)
    /\ IF draft THEN /\ status' = [status EXCEPT ![q] = "offered"]
                     /\ Overwrites(w, q)
                ELSE UNCHANGED <<status, reopened>>
    /\ req' \in IF draft THEN {"quoted"} ELSE {req, IF req = "working" THEN "quoted" ELSE req}
    /\ unversioned' = IF draft THEN unversioned ELSE unversioned \cup {q}
    /\ UNCHANGED <<versions, agreed, started, overlapped, failed>>

\* ClientResponseRejectView.
SaveRejected(w) ==
    /\ work[w].at = "reject"
    /\ status' = [status EXCEPT ![work[w].quote] = "rejected"]
    /\ Overwrites(w, work[w].quote)
    /\ work' = [work EXCEPT ![w].at = "marking", ![w].outcome = "lost",
                            ![w].status = Idle.status]
    /\ UNCHANGED <<total, req, versions, agreed, started, unversioned, overlapped, failed>>

\* expire_quote: the quote, its version, and at last the request.
SaveExpired(w) ==
    /\ work[w].at = "expire"
    /\ status' = [status EXCEPT ![work[w].quote] = "expired"]
    /\ Overwrites(w, work[w].quote)
    /\ work' = [work EXCEPT ![w].at = "marking", ![w].outcome = "expired",
                            ![w].status = Idle.status]
    /\ UNCHANGED <<total, req, versions, agreed, started, unversioned, overlapped, failed>>

\* A request read while it was in progress may have been ACCEPTED by the shop, or
\* one that is dead EXPIRED before: it stays, or expires.
MayExpire(seen) == IF seen = "closed" THEN {req} ELSE IF seen = "quoted" THEN {"dead"}
                   ELSE {req, "dead"}

\* The request expires, as it was read, with its latest response.
SaveEnded(w) ==
    /\ work[w].at = "ending"
    /\ req' \in IF LatestResponse = work[w].quote THEN MayExpire(work[w].req) ELSE {req}
    /\ Done(w)
    /\ UNCHANGED <<status, total, versions, agreed, started, history>>

\* reject_request: the request first, then the latest response's version.
SaveRefused(w) ==
    /\ work[w].at = "refuse"
    /\ req' = "dead"
    /\ work' = [work EXCEPT ![w].at = "marking", ![w].outcome = "lost",
                            ![w].quote = LatestResponse,
                            ![w].price = IF LatestResponse = 0 THEN NoPrice
                                         ELSE total[LatestResponse]]
    /\ UNCHANGED <<status, total, versions, agreed, started, history>>

\* _expire_stale_versions, on the instances it read: the quote, the request, and
\* at last the version (SaveOutcome).
SaveStale(w) ==
    LET q == work[w].quote IN
    /\ work[w].at = "stale"
    /\ IF work[w].status = "offered"
         THEN status' = [status EXCEPT ![q] = "expired"] /\ Overwrites(w, q)
         ELSE UNCHANGED <<status, reopened>>
    /\ work' = [work EXCEPT ![w].at = "retiring", ![w].outcome = "expired",
                            ![w].status = Idle.status]
    /\ UNCHANGED <<total, req, versions, agreed, started, unversioned, overlapped, failed>>

SaveRetired(w) ==
    /\ work[w].at = "retiring"
    /\ req' \in IF work[w].req = "dead" THEN {req} ELSE MayExpire(work[w].req)
    /\ work' = [work EXCEPT ![w].at = "closing", ![w].req = Idle.req]
    /\ UNCHANGED <<status, total, versions, agreed, started, history>>

-----------------------------------------------------------------------------
(***************************************************************************)
(* mark_quote_outcome.                                                     *)
(***************************************************************************)

\* It reads the latest version; when there is none it records one.
ReadLatest(w) ==
    LET n == LatestOf(work[w].quote) IN
    /\ work[w].at = "marking"
    /\ IF n = 0 THEN Step(w, "recording")
       ELSE IF versions[n].outcome = work[w].outcome THEN AfterVersion(w)
       ELSE work' = [work EXCEPT ![w].at = "closing", ![w].ver = n]
    /\ UNCHANGED <<quoteVars, versions, agreed, started, history>>

\* version.save(update_fields=["outcome"]), whatever the outcome is by now.
SaveOutcome(w) ==
    /\ work[w].at = "closing"
    /\ versions' = Close(versions, work[w].ver, work[w].outcome)
    /\ AfterVersion(w)
    /\ UNCHANGED <<quoteVars, agreed, started, history>>

-----------------------------------------------------------------------------
(***************************************************************************)
(* record_quote_version, one transaction.                                  *)
(***************************************************************************)

Opened(w, q, price, open) ==
    work' = [work EXCEPT ![w].at = "numbering", ![w].quote = q, ![w].price = price,
                         ![w].open = open]

OpenOf(q) == {n \in VersionsOf(q) : versions[n].outcome = "open"}

\* Mutant: the quote that stands in for none gives no price.
ReadOpenUnpriced(w) ==
    LET q == IF work[w].quote = 0 THEN LatestResponse ELSE work[w].quote IN
    /\ work[w].at = "recording"
    /\ Opened(w, q, work[w].price, OpenOf(q))
    /\ UNCHANGED <<quoteVars, versions, agreed, started, history>>

\* Without a quote it takes the latest response; it reads the open versions.
ReadOpen(w) ==
    LET q == IF work[w].quote = 0 THEN LatestResponse ELSE work[w].quote IN
    /\ work[w].at = "recording"
    /\ Opened(w, q, IF work[w].quote = q THEN work[w].price ELSE total[q], OpenOf(q))
    /\ UNCHANGED <<quoteVars, versions, agreed, started, history>>

\* Max(version_number), read after the open versions are superseded.
ReadNumber(w) ==
    /\ work[w].at = "numbering"
    /\ work' = [work EXCEPT ![w].at = "inserting", ![w].ver = Len(versions) + 1]
    /\ UNCHANGED <<quoteVars, versions, agreed, started, history>>

Superseded(vs, open) ==
    [n \in DOMAIN vs |-> IF n \in open THEN [vs[n] EXCEPT !.outcome = "superseded"] ELSE vs[n]]

\* The insert and the commit, unless the number is taken.
Insert(w) ==
    LET t == work[w] IN
    /\ t.at = "inserting"
    /\ t.ver = Len(versions) + 1 /\ t.ver <= MaxVersions
    /\ versions' = Append(Superseded(versions, t.open),
                          [quote |-> t.quote, price |-> t.price, outcome |-> t.outcome])
    /\ unversioned' = unversioned \ {t.quote}
    /\ AfterVersion(w)
    /\ UNCHANGED <<quoteVars, agreed, started, overlapped, failed, reopened>>

\* Mutant: without the transaction, the superseded versions are saved for good.
RecordFailsHalf(w) ==
    /\ work[w].at \in {"recording", "numbering", "inserting"}
    /\ versions' = Superseded(versions, work[w].open)
    /\ Done(w)
    /\ failed' = TRUE
    /\ UNCHANGED <<quoteVars, agreed, started, unversioned, overlapped, reopened>>

\* The number is taken, the database breaks a deadlock, or the worker dies: the
\* transaction leaves nothing behind, and what the view saved before stays.
RecordFails(w) ==
    /\ work[w].at \in {"recording", "numbering", "inserting"}
    /\ Done(w)
    /\ failed' = TRUE
    /\ UNCHANGED <<quoteVars, versions, agreed, started, unversioned, overlapped, reopened>>

-----------------------------------------------------------------------------
(***************************************************************************)
(* Acceptance and payment.                                                 *)
(***************************************************************************)

\* The other quotes the client was offered: their latest versions are lost.
Losers(q) == {LatestOf(o) : o \in {p \in Quotes \ {q} : status[p] # "pending"}} \ {0}

Lose(vs, S) ==
    [n \in DOMAIN vs |-> IF n \in S THEN [vs[n] EXCEPT !.outcome = "lost"] ELSE vs[n]]

\* accept_quote_for_payment, under the lock of the quote and the request.  is_expired
\* asks the clock when the transaction begins, so the offer may lapse before its
\* commit, and an override of a price, which holds acceptance up, is not modelled:
\* neither check is a guard here.
Accept(q) ==
    /\ status[q] \in {"offered", "accepted"}
    /\ req \in {"closed", "dead"} => status[q] = "accepted"
    /\ LatestOf(q) = 0 => Len(versions) < MaxVersions
    /\ status' = [o \in Quotes |-> IF o = q THEN "accepted"
                                   ELSE IF status[o] = "pending" THEN "pending" ELSE "rejected"]
    /\ req' = "closed"
    /\ versions' = IF LatestOf(q) = 0
                     THEN Append(Lose(versions, Losers(q)),
                                 [quote |-> q, price |-> total[q], outcome |-> "accepted"])
                     ELSE Close(Lose(versions, Losers(q)), LatestOf(q), "accepted")
    /\ unversioned' = IF LatestOf(q) = 0 THEN unversioned \ {q} ELSE unversioned
    /\ agreed' = [agreed EXCEPT ![q] = IF @ = NoPrice THEN total[q] ELSE @]
    /\ work' = [w \in Workers |-> IF Busy(w) THEN [work[w] EXCEPT !.early = @ \cup {q}]
                                            ELSE work[w]]
    /\ overlapped' = (overlapped \/ \E w \in Workers : Busy(w))
    /\ UNCHANGED <<total, started, failed, reopened>>

\* _accepted_version_for: the version that record_verified_payment_transaction
\* settles, in the transaction that makes the payment PAID.
SettledVersion(q) ==
    LET of(S) == Highest({n \in VersionsOf(q) : versions[n].outcome \in S}) IN
    IF of({"accepted"}) # 0 THEN of({"accepted"}) ELSE of(Outcomes \ {"superseded"})

\* The client cancels the request; the shop takes it up, or asks a question.  No
\* version moves.
RequestMoves ==
    /\ \/ req # "closed" /\ req' = "dead"
       \/ req \in {"working", "closed"} /\ req' = "working"
    /\ UNCHANGED <<status, total, versions, agreed, started, work, history>>

-----------------------------------------------------------------------------
Next ==
    \/ \E w \in Workers :
         \/ \E q \in Quotes, op \in Ops : StartOnQuote(w, op, q)
         \/ StartRefuse(w)
         \/ \E n \in DOMAIN versions : StartStale(w, n)
         \/ SaveRevision(w) \/ SendToClient(w) \/ SaveRejected(w)
         \/ SaveExpired(w) \/ SaveEnded(w) \/ SaveRefused(w)
         \/ SaveStale(w) \/ SaveRetired(w)
         \/ ReadLatest(w) \/ SaveOutcome(w)
         \/ ReadOpen(w) \/ ReadNumber(w) \/ Insert(w) \/ RecordFails(w)
    \/ \E q \in Quotes : Accept(q)
    \/ RequestMoves

Spec == Init /\ [][Next]_vars

-----------------------------------------------------------------------------
\* However revisions, outcomes and acceptances interleave, the latest version of
\* a quote was not superseded (one without a quote, recorded when a shop rejects
\* a request nobody had answered, counts for every quote): record_quote_version
\* supersedes only what it read before it took its number, and all or none of it
\* is committed.
LatestStands ==
    \A q \in Quotes :
        LET last == Highest(VersionsOf(q) \cup {n \in DOMAIN versions : versions[n].quote = 0})
        IN last # 0 => versions[last].outcome # "superseded"

\* While requests do not overlap, a quote has at most one open version.
OneOpenVersion ==
    ~overlapped =>
        \A m, n \in DOMAIN versions :
            (versions[m].quote = versions[n].quote /\ versions[m].outcome = "open"
              /\ versions[n].outcome = "open") => m = n

\* The latest version is the one in force, and the only open one.
VersionsInOrder == LatestStands /\ OneOpenVersion

\* Whenever the payment of an accepted quote is confirmed, there is a version of
\* it to settle (a version without a quote may have superseded it), at the price
\* the client accepted, unless requests overlapped, a version could not be
\* recorded or the price was changed without one.
SettledAtAgreedPrice ==
    \A q \in Quotes : agreed[q] # NoPrice =>
        LET n == SettledVersion(q) IN
        /\ n # 0 \/ \E m \in DOMAIN versions : versions[m].quote = 0
        /\ (~overlapped /\ ~failed /\ q \notin unversioned) => versions[n].price = agreed[q]

\* The task that takes this step began before quote q was accepted, or is the shop's
\* rejection of the request.
MayMove(w, q) == work'[w] # work[w] /\ (q \in work[w].early \/ work[w].op = "refuse")

\* quotes/snapshots.py:305: a version the client accepted stays ACCEPTED through every
\* revision, resending, rejection and expiry that begins after the acceptance, whatever
\* else is under way.  Only the acceptance of another quote moves it, the shop that
\* rejects the request afterwards, a task that had begun before, and, when such a
\* task has overwritten the quote's status, those that took it for an open offer.
AcceptedVersionStands ==
    [][ \A n \in DOMAIN versions :
          versions[n].outcome = "accepted" /\ versions'[n].outcome # "accepted" =>
             \/ \E q \in Quotes \ {versions[n].quote} : Accept(q)
             \/ \E w \in Workers : MayMove(w, versions[n].quote)
             \/ versions[n].quote \in reopened ]_vars

=============================================================================
