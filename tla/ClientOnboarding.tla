-------------------------- MODULE ClientOnboarding --------------------------
(***************************************************************************)
(* How a client with nothing but a phone number comes to own the requests  *)
(* a manager prepared for them: accounts/services/client_invites.py,       *)
(* clients/services/managed_clients.py and the partner views of            *)
(* api/dashboard_views.py.                                                 *)
(*                                                                         *)
(* The module is about one phone number: every query of the code selects   *)
(* by it.  A manager's call looks for an account of the phone, locks or    *)
(* makes the invite, and writes a request; a client's call claims the      *)
(* invite, makes the account and adopts the requests of the phone.  Both   *)
(* are transactions (READ COMMITTED): a step below is one read, one lock   *)
(* taken or one commit, and what a transaction wrote is seen at its        *)
(* commit.  Sending a quote to the client is no transaction: each of its   *)
(* saves is a commit, and what it saves is the copy it loaded first.       *)
(***************************************************************************)
EXTENDS Naturals, Sequences

CONSTANTS Workers,      \* the server threads that answer requests
          Requests,     \* the ids quote requests can get
          MaxInvites,   \* bound: invite rows for the phone, see Room
          MaxAccounts   \* bound: accounts that carry the phone

ASSUME ConstantsAssumption ==
    /\ MaxInvites \in Nat \ {0}
    /\ MaxAccounts \in Nat \ {0}
    /\ 0 \notin Requests

VARIABLES accounts,   \* the accounts with this phone, in order of id
          invites,    \* the ClientInvite rows of the phone, in order of id
          requests,   \* the QuoteRequest rows
          txn         \* what each worker is in the middle of

vars == <<accounts, invites, requests, txn>>

None     == 0                  \* on_behalf_of is null
Stranger == MaxAccounts + 1    \* a client account with another phone
Owners   == 0 .. MaxAccounts + 1

Account == [role : {"client", "other"}, verified : BOOLEAN]

\* `stale': expires_at has passed.  `late' is a history mark: the row was
\* written by a transaction that was already running when a claim committed.
Invite == [status : {"pending", "claimed", "expired"}, stale : BOOLEAN,
           client : 0 .. MaxAccounts, late : BOOLEAN]

\* "aside": one of the two statuses the linking leaves alone, ACCEPTED (the shop is
\* preparing its quote) and CANCELLED; "open": any other but a draft's.
\* `named': the row carries the phone (customer_phone, pending_client);
\* `pending': the client its snapshot names (pending_client.client_user_id);
\* `token': the snapshot holds an offline claim token.  `skipped' is a history
\* mark: no linking took the row, which was aside when the claim came or was saved
\* as a draft after it.
Row == [status : {"absent", "draft", "open", "aside"}, named : BOOLEAN,
        owner : Owners, pending : Owners, token : BOOLEAN,
        skipped : BOOLEAN, late : BOOLEAN]

NoRow == [status |-> "absent", named |-> FALSE, owner |-> None, pending |-> None,
          token |-> FALSE, skipped |-> FALSE, late |-> FALSE]

\* kind: the call; invite: the row it waits for or holds; seen: the request as the
\* call holds it, NoRow but for what it saves; found: the account of the client;
\* dirty: history, another transaction has since committed to what this one read.
Txn == [kind : {"none", "create", "attach", "send", "invite", "claim"},
        stage : {"idle", "resolve", "want", "wait", "locked", "insert", "write",
                 "contact", "answer", "final"},
        invite : 0 .. MaxInvites, request : Requests \cup {0}, seen : Row,
        found : Owners, dirty : BOOLEAN]

Idle == [kind |-> "none", stage |-> "idle", invite |-> 0, request |-> 0,
         seen |-> NoRow, found |-> None, dirty |-> FALSE]

-----------------------------------------------------------------------------
(* find_account_by_phone orders by -phone_verified_at: PostgreSQL sorts     *)
(* nulls first, so an account that never verified the phone comes first.    *)

WithPhone(v) == {a \in DOMAIN accounts : accounts[a].verified = v}

FindAccountByPhone ==
    LET First(S) == CHOOSE a \in S : \A b \in S : a <= b
    IN  IF WithPhone(FALSE) # {} THEN First(WithPhone(FALSE))
        ELSE IF WithPhone(TRUE) # {} THEN First(WithPhone(TRUE))
        ELSE None

Pending == {i \in DOMAIN invites : invites[i].status = "pending"}

Locked(i) == \E w \in Workers : txn[w].stage = "locked" /\ txn[w].invite = i

Busy(w, kind, stage) == txn[w].kind = kind /\ txn[w].stage = stage

Goto(w, stage) == txn' = [txn EXCEPT ![w].stage = stage]

\* The calls that hold a copy of r: an attach or a send.
Holding(r) == {v \in Workers : r \in Requests /\ txn[v].request = r}

\* The history mark: what the transactions of S read has been written since.
Overtaken(S) == [v \in Workers |-> IF v \in S THEN [txn[v] EXCEPT !.dirty = TRUE] ELSE txn[v]]

\* w, whose commit wrote what those of S had read, goes on with t, or is done.
Continue(w, S, t) == txn' = [Overtaken(S) EXCEPT ![w] = t]

End(w, S) == Continue(w, S, Idle)

Clients == {a \in DOMAIN accounts : accounts[a].role = "client"}

Claimed == {i \in DOMAIN invites : invites[i].status = "claimed"}

SelfRegistered == WithPhone(FALSE) # {}

\* Bound: there is room for another invite, of which an account registered without
\* one takes the place.
Room == Len(invites) + (IF SelfRegistered THEN 1 ELSE 0) < MaxInvites

-----------------------------------------------------------------------------
(* The manager's calls *)

\* A call loads r without a lock; of the copy, it keeps what its saves write back.
Load(r, kind, stage, seen) ==
    [Idle EXCEPT !.kind = kind, !.stage = stage, !.request = r, !.seen = seen]

Attached(row, named) ==
    [NoRow EXCEPT !.named = named, !.owner = row.owner, !.token = row.token]

Sent(row) ==
    [NoRow EXCEPT !.status = IF row.status = "draft" THEN "draft" ELSE "open",
                  !.named = row.named, !.pending = row.pending, !.token = row.token]

\* An attach resolves its client by this phone, or is given one by id or by e-mail
\* (another than the phone's), or by a name alone, with which the row keeps its phone.
BeginAttach(w, r) ==
    /\ requests[r].status = "draft"
    /\ \/ txn' = [txn EXCEPT ![w] =
                     Load(r, "attach", "resolve", Attached(requests[r], TRUE))]
       \/ \E a \in {None, Stranger}, named \in BOOLEAN :
             /\ a = None /\ named => requests[r].named
             /\ txn' = [txn EXCEPT ![w] =
                  [Load(r, "attach", "write", Attached(requests[r], named)) EXCEPT !.found = a]]

\* create_request_for_client, PartnerClientListView.post, and the two views that
\* load a request: PartnerQuoteAttachClientView.patch (drafts only) and
\* PartnerQuoteSendToClientView.post.
Begin(w) ==
    /\ txn[w] = Idle
    /\ \/ \E kind \in {"create", "invite"} :
             txn' = [txn EXCEPT ![w].kind = kind, ![w].stage = "resolve"]
       \/ \E r \in Requests : BeginAttach(w, r)
       \/ \E r \in Requests :
             /\ requests[r].status # "absent"
             /\ txn' = [txn EXCEPT ![w] =
                  Load(r, "send", IF requests[r].owner = None THEN "contact" ELSE "answer",
                       Sent(requests[r]))]
    /\ UNCHANGED <<accounts, invites, requests>>

\* find_account_by_phone: a client is reused and never invited again, any
\* other role is refused, and without an account the invite is wanted.
Resolve(w) ==
    /\ txn[w].stage = "resolve"
    /\ LET a == FindAccountByPhone
       IN  txn' = [txn EXCEPT ![w] =
                     IF a = None THEN [@ EXCEPT !.stage = "want"]
                     ELSE IF accounts[a].role # "client" \/ @.kind = "invite" THEN Idle
                     ELSE [@ EXCEPT !.stage = "write", !.found = a]]
    /\ UNCHANGED <<accounts, invites, requests>>

\* select_for_update().filter(status=PENDING): waits for the row when one is
\* there, otherwise the invite will be a new row.
Want(w) ==
    /\ txn[w].stage = "want"
    /\ IF Pending = {} THEN Goto(w, "insert")
       ELSE \E i \in Pending :
              txn' = [txn EXCEPT ![w].stage = "wait", ![w].invite = i]
    /\ UNCHANGED <<accounts, invites, requests>>

\* The lock is granted; a row that is no longer pending is dropped from the
\* result, and the query may or may not see the row that took its place.
LockInvite(w) ==
    /\ txn[w].kind # "claim" /\ txn[w].stage = "wait"
    /\ ~Locked(txn[w].invite)
    /\ IF txn[w].invite \in Pending THEN Goto(w, "locked")
       ELSE \E stage \in {"insert", "want"} :
              txn' = [txn EXCEPT ![w].stage = stage, ![w].invite = 0]
    /\ UNCHANGED <<accounts, invites, requests>>

\* History: a row that w leaves without an owner is late when w was overtaken.
Marked(row, w) ==
    [row EXCEPT !.late = row.owner = None /\ (@ \/ txn[w].dirty),
                !.skipped = @ /\ row.owner = None]

\* create_request_for_client: a new submitted row.
WriteCreated(w) ==
    \E r \in Requests :
       /\ requests[r].status = "absent"
       /\ requests' = [requests EXCEPT ![r] =
             Marked([NoRow EXCEPT !.status = "open", !.named = TRUE, !.owner = txn[w].found,
                                  !.pending = txn[w].found], w)]

\* Mutant: the account found replaces whatever owner the draft had.
WriteAttachedOver(w) ==
    requests' = [requests EXCEPT ![txn[w].request] =
       Marked([@ EXCEPT !.named = txn[w].seen.named, !.token = txn[w].seen.token,
                        !.pending = txn[w].found, !.owner = txn[w].found], w)]

\* The draft gets its client's phone and account; its token, and the owner it had,
\* are saved as they were read.
WriteAttached(w) ==
    LET seen == txn[w].seen
    IN  requests' = [requests EXCEPT ![txn[w].request] =
           Marked([@ EXCEPT !.named = seen.named, !.token = seen.token,
                            !.pending = txn[w].found,
                            !.owner = IF seen.owner = None THEN txn[w].found ELSE seen.owner], w)]

WriteRequest(w) ==
    CASE txn[w].kind = "create" -> WriteCreated(w)
      [] txn[w].kind = "attach" -> WriteAttached(w)
      [] OTHER                  -> UNCHANGED requests

NewInvite(w) == [status |-> "pending", stale |-> FALSE, client |-> None, late |-> txn[w].dirty]

\* Mutant: a status no invite of this flow has.
ExpiredRevoked(inv) == [inv EXCEPT !.status = "revoked"]

Expired(inv) == [inv EXCEPT !.status = "expired", !.stale = FALSE, !.late = FALSE]

\* The pending row is refreshed (new token, new expiry), or expired when it is
\* stale and replaced by a new one.
CommitLocked(w) ==
    LET i == txn[w].invite IN
    /\ txn[w].kind # "claim" /\ txn[w].stage = "locked"
    /\ IF invites[i].stale
         THEN /\ Room
              /\ invites' = Append([invites EXCEPT ![i] = Expired(@)], NewInvite(w))
         ELSE invites' = [invites EXCEPT ![i].late = @ \/ txn[w].dirty]
    /\ WriteRequest(w)
    /\ End(w, Holding(txn[w].request))
    /\ UNCHANGED accounts

\* A new row; the unique constraint on pending invites refuses it when another
\* transaction inserted one first, and the request is rolled back with it.
CommitInsert(w) ==
    /\ txn[w].stage = "insert"
    /\ IF Pending = {}
         THEN /\ Room
              /\ invites' = Append(invites, NewInvite(w))
              /\ WriteRequest(w)
         ELSE UNCHANGED <<invites, requests>>
    /\ End(w, Holding(txn[w].request))
    /\ UNCHANGED accounts

\* The client needs no invite, and the request is written.
CommitRequest(w) ==
    /\ txn[w].stage = "write"
    /\ WriteRequest(w)
    /\ End(w, Holding(txn[w].request))
    /\ UNCHANGED <<accounts, invites>>

\* create_partner_quote: the quote of the client named by account, or a draft,
\* which keeps the client in its snapshot and looks for no account of the phone.
PartnerQuote(r) ==
    /\ requests[r].status = "absent"
    /\ \E status \in {"draft", "open"}, named \in BOOLEAN, a \in Clients \cup {None, Stranger} :
          /\ status = "draft" \/ a # None
          /\ requests' = [requests EXCEPT ![r] =
                [NoRow EXCEPT !.status = status, !.named = named, !.pending = a,
                              !.owner = IF status = "draft" THEN None ELSE a,
                              !.skipped = status = "draft" /\ named /\ Claimed # {}]]
    /\ UNCHANGED <<accounts, invites, txn>>

-----------------------------------------------------------------------------
(* PartnerQuoteSendToClientView.post *)

\* The first save of a request without an owner: the client its snapshot names
\* becomes the owner, or it is given a token its client can claim it with.
\* Contact and snapshot are saved as they were loaded.
SendContact(w) ==
    LET t == txn[w]
        row == requests[t.request]
        held == [t.seen EXCEPT !.token = t.seen.token \/ t.seen.pending = None]
    IN  /\ t.stage = "contact"
        /\ requests' = [requests EXCEPT ![t.request] =
              Marked([row EXCEPT !.named = held.named, !.pending = held.pending,
                                 !.token = held.token,
                                 !.owner = IF held.pending = None THEN row.owner
                                           ELSE held.pending], w)]
        /\ Continue(w, Holding(t.request), [t EXCEPT !.stage = "answer", !.seen = held])
        /\ UNCHANGED <<accounts, invites>>

\* A pending base quote is sent through update_quote_response, which makes the
\* request quoted whatever its status is; any other base quote is saved alone.
SendAnswer(w) ==
    /\ txn[w].stage = "answer"
    /\ \/ /\ requests' = [requests EXCEPT ![txn[w].request].status = "open"]
          /\ txn' = [txn EXCEPT ![w].stage = "final", ![w].seen.status = "open"]
       \/ Goto(w, "final") /\ UNCHANGED requests
    /\ UNCHANGED <<accounts, invites>>

\* The last save: the snapshot as it is held, and a draft becomes quoted.
SendFinal(w) ==
    LET t == txn[w]
        row == requests[t.request]
    IN  /\ t.stage = "final"
        /\ requests' = [requests EXCEPT ![t.request] =
              Marked([row EXCEPT !.status = IF t.seen.status = "draft" THEN "open" ELSE row.status,
                                 !.named = row.named \/ t.seen.named,
                                 !.pending = t.seen.pending, !.token = t.seen.token], w)]
        /\ End(w, Holding(t.request))
        /\ UNCHANGED <<accounts, invites>>

-----------------------------------------------------------------------------
(* The client's call: claim_client_invite *)

\* The invite is looked up by its token, without a lock; an expired one is
\* marked so and refused.
ClaimLookup(w) ==
    /\ txn[w] = Idle
    /\ \E i \in Pending :
         IF invites[i].stale
           THEN /\ ~Locked(i)
                /\ invites' = [invites EXCEPT ![i] = Expired(@)]
                /\ UNCHANGED txn
           ELSE /\ txn' = [txn EXCEPT ![w].kind = "claim", ![w].stage = "wait",
                                      ![w].invite = i]
                /\ UNCHANGED invites
    /\ UNCHANGED <<accounts, requests>>

\* Mutant: the invite is taken as it was looked up, without its lock.
ClaimLockUnchecked(w) ==
    /\ Busy(w, "claim", "wait")
    /\ IF FindAccountByPhone = None THEN Goto(w, "locked")
       ELSE txn' = [txn EXCEPT ![w] = Idle]
    /\ UNCHANGED <<accounts, invites, requests>>

\* Under the lock the invite and the phone are checked again.
ClaimLock(w) ==
    LET i == txn[w].invite IN
    /\ Busy(w, "claim", "wait")
    /\ ~Locked(i)
    /\ IF i \in Pending /\ ~invites[i].stale /\ FindAccountByPhone = None
         THEN Goto(w, "locked")
         ELSE txn' = [txn EXCEPT ![w] = Idle]
    /\ UNCHANGED <<accounts, invites, requests>>

\* Mutant: only requests that were sent are adopted, drafts are forgotten.
AdoptedSent(r) ==
    /\ requests[r].named /\ requests[r].owner = None
    /\ requests[r].status = "open"

\* link_pending_quotes_for_client: the rows of the phone nobody owns, but for the
\* statuses it takes for settled.
Adopted(r) ==
    /\ requests[r].named /\ requests[r].owner = None
    /\ requests[r].status # "aside"

SetAside(r) ==
    /\ requests[r].named /\ requests[r].owner = None
    /\ requests[r].status = "aside"

\* The account, the claimed invite and the adopted requests in one commit.
ClaimCommit(w) ==
    /\ Busy(w, "claim", "locked")
    /\ Len(accounts) < MaxAccounts
    /\ accounts' = Append(accounts, [role |-> "client", verified |-> TRUE])
    /\ invites' = [invites EXCEPT ![txn[w].invite] =
                     [@ EXCEPT !.status = "claimed", !.client = Len(accounts'), !.late = FALSE]]
    /\ requests' = [r \in Requests |->
                      IF Adopted(r) THEN Marked([requests[r] EXCEPT !.owner = Len(accounts')], w)
                      ELSE [requests[r] EXCEPT !.skipped = SetAside(r)]]
    /\ End(w, {v \in Workers : txn[v].stage # "idle"})

\* A worker dies, its database refuses or its view answers an error: the
\* transaction is rolled back, and of a send the saves already made stay.
Abort(w) ==
    /\ txn[w].stage # "idle"
    /\ txn' = [txn EXCEPT ![w] = Idle]
    /\ UNCHANGED <<accounts, invites, requests>>

-----------------------------------------------------------------------------
(* Everybody else *)

\* UserCreateSerializer.create: an account carries the phone, unverified; bound: one.
Register ==
    /\ Len(accounts) < MaxAccounts
    /\ ~SelfRegistered /\ Room
    /\ \E role \in {"client", "other"} :
          accounts' = Append(accounts, [role |-> role, verified |-> FALSE])
    /\ UNCHANGED <<invites, requests, txn>>

\* OfflineQuoteClaimView: whichever client shows the token owns the request.
OfflineClaim(r) ==
    /\ requests[r].token /\ requests[r].owner = None
    /\ requests' = [requests EXCEPT ![r] =
          [@ EXCEPT !.owner = Stranger, !.pending = Stranger, !.skipped = FALSE, !.late = FALSE]]
    /\ txn' = Overtaken(Holding(r))
    /\ UNCHANGED <<accounts, invites>>

\* The shop says it prepares a quote (accept_request), asks, quotes or rejects
\* (the status becomes one of the open ones), or the client cancels.  Each view
\* checks the status it loaded, without a lock, and saves the status alone: by
\* the time of the save the row may have any.
SetStatus(r) ==
    /\ requests[r].status # "absent"
    /\ \E status \in {"open", "aside"} :
          requests' = [requests EXCEPT ![r].status = status]
    /\ UNCHANGED <<accounts, invites, txn>>

\* expires_at passes; bound: only of an invite that could be replaced.
Age(i) ==
    /\ i \in Pending /\ ~invites[i].stale /\ Room
    /\ invites' = [invites EXCEPT ![i].stale = TRUE]
    /\ UNCHANGED <<accounts, requests, txn>>

-----------------------------------------------------------------------------
Init ==
    /\ accounts = <<>>
    /\ invites = <<>>
    /\ requests = [r \in Requests |-> NoRow]
    /\ txn = [w \in Workers |-> Idle]

ManagerStep(w) ==
    \/ Begin(w) \/ Resolve(w) \/ Want(w) \/ LockInvite(w)
    \/ CommitLocked(w) \/ CommitInsert(w) \/ CommitRequest(w)
    \/ SendContact(w) \/ SendAnswer(w) \/ SendFinal(w)

ClaimStep(w) == ClaimLookup(w) \/ ClaimLock(w) \/ ClaimCommit(w)

Next ==
    \/ \E w \in Workers : ManagerStep(w) \/ ClaimStep(w) \/ Abort(w)
    \/ \E r \in Requests : PartnerQuote(r) \/ OfflineClaim(r) \/ SetStatus(r)
    \/ \E i \in DOMAIN invites : Age(i)
    \/ Register

Spec == Init /\ [][Next]_vars

-----------------------------------------------------------------------------
(* Properties *)

TypeOK ==
    /\ accounts \in Seq(Account) /\ Len(accounts) <= MaxAccounts
    /\ invites \in Seq(Invite) /\ Len(invites) <= MaxInvites
    /\ requests \in [Requests -> Row]
    /\ txn \in [Workers -> Txn]

\* However many managers invite one phone and however often a client follows
\* the link, one invite is open at a time, at most one is ever claimed, and it
\* is the one whose account verified the phone.
OneWayIn ==
    /\ \A i, j \in Pending : i = j
    /\ \A i, j \in Claimed : i = j
    /\ \A i \in Claimed : invites[i].client \in WithPhone(TRUE)
    /\ \A a \in WithPhone(TRUE) : \E i \in Claimed : invites[i].client = a

\* An invite is never open for a phone that already has its account, unless the
\* manager's call began before the claim or the client registered on their own.
NoInviteForAClient ==
    \A i \in Pending : invites[i].late \/ SelfRegistered \/ accounts = <<>>

\* The invites of a phone end in one account, and then stop.
InvitesEndOnce == OneWayIn /\ NoInviteForAClient

\* Once the client claimed, every request that carries the phone has an owner:
\* the claim adopts what was there and later calls find the account.  Only a row
\* the linking passed over (the shop was preparing its quote, it was cancelled,
\* or it was saved as a draft after the claim), a call that overlapped the claim
\* or a second account of the phone can leave a request nobody owns.
ClientOwnsTheirRequests ==
    \A r \in Requests :
       Claimed # {} /\ ~SelfRegistered /\ requests[r].named
       => requests[r].owner # None \/ requests[r].skipped \/ requests[r].late

\* An attach of a client without the phone.
Moves(t) == t.kind = "attach" /\ ~t.seen.named

\* A request never loses its owner, the phone of its client or the token the
\* client was sent, except to an attach or a send that read it before it gained
\* them; and only an attach of a client with another phone may take the phone.
RequestKeepsItsClient ==
    [][\A r \in Requests :
         \/ /\ requests[r].owner # None => requests'[r].owner = requests[r].owner
            /\ requests[r].token => requests'[r].token
            /\ requests[r].named => \/ requests'[r].named
                                    \/ \E w \in Holding(r) : Moves(txn[w]) /\ txn'[w] = Idle
         \/ \E w \in Holding(r) : txn[w].dirty /\ txn'[w] # txn[w]]_vars
=============================================================================
