----------------------- MODULE ClientOnboardingProofs -----------------------
(***************************************************************************)
(* Theorems about ClientOnboarding, for any number of workers, requests,   *)
(* invites and accounts.                                                   *)
(***************************************************************************)
EXTENDS ClientOnboarding, WellFoundedInduction, SequenceTheorems, TLAPS

-----------------------------------------------------------------------------
(***************************************************************************)
(* The invariant says of every transaction t under way: the row it waits   *)
(* for exists and the one it locked is the pending invite; a claim that    *)
(* holds the lock is the first; a manager's call that still wants an       *)
(* invite of a phone with an account was overtaken by a claim; and what it *)
(* read of its request is still so unless it was overtaken.                *)
(***************************************************************************)

\* Which calls take which steps, and with what.
StageFits(t) ==
    /\ t.stage = "idle" => t = Idle
    /\ t.kind = "none" => t.stage = "idle"
    /\ t.kind = "claim" => t.stage \in {"wait", "locked"}
    /\ t.stage = "write" => t.kind \in {"create", "attach"}
    /\ Moves(t) => t.stage = "write"
    /\ t.kind = "send" <=> t.stage \in {"contact", "answer", "final"}
    /\ t.kind \in {"attach", "send"} => t.request \in Requests
    /\ t.request \in Requests => requests[t.request].status # "absent"
    /\ t.kind = "create" /\ t.stage = "write" => t.found # None

LockFits(t) ==
    /\ t.stage \in {"wait", "locked"} => t.invite \in DOMAIN invites
    /\ t.stage = "locked" => t.invite \in Pending

ClaimIsFirst(t) ==
    t.kind = "claim" /\ t.stage = "locked" => Claimed = {} /\ WithPhone(TRUE) = {}

WantIsOvertaken(t) ==
    t.stage \in {"want", "wait", "locked", "insert"} /\ t.kind # "claim" =>
        t.dirty \/ SelfRegistered \/ accounts = <<>>

ReadHolds(t) ==
    t.request \in Requests /\ ~t.dirty =>
        LET row == requests[t.request] IN
        /\ row.token = t.seen.token
        /\ t.kind = "attach" => row.owner = t.seen.owner
        /\ t.kind = "attach" /\ t.stage = "write" =>
              t.found # None \/ (t.seen.named => row.named)
        /\ t.kind = "send" => row.named = t.seen.named /\ row.pending = t.seen.pending
        /\ t.stage = "contact" => row.owner = None

Fits(t) == StageFits(t) /\ LockFits(t) /\ ClaimIsFirst(t) /\ WantIsOvertaken(t) /\ ReadHolds(t)

TxnsFit == \A w \in Workers : Fits(txn[w])

OneHolder ==
    \A v, w \in Workers : txn[v].stage = "locked" /\ txn[w].stage = "locked" => v = w

\* A row nobody wrote yet names no client.
AbsentIsNothing ==
    \A r \in Requests : requests[r].status = "absent" =>
        ~requests[r].named /\ ~requests[r].token /\ requests[r].owner = None

IInv == /\ TypeOK /\ TxnsFit /\ OneHolder /\ AbsentIsNothing
        /\ OneWayIn /\ NoInviteForAClient /\ ClientOwnsTheirRequests

-----------------------------------------------------------------------------
(* What the helpers return *)

LEMMA LeastNumber ==
    ASSUME NEW T \in SUBSET Nat, T # {}
    PROVE  \E x \in T : \A y \in T : x <= y
<1> DEFINE Less == {ss \in Nat \X Nat : ss[1] < ss[2]}
<1>1. IsWellFoundedOn(Less, Nat)
  BY NatLessThanWellFounded DEF OpToRel
<1>2. \E x \in T : \A y \in T : <<y, x>> \notin Less
  <2> HIDE DEF Less
  <2> QED BY <1>1, WFMin
<1>3. \A x, y \in T : <<y, x>> \notin Less => x <= y
  OBVIOUS
<1> QED BY <1>2, <1>3

LEMMA RowsNumbered ==
    ASSUME NEW S, NEW s \in Seq(S)
    PROVE  /\ DOMAIN s \in SUBSET (Nat \ {0})
           /\ \A i \in DOMAIN s : s[i] \in S
           /\ DOMAIN s = {} <=> s = <<>>
           /\ Len(s) \in Nat /\ DOMAIN s = 1 .. Len(s)
<1>1. Len(s) \in Nat /\ s \in [1 .. Len(s) -> S] /\ DOMAIN s = 1 .. Len(s)
  BY LenProperties
<1>2. s # <<>> => Len(s) \in Nat \ {0}
  BY EmptySeq
<1>3. s = <<>> => Len(s) = 0
  BY EmptySeq
<1>4. DOMAIN s = {} <=> Len(s) = 0
  <2>1. \A n \in Nat : n # 0 => 1 \in 1 .. n
    OBVIOUS
  <2>2. 1 .. 0 = {}
    OBVIOUS
  <2> QED BY <1>1, <2>1, <2>2
<1>5. \A i \in DOMAIN s : s[i] \in S
  BY <1>1
<1> QED BY <1>1, <1>2, <1>3, <1>4, <1>5

LEMMA RowsAppended ==
    ASSUME NEW S, NEW s \in Seq(S), NEW e \in S
    PROVE  /\ Append(s, e) \in Seq(S) /\ Len(Append(s, e)) = Len(s) + 1
           /\ DOMAIN Append(s, e) = DOMAIN s \cup {Len(s) + 1}
           /\ Len(s) + 1 \notin DOMAIN s
           /\ Append(s, e)[Len(s) + 1] = e
           /\ \A i \in DOMAIN s : Append(s, e)[i] = s[i]
<1>1. Append(s, e) \in Seq(S) /\ Len(Append(s, e)) = Len(s) + 1
      /\ Append(s, e)[Len(s) + 1] = e
      /\ \A i \in 1 .. Len(s) : Append(s, e)[i] = s[i]
  BY AppendProperties
<1>2. DOMAIN Append(s, e) = 1 .. Len(s) + 1 /\ DOMAIN s = 1 .. Len(s) /\ Len(s) \in Nat
  BY <1>1, RowsNumbered
<1> QED BY <1>1, <1>2

LEMMA RowChanged ==
    ASSUME NEW S, NEW s \in Seq(S), NEW i \in DOMAIN s, NEW e \in S
    PROVE  /\ [s EXCEPT ![i] = e] \in Seq(S) /\ Len([s EXCEPT ![i] = e]) = Len(s)
           /\ DOMAIN [s EXCEPT ![i] = e] = DOMAIN s
           /\ \A j \in DOMAIN s : [s EXCEPT ![i] = e][j] = IF j = i THEN e ELSE s[j]
BY RowsNumbered, ExceptSeq

\* The account a phone resolves to exists, and there is one as soon as any
\* account carries the phone.
LEMMA FindsAnAccount ==
    ASSUME accounts \in Seq(Account)
    PROVE  /\ FindAccountByPhone = None <=> accounts = <<>>
           /\ FindAccountByPhone # None => FindAccountByPhone \in DOMAIN accounts
<1> DEFINE First(S) == CHOOSE a \in S : \A b \in S : a <= b
<1>1. ASSUME NEW S \in SUBSET DOMAIN accounts, S # {}
      PROVE  First(S) \in S
  <2>1. S \in SUBSET Nat
    BY RowsNumbered
  <2>2. \E a \in S : \A b \in S : a <= b
    BY <2>1, <1>1, LeastNumber
  <2> QED BY <2>2
<1>2. WithPhone(TRUE) \subseteq DOMAIN accounts /\ WithPhone(FALSE) \subseteq DOMAIN accounts
  BY DEF WithPhone
<1>3. DOMAIN accounts = WithPhone(TRUE) \cup WithPhone(FALSE)
  <2>1. \A a \in DOMAIN accounts : accounts[a] \in Account
    BY RowsNumbered
  <2>2. \A a \in DOMAIN accounts : accounts[a].verified \in BOOLEAN
    BY <2>1 DEF Account
  <2> QED BY <2>2 DEF WithPhone
<1>4. FindAccountByPhone = IF WithPhone(FALSE) # {} THEN First(WithPhone(FALSE))
                           ELSE IF WithPhone(TRUE) # {} THEN First(WithPhone(TRUE)) ELSE None
  BY DEF FindAccountByPhone
<1>5. 0 \notin DOMAIN accounts /\ (DOMAIN accounts = {} <=> accounts = <<>>)
  BY RowsNumbered
<1> HIDE DEF First
<1> QED BY <1>1, <1>2, <1>3, <1>4, <1>5 DEF None

LEMMA IdleFits == Idle \in Txn /\ Fits(Idle)
<1>1. NoRow \in Row
  BY ConstantsAssumption DEF Row, NoRow, Owners, None
<1>2. Idle \in Txn
  BY <1>1, ConstantsAssumption DEF Idle, Txn, None, Owners
<1>3. Fits(Idle)
  BY ConstantsAssumption
     DEF Fits, StageFits, Moves, LockFits, ClaimIsFirst, WantIsOvertaken, ReadHolds, Idle
<1> QED BY <1>2, <1>3

-----------------------------------------------------------------------------
(* Steps that only move a call *)

LEMMA FitsOfTheSameRows ==
    ASSUME UNCHANGED <<accounts, invites, requests>>, NEW t, Fits(t)
    PROVE  Fits(t)'
BY DEF Fits, StageFits, Moves, LockFits, ClaimIsFirst, WantIsOvertaken, ReadHolds, Pending, Claimed,
       WithPhone, SelfRegistered, Idle, NoRow, None

LEMMA CallMoves ==
    ASSUME IInv, UNCHANGED <<accounts, invites, requests>>,
           NEW w \in Workers, NEW t \in Txn, txn' = [txn EXCEPT ![w] = t], Fits(t),
           t.stage = "locked" => \A v \in Workers : txn[v].stage # "locked"
    PROVE  IInv'
<1>1. TypeOK'
  BY DEF IInv, TypeOK, Owners
<1>2. \A v \in Workers : txn'[v] = IF v = w THEN t ELSE txn[v]
  BY DEF IInv, TypeOK
<1>3. TxnsFit'
  BY <1>2, FitsOfTheSameRows DEF IInv, TxnsFit
<1>4. OneHolder'
  BY <1>2 DEF IInv, OneHolder
<1>5. (OneWayIn /\ NoInviteForAClient /\ ClientOwnsTheirRequests /\ AbsentIsNothing)'
  BY DEF IInv, OneWayIn, NoInviteForAClient, ClientOwnsTheirRequests, AbsentIsNothing, Pending,
         Claimed, WithPhone, SelfRegistered, None
<1> QED BY <1>1, <1>3, <1>4, <1>5 DEF IInv

LEMMA RowsRead ==
    ASSUME NEW row \in Row
    PROVE  /\ \A named \in BOOLEAN :
                 /\ Attached(row, named) \in Row /\ Attached(row, named).owner = row.owner
                 /\ Attached(row, named).token = row.token /\ Attached(row, named).named = named
           /\ Sent(row) \in Row /\ Sent(row).named = row.named
           /\ Sent(row).pending = row.pending /\ Sent(row).token = row.token
BY IdleFits DEF Attached, Sent, Row, NoRow, Idle, Txn

\* A call that has just loaded its request.
LEMMA LoadedCall ==
    ASSUME NEW r \in Requests, NEW seen \in Row, NEW kind \in {"attach", "send"},
           NEW stage \in {"resolve", "write", "contact", "answer"}
    PROVE  LET t == Load(r, kind, stage, seen) IN
           /\ t \in Txn /\ t.kind = kind /\ t.stage = stage /\ t.request = r
           /\ ~t.dirty /\ t.seen = seen
<1>1. Idle \in Txn /\ ~Idle.dirty
  BY IdleFits DEF Idle
<1> QED BY <1>1 DEF Load, Txn

LEMMA FoundCall ==
    ASSUME NEW l \in Txn, NEW a \in Owners
    PROVE  LET t == [l EXCEPT !.found = a] IN
           /\ t \in Txn /\ t.kind = l.kind /\ t.stage = l.stage /\ t.request = l.request
           /\ t.dirty = l.dirty /\ t.seen = l.seen /\ t.found = a
BY DEF Txn

LEMMA LoadMoves ==
    ASSUME IInv, UNCHANGED <<accounts, invites, requests>>,
           NEW w \in Workers, NEW t \in Txn, txn' = [txn EXCEPT ![w] = t],
           t.request \in Requests, requests[t.request].status # "absent", ~t.dirty,
           t.kind \in {"attach", "send"},
           t.stage \in {"resolve", "write", "contact", "answer"},
           Moves(t) => t.stage = "write",
           t.stage = "write" => t.found # None \/ (t.seen.named => requests[t.request].named),
           t.kind = "send" <=> t.stage \in {"contact", "answer"},
           requests[t.request].token = t.seen.token,
           t.kind = "attach" => requests[t.request].owner = t.seen.owner,
           t.kind = "send" => /\ requests[t.request].named = t.seen.named
                              /\ requests[t.request].pending = t.seen.pending,
           t.stage = "contact" => requests[t.request].owner = None
    PROVE  IInv'
<1>1. ReadHolds(t)
  BY DEF ReadHolds
<1>2. StageFits(t)
  BY DEF StageFits, Moves
<1>3. LockFits(t) /\ ClaimIsFirst(t) /\ WantIsOvertaken(t) /\ t.stage # "locked"
  BY DEF LockFits, ClaimIsFirst, WantIsOvertaken
<1> QED BY <1>1, <1>2, <1>3, CallMoves DEF Fits

LEMMA BeginMoves ==
    ASSUME IInv, NEW w \in Workers, Begin(w)
    PROVE  IInv'
<1>1. txn[w] = Idle /\ UNCHANGED <<accounts, invites, requests>>
  BY DEF Begin
<1>2. txn \in [Workers -> Txn] /\ requests \in [Requests -> Row]
  BY DEF IInv, TypeOK
<1>3. ASSUME NEW kind \in {"create", "invite"},
             txn' = [txn EXCEPT ![w].kind = kind, ![w].stage = "resolve"]
      PROVE  IInv'
  <2> DEFINE t == [Idle EXCEPT !.kind = kind, !.stage = "resolve"]
  <2>1. txn' = [txn EXCEPT ![w] = t]
    BY <1>1, <1>2, <1>3
  <2>2. t \in Txn
    BY IdleFits, <1>3 DEF Idle, Txn
  <2>3. Fits(t) /\ t.stage # "locked"
    BY <1>3, ConstantsAssumption
       DEF Fits, StageFits, Moves, LockFits, ClaimIsFirst, WantIsOvertaken, ReadHolds, Idle
  <2> QED BY <1>1, <2>1, <2>2, <2>3, CallMoves
<1>4. None \in Owners /\ Stranger \in Owners
  BY ConstantsAssumption DEF Owners, Stranger, None
<1>5. ASSUME NEW r \in Requests, requests[r].status = "draft",
             txn' = [txn EXCEPT ![w] = Load(r, "attach", "resolve", Attached(requests[r], TRUE))]
      PROVE  IInv'
  <2>1. PICK seen : seen = Attached(requests[r], TRUE)
    OBVIOUS
  <2>2. /\ seen \in Row /\ seen.owner = requests[r].owner /\ seen.token = requests[r].token
        /\ seen.named
    BY <1>2, <2>1, RowsRead
  <2>3. PICK t : t = Load(r, "attach", "resolve", seen)
    OBVIOUS
  <2>4. /\ t \in Txn /\ t.kind = "attach" /\ t.stage = "resolve" /\ t.request = r
        /\ ~t.dirty /\ t.seen = seen
    BY <2>2, <2>3, LoadedCall
  <2>5. txn' = [txn EXCEPT ![w] = t]
    BY <1>5, <2>1, <2>3
  <2> QED BY <1>1, <1>5, <2>2, <2>4, <2>5, LoadMoves DEF Moves
<1>6. ASSUME NEW r \in Requests, requests[r].status = "draft", NEW a \in {None, Stranger},
             NEW named \in BOOLEAN, a = None /\ named => requests[r].named,
             txn' = [txn EXCEPT ![w] =
               [Load(r, "attach", "write", Attached(requests[r], named)) EXCEPT !.found = a]]
      PROVE  IInv'
  <2>1. PICK seen : seen = Attached(requests[r], named)
    OBVIOUS
  <2>2. /\ seen \in Row /\ seen.owner = requests[r].owner /\ seen.token = requests[r].token
        /\ seen.named = named
    BY <1>2, <2>1, RowsRead
  <2>3. PICK l, t : l = Load(r, "attach", "write", seen) /\ t = [l EXCEPT !.found = a]
    OBVIOUS
  <2>4. /\ l \in Txn /\ l.kind = "attach" /\ l.stage = "write" /\ l.request = r
        /\ ~l.dirty /\ l.seen = seen
    BY <2>2, <2>3, LoadedCall
  <2>5. /\ t \in Txn /\ t.kind = "attach" /\ t.stage = "write" /\ t.request = r
        /\ ~t.dirty /\ t.seen = seen /\ t.found = a
    BY <1>4, <2>3, <2>4, FoundCall
  <2>6. txn' = [txn EXCEPT ![w] = t]
    BY <1>6, <2>1, <2>3
  <2> QED BY <1>1, <1>6, <2>2, <2>5, <2>6, LoadMoves
<1>7. ASSUME NEW r \in Requests, requests[r].status # "absent",
             txn' = [txn EXCEPT ![w] =
                       Load(r, "send", IF requests[r].owner = None THEN "contact" ELSE "answer",
                            Sent(requests[r]))]
       PROVE  IInv'
  <2>1. PICK seen : seen = Sent(requests[r])
    OBVIOUS
  <2>2. /\ seen \in Row /\ seen.named = requests[r].named
        /\ seen.pending = requests[r].pending /\ seen.token = requests[r].token
    BY <1>2, <2>1, RowsRead
  <2>3. PICK stage \in {"contact", "answer"} :
           stage = IF requests[r].owner = None THEN "contact" ELSE "answer"
    OBVIOUS
  <2>4. PICK t : t = Load(r, "send", stage, seen)
    OBVIOUS
  <2>5. /\ t \in Txn /\ t.kind = "send" /\ t.stage = stage /\ t.request = r
        /\ ~t.dirty /\ t.seen = seen
    BY <2>2, <2>3, <2>4, LoadedCall
  <2>6. txn' = [txn EXCEPT ![w] = t]
    BY <1>7, <2>1, <2>3, <2>4
  <2>7. ~Moves(t)
    BY <2>5 DEF Moves
  <2> QED BY <1>1, <1>7, <2>2, <2>3, <2>5, <2>6, <2>7, LoadMoves
<1> QED BY <1>3, <1>5, <1>6, <1>7 DEF Begin, BeginAttach

LEMMA ResolveMoves ==
    ASSUME IInv, NEW w \in Workers, Resolve(w)
    PROVE  IInv'
<1> DEFINE a == FindAccountByPhone
<1>1. txn[w].stage = "resolve" /\ UNCHANGED <<accounts, invites, requests>>
  BY DEF Resolve
<1>2. txn[w] \in Txn /\ Fits(txn[w]) /\ Len(accounts) <= MaxAccounts /\ accounts \in Seq(Account)
  BY DEF IInv, TypeOK, TxnsFit
<1>3. (a = None <=> accounts = <<>>) /\ a \in Owners
  BY <1>2, FindsAnAccount, RowsNumbered, ConstantsAssumption DEF None, Owners
<1> HIDE DEF a
<1>4. CASE a = None
  <2> DEFINE t == [txn[w] EXCEPT !.stage = "want"]
  <2>1. txn' = [txn EXCEPT ![w] = t]
    BY <1>4 DEF Resolve, a
  <2>2. t \in Txn
    BY <1>2 DEF Txn
  <2>3. Fits(t) /\ t.stage # "locked"
    BY <1>1, <1>2, <1>3, <1>4
       DEF Fits, StageFits, Moves, LockFits, ClaimIsFirst, WantIsOvertaken, ReadHolds, Txn
  <2> QED BY <1>1, <2>1, <2>2, <2>3, CallMoves
<1>5. CASE a # None /\ (accounts[a].role # "client" \/ txn[w].kind = "invite")
  <2>1. txn' = [txn EXCEPT ![w] = Idle]
    BY <1>5 DEF Resolve, a
  <2> QED BY <1>1, <2>1, IdleFits, CallMoves DEF Idle
<1>6. CASE a # None /\ accounts[a].role = "client" /\ txn[w].kind # "invite"
  <2> DEFINE t == [txn[w] EXCEPT !.stage = "write", !.found = a]
  <2>1. txn' = [txn EXCEPT ![w] = t]
    BY <1>6 DEF Resolve, a
  <2>2. t \in Txn
    BY <1>2, <1>3 DEF Txn
  <2>3. Fits(t) /\ t.stage # "locked"
    BY <1>1, <1>2, <1>6
       DEF Fits, StageFits, Moves, LockFits, ClaimIsFirst, WantIsOvertaken, ReadHolds, Txn
  <2> QED BY <1>1, <2>1, <2>2, <2>3, CallMoves
<1> QED BY <1>4, <1>5, <1>6

LEMMA WantMoves ==
    ASSUME IInv, NEW w \in Workers, Want(w)
    PROVE  IInv'
<1>1. txn[w].stage = "want" /\ UNCHANGED <<accounts, invites, requests>>
  BY DEF Want
<1>2. txn[w] \in Txn /\ Fits(txn[w]) /\ Len(invites) <= MaxInvites /\ invites \in Seq(Invite)
  BY DEF IInv, TypeOK, TxnsFit
<1>3. CASE Pending = {}
  <2> DEFINE t == [txn[w] EXCEPT !.stage = "insert"]
  <2>1. txn' = [txn EXCEPT ![w] = t]
    BY <1>3 DEF Want, Goto
  <2>2. t \in Txn
    BY <1>2 DEF Txn
  <2>3. Fits(t) /\ t.stage # "locked"
    BY <1>1, <1>2
       DEF Fits, StageFits, Moves, LockFits, ClaimIsFirst, WantIsOvertaken, ReadHolds, Txn
  <2> QED BY <1>1, <2>1, <2>2, <2>3, CallMoves
<1>4. CASE Pending # {}
  <2> PICK i \in Pending : txn' = [txn EXCEPT ![w].stage = "wait", ![w].invite = i]
    BY <1>4 DEF Want
  <2> DEFINE t == [txn[w] EXCEPT !.stage = "wait", !.invite = i]
  <2>1. txn' = [txn EXCEPT ![w] = t]
    BY DEF IInv, TypeOK
  <2>2. i \in DOMAIN invites /\ i \in 0 .. MaxInvites
    BY <1>2, RowsNumbered, ConstantsAssumption DEF Pending
  <2>3. t \in Txn
    BY <1>2, <2>2 DEF Txn
  <2>4. Fits(t) /\ t.stage # "locked"
    BY <1>1, <1>2, <2>2
       DEF Fits, StageFits, Moves, LockFits, ClaimIsFirst, WantIsOvertaken, ReadHolds, Txn
  <2> QED BY <1>1, <2>1, <2>3, <2>4, CallMoves
<1> QED BY <1>3, <1>4

\* The one pending invite is free: nobody holds a lock.
LEMMA FreeForAll ==
    ASSUME IInv, NEW i \in Pending, ~Locked(i)
    PROVE  \A v \in Workers : txn[v].stage # "locked"
BY DEF IInv, TxnsFit, Fits, LockFits, OneWayIn, Locked

LEMMA LockMoves ==
    ASSUME IInv, NEW w \in Workers, LockInvite(w)
    PROVE  IInv'
<1>1. /\ txn[w].kind # "claim" /\ txn[w].stage = "wait" /\ ~Locked(txn[w].invite)
      /\ UNCHANGED <<accounts, invites, requests>>
  BY DEF LockInvite
<1>2. txn[w] \in Txn /\ Fits(txn[w])
  BY DEF IInv, TypeOK, TxnsFit
<1>3. PICK stage \in {"locked", "insert", "want"}, i \in {0, txn[w].invite} :
        /\ txn' = [txn EXCEPT ![w].stage = stage, ![w].invite = i]
        /\ stage = "locked" => i = txn[w].invite /\ i \in Pending
  <2>1. CASE txn[w].invite \in Pending
    <3>1. txn' = [txn EXCEPT ![w].stage = "locked", ![w].invite = txn[w].invite]
      BY <2>1 DEF LockInvite, Goto, IInv, TypeOK, Txn
    <3> QED BY <2>1, <3>1
  <2>2. CASE txn[w].invite \notin Pending
    BY <2>2 DEF LockInvite
  <2> QED BY <2>1, <2>2
<1> DEFINE t == [txn[w] EXCEPT !.stage = stage, !.invite = i]
<1>4. txn' = [txn EXCEPT ![w] = t]
  BY <1>3
<1>5. t \in Txn
  <2>1. i \in 0 .. MaxInvites
    BY <1>2, ConstantsAssumption DEF Txn
  <2> HIDE DEF t
  <2> QED BY <1>2, <2>1 DEF t, Txn
<1>6. Fits(t)
  BY <1>1, <1>2, <1>3
     DEF Fits, StageFits, Moves, LockFits, ClaimIsFirst, WantIsOvertaken, ReadHolds, Txn
<1>7. t.stage = "locked" => \A v \in Workers : txn[v].stage # "locked"
  BY <1>1, <1>2, <1>3, FreeForAll DEF Txn
<1> QED BY <1>1, <1>4, <1>5, <1>6, <1>7, CallMoves

LEMMA ClaimLockMoves ==
    ASSUME IInv, NEW w \in Workers, ClaimLock(w)
    PROVE  IInv'
<1> DEFINE i == txn[w].invite
<1>1. /\ Busy(w, "claim", "wait") /\ ~Locked(i)
      /\ UNCHANGED <<accounts, invites, requests>>
  BY DEF ClaimLock
<1>2. txn[w] \in Txn /\ Fits(txn[w]) /\ accounts \in Seq(Account)
  BY DEF IInv, TypeOK, TxnsFit
<1>3. CASE i \in Pending /\ ~invites[i].stale /\ FindAccountByPhone = None
  <2> DEFINE t == [txn[w] EXCEPT !.stage = "locked"]
  <2>1. txn' = [txn EXCEPT ![w] = t]
    BY <1>3 DEF ClaimLock, Goto
  <2>2. t \in Txn
    BY <1>2 DEF Txn
  <2>3. WithPhone(TRUE) = {} /\ Claimed = {}
    <3>1. accounts = <<>>
      BY <1>2, <1>3, FindsAnAccount
    <3>2. DOMAIN accounts = {}
      BY <1>2, <3>1, RowsNumbered
    <3> QED BY <3>2 DEF WithPhone, IInv, OneWayIn
  <2>4. Fits(t)
    BY <1>1, <1>2, <1>3, <2>3
       DEF Fits, StageFits, Moves, LockFits, ClaimIsFirst, WantIsOvertaken, ReadHolds, Txn, Busy
  <2>5. \A v \in Workers : txn[v].stage # "locked"
    BY <1>1, <1>3, FreeForAll
  <2> QED BY <1>1, <2>1, <2>2, <2>4, <2>5, CallMoves
<1>4. CASE ~(i \in Pending /\ ~invites[i].stale /\ FindAccountByPhone = None)
  <2>1. txn' = [txn EXCEPT ![w] = Idle]
    BY <1>4 DEF ClaimLock
  <2> QED BY <1>1, <2>1, IdleFits, CallMoves DEF Idle
<1> QED BY <1>3, <1>4

LEMMA AbortMoves ==
    ASSUME IInv, NEW w \in Workers, Abort(w)
    PROVE  IInv'
BY IdleFits, CallMoves DEF Abort, Idle

-----------------------------------------------------------------------------
(* Steps that change an invite or an account *)

LEMMA ClaimLookupMoves ==
    ASSUME IInv, NEW w \in Workers, ClaimLookup(w)
    PROVE  IInv'
<1>1. PICK i \in Pending :
        IF invites[i].stale
          THEN ~Locked(i) /\ invites' = [invites EXCEPT ![i] = Expired(@)] /\ UNCHANGED txn
          ELSE txn' = [txn EXCEPT ![w].kind = "claim", ![w].stage = "wait", ![w].invite = i]
               /\ UNCHANGED invites
  BY DEF ClaimLookup
<1>2. txn[w] = Idle /\ UNCHANGED <<accounts, requests>>
  BY DEF ClaimLookup
<1>3. /\ invites \in Seq(Invite) /\ Len(invites) <= MaxInvites /\ txn \in [Workers -> Txn]
      /\ i \in DOMAIN invites
  BY DEF IInv, TypeOK, Pending
<1>4. CASE ~invites[i].stale
  <2> DEFINE t == [Idle EXCEPT !.kind = "claim", !.stage = "wait", !.invite = i]
  <2>1. txn' = [txn EXCEPT ![w] = t]
    BY <1>1, <1>2, <1>3, <1>4
  <2>2. i \in 0 .. MaxInvites
    BY <1>3, RowsNumbered, ConstantsAssumption
  <2>3. t \in Txn
    BY <2>2, IdleFits DEF Txn, Idle
  <2>4. Fits(t) /\ t.stage # "locked"
    BY <1>3, ConstantsAssumption
       DEF Fits, StageFits, Moves, LockFits, ClaimIsFirst, WantIsOvertaken, ReadHolds, Idle
  <2>5. UNCHANGED <<accounts, invites, requests>>
    BY <1>1, <1>2, <1>4
  <2> QED BY <2>1, <2>3, <2>4, <2>5, CallMoves
<1>5. CASE invites[i].stale
  <2>1. invites' = [invites EXCEPT ![i] = Expired(invites[i])] /\ UNCHANGED txn
    BY <1>1, <1>5
  <2>2. invites[i] \in Invite
    BY <1>3, RowsNumbered
  <2>3. Expired(invites[i]) \in Invite /\ Expired(invites[i]).status = "expired"
    BY <2>2 DEF Expired, Invite
  <2>4. /\ invites' \in Seq(Invite) /\ Len(invites') = Len(invites)
        /\ DOMAIN invites' = DOMAIN invites
        /\ \A j \in DOMAIN invites : invites'[j] = IF j = i THEN Expired(invites[i]) ELSE invites[j]
    BY <1>3, <2>1, <2>3, RowChanged
  <2>5. Pending' = {} /\ Claimed' = Claimed /\ (\A j \in Claimed : invites'[j] = invites[j])
    BY <2>3, <2>4 DEF Pending, Claimed, IInv, OneWayIn
  <2>6. \A v \in Workers : txn[v].stage # "locked"
    BY <1>1, <1>5, FreeForAll
  <2>7. WithPhone(TRUE)' = WithPhone(TRUE) /\ SelfRegistered' = SelfRegistered
    BY <1>2 DEF WithPhone, SelfRegistered
  <2>8. TypeOK'
    BY <1>2, <2>1, <2>4 DEF IInv, TypeOK, Owners
  <2>9. TxnsFit'
    <3> SUFFICES ASSUME NEW v \in Workers PROVE Fits(txn[v])'
      BY DEF TxnsFit
    <3>1. Fits(txn[v])
      BY DEF IInv, TxnsFit
    <3>2. StageFits(txn[v])' /\ ReadHolds(txn[v])'
      BY <1>2, <2>1, <3>1 DEF Fits, StageFits, Moves, ReadHolds
    <3>3. LockFits(txn[v])' /\ ClaimIsFirst(txn[v])' /\ WantIsOvertaken(txn[v])'
      BY <1>2, <2>1, <2>4, <2>6, <2>7, <3>1 DEF Fits, LockFits, ClaimIsFirst, WantIsOvertaken
    <3> QED BY <3>2, <3>3 DEF Fits
  <2>10. OneHolder'
    BY <2>1 DEF IInv, OneHolder
  <2>11. (OneWayIn /\ NoInviteForAClient)'
    BY <2>5, <2>7 DEF IInv, OneWayIn, NoInviteForAClient
  <2>12. (ClientOwnsTheirRequests /\ AbsentIsNothing)'
    BY <1>2, <2>5, <2>7 DEF IInv, ClientOwnsTheirRequests, AbsentIsNothing, None
  <2> QED BY <2>8, <2>9, <2>10, <2>11, <2>12 DEF IInv
<1> QED BY <1>4, <1>5

LEMMA AgeMoves ==
    ASSUME IInv, NEW i \in DOMAIN invites, Age(i)
    PROVE  IInv'
<1>1. invites \in Seq(Invite) /\ invites[i] \in Invite
  BY RowsNumbered DEF IInv, TypeOK
<1>2. invites' = [invites EXCEPT ![i] = [invites[i] EXCEPT !.stale = TRUE]]
      /\ UNCHANGED <<accounts, requests, txn>>
  BY DEF Age
<1>3. [invites[i] EXCEPT !.stale = TRUE] \in Invite
  BY <1>1 DEF Invite
<1>4. /\ invites' \in Seq(Invite) /\ Len(invites') = Len(invites)
      /\ DOMAIN invites' = DOMAIN invites
      /\ \A j \in DOMAIN invites :
           invites'[j] = IF j = i THEN [invites[i] EXCEPT !.stale = TRUE] ELSE invites[j]
  BY <1>1, <1>2, <1>3, RowChanged
<1>5. \A j \in DOMAIN invites : /\ invites'[j].status = invites[j].status
                                /\ invites'[j].client = invites[j].client
                                /\ invites'[j].late = invites[j].late
  BY <1>1, <1>4 DEF Invite
<1>6. Pending' = Pending /\ Claimed' = Claimed
  BY <1>4, <1>5 DEF Pending, Claimed
<1>7. WithPhone(TRUE)' = WithPhone(TRUE) /\ SelfRegistered' = SelfRegistered
  BY <1>2 DEF WithPhone, SelfRegistered
<1>8. TypeOK'
  BY <1>2, <1>4 DEF IInv, TypeOK, Owners
<1>9. TxnsFit'
  BY <1>2, <1>4, <1>6, <1>7
     DEF IInv, TxnsFit, Fits, StageFits, Moves, LockFits, ClaimIsFirst, WantIsOvertaken, ReadHolds
<1>10. OneHolder'
  BY <1>2 DEF IInv, OneHolder
<1>11. OneWayIn'
  <2>1. Claimed \subseteq DOMAIN invites
    BY DEF Claimed
  <2> QED BY <1>5, <1>6, <1>7, <2>1 DEF IInv, OneWayIn
<1>12. NoInviteForAClient'
  BY <1>2, <1>5, <1>6, <1>7 DEF IInv, NoInviteForAClient, Pending
<1>13. (ClientOwnsTheirRequests /\ AbsentIsNothing)'
  BY <1>2, <1>6, <1>7 DEF IInv, ClientOwnsTheirRequests, AbsentIsNothing, None
<1> QED BY <1>8, <1>9, <1>10, <1>11, <1>12, <1>13 DEF IInv

LEMMA RegisterMoves ==
    ASSUME IInv, Register
    PROVE  IInv'
<1>1. PICK role \in {"client", "other"} :
        accounts' = Append(accounts, [role |-> role, verified |-> FALSE])
  BY DEF Register
<1>2. Len(accounts) < MaxAccounts /\ UNCHANGED <<invites, requests, txn>>
  BY DEF Register
<1>3. accounts \in Seq(Account) /\ [role |-> role, verified |-> FALSE] \in Account
  BY DEF IInv, TypeOK, Account
<1>4. /\ accounts' \in Seq(Account) /\ Len(accounts') = Len(accounts) + 1
      /\ DOMAIN accounts' = DOMAIN accounts \cup {Len(accounts) + 1}
      /\ Len(accounts) + 1 \notin DOMAIN accounts
      /\ ~accounts'[Len(accounts) + 1].verified
      /\ \A a \in DOMAIN accounts : accounts'[a] = accounts[a]
  BY <1>1, <1>3, RowsAppended
<1>5. WithPhone(TRUE)' = WithPhone(TRUE)
  BY <1>4 DEF WithPhone
<1>6. SelfRegistered'
  BY <1>4 DEF SelfRegistered, WithPhone
<1>7. Pending' = Pending /\ Claimed' = Claimed
  BY <1>2 DEF Pending, Claimed
<1>8. TypeOK'
  <2>1. Len(accounts') <= MaxAccounts
    BY <1>2, <1>3, <1>4, RowsNumbered, ConstantsAssumption
  <2> QED BY <1>2, <1>4, <2>1 DEF IInv, TypeOK, Owners
<1>9. TxnsFit'
  BY <1>2, <1>5, <1>6, <1>7
     DEF IInv, TxnsFit, Fits, StageFits, Moves, LockFits, ClaimIsFirst, WantIsOvertaken, ReadHolds
<1>10. (OneHolder /\ OneWayIn /\ AbsentIsNothing)'
  BY <1>2, <1>5, <1>7 DEF IInv, OneHolder, OneWayIn, AbsentIsNothing, None
<1>11. (NoInviteForAClient /\ ClientOwnsTheirRequests)'
  BY <1>6 DEF NoInviteForAClient, ClientOwnsTheirRequests
<1> QED BY <1>8, <1>9, <1>10, <1>11 DEF IInv

-----------------------------------------------------------------------------
(* Steps that change a request *)

LEMMA OwnersFit == 0 .. MaxAccounts \subseteq Owners /\ None \in Owners
BY ConstantsAssumption DEF Owners, None

\* What a commit did to the row it wrote: the client it names stays, and the phone,
\* unless the client was changed for one with another phone.
KeptButPhone(old, new) ==
    /\ old.owner # None => new.owner = old.owner
    /\ old.token => new.token

KeptFor(old, new) == KeptButPhone(old, new) /\ (old.named => new.named)

\* A call another one overtook: its locks and its stage stay as they are, and it
\* may hold anything of its request.
LEMMA OvertakenFits ==
    ASSUME NEW t \in Txn, Fits(t), t.stage # "idle"
    PROVE  LET d == [t EXCEPT !.dirty = TRUE] IN
           /\ d \in Txn /\ StageFits(d) /\ LockFits(d) /\ ClaimIsFirst(d)
           /\ d.dirty /\ d.stage = t.stage /\ d.kind = t.kind /\ d.invite = t.invite
<1> DEFINE d == [t EXCEPT !.dirty = TRUE]
<1>1. /\ d.dirty /\ d.stage = t.stage /\ d.kind = t.kind /\ d.invite = t.invite
      /\ d.request = t.request /\ d.seen = t.seen /\ d.found = t.found
  BY DEF Txn
<1>2. d \in Txn
  BY DEF Txn
<1> HIDE DEF d
<1>3. StageFits(d) /\ LockFits(d) /\ ClaimIsFirst(d)
  BY <1>1 DEF Fits, StageFits, Moves, LockFits, ClaimIsFirst
<1> QED BY <1>1, <1>2, <1>3 DEF d

\* Who holds a request is in the middle of a call.
LEMMA HoldersAreBusy ==
    ASSUME IInv, NEW r, NEW v \in Holding(r)
    PROVE  v \in Workers /\ txn[v].request = r /\ r \in Requests /\ txn[v].stage # "idle"
BY ConstantsAssumption DEF Holding, IInv, TxnsFit, Fits, StageFits, Moves, Idle

\* A step that changes nothing of the requests but their statuses.
SameClients ==
    /\ requests' \in [Requests -> Row]
    /\ \A q \in Requests :
          /\ requests'[q].status = "absent" <=> requests[q].status = "absent"
          /\ requests'[q].owner = requests[q].owner /\ requests'[q].named = requests[q].named
          /\ requests'[q].token = requests[q].token /\ requests'[q].pending = requests[q].pending
          /\ requests'[q].skipped = requests[q].skipped /\ requests'[q].late = requests[q].late

LEMMA FitsOfTheSameClients ==
    ASSUME UNCHANGED <<accounts, invites>>, SameClients, NEW t, Fits(t)
    PROVE  Fits(t)'
<1>1. UNCHANGED <<Pending, Claimed, WithPhone(TRUE), SelfRegistered>>
  BY DEF Pending, Claimed, WithPhone, SelfRegistered
<1>2. LockFits(t)' /\ ClaimIsFirst(t)' /\ WantIsOvertaken(t)'
  BY <1>1 DEF Fits, LockFits, ClaimIsFirst, WantIsOvertaken
<1>3. StageFits(t)'
  BY DEF Fits, StageFits, Moves, SameClients, Idle, NoRow, None
<1>4. ReadHolds(t)'
  BY DEF Fits, ReadHolds, SameClients, None
<1> QED BY <1>2, <1>3, <1>4 DEF Fits

LEMMA StatusMoves ==
    ASSUME IInv, UNCHANGED <<accounts, invites>>, SameClients, txn' \in [Workers -> Txn],
           \A v \in Workers : Fits(txn'[v]) /\ (txn'[v].stage = "locked" => txn[v].stage = "locked")
    PROVE  IInv'
<1>1. UNCHANGED <<Pending, Claimed, WithPhone(TRUE), SelfRegistered>>
  BY DEF Pending, Claimed, WithPhone, SelfRegistered
<1>2. TypeOK'
  BY DEF IInv, TypeOK, Owners, SameClients
<1>3. TxnsFit'
  BY FitsOfTheSameClients DEF TxnsFit
<1>4. (OneHolder /\ OneWayIn /\ NoInviteForAClient)'
  BY <1>1 DEF IInv, OneHolder, OneWayIn, NoInviteForAClient
<1>5. (ClientOwnsTheirRequests /\ AbsentIsNothing)'
  BY <1>1 DEF IInv, ClientOwnsTheirRequests, AbsentIsNothing, None, SameClients
<1> QED BY <1>2, <1>3, <1>4, <1>5 DEF IInv

LEMMA StatusAlone ==
    ASSUME IInv, NEW r \in Requests, requests[r].status # "absent",
           NEW status \in {"open", "aside"}, requests' = [requests EXCEPT ![r].status = status]
    PROVE  SameClients
<1>1. requests \in [Requests -> Row] /\ requests[r] \in Row
  BY DEF IInv, TypeOK
<1>2. \A q \in Requests :
        requests'[q] = IF q = r THEN [requests[r] EXCEPT !.status = status] ELSE requests[q]
  BY <1>1
<1>3. [requests[r] EXCEPT !.status = status] \in Row
  BY <1>1 DEF Row
<1>4. requests' \in [Requests -> Row]
  BY <1>1, <1>3
<1> QED BY <1>1, <1>2, <1>4 DEF SameClients, Row

LEMMA SetStatusMoves ==
    ASSUME IInv, NEW r \in Requests, SetStatus(r)
    PROVE  IInv'
<1>1. PICK status \in {"open", "aside"} : requests' = [requests EXCEPT ![r].status = status]
  BY DEF SetStatus
<1>2. requests[r].status # "absent" /\ UNCHANGED <<accounts, invites, txn>>
  BY DEF SetStatus
<1>3. SameClients
  BY <1>1, <1>2, StatusAlone
<1> QED BY <1>2, <1>3, StatusMoves DEF IInv, TypeOK, TxnsFit

LEMMA SendAnswerMoves ==
    ASSUME IInv, NEW w \in Workers, SendAnswer(w)
    PROVE  IInv'
<1>1. txn[w].stage = "answer" /\ UNCHANGED <<accounts, invites>>
  BY DEF SendAnswer
<1>2. txn \in [Workers -> Txn] /\ txn[w] \in Txn /\ Fits(txn[w])
  BY DEF IInv, TypeOK, TxnsFit
<1>3. txn[w].request \in Requests /\ requests[txn[w].request].status # "absent"
  BY <1>1, <1>2 DEF Fits, StageFits, Moves
<1>4. PICK status \in {"draft", "open", "absent", "aside"} :
        /\ txn' = [txn EXCEPT ![w] = [txn[w] EXCEPT !.stage = "final", !.seen.status = status]]
        /\ SameClients
  <2>1. CASE requests' = [requests EXCEPT ![txn[w].request].status = "open"]
             /\ txn' = [txn EXCEPT ![w].stage = "final", ![w].seen.status = "open"]
    <3>1. SameClients
      BY <1>3, <2>1, StatusAlone
    <3> QED BY <1>2, <2>1, <3>1
  <2>2. CASE Goto(w, "final") /\ UNCHANGED requests
    <3>1. SameClients
      BY <2>2 DEF SameClients, IInv, TypeOK
    <3>2. txn[w].seen.status \in {"draft", "open", "absent", "aside"}
      BY <1>2 DEF Txn, Row
    <3>3. txn[w].seen = [txn[w].seen EXCEPT !.status = txn[w].seen.status]
      BY <1>2 DEF Txn, Row
    <3>4. [txn[w] EXCEPT !.stage = "final"] =
          [txn[w] EXCEPT !.stage = "final", !.seen = [txn[w].seen EXCEPT !.status = txn[w].seen.status]]
      BY <1>2, <3>3 DEF Txn
    <3>5. txn' = [txn EXCEPT ![w] = [txn[w] EXCEPT !.stage = "final"]]
      BY <2>2 DEF Goto
    <3>6. txn' = [txn EXCEPT ![w] = [txn[w] EXCEPT !.stage = "final",
                                       !.seen.status = txn[w].seen.status]]
      BY <1>2, <3>4, <3>5 DEF Txn
    <3> QED BY <3>1, <3>2, <3>6
  <2> QED BY <1>1, <2>1, <2>2 DEF SendAnswer
<1> DEFINE t == [txn[w] EXCEPT !.stage = "final", !.seen.status = status]
<1>5. [txn[w].seen EXCEPT !.status = status] \in Row
  BY <1>2 DEF Txn, Row
<1>6. /\ t \in Txn /\ t.stage = "final" /\ t.kind = txn[w].kind /\ t.request = txn[w].request
      /\ t.dirty = txn[w].dirty /\ t.seen = [txn[w].seen EXCEPT !.status = status]
  BY <1>2, <1>5 DEF Txn
<1> HIDE DEF t
<1>7. txn[w].seen \in Row
  BY <1>2 DEF Txn
<1>8. t.seen.token = txn[w].seen.token /\ t.seen.named = txn[w].seen.named
      /\ t.seen.pending = txn[w].seen.pending
  BY <1>6, <1>7 DEF Row
<1>9. Fits(t)
  BY <1>1, <1>2, <1>6, <1>8
     DEF Fits, StageFits, Moves, LockFits, ClaimIsFirst, WantIsOvertaken, ReadHolds
<1>10. txn' = [txn EXCEPT ![w] = t]
  BY <1>4 DEF t
<1>11. txn' \in [Workers -> Txn] /\ \A v \in Workers : txn'[v] = IF v = w THEN t ELSE txn[v]
  BY <1>2, <1>6, <1>10
<1>12. \A v \in Workers : Fits(txn'[v]) /\ (txn'[v].stage = "locked" => txn[v].stage = "locked")
  BY <1>6, <1>9, <1>11 DEF IInv, TxnsFit
<1> QED BY <1>1, <1>4, <1>11, <1>12, StatusMoves

\* A new request, which no call can have loaded.
LEMMA PartnerQuoteMoves ==
    ASSUME IInv, NEW r \in Requests, PartnerQuote(r)
    PROVE  IInv' /\ KeptFor(requests[r], requests'[r])
           /\ \A q \in Requests \ {r} : requests'[q] = requests[q]
<1> DEFINE row(status, named, a) ==
        [NoRow EXCEPT !.status = status, !.named = named, !.pending = a,
                      !.owner = IF status = "draft" THEN None ELSE a,
                      !.skipped = status = "draft" /\ named /\ Claimed # {}]
<1>1. PICK status \in {"draft", "open"}, named \in BOOLEAN, a \in Clients \cup {None, Stranger} :
        (status = "draft" \/ a # None) /\ requests' = [requests EXCEPT ![r] = row(status, named, a)]
  BY DEF PartnerQuote
<1> DEFINE new == row(status, named, a)
<1>2. requests[r].status = "absent" /\ UNCHANGED <<accounts, invites, txn>>
  BY DEF PartnerQuote
<1>3. requests \in [Requests -> Row] /\ accounts \in Seq(Account) /\ Len(accounts) <= MaxAccounts
  BY DEF IInv, TypeOK
<1>4. a \in Owners
  BY <1>3, RowsNumbered, ConstantsAssumption DEF Clients, Owners, Stranger, None
<1>5. /\ new \in Row /\ new.status = status /\ new.named = named
      /\ new.owner = (IF status = "draft" THEN None ELSE a)
      /\ new.skipped = (status = "draft" /\ named /\ Claimed # {})
  BY <1>4, OwnersFit, IdleFits DEF Row, NoRow, Idle, Txn
<1> HIDE DEF row
<1>6. \A q \in Requests : requests'[q] = IF q = r THEN new ELSE requests[q]
  BY <1>1, <1>3
<1>7. requests' \in [Requests -> Row]
  BY <1>1, <1>3, <1>5
<1> HIDE DEF new
<1>8. UNCHANGED <<Pending, Claimed, WithPhone(TRUE), SelfRegistered>>
  BY <1>2 DEF Pending, Claimed, WithPhone, SelfRegistered
<1>9. TypeOK'
  BY <1>2, <1>7 DEF IInv, TypeOK, Owners
<1>10. ASSUME NEW v \in Workers PROVE Fits(txn[v])'
  <2>1. Fits(txn[v])
    BY DEF IInv, TxnsFit
  <2>2. LockFits(txn[v])' /\ ClaimIsFirst(txn[v])' /\ WantIsOvertaken(txn[v])'
    BY <1>2, <1>8, <2>1 DEF Fits, LockFits, ClaimIsFirst, WantIsOvertaken
  <2>3. txn[v].request \in Requests => txn[v].request # r
    BY <1>2, <2>1 DEF Fits, StageFits, Moves
  <2>4. txn[v].request \in Requests => requests'[txn[v].request] = requests[txn[v].request]
    BY <1>6, <2>3
  <2>5. StageFits(txn[v])' /\ ReadHolds(txn[v])'
    BY <1>2, <2>1, <2>4 DEF Fits, StageFits, Moves, ReadHolds
  <2> QED BY <2>2, <2>5 DEF Fits
<1>11. (OneHolder /\ OneWayIn /\ NoInviteForAClient)'
  <2>1. OneHolder'
    BY <1>2 DEF IInv, OneHolder
  <2>2. OneWayIn /\ NoInviteForAClient /\ accounts' = accounts /\ invites' = invites
    BY <1>2 DEF IInv
  <2>3. OneWayIn'
    BY <1>8, <2>2 DEF OneWayIn
  <2>4. NoInviteForAClient'
    BY <1>8, <2>2 DEF NoInviteForAClient
  <2> QED BY <2>1, <2>3, <2>4
<1>12. (ClientOwnsTheirRequests /\ AbsentIsNothing)'
  BY <1>1, <1>2, <1>5, <1>6, <1>8 DEF IInv, ClientOwnsTheirRequests, AbsentIsNothing, None
<1>13. KeptFor(requests[r], requests'[r])
  BY <1>2 DEF KeptFor, KeptButPhone, IInv, AbsentIsNothing
<1> QED BY <1>6, <1>9, <1>10, <1>11, <1>12, <1>13 DEF IInv, TxnsFit

\* What OfflineClaim makes of the row whose token was shown.
Shown(row) ==
    [row EXCEPT !.owner = Stranger, !.pending = Stranger, !.skipped = FALSE, !.late = FALSE]

LEMMA OfflineClaimMoves ==
    ASSUME IInv, NEW r \in Requests, OfflineClaim(r)
    PROVE  IInv'
<1>1. /\ requests[r].token /\ requests[r].owner = None
      /\ requests' = [requests EXCEPT ![r] = Shown(requests[r])]
      /\ txn' = Overtaken(Holding(r)) /\ UNCHANGED <<accounts, invites>>
  BY DEF OfflineClaim, Shown
<1>2. requests \in [Requests -> Row] /\ requests[r] \in Row /\ txn \in [Workers -> Txn]
  BY DEF IInv, TypeOK
<1>3. \A q \in Requests :
        requests'[q] = IF q = r THEN Shown(requests[r]) ELSE requests[q]
  BY <1>1, <1>2
<1>4. /\ Shown(requests[r]) \in Row
      /\ requests'[r].owner # None /\ requests'[r].status = requests[r].status
  <2>1. Stranger \in Owners /\ Stranger # None
    BY ConstantsAssumption DEF Owners, Stranger, None
  <2>2. /\ Shown(requests[r]) \in Row /\ Shown(requests[r]).owner = Stranger
        /\ Shown(requests[r]).status = requests[r].status
    BY <1>2, <2>1 DEF Row, Shown
  <2> QED BY <1>3, <2>1, <2>2
<1>5. \A v \in Workers :
        txn'[v] = IF v \in Holding(r) THEN [txn[v] EXCEPT !.dirty = TRUE] ELSE txn[v]
  BY <1>1 DEF Overtaken
<1>6. UNCHANGED <<Pending, Claimed, WithPhone(TRUE), SelfRegistered>>
  BY <1>1 DEF Pending, Claimed, WithPhone, SelfRegistered
<1>7. ASSUME NEW v \in Workers
      PROVE  txn'[v] \in Txn /\ txn'[v].stage = txn[v].stage /\ Fits(txn[v])'
  <2>1. txn[v] \in Txn /\ Fits(txn[v])
    BY DEF IInv, TypeOK, TxnsFit
  <2>2. CASE v \in Holding(r)
    <3> DEFINE d == [txn[v] EXCEPT !.dirty = TRUE]
    <3>1. /\ d \in Txn /\ StageFits(d) /\ LockFits(d) /\ ClaimIsFirst(d)
          /\ d.dirty /\ d.stage = txn[v].stage
      BY <2>1, <2>2, HoldersAreBusy, OvertakenFits
    <3>2. txn'[v] = d
      BY <1>5, <2>2
    <3> HIDE DEF d
    <3>3. LockFits(txn[v])' /\ ClaimIsFirst(txn[v])' /\ WantIsOvertaken(txn[v])' /\ ReadHolds(txn[v])'
      BY <1>1, <1>6, <3>1, <3>2 DEF LockFits, ClaimIsFirst, WantIsOvertaken, ReadHolds
    <3>4. StageFits(txn[v])'
      BY <1>3, <1>4, <3>1, <3>2 DEF StageFits, Moves
    <3> QED BY <3>1, <3>2, <3>3, <3>4 DEF Fits
  <2>3. CASE v \notin Holding(r)
    <3>1. txn'[v] = txn[v] /\ txn[v].request # r
      BY <1>5, <2>3 DEF Holding
    <3>2. LockFits(txn[v])' /\ ClaimIsFirst(txn[v])' /\ WantIsOvertaken(txn[v])'
      BY <1>1, <1>6, <2>1, <3>1 DEF Fits, LockFits, ClaimIsFirst, WantIsOvertaken
    <3>3. StageFits(txn[v])' /\ ReadHolds(txn[v])'
      BY <1>3, <2>1, <3>1 DEF Fits, StageFits, Moves, ReadHolds
    <3> QED BY <2>1, <3>1, <3>2, <3>3 DEF Fits
  <2> QED BY <2>2, <2>3
<1>8. TypeOK'
  <2>1. txn' \in [Workers -> Txn]
    BY <1>1, <1>7 DEF Overtaken
  <2>2. requests' \in [Requests -> Row]
    BY <1>1, <1>2, <1>3, <1>4
  <2> QED BY <1>1, <2>1, <2>2 DEF IInv, TypeOK, Owners
<1>9. (OneHolder /\ OneWayIn /\ NoInviteForAClient)'
  <2>1. OneHolder'
    BY <1>7 DEF IInv, OneHolder
  <2>2. (OneWayIn /\ NoInviteForAClient)'
    BY <1>1, <1>6 DEF IInv, OneWayIn, NoInviteForAClient
  <2> QED BY <2>1, <2>2
<1>10. (ClientOwnsTheirRequests /\ AbsentIsNothing)'
  BY <1>1, <1>3, <1>4, <1>6 DEF IInv, ClientOwnsTheirRequests, AbsentIsNothing, None
<1> QED BY <1>7, <1>8, <1>9, <1>10 DEF IInv, TxnsFit

-----------------------------------------------------------------------------
(* The commits of the manager's calls *)

Answered(row) == row.named => row.owner # None \/ row.skipped \/ row.late

Committing(w) ==
    /\ txn[w].stage \in {"locked", "insert", "write"} /\ txn[w].kind # "claim"
    /\ WriteRequest(w)

LEMMA MarkedRow ==
    ASSUME NEW row \in Row, NEW w, txn[w] \in Txn
    PROVE  LET new == Marked(row, w) IN
           /\ new \in Row /\ new.status = row.status /\ new.named = row.named
           /\ new.owner = row.owner /\ new.token = row.token /\ new.pending = row.pending
           /\ new.late = (row.owner = None /\ (row.late \/ txn[w].dirty))
           /\ new.skipped = (row.skipped /\ row.owner = None)
BY DEF Marked, Row, Txn

\* What every commit of w leaves of the requests.
Written(w) ==
    /\ requests' \in [Requests -> Row]
    /\ \A r \in Requests : r # txn[w].request /\ requests[r].status # "absent" =>
          requests'[r] = requests[r]
    /\ \A r \in Requests :
          \/ KeptFor(requests[r], requests'[r])
          \/ r = txn[w].request /\ txn[w].dirty
          \/ /\ KeptButPhone(requests[r], requests'[r])
             /\ r = txn[w].request /\ Moves(txn[w])
    /\ \A r \in Requests : requests'[r].status = "absent" => requests'[r] = requests[r]
    /\ Claimed # {} /\ ~SelfRegistered =>
          \A r \in Requests : Answered(requests[r]) => Answered(requests'[r])

LEMMA RequestWritten ==
    ASSUME IInv, NEW w \in Workers, Committing(w)
    PROVE  Written(w)
<1> USE DEF Written
<1> DEFINE t == txn[w]
<1>1. t \in Txn /\ Fits(t) /\ requests \in [Requests -> Row]
  BY DEF IInv, TypeOK, TxnsFit
<1>2. /\ t.stage \in {"locked", "insert", "write"} /\ t.kind # "claim"
      /\ t.kind = "attach" => t.request \in Requests /\ requests[t.request].status # "absent"
  BY <1>1 DEF Committing, Fits, StageFits, Moves
<1>3. Claimed # {} /\ ~SelfRegistered =>
        /\ t.kind = "create" => t.dirty \/ t.found # None
        /\ t.kind = "attach" => \/ t.dirty
                                \/ t.found # None
                                \/ t.seen.named => requests[t.request].named
  <2>1. Claimed # {} => accounts # <<>>
    <3> SUFFICES ASSUME NEW i \in Claimed PROVE accounts # <<>>
      OBVIOUS
    <3>1. invites[i].client \in DOMAIN accounts
      BY DEF IInv, OneWayIn, WithPhone
    <3>2. accounts \in Seq(Account)
      BY DEF IInv, TypeOK
    <3> QED BY <3>1, <3>2, RowsNumbered
  <2>2. t.stage \in {"locked", "insert"} /\ Claimed # {} /\ ~SelfRegistered => t.dirty
    BY <1>1, <1>2, <2>1 DEF Fits, WantIsOvertaken
  <2>3. t.stage = "write" /\ t.kind = "create" => t.found # None
    BY <1>1 DEF Fits, StageFits
  <2>4. t.stage = "write" /\ t.kind = "attach" /\ ~t.dirty /\ t.found = None
          => (t.seen.named => requests[t.request].named)
    <3>1. ReadHolds(t)
      BY <1>1 DEF Fits
    <3> QED BY <1>2, <3>1 DEF ReadHolds
  <2> QED BY <1>2, <2>2, <2>3, <2>4
<1>4. t.seen \in Row /\ t.found \in Owners /\ t.dirty \in BOOLEAN
  BY <1>1 DEF Txn
<1>5. CASE t.kind = "create"
  <2> DEFINE base == [NoRow EXCEPT !.status = "open", !.named = TRUE, !.owner = t.found,
                                   !.pending = t.found]
             new == Marked(base, w)
  <2>1. PICK r \in Requests : requests[r].status = "absent" /\ requests' = [requests EXCEPT ![r] = new]
    BY <1>5 DEF Committing, WriteRequest, WriteCreated
  <2>2. base \in Row /\ base.status = "open" /\ base.named /\ base.owner = t.found
    BY <1>4, IdleFits DEF Row, NoRow, Idle, Txn
  <2> HIDE DEF base
  <2>3. /\ new \in Row /\ new.status = "open" /\ new.named /\ new.owner = t.found
        /\ t.found = None /\ t.dirty => new.late
    BY <1>1, <2>2, MarkedRow
  <2> HIDE DEF new
  <2>4. \A q \in Requests : requests'[q] = IF q = r THEN new ELSE requests[q]
    BY <1>1, <2>1
  <2>5. KeptFor(requests[r], new)
    BY <2>1 DEF IInv, AbsentIsNothing, KeptFor, KeptButPhone
  <2>6. Claimed # {} /\ ~SelfRegistered => Answered(new)
    BY <1>3, <1>5, <2>3 DEF Answered
  <2>7. requests' \in [Requests -> Row]
    BY <1>1, <2>1, <2>3
  <2> QED BY <2>1, <2>3, <2>4, <2>5, <2>6, <2>7 DEF KeptFor, KeptButPhone
<1>6. CASE t.kind = "attach"
  <2> DEFINE r == t.request
             old == requests[r]
             base == [old EXCEPT !.named = t.seen.named, !.token = t.seen.token,
                        !.pending = t.found,
                        !.owner = IF t.seen.owner = None THEN t.found ELSE t.seen.owner]
             new == Marked(base, w)
  <2>1. r \in Requests /\ old \in Row /\ requests' = [requests EXCEPT ![r] = new]
    <3>1. WriteAttached(w)
      BY <1>6 DEF Committing, WriteRequest
    <3>2. r \in Requests /\ old \in Row
      BY <1>1, <1>2, <1>6
    <3>3. requests' = [requests EXCEPT ![r] = new]
      BY <3>1 DEF WriteAttached
    <3> QED BY <3>2, <3>3
  <2>2. /\ base \in Row /\ base.status = old.status /\ base.named = t.seen.named
        /\ base.token = t.seen.token /\ base.late = old.late /\ base.skipped = old.skipped
        /\ base.owner = (IF t.seen.owner = None THEN t.found ELSE t.seen.owner)
    BY <1>4, <2>1 DEF Row
  <2> HIDE DEF base
  <2>3. /\ new \in Row /\ new.status = old.status /\ new.named = t.seen.named
        /\ new.token = t.seen.token
        /\ new.owner = (IF t.seen.owner = None THEN t.found ELSE t.seen.owner)
        /\ new.late = (new.owner = None /\ (old.late \/ t.dirty))
        /\ new.skipped = (old.skipped /\ new.owner = None)
    BY <1>1, <2>2, MarkedRow
  <2>4. ~t.dirty => old.owner = t.seen.owner /\ old.token = t.seen.token
    BY <1>1, <1>2, <1>6, <2>1 DEF Fits, ReadHolds
  <2> HIDE DEF new, old
  <2>5. \A q \in Requests : requests'[q] = IF q = r THEN new ELSE requests[q]
    BY <1>1, <2>1
  <2>6. t.dirty \/ (KeptButPhone(old, new) /\ (Moves(t) \/ KeptFor(old, new)))
    BY <1>6, <2>3, <2>4 DEF KeptFor, KeptButPhone, Moves
  <2>7. Claimed # {} /\ ~SelfRegistered /\ Answered(old) => Answered(new)
    <3>1. t.dirty => Answered(new)
      BY <2>3 DEF Answered
    <3>2. t.found # None => Answered(new)
      BY <2>3 DEF Answered
    <3>3. ~t.dirty /\ (t.seen.named => old.named) /\ Answered(old) /\ t.found = None => Answered(new)
      BY <2>3, <2>4 DEF Answered
    <3> QED BY <1>3, <1>6, <3>1, <3>2, <3>3 DEF old
  <2>8. requests' \in [Requests -> Row]
    BY <1>1, <2>1, <2>3
  <2>9. new.status # "absent"
    BY <1>1, <1>2, <1>6, <2>3 DEF old
  <2> QED BY <1>6, <2>1, <2>5, <2>6, <2>7, <2>8, <2>9 DEF KeptFor, KeptButPhone, old
<1>7. CASE t.kind \notin {"create", "attach"}
  BY <1>1, <1>7 DEF Committing, WriteRequest, KeptFor, KeptButPhone
<1> QED BY <1>5, <1>6, <1>7

LEMMA NothingWritten ==
    ASSUME IInv, NEW w \in Workers, UNCHANGED requests
    PROVE  Written(w)
BY DEF Written, KeptFor, KeptButPhone, IInv, TypeOK

\* What the commit of a manager's call leaves of the invites.
InvitesKept(w) ==
    /\ DOMAIN invites \subseteq DOMAIN invites'
    /\ Claimed' = Claimed
    /\ \A v \in Workers \ {w} : txn[v].stage = "locked" => txn[v].invite \in Pending'

\* The other calls go on fitting, whether the commit overtook them or not.
LEMMA CommitEnds ==
    ASSUME IInv, NEW w \in Workers, Written(w), InvitesKept(w), UNCHANGED accounts,
           NEW t \in Txn, Fits(t)', t.stage # "locked",
           Continue(w, Holding(txn[w].request), t)
    PROVE  /\ txn' \in [Workers -> Txn] /\ requests' \in [Requests -> Row]
           /\ (TxnsFit /\ OneHolder /\ AbsentIsNothing /\ ClientOwnsTheirRequests)'
<1> DEFINE r == txn[w].request
<1>1. txn \in [Workers -> Txn] /\ \A v \in Workers : txn[v] \in Txn /\ Fits(txn[v])
  BY DEF IInv, TypeOK, TxnsFit
<1>2. /\ txn' \in [Workers -> Txn]
      /\ \A v \in Workers :
           txn'[v] = IF v = w THEN t
                     ELSE IF v \in Holding(r) THEN [txn[v] EXCEPT !.dirty = TRUE] ELSE txn[v]
  <2>1. \A v \in Workers : /\ Overtaken(Holding(r))[v] \in Txn
                           /\ Overtaken(Holding(r))[v] =
                                IF v \in Holding(r) THEN [txn[v] EXCEPT !.dirty = TRUE] ELSE txn[v]
    BY <1>1 DEF Overtaken, Txn
  <2>2. Overtaken(Holding(r)) \in [Workers -> Txn]
    BY <2>1 DEF Overtaken
  <2>3. txn' = [Overtaken(Holding(r)) EXCEPT ![w] = t]
    BY DEF Continue
  <2> HIDE DEF r
  <2> QED BY <2>1, <2>2, <2>3
<1>3. UNCHANGED <<Claimed, WithPhone(TRUE), SelfRegistered>>
  BY DEF InvitesKept, WithPhone, SelfRegistered
<1>4. ASSUME NEW v \in Workers, v # w
      PROVE  Fits(txn[v])' /\ txn'[v].stage = txn[v].stage
  <2>1. CASE v \in Holding(r)
    <3> DEFINE d == [txn[v] EXCEPT !.dirty = TRUE]
    <3>1. /\ StageFits(d) /\ LockFits(d) /\ ClaimIsFirst(d) /\ d.dirty
          /\ d.stage = txn[v].stage /\ d.invite = txn[v].invite
      BY <1>1, <2>1, HoldersAreBusy, OvertakenFits
    <3>2. txn'[v] = d
      BY <1>2, <1>4, <2>1
    <3> HIDE DEF d
    <3>3. ClaimIsFirst(txn[v])' /\ WantIsOvertaken(txn[v])' /\ ReadHolds(txn[v])'
      BY <1>3, <3>1, <3>2 DEF ClaimIsFirst, WantIsOvertaken, ReadHolds
    <3>4. LockFits(txn[v])'
      BY <1>4, <3>1, <3>2 DEF LockFits, InvitesKept
    <3>5. StageFits(txn[v])'
      BY <3>1, <3>2 DEF StageFits, Moves, Written
    <3> QED BY <3>1, <3>2, <3>3, <3>4, <3>5 DEF Fits
  <2>2. CASE v \notin Holding(r)
    <3>1. txn'[v] = txn[v] /\ Fits(txn[v])
      BY <1>1, <1>2, <1>4, <2>2
    <3>2. txn[v].request \in Requests => requests'[txn[v].request] = requests[txn[v].request]
      BY <2>2, <3>1 DEF Holding, Written, Fits, StageFits, Moves
    <3>3. ClaimIsFirst(txn[v])' /\ WantIsOvertaken(txn[v])'
      BY <1>3, <3>1 DEF Fits, ClaimIsFirst, WantIsOvertaken
    <3>4. LockFits(txn[v])'
      BY <1>4, <3>1 DEF Fits, LockFits, InvitesKept
    <3>5. StageFits(txn[v])' /\ ReadHolds(txn[v])'
      BY <3>1, <3>2 DEF Fits, StageFits, Moves, ReadHolds
    <3> QED BY <3>1, <3>3, <3>4, <3>5 DEF Fits
  <2> QED BY <2>1, <2>2
<1>5. ASSUME NEW v \in Workers, v = w
      PROVE  Fits(txn[v])' /\ txn'[v].stage # "locked"
  <2>1. txn'[v] = t
    BY <1>2, <1>5
  <2> QED BY <2>1 DEF Fits, StageFits, Moves, LockFits, ClaimIsFirst, WantIsOvertaken, ReadHolds
<1>6. TxnsFit'
  <2> SUFFICES ASSUME NEW v \in Workers PROVE Fits(txn[v])'
    BY DEF TxnsFit
  <2> QED BY <1>4, <1>5
<1>7. OneHolder'
  BY <1>4, <1>5 DEF IInv, OneHolder
<1>8. AbsentIsNothing'
  BY DEF IInv, AbsentIsNothing, Written, None
<1>9. ClientOwnsTheirRequests'
  BY <1>3 DEF IInv, ClientOwnsTheirRequests, Written, Answered, None
<1> QED BY <1>2, <1>6, <1>7, <1>8, <1>9 DEF Written

LEMMA CommitDone ==
    ASSUME IInv, NEW w \in Workers, Written(w), InvitesKept(w), UNCHANGED accounts,
           End(w, Holding(txn[w].request))
    PROVE  /\ txn' \in [Workers -> Txn] /\ requests' \in [Requests -> Row]
           /\ (TxnsFit /\ OneHolder /\ AbsentIsNothing /\ ClientOwnsTheirRequests)'
<1>1. Fits(Idle)'
  BY ConstantsAssumption
     DEF Fits, StageFits, Moves, LockFits, ClaimIsFirst, WantIsOvertaken, ReadHolds, Idle
<1> QED BY <1>1, IdleFits, CommitEnds DEF End, Idle

\* The saves of a send leave the invites alone.
LEMMA SaveMoves ==
    ASSUME IInv, NEW w \in Workers, Written(w), UNCHANGED <<accounts, invites>>,
           NEW t \in Txn, Fits(t)', t.stage # "locked",
           Continue(w, Holding(txn[w].request), t)
    PROVE  IInv'
<1>1. Pending' = Pending /\ Claimed' = Claimed /\ UNCHANGED <<WithPhone(TRUE), SelfRegistered>>
  BY DEF Pending, Claimed, WithPhone, SelfRegistered
<1>2. InvitesKept(w)
  BY <1>1 DEF InvitesKept, IInv, TxnsFit, Fits, LockFits
<1>3. (OneWayIn /\ NoInviteForAClient)'
  BY <1>1 DEF IInv, OneWayIn, NoInviteForAClient
<1>4. (invites \in Seq(Invite) /\ Len(invites) <= MaxInvites
       /\ accounts \in Seq(Account) /\ Len(accounts) <= MaxAccounts)'
  BY DEF IInv, TypeOK
<1> QED BY <1>2, <1>3, <1>4, CommitEnds DEF IInv, TypeOK, Owners

LEMMA SendContactMoves ==
    ASSUME IInv, NEW w \in Workers, SendContact(w)
    PROVE  IInv' /\ Written(w) /\ txn'[w] # txn[w]
<1> DEFINE t == txn[w]
           r == t.request
           old == requests[r]
           held == [t.seen EXCEPT !.token = t.seen.token \/ t.seen.pending = None]
           base == [old EXCEPT !.named = held.named, !.pending = held.pending, !.token = held.token,
                               !.owner = IF held.pending = None THEN old.owner ELSE held.pending]
           new == Marked(base, w)
           next == [t EXCEPT !.stage = "answer", !.seen = held]
<1>1. /\ t.stage = "contact" /\ requests' = [requests EXCEPT ![r] = new]
      /\ Continue(w, Holding(r), next) /\ UNCHANGED <<accounts, invites>>
  BY DEF SendContact
<1>2. t \in Txn /\ Fits(t) /\ requests \in [Requests -> Row] /\ txn \in [Workers -> Txn]
  BY DEF IInv, TypeOK, TxnsFit
<1>3. t.kind = "send" /\ r \in Requests /\ old \in Row /\ old.status # "absent"
  BY <1>1, <1>2 DEF Fits, StageFits, Moves
<1>4. t.seen \in Row /\ t.dirty \in BOOLEAN
  BY <1>2 DEF Txn
<1>5. /\ held \in Row /\ held.named = t.seen.named /\ held.pending = t.seen.pending
      /\ held.token = (t.seen.token \/ t.seen.pending = None)
  BY <1>4 DEF Row
<1> HIDE DEF held
<1>6. /\ base \in Row /\ base.status = old.status /\ base.named = held.named
      /\ base.pending = held.pending /\ base.token = held.token
      /\ base.owner = (IF held.pending = None THEN old.owner ELSE held.pending)
      /\ base.late = old.late /\ base.skipped = old.skipped
  BY <1>3, <1>5 DEF Row
<1> HIDE DEF base
<1>7. /\ new \in Row /\ new.status = old.status /\ new.named = held.named
      /\ new.pending = held.pending /\ new.token = held.token /\ new.owner = base.owner
      /\ new.late = (base.owner = None /\ (old.late \/ t.dirty))
      /\ new.skipped = (old.skipped /\ base.owner = None)
  BY <1>2, <1>6, MarkedRow
<1>8. ~t.dirty => /\ old.owner = None /\ old.named = t.seen.named
                  /\ old.token = t.seen.token /\ old.pending = t.seen.pending
  BY <1>1, <1>2, <1>3 DEF Fits, ReadHolds
<1> HIDE DEF new, old
<1>9. \A q \in Requests : requests'[q] = IF q = r THEN new ELSE requests[q]
  BY <1>1, <1>2, <1>3
<1>10. KeptFor(old, new) \/ t.dirty
  BY <1>5, <1>7, <1>8 DEF KeptFor, KeptButPhone
<1>11. Answered(old) => Answered(new)
  BY <1>5, <1>6, <1>7, <1>8 DEF Answered
<1>12. requests' \in [Requests -> Row]
  BY <1>1, <1>2, <1>7
<1>13. Written(w)
  BY <1>3, <1>7, <1>9, <1>10, <1>11, <1>12 DEF Written, KeptFor, KeptButPhone, old
<1>14. /\ next \in Txn /\ next.kind = "send" /\ next.stage = "answer" /\ next.request = r
       /\ next.dirty = t.dirty /\ next.seen = held
  BY <1>2, <1>3, <1>5 DEF Txn
<1>15. PICK n, q, h : n = next /\ q = r /\ h = held
  OBVIOUS
<1> HIDE DEF next
<1>16. /\ n \in Txn /\ n.kind = "send" /\ n.stage = "answer" /\ n.request = q
       /\ n.seen = h /\ q \in Requests /\ requests'[q] = new /\ new.status # "absent"
       /\ new.token = h.token /\ new.named = h.named /\ new.pending = h.pending
  BY <1>3, <1>7, <1>9, <1>14, <1>15 DEF old
<1>17. Fits(n)'
  <2>1. ReadHolds(n)'
    BY <1>16 DEF ReadHolds
  <2>2. StageFits(n)'
    BY <1>16 DEF StageFits, Moves
  <2>3. LockFits(n)' /\ ClaimIsFirst(n)' /\ WantIsOvertaken(n)'
    BY <1>16 DEF LockFits, ClaimIsFirst, WantIsOvertaken
  <2> QED BY <2>1, <2>2, <2>3 DEF Fits
<1>18. IInv'
  <2>1. Continue(w, Holding(txn[w].request), n)
    BY <1>1, <1>15
  <2>2. n.stage # "locked" /\ UNCHANGED <<accounts, invites>>
    BY <1>1, <1>16
  <2> QED BY <1>13, <1>16, <1>17, <2>1, <2>2, SaveMoves
<1>19. txn'[w] = next
  <2>1. w \in DOMAIN Overtaken(Holding(r))
    BY DEF Overtaken
  <2> QED BY <1>1, <2>1 DEF Continue
<1> QED BY <1>1, <1>13, <1>14, <1>18, <1>19

LEMMA SendFinalMoves ==
    ASSUME IInv, NEW w \in Workers, SendFinal(w)
    PROVE  IInv' /\ Written(w)
<1> DEFINE t == txn[w]
           r == t.request
           old == requests[r]
           base == [old EXCEPT !.status = IF t.seen.status = "draft" THEN "open" ELSE old.status,
                               !.named = old.named \/ t.seen.named, !.pending = t.seen.pending,
                               !.token = t.seen.token]
           new == Marked(base, w)
<1>1. /\ t.stage = "final" /\ requests' = [requests EXCEPT ![r] = new]
      /\ Continue(w, Holding(r), Idle) /\ UNCHANGED <<accounts, invites>>
  BY DEF SendFinal, End
<1>2. t \in Txn /\ Fits(t) /\ requests \in [Requests -> Row]
  BY DEF IInv, TypeOK, TxnsFit
<1>3. t.kind = "send" /\ r \in Requests /\ old \in Row /\ old.status # "absent"
  BY <1>1, <1>2 DEF Fits, StageFits, Moves
<1>4. t.seen \in Row /\ t.dirty \in BOOLEAN
  BY <1>2 DEF Txn
<1>5. /\ base \in Row /\ base.status # "absent" /\ base.named = (old.named \/ t.seen.named)
      /\ base.token = t.seen.token /\ base.owner = old.owner
      /\ base.late = old.late /\ base.skipped = old.skipped
  BY <1>3, <1>4 DEF Row
<1> HIDE DEF base
<1>6. /\ new \in Row /\ new.status # "absent" /\ new.named = (old.named \/ t.seen.named)
      /\ new.token = t.seen.token /\ new.owner = old.owner
      /\ new.late = (old.owner = None /\ (old.late \/ t.dirty))
      /\ new.skipped = (old.skipped /\ old.owner = None)
  BY <1>2, <1>5, MarkedRow
<1>7. ~t.dirty => old.named = t.seen.named /\ old.token = t.seen.token
  BY <1>1, <1>2, <1>3 DEF Fits, ReadHolds
<1> HIDE DEF new, old
<1>8. \A q \in Requests : requests'[q] = IF q = r THEN new ELSE requests[q]
  BY <1>1, <1>2, <1>3
<1>9. KeptFor(old, new) \/ t.dirty
  BY <1>6, <1>7 DEF KeptFor, KeptButPhone
<1>10. Answered(old) => Answered(new)
  BY <1>6, <1>7 DEF Answered
<1>11. requests' \in [Requests -> Row]
  BY <1>1, <1>2, <1>6
<1>12. Written(w)
  BY <1>3, <1>6, <1>8, <1>9, <1>10, <1>11 DEF Written, KeptFor, KeptButPhone, old
<1>13. Fits(Idle)' /\ Idle \in Txn /\ Idle.stage # "locked"
  BY IdleFits, ConstantsAssumption
     DEF Fits, StageFits, Moves, LockFits, ClaimIsFirst, WantIsOvertaken, ReadHolds, Idle
<1> QED BY <1>1, <1>12, <1>13, SaveMoves

LEMMA CommitRequestMoves ==
    ASSUME IInv, NEW w \in Workers, CommitRequest(w)
    PROVE  IInv' /\ Written(w)
<1>1. /\ txn[w].stage = "write" /\ WriteRequest(w) /\ End(w, Holding(txn[w].request))
      /\ UNCHANGED <<accounts, invites>>
  BY DEF CommitRequest
<1>2. Fits(txn[w])
  BY DEF IInv, TxnsFit
<1>3. Written(w)
  BY <1>1, <1>2, RequestWritten DEF Committing, Fits, StageFits, Moves
<1>4. Pending' = Pending /\ Claimed' = Claimed /\ UNCHANGED <<WithPhone(TRUE), SelfRegistered>>
  BY <1>1 DEF Pending, Claimed, WithPhone, SelfRegistered
<1>5. InvitesKept(w)
  BY <1>1, <1>4 DEF InvitesKept, IInv, TxnsFit, Fits, LockFits
<1>6. (OneWayIn /\ NoInviteForAClient)'
  BY <1>1, <1>4 DEF IInv, OneWayIn, NoInviteForAClient
<1>7. (invites \in Seq(Invite) /\ Len(invites) <= MaxInvites
       /\ accounts \in Seq(Account) /\ Len(accounts) <= MaxAccounts)'
  BY <1>1 DEF IInv, TypeOK
<1> QED BY <1>1, <1>3, <1>5, <1>6, <1>7, CommitDone DEF IInv, TypeOK, Owners

LEMMA NewInviteIsOpen ==
    ASSUME NEW w \in Workers, txn[w] \in Txn
    PROVE  /\ NewInvite(w) \in Invite /\ NewInvite(w).status = "pending"
           /\ NewInvite(w).late = txn[w].dirty
BY ConstantsAssumption DEF NewInvite, Invite, Txn, None

\* The invite a call writes is late whenever the phone has its account.
LEMMA WantedInvite ==
    ASSUME IInv, NEW w \in Workers, txn[w].kind # "claim",
           txn[w].stage \in {"want", "wait", "locked", "insert"}
    PROVE  txn[w].dirty \/ SelfRegistered \/ accounts = <<>>
BY DEF IInv, TxnsFit, Fits, WantIsOvertaken

LEMMA CommitInsertMoves ==
    ASSUME IInv, NEW w \in Workers, CommitInsert(w)
    PROVE  IInv' /\ Written(w)
<1>1. /\ txn[w].stage = "insert" /\ End(w, Holding(txn[w].request)) /\ UNCHANGED accounts
      /\ Pending # {} => UNCHANGED <<invites, requests>>
      /\ Pending = {} => Room /\ invites' = Append(invites, NewInvite(w))
                         /\ WriteRequest(w)
  BY DEF CommitInsert
<1>2. txn[w] \in Txn /\ Fits(txn[w]) /\ txn[w].kind # "claim"
  BY <1>1 DEF IInv, TypeOK, TxnsFit, Fits, StageFits, Moves
<1>3. Written(w)
  BY <1>1, <1>2, RequestWritten, NothingWritten DEF Committing
<1>4. UNCHANGED <<WithPhone(TRUE), SelfRegistered>>
  BY <1>1 DEF WithPhone, SelfRegistered
<1>5. invites \in Seq(Invite) /\ Len(invites) <= MaxInvites
  BY DEF IInv, TypeOK
<1>6. InvitesKept(w) /\ (OneWayIn /\ NoInviteForAClient)'
      /\ (invites \in Seq(Invite) /\ Len(invites) <= MaxInvites)'
  <2>1. CASE Pending # {}
    <3>1. Pending' = Pending /\ Claimed' = Claimed /\ invites' = invites
      BY <1>1, <2>1 DEF Pending, Claimed
    <3>2. InvitesKept(w)
      BY <3>1 DEF InvitesKept, IInv, TxnsFit, Fits, LockFits
    <3>3. (OneWayIn /\ NoInviteForAClient)'
      BY <1>1, <1>4, <3>1 DEF IInv, OneWayIn, NoInviteForAClient
    <3> QED BY <1>5, <3>1, <3>2, <3>3
  <2>2. CASE Pending = {}
    <3> DEFINE n == Len(invites) + 1
    <3>1. NewInvite(w) \in Invite /\ NewInvite(w).status = "pending"
          /\ NewInvite(w).late = txn[w].dirty
      BY <1>2, NewInviteIsOpen
    <3>2. /\ invites' \in Seq(Invite) /\ Len(invites') = n
          /\ DOMAIN invites' = DOMAIN invites \cup {n} /\ n \notin DOMAIN invites
          /\ invites'[n] = NewInvite(w) /\ \A i \in DOMAIN invites : invites'[i] = invites[i]
      BY <1>1, <1>5, <2>2, <3>1, RowsAppended
    <3> HIDE DEF n
    <3>3. Pending' = {n} /\ Claimed' = Claimed /\ \A i \in Claimed : invites'[i] = invites[i]
      BY <2>2, <3>1, <3>2 DEF Pending, Claimed
    <3>4. InvitesKept(w)
      BY <2>2, <3>2, <3>3 DEF InvitesKept, IInv, TxnsFit, Fits, LockFits
    <3>5. OneWayIn'
      BY <1>4, <3>3 DEF IInv, OneWayIn
    <3>6. NoInviteForAClient'
      <4>1. txn[w].dirty \/ SelfRegistered \/ accounts = <<>>
        BY <1>1, <1>2, WantedInvite
      <4> QED BY <1>1, <1>4, <3>1, <3>2, <3>3, <4>1 DEF NoInviteForAClient
    <3>7. Len(invites') <= MaxInvites
      BY <1>1, <1>5, <2>2, <3>2, RowsNumbered, ConstantsAssumption DEF n, Room
    <3> QED BY <3>2, <3>4, <3>5, <3>6, <3>7
  <2> QED BY <2>1, <2>2
<1>7. (accounts \in Seq(Account) /\ Len(accounts) <= MaxAccounts)'
  BY <1>1 DEF IInv, TypeOK
<1> QED BY <1>1, <1>3, <1>6, <1>7, CommitDone DEF IInv, TypeOK, Owners

LEMMA CommitLockedMoves ==
    ASSUME IInv, NEW w \in Workers, CommitLocked(w)
    PROVE  IInv' /\ Written(w)
<1> DEFINE i == txn[w].invite
<1>1. /\ txn[w].kind # "claim" /\ txn[w].stage = "locked" /\ WriteRequest(w)
      /\ End(w, Holding(txn[w].request)) /\ UNCHANGED accounts
  BY DEF CommitLocked
<1>2. txn[w] \in Txn /\ Fits(txn[w]) /\ i \in Pending
  BY <1>1 DEF IInv, TypeOK, TxnsFit, Fits, LockFits
<1>3. Written(w)
  BY <1>1, RequestWritten DEF Committing
<1>4. UNCHANGED <<WithPhone(TRUE), SelfRegistered>>
  BY <1>1 DEF WithPhone, SelfRegistered
<1>5. /\ invites \in Seq(Invite) /\ Len(invites) <= MaxInvites /\ Len(invites) \in Nat
      /\ i \in DOMAIN invites /\ invites[i] \in Invite /\ invites[i].status = "pending"
  BY <1>2, RowsNumbered DEF IInv, TypeOK, Pending
<1>6. Pending = {i} /\ \A v \in Workers \ {w} : txn[v].stage # "locked"
  BY <1>1, <1>2 DEF IInv, OneWayIn, OneHolder
<1>7. txn[w].dirty \/ SelfRegistered \/ accounts = <<>>
  BY <1>1, WantedInvite
<1>8. CASE ~invites[i].stale
  <2> DEFINE e == [invites[i] EXCEPT !.late = invites[i].late \/ txn[w].dirty]
  <2>1. invites' = [invites EXCEPT ![i] = e]
    BY <1>8 DEF CommitLocked
  <2>2. e \in Invite /\ e.status = "pending" /\ e.late = (invites[i].late \/ txn[w].dirty)
    BY <1>2, <1>5 DEF Invite, Txn
  <2> HIDE DEF e
  <2>3. /\ invites' \in Seq(Invite) /\ Len(invites') = Len(invites)
        /\ DOMAIN invites' = DOMAIN invites
        /\ \A j \in DOMAIN invites : invites'[j] = IF j = i THEN e ELSE invites[j]
    BY <1>5, <2>1, <2>2, RowChanged
  <2>4. Pending' = {i} /\ Claimed' = Claimed /\ \A j \in Claimed : invites'[j] = invites[j]
    BY <1>5, <1>6, <2>2, <2>3 DEF Pending, Claimed
  <2>5. InvitesKept(w)
    BY <1>6, <2>3, <2>4 DEF InvitesKept
  <2>6. OneWayIn'
    BY <1>4, <2>4 DEF IInv, OneWayIn
  <2>7. NoInviteForAClient'
    BY <1>1, <1>4, <1>5, <1>7, <2>2, <2>3, <2>4 DEF NoInviteForAClient
  <2>8. (accounts \in Seq(Account) /\ Len(accounts) <= MaxAccounts)'
    BY <1>1 DEF IInv, TypeOK
  <2>9. Len(invites') <= MaxInvites
    BY <1>5, <2>3
  <2> QED BY <1>1, <1>3, <2>3, <2>5, <2>6, <2>7, <2>8, <2>9, CommitDone DEF IInv, TypeOK, Owners
<1>9. CASE invites[i].stale
  <2> DEFINE mid == [invites EXCEPT ![i] = Expired(invites[i])]
             n == Len(invites) + 1
  <2>1. Room /\ invites' = Append(mid, NewInvite(w))
    BY <1>9 DEF CommitLocked
  <2>2. Expired(invites[i]) \in Invite /\ Expired(invites[i]).status = "expired"
    BY <1>5 DEF Expired, Invite
  <2>3. NewInvite(w) \in Invite /\ NewInvite(w).status = "pending"
        /\ NewInvite(w).late = txn[w].dirty
    BY <1>2, NewInviteIsOpen
  <2>4. /\ mid \in Seq(Invite) /\ Len(mid) = Len(invites) /\ DOMAIN mid = DOMAIN invites
        /\ \A j \in DOMAIN invites : mid[j] = IF j = i THEN Expired(invites[i]) ELSE invites[j]
    BY <1>5, <2>2, RowChanged
  <2> HIDE DEF mid
  <2>5. /\ invites' \in Seq(Invite) /\ Len(invites') = n
        /\ DOMAIN invites' = DOMAIN invites \cup {n} /\ n \notin DOMAIN invites
        /\ invites'[n] = NewInvite(w) /\ \A j \in DOMAIN invites : invites'[j] = mid[j]
    BY <2>1, <2>3, <2>4, RowsAppended
  <2> HIDE DEF n
  <2>6. Pending' = {n} /\ Claimed' = Claimed /\ \A j \in Claimed : invites'[j] = invites[j]
    BY <1>5, <1>6, <2>2, <2>3, <2>4, <2>5 DEF Pending, Claimed
  <2>7. InvitesKept(w)
    BY <1>6, <2>5, <2>6 DEF InvitesKept
  <2>8. OneWayIn'
    BY <1>4, <2>6 DEF IInv, OneWayIn
  <2>9. NoInviteForAClient'
    BY <1>1, <1>4, <1>7, <2>3, <2>5, <2>6 DEF NoInviteForAClient
  <2>10. (accounts \in Seq(Account) /\ Len(accounts) <= MaxAccounts)'
    BY <1>1 DEF IInv, TypeOK
  <2>11. Len(invites') <= MaxInvites
    BY <1>5, <2>1, <2>5, ConstantsAssumption DEF n, Room
  <2> QED BY <1>1, <1>3, <2>5, <2>7, <2>8, <2>9, <2>10, <2>11, CommitDone DEF IInv, TypeOK, Owners
<1> QED BY <1>8, <1>9

-----------------------------------------------------------------------------
(* The claim *)

LEMMA ClaimCommitMoves ==
    ASSUME IInv, NEW w \in Workers, ClaimCommit(w)
    PROVE  IInv'
<1> DEFINE i == txn[w].invite
           n == Len(accounts) + 1
<1>1. /\ Busy(w, "claim", "locked") /\ Len(accounts) < MaxAccounts
      /\ accounts' = Append(accounts, [role |-> "client", verified |-> TRUE])
      /\ End(w, {v \in Workers : txn[v].stage # "idle"})
  BY DEF ClaimCommit
<1>2. txn \in [Workers -> Txn] /\ \A v \in Workers : txn[v] \in Txn /\ Fits(txn[v])
  BY DEF IInv, TypeOK, TxnsFit
<1>3. /\ accounts \in Seq(Account) /\ [role |-> "client", verified |-> TRUE] \in Account
      /\ invites \in Seq(Invite) /\ Len(invites) <= MaxInvites
      /\ requests \in [Requests -> Row]
  BY DEF IInv, TypeOK, Account
<1>4. /\ accounts' \in Seq(Account) /\ Len(accounts') = n
      /\ DOMAIN accounts' = DOMAIN accounts \cup {n} /\ n \notin DOMAIN accounts
      /\ accounts'[n].verified /\ \A a \in DOMAIN accounts : accounts'[a] = accounts[a]
  BY <1>1, <1>3, RowsAppended
<1>5. n \in 1 .. MaxAccounts /\ n # None /\ n \in Owners /\ n \in 0 .. MaxAccounts
  BY <1>1, <1>3, RowsNumbered, ConstantsAssumption DEF None, Owners
<1> HIDE DEF n
<1>6. i \in Pending /\ Claimed = {} /\ WithPhone(TRUE) = {}
  BY <1>1, <1>2 DEF Busy, Fits, LockFits, ClaimIsFirst
<1>7. Pending = {i} /\ \A v \in Workers \ {w} : txn[v].stage # "locked"
  BY <1>1, <1>6 DEF Busy, IInv, OneWayIn, OneHolder
<1>8. i \in DOMAIN invites /\ invites[i] \in Invite
  BY <1>3, <1>6, RowsNumbered DEF Pending
<1> DEFINE e == [invites[i] EXCEPT !.status = "claimed", !.client = n, !.late = FALSE]
<1>9. e \in Invite /\ e.status = "claimed" /\ e.client = n
  BY <1>5, <1>8 DEF Invite
<1>10. invites' = [invites EXCEPT ![i] = e]
  BY <1>3, <1>4, <1>8 DEF ClaimCommit
<1> HIDE DEF e
<1>11. /\ invites' \in Seq(Invite) /\ Len(invites') = Len(invites)
       /\ DOMAIN invites' = DOMAIN invites
       /\ \A j \in DOMAIN invites : invites'[j] = IF j = i THEN e ELSE invites[j]
  BY <1>3, <1>8, <1>9, <1>10, RowChanged
<1>12. Pending' = {} /\ Claimed' = {i} /\ invites'[i].client = n
  BY <1>6, <1>7, <1>8, <1>9, <1>11 DEF Pending, Claimed
<1>13. WithPhone(TRUE)' = {n} /\ SelfRegistered' = SelfRegistered
  BY <1>4, <1>6 DEF WithPhone, SelfRegistered
<1>14. \A r \in Requests :
         requests'[r] = IF Adopted(r) THEN Marked([requests[r] EXCEPT !.owner = n], w)
                        ELSE [requests[r] EXCEPT !.skipped = SetAside(r)]
  BY <1>4 DEF ClaimCommit
<1>15. ASSUME NEW r \in Requests
       PROVE  /\ requests'[r] \in Row /\ requests'[r].status = requests[r].status
              /\ requests'[r].named = requests[r].named
              /\ requests'[r].token = requests[r].token
              /\ Adopted(r) => requests'[r].owner = n
              /\ ~Adopted(r) => /\ requests'[r].owner = requests[r].owner
                                /\ requests'[r].skipped = SetAside(r)
                                /\ requests'[r].late = requests[r].late
  <2>1. requests[r] \in Row /\ SetAside(r) \in BOOLEAN
    BY <1>3 DEF SetAside
  <2>2. CASE Adopted(r)
    <3> DEFINE base == [requests[r] EXCEPT !.owner = n]
    <3>1. /\ base \in Row /\ base.status = requests[r].status /\ base.owner = n
          /\ base.named = requests[r].named /\ base.token = requests[r].token
      BY <1>5, <2>1 DEF Row
    <3>2. requests'[r] = Marked(base, w)
      BY <1>14, <2>2
    <3> HIDE DEF base
    <3> QED BY <1>2, <2>2, <3>1, <3>2, MarkedRow
  <2>3. CASE ~Adopted(r)
    BY <1>14, <2>1, <2>3 DEF Row
  <2> QED BY <2>2, <2>3
<1>16. requests' \in [Requests -> Row]
  BY <1>15 DEF ClaimCommit
<1>17. /\ txn' \in [Workers -> Txn]
       /\ \A v \in Workers :
            txn'[v] = IF v = w \/ txn[v].stage = "idle" THEN Idle
                      ELSE [txn[v] EXCEPT !.dirty = TRUE]
  <2> DEFINE S == {v \in Workers : txn[v].stage # "idle"}
  <2>1. \A v \in Workers : /\ Overtaken(S)[v] \in Txn
                           /\ Overtaken(S)[v] =
                                IF v \in S THEN [txn[v] EXCEPT !.dirty = TRUE] ELSE txn[v]
    BY <1>2 DEF Overtaken, Txn
  <2>2. Overtaken(S) \in [Workers -> Txn]
    BY <2>1 DEF Overtaken
  <2>3. txn' = [Overtaken(S) EXCEPT ![w] = Idle]
    BY <1>1 DEF End, Continue
  <2>4. \A v \in Workers : v \notin S => txn[v] = Idle
    BY <1>2 DEF Fits, StageFits, Moves
  <2>5. \A v \in Workers : v \in S <=> txn[v].stage # "idle"
    OBVIOUS
  <2> HIDE DEF S
  <2> QED BY <2>1, <2>2, <2>3, <2>4, <2>5, IdleFits
<1>18. ASSUME NEW v \in Workers
       PROVE  Fits(txn[v])' /\ txn'[v].stage # "locked"
  <2>1. CASE v = w \/ txn[v].stage = "idle"
    <3>1. txn'[v] = Idle
      BY <1>17, <2>1
    <3> QED BY <3>1, ConstantsAssumption
         DEF Fits, StageFits, Moves, LockFits, ClaimIsFirst, WantIsOvertaken, ReadHolds, Idle
  <2>2. CASE v # w /\ txn[v].stage # "idle"
    <3> DEFINE d == [txn[v] EXCEPT !.dirty = TRUE]
    <3>1. /\ StageFits(d) /\ LockFits(d) /\ ClaimIsFirst(d) /\ d.dirty
          /\ d.stage = txn[v].stage /\ d.invite = txn[v].invite
      BY <1>2, <2>2, OvertakenFits
    <3>2. txn'[v] = d /\ d.stage # "locked"
      BY <1>7, <1>17, <2>2, <3>1
    <3> HIDE DEF d
    <3>3. ClaimIsFirst(txn[v])' /\ WantIsOvertaken(txn[v])' /\ ReadHolds(txn[v])'
      BY <3>1, <3>2 DEF ClaimIsFirst, WantIsOvertaken, ReadHolds
    <3>4. LockFits(txn[v])'
      BY <1>11, <3>1, <3>2 DEF LockFits
    <3>5. StageFits(txn[v])'
      BY <1>15, <3>1, <3>2 DEF StageFits, Moves
    <3> QED BY <3>2, <3>3, <3>4, <3>5 DEF Fits
  <2> QED BY <2>1, <2>2
<1>19. TypeOK'
  BY <1>3, <1>4, <1>5, <1>11, <1>16, <1>17 DEF TypeOK, Owners
<1>20. (TxnsFit /\ OneHolder)'
  BY <1>18 DEF TxnsFit, OneHolder
<1>21. (OneWayIn /\ NoInviteForAClient)'
  BY <1>12, <1>13 DEF OneWayIn, NoInviteForAClient
<1>22. AbsentIsNothing'
  BY <1>15 DEF IInv, AbsentIsNothing, Adopted, None
<1>23. ClientOwnsTheirRequests'
  BY <1>5, <1>15 DEF ClientOwnsTheirRequests, Adopted, SetAside, None
<1> QED BY <1>19, <1>20, <1>21, <1>22, <1>23 DEF IInv

-----------------------------------------------------------------------------
(* The invariant holds *)

LEMMA IInvStart == Init => IInv
<1> SUFFICES ASSUME Init PROVE IInv
  OBVIOUS
<1>1. accounts = <<>> /\ invites = <<>> /\ txn = [w \in Workers |-> Idle]
      /\ requests = [r \in Requests |-> NoRow]
  BY DEF Init
<1>2. \A S : <<>> \in Seq(S) /\ Len(<<>>) = 0 /\ DOMAIN <<>> = {}
  BY EmptySeq, RowsNumbered
<1>3. Pending = {} /\ Claimed = {} /\ WithPhone(TRUE) = {}
  BY <1>1, <1>2 DEF Pending, Claimed, WithPhone
<1>4. NoRow \in Row
  BY ConstantsAssumption DEF Row, NoRow, Owners, None
<1>5. TypeOK
  BY <1>1, <1>2, <1>4, IdleFits, ConstantsAssumption DEF TypeOK
<1>6. TxnsFit /\ OneHolder
  BY <1>1, IdleFits DEF TxnsFit, OneHolder, Idle
<1>7. AbsentIsNothing /\ ClientOwnsTheirRequests
  BY <1>1, <1>3 DEF AbsentIsNothing, ClientOwnsTheirRequests, NoRow
<1>8. OneWayIn /\ NoInviteForAClient
  BY <1>3 DEF OneWayIn, NoInviteForAClient
<1> QED BY <1>5, <1>6, <1>7, <1>8 DEF IInv

LEMMA IInvStep == IInv /\ [Next]_vars => IInv'
<1> SUFFICES ASSUME IInv, [Next]_vars PROVE IInv'
  OBVIOUS
<1>1. ASSUME NEW w \in Workers, ManagerStep(w) PROVE IInv'
  BY <1>1, BeginMoves, ResolveMoves, WantMoves, LockMoves, CommitLockedMoves,
     CommitInsertMoves, CommitRequestMoves, SendContactMoves, SendAnswerMoves, SendFinalMoves
     DEF ManagerStep
<1>2. ASSUME NEW w \in Workers, ClaimStep(w) PROVE IInv'
  BY <1>2, ClaimLookupMoves, ClaimLockMoves, ClaimCommitMoves DEF ClaimStep
<1>3. ASSUME NEW w \in Workers, Abort(w) PROVE IInv'
  BY <1>3, AbortMoves
<1>4. ASSUME NEW r \in Requests, PartnerQuote(r) \/ OfflineClaim(r) \/ SetStatus(r) PROVE IInv'
  BY <1>4, PartnerQuoteMoves, OfflineClaimMoves, SetStatusMoves
<1>5. ASSUME NEW i \in DOMAIN invites, Age(i) PROVE IInv'
  BY <1>5, AgeMoves
<1>6. CASE Register
  BY <1>6, RegisterMoves
<1>7. CASE UNCHANGED vars
  <2>1. UNCHANGED <<accounts, invites, requests, txn>>
    BY <1>7 DEF vars
  <2>2. TypeOK'
    BY <2>1 DEF IInv, TypeOK, Owners
  <2>3. TxnsFit'
    BY <2>1, FitsOfTheSameRows DEF IInv, TxnsFit
  <2>4. (OneHolder /\ AbsentIsNothing /\ OneWayIn /\ NoInviteForAClient /\ ClientOwnsTheirRequests)'
    BY <2>1 DEF IInv, OneHolder, AbsentIsNothing, OneWayIn, NoInviteForAClient,
       ClientOwnsTheirRequests, Pending, Claimed, WithPhone, SelfRegistered, None
  <2> QED BY <2>2, <2>3, <2>4 DEF IInv
<1> QED BY <1>1, <1>2, <1>3, <1>4, <1>5, <1>6, <1>7 DEF Next

LEMMA IInvAlways == Spec => []IInv
BY IInvStart, IInvStep, PTL DEF Spec

\* What the rows and the calls under way hold: the types of the models the
\* onboarding services write.
THEOREM OnboardingTyped == Spec => []TypeOK
BY IInvAlways, PTL DEF IInv

\* However many managers invite one phone, and whatever client follows the link,
\* one invite is open at a time, one is claimed, and none is open any more once
\* the client has an account (client_invites.py: create_client_invite,
\* claim_client_invite).
THEOREM InvitesEndOnceAlways == Spec => []InvitesEndOnce
<1>1. IInv => InvitesEndOnce
  BY DEF IInv, InvitesEndOnce
<1> QED BY <1>1, IInvAlways, PTL

\* After the claim every request of the phone has its owner
\* (link_pending_quotes_for_client), but for calls that overlapped it, requests the
\* shop was preparing a quote for, cancelled ones, and drafts saved later.
THEOREM ClientOwnsTheirRequestsAlways == Spec => []ClientOwnsTheirRequests
BY IInvAlways, PTL DEF IInv

-----------------------------------------------------------------------------
(* What a step leaves of a request's client *)

\* What RequestKeepsItsClient asks of a step.
Kept(r) ==
    \/ /\ KeptButPhone(requests[r], requests'[r])
       /\ requests[r].named => \/ requests'[r].named
                               \/ \E w \in Holding(r) : Moves(txn[w]) /\ txn'[w] = Idle
    \/ \E w \in Holding(r) : txn[w].dirty /\ txn'[w] # txn[w]

LEMMA CommitKeeps ==
    ASSUME IInv, NEW w \in Workers, Written(w), txn'[w] # txn[w],
           Moves(txn[w]) => txn'[w] = Idle, NEW r \in Requests
    PROVE  Kept(r)
BY DEF Holding, Written, KeptFor, Kept

LEMMA StepKeeps ==
    ASSUME IInv, [Next]_vars, NEW r \in Requests
    PROVE  Kept(r)
<1>1. CASE UNCHANGED requests
  BY <1>1 DEF Kept, KeptButPhone
<1>2. ASSUME NEW w \in Workers,
             CommitLocked(w) \/ CommitInsert(w) \/ CommitRequest(w) \/ SendFinal(w)
      PROVE  Kept(r)
  <2>1. Written(w) /\ txn[w].stage # "idle"
    BY <1>2, CommitLockedMoves, CommitInsertMoves, CommitRequestMoves, SendFinalMoves
       DEF CommitLocked, CommitInsert, CommitRequest, SendFinal
  <2>2. txn'[w] = Idle
    <3>1. End(w, Holding(txn[w].request))
      BY <1>2 DEF CommitLocked, CommitInsert, CommitRequest, SendFinal
    <3>2. w \in DOMAIN Overtaken(Holding(txn[w].request))
      BY DEF Overtaken
    <3> QED BY <3>1, <3>2 DEF End, Continue
  <2>3. Idle.stage = "idle"
    BY DEF Idle
  <2> QED BY <2>1, <2>2, <2>3, CommitKeeps
<1>3. ASSUME NEW w \in Workers, SendContact(w)
      PROVE  Kept(r)
  <2>1. Written(w) /\ txn'[w] # txn[w] /\ ~Moves(txn[w])
    BY <1>3, SendContactMoves DEF SendContact, IInv, TxnsFit, Fits, StageFits, Moves
  <2> QED BY <2>1, CommitKeeps
<1>4. ASSUME NEW w \in Workers, SendAnswer(w)
      PROVE  Kept(r)
  <2>1. requests \in [Requests -> Row] /\ requests[r] \in Row
    BY DEF IInv, TypeOK
  <2> QED BY <1>4, <2>1 DEF SendAnswer, Kept, KeptButPhone, Row
<1>5. ASSUME NEW w \in Workers, ClaimCommit(w)
      PROVE  Kept(r)
  <2>1. requests[r] \in Row
    BY DEF IInv, TypeOK
  <2>2. PICK n : n = Len(accounts')
    OBVIOUS
  <2>3. requests'[r] = IF Adopted(r) THEN Marked([requests[r] EXCEPT !.owner = n], w)
                       ELSE [requests[r] EXCEPT !.skipped = SetAside(r)]
    BY <1>5, <2>2 DEF ClaimCommit
  <2>4. CASE Adopted(r)
    BY <2>1, <2>3, <2>4 DEF Kept, KeptButPhone, Adopted, Marked, Row
  <2>5. CASE ~Adopted(r)
    BY <2>1, <2>3, <2>5 DEF Kept, KeptButPhone, Row
  <2> QED BY <2>4, <2>5
<1>6. ASSUME NEW q \in Requests, PartnerQuote(q)
      PROVE  Kept(r)
  BY <1>6, PartnerQuoteMoves DEF Kept, KeptFor, KeptButPhone
<1>7. ASSUME NEW q \in Requests, OfflineClaim(q) \/ SetStatus(q)
      PROVE  Kept(r)
  <2>1. requests[r] \in Row /\ requests \in [Requests -> Row]
    BY DEF IInv, TypeOK
  <2>2. CASE OfflineClaim(q)
    <3>1. requests' = [requests EXCEPT ![q] = Shown(requests[q])] /\ requests[q].owner = None
      BY <2>2 DEF OfflineClaim, Shown
    <3>2. /\ Shown(requests[q]).named = requests[q].named
          /\ Shown(requests[q]).token = requests[q].token
      BY <2>1 DEF Row, Shown
    <3> QED BY <2>1, <3>1, <3>2 DEF Kept, KeptButPhone
  <2>3. CASE SetStatus(q)
    BY <2>1, <2>3 DEF SetStatus, Kept, KeptButPhone, Row
  <2> QED BY <1>7, <2>2, <2>3
<1> QED BY <1>1, <1>2, <1>3, <1>4, <1>5, <1>6, <1>7
        DEF Next, vars, ManagerStep, ClaimStep, Begin, Resolve, Want, LockInvite, ClaimLookup,
            ClaimLock, Abort, Register, Age

\* A request's owner, phone and token outlive every step, except a save of a copy
\* that was read before it gained them (PartnerQuoteAttachClientView and
\* PartnerQuoteSendToClientView save a row they read without a lock); the phone
\* also yields to an attach to a client with another one.
THEOREM RequestKeepsItsClientAlways == Spec => RequestKeepsItsClient
<1>1. IInv /\ [Next]_vars =>
        [\A r \in Requests :
           \/ /\ requests[r].owner # None => requests'[r].owner = requests[r].owner
              /\ requests[r].token => requests'[r].token
              /\ requests[r].named => \/ requests'[r].named
                                      \/ \E w \in Holding(r) : Moves(txn[w]) /\ txn'[w] = Idle
           \/ \E w \in Holding(r) : txn[w].dirty /\ txn'[w] # txn[w]]_vars
  BY StepKeeps DEF Kept, KeptButPhone
<1> QED BY <1>1, IInvAlways, PTL DEF Spec, RequestKeepsItsClient
=============================================================================
