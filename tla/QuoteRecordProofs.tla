-------------------------- MODULE QuoteRecordProofs --------------------------
(***************************************************************************)
(* What is proved of the two records a quote leaves behind: the versions   *)
(* and outcomes of QuoteVersions, and the e-mail of EmailOutbox.  Each     *)
(* part states its inductive invariant, shows that every action keeps it,  *)
(* and draws the theorems from it.                                         *)
(***************************************************************************)
EXTENDS QuoteVersions, EmailOutbox, FiniteSetTheorems, SequenceTheorems, TLAPS

-----------------------------------------------------------------------------
\* Versions and outcomes.

\* The versions of quote q among rows vs, and the newest of them: VersionsOf and
\* LatestOf of QuoteVersions, for rows given.
Of(vs, q)   == {n \in DOMAIN vs : q \in {0, vs[n].quote}}
Last(vs, q) == Highest(Of(vs, q))

\* Highest finds the maximum.
LEMMA HighestIsMaximum ==
    ASSUME NEW n \in Nat, NEW S, S \subseteq 1 .. n, S # {}
    PROVE  Highest(S) \in S /\ \A k \in S : k <= Highest(S)
<1> DEFINE Gaps == {g \in 0 .. n : n - g \in S}
<1>1. \A k \in S : k \in Nat /\ k <= n /\ n - k \in Gaps /\ n - (n - k) = k
  <2> SUFFICES ASSUME NEW k \in S PROVE k \in Nat /\ k <= n /\ n - k \in Gaps /\ n - (n - k) = k
    OBVIOUS
  <2>1. k \in 1 .. n
    OBVIOUS
  <2>2. n - (n - k) = k /\ n - k \in 0 .. n
    BY <2>1
  <2> QED BY <2>1, <2>2
<1>2. Gaps \subseteq Nat /\ Gaps # {}
  <2>1. PICK k \in S : TRUE
    OBVIOUS
  <2>2. n - k \in Gaps
    BY <1>1
  <2>3. Gaps # {}
    BY <2>2
  <2> QED BY <2>3
<1>3. PICK g \in Gaps : \A h \in Gaps : ~ <<h, g>> \in OpToRel(<, Nat)
  <2> HIDE DEF Gaps
  <2> QED BY <1>2, WFMin, NatLessThanWellFounded
<1>4. \A h \in Gaps : ~ (h < g)
  BY <1>2, <1>3 DEF OpToRel
<1>5. \A k \in S : k <= n - g
  BY <1>1, <1>4
<1>6. n - g \in S
  BY <1>3
<1>7. \E m \in S : \A k \in S : k <= m
  BY <1>5, <1>6
<1> QED BY <1>7 DEF Highest

\* The newest version of a quote is one of its versions, and none is later.
LEMMA RowsInRange ==
    ASSUME NEW vs \in Seq(Version), NEW q
    PROVE  /\ Len(vs) \in Nat /\ DOMAIN vs = 1 .. Len(vs)
           /\ Of(vs, q) \subseteq DOMAIN vs
           /\ Of(vs, q) = {} => Last(vs, q) = 0
           /\ Of(vs, q) # {} => /\ Last(vs, q) \in Of(vs, q)
                                /\ \A k \in Of(vs, q) : k <= Last(vs, q)
<1>1. Len(vs) \in Nat /\ DOMAIN vs = 1 .. Len(vs)
  OBVIOUS
<1>2. Of(vs, q) \subseteq 1 .. Len(vs)
  BY <1>1 DEF Of
<1>3. Of(vs, q) = {} => Last(vs, q) = 0
  BY DEF Last, Highest
<1>4. Of(vs, q) # {} => Last(vs, q) \in Of(vs, q) /\ \A k \in Of(vs, q) : k <= Last(vs, q)
  BY <1>1, <1>2, HighestIsMaximum DEF Last
<1> QED BY <1>1, <1>2, <1>3, <1>4

\* A change that keeps the quote of every row keeps who is newest.
LEMMA SameQuotesSameLast ==
    ASSUME NEW vs, NEW ws, DOMAIN ws = DOMAIN vs,
           \A n \in DOMAIN vs : ws[n].quote = vs[n].quote, NEW q
    PROVE  Of(ws, q) = Of(vs, q) /\ Last(ws, q) = Last(vs, q)
<1>1. Of(ws, q) = Of(vs, q)
  BY DEF Of
<1> QED BY <1>1 DEF Last

\* A row appended is the newest of its quote and changes nothing for the others.
LEMMA NewRowIsLast ==
    ASSUME NEW vs \in Seq(Version), NEW ws \in Seq(Version), Len(ws) = Len(vs) + 1,
           \A n \in DOMAIN vs : ws[n].quote = vs[n].quote, NEW q
    PROVE  IF q \in {0, ws[Len(ws)].quote}
             THEN Of(ws, q) = Of(vs, q) \cup {Len(ws)} /\ Last(ws, q) = Len(ws)
             ELSE Of(ws, q) = Of(vs, q) /\ Last(ws, q) = Last(vs, q)
<1>1. /\ Len(vs) \in Nat /\ DOMAIN vs = 1 .. Len(vs)
      /\ DOMAIN ws = 1 .. Len(ws) /\ DOMAIN ws = DOMAIN vs \cup {Len(ws)}
  OBVIOUS
<1>2. CASE q \in {0, ws[Len(ws)].quote}
  <2>1. Of(ws, q) = Of(vs, q) \cup {Len(ws)}
    BY <1>1, <1>2 DEF Of
  <2>2. Last(ws, q) \in Of(ws, q) /\ \A k \in Of(ws, q) : k <= Last(ws, q)
    BY <2>1, RowsInRange
  <2>3. \A k \in Of(ws, q) : k \in 1 .. Len(ws)
    BY <1>1 DEF Of
  <2>4. Last(ws, q) \in 1 .. Len(ws) /\ Len(ws) <= Last(ws, q) /\ Len(ws) \in Nat
    BY <1>1, <2>1, <2>2, <2>3
  <2>5. Last(ws, q) = Len(ws)
    BY <2>4
  <2> QED BY <1>2, <2>1, <2>5
<1>3. CASE q \notin {0, ws[Len(ws)].quote}
  <2>1. Of(ws, q) = Of(vs, q)
    BY <1>1, <1>3 DEF Of
  <2> QED BY <1>3, <2>1 DEF Last
<1> QED BY <1>2, <1>3

\* The response that a refused request is recorded under is a quote, or none.
LEMMA LatestResponseIsQuote == LatestResponse \in 0 .. LastQuote
<1> DEFINE S == {q \in Quotes : status[q] # "pending"}
<1>1. S \subseteq 1 .. LastQuote /\ LastQuote \in Nat
  BY QuoteVersionsAssumption DEF Quotes
<1>2. S = {} => Highest(S) = 0
  BY DEF Highest
<1>3. S # {} => Highest(S) \in S
  BY <1>1, HighestIsMaximum
<1>4. LatestResponse = Highest(S)
  BY DEF LatestResponse
<1> QED BY <1>1, <1>2, <1>3, <1>4
\* A save of outcomes keeps the quote and the price of every row.
LEMMA OutcomesSaved ==
    ASSUME NEW vs \in Seq(Version), NEW S, NEW o \in Outcomes,
           NEW ws, ws = [n \in DOMAIN vs |-> IF n \in S THEN [vs[n] EXCEPT !.outcome = o] ELSE vs[n]]
    PROVE  /\ ws \in Seq(Version) /\ Len(ws) = Len(vs) /\ DOMAIN ws = DOMAIN vs
           /\ \A n \in DOMAIN vs : /\ ws[n].quote = vs[n].quote /\ ws[n].price = vs[n].price
                                   /\ ws[n].outcome = IF n \in S THEN o ELSE vs[n].outcome
<1>1. Len(vs) \in Nat /\ DOMAIN vs = 1 .. Len(vs) /\ \A n \in DOMAIN vs : vs[n] \in Version
  BY LenProperties
<1>2. \A n \in DOMAIN vs : ws[n] \in Version
  BY <1>1 DEF Version
<1>3. \A n \in DOMAIN vs : /\ ws[n].quote = vs[n].quote /\ ws[n].price = vs[n].price
                           /\ ws[n].outcome = IF n \in S THEN o ELSE vs[n].outcome
  BY <1>1 DEF Version
<1>4. ws \in [1 .. Len(vs) -> Version]
  BY <1>1, <1>2
<1>5. ws \in Seq(Version) /\ Len(ws) = Len(vs)
  BY <1>1, <1>4
<1> QED BY <1>1, <1>3, <1>5

\* Close changes the outcome of one row.
LEMMA OutcomeClosed ==
    ASSUME NEW vs \in Seq(Version), NEW n \in DOMAIN vs, NEW o \in Outcomes,
           NEW ws, ws = Close(vs, n, o)
    PROVE  /\ ws \in Seq(Version) /\ Len(ws) = Len(vs) /\ DOMAIN ws = DOMAIN vs
           /\ \A m \in DOMAIN vs : /\ ws[m].quote = vs[m].quote /\ ws[m].price = vs[m].price
                                   /\ ws[m].outcome = IF m = n THEN o ELSE vs[m].outcome
<1> DEFINE N == {n}
<1>1. ws = [m \in DOMAIN vs |-> IF m \in N THEN [vs[m] EXCEPT !.outcome = o] ELSE vs[m]]
  BY DEF Close
<1>2. /\ ws \in Seq(Version) /\ Len(ws) = Len(vs) /\ DOMAIN ws = DOMAIN vs
      /\ \A m \in DOMAIN vs : /\ ws[m].quote = vs[m].quote /\ ws[m].price = vs[m].price
                              /\ ws[m].outcome = IF m \in N THEN o ELSE vs[m].outcome
  <2> HIDE DEF N
  <2> QED BY <1>1, OutcomesSaved
<1> QED BY <1>2

\* Append adds one row and keeps the others.
LEMMA RowAppended ==
    ASSUME NEW vs \in Seq(Version), NEW r \in Version, NEW ws, ws = Append(vs, r)
    PROVE  /\ ws \in Seq(Version) /\ Len(ws) = Len(vs) + 1 /\ Len(ws) \in Nat
           /\ DOMAIN ws = 1 .. Len(ws) /\ DOMAIN vs = 1 .. Len(vs) /\ DOMAIN ws = DOMAIN vs \cup {Len(ws)}
           /\ ws[Len(ws)] = r /\ \A n \in DOMAIN vs : n # Len(ws) /\ ws[n] = vs[n]
<1>1. Len(vs) \in Nat /\ DOMAIN vs = 1 .. Len(vs)
  BY LenProperties
<1>2. ws \in Seq(Version) /\ Len(ws) = Len(vs) + 1 /\ ws[Len(ws)] = r
      /\ \A n \in 1 .. Len(vs) : ws[n] = vs[n]
  BY AppendProperties
<1>3. DOMAIN ws = 1 .. Len(ws)
  BY <1>2, LenProperties
<1> QED BY <1>1, <1>2, <1>3

\* The steps of record_quote_version after the quote is saved, and those on which a
\* handler still works with the quote it read.
Recorders == {"recording", "numbering", "inserting"}
OnAQuote  == {"revise", "send", "reject", "expire", "stale"}

\* Those for which the price of the quote no longer matters.
NoPriceAt == {"idle", "stale", "retiring", "closing", "ending"}

\* What a task holds whatever else runs: the open versions it will supersede are
\* versions of its quote, it never marks a version accepted, and it names rows that exist.
SoundTask(t) ==
    /\ t.at \in {"numbering", "inserting"} => t.open \subseteq VersionsOf(t.quote)
    /\ t.at \in {"marking", "retiring", "closing"} => t.outcome \in {"lost", "expired"}
    /\ t.outcome \in {"open", "lost", "expired"}
    /\ t.at \in {"stale", "retiring", "closing"} => t.ver \in DOMAIN versions
    /\ t.at \in OnAQuote => t.quote # 0
    /\ t.at \notin NoPriceAt /\ t.quote # 0 => t.price \in Prices
    /\ t.at = "marking" /\ t.quote = 0 => t.op = "refuse"
    /\ t.at \in Ops => t.op = t.at

\* Every worker has a sound task.
TasksSound == \A w \in Workers : SoundTask(work[w])

\* An accepted version belongs to a quote that was paid for, and a quote that was
\* paid for has a version.
AcceptedWasAgreed ==
    /\ \A n \in DOMAIN versions :
         versions[n].outcome = "accepted" => versions[n].quote # 0 /\ agreed[versions[n].quote] # NoPrice
    /\ \A q \in Quotes : agreed[q] # NoPrice => VersionsOf(q) # {}

\* While no request overlaps another, one worker at most is at work.
OneBusy == \A v, w \in Workers : Busy(v) /\ Busy(w) => v = w

\* What the one worker at work has read is still so: the status and the price of its
\* quote, that its version may still be closed, the open versions it will supersede.
ReadTask(t) ==
    /\ t.at \in OnAQuote => t.status = status[t.quote]
    /\ t.at \in OnAQuote \ {"stale"} => MayStart(t.at, t.quote)
    /\ t.at \notin NoPriceAt /\ t.quote # 0 => t.price = total[t.quote]
    /\ t.at = "stale" => versions[t.ver].outcome = "open" /\ t.quote = versions[t.ver].quote
    /\ t.at \in {"numbering", "inserting"} => t.open = OpenOf(t.quote)
    /\ t.at \in Recorders => IF t.quote # 0 THEN agreed[t.quote] = NoPrice
                             ELSE t.at = "recording" => versions = << >>

\* What every worker has read is still so.
WhatWasRead == \A w \in Workers : ReadTask(work[w])

\* Once a quote is paid for, its newest version is closed.
AgreedIsLast == \A q \in Quotes : agreed[q] # NoPrice =>
    /\ status[q] \in {"accepted", "rejected"}
    /\ versions[LatestOf(q)].outcome \notin {"open", "superseded"}

\* An accepted version is the newest of its quote.
AcceptedIsLast == \A n \in DOMAIN versions : versions[n].outcome = "accepted" =>
    n = LatestOf(versions[n].quote) /\ status[versions[n].quote] = "accepted"

\* The newest version of a quote has its price, or the price it was paid for at,
\* unless a recorder is about to write the next one.
LastIsPriced == ~failed => \A q \in Quotes \ unversioned :
    \/ VersionsOf(q) = {}
    \/ versions[LatestOf(q)].price = (IF agreed[q] # NoPrice THEN agreed[q] ELSE total[q])
    \/ \E w \in Workers : work[w].at \in Recorders /\ work[w].quote = q

\* What needs the requests to follow one another.
Serial == ~overlapped => OneBusy /\ OneOpenVersion /\ WhatWasRead /\ AgreedIsLast /\ AcceptedIsLast /\ LastIsPriced

\* The inductive invariant. VersionsInOrder alone is not: that one version is open
\* after an insert rests on the list of open versions having been read after the
\* last one was inserted (WhatWasRead), which rests on nobody else writing (OneBusy).
Inv == TypeOK /\ LatestStands /\ TasksSound /\ AcceptedWasAgreed /\ Serial

\* What each action does to the task of its worker.
LEMMA TaskSet ==
    ASSUME NEW w \in Workers, work \in [Workers -> Task], NEW t \in Task,
           work' = [work EXCEPT ![w] = t]
    PROVE  work' \in [Workers -> Task] /\ work'[w] = t /\ \A v \in Workers \ {w} : work'[v] = work[v]
OBVIOUS

\* No work is a task.
LEMMA IdleIsTask == Idle \in Task
BY QuoteVersionsAssumption DEF Idle, Task, Ops, Outcomes, Numbers, Statuses, Progress

\* What TypeOK says of single rows and tasks.
LEMMA TypesHeld ==
    ASSUME TypeOK
    PROVE  /\ Len(versions) \in Nat /\ DOMAIN versions = 1 .. Len(versions) /\ DOMAIN versions \subseteq Numbers
           /\ \A n \in DOMAIN versions : versions[n] \in Version
           /\ \A w \in Workers : work[w] \in Task
<1>1. Len(versions) \in Nat /\ DOMAIN versions = 1 .. Len(versions) /\ Len(versions) <= MaxVersions
      /\ \A n \in DOMAIN versions : versions[n] \in Version
  BY LenProperties DEF TypeOK
<1>2. DOMAIN versions \subseteq Numbers
  BY <1>1, QuoteVersionsAssumption DEF Numbers
<1> QED BY <1>1, <1>2 DEF TypeOK

\* Every action keeps the types: one lemma each.
LEMMA StartOnQuoteTyped ==
    ASSUME Inv, NEW w \in Workers, NEW q \in Quotes, NEW op \in Ops, StartOnQuote(w, op, q)
    PROVE  TypeOK'
<1> DEFINE t == [Idle EXCEPT !.op = op, !.at = op, !.quote = q, !.price = total[q],
                             !.status = status[q],
                             !.req = IF op = "expire" THEN req ELSE Idle.req]
<1>1. total[q] \in Prices /\ status[q] \in Statuses /\ q \in 0 .. LastQuote /\ req \in Progress
  BY QuoteVersionsAssumption DEF Inv, TypeOK, Quotes
<1>2. t \in Task
  BY <1>1, IdleIsTask DEF Idle, Task
<1>3. work' \in [Workers -> Task]
  BY <1>2, TaskSet DEF StartOnQuote, Begin, Inv, TypeOK
<1> QED BY <1>3, QuoteVersionsAssumption DEF StartOnQuote, Begin, Inv, TypeOK, quoteVars, Busy

LEMMA StartRefuseTyped ==
    ASSUME Inv, NEW w \in Workers, StartRefuse(w)
    PROVE  TypeOK'
<1> DEFINE t == [Idle EXCEPT !.op = "refuse", !.at = "refuse"]
<1>1. t \in Task
  BY IdleIsTask DEF Idle, Task, Ops
<1>2. work' \in [Workers -> Task]
  BY <1>1, TaskSet DEF StartRefuse, Begin, Inv, TypeOK
<1> QED BY <1>2, QuoteVersionsAssumption DEF StartRefuse, Begin, Inv, TypeOK, quoteVars, Busy

LEMMA StartStaleTyped ==
    ASSUME Inv, NEW w \in Workers, NEW n \in DOMAIN versions, StartStale(w, n)
    PROVE  TypeOK'
<1> DEFINE t == [Idle EXCEPT !.op = "stale", !.at = "stale", !.quote = versions[n].quote, !.ver = n,
                             !.status = status[versions[n].quote], !.req = req]
<1>1. versions[n] \in Version /\ n \in Numbers
  BY TypesHeld DEF Inv
<1>2. versions[n].quote \in 0 .. LastQuote /\ versions[n].quote # 0
  BY <1>1 DEF Version, StartStale
<1>3. status[versions[n].quote] \in Statuses /\ req \in Progress
  BY <1>2, QuoteVersionsAssumption DEF Inv, TypeOK, Quotes
<1>4. t \in Task
  BY <1>1, <1>2, <1>3, IdleIsTask DEF Idle, Task, Ops
<1>5. work' \in [Workers -> Task]
  BY <1>4, TaskSet DEF StartStale, Begin, Inv, TypeOK
<1> QED BY <1>5, QuoteVersionsAssumption DEF StartStale, Begin, Inv, TypeOK, quoteVars, Busy

\* A worker's task, with some of its fields changed.
LEMMA TaskChanged ==
    ASSUME NEW t \in Task, NEW at \in Ops \cup Later \cup {"idle"}, NEW quote \in 0 .. LastQuote,
           NEW price \in Prices \cup {NoPrice}, NEW outcome \in Outcomes, NEW ver \in Numbers,
           NEW open \in SUBSET Numbers, NEW st \in Statuses, NEW rq \in Progress
    PROVE  /\ [t EXCEPT !.at = at, !.price = price, !.status = st] \in Task
           /\ [t EXCEPT !.at = at, !.outcome = outcome, !.status = st] \in Task
           /\ [t EXCEPT !.at = at, !.outcome = outcome, !.quote = quote, !.price = price] \in Task
           /\ [t EXCEPT !.at = at, !.ver = ver] \in Task
           /\ [t EXCEPT !.at = at, !.quote = quote, !.price = price, !.open = open] \in Task
           /\ [t EXCEPT !.at = at, !.req = rq] \in Task
           /\ [t EXCEPT !.at = at] \in Task
BY DEF Task

\* A task that has dealt with its version is over, or goes on to its request.
LEMMA AfterVersionTask ==
    ASSUME TypeOK, NEW w \in Workers, AfterVersion(w)
    PROVE  /\ work' \in [Workers -> Task]
           /\ \A v \in Workers \ {w} : work'[v] = work[v]
           /\ (work'[w] = Idle \/ (work'[w].at = "ending" /\ work'[w].outcome = "open"))
<1> DEFINE e == [Idle EXCEPT !.op = "expire", !.at = "ending", !.quote = work[w].quote,
                             !.req = work[w].req, !.early = work[w].early]
<1>1. work[w] \in Task
  BY DEF TypeOK
<1>2. e \in Task /\ e.at = "ending" /\ e.outcome = "open"
  BY <1>1, IdleIsTask DEF Task, Idle, Ops, Later
<1>3. work' = [work EXCEPT ![w] = Idle] \/ work' = [work EXCEPT ![w] = e]
  BY DEF AfterVersion
<1> HIDE DEF e
<1> QED BY <1>2, <1>3, IdleIsTask DEF TypeOK

\* The fields of a worker's task.
LEMMA QuoteOfTask ==
    ASSUME TypeOK, TasksSound, NEW w \in Workers
    PROVE  /\ work[w] \in Task /\ work[w].quote \in 0 .. LastQuote
           /\ work[w].at \in OnAQuote => work[w].quote \in Quotes
           /\ work[w].price \in Prices \cup {NoPrice} /\ work[w].outcome \in {"open", "lost", "expired"}
           /\ work[w].status \in Statuses /\ work[w].req \in Progress
           /\ work[w].at \in Ops \cup Later \cup {"idle"} /\ work[w].ver \in Numbers
           /\ work[w].open \in SUBSET Numbers
<1>1. work[w] \in Task
  BY TypesHeld
<1>2. work[w].at \in OnAQuote => work[w].quote \in Quotes
  BY <1>1, QuoteVersionsAssumption DEF TasksSound, SoundTask, Task, Quotes
<1>3. work[w].outcome \in {"open", "lost", "expired"}
  BY DEF TasksSound, SoundTask
<1> QED BY <1>1, <1>2, <1>3 DEF Task

LEMMA SaveRevisionTyped ==
    ASSUME Inv, NEW w \in Workers, SaveRevision(w)
    PROVE  TypeOK'
<1> DEFINE q == work[w].quote
<1>1. work[w] \in Task /\ q \in Quotes
  BY QuoteOfTask DEF Inv, OnAQuote, SaveRevision
<1>2. PICK p \in Prices, s \in {"pending", "offered", "accepted", "rejected"} :
         /\ total' = [total EXCEPT ![q] = p]
         /\ status' = [status EXCEPT ![q] = s]
         /\ req' = CASE s = "pending" -> "working"
                     [] s = "rejected" -> "dead"
                     [] OTHER -> "quoted"
         /\ IF s = "accepted" THEN UNCHANGED reopened ELSE Overwrites(w, q)
         /\ IF s = "pending"
              THEN /\ Done(w)
                   /\ unversioned' = unversioned \cup {q}
              ELSE /\ work' = [work EXCEPT ![w].at = "recording", ![w].price = p,
                                        ![w].status = Idle.status]
                   /\ unversioned' = unversioned
  BY DEF SaveRevision
<1>3. status' \in [Quotes -> Statuses] /\ total' \in [Quotes -> Prices] /\ req' \in Progress
      /\ unversioned' \subseteq Quotes /\ reopened' \subseteq Quotes
  BY <1>1, <1>2 DEF Inv, TypeOK, Statuses, Progress, Overwrites
<1>4. Idle.status \in Statuses /\ "recording" \in Later
  BY DEF Idle, Statuses, Later
<1>5. [work[w] EXCEPT !.at = "recording", !.price = p, !.status = Idle.status] \in Task
  BY <1>1, <1>4, TaskChanged DEF Task
<1>6. work' = [work EXCEPT ![w] = Idle]
      \/ work' = [work EXCEPT ![w] = [work[w] EXCEPT !.at = "recording", !.price = p, !.status = Idle.status]]
  BY <1>2 DEF Done
<1>7. work' \in [Workers -> Task]
  BY <1>5, <1>6, IdleIsTask DEF Inv, TypeOK
<1>8. UNCHANGED <<versions, agreed, started, overlapped, failed>>
  BY DEF SaveRevision
<1> QED BY <1>3, <1>7, <1>8 DEF Inv, TypeOK

LEMMA SendToClientTyped ==
    ASSUME Inv, NEW w \in Workers, SendToClient(w)
    PROVE  TypeOK'
<1> DEFINE q == work[w].quote
           draft == work[w].status = "pending"
<1>1. work[w] \in Task /\ q \in Quotes
  BY QuoteOfTask DEF Inv, OnAQuote, SendToClient
<1>2. PICK p \in Prices :
         /\ total' = [total EXCEPT ![q] = p]
         /\ IF draft THEN work' = [work EXCEPT ![w].at = "recording", ![w].price = p,
                                          ![w].status = Idle.status]
                     ELSE Done(w)
  BY DEF SendToClient
<1>3. /\ status' = IF draft THEN [status EXCEPT ![q] = "offered"] ELSE status
      /\ req' \in IF draft THEN {"quoted"} ELSE {req, IF req = "working" THEN "quoted" ELSE req}
      /\ unversioned' = IF draft THEN unversioned ELSE unversioned \cup {q}
      /\ IF draft THEN Overwrites(w, q) ELSE UNCHANGED reopened
      /\ UNCHANGED <<versions, agreed, started, overlapped, failed>>
  BY DEF SendToClient
<1>4. status' \in [Quotes -> Statuses] /\ total' \in [Quotes -> Prices] /\ req' \in Progress
      /\ unversioned' \subseteq Quotes /\ reopened' \subseteq Quotes
  BY <1>1, <1>2, <1>3 DEF Inv, TypeOK, Statuses, Progress, Overwrites
<1>5. Idle.status \in Statuses /\ "recording" \in Later
  BY DEF Idle, Statuses, Later
<1>6. [work[w] EXCEPT !.at = "recording", !.price = p, !.status = Idle.status] \in Task
  BY <1>1, <1>5, TaskChanged DEF Task
<1>7. work' = [work EXCEPT ![w] = Idle]
      \/ work' = [work EXCEPT ![w] = [work[w] EXCEPT !.at = "recording", !.price = p, !.status = Idle.status]]
  BY <1>2 DEF Done
<1>8. work' \in [Workers -> Task]
  BY <1>6, <1>7, IdleIsTask DEF Inv, TypeOK
<1> QED BY <1>3, <1>4, <1>8 DEF Inv, TypeOK

LEMMA SaveRejectedTyped ==
    ASSUME Inv, NEW w \in Workers, SaveRejected(w) \/ SaveExpired(w)
    PROVE  TypeOK'
<1>1. work[w] \in Task /\ work[w].quote \in Quotes
  BY QuoteOfTask DEF Inv, OnAQuote, SaveRejected, SaveExpired
<1>2. status' \in [Quotes -> Statuses] /\ reopened' \subseteq Quotes
  BY <1>1 DEF Inv, TypeOK, Statuses, SaveRejected, SaveExpired, Overwrites
<1>3. Idle.status \in Statuses /\ "marking" \in Later /\ {"lost", "expired"} \subseteq Outcomes
  BY DEF Idle, Statuses, Later, Outcomes
<1>4. \A o \in {"lost", "expired"} : [work[w] EXCEPT !.at = "marking", !.outcome = o, !.status = Idle.status] \in Task
  <2> SUFFICES ASSUME NEW o \in {"lost", "expired"}
               PROVE  [work[w] EXCEPT !.at = "marking", !.outcome = o, !.status = Idle.status] \in Task
    OBVIOUS
  <2>1. o \in Outcomes
    BY <1>3
  <2> QED BY <1>1, <1>3, <2>1, TaskChanged DEF Task
<1>5. \E o \in {"lost", "expired"} :
         work' = [work EXCEPT ![w] = [work[w] EXCEPT !.at = "marking", !.outcome = o, !.status = Idle.status]]
  BY DEF SaveRejected, SaveExpired
<1>6. work' \in [Workers -> Task]
  BY <1>4, <1>5 DEF Inv, TypeOK
<1> QED BY <1>2, <1>6 DEF Inv, TypeOK, SaveRejected, SaveExpired

LEMMA SaveRefusedTyped ==
    ASSUME Inv, NEW w \in Workers, SaveRefused(w)
    PROVE  TypeOK'
<1>1. work[w] \in Task /\ LatestResponse \in 0 .. LastQuote
  BY QuoteOfTask, LatestResponseIsQuote DEF Inv
<1>2. "marking" \in Later /\ "lost" \in Outcomes
  BY DEF Later, Outcomes
<1> DEFINE p == IF LatestResponse = 0 THEN NoPrice ELSE total[LatestResponse]
<1>3. p \in Prices \cup {NoPrice}
  BY <1>1, QuoteVersionsAssumption DEF Inv, TypeOK, Quotes
<1>4. [work[w] EXCEPT !.at = "marking", !.outcome = "lost", !.quote = LatestResponse, !.price = p] \in Task
  <2> HIDE DEF p
  <2> QED BY <1>1, <1>2, <1>3, TaskChanged DEF Task
<1>5. work' = [work EXCEPT ![w] = [work[w] EXCEPT !.at = "marking", !.outcome = "lost", !.quote = LatestResponse, !.price = p]]
  BY DEF SaveRefused
<1>6. work' \in [Workers -> Task]
  BY <1>4, <1>5 DEF Inv, TypeOK
<1> QED BY <1>6 DEF Inv, TypeOK, SaveRefused, Progress, history

LEMMA SaveStaleTyped ==
    ASSUME Inv, NEW w \in Workers, SaveStale(w)
    PROVE  TypeOK'
<1> DEFINE t == [work[w] EXCEPT !.at = "retiring", !.outcome = "expired", !.status = Idle.status]
<1>1. work[w] \in Task /\ work[w].quote \in Quotes
  BY QuoteOfTask DEF Inv, OnAQuote, SaveStale
<1>2. "retiring" \in Later /\ "expired" \in Outcomes /\ Idle.status \in Statuses
  BY DEF Later, Outcomes, Idle, Statuses
<1>3. t \in Task
  BY <1>1, <1>2, TaskChanged DEF Task
<1>4. work' = [work EXCEPT ![w] = t]
  BY DEF SaveStale
<1>5. work' \in [Workers -> Task]
  <2> HIDE DEF t
  <2> QED BY <1>3, <1>4 DEF Inv, TypeOK
<1>6. status' \in [Quotes -> Statuses] /\ reopened' \subseteq Quotes
  BY <1>1 DEF Inv, TypeOK, Statuses, SaveStale, Overwrites
<1> QED BY <1>5, <1>6 DEF Inv, TypeOK, SaveStale

\* What the request becomes when an offer expires.
LEMMA ExpiredRequest == ASSUME req \in Progress, NEW seen PROVE MayExpire(seen) \subseteq Progress
BY DEF MayExpire, Progress

LEMMA SaveRetiredTyped ==
    ASSUME Inv, NEW w \in Workers, SaveRetired(w)
    PROVE  TypeOK'
<1> DEFINE t == [work[w] EXCEPT !.at = "closing", !.req = Idle.req]
<1>1. work[w] \in Task
  BY QuoteOfTask DEF Inv
<1>2. "closing" \in Later /\ Idle.req \in Progress
  BY DEF Later, Idle, Progress
<1>3. t \in Task
  BY <1>1, <1>2, TaskChanged DEF Task
<1>4. work' = [work EXCEPT ![w] = t]
  BY DEF SaveRetired
<1>5. work' \in [Workers -> Task]
  <2> HIDE DEF t
  <2> QED BY <1>3, <1>4 DEF Inv, TypeOK
<1>6. req' \in Progress
  BY ExpiredRequest DEF Inv, TypeOK, SaveRetired
<1> QED BY <1>5, <1>6 DEF Inv, TypeOK, SaveRetired, history

LEMMA SaveEndedTyped ==
    ASSUME Inv, NEW w \in Workers, SaveEnded(w)
    PROVE  TypeOK'
<1>1. work' \in [Workers -> Task]
  BY IdleIsTask DEF Inv, TypeOK, SaveEnded, Done
<1>2. req' \in Progress
  BY ExpiredRequest DEF Inv, TypeOK, SaveEnded
<1> QED BY <1>1, <1>2 DEF Inv, TypeOK, SaveEnded, history

\* LatestOf finds a version of its quote.
LEMMA LatestInRange ==
    ASSUME TypeOK, NEW q
    PROVE  /\ LatestOf(q) = Last(versions, q) /\ VersionsOf(q) = Of(versions, q)
           /\ LatestOf(q) # 0 => LatestOf(q) \in VersionsOf(q) /\ LatestOf(q) \in DOMAIN versions
           /\ LatestOf(q) = 0 <=> VersionsOf(q) = {}
           /\ LatestOf(q) \in Numbers
<1>1. LatestOf(q) = Last(versions, q) /\ VersionsOf(q) = Of(versions, q)
  BY DEF LatestOf, Last, VersionsOf, Of
<1>2. versions \in Seq(Version)
  BY DEF TypeOK
<1>3. 0 \notin DOMAIN versions /\ 0 \in Numbers /\ DOMAIN versions \subseteq Numbers
  BY TypesHeld, QuoteVersionsAssumption DEF Numbers
<1> QED BY <1>1, <1>2, <1>3, RowsInRange

LEMMA ReadLatestTyped ==
    ASSUME Inv, NEW w \in Workers, ReadLatest(w)
    PROVE  TypeOK'
<1>1. work[w] \in Task /\ LatestOf(work[w].quote) \in Numbers
  BY QuoteOfTask, LatestInRange DEF Inv
<1>2. "recording" \in Later /\ "closing" \in Later
  BY DEF Later
<1>3. [work[w] EXCEPT !.at = "recording"] \in Task
      /\ [work[w] EXCEPT !.at = "closing", !.ver = LatestOf(work[w].quote)] \in Task
  BY <1>1, <1>2, TaskChanged DEF Task
<1>4. \/ AfterVersion(w)
      \/ work' = [work EXCEPT ![w] = [work[w] EXCEPT !.at = "recording"]]
      \/ work' = [work EXCEPT ![w] = [work[w] EXCEPT !.at = "closing", !.ver = LatestOf(work[w].quote)]]
  BY DEF ReadLatest, Step
<1>5. work' \in [Workers -> Task]
  BY <1>3, <1>4, AfterVersionTask DEF Inv, TypeOK
<1> QED BY <1>5 DEF Inv, TypeOK, ReadLatest, quoteVars, history

LEMMA ReadOpenTyped ==
    ASSUME Inv, NEW w \in Workers, ReadOpen(w)
    PROVE  TypeOK'
<1> DEFINE q == IF work[w].quote = 0 THEN LatestResponse ELSE work[w].quote
           p == IF work[w].quote = q THEN work[w].price ELSE total[q]
<1>1. work[w] \in Task /\ LatestResponse \in 0 .. LastQuote /\ work[w].quote \in 0 .. LastQuote
      /\ work[w].price \in Prices \cup {NoPrice}
  BY QuoteOfTask, LatestResponseIsQuote DEF Inv
<1>2. q \in 0 .. LastQuote /\ p \in Prices \cup {NoPrice}
  BY <1>1, QuoteVersionsAssumption DEF Inv, TypeOK, Quotes
<1>3. OpenOf(q) \subseteq Numbers
  BY TypesHeld DEF Inv, OpenOf, VersionsOf
<1>4. [work[w] EXCEPT !.at = "numbering", !.quote = q, !.price = p, !.open = OpenOf(q)] \in Task
  <2>1. "numbering" \in Later
    BY DEF Later
  <2> HIDE DEF q, p
  <2> QED BY <1>1, <1>2, <1>3, <2>1, TaskChanged DEF Task
<1>5. work' = [work EXCEPT ![w] = [work[w] EXCEPT !.at = "numbering", !.quote = q, !.price = p, !.open = OpenOf(q)]]
  BY DEF ReadOpen, Opened
<1>6. work' \in [Workers -> Task]
  <2> HIDE DEF q, p
  <2> QED BY <1>4, <1>5 DEF Inv, TypeOK
<1> QED BY <1>6 DEF Inv, TypeOK, ReadOpen, quoteVars, history

LEMMA ReadNumberTyped ==
    ASSUME Inv, NEW w \in Workers, ReadNumber(w)
    PROVE  TypeOK'
<1>1. work[w] \in Task /\ Len(versions) + 1 \in Numbers
  BY QuoteOfTask, TypesHeld, QuoteVersionsAssumption DEF Inv, TypeOK, Numbers
<1>2. [work[w] EXCEPT !.at = "inserting", !.ver = Len(versions) + 1] \in Task
  <2>1. "inserting" \in Later
    BY DEF Later
  <2> QED BY <1>1, <2>1, TaskChanged DEF Task
<1>3. work' = [work EXCEPT ![w] = [work[w] EXCEPT !.at = "inserting", !.ver = Len(versions) + 1]]
  BY DEF ReadNumber
<1>4. work' \in [Workers -> Task]
  BY <1>2, <1>3 DEF Inv, TypeOK
<1> QED BY <1>4 DEF Inv, TypeOK, ReadNumber, quoteVars, history

LEMMA RecordFailsTyped ==
    ASSUME Inv, NEW w \in Workers, RecordFails(w)
    PROVE  TypeOK'
<1>1. work' \in [Workers -> Task]
  BY IdleIsTask DEF Inv, TypeOK, RecordFails, Done
<1> QED BY <1>1 DEF Inv, TypeOK, RecordFails, quoteVars

\* What SaveOutcome makes of the rows.
LEMMA SaveOutcomeRows ==
    ASSUME TypeOK, TasksSound, NEW w \in Workers, SaveOutcome(w)
    PROVE  /\ work[w].ver \in DOMAIN versions /\ work[w].outcome \in {"lost", "expired"}
           /\ versions' \in Seq(Version) /\ Len(versions') = Len(versions)
           /\ DOMAIN versions' = DOMAIN versions
           /\ \A n \in DOMAIN versions :
                /\ versions'[n].quote = versions[n].quote /\ versions'[n].price = versions[n].price
                /\ versions'[n].outcome = IF n = work[w].ver THEN work[w].outcome
                                          ELSE versions[n].outcome
<1>1. work[w].ver \in DOMAIN versions /\ work[w].outcome \in {"lost", "expired"}
  BY DEF SaveOutcome, TasksSound, SoundTask
<1>2. work[w].outcome \in Outcomes /\ versions \in Seq(Version)
  BY <1>1 DEF Outcomes, TypeOK
<1>3. versions' = Close(versions, work[w].ver, work[w].outcome)
  BY DEF SaveOutcome
<1> QED BY <1>1, <1>2, <1>3, OutcomeClosed

\* What Insert makes of the rows: the open ones it read are superseded, a new one follows.
LEMMA InsertRows ==
    ASSUME TypeOK, TasksSound, NEW w \in Workers, Insert(w)
    PROVE  /\ versions' \in Seq(Version) /\ Len(versions') = Len(versions) + 1
           /\ Len(versions') <= MaxVersions
           /\ DOMAIN versions' = DOMAIN versions \cup {Len(versions')}
           /\ versions'[Len(versions')].quote = work[w].quote
           /\ versions'[Len(versions')].price = work[w].price
           /\ versions'[Len(versions')].outcome = work[w].outcome
           /\ \A n \in DOMAIN versions :
                /\ n # Len(versions')
                /\ versions'[n].quote = versions[n].quote /\ versions'[n].price = versions[n].price
                /\ versions'[n].outcome = IF n \in work[w].open THEN "superseded"
                                          ELSE versions[n].outcome
<1> DEFINE vs == Superseded(versions, work[w].open)
           r == [quote |-> work[w].quote, price |-> work[w].price, outcome |-> work[w].outcome]
<1>1. r \in Version
  BY QuoteOfTask DEF Version, Outcomes
<1>2. /\ vs \in Seq(Version) /\ Len(vs) = Len(versions) /\ DOMAIN vs = DOMAIN versions
      /\ \A n \in DOMAIN versions :
           /\ vs[n].quote = versions[n].quote /\ vs[n].price = versions[n].price
           /\ vs[n].outcome = IF n \in work[w].open THEN "superseded" ELSE versions[n].outcome
  <2>1. vs = [n \in DOMAIN versions |-> IF n \in work[w].open
                     THEN [versions[n] EXCEPT !.outcome = "superseded"] ELSE versions[n]]
    BY DEF Superseded
  <2>2. versions \in Seq(Version) /\ "superseded" \in Outcomes
    BY DEF TypeOK, Outcomes
  <2> DEFINE S == work[w].open
  <2> HIDE DEF vs, S
  <2>3. /\ vs \in Seq(Version) /\ Len(vs) = Len(versions) /\ DOMAIN vs = DOMAIN versions
        /\ \A n \in DOMAIN versions :
             /\ vs[n].quote = versions[n].quote /\ vs[n].price = versions[n].price
             /\ vs[n].outcome = IF n \in S THEN "superseded" ELSE versions[n].outcome
    <3>1. vs = [n \in DOMAIN versions |-> IF n \in S
                     THEN [versions[n] EXCEPT !.outcome = "superseded"] ELSE versions[n]]
      BY <2>1 DEF S
    <3> QED BY ONLY <2>2, <3>1, OutcomesSaved
  <2> QED BY <2>3 DEF S
<1>3. versions' = Append(vs, r) /\ work[w].ver = Len(versions) + 1 /\ work[w].ver <= MaxVersions
  BY DEF Insert
<1>4. /\ versions' \in Seq(Version) /\ Len(versions') = Len(vs) + 1
      /\ DOMAIN versions' = DOMAIN vs \cup {Len(versions')}
      /\ versions'[Len(versions')] = r
      /\ \A n \in DOMAIN vs : n # Len(versions') /\ versions'[n] = vs[n]
  <2> HIDE DEF vs, r
  <2> QED BY <1>1, <1>2, <1>3, RowAppended
<1>5. versions'[Len(versions')].quote = work[w].quote /\ versions'[Len(versions')].price = work[w].price
      /\ versions'[Len(versions')].outcome = work[w].outcome
  BY <1>4
<1> HIDE DEF vs, r
<1> QED BY <1>2, <1>3, <1>4, <1>5

\* The latest versions of the others are lost, the quote's own is accepted.
LEMMA AcceptRows ==
    ASSUME TypeOK, NEW q \in Quotes, Accept(q)
    PROVE  /\ versions' \in Seq(Version) /\ Len(versions') <= MaxVersions
           /\ \A n \in DOMAIN versions :
                /\ n \in DOMAIN versions'
                /\ versions'[n].quote = versions[n].quote /\ versions'[n].price = versions[n].price
                /\ versions'[n].outcome =
                     IF n = LatestOf(q) THEN "accepted"
                     ELSE IF n \in Losers(q) THEN "lost" ELSE versions[n].outcome
           /\ LatestOf(q) # 0 => Len(versions') = Len(versions) /\ DOMAIN versions' = DOMAIN versions
           /\ LatestOf(q) = 0 =>
                /\ Len(versions') = Len(versions) + 1
                /\ Len(versions') \notin DOMAIN versions
                /\ DOMAIN versions' = DOMAIN versions \cup {Len(versions')}
                /\ versions'[Len(versions')] = [quote |-> q, price |-> total[q], outcome |-> "accepted"]
<1> DEFINE vs == Lose(versions, Losers(q))
           r == [quote |-> q, price |-> total[q], outcome |-> "accepted"]
<1>1. r \in Version
  BY QuoteVersionsAssumption DEF Version, Outcomes, TypeOK, Quotes
<1>2. /\ vs \in Seq(Version) /\ Len(vs) = Len(versions) /\ DOMAIN vs = DOMAIN versions
      /\ \A n \in DOMAIN versions :
           /\ vs[n].quote = versions[n].quote /\ vs[n].price = versions[n].price
           /\ vs[n].outcome = IF n \in Losers(q) THEN "lost" ELSE versions[n].outcome
  <2>1. vs = [n \in DOMAIN versions |-> IF n \in Losers(q)
                     THEN [versions[n] EXCEPT !.outcome = "lost"] ELSE versions[n]]
    BY DEF Lose
  <2>2. versions \in Seq(Version) /\ "lost" \in Outcomes
    BY DEF TypeOK, Outcomes
  <2> HIDE DEF vs
  <2> QED BY <2>1, <2>2, OutcomesSaved
<1>3. Len(versions) \in Nat /\ Len(versions) <= MaxVersions /\ MaxVersions \in Nat /\ 0 \notin DOMAIN versions
  BY TypesHeld, QuoteVersionsAssumption DEF TypeOK
<1>4. CASE LatestOf(q) = 0
  <2>1. versions' = Append(vs, r) /\ Len(versions) < MaxVersions
    BY <1>4 DEF Accept
  <2>2. /\ versions' \in Seq(Version) /\ Len(versions') = Len(vs) + 1
        /\ DOMAIN versions' = DOMAIN vs \cup {Len(versions')}
        /\ versions'[Len(versions')] = r
        /\ \A n \in DOMAIN vs : n # Len(versions') /\ versions'[n] = vs[n]
    <3> HIDE DEF vs, r
    <3> QED BY <1>1, <1>2, <2>1, RowAppended
  <2>3. Len(versions') <= MaxVersions
    <3> HIDE DEF vs, r
    <3> QED BY <1>2, <1>3, <2>1, <2>2
  <2> HIDE DEF vs
  <2> QED BY <1>2, <1>3, <1>4, <2>2, <2>3
<1>5. CASE LatestOf(q) # 0
  <2>1. versions' = Close(vs, LatestOf(q), "accepted")
    BY <1>5 DEF Accept
  <2>2. LatestOf(q) \in DOMAIN vs /\ "accepted" \in Outcomes
    BY <1>2, <1>5, LatestInRange DEF Outcomes
  <2> HIDE DEF vs
  <2>3. /\ versions' \in Seq(Version) /\ Len(versions') = Len(vs) /\ DOMAIN versions' = DOMAIN vs
        /\ \A m \in DOMAIN vs : /\ versions'[m].quote = vs[m].quote /\ versions'[m].price = vs[m].price
                                /\ versions'[m].outcome = IF m = LatestOf(q) THEN "accepted" ELSE vs[m].outcome
    BY ONLY <1>2, <2>1, <2>2, OutcomeClosed
  <2> QED BY <1>2, <1>3, <1>5, <2>3
<1> QED BY <1>4, <1>5

LEMMA SaveOutcomeTyped ==
    ASSUME Inv, NEW w \in Workers, SaveOutcome(w)
    PROVE  TypeOK'
<1>1. work' \in [Workers -> Task]
  BY AfterVersionTask DEF Inv, SaveOutcome
<1>2. versions' \in Seq(Version) /\ Len(versions') <= MaxVersions
      /\ \A n \in DOMAIN versions' : versions'[n].quote # 0 => versions'[n].price \in Prices
  BY SaveOutcomeRows DEF Inv, TypeOK
<1> QED BY <1>1, <1>2 DEF Inv, TypeOK, SaveOutcome, quoteVars, history

LEMMA InsertTyped ==
    ASSUME Inv, NEW w \in Workers, Insert(w)
    PROVE  TypeOK'
<1>1. work' \in [Workers -> Task]
  BY AfterVersionTask DEF Inv, Insert
<1>2. work[w].quote # 0 => work[w].price \in Prices
  BY DEF Inv, TasksSound, SoundTask, NoPriceAt, Insert
<1>3. versions' \in Seq(Version) /\ Len(versions') <= MaxVersions
      /\ \A n \in DOMAIN versions' : versions'[n].quote # 0 => versions'[n].price \in Prices
  BY <1>2, InsertRows DEF Inv, TypeOK
<1>4. unversioned' \subseteq Quotes
  BY DEF Inv, TypeOK, Insert
<1> QED BY <1>1, <1>3, <1>4 DEF Inv, TypeOK, Insert, quoteVars

LEMMA AcceptTyped ==
    ASSUME Inv, NEW q \in Quotes, Accept(q)
    PROVE  TypeOK'
<1>1. total[q] \in Prices
  BY DEF Inv, TypeOK
<1>2. versions' \in Seq(Version) /\ Len(versions') <= MaxVersions
      /\ \A n \in DOMAIN versions' : versions'[n].quote # 0 => versions'[n].price \in Prices
  <2>1. versions' \in Seq(Version) /\ Len(versions') <= MaxVersions
    BY AcceptRows DEF Inv
  <2>2. \A n \in DOMAIN versions : versions'[n].quote # 0 => versions'[n].price \in Prices
    BY AcceptRows DEF Inv, TypeOK
  <2>3. CASE LatestOf(q) = 0
    <3>1. DOMAIN versions' = DOMAIN versions \cup {Len(versions')}
          /\ versions'[Len(versions')].price = total[q]
      <4>1. DOMAIN versions' = DOMAIN versions \cup {Len(versions')}
            /\ versions'[Len(versions')] = [quote |-> q, price |-> total[q], outcome |-> "accepted"]
        BY <2>3, AcceptRows DEF Inv
      <4> QED BY <4>1
    <3> QED BY <1>1, <2>1, <2>2, <3>1
  <2>4. CASE LatestOf(q) # 0
    BY <2>1, <2>2, <2>4, AcceptRows DEF Inv
  <2> QED BY <2>3, <2>4
<1>3. status' \in [Quotes -> Statuses] /\ req' \in Progress /\ unversioned' \subseteq Quotes
      /\ agreed' \in [Quotes -> Prices \cup {NoPrice}] /\ overlapped' \in BOOLEAN
  <2>1. status' \in [Quotes -> Statuses] /\ req' \in Progress /\ unversioned' \subseteq Quotes
    BY DEF Inv, TypeOK, Accept, Statuses, Progress
  <2>2. agreed' \in [Quotes -> Prices \cup {NoPrice}]
    BY <1>1 DEF Inv, TypeOK, Accept
  <2>3. overlapped' \in BOOLEAN
    BY DEF Inv, TypeOK, Accept
  <2> QED BY <2>1, <2>2, <2>3
<1>4. work' \in [Workers -> Task]
  <2>1. \A w \in Workers : work[w] \in Task /\ [work[w] EXCEPT !.early = @ \cup {q}] \in Task
    BY DEF Inv, TypeOK, Task
  <2> QED BY <2>1 DEF Accept
<1> QED BY <1>2, <1>3, <1>4 DEF Inv, TypeOK, Accept

\* Rows that stay keep what is said of them.
LEMMA RowsKept ==
    ASSUME LatestStands, AcceptedWasAgreed, UNCHANGED <<versions, agreed>>
    PROVE  LatestStands' /\ AcceptedWasAgreed'
BY DEF LatestStands, AcceptedWasAgreed, VersionsOf

\* An idle worker has read nothing.
LEMMA IdleIsSound == SoundTask(Idle) /\ ReadTask(Idle)
BY DEF SoundTask, NoPriceAt, Ops, ReadTask, Idle, OnAQuote, Recorders

\* The tasks of the other workers stay sound.
LEMMA TasksKept ==
    ASSUME TasksSound, NEW w \in Workers, \A v \in Workers \ {w} : work'[v] = work[v],
           \A n \in DOMAIN versions : n \in DOMAIN versions' /\ versions'[n].quote = versions[n].quote,
           work'[w] = work[w] \/ work'[w] = Idle \/ SoundTask(work[w])'
    PROVE  TasksSound'
<1>1. ASSUME NEW t, SoundTask(t) PROVE SoundTask(t)'
  <2>1. VersionsOf(t.quote) \subseteq VersionsOf(t.quote)'
    BY DEF VersionsOf
  <2> QED BY <1>1, <2>1 DEF SoundTask
<1>2. SoundTask(Idle)'
  BY IdleIsSound DEF Idle, SoundTask, OnAQuote
<1>3. SoundTask(work[w])'
  <2>1. CASE work'[w] = work[w]
    BY <2>1, <1>1 DEF TasksSound, SoundTask
  <2>2. CASE work'[w] = Idle
    BY <2>2, <1>2 DEF SoundTask
  <2> QED BY <2>1, <2>2
<1> QED BY <1>1, <1>3 DEF TasksSound, SoundTask
\* With one worker busy, what the others do need not be looked at.
LEMMA AloneStep ==
    ASSUME OneBusy, NEW w \in Workers, Busy(w) \/ ~OthersBusy(w),
           \A v \in Workers \ {w} : work'[v] = work[v], ReadTask(work[w])'
    PROVE  /\ \A v \in Workers \ {w} : ~Busy(v) /\ work[v].at = "idle" /\ work'[v].at = "idle"
           /\ OneBusy' /\ WhatWasRead'
<1>1. \A v \in Workers \ {w} : ~Busy(v) /\ work[v].at = "idle" /\ work'[v].at = "idle"
  BY DEF OneBusy, Busy, OthersBusy
<1>2. OneBusy'
  BY <1>1 DEF OneBusy, Busy
<1>3. \A v \in Workers \ {w} : ReadTask(work[v])'
  BY <1>1 DEF ReadTask, NoPriceAt, OnAQuote, Recorders
<1>4. WhatWasRead'
  BY <1>3 DEF WhatWasRead
<1> QED BY <1>1, <1>2, <1>4

\* What the rows, the quotes and the recorders say stays.
LEMMA QuietStep ==
    ASSUME AgreedIsLast, AcceptedIsLast, OneOpenVersion, LastIsPriced, ~overlapped,
           UNCHANGED <<status, total, versions, agreed, unversioned, failed>>,
           \A v \in Workers : work[v].at \in Recorders /\ work[v].quote # 0 =>
               \E u \in Workers : work'[u].at \in Recorders /\ work'[u].quote = work[v].quote
    PROVE  AgreedIsLast' /\ AcceptedIsLast' /\ OneOpenVersion' /\ LastIsPriced'
<1>1. \A q : VersionsOf(q)' = VersionsOf(q) /\ LatestOf(q)' = LatestOf(q)
  BY DEF VersionsOf, LatestOf
<1>2. AgreedIsLast' /\ AcceptedIsLast' /\ OneOpenVersion'
  BY <1>1 DEF AgreedIsLast, AcceptedIsLast, OneOpenVersion
<1>3. \A q \in Quotes : (\E w \in Workers : work[w].at \in Recorders /\ work[w].quote = q)
                         => (\E w \in Workers : work'[w].at \in Recorders /\ work'[w].quote = q)
  BY QuoteVersionsAssumption DEF Quotes
<1>4. LastIsPriced'
  BY <1>1, <1>3 DEF LastIsPriced
<1> QED BY <1>2, <1>4

\* A worker begins: the requests overlap from here if another is at work, and if none
\* is, what it has just read is so.
LEMMA BeginKeepsRecord ==
    ASSUME Inv, NEW w \in Workers, NEW t \in Task, Begin(w, t), TypeOK',
           SoundTask(t), ~overlapped => ReadTask(t)
    PROVE  Inv'
<1>1. /\ UNCHANGED <<quoteVars, versions, agreed, unversioned, failed>>
      /\ work'[w] = t /\ \A v \in Workers \ {w} : work'[v] = work[v]
      /\ overlapped' = (overlapped \/ OthersBusy(w))
      /\ work[w].at = "idle"
  BY DEF Inv, TypeOK, Begin, Busy
<1>2. LatestStands' /\ AcceptedWasAgreed'
  BY <1>1, RowsKept DEF Inv
<1>3. SoundTask(work[w])'
  <2>1. VersionsOf(t.quote)' = VersionsOf(t.quote)
    BY <1>1 DEF VersionsOf
  <2> QED BY <1>1, <2>1 DEF SoundTask
<1>4. TasksSound'
  BY <1>1, <1>3, TasksKept DEF Inv
<1>5. Serial'
  <2> SUFFICES ASSUME ~overlapped' PROVE (OneBusy /\ OneOpenVersion /\ WhatWasRead /\ AgreedIsLast /\ AcceptedIsLast /\ LastIsPriced)'
    BY DEF Serial
  <2>1. ~overlapped /\ ~OthersBusy(w)
    BY <1>1
  <2>2. OneBusy /\ OneOpenVersion /\ WhatWasRead /\ AgreedIsLast /\ AcceptedIsLast /\ LastIsPriced
    BY <2>1 DEF Inv, Serial
  <2>3. ReadTask(work[w])'
    <3>1. VersionsOf(t.quote)' = VersionsOf(t.quote) /\ OpenOf(t.quote)' = OpenOf(t.quote)
      BY <1>1 DEF VersionsOf, OpenOf
    <3>2. MayStart(t.at, t.quote)' = MayStart(t.at, t.quote)
      BY <1>1 DEF MayStart, quoteVars
    <3> QED BY <1>1, <2>1, <3>1, <3>2 DEF ReadTask, NoPriceAt, quoteVars
  <2>4. (OneBusy /\ WhatWasRead)'
    BY <1>1, <2>1, <2>2, <2>3, AloneStep
  <2>5. (OneOpenVersion /\ AgreedIsLast /\ AcceptedIsLast /\ LastIsPriced)'
    BY <1>1, <2>1, <2>2, QuietStep DEF quoteVars, Recorders
  <2> QED BY <2>4, <2>5
<1> QED BY <1>2, <1>4, <1>5 DEF Inv

\* Every action keeps the invariant: one lemma each.
LEMMA StartOnQuoteKeepsRecord ==
    ASSUME Inv, NEW w \in Workers, NEW q \in Quotes, NEW op \in Ops, StartOnQuote(w, op, q)
    PROVE  Inv'
<1> DEFINE t == [Idle EXCEPT !.op = op, !.at = op, !.quote = q, !.price = total[q],
                             !.status = status[q],
                             !.req = IF op = "expire" THEN req ELSE Idle.req]
<1>1. total[q] \in Prices /\ status[q] \in Statuses /\ q \in 0 .. LastQuote /\ q # 0 /\ req \in Progress
  BY QuoteVersionsAssumption DEF Inv, TypeOK, Quotes
<1>2. t \in Task
  BY <1>1, IdleIsTask DEF Idle, Task
<1>3. op \in {"revise", "send", "reject", "expire"} /\ MayStart(op, q) /\ Begin(w, t)
  BY DEF StartOnQuote, MayStart, Ops
<1>4. t.op = op /\ t.at = op /\ t.quote = q /\ t.price = total[q] /\ t.status = status[q] /\ t.outcome = "open"
  BY DEF Idle
<1> HIDE DEF t
<1>5. SoundTask(t)
  BY <1>1, <1>3, <1>4 DEF SoundTask, NoPriceAt, Ops, OnAQuote
<1>6. ReadTask(t)
  BY <1>3, <1>4 DEF ReadTask, NoPriceAt, OnAQuote, Recorders
<1> QED BY <1>2, <1>3, <1>5, <1>6, StartOnQuoteTyped, BeginKeepsRecord

LEMMA StartRefuseKeepsRecord ==
    ASSUME Inv, NEW w \in Workers, StartRefuse(w)
    PROVE  Inv'
<1> DEFINE t == [Idle EXCEPT !.op = "refuse", !.at = "refuse"]
<1>1. t \in Task
  BY IdleIsTask DEF Idle, Task, Ops
<1>2. t.op = "refuse" /\ t.at = "refuse" /\ t.quote = 0 /\ t.outcome = "open" /\ Begin(w, t)
  BY DEF Idle, StartRefuse
<1> HIDE DEF t
<1>3. SoundTask(t) /\ ReadTask(t)
  BY <1>2 DEF SoundTask, NoPriceAt, Ops, ReadTask, OnAQuote, Recorders
<1> QED BY <1>1, <1>2, <1>3, StartRefuseTyped, BeginKeepsRecord

LEMMA StartStaleKeepsRecord ==
    ASSUME Inv, NEW w \in Workers, NEW n \in DOMAIN versions, StartStale(w, n)
    PROVE  Inv'
<1> DEFINE t == [Idle EXCEPT !.op = "stale", !.at = "stale", !.quote = versions[n].quote, !.ver = n,
                             !.status = status[versions[n].quote], !.req = req]
<1>1. versions[n] \in Version /\ n \in Numbers
  BY TypesHeld DEF Inv
<1>2. versions[n].quote \in 0 .. LastQuote /\ versions[n].quote # 0
  BY <1>1 DEF Version, StartStale
<1>3. status[versions[n].quote] \in Statuses /\ req \in Progress
  BY <1>2, QuoteVersionsAssumption DEF Inv, TypeOK, Quotes
<1>4. t \in Task
  BY <1>1, <1>2, <1>3, IdleIsTask DEF Idle, Task, Ops
<1>5. /\ t.op = "stale" /\ t.at = "stale" /\ t.quote = versions[n].quote /\ t.ver = n /\ t.outcome = "open"
      /\ t.status = status[t.quote] /\ versions[n].outcome = "open" /\ Begin(w, t)
  BY DEF Idle, StartStale
<1> HIDE DEF t
<1>6. SoundTask(t) /\ ReadTask(t)
  BY <1>2, <1>5 DEF SoundTask, NoPriceAt, Ops, ReadTask, OnAQuote, Recorders
<1> QED BY <1>4, <1>5, <1>6, StartStaleTyped, BeginKeepsRecord

LEMMA RequestMovesKeepsRecord == ASSUME Inv, RequestMoves \/ UNCHANGED vars PROVE Inv'
<1>1. UNCHANGED <<status, total, versions, agreed, started, work, history>>
  BY DEF RequestMoves, vars, quoteVars
<1>2. TypeOK'
  BY <1>1 DEF Inv, TypeOK, RequestMoves, Progress, vars, quoteVars, history
<1>3. \A q : VersionsOf(q)' = VersionsOf(q) /\ LatestOf(q)' = LatestOf(q) /\ OpenOf(q)' = OpenOf(q)
  BY <1>1 DEF VersionsOf, LatestOf, OpenOf
<1>4. LatestStands' /\ AcceptedWasAgreed'
  BY <1>1, RowsKept DEF Inv
<1>5. TasksSound'
  BY <1>1, <1>3 DEF Inv, TasksSound, SoundTask
<1>6. Serial'
  <2> SUFFICES ASSUME ~overlapped' PROVE (OneBusy /\ OneOpenVersion /\ WhatWasRead /\ AgreedIsLast /\ AcceptedIsLast /\ LastIsPriced)'
    BY DEF Serial
  <2>1. ~overlapped /\ OneBusy /\ OneOpenVersion /\ WhatWasRead /\ AgreedIsLast /\ AcceptedIsLast /\ LastIsPriced
    BY <1>1 DEF Inv, Serial, history
  <2>2. (OneBusy /\ WhatWasRead)'
    BY <1>1, <1>3, <2>1 DEF OneBusy, Busy, WhatWasRead, ReadTask, MayStart, history
  <2>3. (OneOpenVersion /\ AgreedIsLast /\ AcceptedIsLast /\ LastIsPriced)'
    BY <1>1, <2>1, QuietStep DEF history
  <2> QED BY <2>2, <2>3
<1> QED BY <1>2, <1>4, <1>5, <1>6 DEF Inv
\* While the rows stay, only what the worker does next is at stake.
LEMMA WorkKeepsRecord ==
    ASSUME Inv, NEW w \in Workers, Busy(w), TypeOK',
           \A v \in Workers \ {w} : work'[v] = work[v],
           UNCHANGED <<versions, agreed, overlapped>>, SoundTask(work[w])',
           ~overlapped => (ReadTask(work[w]) /\ AgreedIsLast /\ AcceptedIsLast /\ LastIsPriced)'
    PROVE  Inv'
<1>1. LatestStands' /\ AcceptedWasAgreed'
  BY RowsKept DEF Inv
<1>2. TasksSound'
  BY TasksKept DEF Inv
<1>3. Serial'
  <2> SUFFICES ASSUME ~overlapped' PROVE (OneBusy /\ OneOpenVersion /\ WhatWasRead /\ AgreedIsLast /\ AcceptedIsLast /\ LastIsPriced)'
    BY DEF Serial
  <2>1. ~overlapped /\ OneBusy /\ OneOpenVersion /\ overlapped' = overlapped
    BY DEF Inv, Serial
  <2>2. (OneBusy /\ WhatWasRead)'
    BY <2>1, AloneStep
  <2>3. OneOpenVersion'
    BY <2>1 DEF OneOpenVersion
  <2> QED BY <2>1, <2>2, <2>3
<1> QED BY <1>1, <1>2, <1>3 DEF Inv

\* While requests do not overlap, the task of the one busy worker is up to date.
LEMMA SerialFacts ==
    ASSUME Inv, ~overlapped
    PROVE  /\ OneBusy /\ OneOpenVersion /\ WhatWasRead /\ AgreedIsLast /\ AcceptedIsLast /\ LastIsPriced
           /\ \A w \in Workers : ReadTask(work[w])
           /\ \A q \in Quotes : status[q] \notin {"accepted", "rejected"} => agreed[q] = NoPrice
           /\ \A w, v \in Workers : Busy(w) /\ v # w => work[v].at = "idle"
BY DEF Inv, Serial, WhatWasRead, AgreedIsLast, OneBusy, Busy

\* A change of what the quotes say, of one quote, that its worker goes on to record
\* or that a draft or a resent offer is marked with.
LEMMA QuoteChanged ==
    ASSUME Inv, ~overlapped, NEW w \in Workers, NEW q \in Quotes,
           work[w].at \in OnAQuote, work[w].quote = q,
           UNCHANGED <<versions, agreed, failed>>,
           \A v \in Workers \ {w} : work'[v] = work[v],
           \A o \in Quotes \ {q} : status'[o] = status[o] /\ total'[o] = total[o],
           unversioned \subseteq unversioned',
           status'[q] = status[q] \/ (agreed[q] = NoPrice /\ status[q] # "accepted")
             \/ (status[q] # "accepted" /\ status'[q] = "rejected"),
           total'[q] = total[q] \/ q \in unversioned'
             \/ (work'[w].at = "recording" /\ work'[w].quote = q)
    PROVE  AgreedIsLast' /\ AcceptedIsLast' /\ LastIsPriced'
<1>1. \A p : VersionsOf(p)' = VersionsOf(p) /\ LatestOf(p)' = LatestOf(p)
  BY DEF VersionsOf, LatestOf
<1>2. AgreedIsLast /\ AcceptedIsLast /\ LastIsPriced
  BY SerialFacts
<1>3. AgreedIsLast'
  BY <1>1, <1>2 DEF AgreedIsLast
<1>4. \A n \in DOMAIN versions : versions[n].outcome = "accepted" =>
         versions[n].quote \in Quotes /\ agreed[versions[n].quote] # NoPrice
  BY TypesHeld, QuoteVersionsAssumption DEF Inv, AcceptedWasAgreed, Version, Quotes
<1>5. AcceptedIsLast'
  BY <1>1, <1>2, <1>4 DEF AcceptedIsLast
<1>6. \A p \in Quotes \ {q} :
         (\E v \in Workers : work[v].at \in Recorders /\ work[v].quote = p)
           => (\E v \in Workers : work'[v].at \in Recorders /\ work'[v].quote = p)
  OBVIOUS
<1>7. \A v \in Workers : ~ (work[v].at \in Recorders /\ work[v].quote = q)
  BY SerialFacts DEF Busy, Recorders, OnAQuote
<1>8. LastIsPriced'
  <2> SUFFICES ASSUME ~failed, NEW p \in Quotes \ unversioned'
               PROVE  \/ VersionsOf(p) = {}
                      \/ versions[LatestOf(p)].price = (IF agreed[p] # NoPrice THEN agreed[p] ELSE total'[p])
                      \/ \E v \in Workers : work'[v].at \in Recorders /\ work'[v].quote = p
    BY <1>1 DEF LastIsPriced
  <2>1. \/ VersionsOf(p) = {}
        \/ versions[LatestOf(p)].price = (IF agreed[p] # NoPrice THEN agreed[p] ELSE total[p])
        \/ \E v \in Workers : work[v].at \in Recorders /\ work[v].quote = p
    BY <1>2 DEF LastIsPriced
  <2>2. CASE p # q
    BY <1>6, <2>1, <2>2
  <2>3. CASE p = q
    BY <1>7, <2>1, <2>3 DEF Recorders
  <2> QED BY <2>2, <2>3
<1> QED BY <1>3, <1>5, <1>8

LEMMA SaveRevisionKeepsRecord ==
    ASSUME Inv, NEW w \in Workers, SaveRevision(w)
    PROVE  Inv'
<1> DEFINE q == work[w].quote
<1>1. work[w] \in Task /\ q \in Quotes /\ Busy(w) /\ work[w].at = "revise" /\ q # 0
  BY QuoteOfTask, QuoteVersionsAssumption DEF Inv, OnAQuote, SaveRevision, Busy, Quotes
<1>2. PICK p \in Prices, s \in {"pending", "offered", "accepted", "rejected"} :
         /\ total' = [total EXCEPT ![q] = p]
         /\ status' = [status EXCEPT ![q] = s]
         /\ IF s = "pending"
              THEN /\ Done(w)
                   /\ unversioned' = unversioned \cup {q}
              ELSE /\ work' = [work EXCEPT ![w].at = "recording", ![w].price = p,
                                        ![w].status = Idle.status]
                   /\ unversioned' = unversioned
  BY DEF SaveRevision
<1>3. /\ \A v \in Workers \ {w} : work'[v] = work[v]
      /\ IF s = "pending" THEN work'[w] = Idle
         ELSE /\ work'[w].at = "recording" /\ work'[w].price = p /\ work'[w].quote = q
              /\ work'[w].outcome = work[w].outcome
  BY <1>1, <1>2 DEF Done, Inv, TypeOK, Task
<1>4. /\ UNCHANGED <<versions, agreed, overlapped, failed>>
      /\ total'[q] = p /\ \A o \in Quotes \ {q} : status'[o] = status[o] /\ total'[o] = total[o]
      /\ s = "pending" => q \in unversioned'
      /\ unversioned \subseteq unversioned'
  BY <1>1, <1>2 DEF SaveRevision, Inv, TypeOK
<1> HIDE DEF q
<1>5. SoundTask(work[w])'
  <2>1. work[w].outcome \in {"open", "lost", "expired"}
    BY DEF Inv, TasksSound, SoundTask
  <2>2. CASE s = "pending"
    BY <1>3, <2>2 DEF SoundTask, NoPriceAt, Ops, Idle, OnAQuote
  <2>3. CASE s # "pending"
    BY <1>2, <1>3, <2>1, <2>3 DEF SoundTask, NoPriceAt, Ops, OnAQuote
  <2> QED BY <2>2, <2>3
<1>6. ~overlapped => (ReadTask(work[w]) /\ AgreedIsLast /\ AcceptedIsLast /\ LastIsPriced)'
  <2> SUFFICES ASSUME ~overlapped PROVE (ReadTask(work[w]) /\ AgreedIsLast /\ AcceptedIsLast /\ LastIsPriced)'
    OBVIOUS
  <2>1. status[q] \in {"pending", "offered"}
    BY <1>1, SerialFacts DEF ReadTask, NoPriceAt, OnAQuote, MayStart, q
  <2>2. agreed[q] = NoPrice
    BY <1>1, <2>1, SerialFacts
  <2>3. ReadTask(work[w])'
    <3>1. CASE s = "pending"
      BY <1>3, <3>1 DEF ReadTask, NoPriceAt, Idle, OnAQuote, Recorders
    <3>2. CASE s # "pending"
      BY <1>1, <1>3, <1>4, <2>2, <3>2 DEF ReadTask, NoPriceAt, OnAQuote, Recorders
    <3> QED BY <3>1, <3>2
  <2>4. (AgreedIsLast /\ AcceptedIsLast /\ LastIsPriced)'
    BY <1>1, <1>3, <1>4, <2>1, <2>2, QuoteChanged DEF q, OnAQuote
  <2> QED BY <2>3, <2>4
<1> QED BY <1>1, <1>3, <1>4, <1>5, <1>6, SaveRevisionTyped, WorkKeepsRecord

LEMMA SendToClientKeepsRecord ==
    ASSUME Inv, NEW w \in Workers, SendToClient(w)
    PROVE  Inv'
<1> DEFINE q == work[w].quote
           draft == work[w].status = "pending"
<1>1. work[w] \in Task /\ q \in Quotes /\ Busy(w) /\ work[w].at = "send" /\ q # 0
  BY QuoteOfTask, QuoteVersionsAssumption DEF Inv, OnAQuote, SendToClient, Busy, Quotes
<1>2. PICK p \in Prices :
         /\ total' = [total EXCEPT ![q] = p]
         /\ IF draft THEN work' = [work EXCEPT ![w].at = "recording", ![w].price = p,
                                          ![w].status = Idle.status]
                     ELSE Done(w)
  BY DEF SendToClient
<1>3. /\ \A v \in Workers \ {w} : work'[v] = work[v]
      /\ IF draft
           THEN /\ work'[w].at = "recording" /\ work'[w].price = p /\ work'[w].quote = q
                /\ work'[w].outcome = work[w].outcome
           ELSE work'[w] = Idle
  BY <1>1, <1>2 DEF Done, Inv, TypeOK, Task
<1>4. /\ UNCHANGED <<versions, agreed, overlapped, failed>>
      /\ total'[q] = p /\ \A o \in Quotes \ {q} : status'[o] = status[o] /\ total'[o] = total[o]
      /\ status'[q] = IF draft THEN "offered" ELSE status[q]
      /\ ~draft => q \in unversioned'
      /\ unversioned \subseteq unversioned'
  BY <1>1, <1>2 DEF SendToClient, Inv, TypeOK
<1>5. SoundTask(work[w])'
  <2>1. work[w].outcome \in {"open", "lost", "expired"}
    BY DEF Inv, TasksSound, SoundTask
  <2> HIDE DEF q, draft
  <2>2. CASE ~draft
    BY <1>3, <2>2 DEF SoundTask, NoPriceAt, Ops, Idle, OnAQuote
  <2>3. CASE draft
    BY <1>2, <1>3, <2>1, <2>3 DEF SoundTask, NoPriceAt, Ops, OnAQuote
  <2> QED BY <2>2, <2>3
<1>6. ~overlapped => (ReadTask(work[w]) /\ AgreedIsLast /\ AcceptedIsLast /\ LastIsPriced)'
  <2> SUFFICES ASSUME ~overlapped PROVE (ReadTask(work[w]) /\ AgreedIsLast /\ AcceptedIsLast /\ LastIsPriced)'
    OBVIOUS
  <2>1. draft => status[q] = "pending"
    BY <1>1, SerialFacts DEF ReadTask, NoPriceAt, OnAQuote
  <2> HIDE DEF draft
  <2>2. draft => agreed[q] = NoPrice
    BY <1>1, <2>1, SerialFacts
  <2>3. (AgreedIsLast /\ AcceptedIsLast /\ LastIsPriced)'
    BY <1>1, <1>3, <1>4, <2>1, <2>2, QuoteChanged DEF OnAQuote
  <2> HIDE DEF q
  <2>4. ReadTask(work[w])'
    <3>1. CASE ~draft
      BY <1>3, <3>1 DEF ReadTask, NoPriceAt, Idle, OnAQuote, Recorders
    <3>2. CASE draft
      BY <1>1, <1>3, <1>4, <2>2, <3>2 DEF ReadTask, NoPriceAt, OnAQuote, Recorders
    <3> QED BY <3>1, <3>2
  <2> QED BY <2>3, <2>4
<1> QED BY <1>1, <1>3, <1>4, <1>5, <1>6, SendToClientTyped, WorkKeepsRecord

LEMMA SaveRejectedKeepsRecord ==
    ASSUME Inv, NEW w \in Workers, SaveRejected(w) \/ SaveExpired(w)
    PROVE  Inv'
<1> DEFINE q == work[w].quote
<1>1. work[w] \in Task /\ q \in Quotes /\ Busy(w) /\ work[w].at \in {"reject", "expire"} /\ q # 0
  BY QuoteOfTask, QuoteVersionsAssumption DEF Inv, OnAQuote, SaveRejected, SaveExpired, Busy, Quotes
<1>2. /\ \A v \in Workers \ {w} : work'[v] = work[v]
      /\ work'[w].at = "marking" /\ work'[w].outcome \in {"lost", "expired"} /\ work'[w].quote = q
      /\ work'[w].price = work[w].price /\ work'[w].op = work[w].op
  BY <1>1 DEF SaveRejected, SaveExpired, Inv, TypeOK, Task
<1>3. /\ UNCHANGED <<total, versions, agreed, overlapped, failed, unversioned>>
      /\ \A o \in Quotes \ {q} : status'[o] = status[o]
      /\ status'[q] = IF work[w].at = "reject" THEN "rejected" ELSE "expired"
  BY <1>1 DEF SaveRejected, SaveExpired, Inv, TypeOK, history
<1>4. SoundTask(work[w])'
  <2>1. work[w].price \in Prices
    BY <1>1 DEF Inv, TasksSound, SoundTask, NoPriceAt
  <2> HIDE DEF q
  <2> QED BY <1>1, <1>2, <2>1 DEF SoundTask, NoPriceAt, Ops, OnAQuote
<1>5. ~overlapped => (ReadTask(work[w]) /\ AgreedIsLast /\ AcceptedIsLast /\ LastIsPriced)'
  <2> SUFFICES ASSUME ~overlapped PROVE (ReadTask(work[w]) /\ AgreedIsLast /\ AcceptedIsLast /\ LastIsPriced)'
    OBVIOUS
  <2>1. IF work[w].at = "reject" THEN status[q] # "accepted" ELSE status[q] = "offered"
    BY <1>1, SerialFacts DEF ReadTask, NoPriceAt, OnAQuote, MayStart
  <2>2. work[w].at = "expire" => agreed[q] = NoPrice
    BY <1>1, <2>1, SerialFacts
  <2>3. work[w].price = total[q]
    BY <1>1, SerialFacts DEF ReadTask, NoPriceAt
  <2>4. (AgreedIsLast /\ AcceptedIsLast /\ LastIsPriced)'
    BY <1>1, <1>2, <1>3, <2>1, <2>2, QuoteChanged DEF OnAQuote
  <2> HIDE DEF q
  <2>5. ReadTask(work[w])'
    BY <1>1, <1>2, <1>3, <2>3 DEF ReadTask, NoPriceAt, OnAQuote, Recorders
  <2> QED BY <2>4, <2>5
<1> QED BY <1>1, <1>2, <1>3, <1>4, <1>5, SaveRejectedTyped, WorkKeepsRecord

LEMMA SaveRefusedKeepsRecord ==
    ASSUME Inv, NEW w \in Workers, SaveRefused(w)
    PROVE  Inv'
<1> DEFINE q == LatestResponse
<1>1. work[w] \in Task /\ q \in 0 .. LastQuote /\ Busy(w) /\ work[w].at = "refuse"
  BY QuoteOfTask, LatestResponseIsQuote DEF Inv, SaveRefused, Busy
<1>2. /\ \A v \in Workers \ {w} : work'[v] = work[v]
      /\ work'[w].at = "marking" /\ work'[w].outcome = "lost" /\ work'[w].quote = q
      /\ work'[w].price = (IF q = 0 THEN NoPrice ELSE total[q]) /\ work'[w].op = "refuse"
  BY <1>1 DEF SaveRefused, Inv, TypeOK, Task, TasksSound, SoundTask, Ops
<1>3. UNCHANGED <<status, total, versions, agreed, overlapped, failed, unversioned>>
  BY DEF SaveRefused, history
<1>4. q # 0 => q \in Quotes /\ total[q] \in Prices
  BY <1>1, QuoteVersionsAssumption DEF Quotes, Inv, TypeOK
<1> HIDE DEF q
<1>5. SoundTask(work[w])'
  BY <1>1, <1>2, <1>4 DEF SoundTask, NoPriceAt, Ops, OnAQuote
<1>6. ~overlapped => (ReadTask(work[w]) /\ AgreedIsLast /\ AcceptedIsLast /\ LastIsPriced)'
  <2> SUFFICES ASSUME ~overlapped PROVE (ReadTask(work[w]) /\ AgreedIsLast /\ AcceptedIsLast /\ LastIsPriced)'
    OBVIOUS
  <2>1. ReadTask(work[w])'
    BY <1>2, <1>3 DEF ReadTask, NoPriceAt, OnAQuote, Recorders
  <2>2. (AgreedIsLast /\ AcceptedIsLast /\ LastIsPriced)'
    BY <1>1, <1>2, <1>3, SerialFacts, QuietStep DEF Recorders
  <2> QED BY <2>1, <2>2
<1> QED BY <1>1, <1>2, <1>3, <1>5, <1>6, SaveRefusedTyped, WorkKeepsRecord

LEMMA SaveStaleKeepsRecord ==
    ASSUME Inv, NEW w \in Workers, SaveStale(w)
    PROVE  Inv'
<1> DEFINE q == work[w].quote
<1>1. /\ work[w] \in Task /\ q \in Quotes /\ Busy(w) /\ work[w].at = "stale" /\ q # 0
      /\ work[w].ver \in DOMAIN versions
  BY QuoteOfTask, QuoteVersionsAssumption DEF Inv, OnAQuote, SaveStale, Busy, Quotes, TasksSound, SoundTask
<1>2. /\ \A v \in Workers \ {w} : work'[v] = work[v]
      /\ work'[w].at = "retiring" /\ work'[w].outcome = "expired" /\ work'[w].quote = q
      /\ work'[w].ver = work[w].ver
  BY <1>1 DEF SaveStale, Inv, TypeOK, Task, Idle
<1>3. /\ UNCHANGED <<total, versions, agreed, overlapped, failed, unversioned>>
      /\ \A o \in Quotes \ {q} : status'[o] = status[o]
      /\ status'[q] = IF work[w].status = "offered" THEN "expired" ELSE status[q]
  BY <1>1 DEF SaveStale, Inv, TypeOK, history
<1>4. SoundTask(work[w])'
  <2> HIDE DEF q
  <2> QED BY <1>1, <1>2, <1>3 DEF SoundTask, NoPriceAt, Ops, OnAQuote
<1>5. ~overlapped => (ReadTask(work[w]) /\ AgreedIsLast /\ AcceptedIsLast /\ LastIsPriced)'
  <2> SUFFICES ASSUME ~overlapped PROVE (ReadTask(work[w]) /\ AgreedIsLast /\ AcceptedIsLast /\ LastIsPriced)'
    OBVIOUS
  <2>1. work[w].status = status[q] /\ versions[work[w].ver].outcome = "open"
    BY <1>1, SerialFacts DEF ReadTask, NoPriceAt, OnAQuote
  <2>2. work[w].status = "offered" => agreed[q] = NoPrice
    BY <1>1, <2>1, SerialFacts
  <2>3. (AgreedIsLast /\ AcceptedIsLast /\ LastIsPriced)'
    BY <1>1, <1>2, <1>3, <2>1, <2>2, QuoteChanged DEF OnAQuote
  <2> HIDE DEF q
  <2>4. ReadTask(work[w])'
    BY <1>1, <1>2, <1>3, <2>1 DEF ReadTask, NoPriceAt, OnAQuote, Recorders
  <2> QED BY <2>3, <2>4
<1> QED BY <1>1, <1>2, <1>3, <1>4, <1>5, SaveStaleTyped, WorkKeepsRecord

\* The save of the request between, or after, those of the quote and its version.
LEMMA SaveRequestKeepsRecord ==
    ASSUME Inv, NEW w \in Workers, SaveRetired(w) \/ SaveEnded(w)
    PROVE  Inv'
<1>1. /\ Busy(w) /\ work[w].at \in {"retiring", "ending"} /\ work[w] \in Task
      /\ \A v \in Workers \ {w} : work'[v] = work[v]
      /\ UNCHANGED <<status, total, versions, agreed, overlapped, failed, unversioned>>
  BY QuoteOfTask DEF SaveRetired, SaveEnded, Busy, Done, Inv, TypeOK, history
<1>2. \/ work'[w] = Idle
      \/ /\ work[w].at = "retiring" /\ work'[w].at = "closing" /\ work'[w].outcome = work[w].outcome
         /\ work'[w].ver = work[w].ver
  BY <1>1 DEF SaveRetired, SaveEnded, Done, Inv, TypeOK, Task
<1>3. SoundTask(work[w])
  BY DEF Inv, TasksSound
<1>4. (SoundTask(work[w]) /\ ReadTask(work[w]))'
  BY <1>1, <1>2, <1>3 DEF SoundTask, ReadTask, NoPriceAt, Idle, OnAQuote, Recorders, Ops
<1>5. ~overlapped => (AgreedIsLast /\ AcceptedIsLast /\ LastIsPriced)'
  BY <1>1, SerialFacts, QuietStep DEF Recorders
<1> QED BY <1>1, <1>4, <1>5, SaveRetiredTyped, SaveEndedTyped, WorkKeepsRecord

LEMMA ReadLatestKeepsRecord ==
    ASSUME Inv, NEW w \in Workers, ReadLatest(w)
    PROVE  Inv'
<1> DEFINE q == work[w].quote
           n == LatestOf(q)
<1>1. /\ work[w] \in Task /\ q \in 0 .. LastQuote /\ Busy(w) /\ work[w].at = "marking"
      /\ work[w].outcome \in {"lost", "expired"}
      /\ q # 0 => work[w].price \in Prices /\ q \in Quotes
  <2>1. work[w] \in Task /\ q \in 0 .. LastQuote /\ work[w].at = "marking" /\ Busy(w)
    BY QuoteOfTask DEF Inv, ReadLatest, Busy
  <2>2. work[w].outcome \in {"lost", "expired"} /\ (q # 0 => work[w].price \in Prices)
    BY <2>1 DEF Inv, TasksSound, SoundTask, NoPriceAt
  <2>3. q # 0 => q \in Quotes
    BY <2>1, QuoteVersionsAssumption DEF Quotes
  <2> QED BY <2>1, <2>2, <2>3
<1>2. /\ \A v \in Workers \ {w} : work'[v] = work[v]
      /\ \/ (work'[w] = Idle \/ (work'[w].at = "ending" /\ work'[w].outcome = "open"))
         \/ /\ n = 0 /\ work'[w].at = "recording" /\ work'[w].quote = q
            /\ work'[w].price = work[w].price /\ work'[w].outcome = work[w].outcome
         \/ /\ n # 0 /\ work'[w].at = "closing" /\ work'[w].ver = n
            /\ work'[w].outcome = work[w].outcome
  <2>1. CASE AfterVersion(w)
    BY <2>1, AfterVersionTask DEF Inv
  <2>2. CASE ~AfterVersion(w)
    BY <1>1, <2>2 DEF ReadLatest, Step, Inv, TypeOK, Task
  <2> QED BY <2>1, <2>2
<1>3. UNCHANGED <<status, total, versions, agreed, overlapped, failed, unversioned>>
  BY DEF ReadLatest, quoteVars, history
<1>4. (n = 0 <=> VersionsOf(q) = {}) /\ (n # 0 => n \in VersionsOf(q) /\ n \in DOMAIN versions)
  BY LatestInRange DEF Inv
<1> HIDE DEF n
<1>5. SoundTask(work[w])'
  <2> HIDE DEF q
  <2> QED BY <1>1, <1>2, <1>3, <1>4 DEF SoundTask, NoPriceAt, Ops, OnAQuote, Idle
<1>6. ~overlapped => (ReadTask(work[w]) /\ AgreedIsLast /\ AcceptedIsLast /\ LastIsPriced)'
  <2> SUFFICES ASSUME ~overlapped PROVE (ReadTask(work[w]) /\ AgreedIsLast /\ AcceptedIsLast /\ LastIsPriced)'
    OBVIOUS
  <2>1. (AgreedIsLast /\ AcceptedIsLast /\ LastIsPriced)'
    BY <1>1, <1>2, <1>3, SerialFacts, QuietStep DEF Recorders
  <2>2. q # 0 => work[w].price = total[q]
    BY <1>1, SerialFacts DEF ReadTask, NoPriceAt
  <2>3. CASE work'[w] = Idle \/ work'[w].at = "ending"
    BY <2>1, <2>3, IdleIsSound DEF ReadTask, NoPriceAt, Idle, OnAQuote, Recorders
  <2>4. CASE n = 0 /\ work'[w].at = "recording" /\ work'[w].quote = q /\ work'[w].price = work[w].price
    <3>1. q # 0 => agreed[q] = NoPrice
      BY <1>1, <1>4, <2>4 DEF Inv, AcceptedWasAgreed
    <3>2. q = 0 => versions = << >>
      <4>1. q = 0 => Len(versions) \in Nat /\ 1 .. Len(versions) = {}
        BY <1>4, <2>4, TypesHeld DEF Inv, VersionsOf
      <4>2. q = 0 => Len(versions) = 0
        BY <4>1
      <4> QED BY <4>2, EmptySeq DEF Inv, TypeOK
    <3> HIDE DEF q
    <3>3. ReadTask(work[w])'
      BY <1>3, <2>2, <2>4, <3>1, <3>2 DEF ReadTask, NoPriceAt, OnAQuote, Recorders
    <3> QED BY <2>1, <3>3
  <2>5. CASE n # 0 /\ work'[w].at = "closing" /\ work'[w].ver = n
    <3>1. ReadTask(work[w])'
      BY <2>5 DEF ReadTask, NoPriceAt, OnAQuote, Recorders
    <3> QED BY <2>1, <3>1
  <2> QED BY <1>2, <2>3, <2>4, <2>5
<1> QED BY <1>1, <1>2, <1>3, <1>5, <1>6, ReadLatestTyped, WorkKeepsRecord

LEMMA ReadOpenKeepsRecord ==
    ASSUME Inv, NEW w \in Workers, ReadOpen(w)
    PROVE  Inv'
<1> DEFINE o == work[w].quote
           q == IF o = 0 THEN LatestResponse ELSE o
<1>1. work[w] \in Task /\ o \in 0 .. LastQuote /\ q \in 0 .. LastQuote /\ Busy(w) /\ work[w].at = "recording"
  BY QuoteOfTask, LatestResponseIsQuote DEF Inv, ReadOpen, Busy
<1>2. /\ \A v \in Workers \ {w} : work'[v] = work[v]
      /\ work'[w].at = "numbering" /\ work'[w].quote = q /\ work'[w].open = OpenOf(q)
      /\ work'[w].price = IF o = q THEN work[w].price ELSE total[q]
      /\ work'[w].outcome = work[w].outcome
  BY <1>1 DEF ReadOpen, Opened, Inv, TypeOK, Task
<1>3. UNCHANGED <<status, total, versions, agreed, overlapped, failed, unversioned>>
  BY DEF ReadOpen, quoteVars, history
<1>4. q # 0 => q \in Quotes /\ total[q] \in Prices
  BY <1>1, QuoteVersionsAssumption DEF Quotes, Inv, TypeOK
<1>5. /\ \A x : VersionsOf(x)' = VersionsOf(x) /\ OpenOf(x)' = OpenOf(x)
      /\ OpenOf(q) \subseteq VersionsOf(q)
  BY <1>3 DEF OpenOf, VersionsOf
<1>6. o # 0 => o = q
  OBVIOUS
<1>7. (o # 0 => work[w].price \in Prices) /\ work[w].outcome \in {"open", "lost", "expired"}
  BY <1>1 DEF Inv, TasksSound, SoundTask, NoPriceAt
<1> HIDE DEF q
<1>8. SoundTask(work[w])'
  <2> HIDE DEF o
  <2> QED BY <1>1, <1>2, <1>4, <1>5, <1>6, <1>7 DEF SoundTask, NoPriceAt, Ops, OnAQuote
<1>9. ~overlapped => (ReadTask(work[w]) /\ AgreedIsLast /\ AcceptedIsLast /\ LastIsPriced)'
  <2> SUFFICES ASSUME ~overlapped PROVE (ReadTask(work[w]) /\ AgreedIsLast /\ AcceptedIsLast /\ LastIsPriced)'
    OBVIOUS
  <2>1. (AgreedIsLast /\ AcceptedIsLast /\ LastIsPriced)'
    BY <1>1, <1>2, <1>3, <1>6, SerialFacts, QuietStep DEF Recorders
  <2>2. (o # 0 => work[w].price = total[o]) /\ (IF o # 0 THEN agreed[o] = NoPrice ELSE versions = << >>)
    BY <1>1, SerialFacts DEF ReadTask, NoPriceAt, Recorders
  <2>3. q # 0 => agreed[q] = NoPrice
    <3>1. CASE o = 0
      BY <1>4, <2>2, <3>1 DEF Inv, AcceptedWasAgreed, VersionsOf
    <3> QED BY <1>6, <2>2, <3>1
  <2> HIDE DEF o
  <2>4. ReadTask(work[w])'
    BY <1>2, <1>3, <1>5, <1>6, <2>2, <2>3 DEF ReadTask, NoPriceAt, OnAQuote, Recorders
  <2> QED BY <2>1, <2>4
<1> QED BY <1>1, <1>2, <1>3, <1>8, <1>9, ReadOpenTyped, WorkKeepsRecord

LEMMA ReadNumberKeepsRecord ==
    ASSUME Inv, NEW w \in Workers, ReadNumber(w)
    PROVE  Inv'
<1>1. work[w] \in Task /\ Busy(w) /\ work[w].at = "numbering"
  BY QuoteOfTask DEF Inv, ReadNumber, Busy
<1>2. /\ \A v \in Workers \ {w} : work'[v] = work[v]
      /\ work'[w].at = "inserting" /\ work'[w].quote = work[w].quote /\ work'[w].open = work[w].open
      /\ work'[w].price = work[w].price /\ work'[w].outcome = work[w].outcome
  BY <1>1 DEF ReadNumber, Inv, TypeOK, Task
<1>3. UNCHANGED <<status, total, versions, agreed, overlapped, failed, unversioned>>
  BY DEF ReadNumber, quoteVars, history
<1>4. \A q : VersionsOf(q)' = VersionsOf(q) /\ OpenOf(q)' = OpenOf(q)
  BY <1>3 DEF OpenOf, VersionsOf
<1>5. SoundTask(work[w])
  BY DEF Inv, TasksSound
<1>6. SoundTask(work[w])'
  BY <1>1, <1>2, <1>4, <1>5 DEF SoundTask, NoPriceAt, Ops, OnAQuote
<1>7. ~overlapped => (ReadTask(work[w]) /\ AgreedIsLast /\ AcceptedIsLast /\ LastIsPriced)'
  <2> SUFFICES ASSUME ~overlapped PROVE (ReadTask(work[w]) /\ AgreedIsLast /\ AcceptedIsLast /\ LastIsPriced)'
    OBVIOUS
  <2>1. (AgreedIsLast /\ AcceptedIsLast /\ LastIsPriced)'
    BY <1>1, <1>2, <1>3, SerialFacts, QuietStep DEF Recorders
  <2>2. ReadTask(work[w])
    BY SerialFacts
  <2>3. ReadTask(work[w])'
    BY <1>1, <1>2, <1>3, <1>4, <2>2 DEF ReadTask, NoPriceAt, OnAQuote, Recorders
  <2> QED BY <2>1, <2>3
<1> QED BY <1>1, <1>2, <1>3, <1>6, <1>7, ReadNumberTyped, WorkKeepsRecord

LEMMA RecordFailsKeepsRecord ==
    ASSUME Inv, NEW w \in Workers, RecordFails(w)
    PROVE  Inv'
<1>1. /\ Busy(w) /\ \A v \in Workers \ {w} : work'[v] = work[v]
      /\ work'[w] = Idle
  BY DEF RecordFails, Busy, Done, Inv, TypeOK
<1>2. UNCHANGED <<status, total, versions, agreed, overlapped, unversioned>> /\ failed' = TRUE
  BY DEF RecordFails, quoteVars
<1>3. (SoundTask(work[w]) /\ ReadTask(work[w]))'
  BY <1>1 DEF SoundTask, NoPriceAt, Ops, ReadTask, Idle, OnAQuote, Recorders
<1>4. ~overlapped => (AgreedIsLast /\ AcceptedIsLast /\ LastIsPriced)'
  <2>1. \A q : LatestOf(q)' = LatestOf(q)
    BY <1>2 DEF LatestOf, VersionsOf
  <2> QED BY <1>2, <2>1, SerialFacts DEF AgreedIsLast, AcceptedIsLast, LastIsPriced
<1> QED BY <1>1, <1>2, <1>3, <1>4, RecordFailsTyped, WorkKeepsRecord
\* The versions that stand for a quote: its own, and those without one.
InForce(vs, q) == {n \in DOMAIN vs : vs[n].quote \in {0, q}}

\* LatestStands, said of the rows in force.
LEMMA StandsByRow ==
    ASSUME TypeOK
    PROVE  LatestStands <=> \A q \in Quotes : InForce(versions, q) # {} =>
                              versions[Highest(InForce(versions, q))].outcome # "superseded"
<1>1. ASSUME NEW q \in Quotes
      PROVE  VersionsOf(q) \cup {n \in DOMAIN versions : versions[n].quote = 0} = InForce(versions, q)
  BY QuoteVersionsAssumption DEF VersionsOf, InForce, Quotes
<1>2. ASSUME NEW q \in Quotes
      PROVE  Highest(InForce(versions, q)) # 0 <=> InForce(versions, q) # {}
  <2>1. InForce(versions, q) \subseteq 1 .. Len(versions) /\ Len(versions) \in Nat
    BY TypesHeld DEF InForce
  <2> QED BY <2>1, HighestIsMaximum DEF Highest
<1> QED BY <1>1, <1>2 DEF LatestStands

\* The same of the next state.
LEMMA StandsByRowNext ==
    ASSUME TypeOK',
           \A q \in Quotes : InForce(versions', q) # {} =>
                versions'[Highest(InForce(versions', q))].outcome # "superseded"
    PROVE  LatestStands'
<1>1. ASSUME NEW q \in Quotes
      PROVE  (VersionsOf(q) \cup {n \in DOMAIN versions : versions[n].quote = 0})' = InForce(versions', q)
  BY QuoteVersionsAssumption DEF VersionsOf, InForce, Quotes
<1>2. ASSUME NEW q \in Quotes, Highest(InForce(versions', q)) # 0
      PROVE  InForce(versions', q) # {}
  BY <1>2 DEF Highest
<1> QED BY <1>1, <1>2 DEF LatestStands

\* The rows of a save of outcomes.
LEMMA SameQuotesNext ==
    ASSUME DOMAIN versions' = DOMAIN versions,
           \A n \in DOMAIN versions : versions'[n].quote = versions[n].quote, NEW q
    PROVE  /\ VersionsOf(q)' = VersionsOf(q) /\ LatestOf(q)' = LatestOf(q)
           /\ InForce(versions', q) = InForce(versions, q)
<1>1. VersionsOf(q)' = VersionsOf(q)
  BY DEF VersionsOf
<1> QED BY <1>1 DEF LatestOf, InForce

LEMMA SaveOutcomeKeepsRecord ==
    ASSUME Inv, NEW w \in Workers, SaveOutcome(w)
    PROVE  Inv'
<1> DEFINE k == work[w].ver
<1>1. /\ k \in DOMAIN versions /\ work[w].outcome \in {"lost", "expired"}
      /\ versions' \in Seq(Version) /\ Len(versions') = Len(versions)
      /\ DOMAIN versions' = DOMAIN versions
      /\ \A n \in DOMAIN versions :
           /\ versions'[n].quote = versions[n].quote /\ versions'[n].price = versions[n].price
           /\ versions'[n].outcome = IF n = k THEN work[w].outcome ELSE versions[n].outcome
  BY SaveOutcomeRows DEF Inv
<1>2. /\ Busy(w) /\ work[w].at = "closing" /\ \A v \in Workers \ {w} : work'[v] = work[v]
      /\ (work'[w] = Idle \/ (work'[w].at = "ending" /\ work'[w].outcome = "open"))
      /\ UNCHANGED <<status, total, agreed, overlapped, failed, unversioned>>
  BY AfterVersionTask DEF SaveOutcome, Busy, Inv, quoteVars, history
<1> HIDE DEF k
<1>3. \A q : /\ VersionsOf(q)' = VersionsOf(q) /\ LatestOf(q)' = LatestOf(q)
             /\ InForce(versions', q) = InForce(versions, q)
  BY <1>1, SameQuotesNext
<1>4. LatestStands'
  <2>1. \A q \in Quotes : InForce(versions, q) # {} =>
            versions[Highest(InForce(versions, q))].outcome # "superseded"
    BY StandsByRow DEF Inv
  <2>2. \A q \in Quotes : InForce(versions, q) # {} => Highest(InForce(versions, q)) \in DOMAIN versions
    <3>1. \A q \in Quotes : InForce(versions, q) \subseteq 1 .. Len(versions) /\ Len(versions) \in Nat
      BY TypesHeld DEF InForce, Inv
    <3> QED BY <3>1, HighestIsMaximum DEF InForce
  <2>3. \A q \in Quotes : InForce(versions', q) # {} =>
            versions'[Highest(InForce(versions', q))].outcome # "superseded"
    BY <1>1, <1>3, <2>1, <2>2
  <2> QED BY <2>3, StandsByRowNext, SaveOutcomeTyped
<1>5. AcceptedWasAgreed'
  BY <1>1, <1>2, <1>3 DEF Inv, AcceptedWasAgreed
<1>6. TasksSound'
  <2>1. work'[w] = Idle \/ SoundTask(work[w])'
    BY <1>2 DEF SoundTask, OnAQuote, NoPriceAt, Ops
  <2> QED BY <1>1, <1>2, <2>1, TasksKept DEF Inv
<1>7. Serial'
  <2> SUFFICES ASSUME ~overlapped' PROVE (OneBusy /\ OneOpenVersion /\ WhatWasRead /\ AgreedIsLast /\ AcceptedIsLast /\ LastIsPriced)'
    BY DEF Serial
  <2>1. ~overlapped
    BY <1>2
  <2>2. ReadTask(work[w])'
    BY <1>2 DEF ReadTask, NoPriceAt, Idle, OnAQuote, Recorders
  <2>3. (OneBusy /\ WhatWasRead)'
    BY <1>2, <2>1, <2>2, SerialFacts, AloneStep
  <2>4. OneOpenVersion'
    BY <1>1, <2>1, SerialFacts DEF OneOpenVersion
  <2>5. AgreedIsLast'
    <3>1. \A q \in Quotes : agreed[q] # NoPrice => LatestOf(q) \in DOMAIN versions
      BY LatestInRange DEF Inv, AcceptedWasAgreed
    <3> QED BY <1>1, <1>2, <1>3, <2>1, <3>1, SerialFacts DEF AgreedIsLast
  <2>6. AcceptedIsLast'
    BY <1>1, <1>2, <1>3, <2>1, SerialFacts DEF AcceptedIsLast
  <2>7. LastIsPriced'
    <3>1. \A q \in Quotes : VersionsOf(q) # {} => LatestOf(q) \in DOMAIN versions
      BY LatestInRange DEF Inv
    <3>2. \A v \in Workers : work[v].at \notin Recorders
      BY <1>2, <2>1, SerialFacts DEF Recorders
    <3> QED BY <1>1, <1>2, <1>3, <2>1, <3>1, <3>2, SerialFacts DEF LastIsPriced
  <2> QED BY <2>3, <2>4, <2>5, <2>6, <2>7
<1> QED BY <1>4, <1>5, <1>6, <1>7, SaveOutcomeTyped DEF Inv

\* After an insert the new version is the last of its quote.
LEMMA NewLastNext ==
    ASSUME TypeOK, versions' \in Seq(Version), Len(versions') = Len(versions) + 1,
           \A n \in DOMAIN versions : versions'[n].quote = versions[n].quote, NEW q
    PROVE  IF q \in {0, versions'[Len(versions')].quote}
             THEN /\ VersionsOf(q)' = VersionsOf(q) \cup {Len(versions')}
                  /\ LatestOf(q)' = Len(versions')
             ELSE VersionsOf(q)' = VersionsOf(q) /\ LatestOf(q)' = LatestOf(q)
<1>1. /\ VersionsOf(q) = Of(versions, q) /\ VersionsOf(q)' = Of(versions', q)
      /\ LatestOf(q) = Last(versions, q) /\ LatestOf(q)' = Last(versions', q)
  BY DEF VersionsOf, Of, LatestOf, Last
<1>2. versions \in Seq(Version)
  BY DEF TypeOK
<1> HIDE DEF TypeOK
<1>3. IF q \in {0, versions'[Len(versions')].quote}
        THEN Of(versions', q) = Of(versions, q) \cup {Len(versions')} /\ Last(versions', q) = Len(versions')
        ELSE Of(versions', q) = Of(versions, q) /\ Last(versions', q) = Last(versions, q)
  BY <1>2, NewRowIsLast
<1> QED BY <1>1, <1>3

\* The row that stands last for a quote, after an insert that supersedes none of
\* the others.
LEMMA InForceNext ==
    ASSUME TypeOK, versions' \in Seq(Version), Len(versions') = Len(versions) + 1,
           DOMAIN versions' = DOMAIN versions \cup {Len(versions')},
           \A n \in DOMAIN versions : versions'[n].quote = versions[n].quote, NEW q
    PROVE  IF versions'[Len(versions')].quote \in {0, q}
             THEN Highest(InForce(versions', q)) = Len(versions')
             ELSE /\ InForce(versions', q) = InForce(versions, q)
                  /\ InForce(versions, q) # {} => Highest(InForce(versions, q)) \in InForce(versions, q)
<1>1. Len(versions) \in Nat /\ DOMAIN versions = 1 .. Len(versions) /\ DOMAIN versions' = 1 .. Len(versions')
  BY TypesHeld, LenProperties
<1>2. CASE versions'[Len(versions')].quote \in {0, q}
  <2>1. Len(versions') \in InForce(versions', q) /\ InForce(versions', q) \subseteq 1 .. Len(versions')
        /\ Len(versions') \in Nat
    BY <1>1, <1>2 DEF InForce
  <2>2. Highest(InForce(versions', q)) \in 1 .. Len(versions') /\ Len(versions') <= Highest(InForce(versions', q))
    BY <2>1, HighestIsMaximum
  <2>3. Highest(InForce(versions', q)) = Len(versions')
    BY <2>1, <2>2
  <2> QED BY <1>2, <2>3
<1>3. CASE versions'[Len(versions')].quote \notin {0, q}
  <2>1. InForce(versions', q) = InForce(versions, q)
    BY <1>3 DEF InForce
  <2>2. InForce(versions, q) # {} => Highest(InForce(versions, q)) \in InForce(versions, q)
    BY <1>1, HighestIsMaximum DEF InForce
  <2> QED BY <1>3, <2>1, <2>2
<1> QED BY <1>2, <1>3

LEMMA InsertKeepsRecord ==
    ASSUME Inv, NEW w \in Workers, Insert(w)
    PROVE  Inv'
<1> DEFINE p == work[w].quote
           new == Len(versions')
<1>1. /\ versions' \in Seq(Version) /\ Len(versions') = Len(versions) + 1
      /\ DOMAIN versions' = DOMAIN versions \cup {new}
      /\ versions'[new].quote = p /\ versions'[new].price = work[w].price
      /\ versions'[new].outcome = work[w].outcome
      /\ \A n \in DOMAIN versions :
           /\ n # new
           /\ versions'[n].quote = versions[n].quote /\ versions'[n].price = versions[n].price
           /\ versions'[n].outcome = IF n \in work[w].open THEN "superseded"
                                     ELSE versions[n].outcome
  BY InsertRows DEF Inv
<1>2. /\ Busy(w) /\ work[w].at = "inserting" /\ \A v \in Workers \ {w} : work'[v] = work[v]
      /\ (work'[w] = Idle \/ (work'[w].at = "ending" /\ work'[w].outcome = "open"))
      /\ UNCHANGED <<status, total, agreed, overlapped, failed>>
      /\ unversioned' = unversioned \ {p}
  BY AfterVersionTask DEF Insert, Busy, Inv, quoteVars
<1>3. /\ work[w].open \subseteq VersionsOf(p) /\ work[w].outcome \in {"open", "lost", "expired"}
      /\ p \in 0 .. LastQuote
  BY <1>2, QuoteOfTask DEF Inv, TasksSound, SoundTask
<1> HIDE DEF p, new
<1>4. \A q : IF q \in {0, p} THEN VersionsOf(q)' = VersionsOf(q) \cup {new} /\ LatestOf(q)' = new
             ELSE VersionsOf(q)' = VersionsOf(q) /\ LatestOf(q)' = LatestOf(q)
  BY <1>1, NewLastNext DEF Inv, new
<1>5. LatestStands'
  <2>1. \A q \in Quotes : InForce(versions, q) # {} =>
            versions[Highest(InForce(versions, q))].outcome # "superseded"
    BY StandsByRow DEF Inv
  <2>2. ASSUME NEW q \in Quotes, InForce(versions', q) # {}
        PROVE  versions'[Highest(InForce(versions', q))].outcome # "superseded"
    <3>1. IF p \in {0, q}
            THEN Highest(InForce(versions', q)) = new
            ELSE /\ InForce(versions', q) = InForce(versions, q)
                 /\ InForce(versions, q) # {} => Highest(InForce(versions, q)) \in InForce(versions, q)
      BY <1>1, InForceNext DEF Inv, new
    <3>2. CASE p \in {0, q}
      BY <1>1, <1>3, <3>1, <3>2
    <3>3. CASE p \notin {0, q}
      <4> DEFINE k == Highest(InForce(versions, q))
      <4>1. k \in DOMAIN versions /\ versions[k].quote \in {0, q} /\ Highest(InForce(versions', q)) = k
        BY <2>2, <3>1, <3>3 DEF InForce
      <4>2. versions[k].outcome # "superseded"
        BY <2>1, <2>2, <3>1, <3>3
      <4>3. k \notin work[w].open
        BY <1>3, <3>3, <4>1 DEF VersionsOf
      <4> HIDE DEF k
      <4> QED BY <1>1, <4>1, <4>2, <4>3
    <3> QED BY <3>2, <3>3
  <2> QED BY <2>2, StandsByRowNext, InsertTyped
<1>6. AcceptedWasAgreed'
  <2>1. \A n \in DOMAIN versions' : versions'[n].outcome = "accepted" =>
           n \in DOMAIN versions /\ versions[n].outcome = "accepted" /\ versions'[n].quote = versions[n].quote
    BY <1>1, <1>3
  <2>2. \A q : VersionsOf(q) # {} => VersionsOf(q)' # {}
    BY <1>4
  <2> QED BY <1>2, <2>1, <2>2 DEF Inv, AcceptedWasAgreed
<1>7. TasksSound'
  <2>1. work'[w] = Idle \/ SoundTask(work[w])'
    BY <1>2 DEF SoundTask, OnAQuote, NoPriceAt, Ops
  <2> QED BY <1>1, <1>2, <2>1, TasksKept DEF Inv
<1>8. Serial'
  <2> SUFFICES ASSUME ~overlapped' PROVE (OneBusy /\ OneOpenVersion /\ WhatWasRead /\ AgreedIsLast /\ AcceptedIsLast /\ LastIsPriced)'
    BY DEF Serial
  <2>1. ~overlapped
    BY <1>2
  <2>2. ReadTask(work[w])'
    BY <1>2 DEF ReadTask, NoPriceAt, Idle, OnAQuote, Recorders
  <2>3. (OneBusy /\ WhatWasRead)'
    BY <1>2, <2>1, <2>2, SerialFacts, AloneStep
  <2>4. /\ work[w].open = OpenOf(p)
        /\ p # 0 => agreed[p] = NoPrice
        /\ p # 0 => work[w].price = total[p]
    <3>1. ReadTask(work[w])
      BY <2>1, SerialFacts
    <3> QED BY <1>2, <3>1 DEF ReadTask, NoPriceAt, Recorders, p
  <2>5. OneOpenVersion'
    <3>1. ASSUME NEW n \in DOMAIN versions, versions'[n].outcome = "open"
          PROVE  versions[n].outcome = "open" /\ p # 0 /\ versions[n].quote # p
      <4>1. n \notin work[w].open /\ versions[n].outcome = "open"
        BY <1>1, <3>1
      <4> QED BY <2>4, <4>1 DEF OpenOf, VersionsOf
    <3>2. ASSUME NEW m \in DOMAIN versions', NEW n \in DOMAIN versions',
                 versions'[m].quote = versions'[n].quote, versions'[m].outcome = "open",
                 versions'[n].outcome = "open"
          PROVE  m = n
      BY <1>1, <2>1, <3>1, <3>2, SerialFacts DEF OneOpenVersion
    <3> QED BY <3>2 DEF OneOpenVersion
  <2>6. AgreedIsLast'
    <3> SUFFICES ASSUME NEW q \in Quotes, agreed[q] # NoPrice
                 PROVE  /\ status[q] \in {"accepted", "rejected"}
                        /\ versions'[LatestOf(q)'].outcome \notin {"open", "superseded"}
      BY <1>2 DEF AgreedIsLast
    <3>1. q # p \/ p = 0
      BY <2>4
    <3>2. LatestOf(q) \in DOMAIN versions
      BY LatestInRange DEF Inv, AcceptedWasAgreed
    <3>3. status[q] \in {"accepted", "rejected"} /\ versions[LatestOf(q)].outcome \notin {"open", "superseded"}
      BY <2>1, SerialFacts DEF AgreedIsLast
    <3>4. LatestOf(q) \notin work[w].open
      BY <2>4, <3>3 DEF OpenOf
    <3>5. q \notin {0, p} 
      BY <3>1, QuoteVersionsAssumption DEF Quotes
    <3> QED BY <1>1, <1>4, <3>2, <3>3, <3>4, <3>5
  <2>7. AcceptedIsLast'
    <3> SUFFICES ASSUME NEW n \in DOMAIN versions', versions'[n].outcome = "accepted"
                 PROVE  n = LatestOf(versions[n].quote)' /\ status[versions'[n].quote] = "accepted"
      BY <1>2 DEF AcceptedIsLast
    <3>1. n \in DOMAIN versions /\ versions[n].outcome = "accepted" /\ versions'[n].quote = versions[n].quote
      BY <1>1, <1>3
    <3>2. versions[n].quote # 0 /\ agreed[versions[n].quote] # NoPrice
      BY <3>1 DEF Inv, AcceptedWasAgreed
    <3>3. versions[n].quote \notin {0, p}
      BY <2>4, <3>2
    <3>4. n = LatestOf(versions[n].quote) /\ status[versions[n].quote] = "accepted"
      BY <2>1, <3>1, SerialFacts DEF AcceptedIsLast
    <3> QED BY <1>4, <3>1, <3>3, <3>4
  <2>8. LastIsPriced'
    <3> SUFFICES ASSUME ~failed, NEW q \in Quotes, q \notin unversioned \ {p}, VersionsOf(q)' # {}
                 PROVE  versions'[LatestOf(q)'].price = (IF agreed[q] # NoPrice THEN agreed[q] ELSE total[q])
      BY <1>2 DEF LastIsPriced
    <3>1. q # 0
      BY QuoteVersionsAssumption DEF Quotes
    <3>2. CASE q = p
      BY <1>1, <1>4, <2>4, <3>1, <3>2
    <3>3. CASE q # p
      <4>1. LatestOf(q)' = LatestOf(q) /\ VersionsOf(q) # {} /\ q \notin unversioned
        BY <1>4, <3>1, <3>3
      <4>2. LatestOf(q) \in DOMAIN versions
        BY <4>1, LatestInRange DEF Inv
      <4>3. \A v \in Workers : ~ (work[v].at \in Recorders /\ work[v].quote = q)
        BY <1>2, <2>1, <3>3, SerialFacts DEF Recorders, p
      <4>4. versions[LatestOf(q)].price = (IF agreed[q] # NoPrice THEN agreed[q] ELSE total[q])
        BY <2>1, <4>1, <4>3, SerialFacts DEF LastIsPriced
      <4> QED BY <1>1, <4>1, <4>2, <4>4
    <3> QED BY <3>2, <3>3
  <2> QED BY <2>3, <2>5, <2>6, <2>7, <2>8
<1> QED BY <1>5, <1>6, <1>7, <1>8, InsertTyped DEF Inv

LEMMA AcceptKeepsRecord ==
    ASSUME Inv, NEW q \in Quotes, Accept(q)
    PROVE  Inv'
<1> DEFINE new == Len(versions')
           last == LatestOf(q)
<1>1. /\ versions' \in Seq(Version)
      /\ \A n \in DOMAIN versions :
           /\ n \in DOMAIN versions'
           /\ versions'[n].quote = versions[n].quote /\ versions'[n].price = versions[n].price
           /\ versions'[n].outcome =
                IF n = last THEN "accepted"
                ELSE IF n \in Losers(q) THEN "lost" ELSE versions[n].outcome
      /\ last # 0 => Len(versions') = Len(versions) /\ DOMAIN versions' = DOMAIN versions
      /\ last = 0 =>
           /\ Len(versions') = Len(versions) + 1
           /\ new \notin DOMAIN versions
           /\ DOMAIN versions' = DOMAIN versions \cup {new}
           /\ versions'[new] = [quote |-> q, price |-> total[q], outcome |-> "accepted"]
  BY AcceptRows DEF Inv
<1>2. /\ UNCHANGED <<total, failed>>
      /\ \A w \in Workers : work'[w] = IF Busy(w) THEN [work[w] EXCEPT !.early = @ \cup {q}]
                                                  ELSE work[w]
      /\ status'[q] = "accepted"
      /\ \A o \in Quotes \ {q} : status'[o] = IF status[o] = "pending" THEN "pending" ELSE "rejected"
      /\ agreed'[q] = IF agreed[q] = NoPrice THEN total[q] ELSE agreed[q]
      /\ \A o \in Quotes \ {q} : agreed'[o] = agreed[o]
      /\ unversioned' = IF last = 0 THEN unversioned \ {q} ELSE unversioned
      /\ overlapped' = (overlapped \/ \E w \in Workers : Busy(w))
  BY DEF Accept, Inv, TypeOK
<1>3. q # 0 /\ 0 \notin Quotes /\ total[q] # NoPrice /\ agreed'[q] # NoPrice
  BY <1>2, QuoteVersionsAssumption DEF Quotes, Inv, TypeOK
<1>4. last = 0 => versions'[new].quote = q /\ versions'[new].price = total[q] /\ versions'[new].outcome = "accepted"
  BY <1>1
<1>5. (last = 0 <=> VersionsOf(q) = {}) /\ (last # 0 => last \in DOMAIN versions /\ versions[last].quote = q)
  BY <1>3, LatestInRange DEF Inv, VersionsOf
<1> DEFINE top == IF last = 0 THEN new ELSE last
<1>6. \A o \in Quotes \ {q} : VersionsOf(o)' = VersionsOf(o) /\ LatestOf(o)' = LatestOf(o)
  <2>1. CASE last # 0
    BY <1>1, <2>1, SameQuotesNext
  <2>2. CASE last = 0
    <3> HIDE DEF last, new
    <3>1. versions'[Len(versions')].quote = q
      BY <1>4, <2>2 DEF new
    <3> QED BY <1>1, <1>3, <2>2, <3>1, NewLastNext DEF Inv
  <2> QED BY <2>1, <2>2
<1>7. LatestOf(q)' = top /\ top \in VersionsOf(q)' /\ VersionsOf(q)' # {}
  <2>1. CASE last # 0
    <3>1. VersionsOf(q)' = VersionsOf(q) /\ LatestOf(q)' = last
      BY <1>1, <2>1, SameQuotesNext
    <3>2. last \in VersionsOf(q)
      BY <2>1, LatestInRange DEF Inv
    <3> QED BY <2>1, <3>1, <3>2
  <2>2. CASE last = 0
    <3>1. VersionsOf(q)' = VersionsOf(q) \cup {new} /\ LatestOf(q)' = new
      <4> HIDE DEF last, new
      <4>1. versions'[Len(versions')].quote = q
        BY <1>4, <2>2 DEF new
      <4> QED BY <1>1, <1>3, <2>2, <4>1, NewLastNext DEF Inv, new
    <3> QED BY <2>2, <3>1
  <2> QED BY <2>1, <2>2
<1>8. \A n \in DOMAIN versions' : \/ n = top /\ versions'[n].outcome = "accepted" /\ versions'[n].quote = q
                                  \/ n \in DOMAIN versions /\ n # last
  BY <1>1, <1>4, <1>5
<1> HIDE DEF last, new
<1>9. LatestStands'
  <2>1. \A o \in Quotes : InForce(versions, o) # {} =>
            versions[Highest(InForce(versions, o))].outcome # "superseded"
    BY StandsByRow DEF Inv
  <2>2. ASSUME NEW o \in Quotes, InForce(versions', o) # {}
        PROVE  versions'[Highest(InForce(versions', o))].outcome # "superseded"
    <3> DEFINE k == Highest(InForce(versions, o))
    <3>1. \/ last = 0 /\ o = q /\ Highest(InForce(versions', o)) = new
          \/ InForce(versions', o) = InForce(versions, o) /\ k \in InForce(versions, o)
      <4>1. CASE last = 0
        <5>1. IF q \in {0, o}
                THEN Highest(InForce(versions', o)) = new
                ELSE /\ InForce(versions', o) = InForce(versions, o)
                     /\ InForce(versions, o) # {} => k \in InForce(versions, o)
          BY <1>1, <1>4, <4>1, InForceNext DEF Inv, new
        <5> QED BY <1>3, <2>2, <4>1, <5>1
      <4>2. CASE last # 0
        <5>1. InForce(versions', o) = InForce(versions, o)
          BY <1>1, <4>2, SameQuotesNext
        <5>2. InForce(versions, o) \subseteq 1 .. Len(versions) /\ Len(versions) \in Nat
          BY TypesHeld DEF InForce, Inv
        <5> QED BY <2>2, <5>1, <5>2, HighestIsMaximum
      <4> QED BY <4>1, <4>2
    <3>2. CASE last = 0 /\ o = q /\ Highest(InForce(versions', o)) = new
      BY <1>4, <3>2
    <3>3. CASE InForce(versions', o) = InForce(versions, o) /\ k \in InForce(versions, o)
      <4>1. k \in DOMAIN versions /\ versions[k].outcome # "superseded"
        BY <2>1, <3>3 DEF InForce
      <4> HIDE DEF k
      <4>2. versions'[k].outcome # "superseded"
        BY <1>1, <4>1
      <4> QED BY <3>3, <4>2 DEF k
    <3> QED BY <3>1, <3>2, <3>3
  <2> QED BY <2>2, StandsByRowNext, AcceptTyped
<1>10. AcceptedWasAgreed'
  <2>1. \A n \in DOMAIN versions : /\ versions[n].outcome = "accepted" => versions[n].quote \in Quotes
                                   /\ versions[n].outcome = "accepted" => agreed[versions[n].quote] # NoPrice
    BY TypesHeld, QuoteVersionsAssumption DEF Inv, AcceptedWasAgreed, Version, Quotes
  <2>2. \A n \in DOMAIN versions' : versions'[n].outcome = "accepted" =>
            versions'[n].quote # 0 /\ agreed'[versions'[n].quote] # NoPrice
    BY <1>1, <1>2, <1>3, <1>8, <2>1
  <2>3. \A o \in Quotes : agreed'[o] # NoPrice => VersionsOf(o)' # {}
    BY <1>2, <1>6, <1>7 DEF Inv, AcceptedWasAgreed
  <2> QED BY <2>2, <2>3 DEF AcceptedWasAgreed
<1>11. TasksSound'
  <2>1. ASSUME NEW t, SoundTask(t) PROVE SoundTask(t)'
    <3>1. VersionsOf(t.quote) \subseteq VersionsOf(t.quote)'
      BY <1>1 DEF VersionsOf
    <3> QED BY <1>1, <2>1, <3>1 DEF SoundTask
  <2>2. ASSUME NEW w \in Workers PROVE SoundTask(work[w])'
    <3>1. work[w] \in Task
      BY DEF Inv, TypeOK
    <3> DEFINE e == [work[w] EXCEPT !.early = @ \cup {q}]
    <3>2. /\ e.at = work[w].at /\ e.op = work[w].op /\ e.quote = work[w].quote
          /\ e.price = work[w].price /\ e.outcome = work[w].outcome /\ e.ver = work[w].ver
          /\ e.open = work[w].open
      BY <3>1 DEF Task
    <3>3. work'[w] = e \/ work'[w] = work[w]
      BY <1>2
    <3> HIDE DEF e
    <3>4. SoundTask(e)
      BY <3>2 DEF Inv, TasksSound, SoundTask
    <3>5. ASSUME NEW t, t = work'[w], SoundTask(t)' PROVE SoundTask(work[w])'
      BY <3>5 DEF SoundTask
    <3> QED BY <2>1, <3>3, <3>4, <3>5 DEF Inv, TasksSound
  <2> QED BY <2>2 DEF TasksSound
<1>12. Serial'
  <2> SUFFICES ASSUME ~overlapped' PROVE (OneBusy /\ OneOpenVersion /\ WhatWasRead /\ AgreedIsLast /\ AcceptedIsLast /\ LastIsPriced)'
    BY DEF Serial
  <2>1. ~overlapped /\ \A w \in Workers : work[w].at = "idle" /\ work'[w].at = "idle"
    BY <1>2 DEF Busy
  <2>2. (OneBusy /\ WhatWasRead)'
    BY <2>1 DEF OneBusy, Busy, WhatWasRead, ReadTask, NoPriceAt, OnAQuote, Recorders
  <2>3. OneOpenVersion'
    <3>1. \A n \in DOMAIN versions' : versions'[n].outcome = "open" =>
             n \in DOMAIN versions /\ versions[n].outcome = "open" /\ versions'[n].quote = versions[n].quote
      BY <1>1, <1>8
    <3> QED BY <2>1, <3>1, SerialFacts DEF OneOpenVersion
  <2>4. AgreedIsLast'
    <3> SUFFICES ASSUME NEW o \in Quotes, agreed'[o] # NoPrice
                 PROVE  /\ status'[o] \in {"accepted", "rejected"}
                        /\ versions'[LatestOf(o)'].outcome \notin {"open", "superseded"}
      BY DEF AgreedIsLast
    <3>1. CASE o = q
      BY <1>1, <1>2, <1>4, <1>5, <1>7, <3>1
    <3>2. CASE o # q
      <4>1. agreed[o] # NoPrice /\ LatestOf(o)' = LatestOf(o) /\ LatestOf(o) \in DOMAIN versions
        BY <1>2, <1>6, <3>2, LatestInRange DEF Inv, AcceptedWasAgreed
      <4>2. status[o] \in {"accepted", "rejected"} /\ versions[LatestOf(o)].outcome \notin {"open", "superseded"}
        BY <2>1, <4>1, SerialFacts DEF AgreedIsLast
      <4> QED BY <1>1, <1>2, <3>2, <4>1, <4>2
    <3> QED BY <3>1, <3>2
  <2>5. AcceptedIsLast'
    <3> SUFFICES ASSUME NEW n \in DOMAIN versions', versions'[n].outcome = "accepted"
                 PROVE  n = LatestOf(versions[n].quote)' /\ status'[versions'[n].quote] = "accepted"
      BY DEF AcceptedIsLast
    <3>1. CASE n = top /\ versions'[n].quote = q
      BY <1>2, <1>7, <3>1
    <3>2. CASE n \in DOMAIN versions /\ n # last
      <4>1. versions[n].outcome = "accepted" /\ n \notin Losers(q) /\ versions'[n].quote = versions[n].quote
        BY <1>1, <3>2
      <4> DEFINE o == versions[n].quote
      <4>2. n = LatestOf(o) /\ status[o] = "accepted" /\ o \in Quotes /\ n # 0
        BY <2>1, <3>2, <4>1, SerialFacts, TypesHeld, QuoteVersionsAssumption
           DEF AcceptedIsLast, Inv, AcceptedWasAgreed, Version, Quotes
      <4>3. o # q
        BY <3>2, <4>2 DEF last
      <4>4. n \in Losers(q)
        <5> HIDE DEF o
        <5> QED BY <4>2, <4>3 DEF Losers
      <4> QED BY <4>1, <4>4
    <3> QED BY <1>8, <3>1, <3>2
  <2>6. LastIsPriced'
    <3> SUFFICES ASSUME ~failed, NEW o \in Quotes, o \notin unversioned', VersionsOf(o)' # {}
                 PROVE  versions'[LatestOf(o)'].price = (IF agreed'[o] # NoPrice THEN agreed'[o] ELSE total[o])
      BY <1>2 DEF LastIsPriced
    <3>1. \A v \in Workers : work[v].at \notin Recorders
      BY <2>1 DEF Recorders
    <3>2. o \notin unversioned => (\/ VersionsOf(o) = {}
          \/ versions[LatestOf(o)].price = (IF agreed[o] # NoPrice THEN agreed[o] ELSE total[o]))
      BY <2>1, <3>1, SerialFacts DEF LastIsPriced
    <3>3. CASE o # q
      <4>1. LatestOf(o)' = LatestOf(o) /\ VersionsOf(o) # {} /\ o \notin unversioned /\ agreed'[o] = agreed[o]
        BY <1>2, <1>6, <3>3
      <4>2. LatestOf(o) \in DOMAIN versions
        BY <4>1, LatestInRange DEF Inv
      <4> QED BY <1>1, <3>2, <4>1, <4>2
    <3>4. CASE o = q /\ last # 0
      BY <1>1, <1>2, <1>3, <1>5, <1>7, <3>2, <3>4 DEF last
    <3>5. CASE o = q /\ last = 0
      <4>1. agreed[q] = NoPrice
        BY <1>5, <3>5 DEF Inv, AcceptedWasAgreed
      <4> QED BY <1>2, <1>3, <1>4, <1>7, <3>5, <4>1
    <3> QED BY <3>3, <3>4, <3>5
  <2> QED BY <2>2, <2>3, <2>4, <2>5, <2>6
<1> QED BY <1>9, <1>10, <1>11, <1>12, AcceptTyped DEF Inv

\* The invariant holds at the start, is kept by every step, and so holds always.
LEMMA RecordStarts == Init => Inv
<1> SUFFICES ASSUME Init PROVE Inv
  OBVIOUS
<1>1. /\ versions = << >> /\ DOMAIN versions = {} /\ Len(versions) = 0 /\ versions \in Seq(Version)
      /\ \A w \in Workers : work[w] = Idle
      /\ \A q \in Quotes : agreed[q] = NoPrice
  BY DEF Init
<1>2. TypeOK
  <2>1. work \in [Workers -> Task]
    BY IdleIsTask DEF Init
  <2>2. status \in [Quotes -> Statuses] /\ req \in Progress /\ agreed \in [Quotes -> Prices \cup {NoPrice}]
    BY DEF Init, Statuses, Progress
  <2>3. started \in 0 .. MaxTasks /\ Len(versions) <= MaxVersions
    BY <1>1, QuoteVersionsAssumption DEF Init
  <2>4. \A n \in DOMAIN versions : versions[n].quote # 0 => versions[n].price \in Prices
    BY <1>1
  <2>5. /\ total \in [Quotes -> Prices] /\ unversioned \subseteq Quotes
        /\ overlapped \in BOOLEAN /\ failed \in BOOLEAN /\ reopened \subseteq Quotes
    BY DEF Init
  <2> QED BY <1>1, <2>1, <2>2, <2>3, <2>4, <2>5 DEF TypeOK
<1>3. \A q : VersionsOf(q) = {}
  BY <1>1 DEF VersionsOf
<1>4. LatestStands
  BY <1>1, <1>3 DEF LatestStands, Highest
<1>5. TasksSound /\ AcceptedWasAgreed
  BY <1>1, IdleIsSound DEF TasksSound, AcceptedWasAgreed
<1>6. Serial
  <2>1. OneBusy /\ WhatWasRead
    BY <1>1, IdleIsSound DEF OneBusy, Busy, Idle, WhatWasRead
  <2>2. AgreedIsLast /\ AcceptedIsLast /\ LastIsPriced
    BY <1>1, <1>3 DEF AgreedIsLast, AcceptedIsLast, LastIsPriced
  <2>3. OneOpenVersion
    BY <1>1 DEF OneOpenVersion
  <2> QED BY <2>1, <2>2, <2>3 DEF Serial
<1> QED BY <1>2, <1>4, <1>5, <1>6 DEF Inv

LEMMA RecordStep == Inv /\ [Next]_vars => Inv'
<1> SUFFICES ASSUME Inv, [Next]_vars PROVE Inv'
  OBVIOUS
<1>1. CASE \E w \in Workers, q \in Quotes, op \in Ops : StartOnQuote(w, op, q)
  BY <1>1, StartOnQuoteKeepsRecord
<1>2. CASE \E w \in Workers : StartRefuse(w) \/ \E n \in DOMAIN versions : StartStale(w, n)
  BY <1>2, StartRefuseKeepsRecord, StartStaleKeepsRecord
<1>3. CASE \E w \in Workers : \/ SaveRevision(w) \/ SendToClient(w) \/ SaveRejected(w)
                              \/ SaveExpired(w) \/ SaveEnded(w) \/ SaveRefused(w)
                              \/ SaveStale(w) \/ SaveRetired(w)
  BY <1>3, SaveRequestKeepsRecord, SaveRevisionKeepsRecord, SendToClientKeepsRecord, SaveRejectedKeepsRecord,
     SaveRefusedKeepsRecord, SaveStaleKeepsRecord
<1>4. CASE \E w \in Workers : ReadLatest(w) \/ SaveOutcome(w)
  BY <1>4, ReadLatestKeepsRecord, SaveOutcomeKeepsRecord
<1>5. CASE \E w \in Workers : ReadOpen(w) \/ ReadNumber(w) \/ Insert(w) \/ RecordFails(w)
  BY <1>5, ReadOpenKeepsRecord, ReadNumberKeepsRecord, InsertKeepsRecord, RecordFailsKeepsRecord
<1>6. CASE \E q \in Quotes : Accept(q)
  BY <1>6, AcceptKeepsRecord
<1>7. CASE RequestMoves \/ UNCHANGED vars
  BY <1>7, RequestMovesKeepsRecord
<1> QED BY <1>1, <1>2, <1>3, <1>4, <1>5, <1>6, <1>7 DEF Next

LEMMA RecordInvariant == Spec => []Inv
BY RecordStarts, RecordStep, PTL DEF Spec

\* quotes/snapshots.py:214: rows, quotes and the work of every request keep
\* their types, however many requests record versions at once.
THEOREM TypeCorrect == Spec => []TypeOK
<1>1. Inv => TypeOK
  BY DEF Inv
<1> QED BY <1>1, RecordInvariant, PTL

\* quotes/snapshots.py:234 and 294: the version in force for a quote is never a
\* superseded one, and while requests follow one another at most one version of a
\* quote is open.
THEOREM VersionsStayInOrder == Spec => []VersionsInOrder
<1>1. Inv => VersionsInOrder
  BY DEF Inv, Serial, VersionsInOrder, OneOpenVersion
<1> QED BY <1>1, RecordInvariant, PTL

\* The rows a payment looks for.
LEMMA SettledIs ==
    ASSUME TypeOK, NEW q, NEW n \in VersionsOf(q),
           versions[n].outcome \in Outcomes \ {"superseded"}
    PROVE  SettledVersion(q) # 0
<1> DEFINE A == {m \in VersionsOf(q) : versions[m].outcome \in {"accepted"}}
           B == {m \in VersionsOf(q) : versions[m].outcome \in Outcomes \ {"superseded"}}
<1>1. VersionsOf(q) \subseteq 1 .. Len(versions) /\ Len(versions) \in Nat
  BY TypesHeld DEF VersionsOf
<1>2. B # {} /\ B \subseteq 1 .. Len(versions)
  BY <1>1
<1>3. Highest(B) # 0
  <2> HIDE DEF B
  <2>1. Highest(B) \in B
    BY <1>1, <1>2, HighestIsMaximum
  <2> QED BY <1>1, <1>2, <2>1
<1>4. SettledVersion(q) = IF Highest(A) # 0 THEN Highest(A) ELSE Highest(B)
  BY DEF SettledVersion
<1> QED BY <1>3, <1>4

\* When the accepted version, or the one that stands, is the latest.
LEMMA SettledIsLatest ==
    ASSUME TypeOK, NEW q \in Quotes, VersionsOf(q) # {},
           versions[LatestOf(q)].outcome \notin {"open", "superseded"},
           \A n \in VersionsOf(q) : versions[n].outcome = "accepted" => n = LatestOf(q)
    PROVE  SettledVersion(q) = LatestOf(q) /\ LatestOf(q) \in VersionsOf(q)
<1> DEFINE A == {m \in VersionsOf(q) : versions[m].outcome \in {"accepted"}}
           B == {m \in VersionsOf(q) : versions[m].outcome \in Outcomes \ {"superseded"}}
           n == LatestOf(q)
<1>1. VersionsOf(q) \subseteq 1 .. Len(versions) /\ Len(versions) \in Nat /\ 0 \notin VersionsOf(q)
  BY TypesHeld DEF VersionsOf
<1>2. n \in VersionsOf(q) /\ n # 0 /\ \A k \in VersionsOf(q) : k <= n
  <2>1. n = Last(versions, q) /\ VersionsOf(q) = Of(versions, q) /\ versions \in Seq(Version)
    BY LatestInRange DEF TypeOK
  <2> QED BY <1>1, <2>1, RowsInRange
<1>3. SettledVersion(q) = IF Highest(A) # 0 THEN Highest(A) ELSE Highest(B)
  BY DEF SettledVersion
<1> HIDE DEF n
<1>4. CASE A = {}
  <2>1. Highest(A) = 0
    BY <1>4 DEF Highest
  <2>2. n \in B
    <3>1. versions[n] \in Version
      BY <1>2, TypesHeld DEF VersionsOf
    <3> QED BY <1>2, <3>1 DEF Version, n
  <2>3. Highest(B) \in B /\ \A k \in B : k <= Highest(B)
    <3>1. B # {} /\ B \subseteq 1 .. Len(versions)
      BY <1>1, <2>2
    <3> HIDE DEF B
    <3> QED BY <1>1, <3>1, HighestIsMaximum
  <2>4. Highest(B) <= n /\ n <= Highest(B) /\ Highest(B) \in Nat /\ n \in Nat
    BY <1>1, <1>2, <2>2, <2>3
  <2>5. Highest(B) = n
    BY <2>4
  <2> QED BY <1>2, <1>3, <2>1, <2>5 DEF n
<1>5. CASE A # {}
  <2>1. A \subseteq 1 .. Len(versions) /\ \A k \in A : k = n
    BY <1>1 DEF n
  <2>2. Highest(A) \in A
    <3> HIDE DEF A
    <3> QED BY <1>1, <1>5, <2>1, HighestIsMaximum
  <2> QED BY <1>2, <1>3, <2>1, <2>2 DEF n
<1> QED BY <1>4, <1>5

\* quotes/transactions.py:22: an accepted quote has a version for the payment to
\* settle, unless one without a quote superseded it, and, when requests did not overlap
\* and no version is missing, that version has the price the client accepted.
THEOREM PaymentsSettleRight == Spec => []SettledAtAgreedPrice
<1>1. Inv => SettledAtAgreedPrice
  <2> SUFFICES ASSUME Inv, NEW q \in Quotes, agreed[q] # NoPrice
               PROVE  /\ SettledVersion(q) # 0 \/ \E m \in DOMAIN versions : versions[m].quote = 0
                      /\ (~overlapped /\ ~failed /\ q \notin unversioned) =>
                              versions[SettledVersion(q)].price = agreed[q]
    BY DEF SettledAtAgreedPrice
  <2>1. VersionsOf(q) # {} /\ q # 0
    BY QuoteVersionsAssumption DEF Inv, AcceptedWasAgreed, Quotes
  <2>2. ASSUME ~ \E m \in DOMAIN versions : versions[m].quote = 0
        PROVE  SettledVersion(q) # 0
    <3> DEFINE k == Highest(InForce(versions, q))
    <3>1. InForce(versions, q) = VersionsOf(q)
      BY <2>1, <2>2 DEF InForce, VersionsOf
    <3>2. k \in VersionsOf(q)
      <4>1. VersionsOf(q) \subseteq 1 .. Len(versions) /\ Len(versions) \in Nat
        BY TypesHeld DEF Inv, VersionsOf
      <4> QED BY <2>1, <3>1, <4>1, HighestIsMaximum
    <3>3. versions[k].outcome # "superseded"
      BY <2>1, <3>1, StandsByRow DEF Inv
    <3>4. versions[k].outcome \in Outcomes
      BY <3>2, TypesHeld DEF Inv, VersionsOf, Version
    <3> HIDE DEF k
    <3> QED BY <3>2, <3>3, <3>4, SettledIs DEF Inv
  <2>3. ASSUME ~overlapped, ~failed, q \notin unversioned
        PROVE  versions[SettledVersion(q)].price = agreed[q]
    <3>1. versions[LatestOf(q)].outcome \notin {"open", "superseded"}
      BY <2>3, SerialFacts DEF AgreedIsLast
    <3>2. \A n \in VersionsOf(q) : versions[n].outcome = "accepted" => n = LatestOf(q)
      BY <2>1, <2>3, SerialFacts DEF AcceptedIsLast, VersionsOf
    <3>3. SettledVersion(q) = LatestOf(q)
      BY <2>1, <3>1, <3>2, SettledIsLatest DEF Inv
    <3>4. ~ \E w \in Workers : work[w].at \in Recorders /\ work[w].quote = q
      BY <2>1, <2>3, SerialFacts DEF ReadTask
    <3>5. versions[LatestOf(q)].price = agreed[q]
      BY <2>1, <2>3, <3>4, SerialFacts DEF LastIsPriced
    <3> QED BY <3>3, <3>5
  <2> QED BY <2>2, <2>3
<1> QED BY <1>1, RecordInvariant, PTL

-----------------------------------------------------------------------------
\* Accepted versions, whatever overlaps.

\* The client accepted the version in force of quote q.
Stands(q) == LatestOf(q) # 0 /\ versions[LatestOf(q)].outcome = "accepted"

\* A task that is about to overwrite the status of its quote, or to mark its
\* version, because it read the quote as still open.
TakesForOpen(t) ==
    \/ t.at \in {"revise", "reject", "expire"}
    \/ t.at = "send" /\ t.status = "pending"
    \/ t.at = "stale" /\ t.status = "offered"
    \/ t.at = "marking" /\ t.op # "refuse"

\* What such a task may be wrong about: an acceptance since it began, or one whose
\* quote was overwritten.  The version it closes, and those it supersedes, are
\* accepted ones only then.
WrongOnlyIfEarly(t) ==
    /\ TakesForOpen(t) /\ Stands(t.quote) => t.quote \in t.early \cup reopened
    /\ (/\ t.at \in {"stale", "retiring", "closing"} /\ t.op # "refuse"
        /\ t.ver \in DOMAIN versions /\ versions[t.ver].outcome = "accepted")
          => versions[t.ver].quote \in t.early \cup reopened
    /\ t.at \in {"numbering", "inserting"} =>
          \A n \in t.open \cap DOMAIN versions :
              versions[n].outcome = "accepted" => versions[n].quote \in t.early

\* The quote of an accepted version in force is accepted.
StandsOnQuote == \A q \in Quotes : Stands(q) => status[q] = "accepted" \/ q \in reopened

StandInv == StandsOnQuote /\ \A w \in Workers : WrongOnlyIfEarly(work[w])

\* What a step does that is no acceptance: it makes no version accepted, no version
\* in force accepted, and forgets no quote that was reopened.
NoAcceptance ==
    /\ \A q : Stands(q)' => Stands(q)
    /\ \A n \in DOMAIN versions' : versions'[n].outcome = "accepted" =>
           /\ n \in DOMAIN versions /\ versions[n].outcome = "accepted"
           /\ versions'[n].quote = versions[n].quote
    /\ reopened \subseteq reopened'

\* Rows that stay.
LEMMA RowsStayNoAcceptance ==
    ASSUME versions' = versions, reopened \subseteq reopened'
    PROVE  NoAcceptance
BY DEF NoAcceptance, Stands, LatestOf, VersionsOf

\* A save of an outcome, and an insert.
LEMMA SaveOutcomeNoAcceptance ==
    ASSUME Inv, NEW w \in Workers, SaveOutcome(w)
    PROVE  NoAcceptance
<1>1. /\ work[w].outcome # "accepted" /\ DOMAIN versions' = DOMAIN versions
      /\ \A n \in DOMAIN versions :
           /\ versions'[n].quote = versions[n].quote
           /\ versions'[n].outcome = "accepted" => versions[n].outcome = "accepted"
  BY SaveOutcomeRows DEF Inv
<1>2. \A q : LatestOf(q)' = LatestOf(q)
  BY <1>1, SameQuotesNext
<1>3. \A q : LatestOf(q) # 0 => LatestOf(q) \in DOMAIN versions
  BY LatestInRange DEF Inv
<1>4. reopened' = reopened
  BY DEF SaveOutcome, history
<1> QED BY <1>1, <1>2, <1>3, <1>4 DEF NoAcceptance, Stands

LEMMA InsertNoAcceptance ==
    ASSUME Inv, NEW w \in Workers, Insert(w)
    PROVE  NoAcceptance
<1> DEFINE new == Len(versions')
<1>1. /\ versions' \in Seq(Version) /\ Len(versions') = Len(versions) + 1
      /\ DOMAIN versions' = DOMAIN versions \cup {new}
      /\ versions'[new].outcome = work[w].outcome /\ versions'[new].quote = work[w].quote
      /\ \A n \in DOMAIN versions :
           /\ versions'[n].quote = versions[n].quote
           /\ versions'[n].outcome = IF n \in work[w].open THEN "superseded"
                                     ELSE versions[n].outcome
  BY InsertRows DEF Inv
<1>2. versions'[new].outcome # "accepted"
  BY <1>1, QuoteOfTask DEF Inv
<1>3. \A q : LatestOf(q)' = new \/ LatestOf(q)' = LatestOf(q)
  BY <1>1, NewLastNext DEF Inv, new
<1>4. \A q : LatestOf(q) # 0 => LatestOf(q) \in DOMAIN versions
  BY LatestInRange DEF Inv
<1>5. reopened' = reopened
  BY DEF Insert
<1> HIDE DEF new
<1>6. \A n \in DOMAIN versions' : versions'[n].outcome = "accepted" =>
        n \in DOMAIN versions /\ versions[n].outcome = "accepted" /\ versions'[n].quote = versions[n].quote
  BY <1>1, <1>2
<1>7. ASSUME NEW q, Stands(q)' PROVE Stands(q)
  <2>1. LatestOf(q)' # new
    BY <1>2, <1>7 DEF Stands
  <2>2. LatestOf(q)' = LatestOf(q) /\ LatestOf(q) # 0 /\ LatestOf(q) \in DOMAIN versions
    BY <1>3, <1>4, <1>7, <2>1 DEF Stands
  <2> QED BY <1>1, <1>7, <2>2 DEF Stands
<1> QED BY <1>5, <1>6, <1>7 DEF NoAcceptance

\* A task nobody touches stays right through such a step.
LEMMA TaskStaysRight ==
    ASSUME NoAcceptance, NEW t, WrongOnlyIfEarly(t)
    PROVE  WrongOnlyIfEarly(t)'
BY DEF WrongOnlyIfEarly, NoAcceptance, TakesForOpen

\* So do all of them when the worker's next task is right, and the status it saves is.
LEMMA WorkerStaysRight ==
    ASSUME StandInv, NEW w \in Workers, NoAcceptance, \A v \in Workers \ {w} : work'[v] = work[v],
           WrongOnlyIfEarly(work[w])', StandsOnQuote'
    PROVE  StandInv'
<1>1. ASSUME NEW t, WrongOnlyIfEarly(t) PROVE WrongOnlyIfEarly(t)'
  BY <1>1, TaskStaysRight
<1>2. ASSUME NEW v \in Workers \ {w} PROVE WrongOnlyIfEarly(work[v])'
  <2>1. WrongOnlyIfEarly(work[v]) /\ work'[v] = work[v]
    BY DEF StandInv
  <2> QED BY <1>1, <2>1 DEF WrongOnlyIfEarly, TakesForOpen, Stands
<1> QED BY <1>2 DEF StandInv

\* A task that begins has just read the status of its quote.
LEMMA BeginStaysRight ==
    ASSUME Inv, StandInv, NEW w \in Workers, NEW t \in Task, Begin(w, t), WrongOnlyIfEarly(t)
    PROVE  StandInv'
<1>1. /\ UNCHANGED <<status, versions, reopened>> /\ work'[w] = t
      /\ \A v \in Workers \ {w} : work'[v] = work[v]
  BY DEF Begin, Inv, TypeOK, quoteVars
<1>2. NoAcceptance
  BY <1>1, RowsStayNoAcceptance
<1>3. WrongOnlyIfEarly(t)'
  BY <1>2, TaskStaysRight
<1>4. WrongOnlyIfEarly(work[w])'
  BY <1>1, <1>3 DEF WrongOnlyIfEarly, TakesForOpen, Stands
<1>5. StandsOnQuote'
  BY <1>1, <1>2 DEF StandInv, StandsOnQuote, NoAcceptance
<1> QED BY <1>1, <1>2, <1>4, <1>5, WorkerStaysRight

LEMMA StartsRight ==
    ASSUME Inv, StandInv, NEW w \in Workers,
           \/ \E q \in Quotes, op \in Ops : StartOnQuote(w, op, q)
           \/ StartRefuse(w)
           \/ \E n \in DOMAIN versions : StartStale(w, n)
    PROVE  StandInv'
<1>1. CASE \E q \in Quotes, op \in Ops : StartOnQuote(w, op, q)
  <2>1. PICK q \in Quotes, op \in Ops : StartOnQuote(w, op, q)
    BY <1>1
  <2> DEFINE t == [Idle EXCEPT !.op = op, !.at = op, !.quote = q, !.price = total[q],
                               !.status = status[q],
                               !.req = IF op = "expire" THEN req ELSE Idle.req]
  <2>2. total[q] \in Prices /\ status[q] \in Statuses /\ q \in 0 .. LastQuote /\ req \in Progress
    BY QuoteVersionsAssumption DEF Inv, TypeOK, Quotes
  <2>3. t \in Task /\ t.at = op /\ t.quote = q /\ t.status = status[q]
    BY <2>2, IdleIsTask DEF Idle, Task
  <2>4. Begin(w, t) /\ MayStart(op, q)
    BY <2>1 DEF StartOnQuote
  <2> HIDE DEF t
  <2>5. TakesForOpen(t) => status[q] # "accepted" /\ op # "stale"
    BY <2>3, <2>4 DEF TakesForOpen, MayStart, Ops
  <2>6. Stands(q) => status[q] = "accepted" \/ q \in reopened
    BY DEF StandInv, StandsOnQuote
  <2>7. t.at \notin {"stale", "retiring", "closing", "numbering", "inserting"}
    BY <2>3, <2>4 DEF MayStart, Ops
  <2>8. WrongOnlyIfEarly(t)
    BY <2>3, <2>5, <2>6, <2>7 DEF WrongOnlyIfEarly
  <2> QED BY <2>3, <2>4, <2>8, BeginStaysRight
<1>2. CASE StartRefuse(w)
  <2> DEFINE t == [Idle EXCEPT !.op = "refuse", !.at = "refuse"]
  <2>1. t \in Task /\ t.at = "refuse" /\ Begin(w, t)
    BY <1>2, IdleIsTask DEF Idle, Task, Ops, StartRefuse
  <2> HIDE DEF t
  <2>2. WrongOnlyIfEarly(t)
    BY <2>1 DEF WrongOnlyIfEarly, TakesForOpen
  <2> QED BY <2>1, <2>2, BeginStaysRight
<1>3. CASE \E n \in DOMAIN versions : StartStale(w, n)
  <2>1. PICK n \in DOMAIN versions : StartStale(w, n)
    BY <1>3
  <2> DEFINE t == [Idle EXCEPT !.op = "stale", !.at = "stale", !.quote = versions[n].quote, !.ver = n,
                               !.status = status[versions[n].quote], !.req = req]
  <2>2. versions[n] \in Version /\ n \in Numbers
    BY TypesHeld DEF Inv
  <2>3. versions[n].quote \in Quotes /\ versions[n].quote \in 0 .. LastQuote /\ versions[n].quote # 0
    <3>1. versions[n].quote \in 0 .. LastQuote /\ versions[n].quote # 0
      BY <2>1, <2>2 DEF Version, StartStale
    <3> QED BY <3>1, QuoteVersionsAssumption DEF Quotes
  <2>4. status[versions[n].quote] \in Statuses /\ req \in Progress
    BY <2>3 DEF Inv, TypeOK
  <2>5. t \in Task
    BY <2>2, <2>3, <2>4, IdleIsTask DEF Idle, Task, Ops
  <2>6. /\ t.at = "stale" /\ t.quote = versions[n].quote /\ t.ver = n
        /\ t.status = status[t.quote] /\ versions[n].outcome = "open" /\ Begin(w, t)
    BY <2>1 DEF Idle, StartStale
  <2> HIDE DEF t
  <2>7. TakesForOpen(t) => status[t.quote] # "accepted"
    BY <2>6 DEF TakesForOpen
  <2>8. Stands(t.quote) => status[t.quote] = "accepted" \/ t.quote \in reopened
    BY <2>3, <2>6 DEF StandInv, StandsOnQuote
  <2>9. WrongOnlyIfEarly(t)
    BY <2>6, <2>7, <2>8 DEF WrongOnlyIfEarly
  <2> QED BY <2>5, <2>6, <2>9, BeginStaysRight
<1> QED BY <1>1, <1>2, <1>3

\* A save of the status of the task's quote, over an acceptance or not.
LEMMA StatusSaved ==
    ASSUME StandInv, NEW w \in Workers, NEW q, q = work[w].quote,
           UNCHANGED versions, \A v \in Workers \ {w} : work'[v] = work[v],
           \A o \in Quotes \ {q} : status'[o] = status[o],
           \/ status'[q] = status[q] /\ UNCHANGED reopened
           \/ status'[q] = "accepted" /\ UNCHANGED reopened
           \/ TakesForOpen(work[w]) /\ Overwrites(w, q),
           WrongOnlyIfEarly(work[w])'
    PROVE  StandInv'
<1>1. reopened \subseteq reopened'
  BY DEF Overwrites
<1>2. NoAcceptance
  BY <1>1, RowsStayNoAcceptance
<1>3. StandsOnQuote'
  <2> SUFFICES ASSUME NEW o \in Quotes, Stands(o)' PROVE status'[o] = "accepted" \/ o \in reopened'
    BY DEF StandsOnQuote
  <2>1. Stands(o) /\ (status[o] = "accepted" \/ o \in reopened)
    BY <1>2 DEF NoAcceptance, StandInv, StandsOnQuote
  <2>2. CASE o # q
    BY <1>1, <2>1, <2>2
  <2>3. CASE o = q /\ TakesForOpen(work[w]) /\ Overwrites(w, q)
    <3>1. q \in work[w].early \cup reopened
      BY <2>1, <2>3 DEF StandInv, WrongOnlyIfEarly
    <3> QED BY <2>1, <2>3, <3>1 DEF Overwrites
  <2>4. CASE o = q /\ (status'[q] = status[q] \/ status'[q] = "accepted") /\ UNCHANGED reopened
    BY <2>1, <2>4
  <2> QED BY <2>2, <2>3, <2>4
<1> QED BY <1>2, <1>3, WorkerStaysRight

\* What is right of a task that goes on to record, or is over.
LEMMA RecorderIsRight ==
    ASSUME NEW w \in Workers, work'[w].at \in {"idle", "recording", "ending"}
    PROVE  WrongOnlyIfEarly(work[w])'
BY DEF WrongOnlyIfEarly, TakesForOpen

LEMMA SavesRight ==
    ASSUME Inv, StandInv, NEW w \in Workers,
           \/ SaveRevision(w) \/ SendToClient(w) \/ SaveRejected(w) \/ SaveExpired(w)
           \/ SaveStale(w)
    PROVE  StandInv'
<1>0. PICK q \in Quotes : q = work[w].quote
  BY QuoteOfTask DEF Inv, OnAQuote, SaveRevision, SendToClient, SaveRejected, SaveExpired, SaveStale
<1>1. work[w] \in Task /\ q = work[w].quote /\ WrongOnlyIfEarly(work[w]) /\ Idle.at = "idle"
  BY <1>0, QuoteOfTask DEF Inv, OnAQuote, SaveRevision, SendToClient, SaveRejected, SaveExpired, SaveStale,
     StandInv, Idle
<1>2. /\ UNCHANGED versions /\ \A v \in Workers \ {w} : work'[v] = work[v]
      /\ \A o \in Quotes \ {q} : status'[o] = status[o]
  BY <1>1 DEF SaveRevision, SendToClient, SaveRejected, SaveExpired, SaveStale, Done, Inv, TypeOK
<1>3. CASE SaveRevision(w)
  <2>1. work'[w].at \in {"idle", "recording"} /\ TakesForOpen(work[w])
    <3>1. PICK p, s :
            IF s = "pending" THEN Done(w)
              ELSE work' = [work EXCEPT ![w].at = "recording", ![w].price = p, ![w].status = Idle.status]
      BY <1>3 DEF SaveRevision
    <3>2. work[w].at = "revise"
      BY <1>3 DEF SaveRevision
    <3> QED BY <1>1, <3>1, <3>2 DEF Done, Inv, TypeOK, Task, TakesForOpen
  <2>2. (status'[q] = "accepted" /\ UNCHANGED reopened) \/ Overwrites(w, q)
    BY <1>1, <1>3 DEF SaveRevision, Inv, TypeOK
  <2> QED BY <1>1, <1>2, <2>1, <2>2, RecorderIsRight, StatusSaved
<1>4. CASE SendToClient(w)
  <2>1. work'[w].at \in {"idle", "recording"}
    <3>1. PICK p :
            IF work[w].status = "pending"
              THEN work' = [work EXCEPT ![w].at = "recording", ![w].price = p, ![w].status = Idle.status]
              ELSE Done(w)
      BY <1>4 DEF SendToClient
    <3> QED BY <1>1, <3>1 DEF Done, Inv, TypeOK, Task
  <2>2. \/ status'[q] = status[q] /\ UNCHANGED reopened
        \/ TakesForOpen(work[w]) /\ Overwrites(w, q)
    BY <1>1, <1>4 DEF SendToClient, Inv, TypeOK, TakesForOpen
  <2> QED BY <1>1, <1>2, <2>1, <2>2, RecorderIsRight, StatusSaved
<1>5. CASE SaveRejected(w) \/ SaveExpired(w)
  <2>1. /\ work'[w].at = "marking" /\ work'[w].op = work[w].op /\ work'[w].quote = q
        /\ work'[w].early = work[w].early /\ TakesForOpen(work[w]) /\ Overwrites(w, q)
    BY <1>1, <1>5 DEF SaveRejected, SaveExpired, Inv, TypeOK, Task, TakesForOpen
  <2>2. Stands(q)' => q \in work[w].early \cup reopened'
    <3>1. Stands(q)' => Stands(q)
      BY <1>2 DEF Stands, LatestOf, VersionsOf
    <3>2. Stands(q) => q \in work[w].early \cup reopened
      BY <1>1, <2>1 DEF WrongOnlyIfEarly
    <3>3. reopened \subseteq reopened'
      BY <2>1 DEF Overwrites
    <3> QED BY <3>1, <3>2, <3>3
  <2>3. WrongOnlyIfEarly(work[w])'
    BY <2>1, <2>2 DEF WrongOnlyIfEarly, Stands
  <2> QED BY <1>1, <1>2, <2>1, <2>3, StatusSaved
<1>6. CASE SaveStale(w)
  <2>1. /\ work'[w].at = "retiring" /\ work'[w].op = work[w].op /\ work'[w].ver = work[w].ver
        /\ work'[w].early = work[w].early /\ work[w].at = "stale"
    BY <1>1, <1>6 DEF SaveStale, Inv, TypeOK, Task
  <2>2. \/ status'[q] = status[q] /\ UNCHANGED reopened
        \/ TakesForOpen(work[w]) /\ Overwrites(w, q)
    BY <1>1, <1>6 DEF SaveStale, Inv, TypeOK, TakesForOpen
  <2>3. reopened \subseteq reopened'
    BY <2>2 DEF Overwrites
  <2>4. WrongOnlyIfEarly(work[w])'
    BY <1>1, <1>2, <2>1, <2>3 DEF WrongOnlyIfEarly, TakesForOpen
  <2> QED BY <1>1, <1>2, <2>2, <2>4, StatusSaved
<1> QED BY <1>3, <1>4, <1>5, <1>6

\* The steps that save no status.
LEMMA MarksRight ==
    ASSUME Inv, StandInv, NEW w \in Workers,
           \/ SaveRefused(w) \/ SaveRetired(w) \/ SaveEnded(w) \/ ReadLatest(w)
           \/ SaveOutcome(w) \/ ReadOpen(w) \/ ReadNumber(w) \/ Insert(w) \/ RecordFails(w)
    PROVE  StandInv'
<1>1. work[w] \in Task /\ WrongOnlyIfEarly(work[w]) /\ SoundTask(work[w]) /\ Idle.at = "idle"
  BY QuoteOfTask DEF Inv, StandInv, Idle, TasksSound
<1>2. UNCHANGED <<status, reopened>>
  BY DEF SaveRefused, SaveRetired, SaveEnded, ReadLatest, SaveOutcome, ReadOpen, ReadNumber, Insert,
     RecordFails, quoteVars, history
<1>3. \A v \in Workers \ {w} : work'[v] = work[v]
  <2>1. CASE AfterVersion(w)
    BY <2>1, AfterVersionTask DEF Inv
  <2>2. CASE ~AfterVersion(w)
    BY <2>2 DEF SaveRefused, SaveRetired, SaveEnded, ReadLatest, SaveOutcome, ReadOpen, Opened,
       ReadNumber, Insert, RecordFails, Done, Step, Inv, TypeOK
  <2> QED BY <2>1, <2>2
<1>4. NoAcceptance
  <2>1. CASE UNCHANGED versions
    BY <1>2, <2>1, RowsStayNoAcceptance
  <2>2. CASE SaveOutcome(w) \/ Insert(w)
    BY <2>2, SaveOutcomeNoAcceptance, InsertNoAcceptance
  <2> QED BY <2>1, <2>2 DEF SaveRefused, SaveRetired, SaveEnded, ReadLatest, ReadOpen, ReadNumber,
             RecordFails
<1>5. StandsOnQuote'
  BY <1>2, <1>4 DEF StandInv, StandsOnQuote, NoAcceptance
<1>6. WrongOnlyIfEarly(work[w])'
  <2>1. CASE AfterVersion(w)
    <3>1. work'[w].at \in {"idle", "ending"}
      BY <1>1, <2>1, AfterVersionTask DEF Inv
    <3> QED BY <3>1, RecorderIsRight
  <2>2. CASE SaveEnded(w) \/ RecordFails(w)
    <3>1. work'[w].at = "idle"
      BY <1>1, <2>2 DEF SaveEnded, RecordFails, Done, Inv, TypeOK
    <3> QED BY <3>1, RecorderIsRight
  <2>3. CASE SaveRefused(w)
    <3>1. work'[w].at = "marking" /\ work'[w].op = "refuse"
      BY <1>1, <2>3 DEF SaveRefused, Inv, TypeOK, Task, SoundTask, Ops
    <3> QED BY <3>1 DEF WrongOnlyIfEarly, TakesForOpen
  <2>4. CASE SaveRetired(w)
    <3>1. /\ work'[w].at = "closing" /\ work'[w].op = work[w].op /\ work'[w].ver = work[w].ver
          /\ work'[w].early = work[w].early /\ work[w].at = "retiring" /\ versions' = versions
      BY <1>1, <2>4 DEF SaveRetired, Inv, TypeOK, Task
    <3> QED BY <1>1, <1>2, <3>1 DEF WrongOnlyIfEarly, TakesForOpen
  <2>5. CASE ReadLatest(w) /\ ~AfterVersion(w)
    <3> DEFINE q == work[w].quote
               n == LatestOf(q)
    <3>1. /\ work[w].at = "marking" /\ versions' = versions
          /\ \/ work'[w].at = "recording"
             \/ /\ n # 0 /\ work'[w].at = "closing" /\ work'[w].ver = n
                /\ work'[w].op = work[w].op /\ work'[w].early = work[w].early
      BY <1>1, <2>5 DEF ReadLatest, Step, Inv, TypeOK, Task
    <3>2. CASE work'[w].at = "recording"
      BY <3>2, RecorderIsRight
    <3>3. CASE /\ n # 0 /\ work'[w].at = "closing" /\ work'[w].ver = n
               /\ work'[w].op = work[w].op /\ work'[w].early = work[w].early
      <4>1. ASSUME work[w].op # "refuse", versions[n].outcome = "accepted"
            PROVE  versions[n].quote \in work[w].early \cup reopened
        <5>1. TakesForOpen(work[w]) /\ Stands(q) /\ q # 0
          BY <1>1, <3>1, <3>3, <4>1 DEF TakesForOpen, Stands, SoundTask
        <5>2. q \in work[w].early \cup reopened
          BY <1>1, <5>1 DEF WrongOnlyIfEarly
        <5>3. versions[n].quote = q
          <6>1. n \in VersionsOf(q)
            BY <3>3, LatestInRange DEF Inv
          <6> QED BY <5>1, <6>1 DEF VersionsOf
        <5> QED BY <5>2, <5>3
      <4> HIDE DEF n, q
      <4> QED BY <1>2, <3>1, <3>3, <4>1 DEF WrongOnlyIfEarly, TakesForOpen
    <3> QED BY <3>1, <3>2, <3>3
  <2>6. CASE ReadOpen(w)
    <3>1. \E q : work'[w].at = "numbering" /\ work'[w].open = OpenOf(q) /\ versions' = versions
      BY <1>1, <2>6 DEF ReadOpen, Opened, Inv, TypeOK, Task
    <3> QED BY <3>1 DEF WrongOnlyIfEarly, TakesForOpen, OpenOf
  <2>7. CASE ReadNumber(w)
    <3>1. /\ work[w].at = "numbering" /\ work'[w].at = "inserting" /\ work'[w].open = work[w].open
          /\ work'[w].early = work[w].early /\ versions' = versions
      BY <1>1, <2>7 DEF ReadNumber, Inv, TypeOK, Task
    <3> QED BY <1>1, <3>1 DEF WrongOnlyIfEarly, TakesForOpen
  <2> QED BY <2>1, <2>2, <2>3, <2>4, <2>5, <2>6, <2>7 DEF SaveOutcome, Insert
<1> QED BY <1>3, <1>4, <1>5, <1>6, WorkerStaysRight

\* An acceptance takes the latest versions of the other offers from them.
LEMMA OtherLatestKept ==
    ASSUME Inv, NEW q \in Quotes, Accept(q), NEW o \in Quotes \ {q}
    PROVE  LatestOf(o)' = LatestOf(o)
<1>1. CASE LatestOf(q) # 0
  <2>1. /\ DOMAIN versions' = DOMAIN versions
        /\ \A n \in DOMAIN versions : versions'[n].quote = versions[n].quote
    BY <1>1, AcceptRows DEF Inv
  <2> QED BY <2>1, SameQuotesNext
<1>2. CASE LatestOf(q) = 0
  <2>1. /\ versions' \in Seq(Version) /\ Len(versions') = Len(versions) + 1
        /\ versions'[Len(versions')] = [quote |-> q, price |-> total[q], outcome |-> "accepted"]
        /\ \A n \in DOMAIN versions : versions'[n].quote = versions[n].quote
    BY <1>2, AcceptRows DEF Inv
  <2>2. versions'[Len(versions')].quote = q
    BY <2>1
  <2>3. o \notin {0, versions'[Len(versions')].quote}
    BY <2>2, QuoteVersionsAssumption DEF Quotes
  <2> QED BY <2>1, <2>3, NewLastNext DEF Inv
<1> QED BY <1>1, <1>2

\* Nor does it make any of their versions accepted.
LEMMA AcceptStaysRight ==
    ASSUME Inv, StandInv, NEW q \in Quotes, Accept(q)
    PROVE  StandInv'
<1>1. /\ status'[q] = "accepted" /\ reopened' = reopened
      /\ \A o \in Quotes \ {q} : status'[o] = IF status[o] = "pending" THEN "pending" ELSE "rejected"
      /\ \A w \in Workers : work'[w] = IF Busy(w) THEN [work[w] EXCEPT !.early = @ \cup {q}]
                                                  ELSE work[w]
  BY DEF Accept, Inv, TypeOK
<1>2. \A n \in DOMAIN versions :
        /\ n \in DOMAIN versions' /\ versions'[n].quote = versions[n].quote
        /\ versions'[n].outcome = IF n = LatestOf(q) THEN "accepted"
                                  ELSE IF n \in Losers(q) THEN "lost" ELSE versions[n].outcome
  BY AcceptRows DEF Inv
<1>3. \A o \in Quotes \ {0} : /\ LatestOf(o) # 0 => /\ LatestOf(o) \in DOMAIN versions
                                              /\ versions[LatestOf(o)].quote = o
  BY LatestInRange DEF Inv, VersionsOf
<1>4. 0 \notin Quotes
  BY QuoteVersionsAssumption DEF Quotes
<1>5. ASSUME NEW n \in DOMAIN versions, versions'[n].outcome = "accepted"
      PROVE  versions[n].quote = q \/ versions[n].outcome = "accepted"
  <2>1. n # 0
    BY TypesHeld DEF Inv
  <2>2. n = LatestOf(q) => versions[n].quote = q
    BY <1>3, <1>4, <2>1
  <2>3. n # LatestOf(q) => versions[n].outcome = "accepted"
    BY <1>2, <1>5
  <2> QED BY <2>2, <2>3
<1>6. ASSUME NEW o \in Quotes \ {q}, Stands(o)'
      PROVE  Stands(o) /\ status[o] = "pending"
  <2>1. LatestOf(o)' = LatestOf(o) /\ LatestOf(o) # 0
    BY <1>6, OtherLatestKept DEF Stands
  <2>2. LatestOf(o) \in DOMAIN versions /\ versions[LatestOf(o)].quote = o
    BY <1>3, <1>4, <2>1
  <2>3. versions'[LatestOf(o)].outcome = "accepted"
    BY <1>6, <2>1 DEF Stands
  <2>4. versions[LatestOf(o)].outcome = "accepted"
    BY <1>5, <2>2, <2>3
  <2>5. LatestOf(o) \notin Losers(q)
    <3>1. LatestOf(o) # LatestOf(q)
      BY <1>3, <1>4, <2>1, <2>2
    <3> QED BY <1>2, <2>2, <2>3, <3>1
  <2>6. status[o] = "pending"
    BY <2>1, <2>5 DEF Losers
  <2> QED BY <2>1, <2>4, <2>6 DEF Stands
<1>7. StandsOnQuote'
  <2> SUFFICES ASSUME NEW o \in Quotes, Stands(o)' PROVE status'[o] = "accepted" \/ o \in reopened'
    BY DEF StandsOnQuote
  <2>1. CASE o = q
    BY <1>1, <2>1
  <2>2. CASE o # q
    BY <1>1, <1>6, <2>2 DEF StandInv, StandsOnQuote
  <2> QED BY <2>1, <2>2
<1>8. ASSUME NEW w \in Workers PROVE WrongOnlyIfEarly(work[w])'
  <2>1. CASE ~Busy(w)
    <3>1. work'[w] = work[w] /\ work[w].at = "idle"
      BY <1>1, <2>1 DEF Busy
    <3> QED BY <3>1, RecorderIsRight
  <2>2. CASE Busy(w)
    <3>1. work[w] \in Task /\ WrongOnlyIfEarly(work[w]) /\ SoundTask(work[w])
          /\ work[w].quote \in 0 .. LastQuote
      BY QuoteOfTask DEF Inv, StandInv, TasksSound
    <3>2. /\ work'[w].at = work[w].at /\ work'[w].op = work[w].op /\ work'[w].quote = work[w].quote
          /\ work'[w].status = work[w].status /\ work'[w].ver = work[w].ver
          /\ work'[w].open = work[w].open /\ work'[w].early = work[w].early \cup {q}
      BY <1>1, <2>2, <3>1 DEF Task
    <3>3. PICK o \in 0 .. LastQuote : o = work[w].quote
      BY <3>1
    <3>4. ASSUME TakesForOpen(work[w]), Stands(o)' PROVE o \in work[w].early \cup {q} \cup reopened
      <4>1. o # 0
        BY <3>1, <3>3, <3>4 DEF TakesForOpen, SoundTask, OnAQuote
      <4>2. o \in Quotes
        BY <3>3, <4>1, QuoteVersionsAssumption DEF Quotes
      <4>3. CASE o # q
        BY <1>6, <3>1, <3>3, <3>4, <4>2, <4>3 DEF WrongOnlyIfEarly
      <4> QED BY <4>3
    <3>5. ASSUME work[w].at \in {"stale", "retiring", "closing"}, work[w].op # "refuse",
                 versions'[work[w].ver].outcome = "accepted"
          PROVE  versions'[work[w].ver].quote \in work[w].early \cup {q} \cup reopened
      <4>1. work[w].ver \in DOMAIN versions
        BY <3>1, <3>5 DEF SoundTask
      <4> QED BY <1>2, <1>5, <3>1, <3>5, <4>1 DEF WrongOnlyIfEarly
    <3>6. ASSUME work[w].at \in {"numbering", "inserting"}, NEW n \in work[w].open,
                 versions'[n].outcome = "accepted"
          PROVE  versions'[n].quote \in work[w].early \cup {q}
      <4>1. n \in DOMAIN versions
        BY <3>1, <3>6 DEF SoundTask, VersionsOf
      <4> QED BY <1>2, <1>5, <3>1, <3>6, <4>1 DEF WrongOnlyIfEarly
    <3>7. Stands(work[w].quote)' => Stands(o)'
      BY <3>2, <3>3 DEF Stands
    <3>8. (TakesForOpen(work[w]) /\ Stands(work[w].quote) => work[w].quote \in work[w].early \cup reopened)'
      BY <1>1, <3>2, <3>3, <3>4, <3>7 DEF TakesForOpen
    <3> QED BY <1>1, <3>2, <3>5, <3>6, <3>8 DEF WrongOnlyIfEarly
  <2> QED BY <2>1, <2>2
<1> QED BY <1>7, <1>8 DEF StandInv

\* The steps that touch neither a quote nor a task.
LEMMA OthersStayRight ==
    ASSUME StandInv, RequestMoves \/ UNCHANGED vars
    PROVE  StandInv'
BY DEF RequestMoves, vars, quoteVars, history, StandInv, StandsOnQuote, Stands, LatestOf, VersionsOf,
       WrongOnlyIfEarly, TakesForOpen

LEMMA StandStarts == Init => StandInv
<1> SUFFICES ASSUME Init PROVE StandInv
  OBVIOUS
<1>1. versions = << >> /\ DOMAIN versions = {} /\ \A w \in Workers : work[w] = Idle
  BY DEF Init
<1>2. \A q : LatestOf(q) = 0
  BY <1>1 DEF LatestOf, VersionsOf, Highest
<1>3. WrongOnlyIfEarly(Idle)
  BY DEF WrongOnlyIfEarly, TakesForOpen, Idle
<1> QED BY <1>1, <1>2, <1>3 DEF StandInv, StandsOnQuote, Stands

LEMMA StandStep == Inv /\ StandInv /\ [Next]_vars => StandInv'
<1> SUFFICES ASSUME Inv, StandInv, [Next]_vars PROVE StandInv'
  OBVIOUS
<1>1. CASE \E w \in Workers :
              \/ \E q \in Quotes, op \in Ops : StartOnQuote(w, op, q)
              \/ StartRefuse(w)
              \/ \E n \in DOMAIN versions : StartStale(w, n)
  BY <1>1, StartsRight
<1>2. CASE \E w \in Workers :
              \/ SaveRevision(w) \/ SendToClient(w) \/ SaveRejected(w) \/ SaveExpired(w)
              \/ SaveStale(w)
  BY <1>2, SavesRight
<1>3. CASE \E w \in Workers :
              \/ SaveRefused(w) \/ SaveRetired(w) \/ SaveEnded(w) \/ ReadLatest(w)
              \/ SaveOutcome(w) \/ ReadOpen(w) \/ ReadNumber(w) \/ Insert(w) \/ RecordFails(w)
  BY <1>3, MarksRight
<1>4. CASE \E q \in Quotes : Accept(q)
  BY <1>4, AcceptStaysRight
<1>5. CASE RequestMoves \/ UNCHANGED vars
  BY <1>5, OthersStayRight
<1> QED BY <1>1, <1>2, <1>3, <1>4, <1>5 DEF Next

LEMMA StandInvariant == Spec => [](Inv /\ StandInv)
BY RecordStarts, RecordStep, StandStarts, StandStep, PTL DEF Spec

\* quotes/snapshots.py:305: however the requests overlap, an accepted version becomes
\* anything else only by the acceptance of another quote, by the shop's rejection of the
\* request, by a task that had begun before the acceptance, or once such a task has
\* overwritten the status of its quote.
THEOREM AcceptedVersionsStand == Spec => AcceptedVersionStands
<1>1. Inv /\ StandInv /\ [Next]_vars =>
        [ \A n \in DOMAIN versions :
             versions[n].outcome = "accepted" /\ versions'[n].outcome # "accepted" =>
                \/ \E q \in Quotes \ {versions[n].quote} : Accept(q)
                \/ \E w \in Workers : MayMove(w, versions[n].quote)
                \/ versions[n].quote \in reopened ]_vars
  <2> SUFFICES ASSUME Inv, StandInv, Next, NEW n \in DOMAIN versions,
                      versions[n].outcome = "accepted", versions'[n].outcome # "accepted"
               PROVE  \/ \E q \in Quotes \ {versions[n].quote} : Accept(q)
                      \/ \E w \in Workers : MayMove(w, versions[n].quote)
                      \/ versions[n].quote \in reopened
    OBVIOUS
  <2>1. \A w \in Workers : WrongOnlyIfEarly(work[w]) /\ SoundTask(work[w])
    BY DEF StandInv, Inv, TasksSound
  <2>2. CASE \E w \in Workers : SaveOutcome(w)
    <3>1. PICK w \in Workers : SaveOutcome(w)
      BY <2>2
    <3>2. work[w].at = "closing" /\ n = work[w].ver
      BY <3>1, SaveOutcomeRows DEF SaveOutcome, Inv
    <3>3. work'[w] # work[w]
      <4>1. work'[w].at \in {"idle", "ending"}
        BY <3>1, AfterVersionTask DEF SaveOutcome, Inv, Idle
      <4> QED BY <3>2, <4>1
    <3>4. work[w].op = "refuse" \/ versions[n].quote \in work[w].early \cup reopened
      BY <2>1, <3>2 DEF WrongOnlyIfEarly
    <3> QED BY <3>3, <3>4 DEF MayMove
  <2>3. CASE \E w \in Workers : Insert(w)
    <3>1. PICK w \in Workers : Insert(w)
      BY <2>3
    <3>2. work[w].at = "inserting" /\ n \in work[w].open
      BY <3>1, InsertRows DEF Insert, Inv
    <3>3. work'[w] # work[w]
      <4>1. work'[w].at \in {"idle", "ending"}
        BY <3>1, AfterVersionTask DEF Insert, Inv, Idle
      <4> QED BY <3>2, <4>1
    <3>4. versions[n].quote \in work[w].early
      BY <2>1, <3>2 DEF WrongOnlyIfEarly
    <3> QED BY <3>3, <3>4 DEF MayMove
  <2>4. CASE \E q \in Quotes : Accept(q)
    <3>1. PICK q \in Quotes : Accept(q)
      BY <2>4
    <3>2. n # LatestOf(q) /\ n \in Losers(q)
      BY <3>1, AcceptRows DEF Inv
    <3>3. PICK o \in Quotes \ {q} : n = LatestOf(o) /\ n # 0
      BY <3>2 DEF Losers
    <3>4. versions[n].quote = o
      BY <3>3, LatestInRange, QuoteVersionsAssumption DEF Inv, VersionsOf, Quotes
    <3> QED BY <3>1, <3>3, <3>4
  <2>5. CASE versions' = versions
    BY <2>5
  <2> QED BY <2>2, <2>3, <2>4, <2>5
      DEF Next, StartOnQuote, StartRefuse, StartStale, Begin, SaveRevision, SendToClient, SaveRejected,
          SaveExpired, SaveEnded, SaveRefused, SaveStale, SaveRetired, ReadLatest, ReadOpen, ReadNumber,
          RecordFails, RequestMoves
<1> QED BY <1>1, StandInvariant, PTL DEF AcceptedVersionStands, Spec

-----------------------------------------------------------------------------
\* The e-mail outbox.

Pending(s) == sender[s].at \in {"starting", "sending", "taken", "refused"}
Tried(s)   == sender[s].at \in {"taken", "refused"}
One(P)     == IF P THEN 1 ELSE 0

\* A row before it is there, and one that a command has locked.
RowShape ==
    /\ stage \in {"open", "saved"} => row.status = "none" /\ msg = "not_sent"
    /\ row.status = "none" => row.attempts = 0 /\ tries = 0 /\ \A s \in Senders : ~Working(s)
    /\ \A s \in Senders : ~Working(s) => sender[s].attempts = 0
    /\ \A c \in Crons : Working(c) =>
         /\ Pending(c) /\ sender[c].at # "starting"
         /\ sender[c].attempts = row.attempts /\ row.attempts < MaxAttempts
         /\ row.status \in {"pending", "failed"}
    /\ Pending(AutoSender) => row.attempts <= MaxAttempts
    /\ row.status \in {"sent", "failed", "permanently_failed"} => row.attempts > 0

\* Whoever says SENT has seen the provider take the e-mail.
SentWasTaken ==
    /\ delivered <= tries
    /\ row.status = "sent" \/ msg = "sent" => delivered > 0
    /\ \A s \in Senders : sender[s].at \in {"taken", "saved_sent"} => delivered > 0

\* The row counts every try whose sender lived, until the automatic sender sets
\* the count back, once.
TriesCounted ==
    LET open == One(\E c \in Crons : Tried(c)) + One(Tried(AutoSender)) + faults
    IN  IF Pending(AutoSender) THEN tries <= row.attempts + open
        ELSE tries <= MaxAttempts + open
                + (IF row.attempts < MaxAttempts THEN row.attempts ELSE MaxAttempts)

\* While no command meets the automatic sender and nothing fails, the senders
\* follow one another.
Alone == ~met /\ faults = 0

OneByOne == Alone =>
    /\ Working(AutoSender) => \A c \in Crons : ~Working(c)
    /\ Pending(AutoSender) =>
         row.status = "pending" /\ row.attempts = 0 /\ sender[AutoSender].attempts = 0
    /\ tries = row.attempts + One(\E s \in Senders : Tried(s))
    /\ row.attempts <= MaxAttempts
    /\ delivered = One(row.status = "sent" \/ \E s \in Senders : sender[s].at = "taken")
    /\ sender[AutoSender].at = "saved_sent" => row.status = "sent"
    /\ sender[AutoSender].at = "saved_failed" => row.status \in {"failed", "permanently_failed"}

\* In a transaction the message is told what the row was told.
ToldInOrder == (atomic /\ Alone) =>
    /\ stage # "queued"
    /\ row.status \in {"none", "pending"} => msg = "not_sent"
    /\ sender[AutoSender].at \notin {"saved_sent", "saved_failed"} =>
         /\ row.status = "sent" => msg = "sent"
         /\ row.status \in {"failed", "permanently_failed"} => msg = "failed"

OutboxInv == OutboxTypeOK /\ RowShape /\ SentWasTaken /\ TriesCounted /\ OneByOne /\ ToldInOrder

LEMMA CreateMessageKeepsOutbox ==
    ASSUME OutboxInv, CreateMessage
    PROVE  OutboxInv'
<1>1. OutboxTypeOK'
  BY  DEF OutboxInv, CreateMessage, OutboxTypeOK, Stages
<1>2. RowShape'
  BY EmailOutboxAssumption DEF OutboxInv, CreateMessage, Working, RowShape
<1>3. SentWasTaken'
  BY  DEF OutboxInv, CreateMessage, SentWasTaken
<1>4. TriesCounted'
  BY  DEF OutboxInv, CreateMessage, Pending, Tried, TriesCounted
<1>5. OneByOne'
  BY  DEF OutboxInv, CreateMessage, Working, Pending, Tried, Alone, OneByOne
<1>6. ToldInOrder'
  BY  DEF OutboxInv, CreateMessage, Alone, ToldInOrder
<1> QED BY <1>1, <1>2, <1>3, <1>4, <1>5, <1>6 DEF OutboxInv

\* The automatic sender starts: the others do not notice.
LEMMA AutoStarts ==
    ASSUME sender \in [Senders -> [at : Steps, attempts : 0 .. MaxAttempts]],
           NEW step, sender' = Goto(AutoSender, step)
    PROVE  /\ \A c \in Crons : sender'[c] = sender[c]
           /\ sender'[AutoSender].at = step
           /\ sender'[AutoSender].attempts = sender[AutoSender].attempts
<1>1. \A c \in Crons : sender'[c] = sender[c]
  BY EmailOutboxAssumption DEF Goto, Senders, AutoSender
<1>2. sender'[AutoSender].at = step /\ sender'[AutoSender].attempts = sender[AutoSender].attempts
  BY DEF Goto, Senders
<1> QED BY <1>1, <1>2

LEMMA EnqueueKeepsOutbox ==
    ASSUME OutboxInv, Enqueue
    PROVE  OutboxInv'
<1> USE EmailOutboxAssumption DEF OutboxInv, Enqueue, Senders, AutoSender, Working, Pending, Tried, One, Alone
<1>1. OutboxTypeOK'
  BY  DEF TriesCounted, OutboxTypeOK, Goto, RowLocked, NoRow, Steps, RowStatuses, Modes, Stages, Limit
<1>2. RowShape'
  BY  DEF OneByOne, RowShape, SentWasTaken, ToldInOrder, TriesCounted, OutboxTypeOK, Goto, RowLocked, NoRow, Steps, RowStatuses, Modes
<1>3. SentWasTaken'
  BY  DEF OneByOne, RowShape, SentWasTaken, ToldInOrder, TriesCounted, OutboxTypeOK, Goto, RowLocked, NoRow, Steps, RowStatuses, Modes
<1>4. TriesCounted'
  BY  DEF OneByOne, RowShape, SentWasTaken, ToldInOrder, TriesCounted, OutboxTypeOK, Goto, RowLocked, NoRow, Steps, RowStatuses, Modes
<1>5. OneByOne'
  <2>1. tries = 0 /\ delivered = 0 /\ row.attempts = 0 /\ \A s \in Senders : ~Working(s)
    BY DEF Enqueue, RowShape, SentWasTaken, OutboxTypeOK, Limit
  <2>2. row' = [status |-> "pending", attempts |-> 0] /\ UNCHANGED <<tries, delivered, faults, met>>
    BY DEF Enqueue, NoRow
  <2>3. sender' = sender \/ \E step \in {"starting", "sending"} :
                                sender' = [sender EXCEPT ![AutoSender].at = step]
    <3>1. CASE mode = "off"   BY <3>1 DEF Enqueue
    <3>2. CASE mode = "sync"  BY <3>2 DEF Enqueue, Goto
    <3>3. CASE mode = "async" BY <3>3 DEF Enqueue, Goto
    <3> QED BY <3>1, <3>2, <3>3 DEF OutboxTypeOK, Modes
  <2>4. /\ \A c \in Crons : sender'[c] = sender[c]
        /\ sender'[AutoSender].at \in {"idle", "starting", "sending"}
        /\ sender'[AutoSender].attempts = 0
    <3>1. sender[AutoSender].at = "idle" /\ sender[AutoSender].attempts = 0
      BY <2>1 DEF RowShape
    <3>2. ASSUME NEW step \in {"starting", "sending"}, sender' = [sender EXCEPT ![AutoSender].at = step]
          PROVE  /\ \A c \in Crons : sender'[c] = sender[c]
                 /\ sender'[AutoSender].at = step
                 /\ sender'[AutoSender].attempts = 0
      BY <3>1, <3>2, AutoStarts DEF OutboxTypeOK, Goto
    <3> QED BY <2>3, <3>1, <3>2
  <2> HIDE DEF Enqueue, OutboxInv
  <2>5. ~ (\E s \in Senders : sender[s].at \in {"taken", "refused", "saved_sent", "saved_failed"})'
    BY <2>1, <2>4
  <2>6. tries' = row'.attempts + One(\E s \in Senders : Tried(s))'
    BY <2>1, <2>2, <2>5
  <2>7. delivered' = One(row.status = "sent" \/ \E s \in Senders : sender[s].at = "taken")'
    BY <2>1, <2>2, <2>5
  <2>8. sender'[AutoSender].at \notin {"saved_sent", "saved_failed"} /\ row'.attempts = 0
    BY <2>2, <2>4
  <2>9. (\A c \in Crons : ~Working(c))'
    BY <2>1, <2>4
  <2> QED BY <2>2, <2>4, <2>6, <2>7, <2>8, <2>9, EmailOutboxAssumption DEF OneByOne
<1>6. ToldInOrder'
  BY  DEF OneByOne, RowShape, SentWasTaken, ToldInOrder
<1> QED BY <1>1, <1>2, <1>3, <1>4, <1>5, <1>6 DEF OutboxInv

LEMMA EnqueueFailsKeepsOutbox ==
    ASSUME OutboxInv, EnqueueFails
    PROVE  OutboxInv'
<1>1. OutboxTypeOK'
  BY  DEF OutboxInv, EnqueueFails, OutboxTypeOK, Stages
<1>2. RowShape'
  BY EmailOutboxAssumption DEF OutboxInv, EnqueueFails, Working, RowShape
<1>3. SentWasTaken'
  BY  DEF OutboxInv, EnqueueFails, SentWasTaken
<1>4. TriesCounted'
  BY  DEF OutboxInv, EnqueueFails, Pending, Tried, TriesCounted
<1>5. OneByOne'
  BY  DEF OutboxInv, EnqueueFails, Working, Pending, Tried, Alone, OneByOne
<1>6. ToldInOrder'
  BY  DEF OutboxInv, EnqueueFails, Alone, ToldInOrder
<1> QED BY <1>1, <1>2, <1>3, <1>4, <1>5, <1>6 DEF OutboxInv

LEMMA CloseMessageKeepsOutbox ==
    ASSUME OutboxInv, CloseMessage
    PROVE  OutboxInv'
<1>1. OutboxTypeOK'
  BY  DEF OutboxInv, CloseMessage, OutboxTypeOK, Stages
<1>2. RowShape'
  BY  DEF OutboxInv, CloseMessage, Working, Pending, RowShape
<1>3. SentWasTaken'
  BY  DEF OutboxInv, CloseMessage, SentWasTaken
<1>4. TriesCounted'
  BY  DEF OutboxInv, CloseMessage, Pending, Tried, TriesCounted
<1>5. OneByOne'
  BY  DEF OutboxInv, CloseMessage, Working, Pending, Tried, Alone, OneByOne
<1>6. ToldInOrder'
  BY  DEF OutboxInv, CloseMessage, Alone, ToldInOrder
<1> QED BY <1>1, <1>2, <1>3, <1>4, <1>5, <1>6 DEF OutboxInv

LEMMA StartThreadKeepsOutbox ==
    ASSUME OutboxInv, StartThread
    PROVE  OutboxInv'
<1>1. OutboxTypeOK'
  BY  DEF OutboxInv, StartThread, Senders, Pending, Alone, OneByOne, RowShape, OutboxTypeOK, Goto, RowLocked, Asleep, NoRow, Steps
<1>2. RowShape'
  BY  DEF OutboxInv, StartThread, Working, Pending, RowShape
<1>3. SentWasTaken'
  BY  DEF OutboxInv, StartThread, SentWasTaken
<1>4. TriesCounted'
  BY  DEF OutboxInv, StartThread, Pending, Tried, One, TriesCounted
<1>5. OneByOne'
  BY  DEF OutboxInv, StartThread, Working, Pending, Tried, One, Alone, OneByOne
<1>6. ToldInOrder'
  BY  DEF OutboxInv, StartThread, Alone, ToldInOrder
<1> QED BY <1>1, <1>2, <1>3, <1>4, <1>5, <1>6 DEF OutboxInv

LEMMA TakeKeepsOutbox ==
    ASSUME OutboxInv, NEW c \in Crons, Take(c)
    PROVE  OutboxInv'
<1>1. OutboxTypeOK'
  BY EmailOutboxAssumption DEF OutboxInv, Take, Senders, Working, OutboxTypeOK, RowLocked, Ready, Steps, RowStatuses
<1>2. RowShape'
  BY EmailOutboxAssumption DEF OutboxInv, Take, AutoSender, Working, Pending, OneByOne, RowShape, Ready, Marked
<1>3. SentWasTaken'
  BY  DEF OutboxInv, Take, SentWasTaken
<1>4. TriesCounted'
  BY EmailOutboxAssumption DEF OutboxInv, Take, Senders, AutoSender, Working, Pending, Tried, TriesCounted, OutboxTypeOK, Goto, RowLocked
<1>5. OneByOne'
  BY EmailOutboxAssumption DEF OutboxInv, Take, Senders, AutoSender, Working, Pending, Tried, One, Alone, OneByOne, RowShape, TriesCounted, OutboxTypeOK, Goto, RowLocked
<1>6. ToldInOrder'
  BY  DEF OutboxInv, Take, Working, Alone, ToldInOrder
<1> QED BY <1>1, <1>2, <1>3, <1>4, <1>5, <1>6 DEF OutboxInv

LEMMA ProviderKeepsOutbox ==
    ASSUME OutboxInv, NEW s \in Senders, Provider(s)
    PROVE  OutboxInv'
<1>1. OutboxTypeOK'
  BY EmailOutboxAssumption DEF OutboxInv, Provider, Senders, Working, Pending, Tried, One, Alone, OneByOne, RowShape, SentWasTaken, ToldInOrder, TriesCounted, OutboxTypeOK, Goto, RowLocked, Asleep, NoRow, Steps, Limit
<1>2. RowShape'
  BY  DEF OutboxInv, Provider, Senders, Working, Pending, OneByOne, RowShape, TriesCounted, OutboxTypeOK, Goto, RowLocked
<1>3. SentWasTaken'
  BY  DEF OutboxInv, Provider, SentWasTaken, OutboxTypeOK, Goto
<1>4. TriesCounted'
  BY EmailOutboxAssumption DEF OutboxInv, Provider, Senders, Pending, Tried, One, TriesCounted, OutboxTypeOK, Goto, RowLocked
<1>5. OneByOne'
  BY  DEF OutboxInv, Provider, Senders, Working, Pending, Tried, One, Alone, OneByOne, RowShape, TriesCounted, OutboxTypeOK, Goto, RowLocked
<1>6. ToldInOrder'
  BY  DEF OutboxInv, Provider, Senders, Alone, ToldInOrder, TriesCounted, OutboxTypeOK, Goto, RowLocked
<1> QED BY <1>1, <1>2, <1>3, <1>4, <1>5, <1>6 DEF OutboxInv

LEMMA MarkKeepsOutbox ==
    ASSUME OutboxInv, NEW c \in Crons, Mark(c)
    PROVE  OutboxInv'
<1>1. OutboxTypeOK'
  BY EmailOutboxAssumption DEF OutboxInv, Mark, Senders, OutboxTypeOK, Marked, Told, Asleep, NoRow, Steps, RowStatuses
<1>2. RowShape'
  BY EmailOutboxAssumption DEF OutboxInv, Mark, Senders, Working, RowShape, OutboxTypeOK, Goto, RowLocked, Ready, Marked, Told, Asleep, NoRow, Steps
<1>3. SentWasTaken'
  BY  DEF OutboxInv, Mark, Senders, SentWasTaken, Ready, Marked, Told, Asleep, NoRow, Steps
<1>4. TriesCounted'
  BY EmailOutboxAssumption DEF OutboxInv, Mark, AutoSender, Working, Pending, Tried, One, Alone, OneByOne, RowShape, TriesCounted, OutboxTypeOK, Ready, Marked
<1>5. OneByOne'
  BY EmailOutboxAssumption DEF OutboxInv, Mark, Senders, Working, Pending, Tried, One, Alone, OneByOne, RowShape, OutboxTypeOK, Goto, RowLocked, Ready, Marked, Told, Asleep, NoRow, Steps
<1>6. ToldInOrder'
  BY  DEF OutboxInv, Mark, Alone, SentWasTaken, ToldInOrder, Ready, Marked, Told
<1> QED BY <1>1, <1>2, <1>3, <1>4, <1>5, <1>6 DEF OutboxInv

LEMMA MarkRowKeepsOutbox ==
    ASSUME OutboxInv, MarkRow
    PROVE  OutboxInv'
<1>1. OutboxTypeOK'
  BY EmailOutboxAssumption DEF OutboxInv, MarkRow, Senders, OutboxTypeOK, Marked, Steps, RowStatuses
<1>2. RowShape'
  BY  DEF OutboxInv, MarkRow, Senders, Working, Pending, OneByOne, RowShape, TriesCounted, OutboxTypeOK, Goto, RowLocked, Ready, Marked
<1>3. SentWasTaken'
  BY  DEF OutboxInv, MarkRow, Senders, SentWasTaken, Marked, Told
<1>4. TriesCounted'
  BY EmailOutboxAssumption DEF OutboxInv, MarkRow, Senders, Working, Pending, Tried, One, Alone, OneByOne, RowShape, TriesCounted, OutboxTypeOK, Ready, Marked
<1>5. OneByOne'
  BY EmailOutboxAssumption DEF OutboxInv, MarkRow, Senders, Working, Pending, Tried, One, Alone, OneByOne, RowShape, TriesCounted, OutboxTypeOK, Ready, Marked, Told
<1>6. ToldInOrder'
  BY  DEF OutboxInv, MarkRow, Senders, Alone, ToldInOrder, TriesCounted, OutboxTypeOK, Ready, Marked
<1> QED BY <1>1, <1>2, <1>3, <1>4, <1>5, <1>6 DEF OutboxInv

LEMMA MarkMessageKeepsOutbox ==
    ASSUME OutboxInv, MarkMessage
    PROVE  OutboxInv'
<1>1. OutboxTypeOK'
  BY EmailOutboxAssumption DEF OutboxInv, MarkMessage, Senders, OutboxTypeOK, Told, Asleep, NoRow, Steps, RowStatuses
<1>2. RowShape'
  BY  DEF OutboxInv, MarkMessage, Senders, Working, Pending, RowShape, Asleep
<1>3. SentWasTaken'
  BY  DEF OutboxInv, MarkMessage, Senders, SentWasTaken, Ready, Marked, Told, Asleep, NoRow, Steps
<1>4. TriesCounted'
  BY  DEF OutboxInv, MarkMessage, Pending, Tried, One, TriesCounted, Asleep, NoRow, Steps
<1>5. OneByOne'
  BY  DEF OutboxInv, MarkMessage, Working, Pending, Tried, One, Alone, OneByOne, Asleep
<1>6. ToldInOrder'
  BY  DEF OutboxInv, MarkMessage, Alone, OneByOne, ToldInOrder, TriesCounted, Told
<1> QED BY <1>1, <1>2, <1>3, <1>4, <1>5, <1>6 DEF OutboxInv

LEMMA DieKeepsOutbox ==
    ASSUME OutboxInv, NEW s \in Senders, Die(s)
    PROVE  OutboxInv'
<1>1. OutboxTypeOK'
  BY EmailOutboxAssumption DEF OutboxInv, Die, OutboxTypeOK, Asleep, Steps, RowStatuses, Modes, Stages
<1>2. RowShape'
  BY  DEF OutboxInv, Die, Working, Pending, RowShape, Asleep
<1>3. SentWasTaken'
  BY  DEF OutboxInv, Die, SentWasTaken, Asleep
<1>4. TriesCounted'
  BY EmailOutboxAssumption DEF OutboxInv, Die, Pending, Tried, One, RowShape, SentWasTaken, ToldInOrder, TriesCounted, OutboxTypeOK, Goto, RowLocked, Asleep, NoRow, Steps
<1>5. OneByOne'
  BY  DEF OutboxInv, Die, Alone, OneByOne, TriesCounted, OutboxTypeOK
<1>6. ToldInOrder'
  BY  DEF OutboxInv, Die, Alone, ToldInOrder, TriesCounted, OutboxTypeOK
<1> QED BY <1>1, <1>2, <1>3, <1>4, <1>5, <1>6 DEF OutboxInv
LEMMA OutboxStarts == OutboxInit => OutboxInv
<1> SUFFICES ASSUME OutboxInit PROVE OutboxInv
  OBVIOUS
<1> USE EmailOutboxAssumption DEF OutboxInit, NoRow, Asleep
<1>1. OutboxTypeOK
  <2>1. Limit \in Nat
    BY DEF Limit
  <2>2. sender \in [Senders -> [at : Steps, attempts : 0 .. MaxAttempts]]
    BY DEF Steps
  <2>3. row \in [status : RowStatuses, attempts : 0 .. MaxAttempts + 1]
    BY DEF RowStatuses
  <2>4. \A c \in Crons : sender[c].at = "idle"
    BY DEF Senders
  <2>5. tries \in 0 .. Limit /\ delivered \in 0 .. Limit /\ faults \in 0 .. MaxFaults
    BY <2>1
  <2>6. stage \in Stages /\ msg \in {"not_sent", "sent", "failed"}
    BY DEF Stages
  <2> QED BY <2>2, <2>3, <2>4, <2>5, <2>6 DEF OutboxTypeOK
<1>2. RowShape /\ SentWasTaken /\ TriesCounted
  BY DEF RowShape, SentWasTaken, TriesCounted, Working, Pending, Tried, One, Senders, AutoSender
<1>3. OneByOne /\ ToldInOrder
  BY DEF OneByOne, ToldInOrder, Alone, Working, Pending, Tried, One, Senders, AutoSender
<1> QED BY <1>1, <1>2, <1>3 DEF OutboxInv

LEMMA OutboxStep == OutboxInv /\ [OutboxNext]_outboxVars => OutboxInv'
<1> SUFFICES ASSUME OutboxInv, [OutboxNext]_outboxVars PROVE OutboxInv'
  OBVIOUS
<1>1. CASE CreateMessage \/ Enqueue \/ EnqueueFails \/ CloseMessage
  BY <1>1, CreateMessageKeepsOutbox, EnqueueKeepsOutbox, EnqueueFailsKeepsOutbox,
     CloseMessageKeepsOutbox
<1>2. CASE StartThread \/ MarkRow \/ MarkMessage
  BY <1>2, StartThreadKeepsOutbox, MarkRowKeepsOutbox, MarkMessageKeepsOutbox
<1>3. CASE \E s \in Senders : Provider(s) \/ Die(s)
  BY <1>3, ProviderKeepsOutbox, DieKeepsOutbox
<1>4. CASE \E c \in Crons : Take(c) \/ Mark(c)
  BY <1>4, TakeKeepsOutbox, MarkKeepsOutbox
<1>5. CASE UNCHANGED outboxVars
  BY <1>5 DEF outboxVars, OutboxInv, OutboxTypeOK, RowShape, SentWasTaken, TriesCounted, OneByOne,
              ToldInOrder, Alone, Working, Pending, Tried, One
<1> QED BY <1>1, <1>2, <1>3, <1>4, <1>5 DEF OutboxNext, Automatic, Command, Senders

LEMMA OutboxInvariant == OutboxSpec => []OutboxInv
BY OutboxStarts, OutboxStep, PTL DEF OutboxSpec

\* Rows and senders keep their types, and the outbox row's lock has one holder,
\* however many runs of process_email_outbox overlap.
THEOREM OutboxTypeCorrect == OutboxSpec => []OutboxTypeOK
<1>1. OutboxInv => OutboxTypeOK
  BY DEF OutboxInv
<1> QED BY <1>1, OutboxInvariant, PTL

\* quotes/messaging.py:369, process_email_outbox.py:44: the client gets the e-mail
\* once unless senders meet or something fails, and the provider is asked at most
\* 2 * MAX_ATTEMPTS times, and once more per failure.
THEOREM SendsStayFew == OutboxSpec => []SendsAreFew
<1>1. OutboxInv => SendsAreFew
  <2> SUFFICES ASSUME OutboxInv PROVE SendsAreFew
    OBVIOUS
  <2>1. tries <= Limit /\ tries \in Nat /\ row.attempts \in Nat /\ MaxAttempts >= 1
    BY EmailOutboxAssumption DEF OutboxInv, OutboxTypeOK, Limit
  <2>2. ASSUME Alone PROVE delivered <= 1 /\ tries <= MaxAttempts
    <3>1. \A s \in Senders : Tried(s) => row.attempts + 1 <= MaxAttempts
      BY <2>1, <2>2, EmailOutboxAssumption
         DEF OutboxInv, OneByOne, RowShape, Senders, Tried, Pending, Working
    <3> QED BY <2>1, <2>2, <3>1, EmailOutboxAssumption DEF OutboxInv, OneByOne, One
  <2> QED BY <2>1, <2>2 DEF SendsAreFew, SentOnce, TriesBounded, Alone
<1> QED BY <1>1, OutboxInvariant, PTL

\* quotes/messaging.py:346 and 498: SENT is never told of an e-mail the provider
\* did not take, and in a transaction, with nothing overlapping or failing, the
\* message ends with the outcome of its outbox row.
THEOREM RecordsStayTrue == OutboxSpec => []RecordsTell
<1>1. OutboxInv => RecordsTell
  <2> SUFFICES ASSUME OutboxInv PROVE RecordsTell
    OBVIOUS
  <2>1. SentIsDelivered
    BY EmailOutboxAssumption DEF OutboxInv, OutboxTypeOK, SentWasTaken, OneByOne, SentIsDelivered, Alone, Tried, Working, One
  <2>2. MessageTells
    BY EmailOutboxAssumption DEF OutboxInv, ToldInOrder, OutboxTypeOK, RowStatuses, MessageTells, Alone, Working, Senders
  <2> QED BY <2>1, <2>2 DEF RecordsTell
<1> QED BY <1>1, OutboxInvariant, PTL
=============================================================================
