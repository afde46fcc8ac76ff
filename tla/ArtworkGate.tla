---------------------------- MODULE ArtworkGate ----------------------------
(***************************************************************************)
(* The artwork step of one `ManagedJob`: who says he holds the artwork     *)
(* (jobs/artwork_workflow.py), what the client says of it                  *)
(* (jobs/artwork_confirmation.py), and the dispatch both gate.             *)
(*                                                                         *)
(* Both keep their state under keys of one JSON column,                    *)
(* `ManagedJob.workflow_metadata`.  A request reads the job without a      *)
(* lock, checks what it read, and writes the whole column back: it is      *)
(* modelled as a read, a check and a save, with anything in between.       *)
(***************************************************************************)
EXTENDS Naturals

CONSTANT Requests   \* requests in progress at the same time

VARIABLES
    meta,           \* workflow_metadata, as the two modules read it
    file,           \* the job has a file of type ARTWORK or CUSTOMER_UPLOAD
    doing,          \* per request: what it does, what it read, and whether it checked
    dispatched,     \* the job was sent to its shop
    decided,        \* what manager and client last decided on the confirmation
    said,           \* what manager and printer have said so far
    overlapped      \* two requests of the job were in progress together

history == <<decided, said, overlapped>>
vars == <<meta, file, doing, dispatched, history>>

Confirmation == {"not_required", "requested", "approved", "rejected"}

Meta == [source  : {"none", "buyer_upload", "manager_holds"},
         claim   : {"none", "claimed", "accepted", "declined"},
         ack     : BOOLEAN,     \* printer_acknowledged_at is set
         confirm : Confirmation]

NoMeta == [source |-> "none", claim |-> "none", ack |-> FALSE, confirm |-> "not_required"]

Ops == {"claim", "accept", "holds", "decline", "acknowledge", "upload",
        "ask", "approve", "reject"}

Idle == [op |-> "idle", seen |-> NoMeta, checked |-> FALSE]

Sayings == {"hold", "acknowledge", "ask"}

TypeOK ==
    /\ meta \in Meta /\ decided \in Confirmation
    /\ file \in BOOLEAN
    /\ dispatched \in BOOLEAN /\ overlapped \in BOOLEAN
    /\ doing \in [Requests -> [op : Ops \cup {"idle"}, seen : Meta, checked : BOOLEAN]]
    /\ said \subseteq Sayings

\* A new job, with or without a file of its quote request.
Init ==
    /\ meta = NoMeta /\ decided = NoMeta.confirm
    /\ file \in BOOLEAN
    /\ doing = [r \in Requests |-> Idle]
    /\ dispatched = FALSE /\ overlapped = FALSE
    /\ said = {}

-----------------------------------------------------------------------------
(***************************************************************************)
(* What an operation asks of the metadata it read, and makes of it.        *)
(***************************************************************************)

Held(m) == m.source = "manager_holds" /\ m.claim = "accepted"

May(op, m) ==
    \/ op \in {"claim", "holds"}     /\ ~file
    \/ op \in {"accept", "decline"}  /\ m.claim = "claimed"
    \/ op = "acknowledge"            /\ ~file /\ Held(m)
    \/ op = "upload"
    \/ op = "ask"                    /\ m.confirm # "approved"
    \/ op \in {"approve", "reject"}  /\ m.confirm = "requested"

\* Mutant: the name of the view's action is stored as the state.
AnswerByName == [ask |-> "ask", approve |-> "approve", reject |-> "reject"]

Answer == [ask |-> "requested", approve |-> "approved", reject |-> "rejected"]

Confirming == DOMAIN Answer

\* Mutant: a claim starts a new dictionary, without the other module's key.
WorkedAlone(op, m) ==
    CASE op = "claim"       -> [NoMeta EXCEPT !.source = "manager_holds", !.claim = "claimed"]
      [] op \in {"accept", "holds"} -> [m EXCEPT !.source = "manager_holds", !.claim = "accepted"]
      [] op = "decline"     -> [m EXCEPT !.claim = "declined"]
      [] op = "acknowledge" -> [m EXCEPT !.ack = TRUE]
      [] op = "upload"      -> [m EXCEPT !.source = "buyer_upload", !.claim = "none"]

\* The steps of artwork_workflow.py.  An earlier acknowledgement of the printer
\* survives every one of them.
Worked(op, m) ==
    CASE op = "claim"       -> [m EXCEPT !.source = "manager_holds", !.claim = "claimed"]
      [] op \in {"accept", "holds"} -> [m EXCEPT !.source = "manager_holds", !.claim = "accepted"]
      [] op = "decline"     -> [m EXCEPT !.claim = "declined"]
      [] op = "acknowledge" -> [m EXCEPT !.ack = TRUE]
      [] op = "upload"      -> [m EXCEPT !.source = "buyer_upload", !.claim = "none"]

Changed(op, m) ==
    IF op \in Confirming THEN [m EXCEPT !.confirm = Answer[op]] ELSE Worked(op, m)

\* A new claim of the client is about other artwork than was acknowledged.
Said(op) ==
    CASE op = "claim"               -> said \ {"acknowledge"}
      [] op \in {"accept", "holds"} -> said \cup {"hold"}
      [] op \in Sayings             -> said \cup {op}
      [] OTHER                      -> said

Decided(op) == IF op \in Confirming THEN Answer[op] ELSE decided

-----------------------------------------------------------------------------
(***************************************************************************)
(* The requests.                                                           *)
(***************************************************************************)

\* The view loads the job.
Read(r, op) ==
    /\ doing[r] = Idle
    /\ doing' = [doing EXCEPT ![r] = [op |-> op, seen |-> meta, checked |-> FALSE]]
    /\ overlapped' = (overlapped \/ \E q \in Requests : doing[q] # Idle)
    /\ UNCHANGED <<meta, file, dispatched, decided, said>>

\* The service checks what the view read; an upload stores its file, in a
\* transaction of its own.
Check(r) ==
    /\ doing[r].op # "idle" /\ ~doing[r].checked
    /\ May(doing[r].op, doing[r].seen)
    /\ doing' = [doing EXCEPT ![r].checked = TRUE]
    /\ file' = (file \/ doing[r].op = "upload")
    /\ UNCHANGED <<meta, dispatched, history>>

\* _save, _save_payload: the whole column is written from what was read.
Save(r) ==
    /\ doing[r].checked
    /\ meta' = Changed(doing[r].op, doing[r].seen)
    /\ decided' = Decided(doing[r].op)
    /\ said' = Said(doing[r].op)
    /\ doing' = [doing EXCEPT ![r] = Idle]
    /\ UNCHANGED <<file, dispatched, overlapped>>

\* The request is refused, or the worker dies.
Stop(r) ==
    /\ doing[r].op # "idle"
    /\ doing' = [doing EXCEPT ![r] = Idle]
    /\ UNCHANGED <<meta, file, dispatched, history>>

\* A shop marks the job's only artwork file print ready: its type changes.
MarkPrintReady ==
    /\ file
    /\ file' = FALSE
    /\ UNCHANGED <<meta, doing, dispatched, history>>

-----------------------------------------------------------------------------
(***************************************************************************)
(* What the artwork gates.                                                 *)
(***************************************************************************)

DispatchOpen ==
    /\ meta.confirm \notin {"requested", "rejected"}
    /\ ~(Held(meta) /\ ~meta.ack)

\* dispatch_job_to_shop, with the job locked and read again (its payment
\* condition is JobFulfilment's).
Dispatch ==
    /\ ~dispatched /\ DispatchOpen
    /\ dispatched' = TRUE
    /\ UNCHANGED <<meta, file, doing, history>>

Next ==
    \/ \E r \in Requests : (\E op \in Ops : Read(r, op)) \/ Check(r) \/ Save(r) \/ Stop(r)
    \/ MarkPrintReady \/ Dispatch

Spec == Init /\ [][Next]_vars

-----------------------------------------------------------------------------
(***************************************************************************)
(* Properties.                                                             *)
(***************************************************************************)

\* artwork_workflow.py:320 and 232, artwork_confirmation.py:102: stale writes
\* may lose what somebody said, but never make up what nobody said: held
\* artwork was vouched for by the manager, an acknowledgement is of artwork
\* that a manager held, and the client answered only what he was asked.
NothingInvented ==
    /\ Held(meta) \/ meta.ack => "hold" \in said
    /\ meta.confirm \in {"approved", "rejected"} => "ask" \in said

\* artwork_workflow.py:82, artwork_confirmation.py:65: as long as no two
\* requests of the job overlap, the two modules that share the column keep each
\* other's keys, through every order of refused and abandoned requests.
DecisionsStand == ~overlapped => meta.confirm = decided

\* The column never says what nobody said, and says the last decision until two
\* requests overlap.
MetadataIsTrue == NothingInvented /\ DecisionsStand

\* artwork_confirmation.py:103: as long as no two requests overlap, the client's
\* approval is final, whatever is claimed, uploaded or asked afterwards.
ApprovalStands ==
    [][~overlapped' /\ meta.confirm = "approved" => meta'.confirm = "approved"]_vars
=============================================================================
