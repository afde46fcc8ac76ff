---------------------------- MODULE JobDeskProofs ----------------------------
(***************************************************************************)
(* Theorems about what is kept with a job while people work on it: its     *)
(* artwork metadata (ArtworkGate), for any number of requests in progress, *)
(* and its files (JobFiles), for any number of requests and of files.      *)
(***************************************************************************)
EXTENDS MCJobDesk, FiniteSetTheorems, SequenceTheorems, TLAPS

-----------------------------------------------------------------------------
(* ArtworkGate *)

\* What an operation makes of metadata is metadata.
LEMMA ChangedType ==
    ASSUME NEW op \in Ops, NEW m \in Meta
    PROVE  Changed(op, m) \in Meta
<1>1. CASE op \in {"ask", "approve", "reject"}
  BY <1>1 DEF Changed, Confirming, Answer, Meta, Confirmation
<1>2. CASE op \in {"claim", "accept", "holds"}
  BY <1>2 DEF Changed, Worked, Confirming, Answer, Meta, Confirmation
<1>3. CASE op \in {"decline", "acknowledge", "upload"}
  BY <1>3 DEF Changed, Worked, Confirming, Answer, Meta, Confirmation
<1>4. QED
  BY <1>1, <1>2, <1>3 DEF Ops

-----------------------------------------------------------------------------

(***************************************************************************)
(* The invariant: what a request has read was known when it read it, and   *)
(* what has been said stays said; a check that passed still holds of what  *)
(* was read, however stale that is.                                        *)
(***************************************************************************)

Known(m) ==
    /\ m.claim = "accepted" \/ m.ack => "hold" \in said
    /\ m.confirm # "not_required" => "ask" \in said

SeenIsKnown == \A r \in Requests : doing[r].op # "idle" => Known(doing[r].seen)

CheckHeld(d) ==
    /\ d.op \in Ops
    /\ d.op = "acknowledge" => Held(d.seen)
    /\ d.op \in {"approve", "reject"} => d.seen.confirm = "requested"
    /\ d.op = "ask" => d.seen.confirm # "approved"

ChecksHeld == \A r \in Requests : doing[r].checked => CheckHeld(doing[r])

GateInv == TypeOK /\ Known(meta) /\ SeenIsKnown /\ ChecksHeld

LEMMA GateInit == Init => GateInv
<1> SUFFICES ASSUME Init PROVE GateInv
  OBVIOUS
<1>1. TypeOK
  BY DEF Init, TypeOK, Idle, NoMeta, Meta, Confirmation
<1>2. Known(meta) /\ SeenIsKnown /\ ChecksHeld
  BY DEF Init, Known, SeenIsKnown, ChecksHeld, Idle, NoMeta
<1>3. QED
  BY <1>1, <1>2 DEF GateInv

\* A save keeps the types.
LEMMA SaveTypes ==
    ASSUME TypeOK, ChecksHeld, NEW r \in Requests, Save(r)
    PROVE  TypeOK'
<1> DEFINE op == doing[r].op
<1>0. op \in Ops
  BY DEF ChecksHeld, CheckHeld, Save
<1>1. meta' \in Meta
  BY <1>0, ChangedType DEF Save, history, TypeOK
<1>2. decided' \in Confirmation
  BY DEF Save, history, TypeOK, Decided, Confirming, Answer, Confirmation
<1>3. said' \subseteq Sayings
  <2>1. CASE op = "claim" \/ op \in {"accept", "holds"}
    BY <2>1 DEF Save, history, Said, Sayings, TypeOK
  <2>2. CASE op \in Sayings
    BY <2>2 DEF Save, history, Said, Sayings, TypeOK
  <2>3. CASE op # "claim" /\ op \notin {"accept", "holds"} /\ op \notin Sayings
    BY <2>3 DEF Save, history, Said, Sayings, TypeOK
  <2>4. QED
    BY <2>1, <2>2, <2>3
<1>4. doing' \in [Requests -> [op : Ops \cup {"idle"}, seen : Meta, checked : BOOLEAN]]
  BY DEF Save, history, TypeOK, Idle, NoMeta, Meta, Confirmation
<1>5. QED
  BY <1>1, <1>2, <1>3, <1>4 DEF Save, history, TypeOK

\* A save writes only what somebody has said.
LEMMA SaveKnown ==
    ASSUME TypeOK, Known(meta), SeenIsKnown, ChecksHeld, NEW r \in Requests, Save(r)
    PROVE  Known(meta)' /\ SeenIsKnown'
<1> DEFINE op == doing[r].op
           m  == doing[r].seen
<1>0. op \in Ops /\ op # "idle" /\ m \in Meta /\ Known(m) /\ CheckHeld(doing[r])
  BY DEF ChecksHeld, CheckHeld, SeenIsKnown, Save, TypeOK, Ops
<1>1. /\ "hold" \in said => "hold" \in said'
      /\ "ask" \in said => "ask" \in said'
  BY <1>0 DEF Save, history, Said, Sayings, Ops
<1>2. Known(meta)'
  <2>1. CASE op = "ask"
    <3>1. meta' = [m EXCEPT !.confirm = "requested"]
      BY <2>1 DEF Save, history, Changed, Confirming, Answer
    <3>2. "ask" \in said'
      BY <2>1 DEF Save, history, Said, Sayings
    <3>3. QED
      BY <1>0, <1>1, <3>1, <3>2 DEF Known, Meta
  <2>2. CASE op \in {"approve", "reject"}
    <3>1. meta' = [m EXCEPT !.confirm = Answer[op]]
      BY <2>2 DEF Save, history, Changed, Confirming, Answer
    <3>2. "ask" \in said
      BY <1>0, <2>2 DEF CheckHeld, Known
    <3>3. QED
      BY <1>0, <1>1, <3>1, <3>2 DEF Known, Meta
  <2>3. CASE op \in {"accept", "holds"}
    <3>1. meta' = [m EXCEPT !.source = "manager_holds", !.claim = "accepted"]
      BY <2>3 DEF Save, history, Changed, Worked, Confirming, Answer
    <3>2. "hold" \in said'
      BY <2>3 DEF Save, history, Said, Sayings
    <3>3. QED
      BY <1>0, <1>1, <3>1, <3>2 DEF Known, Meta
  <2>4. CASE op = "acknowledge"
    <3>1. meta' = [m EXCEPT !.ack = TRUE]
      BY <2>4 DEF Save, history, Changed, Worked, Confirming, Answer
    <3>2. "hold" \in said
      BY <1>0, <2>4 DEF CheckHeld, Held, Known
    <3>3. QED
      BY <1>0, <1>1, <3>1, <3>2 DEF Known, Meta
  <2>5. CASE op = "claim"
    <3>1. meta' = [m EXCEPT !.source = "manager_holds", !.claim = "claimed"]
      BY <2>5 DEF Save, history, Changed, Worked, Confirming, Answer
    <3>2. QED
      BY <1>0, <1>1, <3>1 DEF Known, Meta
  <2>6. CASE op \in {"decline", "upload"}
    <3>1. \/ meta' = [m EXCEPT !.claim = "declined"]
          \/ meta' = [m EXCEPT !.source = "buyer_upload", !.claim = "none"]
      BY <2>6 DEF Save, history, Changed, Worked, Confirming, Answer
    <3>2. QED
      BY <1>0, <1>1, <3>1 DEF Known, Meta
  <2>7. QED
    BY <1>0, <2>1, <2>2, <2>3, <2>4, <2>5, <2>6 DEF Ops
<1>3. SeenIsKnown'
  <2> SUFFICES ASSUME NEW q \in Requests, doing'[q].op # "idle" PROVE Known(doing[q].seen)'
    BY DEF SeenIsKnown
  <2>1. doing'[q] = doing[q]
    BY DEF Save, history, TypeOK, Idle
  <2>2. Known(doing[q].seen)
    BY <2>1 DEF SeenIsKnown
  <2>3. QED
    BY <1>1, <2>1, <2>2 DEF Known
<1>4. QED
  BY <1>2, <1>3

LEMMA GateStep == GateInv /\ [Next]_vars => GateInv'
<1> SUFFICES ASSUME GateInv, [Next]_vars PROVE GateInv'
  OBVIOUS
<1> USE DEF GateInv
<1>1. ASSUME NEW r \in Requests, NEW op \in Ops, Read(r, op) PROVE GateInv'
  <2>1. TypeOK'
    BY <1>1 DEF Read, history, TypeOK
  <2>2. Known(meta)' /\ SeenIsKnown'
    BY <1>1 DEF Read, history, TypeOK, Known, SeenIsKnown
  <2>3. ChecksHeld'
    BY <1>1 DEF Read, history, TypeOK, ChecksHeld
  <2>4. QED
    BY <2>1, <2>2, <2>3
<1>2. ASSUME NEW r \in Requests, Check(r) PROVE GateInv'
  <2>1. TypeOK'
    BY <1>2 DEF Check, history, TypeOK
  <2>2. Known(meta)' /\ SeenIsKnown'
    BY <1>2 DEF Check, history, TypeOK, Known, SeenIsKnown
  <2>3. CheckHeld(doing[r])
    BY <1>2 DEF Check, history, TypeOK, May, CheckHeld, Ops
  <2>4. ChecksHeld'
    BY <1>2, <2>3 DEF Check, history, TypeOK, ChecksHeld, CheckHeld, Held
  <2>5. QED
    BY <2>1, <2>2, <2>4
<1>3. ASSUME NEW r \in Requests, Save(r) PROVE GateInv'
  <2>1. TypeOK'
    BY <1>3, SaveTypes
  <2>2. Known(meta)' /\ SeenIsKnown'
    BY <1>3, SaveKnown
  <2>3. ChecksHeld'
    BY <1>3 DEF Save, history, TypeOK, ChecksHeld, CheckHeld, Held, Idle
  <2>4. QED
    BY <2>1, <2>2, <2>3
<1>4. ASSUME NEW r \in Requests, Stop(r) PROVE GateInv'
  <2>1. Idle \in [op : Ops \cup {"idle"}, seen : Meta, checked : BOOLEAN]
    BY DEF Idle, NoMeta, Meta, Confirmation
  <2>2. TypeOK'
    BY <1>4, <2>1 DEF Stop, history, TypeOK
  <2>3. Known(meta)' /\ SeenIsKnown'
    BY <1>4 DEF Stop, history, TypeOK, Known, SeenIsKnown, Idle
  <2>4. ChecksHeld'
    BY <1>4 DEF Stop, history, TypeOK, ChecksHeld, CheckHeld, Held, Idle
  <2>5. QED
    BY <2>2, <2>3, <2>4
<1>5. CASE MarkPrintReady \/ Dispatch \/ UNCHANGED vars
  <2>1. TypeOK'
    BY <1>5 DEF MarkPrintReady, Dispatch, history, vars, TypeOK
  <2>2. UNCHANGED <<meta, doing, said>>
    BY <1>5 DEF MarkPrintReady, Dispatch, history, vars
  <2>3. QED
    BY <2>1, <2>2 DEF Known, SeenIsKnown, ChecksHeld, CheckHeld, Held
<1>6. QED
  BY <1>1, <1>2, <1>3, <1>4, <1>5 DEF Next

-----------------------------------------------------------------------------

\* Every variable keeps its type, however many requests overlap.
THEOREM TypeCorrect == Spec => []TypeOK
<1>1. GateInv => TypeOK
  BY DEF GateInv
<1>2. QED
  BY GateInit, GateStep, <1>1, PTL DEF Spec

\* Stale writes of the shared column lose decisions, but invent none.
THEOREM NothingInventedAlways == Spec => []NothingInvented
<1>1. GateInv => NothingInvented
  BY DEF GateInv, Known, NothingInvented, Held
<1>2. QED
  BY GateInit, GateStep, <1>1, PTL DEF Spec

-----------------------------------------------------------------------------
(***************************************************************************)
(* Until two requests overlap, at most one is in progress, and what it     *)
(* read is what the row holds.                                             *)
(***************************************************************************)

Serial ==
    /\ meta.confirm = decided
    /\ \A r \in Requests : doing[r].op # "idle" => doing[r].seen.confirm = decided
    /\ \A q, r \in Requests : doing[q].op # "idle" /\ doing[r].op # "idle" => q = r

SerialInv == GateInv /\ (~overlapped => Serial)

\* The steps of artwork_workflow.py keep the confirmation.
LEMMA WorkedKeeps ==
    ASSUME NEW op \in Ops, NEW m \in Meta, op \notin {"ask", "approve", "reject"}
    PROVE  Worked(op, m).confirm = m.confirm
<1>1. CASE op \in {"claim", "accept", "holds"}
  BY <1>1 DEF Worked, Meta
<1>2. CASE op \in {"decline", "acknowledge", "upload"}
  BY <1>2 DEF Worked, Meta
<1>3. QED
  BY <1>1, <1>2 DEF Ops

LEMMA SerialStep ==
    ASSUME SerialInv, [Next]_vars, ~overlapped'
    PROVE  Serial' /\ (meta.confirm = "approved" => meta'.confirm = "approved")
<1>0. GateInv /\ Serial
  <2>1. ~overlapped
    BY DEF Next, Read, Check, Save, Stop, MarkPrintReady, Dispatch, history, vars
  <2>2. QED
    BY <2>1 DEF SerialInv
<1>1. ASSUME NEW r \in Requests, NEW op \in Ops, Read(r, op)
      PROVE  Serial' /\ meta'.confirm = meta.confirm
  <2>1. \A q \in Requests : doing[q] = Idle
    BY <1>1 DEF Read
  <2>2. \A q \in Requests : doing'[q].op # "idle" => q = r /\ doing'[q].seen = meta
    BY <1>0, <1>1, <2>1 DEF Read, GateInv, TypeOK, Idle
  <2>3. QED
    BY <1>0, <1>1, <2>2 DEF Read, Serial
<1>2. ASSUME NEW r \in Requests, Check(r)
      PROVE  Serial' /\ meta'.confirm = meta.confirm
  BY <1>0, <1>2 DEF Check, history, GateInv, TypeOK, Serial
<1>3. ASSUME NEW r \in Requests, Save(r)
      PROVE  Serial' /\ (meta.confirm = "approved" => meta'.confirm = "approved")
  <2> DEFINE op == doing[r].op
             m  == doing[r].seen
  <2>1. op \in Ops /\ op # "idle" /\ m \in Meta /\ CheckHeld(doing[r]) /\ m.confirm = decided
    BY <1>0, <1>3 DEF GateInv, TypeOK, ChecksHeld, CheckHeld, Save, Ops, Serial
  <2>2. \A q \in Requests : doing'[q].op = "idle"
    BY <1>0, <1>3, <2>1 DEF Serial, Save, GateInv, TypeOK, Idle
  <2>3. CASE op \in {"ask", "approve", "reject"}
    <3>1. meta' = [m EXCEPT !.confirm = Answer[op]] /\ decided' = Answer[op]
      BY <1>3, <2>3 DEF Save, history, Changed, Decided, Confirming, Answer
    <3>2. meta'.confirm = decided'
      BY <2>1, <3>1 DEF Meta
    <3>3. meta.confirm # "approved"
      BY <1>0, <2>1, <2>3 DEF CheckHeld, Serial
    <3>4. QED
      BY <2>2, <3>2, <3>3 DEF Serial
  <2>4. CASE op \notin {"ask", "approve", "reject"}
    <3>1. meta' = Worked(op, m) /\ decided' = decided
      BY <1>3, <2>4 DEF Save, history, Changed, Decided, Confirming, Answer
    <3>2. meta'.confirm = decided'
      BY <2>1, <2>4, <3>1, WorkedKeeps
    <3>3. QED
      BY <1>0, <2>1, <2>2, <3>1, <3>2 DEF Serial
  <2>5. QED
    BY <2>3, <2>4
<1>4. ASSUME NEW r \in Requests, Stop(r)
      PROVE  Serial' /\ meta'.confirm = meta.confirm
  BY <1>0, <1>4 DEF Stop, history, GateInv, TypeOK, Idle, Serial
<1>5. CASE MarkPrintReady \/ Dispatch \/ UNCHANGED vars
  BY <1>0, <1>5 DEF MarkPrintReady, Dispatch, history, vars, Serial
<1>6. QED
  BY <1>1, <1>2, <1>3, <1>4, <1>5 DEF Next

LEMMA SerialInvariant == Spec => []SerialInv
<1>1. Init => SerialInv
  BY GateInit DEF Init, SerialInv, Serial, Idle, NoMeta
<1>2. SerialInv /\ [Next]_vars => SerialInv'
  BY GateStep, SerialStep DEF SerialInv
<1>3. QED
  BY <1>1, <1>2, PTL DEF Spec

\* Until two requests overlap, neither module loses the other's key.
THEOREM DecisionsStandSerially == Spec => []DecisionsStand
<1>1. SerialInv => DecisionsStand
  BY DEF SerialInv, Serial, DecisionsStand
<1>2. QED
  BY SerialInvariant, <1>1, PTL

\* The column never says what nobody said, and says the last decision until two
\* requests overlap.
THEOREM MetadataStaysTrue == Spec => []MetadataIsTrue
<1>1. NothingInvented /\ DecisionsStand => MetadataIsTrue
  BY DEF MetadataIsTrue
<1>2. QED
  BY NothingInventedAlways, DecisionsStandSerially, <1>1, PTL

\* Until two requests overlap, the client's approval is final.
THEOREM ApprovalStandsSerially == Spec => ApprovalStands
<1>1. SerialInv /\ [Next]_vars
        => [~overlapped' /\ meta.confirm = "approved" => meta'.confirm = "approved"]_vars
  BY SerialStep
<1>2. QED
  BY SerialInvariant, <1>1, PTL DEF Spec, ApprovalStands

-----------------------------------------------------------------------------
(* JobFiles *)

(***************************************************************************)
(* The invariant: a proof nobody released is as it was made or was refused *)
(* by the manager (Unreleased), a verdict under way was allowed for the    *)
(* row that was loaded (VerdictsAllowed), and the client's verdict on what *)
(* is still a proof is about a released one (AnswersAreAsked), because no  *)
(* verdict makes a proof of another file.                                  *)
(***************************************************************************)

Unreleased(row) == row = ShopProof \/ row.status \in {"manager_review", "manager_rejected"}

ProofsUnreleased ==
    \A f \in DOMAIN files :
        files[f].type = "proof" /\ f \notin released => Unreleased(files[f])

VerdictsAllowed ==
    \A c \in Callers : call[c].op \in Verdicts =>
        call[c].file \in DOMAIN files /\ MayJudge(call[c].op, call[c].seen)

AnswersAreAsked ==
    \A c \in Callers :
        call[c].op \in {"approve", "reject", "revise"} /\ files[call[c].file].type = "proof"
            => call[c].file \in released

FilesInv == FilesTypeOK /\ ProofsUnreleased /\ VerdictsAllowed /\ AnswersAreAsked

LEMMA RowsTyped ==
    /\ Artwork \in JobFile /\ Attachment \in JobFile /\ ShopProof \in JobFile
    /\ Proof \in JobFile /\ PrintReady \in JobFile
BY DEF Artwork, Attachment, ShopProof, Proof, PrintReady, JobFile, FileStatus

LEMMA JudgedTyped ==
    ASSUME NEW op \in Verdicts, NEW row \in JobFile
    PROVE  /\ Judged(op, row) \in JobFile
           /\ Judged(op, row).type = "proof" => row.type = "proof"
<1>1. CASE op = "release"
  BY <1>1 DEF Judged, JobFile, FileStatus
<1>2. CASE op = "withhold"
  BY <1>2 DEF Judged, JobFile, FileStatus
<1>3. CASE op \in {"approve", "reject", "revise"}
  BY <1>3 DEF Judged, JobFile, FileStatus
<1>4. CASE op = "print"
  BY <1>4, RowsTyped DEF Judged, PrintReady
<1> QED BY <1>1, <1>2, <1>3, <1>4 DEF Verdicts

\* What the client is shown, and what carries the client's answer, is released.
LEMMA InvShowsReleased == FilesInv => ClientSeesReleased
BY DEF FilesInv, ProofsUnreleased, Unreleased, ClientSeesReleased, ClientSees,
       ClientAnswered, ShopProof

LEMMA FilesStart == FilesInit => FilesInv
<1> SUFFICES ASSUME FilesInit PROVE FilesInv
  OBVIOUS
<1>1. files \in Seq(JobFile) /\ Len(files) <= MaxFiles
  <2>1. CASE files = <<>>
    BY <2>1, FilesAssumption
  <2>2. CASE files = <<Attachment>>
    BY <2>2, RowsTyped, FilesAssumption
  <2>3. CASE files = <<ShopProof>>
    BY <2>3, RowsTyped, FilesAssumption
  <2> QED BY <2>1, <2>2, <2>3 DEF FilesInit
<1>2. NoCall.op = "none" /\ \A c \in Callers : call[c] = NoCall
  BY DEF FilesInit, NoCall
<1>3. FilesTypeOK
  <2>1. call \in [Callers -> [op : Verdicts \cup {"none", "remind", "record"},
                              file : 0 .. MaxFiles, seen : JobFile]]
    BY RowsTyped, FilesAssumption DEF FilesInit, NoCall
  <2>2. reminded \in BOOLEAN /\ reminders \in Nat /\ deaths \in 0 .. MaxDeaths
    <3>1. reminded \in BOOLEAN
      BY DEF FilesInit
    <3>2. reminders \in Nat
      BY <3>1 DEF FilesInit
    <3> QED BY <3>1, <3>2, FilesAssumption DEF FilesInit
  <2>3. released \subseteq DOMAIN files
    BY DEF FilesInit
  <2> QED BY <1>1, <2>1, <2>2, <2>3 DEF FilesTypeOK
<1>4. ProofsUnreleased
  <2>1. \A f \in DOMAIN files : files[f] \in {Attachment, ShopProof}
    BY DEF FilesInit
  <2> QED BY <2>1 DEF ProofsUnreleased, Unreleased, Attachment
<1>5. VerdictsAllowed /\ AnswersAreAsked
  BY <1>2 DEF VerdictsAllowed, AnswersAreAsked, Verdicts
<1> QED BY <1>3, <1>4, <1>5 DEF FilesInv

LEMMA AddFileKeeps ==
    ASSUME FilesInv, NEW row \in Imported \cup Uploads, AddFile(row)
    PROVE  FilesInv'
<1>1. row \in JobFile /\ (row.type = "proof" => Unreleased(row))
  BY RowsTyped DEF Imported, Uploads, Unreleased, Artwork, Attachment, Proof
<1>2. /\ files' \in Seq(JobFile) /\ Len(files') = Len(files) + 1
      /\ \A f \in DOMAIN files : files'[f] = files[f] /\ f \in DOMAIN files'
      /\ \A f \in DOMAIN files' : f \in DOMAIN files \/ files'[f] = row
  BY <1>1 DEF AddFile, FilesInv, FilesTypeOK
<1>3. FilesTypeOK'
  BY <1>2, FilesAssumption DEF AddFile, FilesInv, FilesTypeOK
<1>4. ProofsUnreleased'
  BY <1>1, <1>2 DEF AddFile, FilesInv, ProofsUnreleased, Unreleased
<1>5. VerdictsAllowed'
  BY <1>2 DEF AddFile, FilesInv, VerdictsAllowed
<1>6. AnswersAreAsked'
  BY <1>2 DEF AddFile, FilesInv, AnswersAreAsked, VerdictsAllowed, Verdicts
<1> QED BY <1>3, <1>4, <1>5, <1>6 DEF FilesInv

LEMMA OpenFileKeeps ==
    ASSUME FilesInv, NEW c \in Callers, NEW op \in Verdicts, NEW f \in DOMAIN files,
           OpenFile(c, op, f)
    PROVE  FilesInv'
<1>1. files[f] \in JobFile /\ f \in 0 .. MaxFiles
  BY FilesAssumption DEF FilesInv, FilesTypeOK
<1>2. /\ call' = [call EXCEPT ![c] = [op |-> op, file |-> f, seen |-> files[f]]]
      /\ MayJudge(op, files[f])
      /\ UNCHANGED <<files, reminded, released, reminders, deaths>>
  BY DEF OpenFile
<1>3. \A d \in Callers : call'[d] =
         IF d = c THEN [op |-> op, file |-> f, seen |-> files[f]] ELSE call[d]
  BY <1>2 DEF FilesInv, FilesTypeOK
<1>4. FilesTypeOK'
  BY <1>1, <1>2 DEF FilesInv, FilesTypeOK
<1>5. ProofsUnreleased'
  BY <1>2 DEF FilesInv, ProofsUnreleased, Unreleased
<1>6. VerdictsAllowed'
  BY <1>2, <1>3 DEF FilesInv, VerdictsAllowed
<1>7. AnswersAreAsked'
  <2>1. op \in {"approve", "reject", "revise"} /\ files[f].type = "proof" => f \in released
    BY <1>2 DEF MayJudge, Asked, FilesInv, ProofsUnreleased, Unreleased, ShopProof
  <2> QED BY <1>2, <1>3, <2>1 DEF FilesInv, AnswersAreAsked
<1> QED BY <1>4, <1>5, <1>6, <1>7 DEF FilesInv

LEMMA SaveKeeps ==
    ASSUME FilesInv, NEW c \in Callers, SaveVerdict(c)
    PROVE  FilesInv'
<1> DEFINE op == call[c].op
           f  == call[c].file
           row == Judged(op, files[f])
<1>1. op \in Verdicts /\ f \in DOMAIN files /\ files[f] \in JobFile
      /\ MayJudge(op, call[c].seen)
  BY DEF SaveVerdict, FilesInv, VerdictsAllowed, FilesTypeOK
<1>2. row \in JobFile /\ (row.type = "proof" => files[f].type = "proof")
  BY <1>1, JudgedTyped
<1>3. /\ files' = [files EXCEPT ![f] = row]
      /\ released' = IF op = "release" THEN released \cup {f} ELSE released
      /\ call' = [call EXCEPT ![c] = NoCall]
      /\ UNCHANGED <<reminded, reminders, deaths>>
  BY DEF SaveVerdict
<1> HIDE DEF op, f, row
<1>4. /\ files' \in Seq(JobFile) /\ Len(files') = Len(files) /\ DOMAIN files' = DOMAIN files
      /\ \A g \in DOMAIN files : files'[g] = IF g = f THEN row ELSE files[g]
  BY <1>1, <1>2, <1>3 DEF FilesInv, FilesTypeOK
<1>5. NoCall.op = "none" /\ \A d \in Callers : call'[d] = IF d = c THEN NoCall ELSE call[d]
  BY <1>3 DEF FilesInv, FilesTypeOK, NoCall
<1>6. FilesTypeOK'
  <2>1. call' \in [Callers -> [op : Verdicts \cup {"none", "remind", "record"},
                               file : 0 .. MaxFiles, seen : JobFile]]
    BY <1>3, RowsTyped, FilesAssumption DEF FilesInv, FilesTypeOK, NoCall
  <2> QED BY <1>1, <1>3, <1>4, <2>1 DEF FilesInv, FilesTypeOK
<1>7. ProofsUnreleased'
  <2>1. row.type = "proof" /\ f \notin released' => Unreleased(row)
    <3> SUFFICES ASSUME row.type = "proof", f \notin released' PROVE Unreleased(row)
      OBVIOUS
    <3>1. f \notin released /\ op # "release" /\ files[f].type = "proof"
      BY <1>2, <1>3
    <3>2. op \notin {"approve", "reject", "revise"}
      BY <3>1 DEF FilesInv, AnswersAreAsked, op, f
    <3>3. op # "print"
      BY DEF row, Judged, PrintReady
    <3>4. op = "withhold"
      BY <1>1, <3>1, <3>2, <3>3 DEF Verdicts
    <3> QED BY <1>1, <3>4 DEF row, Judged, Unreleased, JobFile
  <2> QED BY <1>3, <1>4, <2>1 DEF FilesInv, ProofsUnreleased
<1>8. VerdictsAllowed'
  BY <1>4, <1>5 DEF FilesInv, VerdictsAllowed, Verdicts
<1>9. AnswersAreAsked'
  <2> SUFFICES ASSUME NEW d \in Callers, call'[d].op \in {"approve", "reject", "revise"},
                      files'[call'[d].file].type = "proof"
               PROVE  call'[d].file \in released'
    BY DEF AnswersAreAsked
  <2>1. d # c /\ call'[d] = call[d]
    BY <1>5
  <2>2. call[d].file \in DOMAIN files /\ files[call[d].file].type = "proof"
    BY <1>2, <1>4, <2>1 DEF FilesInv, VerdictsAllowed, Verdicts
  <2> QED BY <1>3, <2>1, <2>2 DEF FilesInv, AnswersAreAsked
<1> QED BY <1>6, <1>7, <1>8, <1>9 DEF FilesInv

\* The other steps leave the files alone and begin no verdict.
LEMMA OthersKeep ==
    ASSUME FilesInv, NEW c \in Callers,
           OpenJob(c) \/ Remind(c) \/ Record(c) \/ Drop(c)
    PROVE  FilesInv'
<1>1. UNCHANGED <<files, released>>
  BY DEF OpenJob, Remind, Record, Drop
<1>2. \A d \in Callers : call'[d] = call[d] \/ call'[d].op \notin Verdicts
  BY DEF OpenJob, Remind, Record, Drop, FilesInv, FilesTypeOK, NoCall, Verdicts
<1>3. FilesTypeOK'
  <2>1. NoCall \in [op : Verdicts \cup {"none", "remind", "record"},
                    file : 0 .. MaxFiles, seen : JobFile]
    BY RowsTyped, FilesAssumption DEF NoCall
  <2>2. call' \in [Callers -> [op : Verdicts \cup {"none", "remind", "record"},
                               file : 0 .. MaxFiles, seen : JobFile]]
    <3>1. CASE OpenJob(c)
      BY <3>1 DEF OpenJob, FilesInv, FilesTypeOK
    <3>2. CASE Remind(c)
      BY <3>2 DEF Remind, FilesInv, FilesTypeOK
    <3>3. CASE Record(c) \/ Drop(c)
      BY <2>1, <3>3 DEF Record, Drop, FilesInv, FilesTypeOK
    <3> QED BY <3>1, <3>2, <3>3
  <2>3. reminded' \in BOOLEAN /\ reminders' \in Nat
    <3>1. CASE Remind(c)
      BY <3>1 DEF Remind, FilesInv, FilesTypeOK
    <3>2. CASE OpenJob(c) \/ Record(c) \/ Drop(c)
      BY <3>2 DEF OpenJob, Record, Drop, FilesInv, FilesTypeOK
    <3> QED BY <3>1, <3>2
  <2>4. deaths' \in 0 .. MaxDeaths
    BY FilesAssumption DEF OpenJob, Remind, Record, Drop, FilesInv, FilesTypeOK
  <2> QED BY <1>1, <2>2, <2>3, <2>4 DEF FilesInv, FilesTypeOK
<1>4. ProofsUnreleased'
  BY <1>1 DEF FilesInv, ProofsUnreleased
<1>5. VerdictsAllowed'
  BY <1>1, <1>2 DEF FilesInv, VerdictsAllowed
<1>6. AnswersAreAsked'
  BY <1>1, <1>2 DEF FilesInv, AnswersAreAsked, Verdicts
<1> QED BY <1>3, <1>4, <1>5, <1>6 DEF FilesInv

LEMMA FilesStutter == FilesInv /\ UNCHANGED filesVars => FilesInv'
BY DEF FilesInv, FilesTypeOK, ProofsUnreleased, VerdictsAllowed, AnswersAreAsked, filesVars

LEMMA FilesStep == FilesInv /\ [FilesNext]_filesVars => FilesInv'
BY AddFileKeeps, OpenFileKeeps, SaveKeeps, OthersKeep, FilesStutter DEF FilesNext

LEMMA FilesInvariant == FilesSpec => []FilesInv
BY FilesStep, FilesStart, PTL DEF FilesSpec

\* Every variable keeps its type.
THEOREM FilesTypeCorrect == FilesSpec => []FilesTypeOK
<1>1. FilesInv => FilesTypeOK
  BY DEF FilesInv
<1> QED BY <1>1, FilesInvariant, PTL

\* file_services.py:395 and 604: no proof is shown to the client, and none carries
\* the client's answer, before a manager released it.
THEOREM ShownIsReleased == FilesSpec => []ClientSeesReleased
BY FilesInvariant, InvShowsReleased, PTL

-----------------------------------------------------------------------------
(* Verdicts *)

\* views.py:973, file_services.py:604: only print ready, or a request that loaded
\* the proof before the verdict, replaces a verdict.
THEOREM VerdictsStay == FilesSpec => VerdictsStand
<1>1. ASSUME FilesInv, [FilesNext]_filesVars, NEW f \in DOMAIN files,
             files[f].type = "proof",
             files[f].status \in ClientAnswered \cup {"manager_rejected"},
             files'[f] # files[f]
      PROVE  \/ files'[f].type = "print_ready"
             \/ \E c \in Callers : call[c].file = f /\ call[c].seen # files[f] /\ call'[c] = NoCall
  <2>1. \A row \in Imported \cup Uploads : ~AddFile(row)
    BY <1>1 DEF AddFile, FilesInv, FilesTypeOK
  <2>2. PICK c \in Callers : SaveVerdict(c)
    BY <1>1, <2>1 DEF FilesNext, filesVars, OpenFile, OpenJob, Remind, Record, Drop
  <2>3. /\ call[c].op \in Verdicts /\ MayJudge(call[c].op, call[c].seen)
        /\ call[c].file = f /\ call'[c] = NoCall
        /\ files'[f] = Judged(call[c].op, files[f])
    BY <1>1, <2>2 DEF SaveVerdict, FilesInv, VerdictsAllowed, FilesTypeOK
  <2>4. CASE call[c].op = "print"
    BY <2>3, <2>4 DEF Judged, PrintReady
  <2>5. CASE call[c].op # "print"
    <3>1. call[c].seen # files[f]
      BY <1>1, <2>3, <2>5 DEF MayJudge, Waiting, Asked, ClientAnswered
    <3> QED BY <2>3, <3>1
  <2> QED BY <2>4, <2>5
<1>2. FilesInv /\ [FilesNext]_filesVars =>
        [\A f \in DOMAIN files :
            files[f].type = "proof" /\ files[f].status \in ClientAnswered \cup {"manager_rejected"}
                /\ files'[f] # files[f]
            => \/ files'[f].type = "print_ready"
               \/ \E c \in Callers : call[c].file = f /\ call[c].seen # files[f]
                                     /\ call'[c] = NoCall]_filesVars
  BY <1>1
<1> QED BY <1>2, FilesInvariant, PTL DEF FilesSpec, VerdictsStand

-----------------------------------------------------------------------------
(***************************************************************************)
(* Reminders.  Before one is recorded, each that was sent is about to be   *)
(* recorded or its worker died; afterwards nobody begins another, and only *)
(* the requests that had opened the job before can still send one.         *)
(***************************************************************************)

Reminding == {c \in Callers : call[c].op = "remind"}
Recording == {c \in Callers : call[c].op = "record"}

Counted ==
    IF reminded THEN reminders + Cardinality(Reminding) <= Cardinality(Callers) + deaths
    ELSE reminders <= Cardinality(Recording) + deaths

ReminderInv == FilesTypeOK /\ Counted

LEMMA CallersFinite ==
    /\ Cardinality(Callers) \in Nat /\ Cardinality(Callers) >= 1
    /\ \A S \in SUBSET Callers :
          IsFiniteSet(S) /\ Cardinality(S) \in Nat /\ Cardinality(S) <= Cardinality(Callers)
<1>1. IsFiniteSet(Callers) /\ Callers # {}
  BY FilesAssumption
<1>2. Cardinality(Callers) \in Nat /\ Cardinality(Callers) # 0
  BY <1>1, FS_CardinalityType, FS_EmptySet
<1> QED BY <1>1, <1>2, FS_Subset, FS_CardinalityType

LEMMA InvFew == ReminderInv => RemindersAreFew
<1> SUFFICES ASSUME ReminderInv PROVE reminders <= Cardinality(Callers) + deaths
  BY DEF RemindersAreFew
<1>1. Reminding \in SUBSET Callers /\ Recording \in SUBSET Callers
  BY DEF Reminding, Recording
<1>2. reminders \in Nat /\ deaths \in Nat
  BY FilesAssumption DEF ReminderInv, FilesTypeOK
<1> QED BY <1>1, <1>2, CallersFinite DEF ReminderInv, Counted

LEMMA ReminderStart == FilesInit => Counted
<1> SUFFICES ASSUME FilesInit PROVE Counted
  OBVIOUS
<1>1. Reminding = {} /\ Recording = {}
  BY DEF FilesInit, NoCall, Reminding, Recording
<1>2. Cardinality({}) = 0
  BY FS_EmptySet
<1>3. reminders = IF reminded THEN 1 ELSE 0
  BY DEF FilesInit
<1>4. deaths = 0
  BY DEF FilesInit
<1> QED BY <1>1, <1>2, <1>3, <1>4, CallersFinite DEF Counted

\* A step of one request moves it, and no other, between the two sets.
LEMMA OneMoves ==
    ASSUME FilesTypeOK, NEW c \in Callers, NEW new, call' = [call EXCEPT ![c] = new]
    PROVE  /\ Reminding' = IF new.op = "remind" THEN Reminding \cup {c} ELSE Reminding \ {c}
           /\ Recording' = IF new.op = "record" THEN Recording \cup {c} ELSE Recording \ {c}
<1>1. \A d \in Callers : call'[d] = IF d = c THEN new ELSE call[d]
  BY DEF FilesTypeOK
<1> QED BY <1>1 DEF Reminding, Recording

LEMMA ReminderStep ==
    ASSUME FilesTypeOK, Counted, NEW c \in Callers,
           \/ \E op \in Verdicts, f \in DOMAIN files : OpenFile(c, op, f)
           \/ SaveVerdict(c) \/ OpenJob(c) \/ Remind(c) \/ Record(c) \/ Drop(c)
    PROVE  Counted'
<1> USE CallersFinite
<1>1. /\ Reminding \in SUBSET Callers /\ Recording \in SUBSET Callers
      /\ reminders \in Nat /\ deaths \in Nat
  BY FilesAssumption DEF FilesTypeOK, Reminding, Recording
<1>2. /\ Cardinality(Reminding) \in Nat /\ Cardinality(Recording) \in Nat
      /\ Cardinality(Reminding \ {c}) =
           IF c \in Reminding THEN Cardinality(Reminding) - 1 ELSE Cardinality(Reminding)
      /\ Cardinality(Recording \ {c}) =
           IF c \in Recording THEN Cardinality(Recording) - 1 ELSE Cardinality(Recording)
      /\ Cardinality(Recording \cup {c}) =
           IF c \in Recording THEN Cardinality(Recording) ELSE Cardinality(Recording) + 1
  BY <1>1, FS_AddElement, FS_RemoveElement
<1>3. CASE \/ \E op \in Verdicts, f \in DOMAIN files : OpenFile(c, op, f)
           \/ SaveVerdict(c)
  <2>1. PICK new : call' = [call EXCEPT ![c] = new] /\ new.op \notin {"remind", "record"}
    BY <1>3 DEF OpenFile, SaveVerdict, NoCall, Verdicts
  <2>2. call[c].op \in Verdicts \cup {"none"} /\ UNCHANGED <<reminded, reminders, deaths>>
    BY <1>3 DEF OpenFile, SaveVerdict, NoCall
  <2>3. Reminding' = Reminding /\ Recording' = Recording
    BY <2>1, <2>2, OneMoves DEF Reminding, Recording, Verdicts
  <2> QED BY <2>2, <2>3 DEF Counted
<1>4. CASE OpenJob(c)
  <2>1. ~reminded /\ UNCHANGED <<reminded, reminders, deaths>> /\ call[c] = NoCall
    BY <1>4 DEF OpenJob
  <2>2. \A d \in Callers : call'[d].op = IF d = c THEN "remind" ELSE call[d].op
    BY <1>4 DEF OpenJob, FilesTypeOK
  <2>3. Recording' = Recording
    BY <2>1, <2>2 DEF Recording, NoCall
  <2> QED BY <2>1, <2>3 DEF Counted
<1>5. CASE Remind(c)
  <2>1. /\ call[c].op = "remind" /\ reminders' = reminders + 1
        /\ UNCHANGED <<reminded, deaths>>
    BY <1>5 DEF Remind
  <2>2. \A d \in Callers : call'[d].op = IF d = c THEN "record" ELSE call[d].op
    BY <1>5 DEF Remind, FilesTypeOK
  <2>3. Reminding' = Reminding \ {c} /\ Recording' = Recording \cup {c}
    BY <2>2 DEF Reminding, Recording
  <2>4. c \in Reminding /\ c \notin Recording
    BY <2>1 DEF Reminding, Recording
  <2> QED BY <1>1, <1>2, <2>1, <2>3, <2>4 DEF Counted
<1>6. CASE Record(c)
  <2>1. /\ call[c].op = "record" /\ reminded' = TRUE /\ UNCHANGED <<reminders, deaths>>
        /\ call' = [call EXCEPT ![c] = NoCall]
    BY <1>6 DEF Record
  <2>2. Reminding' = Reminding
    BY <2>1, OneMoves DEF Reminding, NoCall
  <2>3. CASE reminded
    BY <2>1, <2>2, <2>3 DEF Counted
  <2>4. CASE ~reminded
    <3>1. Reminding \cup Recording \in SUBSET Callers /\ Reminding \cap Recording = {}
      BY DEF Reminding, Recording
    <3>2. Cardinality(Reminding \cup Recording) = Cardinality(Reminding) + Cardinality(Recording)
      <4>1. IsFiniteSet(Reminding) /\ IsFiniteSet(Recording)
        BY <1>1
      <4>2. Cardinality(Reminding \cup Recording) = Cardinality(Reminding)
              + Cardinality(Recording) - Cardinality(Reminding \cap Recording)
        BY <4>1, FS_Union
      <4> QED BY <1>2, <3>1, <4>2, FS_EmptySet
    <3>3. Cardinality(Reminding) + Cardinality(Recording) <= Cardinality(Callers)
      BY <3>1, <3>2
    <3> QED BY <1>1, <1>2, <2>1, <2>2, <2>4, <3>3 DEF Counted
  <2> QED BY <2>3, <2>4
<1>7. CASE Drop(c)
  <2>1. /\ deaths' = IF call[c].op = "record" THEN deaths + 1 ELSE deaths
        /\ UNCHANGED <<reminded, reminders>>
        /\ call' = [call EXCEPT ![c] = NoCall]
    BY <1>7 DEF Drop
  <2>2. Reminding' = Reminding \ {c} /\ Recording' = Recording \ {c}
    <3>1. NoCall.op = "none"
      BY DEF NoCall
    <3> QED BY <2>1, <3>1, OneMoves
  <2>3. c \in Recording <=> call[c].op = "record"
    BY DEF Recording
  <2> QED BY <1>1, <1>2, <2>1, <2>2, <2>3 DEF Counted
<1> QED BY <1>3, <1>4, <1>5, <1>6, <1>7

\* file_services.py:198: no more reminders than requests open the job at the same
\* time, and one more for each worker that died in between.
THEOREM FewReminders == FilesSpec => []RemindersAreFew
<1>1. FilesInit => Counted
  BY ReminderStart
<1>2. FilesTypeOK /\ Counted /\ [FilesNext]_filesVars => Counted'
  <2> SUFFICES ASSUME FilesTypeOK, Counted, [FilesNext]_filesVars PROVE Counted'
    OBVIOUS
  <2>1. ASSUME NEW row \in Imported \cup Uploads, AddFile(row) PROVE Counted'
    BY <2>1 DEF AddFile, Counted, Reminding, Recording
  <2>2. CASE UNCHANGED filesVars
    BY <2>2 DEF filesVars, Counted, Reminding, Recording
  <2> QED BY <2>1, <2>2, ReminderStep DEF FilesNext
<1>3. FilesTypeOK /\ Counted => RemindersAreFew
  BY InvFew DEF ReminderInv
<1> QED BY <1>1, <1>2, <1>3, FilesTypeCorrect, PTL DEF FilesSpec

-----------------------------------------------------------------------------
(* The desk: an instance of the one or of the other *)

\* What a run of the desk does to the part that is at work is what its own
\* module says, and the other part is left alone: artwork metadata, files and
\* requests keep their types for any number of requests (jobs/views.py).
THEOREM DeskTypeCorrect == DeskSpec => []DeskTypeOK
<1>1. DeskInit => GateInv /\ FilesInv
  BY GateInit, FilesStart DEF DeskInit
<1>2. GateInv /\ FilesInv /\ [DeskNext]_deskVars => GateInv' /\ FilesInv'
  <2>1. [DeskNext]_deskVars => [Next]_vars /\ [FilesNext]_filesVars
    BY DEF DeskNext, deskVars
  <2> QED BY <2>1, GateStep, FilesStep
<1>3. GateInv /\ FilesInv => DeskTypeOK
  BY DEF GateInv, FilesInv, DeskTypeOK
<1> QED BY <1>1, <1>2, <1>3, PTL DEF DeskSpec
=============================================================================
