------------------------------ MODULE JobFiles ------------------------------
(***************************************************************************)
(* The files of one `ManagedJob` (jobs/file_services.py) and the verdicts  *)
(* on its proofs: a proof waits for the manager, who releases it to the    *)
(* client or withholds it, and the client answers what was released.       *)
(*                                                                         *)
(* A view loads the file without a lock and a service checks what was      *)
(* loaded; the service then saves two or three of its columns.  Between    *)
(* the two the row may have changed.  The names are prefixed, so that this *)
(* module can be checked next to ArtworkGate, which shares no variable     *)
(* with it: there the job's artwork is one flag.                           *)
(***************************************************************************)
EXTENDS Naturals, Sequences, FiniteSets

CONSTANTS
    Callers,        \* requests in progress at the same time
    MaxFiles,       \* bound: files of the job
    MaxDeaths       \* bound: workers that die between a reminder and its record

ASSUME FilesAssumption ==
    /\ IsFiniteSet(Callers) /\ Callers # {}
    /\ MaxFiles \in Nat \ {0} /\ MaxDeaths \in Nat

VARIABLES
    files,          \* the JobFile rows, in the order of their ids
    reminded,       \* ManagedJob.artwork_reminder_sent
    call,           \* per request: what it does, to which file, and the row it loaded
    released,       \* the files a manager has released to the client
    reminders,      \* reminders sent
    deaths          \* workers that died after a reminder, before its record

filesVars == <<files, reminded, call, released, reminders, deaths>>

FileStatus == {"uploaded", "manager_review", "manager_approved", "manager_rejected",
               "proof_approved", "proof_rejected", "revision_requested", "print_ready"}

JobFile == [type       : {"artwork", "customer_upload", "proof", "print_ready"},
            visibility : {"client", "partner", "shop"},
            status     : FileStatus]

Artwork      == [type |-> "artwork", visibility |-> "client", status |-> "uploaded"]
Attachment   == [type |-> "customer_upload", visibility |-> "client", status |-> "uploaded"]
ShopProof    == [type |-> "proof", visibility |-> "shop", status |-> "uploaded"]
Proof        == [type |-> "proof", visibility |-> "partner", status |-> "manager_review"]
PrintReady   == [type |-> "print_ready", visibility |-> "shop", status |-> "print_ready"]

\* What is imported from the quote and its request, and what users upload.
Imported == {Attachment, ShopProof}
Uploads  == {Artwork, Proof}

Verdicts == {"release", "withhold", "approve", "reject", "revise", "print"}

NoCall == [op |-> "none", file |-> 0, seen |-> Artwork]

HasArtwork == \E f \in DOMAIN files : files[f].type \in {"artwork", "customer_upload"}

FilesTypeOK ==
    /\ files \in Seq(JobFile) /\ Len(files) <= MaxFiles
    /\ reminded \in BOOLEAN
    /\ call \in [Callers -> [op   : Verdicts \cup {"none", "remind", "record"},
                             file : 0 .. MaxFiles, seen : JobFile]]
    /\ released \subseteq DOMAIN files
    /\ reminders \in Nat /\ deaths \in 0 .. MaxDeaths

\* The job was just created: it has the files of its quote and request, and the
\* first reminder was sent if none of them is artwork (managed_services.py:364;
\* a job made by a payment sends none).
FilesInit ==
    /\ files \in {<<>>, <<Attachment>>, <<ShopProof>>}
    /\ reminded \in (IF HasArtwork THEN {FALSE} ELSE BOOLEAN)
    /\ reminders = IF reminded THEN 1 ELSE 0
    /\ call = [c \in Callers |-> NoCall]
    /\ released = {} /\ deaths = 0

-----------------------------------------------------------------------------
(***************************************************************************)
(* New files.                                                              *)
(***************************************************************************)

\* upload_artwork_for_managed_job, upload_proof_for_managed_job, and the import
\* of an attachment, which the row's uniqueness keeps from happening twice.
AddFile(row) ==
    /\ Len(files) < MaxFiles
    /\ files' = Append(files, row)
    /\ UNCHANGED <<reminded, call, released, reminders, deaths>>

-----------------------------------------------------------------------------
(***************************************************************************)
(* Verdicts.                                                               *)
(***************************************************************************)

Waiting(row) == row.type = "proof" /\ row.status = "manager_review"

\* The client is asked about a proof only while it is released; about any other
\* file nobody checks.
Asked(row) == row.type = "proof" => row.status = "manager_approved"

\* Mutant: a revision may be asked for whatever the proof's status is.
MayRevise(op, row) ==
    \/ op \in {"release", "withhold"} /\ Waiting(row)
    \/ op = "approve"                 /\ row.type = "proof" /\ Asked(row)
    \/ op = "reject"                  /\ Asked(row)
    \/ op \in {"revise", "print"}

\* Mutant: the view calls the manager's approval for every status its service
\* takes, and not only for a proof that waits.
MayReleaseAgain(op, row) ==
    \/ op = "release"                 /\ row.type = "proof"
                                      /\ row.status \in {"manager_review", "manager_rejected",
                                                         "revision_requested"}
    \/ op = "withhold"                /\ Waiting(row)
    \/ op = "approve"                 /\ row.type = "proof" /\ Asked(row)
    \/ op \in {"reject", "revise"}    /\ Asked(row)
    \/ op = "print"

\* What the view and the service ask of the row that was loaded.  An approval
\* or rejection by the manager of a proof that waits is a release or withhold;
\* of any other it is the client's.  Print ready is asked of no status.
MayJudge(op, row) ==
    \/ op \in {"release", "withhold"} /\ Waiting(row)
    \/ op = "approve"                 /\ row.type = "proof" /\ Asked(row)
    \/ op \in {"reject", "revise"}    /\ Asked(row)
    \/ op = "print"

\* The columns the service saves: `row` is the row as it is then.
Judged(op, row) ==
    CASE op = "release"  -> [row EXCEPT !.status = "manager_approved", !.visibility = "client"]
      [] op = "withhold" -> [row EXCEPT !.status = "manager_rejected", !.visibility = "partner"]
      [] op = "approve"  -> [row EXCEPT !.status = "proof_approved"]
      [] op = "reject"   -> [row EXCEPT !.status = "proof_rejected"]
      [] op = "revise"   -> [row EXCEPT !.status = "revision_requested"]
      [] op = "print"    -> PrintReady

\* JobFileActionView and ManagerJobProofApprovalView load the file and check it.
OpenFile(c, op, f) ==
    /\ call[c] = NoCall
    /\ MayJudge(op, files[f])
    /\ call' = [call EXCEPT ![c] = [op |-> op, file |-> f, seen |-> files[f]]]
    /\ UNCHANGED <<files, reminded, released, reminders, deaths>>

\* The service saves.
SaveVerdict(c) ==
    /\ call[c].op \in Verdicts
    /\ files' = [files EXCEPT ![call[c].file] = Judged(call[c].op, @)]
    /\ released' = IF call[c].op = "release" THEN released \cup {call[c].file} ELSE released
    /\ call' = [call EXCEPT ![c] = NoCall]
    /\ UNCHANGED <<reminded, reminders, deaths>>

-----------------------------------------------------------------------------
(***************************************************************************)
(* The reminder for missing artwork.                                       *)
(***************************************************************************)

\* Mutant: the job that was loaded is not asked whether it was reminded.
OpenJobAgain(c) ==
    /\ call[c] = NoCall
    /\ call' = [call EXCEPT ![c].op = "remind"]
    /\ UNCHANGED <<files, reminded, released, reminders, deaths>>

\* PartnerJobListDetailView.get: the manager opens the job.
OpenJob(c) ==
    /\ call[c] = NoCall
    /\ ~reminded
    /\ call' = [call EXCEPT ![c].op = "remind"]
    /\ UNCHANGED <<files, reminded, released, reminders, deaths>>

\* notify_missing_artwork: the notifications and the e-mail ...
Remind(c) ==
    /\ call[c].op = "remind"
    /\ ~HasArtwork
    /\ reminders' = reminders + 1
    /\ call' = [call EXCEPT ![c].op = "record"]
    /\ UNCHANGED <<files, reminded, released, deaths>>

\* ... and only then the record that they were sent.
Record(c) ==
    /\ call[c].op = "record"
    /\ reminded' = TRUE
    /\ call' = [call EXCEPT ![c] = NoCall]
    /\ UNCHANGED <<files, released, reminders, deaths>>

\* The request ends without effect, or its worker dies.
Drop(c) ==
    /\ call[c] # NoCall
    /\ deaths' = IF call[c].op = "record" THEN deaths + 1 ELSE deaths
    /\ deaths' <= MaxDeaths
    /\ call' = [call EXCEPT ![c] = NoCall]
    /\ UNCHANGED <<files, reminded, released, reminders>>

FilesNext ==
    \/ \E row \in Imported \cup Uploads : AddFile(row)
    \/ \E c \in Callers :
          \/ \E op \in Verdicts, f \in DOMAIN files : OpenFile(c, op, f)
          \/ SaveVerdict(c) \/ OpenJob(c) \/ Remind(c) \/ Record(c) \/ Drop(c)

FilesSpec == FilesInit /\ [][FilesNext]_filesVars

-----------------------------------------------------------------------------
(***************************************************************************)
(* Properties.                                                             *)
(***************************************************************************)

\* get_visible_job_files_for_actor: what the client is shown.
ClientSees(row) ==
    /\ row.visibility \in {"client", "partner"}
    /\ row.type \in {"artwork", "customer_upload", "proof"}
    /\ ~(row.type = "proof" /\ row.status \in {"manager_review", "manager_rejected", "proof_rejected"})

ClientAnswered == {"proof_approved", "proof_rejected", "revision_requested"}

\* file_services.py:395 and 604: the filter of the client's list and the checks
\* of five services agree, whatever order stale verdicts are saved in: no proof
\* is shown to the client, and none carries his answer, before a manager
\* released it.
ClientSeesReleased ==
    \A f \in DOMAIN files :
        files[f].type = "proof" /\ (ClientSees(files[f]) \/ files[f].status \in ClientAnswered)
            => f \in released

\* views.py:973 and file_services.py:604: a verdict on a proof stands, be it a
\* refusal or an approval, the manager's or the client's.  Only the shop's print
\* ready, and a request that loaded the proof before the verdict, replace it.
VerdictsStand ==
    [][\A f \in DOMAIN files :
          files[f].type = "proof" /\ files[f].status \in ClientAnswered \cup {"manager_rejected"}
              /\ files'[f] # files[f]
          => \/ files'[f].type = "print_ready"
             \/ \E c \in Callers : call[c].file = f /\ call[c].seen # files[f] /\ call'[c] = NoCall
      ]_filesVars

\* file_services.py:198: the flag is read with the job and saved after the mail
\* is out, yet one job sends no more reminders than managers open it at the
\* same time, and one more per worker that died in between.
RemindersAreFew == reminders <= Cardinality(Callers) + deaths
=============================================================================
